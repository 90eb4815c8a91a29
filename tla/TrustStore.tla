----------------------------- MODULE TrustStore -----------------------------
(***************************************************************************)
(* What the trust records of a viewer promise their user, whatever         *)
(* crashes and failed writes happen underneath: trust in a peer comes only *)
(* from a pairing, and goes only when a caller asked to forget the peer,   *)
(* once per request, with all of its aliases in one step.                  *)
(***************************************************************************)
CONSTANTS Ids, Identities, NONE

VARIABLES
    quic,     \* per peer id: the QUIC identity confirmed for it, or NONE
    paired,   \* peer ids whose configuration pins the peer's signing key
    configs,  \* peer ids with a configuration
    request,  \* the request being worked on, [peer, remove], or NONE
    recent    \* ids that connections paired since a request was last planned

trustVars == <<quic, paired, configs, request, recent>>

Init ==
    /\ quic \in [Ids -> Identities \cup {NONE}]
    /\ configs \in SUBSET Ids /\ paired \in SUBSET configs
    /\ request = NONE /\ recent = {}

\* A caller asks to reset a peer's pairing or to remove the peer.
Ask(peer, remove) ==
    /\ request = NONE
    /\ request' = [peer |-> peer, remove |-> remove]
    /\ UNCHANGED <<quic, paired, configs, recent>>

\* What to forget is decided: pairings from here on are newer than the request.
Plan ==
    /\ request # NONE
    /\ recent' = {}
    /\ UNCHANGED <<quic, paired, configs, request>>

\* The request is carried out on the peer and the group of ids that share its
\* identity, or dropped without an effect.  Any group is allowed: which ids share the
\* identity is not part of what is promised here (IdentityForgotten is about that).
Forget(group) ==
    /\ request # NONE
    /\ quic' = [i \in Ids |-> IF i \in group THEN NONE ELSE quic[i]]
    /\ paired' = paired \ (group \cup {request.peer})
    /\ configs' = IF request.remove THEN configs \ {request.peer} ELSE configs
    /\ request' = NONE
    /\ UNCHANGED recent
Abandon ==
    /\ request # NONE /\ request' = NONE
    /\ UNCHANGED <<quic, paired, configs, recent>>

\* Connections pair with peers: nothing is forgotten, and trust appears only for
\* peers that a connection paired; it may take effect later than it was stored.
Pair ==
    /\ recent' \in SUBSET Ids /\ recent \subseteq recent'
    /\ \A i \in Ids \ recent' :
        /\ quic'[i] = quic[i]
        /\ i \in paired' => i \in paired
        /\ i \in configs' => i \in configs
    /\ quic' \in [Ids -> Identities \cup {NONE}]
    /\ \A i \in Ids : quic'[i] = NONE => quic[i] = NONE
    /\ paired' \in SUBSET Ids /\ paired \subseteq paired'
    /\ configs' \in SUBSET Ids /\ configs \subseteq configs'
    /\ UNCHANGED request

Next ==
    \/ \E peer \in Ids, remove \in BOOLEAN : Ask(peer, remove)
    \/ \E group \in SUBSET Ids : Forget(group)
    \/ Plan \/ Abandon \/ Pair

Spec == Init /\ [][Next]_trustVars
=============================================================================
