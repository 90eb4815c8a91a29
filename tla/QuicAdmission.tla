---------------------------- MODULE QuicAdmission ---------------------------
(***************************************************************************)
(* Admission of QUIC connections that are not authenticated yet            *)
(* (quic_transport/admission.rs), with the listener and the tasks that     *)
(* establish them (quic_transport.rs).  A connection holds a ticket from   *)
(* its first packet until it is established or has failed, and a permit of *)
(* one of two pools while it is authenticated; a session holds neither.    *)
(* A listener that stops is replaced by one with counters and pools of its *)
(* own, while tasks of the old one still hold the old ones.                *)
(*                                                                         *)
(* Definitions whose name ends in Defect carry a seeded bug; no            *)
(* specification uses them, they measure what the properties can see.      *)
(***************************************************************************)
EXTENDS Integers, FiniteSets

CONSTANTS
    Connections,   \* incoming connections
    Sources,       \* source keys: IPv4 addresses, IPv6 prefixes of 64 bits
    MAX_QUIC_PENDING, MAX_QUIC_PENDING_PER_SOURCE, QUIC_RETRY_THRESHOLD,
    MAX_TRUSTED_PIN_AUTHENTICATIONS, MAX_FIRST_CONTACT_AUTHENTICATIONS,
    LISTENERS      \* bound on the listeners of a behaviour

ASSUME AdmissionConstants ==
    /\ IsFiniteSet(Connections)
    /\ MAX_QUIC_PENDING \in Nat /\ MAX_QUIC_PENDING_PER_SOURCE \in Nat \ {0}
    /\ QUIC_RETRY_THRESHOLD \in Nat
    /\ MAX_TRUSTED_PIN_AUTHENTICATIONS \in Nat /\ MAX_FIRST_CONTACT_AUTHENTICATIONS \in Nat
    /\ LISTENERS \in Nat \ {0}

VARIABLES
    listener,           \* the listener that accepts
    total, per_source,  \* PendingConnections of every listener
    conn                \* the connections under way

vars == <<listener, total, per_source, conn>>

Pools == {"trusted_pin", "first_contact"}
Conn == [source : Sources, validated : BOOLEAN, listener : 1..LISTENERS,
         stage : {"handshake", "authenticating", "dropping", "session"},
         ok : BOOLEAN,                    \* how establish_incoming ends
         pool : Pools \cup {"none"}]

Semaphore(pool) == IF pool = "trusted_pin" THEN MAX_TRUSTED_PIN_AUTHENTICATIONS
                   ELSE MAX_FIRST_CONTACT_AUTHENTICATIONS

\* Connections that hold a ticket of listener l, those of one source, and those
\* that hold a permit.
Ticketed(l) == {c \in DOMAIN conn : conn[c].stage # "session" /\ conn[c].listener = l}
TicketedFrom(l, s) == {c \in Ticketed(l) : conn[c].source = s}
Permitted(l, pool) == {c \in DOMAIN conn : conn[c].listener = l /\ conn[c].pool = pool}

-----------------------------------------------------------------------------

\* incoming_decision
DecisionDefect(pending, from_source, validated, may_retry) ==   \* only load asks for a proof
    IF pending >= MAX_QUIC_PENDING \/ from_source >= MAX_QUIC_PENDING_PER_SOURCE THEN "Refuse"
    ELSE IF ~validated /\ pending >= QUIC_RETRY_THRESHOLD
         THEN IF may_retry THEN "Retry" ELSE "Refuse"
    ELSE "Admit"
DecisionLoadDefect(pending, from_source, validated, may_retry) ==   \* load never does
    IF pending >= MAX_QUIC_PENDING \/ from_source >= MAX_QUIC_PENDING_PER_SOURCE THEN "Refuse"
    ELSE IF ~validated /\ from_source > 0
         THEN IF may_retry THEN "Retry" ELSE "Refuse"
    ELSE "Admit"
Decision(pending, from_source, validated, may_retry) ==
    IF pending >= MAX_QUIC_PENDING \/ from_source >= MAX_QUIC_PENDING_PER_SOURCE THEN "Refuse"
    ELSE IF ~validated /\ (pending >= QUIC_RETRY_THRESHOLD \/ from_source > 0)
         THEN IF may_retry THEN "Retry" ELSE "Refuse"
    ELSE "Admit"

\* A source without tickets has no entry.
FromSource(l, s) == IF s \in DOMAIN per_source[l] THEN per_source[l][s] ELSE 0

\* The listener takes a first packet and HandshakeAdmission::admit admits it.  The
\* other answers change nothing here: after a Retry the peer comes back validated.
Admit(c, s, validated, may_retry) ==
    /\ c \notin DOMAIN conn
    /\ Decision(total[listener], FromSource(listener, s), validated, may_retry) = "Admit"
    /\ total' = [total EXCEPT ![listener] = @ + 1]
    /\ per_source' = [per_source EXCEPT ![listener] =
                         [t \in DOMAIN @ \cup {s} |->
                             IF t = s THEN FromSource(listener, s) + 1 ELSE @[t]]]
    /\ conn' = [d \in DOMAIN conn \cup {c} |->
                   IF d = c THEN [source |-> s, validated |-> validated, listener |-> listener,
                                  stage |-> "handshake", ok |-> FALSE, pool |-> "none"]
                   ELSE conn[d]]
    /\ UNCHANGED listener

\* establish_incoming: the TLS handshake is done, the trust store says to which
\* pool the certificate belongs, and that pool has a permit.
TryAcquire(c, pool) ==
    /\ c \in DOMAIN conn /\ conn[c].stage = "handshake"
    /\ Cardinality(Permitted(conn[c].listener, pool)) < Semaphore(pool)
    /\ conn' = [conn EXCEPT ![c].stage = "authenticating", ![c].pool = pool]
    /\ UNCHANGED <<listener, total, per_source>>

\* The timed block of establish_incoming ends and with it the permit: the
\* application stream is up, or the handshake, the pool, the authentication or the
\* setup failed, or the deadline passed.
Leave(c, ok) ==
    /\ conn' = [conn EXCEPT ![c].stage = "dropping", ![c].ok = ok, ![c].pool = "none"]
    /\ UNCHANGED <<listener, total, per_source>>
Established(c) == c \in DOMAIN conn /\ conn[c].stage = "authenticating" /\ Leave(c, TRUE)
FailedDefect(c) ==   \* no deadline on the authentication
    c \in DOMAIN conn /\ conn[c].stage = "handshake" /\ Leave(c, FALSE)
Failed(c) ==
    c \in DOMAIN conn /\ conn[c].stage \in {"handshake", "authenticating"} /\ Leave(c, FALSE)

\* PendingTicket::drop: the entry of a source loses one, and goes when nothing is left.
Decrement(p, s) ==
    IF s \notin DOMAIN p THEN p
    ELSE IF p[s] = 1 THEN [t \in DOMAIN p \ {s} |-> p[t]]
    ELSE [p EXCEPT ![s] = @ - 1]

DropTicketDefect(l, s) ==   \* the counters of the listener that accepts now
    /\ total' = [total EXCEPT ![listener] = IF @ > 0 THEN @ - 1 ELSE 0]
    /\ per_source' = [per_source EXCEPT ![listener] = Decrement(@, s)]
DropTicket(l, s) ==
    /\ total' = [total EXCEPT ![l] = IF @ > 0 THEN @ - 1 ELSE 0]
    /\ per_source' = [per_source EXCEPT ![l] = Decrement(@, s)]

\* The ticket is dropped after the timed block; then the session runs, or the task ends.
Drop(c) ==
    /\ c \in DOMAIN conn /\ conn[c].stage = "dropping"
    /\ DropTicket(conn[c].listener, conn[c].source)
    /\ conn' = IF conn[c].ok THEN [conn EXCEPT ![c].stage = "session"]
               ELSE [d \in DOMAIN conn \ {c} |-> conn[d]]
    /\ UNCHANGED listener

EndSession(c) ==
    /\ c \in DOMAIN conn /\ conn[c].stage = "session"
    /\ conn' = [d \in DOMAIN conn \ {c} |-> conn[d]]
    /\ UNCHANGED <<listener, total, per_source>>

\* run_direct_server starts over after an error or a change of the configuration.
Restart ==
    /\ listener < LISTENERS
    /\ listener' = listener + 1
    /\ UNCHANGED <<total, per_source, conn>>

Init ==
    /\ listener = 1
    /\ total = [l \in 1..LISTENERS |-> 0]
    /\ per_source = [l \in 1..LISTENERS |-> [s \in {} |-> 0]]
    /\ conn = [c \in {} |-> 0]

Step(c) ==
    \/ \E s \in Sources, validated, may_retry \in BOOLEAN : Admit(c, s, validated, may_retry)
    \/ \E pool \in Pools : TryAcquire(c, pool)
    \/ Established(c) \/ Failed(c) \/ Drop(c) \/ EndSession(c)

Next == Restart \/ \E c \in Connections : Step(c)

Spec == Init /\ [][Next]_vars

\* The deadline ends every attempt, and the task then runs on.
FairSpec == Spec /\ \A c \in Connections : WF_vars(Failed(c)) /\ WF_vars(Drop(c))

-----------------------------------------------------------------------------
(* Properties *)

\* Counters and connections have their types, and the map of sources keeps no
\* entry at zero: PendingTicket::drop removes it.
TypeOK ==
    /\ listener \in 1..LISTENERS
    /\ total \in [1..LISTENERS -> Nat]
    /\ DOMAIN per_source = 1..LISTENERS
    /\ \A l \in 1..LISTENERS :
        /\ DOMAIN per_source[l] \subseteq Sources
        /\ \A s \in DOMAIN per_source[l] : per_source[l][s] \in Nat \ {0}
    /\ DOMAIN conn \subseteq Connections
    /\ \A c \in DOMAIN conn : conn[c] \in Conn

\* The counters of a listener are its tickets alive, in total and per source, and
\* keep the limits: no error path, deadline, established session or restart of the
\* listener loses a ticket, keeps one, or gives it back to another listener.
Counted ==
    \A l \in 1..LISTENERS :
        /\ total[l] = Cardinality(Ticketed(l))
        /\ total[l] <= MAX_QUIC_PENDING
        /\ \A s \in Sources :
            /\ FromSource(l, s) = Cardinality(TicketedFrom(l, s))
            /\ FromSource(l, s) <= MAX_QUIC_PENDING_PER_SOURCE

\* "spoofed packets cannot fill the remaining slots or a victim's per-source quota"
\* (incoming_decision): of the connections whose source is not proven, at most one
\* per source is pending, and the last of them came in below the retry threshold,
\* whatever the validated connections did in between.
Unproven(l) == {c \in Ticketed(l) : ~conn[c].validated}
SpoofingBounded ==
    \A l \in 1..LISTENERS :
        /\ \A c, d \in Unproven(l) : conn[c].source = conn[d].source => c = d
        /\ Cardinality(Unproven(l)) <= QUIC_RETRY_THRESHOLD

\* Every pending connection ends its pending phase, so its slot comes back, a
\* connection that stalls in its authentication included.
TicketsReturn ==
    \A c \in Connections :
        (c \in DOMAIN conn /\ conn[c].stage # "session")
            ~> (c \notin DOMAIN conn \/ conn[c].stage = "session")
=============================================================================
