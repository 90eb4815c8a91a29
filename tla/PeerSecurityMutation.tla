------------------------ MODULE PeerSecurityMutation ------------------------
(***************************************************************************)
(* PeerSecurityRepository (common/peer_security_mutation.rs): forgetting a *)
(* peer touches the QUIC trust store and several configuration files, so   *)
(* the plan is first persisted as a journal, applied step by step, marked  *)
(* committed and removed.  Every call first completes a journal an earlier *)
(* call left behind; the viewer does so before it connects.                *)
(*                                                                         *)
(* Calls hold MUTATION_LOCK from start to end, so one is under way at a    *)
(* time; pairings are stored by connections that do not take that lock.    *)
(* Of the pairing options of a configuration the model keeps the pinned    *)
(* signing key, which nothing but this repository ever removes.            *)
(* Any write may fail, and the process may crash between any two steps.    *)
(* Definitions whose name ends in Defect carry a seeded bug; no            *)
(* specification uses them, they measure what the properties can see.      *)
(***************************************************************************)
EXTENDS Integers

CONSTANTS
    Ids,          \* peer ids
    Identities,   \* QUIC identity keys with their certificate pins
    NONE,
    MaxMutations, \* bound: mutations asked for
    MaxPairings,  \* bound: pairings stored
    MaxFaults     \* bound: failed operations and crashes

Mutation == [peer : Ids, remove : BOOLEAN]
Parts == [quic : SUBSET Ids, config : SUBSET Ids, remove : BOOLEAN]
JournalType ==
    [committed : BOOLEAN, remove : BOOLEAN, peer : Ids, identity : Identities \cup {NONE},
     config_ids : SUBSET Ids, quic_ids : SUBSET Ids]

ASSUME PeerConstants ==
    /\ NONE \notin Identities \cup Mutation \cup Parts \cup JournalType
    /\ {MaxMutations, MaxPairings, MaxFaults} \subseteq Nat

VARIABLES
    quic,      \* the QUIC trust store: per peer id an identity or NONE
    paired,    \* peer ids whose configuration pins the peer's signing key
    configs,   \* peer ids with a configuration file
    journal,   \* the journal file, or NONE
    pc,        \* what the call under way does next, "idle" if there is none
    call,      \* that call: its mutation, or NONE for list and recover_pending
    plan,      \* the journal it completes or is about to persist
    todo,      \* parts of the plan not applied yet
    fresh,     \* history: ids paired since a mutation was last planned
    mutations, pairings, faults

disk == <<quic, paired, configs, journal>>
memory == <<pc, call, plan, todo>>
counts == <<mutations, pairings, faults>>
vars == <<disk, memory, fresh, counts>>

-----------------------------------------------------------------------------
(* Journals *)

\* planned_quic_peer_ids: all ids with the peer's identity.
AliasesDefect(peer) == IF quic[peer] = NONE THEN {} ELSE {peer}   \* no aliases
Aliases(peer) == IF quic[peer] = NONE THEN {} ELSE {i \in Ids : quic[i] = quic[peer]}

\* PeerSecurityMutationJournal::prepare; `identity' only serves the properties.
Prepared(m) ==
    [committed |-> FALSE, remove |-> m.remove, peer |-> m.peer, identity |-> quic[m.peer],
     config_ids |-> {m.peer} \cup Aliases(m.peer), quic_ids |-> Aliases(m.peer)]

\* A call starts to apply j: apply_journal's three parts.
Apply(j) ==
    /\ pc' = "apply" /\ plan' = j
    /\ todo' = [quic |-> j.quic_ids, config |-> j.config_ids, remove |-> j.remove]

-----------------------------------------------------------------------------
(* The repository's calls *)

\* mutate, list or recover_pending takes the lock.
Call(m) ==
    /\ pc = "idle"
    /\ call' = m /\ pc' = "load"
    /\ IF m = NONE THEN UNCHANGED mutations
       ELSE mutations < MaxMutations /\ mutations' = mutations + 1
    /\ UNCHANGED <<disk, plan, todo, fresh, pairings, faults>>

\* The call returns, with or without an error, and releases the lock.
Return == pc' = "idle" /\ call' = NONE /\ plan' = NONE /\ todo' = NONE

\* recover_pending_with has completed: mutate goes on to its own plan.
Recovered ==
    IF call = NONE THEN Return
    ELSE pc' = "prepare" /\ UNCHANGED <<call, plan, todo>>

\* load_journal and complete_journal's decision on what it found.  A journal that cannot
\* be parsed, an error each time it is read, is left out: writes are atomic, so none of
\* the steps here leaves one.
ReplaysDefect(j) == j # NONE   \* replays a committed journal
Replays(j) == j # NONE /\ ~j.committed
LoadDefect ==   \* only mutate recovers
    /\ pc = "load"
    /\ \/ (journal = NONE \/ call = NONE) /\ Recovered
       \/ call # NONE /\ Replays(journal) /\ Apply(journal) /\ UNCHANGED call
    /\ UNCHANGED <<disk, fresh, counts>>
Load ==
    /\ pc = "load"
    /\ \/ journal = NONE /\ Recovered
       \/ journal # NONE /\ ~Replays(journal) /\ pc' = "cleanup" /\ UNCHANGED <<call, plan, todo>>
       \/ Replays(journal) /\ Apply(journal) /\ UNCHANGED call
    /\ UNCHANGED <<disk, fresh, counts>>

\* remove_quic_ids
ApplyQuic(i) ==
    /\ pc = "apply" /\ i \in todo.quic
    /\ quic' = [quic EXCEPT ![i] = NONE]
    /\ todo' = [todo EXCEPT !.quic = @ \ {i}]
    /\ UNCHANGED <<paired, configs, journal, pc, call, plan, fresh, counts>>
\* clear_pairing
ApplyConfig(i) ==
    /\ pc = "apply" /\ todo.quic = {} /\ i \in todo.config
    /\ paired' = paired \ {i}
    /\ todo' = [todo EXCEPT !.config = @ \ {i}]
    /\ UNCHANGED <<quic, configs, journal, pc, call, plan, fresh, counts>>
\* remove_peer_config; pairing options go with the file that holds them.
ApplyRemove ==
    /\ pc = "apply" /\ todo.quic = {} /\ todo.config = {} /\ todo.remove
    /\ configs' = configs \ {plan.peer} /\ paired' = paired \ {plan.peer}
    /\ todo' = [todo EXCEPT !.remove = FALSE]
    /\ UNCHANGED <<quic, journal, pc, call, plan, fresh, counts>>

AppliedDefect == todo.quic = {} /\ todo.config = {}   \* forgets the third part
Applied == todo.quic = {} /\ todo.config = {} /\ ~todo.remove

\* The journal is persisted as committed, then removed; a failed removal is
\* only logged.
Commit ==
    /\ pc = "apply" /\ Applied
    /\ journal' = [plan EXCEPT !.committed = TRUE]
    /\ pc' = "cleanup"
    /\ UNCHANGED <<quic, paired, configs, call, plan, todo, fresh, counts>>

\* cleanup_journal ends a recovery (the call goes on) or the call's own mutation,
\* whose request Persist has taken off.
Cleanup ==
    /\ pc = "cleanup"
    /\ journal' = NONE \/ (journal' = journal /\ faults < MaxFaults)
    /\ faults' = IF journal' = NONE THEN faults ELSE faults + 1
    /\ Recovered
    /\ UNCHANGED <<quic, paired, configs, fresh, mutations, pairings>>

Prepare ==
    /\ pc = "prepare"
    /\ plan' = Prepared(call) /\ pc' = "persist"
    /\ fresh' = {}
    /\ UNCHANGED <<disk, call, todo, counts>>
Persist ==
    /\ pc = "persist"
    /\ journal' = plan /\ call' = NONE
    /\ Apply(plan)
    /\ UNCHANGED <<quic, paired, configs, fresh, counts>>

\* A read or write fails and the call returns the error; or the process dies.
Fault ==
    /\ pc # "idle" /\ faults < MaxFaults
    /\ Return
    /\ faults' = faults + 1
    /\ UNCHANGED <<disk, fresh, mutations, pairings>>

-----------------------------------------------------------------------------
(* Connections *)

\* A connection stores a peer's QUIC identity, new or in place of another, or pins
\* its signing key; a session that stores the whole configuration it loaded before
\* the key was cleared also brings it back.
PairQuic(i, k) ==
    /\ pairings < MaxPairings /\ pairings' = pairings + 1
    /\ quic' = [quic EXCEPT ![i] = k] /\ fresh' = fresh \cup {i}
    /\ UNCHANGED <<paired, configs, journal, memory, mutations, faults>>
PairConfig(i) ==
    /\ pairings < MaxPairings /\ pairings' = pairings + 1
    /\ paired' = paired \cup {i} /\ configs' = configs \cup {i} /\ fresh' = fresh \cup {i}
    /\ UNCHANGED <<quic, journal, memory, mutations, faults>>

Init ==
    /\ quic \in [Ids -> Identities \cup {NONE}]
    /\ configs \in SUBSET Ids /\ paired \in SUBSET configs
    /\ journal = NONE
    /\ pc = "idle" /\ call = NONE /\ plan = NONE /\ todo = NONE
    /\ fresh = {} /\ mutations = 0 /\ pairings = 0 /\ faults = 0

Step ==
    \/ Load \/ Commit \/ Cleanup \/ Prepare \/ Persist \/ ApplyRemove
    \/ \E i \in Ids : ApplyQuic(i) \/ ApplyConfig(i)
Next ==
    \/ \E m \in Mutation : Call(m)
    \/ Call(NONE)
    \/ Step \/ Fault
    \/ \E i \in Ids, k \in Identities : PairQuic(i, k)
    \/ \E i \in Ids : PairConfig(i)

Spec == Init /\ [][Next]_vars

\* A call that was made goes on, and sooner or later the viewer connects or lists
\* its peers; reads and writes do not fail for ever (MaxFaults).
FairSpec == Spec /\ WF_vars(Step) /\ WF_vars(Call(NONE))

-----------------------------------------------------------------------------
(* Properties *)

\* Files and the state of the call have their types, and the call's local state
\* is there when its next step needs it.
TypeOK ==
    /\ quic \in [Ids -> Identities \cup {NONE}]
    /\ configs \in SUBSET Ids /\ paired \in SUBSET Ids
    /\ journal \in JournalType \cup {NONE}
    /\ pc \in {"idle", "load", "apply", "cleanup", "prepare", "persist"}
    /\ call \in Mutation \cup {NONE}
    /\ plan \in JournalType \cup {NONE}
    /\ todo \in Parts \cup {NONE}
    /\ pc \in {"apply", "persist"} => plan # NONE
    /\ pc = "apply" => todo # NONE
    /\ pc \in {"prepare", "persist"} => call # NONE
    /\ fresh \in SUBSET Ids /\ {mutations, pairings, faults} \subseteq Nat

\* The trust a persisted, uncommitted journal has already taken away.
Pending == journal # NONE /\ ~journal.committed
TakenQuic == IF Pending THEN journal.quic_ids ELSE {}
TakenConfigs == IF Pending THEN journal.config_ids ELSE {}
TakenPeers == IF Pending /\ journal.remove THEN {journal.peer} ELSE {}

Trust == INSTANCE TrustStore WITH
    quic <- [i \in Ids |-> IF i \in TakenQuic THEN NONE ELSE quic[i]],
    paired <- paired \ TakenConfigs,
    configs <- configs \ TakenPeers,
    request <- call,
    recent <- fresh

\* Forgetting a peer is atomic, happens at most once per request and is the only
\* way trust is lost, and what was forgotten comes back only for an id that a
\* connection paired again, through any crashes, failed writes and recoveries:
\* persisting the journal is the one step at which a mutation takes effect.
AtomicForget == Trust!Spec

\* Write-ahead: what is being applied is what the journal on disk says, it is not
\* committed before all of it has been applied, and a call persists its own plan
\* only over a journal that is done with.
WriteAhead ==
    /\ pc = "apply" => journal = plan /\ ~plan.committed
    /\ pc = "cleanup" => ~Pending
    /\ pc \in {"prepare", "persist"} => ~Pending
    /\ pc = "apply" =>
        /\ \A i \in plan.quic_ids \ todo.quic : quic[i] = NONE \/ i \in fresh
        /\ \A i \in plan.config_ids \ todo.config : i \notin paired \/ i \in fresh
        /\ plan.remove /\ ~todo.remove => plan.peer \notin configs \/ plan.peer \in fresh

\* Once a mutation is committed, by the call that planned it or by the one that
\* recovers it after a crash, the identity the peer had is trusted under no id any
\* more, unless a connection paired it again since the mutation was planned.
IdentityForgotten ==
    pc = "cleanup" /\ plan # NONE /\ plan.identity # NONE =>
        \A i \in Ids : quic[i] = plan.identity => i \in fresh

\* A journal that a crash or an error left behind is eventually completed.
PendingResolves == Pending ~> ~Pending
=============================================================================
