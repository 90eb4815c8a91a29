------------------------- MODULE PeerSecurityProofs -------------------------
(***************************************************************************)
(* Forgetting a peer is atomic and write-ahead, for every set of peers and *)
(* identities and any number of mutations, pairings, crashes and failures. *)
(*                                                                         *)
(* WriteAhead is not inductive alone: PlanShape adds that a plan contains  *)
(* what the call is about to do, and IdentityTracked that the ids planned  *)
(* cover the peer's identity up to pairings stored since.                  *)
(***************************************************************************)
EXTENDS PeerSecurityMutation, TLAPS

\* No call, no plan; a persisted plan covers the peer itself, what is left to do is part of it, and
\* a plan not persisted yet is the one its call asked for.
PlanShape ==
    /\ journal # NONE => journal.peer \in journal.config_ids
    /\ pc \in {"idle", "load"} => plan = NONE
    /\ pc = "idle" => call = NONE
    /\ pc = "persist" =>
        /\ ~plan.committed /\ plan.peer = call.peer /\ plan.remove = call.remove
        /\ plan.config_ids = {plan.peer} \cup plan.quic_ids
    /\ pc = "apply" =>
        /\ todo.quic \subseteq plan.quic_ids
        /\ todo.config \subseteq plan.config_ids
        /\ todo.remove => plan.remove

\* Plan j lists every id under which its identity is trusted, but fresh ones.
Covers(j) ==
    j.identity # NONE =>
        \A i \in Ids : quic[i] = j.identity => i \in j.quic_ids \/ i \in fresh
IdentityTracked ==
    /\ pc = "persist" => Covers(plan)
    /\ Pending => Covers(journal)

Inv == TypeOK /\ WriteAhead /\ PlanShape /\ IdentityTracked /\ IdentityForgotten
-----------------------------------------------------------------------------
(* Types *)

\* Every step of the repository and of the connections keeps the types.
LEMMA TypeStep == TypeOK /\ [Next]_vars => TypeOK'
<1> SUFFICES ASSUME TypeOK, [Next]_vars PROVE TypeOK'
    OBVIOUS
<1> USE PeerConstants DEF TypeOK, Parts
<1>1. ASSUME NEW m \in Mutation \cup {NONE}, Call(m) PROVE TypeOK'
    BY <1>1 DEF Call, disk
<1>2. CASE Load
  <2>1. CASE journal = NONE /\ Recovered
      BY <1>2, <2>1 DEF Load, Recovered, Return, disk, counts
  <2>2. CASE pc' = "cleanup" /\ UNCHANGED <<call, plan, todo>>
      BY <1>2, <2>2 DEF Load, disk, counts
  <2>3. CASE Replays(journal) /\ Apply(journal) /\ UNCHANGED call
      BY <1>2, <2>3 DEF Load, Apply, Replays, JournalType, disk, counts
  <2> QED
      BY <1>2, <2>1, <2>2, <2>3 DEF Load
<1>3. CASE Commit
    BY <1>3 DEF Commit, JournalType, counts
<1>4. CASE Cleanup
    BY <1>4 DEF Cleanup, Recovered, Return
<1>5. CASE Prepare
  <2>1. call \in Mutation
      BY <1>5 DEF Prepare
  <2>2. Prepared(call) \in JournalType
      BY <2>1 DEF Prepared, Aliases, JournalType, Mutation
  <2> QED
      BY <1>5, <2>2 DEF Prepare, disk, counts
<1>6. CASE Persist
    BY <1>6 DEF Persist, Apply, JournalType, counts
<1>7. CASE ApplyRemove
    BY <1>7 DEF ApplyRemove, JournalType, counts
<1>8. ASSUME NEW i \in Ids, ApplyQuic(i) PROVE TypeOK'
    BY <1>8 DEF ApplyQuic, counts
<1>9. ASSUME NEW i \in Ids, ApplyConfig(i) PROVE TypeOK'
    BY <1>9 DEF ApplyConfig, counts
<1>10. CASE Fault
    BY <1>10 DEF Fault, Return, disk
<1>11. ASSUME NEW i \in Ids, NEW k \in Identities, PairQuic(i, k) PROVE TypeOK'
    BY <1>11 DEF PairQuic, memory
<1>12. ASSUME NEW i \in Ids, PairConfig(i) PROVE TypeOK'
    BY <1>12 DEF PairConfig, memory
<1>13. CASE UNCHANGED vars
    BY <1>13 DEF vars, disk, memory, counts
<1> QED
    BY <1>1, <1>2, <1>3, <1>4, <1>5, <1>6, <1>7, <1>8, <1>9, <1>10, <1>11, <1>12, <1>13
    DEF Next, Step

\* Files and the state of the call always have their types.
THEOREM TypesHold == Spec => []TypeOK
<1>1. Init => TypeOK
    BY PeerConstants DEF Init, TypeOK
<1> QED
    BY <1>1, TypeStep, PTL DEF Spec
-----------------------------------------------------------------------------
(* The journal *)

\* Every step keeps the shape of plans.
LEMMA ShapeStep == TypeOK /\ WriteAhead /\ PlanShape /\ [Next]_vars => PlanShape'
<1> SUFFICES ASSUME TypeOK, WriteAhead, PlanShape, [Next]_vars PROVE PlanShape'
    OBVIOUS
<1> USE PeerConstants DEF TypeOK, PlanShape, Parts
<1>1. ASSUME NEW m \in Mutation \cup {NONE}, Call(m) PROVE PlanShape'
    BY <1>1 DEF Call, disk
<1>2. CASE Load
  <2>1. CASE journal = NONE /\ Recovered
      BY <1>2, <2>1 DEF Load, Recovered, Return, disk
  <2>2. CASE pc' = "cleanup" /\ UNCHANGED <<call, plan, todo>>
      BY <1>2, <2>2 DEF Load, disk
  <2>3. CASE Replays(journal) /\ Apply(journal) /\ UNCHANGED call
      BY <1>2, <2>3 DEF Load, Apply, disk
  <2> QED
      BY <1>2, <2>1, <2>2, <2>3 DEF Load
<1>3. CASE Commit
    BY <1>3 DEF Commit, WriteAhead, JournalType
<1>4. CASE Cleanup
    BY <1>4 DEF Cleanup, Recovered, Return
<1>5. CASE Prepare
    BY <1>5 DEF Prepare, Prepared, disk
<1>6. CASE Persist
    BY <1>6 DEF Persist, Apply
<1>7. CASE ApplyRemove
    BY <1>7 DEF ApplyRemove
<1>8. ASSUME NEW i \in Ids, ApplyQuic(i) PROVE PlanShape'
    BY <1>8 DEF ApplyQuic
<1>9. ASSUME NEW i \in Ids, ApplyConfig(i) PROVE PlanShape'
    BY <1>9 DEF ApplyConfig
<1>10. CASE Fault
    BY <1>10 DEF Fault, Return, disk
<1>11. ASSUME NEW i \in Ids, NEW k \in Identities, PairQuic(i, k) PROVE PlanShape'
    BY <1>11 DEF PairQuic, memory
<1>12. ASSUME NEW i \in Ids, PairConfig(i) PROVE PlanShape'
    BY <1>12 DEF PairConfig, memory
<1>13. CASE UNCHANGED vars
    BY <1>13 DEF vars, disk, memory
<1> QED
    BY <1>1, <1>2, <1>3, <1>4, <1>5, <1>6, <1>7, <1>8, <1>9, <1>10, <1>11, <1>12, <1>13
    DEF Next, Step

\* Every step keeps the journal ahead of what is applied.
LEMMA WriteAheadStep == TypeOK /\ WriteAhead /\ PlanShape /\ [Next]_vars => WriteAhead'
<1> SUFFICES ASSUME TypeOK, WriteAhead, PlanShape, [Next]_vars PROVE WriteAhead'
    OBVIOUS
<1> USE PeerConstants DEF TypeOK, WriteAhead, Pending, Parts
<1>1. ASSUME NEW m \in Mutation \cup {NONE}, Call(m) PROVE WriteAhead'
    BY <1>1 DEF Call, disk
<1>2. CASE Load
  <2>1. CASE journal = NONE /\ Recovered
      BY <1>2, <2>1 DEF Load, Recovered, Return, disk
  <2>2. CASE journal # NONE /\ ~Replays(journal) /\ pc' = "cleanup" /\ UNCHANGED <<call, plan, todo>>
      BY <1>2, <2>2 DEF Load, Replays, disk
  <2>3. CASE Replays(journal) /\ Apply(journal) /\ UNCHANGED call
      BY <1>2, <2>3 DEF Load, Apply, Replays, disk
  <2> QED
      BY <1>2, <2>1, <2>2, <2>3 DEF Load
<1>3. CASE Commit
    BY <1>3 DEF Commit, JournalType
<1>4. CASE Cleanup
    BY <1>4 DEF Cleanup, Recovered, Return
<1>5. CASE Prepare
    BY <1>5 DEF Prepare, disk
<1>6. CASE Persist
    BY <1>6 DEF Persist, Apply, PlanShape
<1>7. CASE ApplyRemove
    BY <1>7 DEF ApplyRemove
<1>8. ASSUME NEW i \in Ids, ApplyQuic(i) PROVE WriteAhead'
    BY <1>8 DEF ApplyQuic, JournalType
<1>9. ASSUME NEW i \in Ids, ApplyConfig(i) PROVE WriteAhead'
    BY <1>9 DEF ApplyConfig, JournalType
<1>10. CASE Fault
    BY <1>10 DEF Fault, Return, disk
<1>11. ASSUME NEW i \in Ids, NEW k \in Identities, PairQuic(i, k) PROVE WriteAhead'
    BY <1>11 DEF PairQuic, memory, JournalType
<1>12. ASSUME NEW i \in Ids, PairConfig(i) PROVE WriteAhead'
    BY <1>12 DEF PairConfig, memory
<1>13. CASE UNCHANGED vars
    BY <1>13 DEF vars, disk, memory
<1> QED
    BY <1>1, <1>2, <1>3, <1>4, <1>5, <1>6, <1>7, <1>8, <1>9, <1>10, <1>11, <1>12, <1>13
    DEF Next, Step
\* Every step keeps track of the identity that is being forgotten.
LEMMA IdentityStep == Inv /\ [Next]_vars => IdentityTracked' /\ IdentityForgotten'
<1> SUFFICES ASSUME Inv, [Next]_vars PROVE IdentityTracked' /\ IdentityForgotten'
    OBVIOUS
<1> USE PeerConstants DEF Inv, TypeOK, IdentityTracked, IdentityForgotten, Covers, Pending, Parts
<1> DEFINE Goal == IdentityTracked' /\ IdentityForgotten'
<1>1. ASSUME NEW m \in Mutation \cup {NONE}, Call(m) PROVE Goal
    BY <1>1 DEF Call, disk
<1>2. CASE Load
  <2>1. CASE journal = NONE /\ Recovered
      BY <1>2, <2>1 DEF Load, Recovered, Return, disk
  <2>2. CASE journal # NONE /\ ~Replays(journal) /\ pc' = "cleanup" /\ UNCHANGED <<call, plan, todo>>
      BY <1>2, <2>2 DEF Load, PlanShape, disk
  <2>3. CASE Replays(journal) /\ Apply(journal) /\ UNCHANGED call
      BY <1>2, <2>3 DEF Load, Apply, disk
  <2> QED
      BY <1>2, <2>1, <2>2, <2>3 DEF Load
<1>3. CASE Commit
    BY <1>3 DEF Commit, Applied, WriteAhead, JournalType
<1>4. CASE Cleanup
    BY <1>4 DEF Cleanup, Recovered, Return, WriteAhead
<1>5. CASE Prepare
  <2>1. call \in Mutation
      BY <1>5 DEF Prepare
  <2>2. Covers(plan)'
      BY <1>5, <2>1 DEF Prepare, Prepared, Aliases, Mutation, disk
  <2> QED
      BY <1>5, <2>2 DEF Prepare, WriteAhead, disk
<1>6. CASE Persist
    BY <1>6 DEF Persist, Apply
<1>7. CASE ApplyRemove
    BY <1>7 DEF ApplyRemove
<1>8. ASSUME NEW i \in Ids, ApplyQuic(i) PROVE Goal
    BY <1>8 DEF ApplyQuic
<1>9. ASSUME NEW i \in Ids, ApplyConfig(i) PROVE Goal
    BY <1>9 DEF ApplyConfig
<1>10. CASE Fault
    BY <1>10 DEF Fault, Return, disk
<1>11. ASSUME NEW i \in Ids, NEW k \in Identities, PairQuic(i, k) PROVE Goal
    BY <1>11 DEF PairQuic, memory
<1>12. ASSUME NEW i \in Ids, PairConfig(i) PROVE Goal
    BY <1>12 DEF PairConfig, memory
<1>13. CASE UNCHANGED vars
    BY <1>13 DEF vars, disk, memory
<1> QED
    BY <1>1, <1>2, <1>3, <1>4, <1>5, <1>6, <1>7, <1>8, <1>9, <1>10, <1>11, <1>12, <1>13
    DEF Next, Step

\* The invariant the safety theorems rest on.
LEMMA InvHolds == Spec => []Inv
<1>1. Init => Inv
    BY PeerConstants
    DEF Init, Inv, TypeOK, WriteAhead, PlanShape, IdentityTracked, IdentityForgotten, Pending
<1>2. Inv /\ [Next]_vars => Inv'
    BY TypeStep, WriteAheadStep, ShapeStep, IdentityStep DEF Inv
<1> QED
    BY <1>1, <1>2, PTL DEF Spec

\* What is applied is what the journal on disk says, nothing is committed before
\* all of it was applied, and no pending journal is overwritten.
THEOREM WriteAheadHolds == Spec => []WriteAhead
BY InvHolds, PTL DEF Inv

\* A committed mutation leaves the peer's identity trusted under no id, but ids
\* that were paired again.
THEOREM IdentityForgottenHolds == Spec => []IdentityForgotten
BY InvHolds, PTL DEF Inv

-----------------------------------------------------------------------------
(* Refinement of TrustStore *)

\* Every step is one of the abstract trust store, or leaves it as it is.
LEMMA TrustStep == Inv /\ Inv' /\ [Next]_vars => [Trust!Next]_(Trust!trustVars)
<1> SUFFICES ASSUME Inv, Inv', [Next]_vars PROVE [Trust!Next]_(Trust!trustVars)
    OBVIOUS
<1> USE PeerConstants DEF Inv, TypeOK, WriteAhead, PlanShape, Parts, Pending
<1> DEFINE Q == [i \in Ids |-> IF i \in TakenQuic THEN NONE ELSE quic[i]]
           P == paired \ TakenConfigs
           C == configs \ TakenPeers
           Same == Q' = Q /\ P' = P /\ C' = C
<1>0. Same /\ call' = call /\ fresh' = fresh => UNCHANGED Trust!trustVars
    BY DEF Trust!trustVars
<1>1. ASSUME NEW m \in Mutation \cup {NONE}, Call(m) PROVE [Trust!Next]_(Trust!trustVars)
  <2>1. Same
      BY <1>1 DEF Call, disk, TakenQuic, TakenConfigs, TakenPeers
  <2>2. CASE m = NONE
      BY <1>0, <1>1, <2>1, <2>2 DEF Call
  <2>3. CASE m \in Mutation
    <3>1. m = [peer |-> m.peer, remove |-> m.remove] /\ m.peer \in Ids /\ m.remove \in BOOLEAN
        BY <2>3 DEF Mutation
    <3>2. Trust!Ask(m.peer, m.remove)
        BY <1>1, <2>1, <3>1 DEF Call, Trust!Ask
    <3> QED
        BY <3>1, <3>2 DEF Trust!Next
  <2> QED
      BY <2>2, <2>3
<1>2. CASE Load
  <2>1. Same
      BY <1>2 DEF Load, disk, TakenQuic, TakenConfigs, TakenPeers
  <2> QED
      BY <1>0, <1>2, <2>1 DEF Load, Recovered, Return
<1>3. CASE Commit
  <2>1. plan \in JournalType /\ journal = plan /\ Pending /\ ~Pending'
      BY <1>3 DEF Commit, JournalType
  <2>2. Q' = quic /\ P' = paired /\ C' = configs
      BY <1>3, <2>1 DEF Commit, TakenQuic, TakenConfigs, TakenPeers
  <2>3. \A i \in Ids \ fresh : Q'[i] = Q[i] /\ (i \in P' => i \in P) /\ (i \in C' => i \in C)
      BY <1>3, <2>1, <2>2 DEF Commit, Applied, TakenQuic, TakenConfigs, TakenPeers
  <2>4. Trust!Pair
      BY <1>3, <2>1, <2>2, <2>3 DEF Commit, Trust!Pair, TakenQuic, TakenConfigs, TakenPeers
  <2> QED
      BY <2>4 DEF Trust!Next
<1>4. CASE Cleanup
  <2>1. Same
      BY <1>4 DEF Cleanup, TakenQuic, TakenConfigs, TakenPeers
  <2> QED
      BY <1>0, <1>4, <2>1 DEF Cleanup, Recovered, Return
<1>5. CASE Prepare
  <2>1. Same
      BY <1>5 DEF Prepare, disk, TakenQuic, TakenConfigs, TakenPeers
  <2>2. Trust!Plan
      BY <1>5, <2>1 DEF Prepare, Trust!Plan
  <2> QED
      BY <2>2 DEF Trust!Next
<1>6. CASE Persist
  <2>1. plan \in JournalType /\ ~Pending /\ Pending' /\ journal' = plan
      BY <1>6 DEF Persist
  <2>2. Trust!Forget(plan.quic_ids)
      BY <1>6, <2>1 DEF Persist, Trust!Forget, TakenQuic, TakenConfigs, TakenPeers, JournalType
  <2>3. plan.quic_ids \in SUBSET Ids
      BY <2>1 DEF JournalType
  <2>4. \E group \in SUBSET Ids : Trust!Forget(group)
      BY <2>2, <2>3 DEF Trust!Forget
  <2> QED
      BY <2>4 DEF Trust!Next
<1>7. CASE ApplyRemove
  <2>1. Same
      BY <1>7 DEF ApplyRemove, TakenQuic, TakenConfigs, TakenPeers
  <2> QED
      BY <1>0, <1>7, <2>1 DEF ApplyRemove
<1>8. ASSUME NEW i \in Ids, ApplyQuic(i) PROVE [Trust!Next]_(Trust!trustVars)
  <2>1. Same
      BY <1>8 DEF ApplyQuic, TakenQuic, TakenConfigs, TakenPeers
  <2> QED
      BY <1>0, <1>8, <2>1 DEF ApplyQuic
<1>9. ASSUME NEW i \in Ids, ApplyConfig(i) PROVE [Trust!Next]_(Trust!trustVars)
  <2>1. Same
      BY <1>9 DEF ApplyConfig, TakenQuic, TakenConfigs, TakenPeers
  <2> QED
      BY <1>0, <1>9, <2>1 DEF ApplyConfig
<1>10. CASE Fault
  <2>1. Same
      BY <1>10 DEF Fault, disk, TakenQuic, TakenConfigs, TakenPeers
  <2>2. CASE call = NONE
      BY <1>0, <1>10, <2>1, <2>2 DEF Fault, Return
  <2>3. CASE call # NONE
      BY <1>10, <2>1, <2>3 DEF Fault, Return, Trust!Abandon, Trust!Next
  <2> QED
      BY <2>2, <2>3
<1>11. ASSUME NEW i \in Ids, NEW k \in Identities, PairQuic(i, k)
       PROVE [Trust!Next]_(Trust!trustVars)
  <2>1. Trust!Pair
      BY <1>11 DEF PairQuic, memory, Trust!Pair, TakenQuic, TakenConfigs, TakenPeers
  <2> QED
      BY <2>1 DEF Trust!Next
<1>12. ASSUME NEW i \in Ids, PairConfig(i) PROVE [Trust!Next]_(Trust!trustVars)
  <2>1. Trust!Pair
      BY <1>12 DEF PairConfig, memory, Trust!Pair, TakenQuic, TakenConfigs, TakenPeers
  <2> QED
      BY <2>1 DEF Trust!Next
<1>13. CASE UNCHANGED vars
  <2>1. Same
      BY <1>13 DEF vars, disk, TakenQuic, TakenConfigs, TakenPeers
  <2> QED
      BY <1>0, <1>13, <2>1 DEF vars, memory
<1> QED
    BY <1>1, <1>2, <1>3, <1>4, <1>5, <1>6, <1>7, <1>8, <1>9, <1>10, <1>11, <1>12, <1>13
    DEF Next, Step

\* The journaled repository implements the abstract trust store: forgetting a peer
\* is one atomic step, whatever crashes or failures happen while it is applied.
THEOREM AtomicForgetHolds == Spec => AtomicForget
<1>1. Init => Trust!Init
    BY DEF Init, Trust!Init, TakenQuic, TakenConfigs, TakenPeers, Pending
<1> QED
    BY <1>1, TrustStep, InvHolds, PTL DEF Spec, AtomicForget, Trust!Spec
=============================================================================
