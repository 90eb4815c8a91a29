----------------------- MODULE ConnectionRoundsProofs -----------------------
(***************************************************************************)
(* Proofs about ConnectionRounds for any number of attempts, prompts and   *)
(* decoders.  What is shown on the screen follows from the authority       *)
(* alone: while it allows a runtime, that runtime is the current attempt,  *)
(* connected and logged in (Allowed).  The prompt follows from the guards: *)
(* at most one live guard is for the current round (Guards).               *)
(***************************************************************************)
EXTENDS ClipboardRounds, TLAPS

\* A runtime that has not ended is the current attempt's; the current attempt's loop
\* runs only once it is connected; what is allowed is connected and logged in.
Allowed ==
    /\ authority.connection_generation # 0 /\ ~authority.ended =>
        authority.connection_generation = round /\ state # "Disconnected"
    /\ \A w \in DOMAIN workers : w = round /\ workers[w].pc = "running" =>
        state \in {"Connected", "Disconnected"}
    /\ authority.allowed =>
        /\ authority.connection_generation = round /\ round # 0
        /\ ~authority.ended /\ state = "Connected"
        /\ workers[round].pc = "running" /\ workers[round].logged_in

\* Guards are held inside a prompt only and are for the worker's own or a later round;
\* one for the current round exists only while the attempt waits for approval, and
\* then it is the only one.
Guards ==
    /\ \A w \in DOMAIN workers :
        /\ workers[w].guard # None =>
            /\ workers[w].pc \in {"guarded", "waiting", "releasing"}
            /\ workers[w].guard \in w..round
        /\ workers[w].guard = round => state \in {"AwaitingUserApproval", "Disconnected"}
    /\ state = "AwaitingUserApproval" =>
        \A v, w \in DOMAIN workers : workers[v].guard = round /\ workers[w].guard = round => v = w

\* The response channel of the current attempt's own worker.
OwnPrompt ==
    pending # None /\ pending = round =>
        /\ state = "AwaitingUserApproval"
        /\ workers[pending].guard = pending /\ workers[pending].pc = "waiting"

\* The inductive invariant.
IInv == TypeOK /\ ChannelPublished /\ Allowed /\ Guards /\ OwnPrompt /\ PromptOwned

\* A step that changes the entry of worker w only.
OnlyWorker(w) ==
    /\ DOMAIN workers' = DOMAIN workers
    /\ \A v \in DOMAIN workers : v # w => workers'[v] = workers[v]

Authority == [connection_generation : Nat, generation : Nat, allowed : BOOLEAN, ended : BOOLEAN]

\* Beginning, authorizing and ending a runtime keep the authority's type.
LEMMA AuthorityType ==
    ASSUME NEW a \in Authority, NEW r \in Nat
    PROVE  /\ Begun(a, r) \in Authority /\ Authorized(a, r) \in Authority /\ Ended(a, r) \in Authority
<1>1. Begun(a, r) \in Authority
  BY DEF Authority, Begun
<1>2. Ended(a, r) \in Authority
  BY DEF Authority, Ended
<1>3. Authorized(a, r) \in Authority
  BY DEF Authority, Authorized
<1> QED
  BY <1>1, <1>2, <1>3

\* Ending a runtime of round r leaves it ended, or belongs to an older round and does
\* nothing; in no case does it allow anything new.
LEMMA EndedFacts ==
    ASSUME NEW a \in Authority, NEW r \in Nat
    PROVE  /\ Ended(a, r).connection_generation >= a.connection_generation
           /\ Ended(a, r).connection_generation \in {a.connection_generation, r}
           /\ Ended(a, r).allowed => Ended(a, r) = a /\ (r # a.connection_generation \/ a.ended)
           /\ ~Ended(a, r).ended => Ended(a, r) = a /\ r < a.connection_generation
  BY DEF Authority, Ended

\* An authority that is not ahead of the session stays so when a runtime ends.
LEMMA EndedBound ==
    ASSUME NEW a \in Authority, NEW w \in Nat, NEW r \in Nat,
           a.connection_generation <= r, w <= r
    PROVE  Ended(a, w) \in Authority /\ Ended(a, w).connection_generation <= r
<1>1. Ended(a, w).connection_generation \in {a.connection_generation, w}
  BY EndedFacts
<1>2. Ended(a, w) \in Authority
  BY AuthorityType
<1> QED
  BY <1>1, <1>2

\* What the screen authority's invariant says about rendering.
LEMMA AllowedRenders ==
    ASSUME Allowed
    PROVE  OnlyCurrentRenders
  BY DEF Allowed, OnlyCurrentRenders, Accepts

\* An update of one worker's record with admissible fields keeps the workers' type.
LEMMA WorkersType ==
    ASSUME TypeOK, NEW w \in DOMAIN workers, OnlyWorker(w), workers'[w] \in Worker,
           round' = round
    PROVE  DOMAIN workers' = 1..round' /\ \A v \in 1..round' : workers'[v] \in Worker
  BY DEF TypeOK, OnlyWorker

-----------------------------------------------------------------------------

\* Initially nothing runs.
LEMMA InitHolds ==
    ASSUME Init
    PROVE  IInv
<1>1. DOMAIN workers = {} /\ 1..round = {}
  BY DEF Init
<1>2. TypeOK
  BY <1>1 DEF Init, TypeOK, States, None
<1>3. ChannelPublished /\ OwnPrompt /\ PromptOwned
  BY DEF Init, ChannelPublished, OwnPrompt, PromptOwned
<1>4. Allowed /\ Guards
  BY <1>1 DEF Init, Allowed, Guards
<1> QED
  BY <1>2, <1>3, <1>4 DEF IInv

\* A new attempt begins.
LEMMA StartStep ==
    ASSUME IInv, NEW reconnect \in BOOLEAN, Start(reconnect)
    PROVE  IInv'
<1> DEFINE r == round + 1
<1>1. TypeOK /\ round \in Nat /\ r \in Nat /\ authority \in Authority
  BY DEF IInv, TypeOK, Authority
<1>2. /\ round' = r /\ state' = "Connecting" /\ sender' = r /\ pending' = pending
      /\ decoders' = decoders /\ authority' = Begun(Ended(authority, round), r)
  BY DEF Start
<1>3. /\ DOMAIN workers' = 1..r /\ DOMAIN workers = 1..round
      /\ workers'[r] = NewWorker /\ \A w \in 1..round : w \in 1..r /\ w # r /\ workers'[w] = workers[w]
      /\ \A w \in 1..r : w = r \/ w \in 1..round
  BY <1>1 DEF Start, TypeOK
<1>4. NewWorker \in Worker
  BY DEF NewWorker, Worker, Steps, Answers, None
<1>5. /\ authority' \in Authority /\ authority'.connection_generation = r
      /\ ~authority'.allowed /\ ~authority'.ended
  <2>1. Ended(authority, round) \in Authority /\ Ended(authority, round).connection_generation <= round
    <3>1. Ended(authority, round).connection_generation \in {authority.connection_generation, round}
      BY <1>1, EndedFacts
    <3>2. authority.connection_generation <= round
      BY <1>1 DEF TypeOK
    <3>3. Ended(authority, round) \in Authority
      BY <1>1, AuthorityType
    <3> QED
      BY <1>1, <3>1, <3>2, <3>3
  <2>2. authority' \in Authority
    BY <1>1, <1>2, <2>1, AuthorityType
  <2>3. ~(r <= Ended(authority, round).connection_generation)
    BY <1>1, <2>1 DEF Authority
  <2> QED
    BY <1>2, <2>2, <2>3 DEF Begun
<1>6. closing' \subseteq Nat
  BY <1>1 DEF Start, TypeOK
<1>7. TypeOK'
  BY <1>1, <1>2, <1>3, <1>4, <1>5, <1>6 DEF TypeOK, States, Authority
<1>8. ChannelPublished'
  BY <1>2 DEF ChannelPublished
<1>9. Allowed'
  BY <1>2, <1>3, <1>5 DEF Allowed, NewWorker
<1>10. Guards'
  <2>1. \A w \in 1..round : workers[w].guard # None => workers[w].guard \in w..round
    BY <1>1, <1>3 DEF IInv, Guards
  <2>2. \A w \in 1..round : workers[w].guard \in Nat /\ workers[w].guard # r
    BY <1>1, <2>1 DEF TypeOK, Worker, None
  <2>3. NewWorker.guard = None /\ r # None
    BY <1>1 DEF NewWorker, None
  <2>4. \A w \in 1..round : workers[w].guard # None =>
            workers[w].pc \in {"guarded", "waiting", "releasing"} /\ workers[w].guard \in w..r
    BY <1>1, <1>3, <2>1 DEF IInv, Guards
  <2> QED
    BY <1>2, <1>3, <2>2, <2>3, <2>4 DEF Guards
<1>11. OwnPrompt'
  BY <1>1, <1>2, <1>3 DEF OwnPrompt, TypeOK, None
<1>12. PromptOwned'
  <2>1. ASSUME pending # None PROVE pending \in 1..round
    BY <1>1, <2>1 DEF TypeOK
  <2>2. state # "AwaitingUserApproval"
    BY DEF Start, TryStart
  <2> QED
    BY <1>2, <1>3, <2>1, <2>2 DEF IInv, PromptOwned
<1> QED
  BY <1>7, <1>8, <1>9, <1>10, <1>11, <1>12 DEF IInv

\* An answer goes to the worker that waits, and changes nothing but its answer.
LEMMA AnsweredFacts ==
    ASSUME TypeOK, NEW answer \in Answers
    PROVE  /\ DOMAIN Answered(answer) = 1..round
           /\ \A w \in 1..round :
               /\ Answered(answer)[w] \in Worker
               /\ Answered(answer)[w].pc = workers[w].pc
               /\ Answered(answer)[w].guard = workers[w].guard
               /\ Answered(answer)[w].logged_in = workers[w].logged_in
<1>1. CASE pending = None
  BY <1>1 DEF Answered, TypeOK
<1>2. CASE pending # None
  <2>1. pending \in 1..round /\ DOMAIN workers = 1..round
    BY <1>2 DEF TypeOK
  <2>2. ASSUME NEW w \in 1..round
        PROVE  Answered(answer)[w] = IF w = pending THEN [workers[w] EXCEPT !.answer = answer]
                                     ELSE workers[w]
    BY <1>2, <2>1 DEF Answered
  <2>3. \A w \in 1..round : workers[w] \in Worker
    BY DEF TypeOK
  <2>4. DOMAIN Answered(answer) = 1..round
    BY <1>2, <2>1 DEF Answered
  <2> QED
    BY <2>2, <2>3, <2>4 DEF Worker
<1> QED
  BY <1>1, <1>2

\* The user closes the session.
LEMMA CloseStep ==
    ASSUME IInv, Close
    PROVE  IInv'
<1>1. TypeOK /\ round \in Nat /\ authority \in Authority
  BY DEF IInv, TypeOK, Authority
<1>2. /\ round' = round /\ state' = "Disconnected" /\ sender' = None /\ pending' = None
      /\ decoders' = decoders /\ authority' = Ended(authority, round) /\ workers' = Answered("no")
  BY DEF Close
<1>3. authority' \in Authority
  BY <1>1, <1>2, AuthorityType
<1>4. /\ authority'.connection_generation <= round
      /\ ~authority'.allowed
      /\ authority'.ended
  BY <1>1, <1>2, EndedFacts DEF IInv, TypeOK, Allowed, Authority
<1>5. closing' \subseteq Nat
  BY <1>1 DEF Close, TypeOK
<1>6. DOMAIN workers' = 1..round /\ \A w \in 1..round : workers'[w] \in Worker
                                        /\ workers'[w].guard = workers[w].guard
                                        /\ workers'[w].pc = workers[w].pc
  BY <1>1, <1>2, AnsweredFacts DEF Answers
<1>7. TypeOK'
  BY <1>1, <1>2, <1>3, <1>4, <1>5, <1>6 DEF TypeOK, States, None, Authority
<1>8. ChannelPublished' /\ OwnPrompt' /\ PromptOwned'
  BY <1>2 DEF ChannelPublished, OwnPrompt, PromptOwned
<1>9. Allowed'
  BY <1>2, <1>4 DEF Allowed
<1>10. Guards'
  BY <1>1, <1>2, <1>6 DEF IInv, Guards, TypeOK
<1> QED
  BY <1>7, <1>8, <1>9, <1>10 DEF IInv

\* The user answers.
LEMMA RespondStep ==
    ASSUME IInv, NEW answer \in {"yes", "no"}, Respond(answer)
    PROVE  IInv'
<1>1. TypeOK
  BY DEF IInv
<1>2. /\ UNCHANGED <<round, state, sender, closing, authority, decoders>> /\ pending' = None
      /\ workers' = Answered(answer)
  BY DEF Respond, session
<1>3. DOMAIN workers' = 1..round /\ \A w \in 1..round : workers'[w] \in Worker
          /\ workers'[w].guard = workers[w].guard /\ workers'[w].pc = workers[w].pc
          /\ workers'[w].logged_in = workers[w].logged_in
  BY <1>1, <1>2, AnsweredFacts DEF Answers
<1>4. TypeOK'
  BY <1>1, <1>2, <1>3 DEF TypeOK, None
<1>5. ChannelPublished' /\ OwnPrompt' /\ PromptOwned'
  BY <1>2 DEF IInv, ChannelPublished, OwnPrompt, PromptOwned
<1>6. Allowed'
  <2>1. round # 0 => round \in 1..round
    BY <1>1 DEF TypeOK
  <2> QED
    BY <1>1, <1>2, <1>3, <2>1 DEF IInv, Allowed, TypeOK
<1>7. Guards'
  BY <1>1, <1>2, <1>3 DEF IInv, Guards, TypeOK
<1> QED
  BY <1>4, <1>5, <1>6, <1>7 DEF IInv

\* The steps of a worker that leave the round, the channel and the prompt alone, move
\* the worker from outside a prompt to outside a prompt and change the authority by
\* ending the worker's runtime at most.
LEMMA PlainStep ==
    ASSUME IInv, NEW w \in 1..round, TypeOK',
           UNCHANGED <<round, state, sender, pending>>, OnlyWorker(w),
           workers[w].pc \notin {"guarded", "waiting", "releasing"},
           workers'[w].guard = workers[w].guard,
           workers'[w].pc # "running" \/ workers[w].pc = "running",
           workers'[w].logged_in = workers[w].logged_in,
           \/ authority' = authority /\ workers'[w].pc = workers[w].pc
           \/ authority' = Ended(authority, w)
    PROVE  IInv'
<1>1. /\ TypeOK /\ round \in Nat /\ authority \in Authority /\ DOMAIN workers = 1..round
      /\ w \in Nat /\ round \in 1..round /\ round # 0
  BY DEF IInv, TypeOK, Authority
<1>2. DOMAIN workers' = 1..round /\ \A v \in 1..round : v # w => workers'[v] = workers[v]
  BY <1>1 DEF OnlyWorker
<1>3. workers[w].guard = None
  BY <1>1 DEF IInv, Guards
<1>4. ChannelPublished'
  BY DEF IInv, ChannelPublished
<1>5. Allowed'
  <2>1. /\ authority'.connection_generation # 0 /\ ~authority'.ended =>
            authority'.connection_generation = round /\ state # "Disconnected"
    BY <1>1, EndedFacts DEF IInv, Allowed
  <2>2. \A v \in 1..round : v = round /\ workers'[v].pc = "running" =>
            state \in {"Connected", "Disconnected"}
    BY <1>1, <1>2 DEF IInv, Allowed
  <2>3. ASSUME authority'.allowed
        PROVE  /\ authority' = authority
               /\ w = round => workers'[w].pc = workers[w].pc
    BY <1>1, <2>3, EndedFacts DEF IInv, Allowed
  <2>4. authority'.allowed =>
            /\ workers'[round].pc = workers[round].pc
            /\ workers'[round].logged_in = workers[round].logged_in
    BY <1>1, <1>2, <2>3
  <2> QED
    BY <1>1, <1>2, <2>1, <2>2, <2>3, <2>4 DEF IInv, Allowed
<1>6. Guards'
  BY <1>1, <1>2, <1>3 DEF IInv, Guards
<1>7. OwnPrompt' /\ PromptOwned'
  <2>1. pending = w => workers'[w].guard # pending
    BY <1>1, <1>3 DEF None
  <2>2. pending = w => pending # round
    BY <1>1 DEF IInv, OwnPrompt, None
  <2>3. pending # None => pending \in 1..round
    BY <1>1 DEF TypeOK
  <2> QED
    BY <1>1, <1>2, <2>1, <2>2, <2>3 DEF IInv, OwnPrompt, PromptOwned
<1> QED
  BY <1>4, <1>5, <1>6, <1>7 DEF IInv

\* Setting a worker's step counter.
LEMMA GotoFacts ==
    ASSUME TypeOK, NEW w \in 1..round, NEW pc \in Steps, Goto(w, pc)
    PROVE  /\ OnlyWorker(w) /\ workers'[w] \in Worker /\ DOMAIN workers = 1..round
           /\ workers'[w].pc = pc /\ workers'[w].guard = workers[w].guard
           /\ workers'[w].answer = workers[w].answer
           /\ workers'[w].logged_in = workers[w].logged_in
<1>1. w \in DOMAIN workers /\ workers[w] \in Worker
  BY DEF TypeOK
<1>2. workers'[w] = [workers[w] EXCEPT !.pc = pc]
  BY <1>1 DEF Goto
<1>3. OnlyWorker(w)
  BY DEF Goto, OnlyWorker
<1> QED
  BY <1>1, <1>2, <1>3 DEF Worker, TypeOK

\* The thread enters the handshake, the handshake fails, the loop ends.
LEMMA MoveStep ==
    ASSUME IInv, NEW w \in 1..round, Enter(w) \/ ConnectFails(w) \/ Leave(w)
    PROVE  IInv'
<1>1. TypeOK /\ authority \in Authority /\ round \in Nat /\ w \in Nat
  BY DEF IInv, TypeOK, Authority
<1>2. /\ UNCHANGED <<round, state, sender, closing, pending, decoders>>
      /\ \/ authority' = Ended(authority, w) /\ Goto(w, "exit")
         \/ authority' = authority /\ Goto(w, "starting")
      /\ workers[w].pc \in {"spawned", "starting", "running"}
  <2>1. CASE Enter(w)
    BY <2>1 DEF Enter, session, At
  <2>2. CASE ConnectFails(w)
    BY <2>2 DEF ConnectFails, session, At
  <2>3. CASE Leave(w)
    BY <2>3 DEF Leave, session, At
  <2> QED
    BY <2>1, <2>2, <2>3
<1>3. /\ OnlyWorker(w) /\ workers'[w] \in Worker /\ DOMAIN workers = 1..round
      /\ workers'[w].pc \in {"exit", "starting"} /\ workers'[w].guard = workers[w].guard
      /\ workers'[w].logged_in = workers[w].logged_in
  BY <1>1, <1>2, GotoFacts DEF Steps
<1>4. authority' \in Authority /\ authority'.connection_generation <= round
  <2>1. w <= round /\ authority.connection_generation <= round
    BY <1>1 DEF TypeOK
  <2> QED
    BY <1>1, <1>2, <2>1, EndedBound
<1>5. TypeOK'
  BY <1>1, <1>2, <1>3, <1>4 DEF TypeOK, OnlyWorker, Authority
<1>6. CASE authority' = Ended(authority, w)
  BY <1>2, <1>3, <1>5, <1>6, PlainStep
<1>7. CASE Enter(w)
  <2>1. /\ round = w /\ state # "Disconnected" /\ authority' = authority /\ workers[w].pc = "spawned"
        /\ workers'[w].pc = "starting"
    BY <1>1, <1>7, GotoFacts DEF Enter, At, Steps
  <2>2. workers[w].guard = None
    BY <1>3, <2>1 DEF IInv, Guards
  <2>3. ChannelPublished' /\ Allowed' /\ Guards'
    BY <1>1, <1>2, <1>3, <2>1, <2>2 DEF IInv, ChannelPublished, Allowed, Guards, OnlyWorker
  <2>4. pending # w
    BY <1>1, <2>1 DEF IInv, OwnPrompt, None
  <2>5. OwnPrompt' /\ PromptOwned'
    BY <1>1, <1>2, <1>3, <2>1, <2>4 DEF IInv, OwnPrompt, PromptOwned, OnlyWorker, TypeOK
  <2> QED
    BY <1>5, <2>3, <2>5 DEF IInv
<1> QED
  BY <1>6, <1>7 DEF ConnectFails, Leave

\* The worker is over, or never began: Finish.
LEMMA FinishStep ==
    ASSUME IInv, NEW w \in 1..round, Abandon(w) \/ Exit(w)
    PROVE  IInv'
<1>1. /\ TypeOK /\ authority \in Authority /\ round \in Nat /\ w \in Nat
      /\ round \in 1..round /\ DOMAIN workers = 1..round /\ round # 0
  BY DEF IInv, TypeOK, Authority
<1>2. /\ UNCHANGED <<round, closing, pending, decoders>>
      /\ workers[w].pc \in {"spawned", "exit"} /\ Goto(w, "done") /\ Finish(w)
  BY DEF Abandon, Exit, Finish, At
<1>3. /\ OnlyWorker(w) /\ workers'[w] \in Worker
      /\ workers'[w].pc = "done" /\ workers'[w].guard = workers[w].guard
      /\ workers'[w].logged_in = workers[w].logged_in
  BY <1>1, <1>2, GotoFacts DEF Steps
<1>4. \/ round # w /\ UNCHANGED <<state, sender, authority>>
      \/ round = w /\ state' = "Disconnected" /\ sender' = None /\ authority' = Ended(authority, w)
  BY <1>2 DEF Finish
<1>5. authority' \in Authority /\ authority'.connection_generation <= round
  <2>1. w <= round /\ authority.connection_generation <= round
    BY <1>1 DEF TypeOK
  <2> QED
    BY <1>1, <1>4, <2>1, EndedBound
<1>6. TypeOK'
  BY <1>1, <1>2, <1>3, <1>4, <1>5 DEF TypeOK, OnlyWorker, Authority, States, None
<1>7. workers[w].guard = None
  BY <1>1, <1>2 DEF IInv, Guards
<1>8. ChannelPublished'
  BY <1>2, <1>4 DEF IInv, ChannelPublished
<1>9. Guards'
  BY <1>1, <1>2, <1>3, <1>4, <1>7 DEF IInv, Guards, OnlyWorker
<1>10. Allowed'
  <2>1. CASE round # w
    BY <1>1, <1>2, <1>3, <1>4, <2>1 DEF IInv, Allowed, OnlyWorker
  <2>2. CASE round = w
    <3>1. ~authority'.allowed
      BY <1>1, <1>2, <1>4, <2>2, EndedFacts DEF IInv, Allowed
    <3>2. authority'.ended
      BY <1>1, <1>4, <2>2, EndedFacts DEF TypeOK, Authority
    <3> QED
      BY <1>2, <1>4, <2>2, <3>1, <3>2 DEF Allowed
  <2> QED
    BY <2>1, <2>2
<1>11. OwnPrompt' /\ PromptOwned'
  <2>1. pending = w => w # round /\ workers'[w].guard # pending
    BY <1>1, <1>2, <1>3, <1>7 DEF IInv, OwnPrompt, None
  <2>2. pending # None => pending \in 1..round
    BY <1>1 DEF TypeOK
  <2>3. CASE round # w
    BY <1>1, <1>2, <1>3, <1>4, <2>1, <2>2, <2>3 DEF IInv, OwnPrompt, PromptOwned, OnlyWorker
  <2>4. CASE round = w
    <3>1. pending # None => pending # round /\ workers'[pending] = workers[pending]
      BY <1>1, <1>3, <2>1, <2>2, <2>4 DEF OnlyWorker
    <3> QED
      BY <1>1, <1>2, <1>4, <2>4, <3>1 DEF IInv, OwnPrompt, PromptOwned
  <2> QED
    BY <2>3, <2>4
<1> QED
  BY <1>6, <1>8, <1>9, <1>10, <1>11 DEF IInv

\* Client::start returned a connection.
LEMMA ConnectStep ==
    ASSUME IInv, NEW w \in 1..round, Connect(w)
    PROVE  IInv'
<1>1. /\ TypeOK /\ authority \in Authority /\ round \in Nat /\ w \in Nat
      /\ round \in 1..round /\ DOMAIN workers = 1..round /\ round # 0
  BY DEF IInv, TypeOK, Authority
<1>2. UNCHANGED <<round, sender, closing, pending, decoders>> /\ workers[w].pc = "starting"
  BY DEF Connect, At
<1>3. CASE round = w /\ state = "Connecting"
  <2>1. state' = "Connected" /\ Goto(w, "running") /\ authority' = authority
    BY <1>3 DEF Connect
  <2>2. /\ OnlyWorker(w) /\ workers'[w] \in Worker
        /\ workers'[w].pc = "running" /\ workers'[w].guard = workers[w].guard
    BY <1>1, <2>1, GotoFacts DEF Steps
  <2>3. TypeOK'
    BY <1>1, <1>2, <2>1, <2>2 DEF TypeOK, OnlyWorker, States
  <2>4. ChannelPublished'
    BY <1>2, <1>3, <2>1 DEF IInv, ChannelPublished
  <2>5. Allowed'
    BY <1>1, <1>2, <1>3, <2>1, <2>2 DEF IInv, Allowed, OnlyWorker
  <2>6. Guards'
    <3>1. \A v \in 1..round : workers[v].guard # round
      BY <1>1, <1>3 DEF IInv, Guards
    <3>2. workers[w].guard = None
      BY <1>1, <1>2 DEF IInv, Guards
    <3> QED
      BY <1>1, <1>2, <2>1, <2>2, <3>1, <3>2 DEF IInv, Guards, OnlyWorker, None
  <2>7. pending # round
    BY <1>1, <1>3 DEF IInv, OwnPrompt, None
  <2>8. OwnPrompt' /\ PromptOwned'
    <3>1. pending # None => pending \in 1..round /\ workers'[pending] = workers[pending]
      BY <1>1, <1>3, <2>2, <2>7 DEF TypeOK, OnlyWorker
    <3> QED
      BY <1>2, <1>3, <2>7, <3>1 DEF IInv, OwnPrompt, PromptOwned
  <2> QED
    BY <2>3, <2>4, <2>5, <2>6, <2>8 DEF IInv
<1>4. CASE ~(round = w /\ state = "Connecting")
  <2>1. state' = state /\ Goto(w, "exit") /\ authority' = Ended(authority, w)
    BY <1>4 DEF Connect
  <2>2. /\ OnlyWorker(w) /\ workers'[w] \in Worker /\ workers'[w].pc = "exit"
        /\ workers'[w].guard = workers[w].guard /\ workers'[w].logged_in = workers[w].logged_in
    BY <1>1, <2>1, GotoFacts DEF Steps
  <2>3. w <= round /\ authority.connection_generation <= round
    BY <1>1 DEF TypeOK
  <2>4. authority' \in Authority /\ authority'.connection_generation <= round
    BY <1>1, <2>1, <2>3, EndedBound
  <2>5. TypeOK'
    BY <1>1, <1>2, <2>1, <2>2, <2>4 DEF TypeOK, OnlyWorker, Authority
  <2> QED
    BY <1>2, <2>1, <2>2, <2>5, PlainStep
<1> QED
  BY <1>3, <1>4

\* The login response: only a current, connected runtime is authorized by it.
LEMMA LoginStep ==
    ASSUME IInv, NEW w \in 1..round, Login(w)
    PROVE  IInv'
<1>1. /\ TypeOK /\ authority \in Authority /\ round \in Nat /\ w \in Nat
      /\ round \in 1..round /\ DOMAIN workers = 1..round /\ round # 0 /\ w # 0
      /\ workers[w] \in Worker
  BY DEF IInv, TypeOK, Authority
<1>2. /\ UNCHANGED <<round, state, sender, closing, pending, decoders>> /\ workers[w].pc = "running"
      /\ authority' = Authorized(authority, w)
  BY DEF Login, At, session
<1>3. /\ OnlyWorker(w) /\ workers'[w] = [workers[w] EXCEPT !.logged_in = TRUE]
  BY <1>1 DEF Login, OnlyWorker
<1>4. /\ workers'[w] \in Worker /\ workers'[w].pc = workers[w].pc
      /\ workers'[w].guard = workers[w].guard /\ workers'[w].logged_in
  BY <1>1, <1>3 DEF Worker
<1>5. /\ authority' \in Authority
      /\ authority'.connection_generation = authority.connection_generation
      /\ authority'.ended = authority.ended
      /\ authority'.allowed => authority.allowed \/ (authority.connection_generation = w /\ ~authority.ended)
  <2>1. authority' \in Authority
    BY <1>1, <1>2, AuthorityType
  <2> QED
    BY <1>1, <1>2, <2>1 DEF Authorized, Authority
<1>6. TypeOK'
  BY <1>1, <1>2, <1>3, <1>4, <1>5 DEF TypeOK, OnlyWorker, Authority
<1>7. ChannelPublished'
  BY <1>2 DEF IInv, ChannelPublished
<1>8. Allowed'
  <2>1. authority.connection_generation = w /\ ~authority.ended => w = round /\ state = "Connected"
    BY <1>1, <1>2 DEF IInv, Allowed
  <2>2. authority'.allowed => authority.allowed \/ (w = round /\ state = "Connected" /\ ~authority.ended)
    BY <1>5, <2>1
  <2>3. /\ authority'.connection_generation # 0 /\ ~authority'.ended =>
            authority'.connection_generation = round /\ state # "Disconnected"
        /\ \A v \in 1..round : v = round /\ workers'[v].pc = "running" =>
            state \in {"Connected", "Disconnected"}
    <3>1. authority.connection_generation # 0 /\ ~authority.ended =>
              authority.connection_generation = round /\ state # "Disconnected"
      BY DEF IInv, Allowed
    <3>2. authority'.connection_generation # 0 /\ ~authority'.ended =>
              authority'.connection_generation = round /\ state # "Disconnected"
      BY <1>5, <3>1
    <3>3. \A v \in 1..round : workers'[v].pc = workers[v].pc
      BY <1>1, <1>3, <1>4 DEF OnlyWorker
    <3>4. \A v \in 1..round : v = round /\ workers[v].pc = "running" =>
              state \in {"Connected", "Disconnected"}
      BY <1>1 DEF IInv, Allowed
    <3> QED
      BY <3>2, <3>3, <3>4
  <2>4. ASSUME authority.allowed
        PROVE  workers'[round].pc = "running" /\ workers'[round].logged_in
    <3>1. workers[round].pc = "running" /\ workers[round].logged_in
      BY <2>4 DEF IInv, Allowed
    <3> QED
      BY <1>1, <1>3, <1>4, <3>1 DEF OnlyWorker
  <2>5. authority'.allowed =>
        /\ authority'.connection_generation = round
        /\ ~authority'.ended /\ state = "Connected"
        /\ workers'[round].pc = "running" /\ workers'[round].logged_in
    BY <1>1, <1>2, <1>4, <1>5, <2>2, <2>3, <2>4 DEF IInv, Allowed
  <2> QED
    BY <1>1, <1>2, <1>3, <2>3, <2>5 DEF Allowed, OnlyWorker
<1>9. Guards'
  <2>1. /\ DOMAIN workers' = 1..round
        /\ \A v \in 1..round : workers'[v].pc = workers[v].pc /\ workers'[v].guard = workers[v].guard
    BY <1>1, <1>3, <1>4 DEF OnlyWorker
  <2> QED
    BY <1>1, <1>2, <2>1 DEF IInv, Guards
<1>10. OwnPrompt' /\ PromptOwned'
  <2>1. pending # None => pending \in 1..round /\ workers'[pending].pc = workers[pending].pc
                          /\ workers'[pending].guard = workers[pending].guard
    BY <1>1, <1>3, <1>4 DEF TypeOK, OnlyWorker
  <2> QED
    BY <1>2, <2>1 DEF IInv, OwnPrompt, PromptOwned
<1> QED
  BY <1>6, <1>7, <1>8, <1>9, <1>10 DEF IInv

\* A decoder thread starts.
LEMMA DecoderStep ==
    ASSUME IInv, NEW w \in 1..round, NewVideoThread(w)
    PROVE  IInv'
<1>1. UNCHANGED <<round, state, sender, closing, pending, workers, authority>>
  BY DEF NewVideoThread, session
<1>2. decoders' \subseteq [connection : Nat, generation : Nat]
  BY DEF NewVideoThread, IInv, TypeOK
<1>3. TypeOK'
  BY <1>1, <1>2 DEF IInv, TypeOK
<1> QED
  BY <1>1, <1>3 DEF IInv, ChannelPublished, Allowed, Guards, OwnPrompt, PromptOwned

\* A worker takes a guard for the round that is current.
LEMMA BeginStep ==
    ASSUME IInv, NEW w \in 1..round, BeginApproval(w)
    PROVE  IInv'
<1>1. /\ TypeOK /\ round \in Nat /\ w \in Nat /\ w <= round
      /\ round \in 1..round /\ DOMAIN workers = 1..round /\ round # 0 /\ workers[w] \in Worker
  BY DEF IInv, TypeOK
<1>2. /\ UNCHANGED <<round, sender, closing, pending, authority, decoders>>
      /\ workers[w].pc = "starting" /\ state = "Connecting" /\ state' = "AwaitingUserApproval"
  BY DEF BeginApproval, At
<1>3. /\ OnlyWorker(w)
      /\ workers'[w] = [workers[w] EXCEPT !.pc = "guarded", !.guard = round,
                                          !.answer = "none", !.prompts = @ + 1]
  BY <1>1 DEF BeginApproval, OnlyWorker
<1>4. /\ workers'[w] \in Worker /\ workers'[w].pc = "guarded" /\ workers'[w].guard = round
      /\ workers'[w].logged_in = workers[w].logged_in
  <2> DEFINE n == workers[w].prompts + 1
  <2>1. n \in Nat
    BY <1>1 DEF Worker
  <2>2. workers'[w] = [workers[w] EXCEPT !.pc = "guarded", !.guard = round,
                                         !.answer = "none", !.prompts = n]
    BY <1>3
  <2> HIDE DEF n
  <2> QED
    BY <1>1, <2>1, <2>2 DEF Worker, Steps, Answers
<1>5. TypeOK'
  BY <1>1, <1>2, <1>3, <1>4 DEF TypeOK, OnlyWorker, States
<1>6. ChannelPublished'
  BY <1>2 DEF IInv, ChannelPublished
<1>7. Allowed'
  BY <1>1, <1>2, <1>3, <1>4 DEF IInv, Allowed, OnlyWorker
<1>8. Guards'
  <2>1. \A v \in 1..round : workers[v].guard # round
    BY <1>1, <1>2 DEF IInv, Guards
  <2>2. round \in w..round
    BY <1>1
  <2>3. \A v \in 1..round : v # w => workers'[v] = workers[v]
    BY <1>1, <1>3 DEF OnlyWorker
  <2>4. \A v \in 1..round : workers'[v].guard = round => v = w
    BY <2>1, <2>3
  <2>5. \A v \in 1..round : workers'[v].guard # None =>
            workers'[v].pc \in {"guarded", "waiting", "releasing"} /\ workers'[v].guard \in v..round
    BY <1>1, <1>4, <2>2, <2>3 DEF IInv, Guards
  <2>6. DOMAIN workers' = 1..round
    BY <1>1, <1>3 DEF OnlyWorker
  <2> QED
    BY <1>2, <2>4, <2>5, <2>6 DEF Guards
<1>9. OwnPrompt' /\ PromptOwned'
  <2>1. pending # round
    BY <1>1, <1>2 DEF IInv, OwnPrompt, None
  <2>2. pending # None => pending \in 1..round
    BY <1>1 DEF TypeOK
  <2>3. pending # None /\ pending # w => workers'[pending] = workers[pending]
    BY <1>1, <1>3, <2>2 DEF OnlyWorker
  <2>4. pending = w => workers'[pending].guard # pending
    BY <1>4, <2>1
  <2> QED
    BY <1>2, <2>1, <2>3, <2>4 DEF IInv, OwnPrompt, PromptOwned
<1> QED
  BY <1>5, <1>6, <1>7, <1>8, <1>9 DEF IInv

\* Steps inside a prompt leave the session, the authority and every guard alone.
LEMMA PromptStep ==
    ASSUME IInv, NEW w \in 1..round, UNCHANGED <<round, state, sender, authority>>,
           DOMAIN workers' = 1..round,
           \A v \in 1..round : workers'[v].guard = workers[v].guard,
           \A v \in 1..round : v # w => workers'[v].pc = workers[v].pc,
           \A v \in 1..round : v # w => workers'[v].logged_in = workers[v].logged_in,
           workers[w].pc \in {"guarded", "waiting"}, workers'[w].pc \in {"waiting", "releasing"}
    PROVE  ChannelPublished' /\ Allowed' /\ Guards'
<1>1. DOMAIN workers = 1..round /\ round \in Nat /\ (round # 0 => round \in 1..round)
  BY DEF IInv, TypeOK
<1>2. ChannelPublished'
  BY DEF IInv, ChannelPublished
<1>3. Allowed'
  <2>1. /\ authority.connection_generation # 0 /\ ~authority.ended =>
            authority.connection_generation = round /\ state # "Disconnected"
        /\ authority.allowed =>
            /\ authority.connection_generation = round /\ round # 0
            /\ ~authority.ended /\ state = "Connected"
            /\ workers[round].pc = "running" /\ workers[round].logged_in
    BY DEF IInv, Allowed
  <2>2. ASSUME authority.allowed PROVE workers'[round].pc = "running" /\ workers'[round].logged_in
    <3>1. round # w /\ round \in 1..round
      BY <1>1, <2>1, <2>2
    <3>2. workers'[round].pc = "running"
      BY <2>1, <2>2, <3>1
    <3>3. workers'[round].logged_in
      BY <2>1, <2>2, <3>1
    <3> QED
      BY <3>2, <3>3
  <2>3. \A v \in 1..round : v = round /\ workers'[v].pc = "running" =>
            state \in {"Connected", "Disconnected"}
    BY <1>1 DEF IInv, Allowed
  <2> QED
    BY <2>1, <2>2, <2>3 DEF Allowed
<1>4. Guards'
  <2>1. \A v \in 1..round : workers'[v].guard # None =>
            workers'[v].pc \in {"guarded", "waiting", "releasing"} /\ workers'[v].guard \in v..round
    BY <1>1 DEF IInv, Guards
  <2>2. \A v \in 1..round : workers'[v].guard = round =>
            state \in {"AwaitingUserApproval", "Disconnected"}
    BY <1>1 DEF IInv, Guards
  <2>3. state = "AwaitingUserApproval" =>
            \A v, u \in 1..round : workers'[v].guard = round /\ workers'[u].guard = round => v = u
    BY <1>1 DEF IInv, Guards
  <2> QED
    BY <2>1, <2>2, <2>3 DEF Guards
<1> QED
  BY <1>2, <1>3, <1>4

\* The worker installs its response channel, if its guard is still current.
LEMMA InstallStep ==
    ASSUME IInv, NEW w \in 1..round, Install(w)
    PROVE  IInv'
<1>1. /\ TypeOK /\ round \in Nat /\ w \in Nat /\ w # 0 /\ DOMAIN workers = 1..round
      /\ workers[w] \in Worker /\ workers[w].pc = "guarded"
  BY DEF IInv, TypeOK, Install, At
<1>2. UNCHANGED <<round, state, sender, closing, authority, decoders>>
  BY DEF Install, session
<1>3. CASE Current(w)
  <2> DEFINE answered == Answered("no")
  <2>1. pending' = w /\ workers' = [answered EXCEPT ![w].pc = "waiting"]
    BY <1>3 DEF Install
  <2>2. /\ DOMAIN answered = 1..round
        /\ \A v \in 1..round :
            /\ answered[v] \in Worker /\ answered[v].pc = workers[v].pc
            /\ answered[v].guard = workers[v].guard /\ answered[v].logged_in = workers[v].logged_in
    BY <1>1, AnsweredFacts DEF Answers
  <2> HIDE DEF answered
  <2>3. /\ DOMAIN workers' = 1..round /\ \A v \in 1..round : v # w => workers'[v] = answered[v]
        /\ workers'[w] = [answered[w] EXCEPT !.pc = "waiting"]
    BY <2>1, <2>2
  <2>4. /\ workers'[w] \in Worker /\ workers'[w].pc = "waiting" /\ workers'[w].guard = workers[w].guard
    BY <2>2, <2>3 DEF Worker, Steps
  <2>5. TypeOK'
    BY <1>1, <1>2, <2>1, <2>2, <2>3, <2>4 DEF TypeOK
  <2>6. ChannelPublished' /\ Allowed' /\ Guards'
    <3>1. \A v \in 1..round : workers'[v].guard = workers[v].guard
      BY <2>2, <2>3, <2>4
    <3>2. \A v \in 1..round : v # w =>
            workers'[v].pc = workers[v].pc /\ workers'[v].logged_in = workers[v].logged_in
      BY <2>2, <2>3
    <3> QED
      BY <1>1, <1>2, <2>3, <2>4, <3>1, <3>2, PromptStep
  <2>7. workers[w].guard = round /\ state = "AwaitingUserApproval"
    BY <1>3 DEF Current
  <2>8. OwnPrompt' /\ PromptOwned'
    BY <1>2, <2>1, <2>4, <2>7 DEF OwnPrompt, PromptOwned
  <2> QED
    BY <2>5, <2>6, <2>8 DEF IInv
<1>4. CASE ~Current(w)
  <2>1. /\ pending' = pending
        /\ workers' = [workers EXCEPT ![w].pc = "releasing", ![w].answer = "no"]
    BY <1>4 DEF Install
  <2>2. /\ DOMAIN workers' = 1..round /\ \A v \in 1..round : v # w => workers'[v] = workers[v]
        /\ workers'[w] = [workers[w] EXCEPT !.pc = "releasing", !.answer = "no"]
    BY <1>1, <2>1
  <2>3. workers'[w] \in Worker /\ workers'[w].pc = "releasing" /\ workers'[w].guard = workers[w].guard
    BY <1>1, <2>2 DEF Worker, Steps, Answers
  <2>4. TypeOK'
    BY <1>1, <1>2, <2>1, <2>2, <2>3 DEF TypeOK
  <2>5. ChannelPublished' /\ Allowed' /\ Guards'
    <3>1. \A v \in 1..round : workers'[v].guard = workers[v].guard
      BY <2>2, <2>3
    <3>2. \A v \in 1..round : v # w =>
            workers'[v].pc = workers[v].pc /\ workers'[v].logged_in = workers[v].logged_in
      BY <2>2
    <3> QED
      BY <1>1, <1>2, <2>2, <2>3, <3>1, <3>2, PromptStep
  <2>6. pending = w => pending # round /\ workers[pending].guard # pending
    BY <1>1 DEF IInv, OwnPrompt, PromptOwned, None
  <2>7. OwnPrompt' /\ PromptOwned'
    <3>1. pending # None => pending \in 1..round
      BY <1>1 DEF TypeOK
    <3> QED
      BY <1>2, <2>1, <2>2, <2>3, <2>6, <3>1 DEF IInv, OwnPrompt, PromptOwned
  <2> QED
    BY <2>4, <2>5, <2>7 DEF IInv
<1> QED
  BY <1>3, <1>4

\* The prompt times out.
LEMMA ExpireStep ==
    ASSUME IInv, NEW w \in 1..round, Expire(w)
    PROVE  IInv'
<1>1. /\ TypeOK /\ DOMAIN workers = 1..round
      /\ workers[w] \in Worker /\ workers[w].pc = "waiting"
  BY DEF IInv, TypeOK, Expire, At
<1>2. UNCHANGED <<round, state, sender, closing, pending, authority, decoders>>
  BY DEF Expire, session
<1>3. /\ DOMAIN workers' = 1..round /\ \A v \in 1..round : v # w => workers'[v] = workers[v]
      /\ workers'[w] = [workers[w] EXCEPT !.answer = "timeout"]
  BY <1>1 DEF Expire
<1>4. workers'[w] \in Worker /\ workers'[w].pc = "waiting" /\ workers'[w].guard = workers[w].guard
  BY <1>1, <1>3 DEF Worker, Answers
<1>5. TypeOK'
  BY <1>1, <1>2, <1>3, <1>4 DEF TypeOK
<1>6. ChannelPublished' /\ Allowed' /\ Guards'
  BY <1>1, <1>2, <1>3, <1>4, PromptStep
<1>7. OwnPrompt' /\ PromptOwned'
  <2>1. pending # None => pending \in 1..round
    BY <1>1 DEF TypeOK
  <2> QED
    BY <1>1, <1>2, <1>3, <1>4, <2>1 DEF IInv, OwnPrompt, PromptOwned
<1> QED
  BY <1>5, <1>6, <1>7 DEF IInv

\* The worker takes note of the response.
LEMMA ResolveStep ==
    ASSUME IInv, NEW w \in 1..round, Resolve(w)
    PROVE  IInv'
<1>1. /\ TypeOK /\ DOMAIN workers = 1..round /\ w # 0
      /\ workers[w] \in Worker /\ workers[w].pc = "waiting"
  BY DEF IInv, TypeOK, Resolve, At
<1>2. UNCHANGED <<round, state, sender, closing, authority, decoders>>
  BY DEF Resolve, session
<1>3. \/ Current(w) /\ pending' = None /\ workers' = [workers EXCEPT ![w].pc = "releasing"]
      \/ /\ ~Current(w) /\ pending' = pending
         /\ workers' = [workers EXCEPT ![w].pc = "releasing", ![w].answer = "no"]
  BY DEF Resolve, Goto
<1>4. /\ DOMAIN workers' = 1..round /\ \A v \in 1..round : v # w => workers'[v] = workers[v]
      /\ \/ workers'[w] = [workers[w] EXCEPT !.pc = "releasing"]
         \/ workers'[w] = [workers[w] EXCEPT !.pc = "releasing", !.answer = "no"]
  BY <1>1, <1>3
<1>5. workers'[w] \in Worker /\ workers'[w].pc = "releasing" /\ workers'[w].guard = workers[w].guard
  BY <1>1, <1>4 DEF Worker, Answers, Steps
<1>6. TypeOK'
  BY <1>1, <1>2, <1>3, <1>4, <1>5 DEF TypeOK, None
<1>7. ChannelPublished' /\ Allowed' /\ Guards'
  BY <1>1, <1>2, <1>4, <1>5, PromptStep
<1>8. OwnPrompt' /\ PromptOwned'
  <2>1. CASE pending' = None
    BY <2>1 DEF OwnPrompt, PromptOwned
  <2>2. CASE ~Current(w) /\ pending' = pending
    <3>1. pending = w => pending # round /\ workers[pending].guard # pending
      BY <1>1, <2>2 DEF IInv, OwnPrompt, PromptOwned, Current, None
    <3>2. pending # None => pending \in 1..round
      BY <1>1 DEF TypeOK
    <3> QED
      BY <1>2, <1>4, <1>5, <2>2, <3>1, <3>2 DEF IInv, OwnPrompt, PromptOwned
  <2> QED
    BY <1>3, <2>1, <2>2
<1> QED
  BY <1>6, <1>7, <1>8 DEF IInv

\* The guard is dropped.
LEMMA ReleaseStep ==
    ASSUME IInv, NEW w \in 1..round, NEW next \in {"starting", "exit"}, Release(w, next)
    PROVE  IInv'
<1>1. /\ TypeOK /\ DOMAIN workers = 1..round /\ w # 0 /\ w \in Nat /\ round \in Nat /\ w <= round
      /\ workers[w] \in Worker /\ workers[w].pc = "releasing" /\ authority \in Authority
      /\ round \in 1..round /\ round # 0
  BY DEF IInv, TypeOK, Release, At, Authority
<1>2. /\ UNCHANGED <<round, sender, closing, pending, decoders>>
      /\ state' = IF Current(w) THEN "Connecting" ELSE state
      /\ authority' = IF next = "exit" THEN Ended(authority, w) ELSE authority
  BY DEF Release
<1>3. /\ DOMAIN workers' = 1..round /\ \A v \in 1..round : v # w => workers'[v] = workers[v]
      /\ workers'[w] = [workers[w] EXCEPT !.guard = None, !.answer = "none", !.pc = next]
  BY <1>1 DEF Release
<1>4. workers'[w] \in Worker /\ workers'[w].pc = next /\ workers'[w].guard = None
  <2>1. next \in Steps /\ "none" \in Answers /\ None \in Nat
    BY DEF Steps, Answers, None
  <2>2. workers'[w] \in Worker
    BY <1>1, <1>3, <2>1 DEF Worker
  <2>3. workers'[w].pc = next /\ workers'[w].guard = None
    BY <1>1, <1>3 DEF Worker
  <2> QED
    BY <2>2, <2>3
<1>5. authority' \in Authority /\ authority'.connection_generation <= round
  <2>1. authority.connection_generation <= round
    BY <1>1 DEF TypeOK
  <2> QED
    BY <1>1, <1>2, <2>1, EndedBound
<1>6. TypeOK'
  BY <1>1, <1>2, <1>3, <1>4, <1>5 DEF TypeOK, States, Authority
<1>7. ChannelPublished'
  BY <1>2 DEF IInv, ChannelPublished, Current
<1>8. Allowed'
  <2>1. authority'.connection_generation # 0 /\ ~authority'.ended =>
            authority'.connection_generation = round /\ state # "Disconnected"
    BY <1>1, <1>2, EndedFacts DEF IInv, Allowed
  <2>2. state' = "Disconnected" => state = "Disconnected"
    BY <1>2
  <2>3. \A v \in 1..round : v = round /\ workers'[v].pc = "running" =>
            state \in {"Connected", "Disconnected"} /\ state' = state
    BY <1>1, <1>2, <1>3, <1>4 DEF IInv, Allowed, Current
  <2>4. authority'.allowed => authority' = authority
    BY <1>1, <1>2, EndedFacts
  <2>5. ASSUME authority.allowed
        PROVE  /\ authority.connection_generation = round
               /\ ~authority.ended /\ state = "Connected" /\ state' = "Connected"
               /\ workers'[round].pc = "running" /\ workers'[round].logged_in
    <3>1. /\ authority.connection_generation = round /\ ~authority.ended
          /\ state = "Connected" /\ workers[round].pc = "running" /\ workers[round].logged_in
      BY <2>5 DEF IInv, Allowed
    <3>2. round # w /\ ~Current(w)
      BY <1>1, <3>1 DEF Current
    <3>3. workers'[round] = workers[round]
      BY <1>1, <1>3, <3>2
    <3> QED
      BY <1>2, <3>1, <3>2, <3>3
  <2>6. authority'.allowed =>
            /\ authority'.connection_generation = round /\ ~authority'.ended
            /\ state' = "Connected" /\ workers'[round].pc = "running" /\ workers'[round].logged_in
    BY <2>4, <2>5
  <2> QED
    BY <1>1, <1>2, <1>3, <2>1, <2>2, <2>3, <2>6 DEF Allowed
<1>9. Guards'
  <2>1. \A v \in 1..round : workers'[v].guard # None =>
            workers'[v].pc \in {"guarded", "waiting", "releasing"} /\ workers'[v].guard \in v..round
    BY <1>1, <1>3, <1>4 DEF IInv, Guards
  <2>2. ASSUME NEW v \in 1..round, workers'[v].guard = round
        PROVE  v # w /\ workers[v].guard = round /\ state' = state
               /\ state \in {"AwaitingUserApproval", "Disconnected"}
    <3>1. v # w
      BY <1>1, <1>4, <2>2 DEF None
    <3>2. workers[v].guard = round
      BY <1>3, <2>2, <3>1
    <3>3. ~Current(w)
      BY <1>1, <3>1, <3>2 DEF IInv, Guards, Current
    <3> QED
      BY <1>1, <1>2, <3>1, <3>2, <3>3 DEF IInv, Guards
  <2>3. state' = "AwaitingUserApproval" =>
            \A v, u \in 1..round : workers'[v].guard = round /\ workers'[u].guard = round => v = u
    BY <1>1, <2>2 DEF IInv, Guards
  <2> QED
    BY <1>2, <1>3, <2>1, <2>2, <2>3 DEF Guards
<1>10. OwnPrompt' /\ PromptOwned'
  <2>1. pending = w => pending # round /\ workers'[pending].guard # pending
    BY <1>1, <1>4 DEF IInv, OwnPrompt, None
  <2>2. pending # None => pending \in 1..round
    BY <1>1 DEF TypeOK
  <2>3. pending # None /\ pending # w => workers'[pending] = workers[pending]
    BY <1>3, <2>2
  <2>4. ASSUME pending # None, pending # w, workers[pending].guard = round
        PROVE  state' = state
    <3>1. ~Current(w)
      BY <1>1, <2>2, <2>4 DEF IInv, Guards, Current
    <3> QED
      BY <1>2, <3>1
  <2>5. CASE pending = w
    BY <1>2, <2>1, <2>5 DEF OwnPrompt, PromptOwned
  <2>6. CASE pending # w
    BY <1>2, <2>3, <2>4, <2>6 DEF IInv, OwnPrompt, PromptOwned
  <2> QED
    BY <2>5, <2>6
<1> QED
  BY <1>6, <1>7, <1>8, <1>9, <1>10 DEF IInv

-----------------------------------------------------------------------------

\* The invariant is inductive.
THEOREM Invariance == Spec => []IInv
<1>1. Init => IInv
  BY InitHolds
<1>2. IInv /\ [Next]_vars => IInv'
  <2> SUFFICES ASSUME IInv, [Next]_vars PROVE IInv'
    OBVIOUS
  <2>1. CASE UNCHANGED vars
    BY <2>1 DEF vars, IInv, TypeOK, ChannelPublished, Allowed, Guards, OwnPrompt, PromptOwned
  <2>2. ASSUME NEW w \in 1..MAX_ROUNDS, WorkerStep(w)
        PROVE  IInv'
    <3>1. w \in DOMAIN workers
      BY <2>2 DEF WorkerStep, Abandon, Enter, BeginApproval, Install, Expire, Resolve, Release,
                  Connect, ConnectFails, Login, NewVideoThread, Leave, Exit, At
    <3>2. w \in 1..round
      BY <3>1 DEF IInv, TypeOK
    <3> QED
      BY <2>2, <3>2, MoveStep, FinishStep, ConnectStep, LoginStep, DecoderStep, BeginStep,
         InstallStep, ExpireStep, ResolveStep, ReleaseStep DEF WorkerStep
  <2> QED
    BY <2>1, <2>2, StartStep, CloseStep, RespondStep DEF Next
<1> QED
  BY <1>1, <1>2, PTL DEF Spec

\* The published command channel is the current attempt's, exactly while it is alive
\* (prepare_connection_attempt, finish_connection_attempt, close).
THEOREM ChannelPublishedHolds == Spec => []ChannelPublished
BY Invariance, PTL DEF IInv

\* Only the current, connected and logged-in runtime puts pixels on the screen
\* (ScreenViewAuthority).
THEOREM OnlyCurrentRendersHolds == Spec => []OnlyCurrentRenders
<1>1. IInv => OnlyCurrentRenders
  BY AllowedRenders DEF IInv
<1> QED
  BY <1>1, Invariance, PTL

\* A worker's prompt for its own attempt is up only while that attempt waits for it
\* (UserApprovalGuard).
THEOREM PromptOwnedHolds == Spec => []PromptOwned
BY Invariance, PTL DEF IInv

\* No step of a retired worker connects, disconnects or unpublishes the current attempt.
THEOREM RetiredKeepsOutHolds == Spec => RetiredKeepsOut
<1>1. ASSUME NEW w \in 1..MAX_ROUNDS, WorkerStep(w), w # round
      PROVE  /\ UNCHANGED <<round, sender>>
             /\ state' # state => {state, state'} = {"Connecting", "AwaitingUserApproval"}
  <2>1. CASE \E next \in {"starting", "exit"} : Release(w, next)
    BY <2>1 DEF Release, Current
  <2>2. CASE BeginApproval(w)
    BY <2>2 DEF BeginApproval
  <2>3. CASE Abandon(w) \/ Exit(w)
    BY <1>1, <2>3 DEF Abandon, Exit, Finish
  <2>4. CASE Connect(w)
    BY <1>1, <2>4 DEF Connect
  <2>5. CASE \/ Enter(w) \/ Install(w) \/ Expire(w) \/ Resolve(w) \/ ConnectFails(w)
             \/ Login(w) \/ NewVideoThread(w) \/ Leave(w)
    BY <2>5 DEF Enter, Install, Expire, Resolve, ConnectFails, Login, NewVideoThread, Leave, session
  <2> QED
    BY <1>1, <2>1, <2>2, <2>3, <2>4, <2>5 DEF WorkerStep
<1> DEFINE Kept == \A w \in 1..MAX_ROUNDS : WorkerStep(w) /\ w # round =>
                      /\ UNCHANGED <<round, sender>>
                      /\ state' # state => {state, state'} = {"Connecting", "AwaitingUserApproval"}
<1>2. [Next]_vars => [Kept]_vars
  BY <1>1
<1> QED
  BY <1>2, PTL DEF Spec, RetiredKeepsOut

-----------------------------------------------------------------------------
(* ClipboardRounds: its variables keep their types, and a logged-in session *)
(* has a watcher that listens, for any number of rounds, watchers and       *)
(* failures of the listener.                                                *)

Rounds == 1..MAX_ROUNDS
CurrentThread == [generation |-> watcher.generation, pc |-> "loop"]

\* A generation belongs to one thread, and none is ahead of the coordinator.
Generations ==
    /\ \A t \in threads : t.generation <= watcher.generation
    /\ \A t, u \in threads : t.generation = u.generation => t = u

\* Whoever may believe that the watcher runs has a channel.
Registered == \A w \in Rounds : clip[w] \in {"start", "on"} => w \in channels

\* Only a failure of the listener tells a watcher to end.
ToldByFailure == failures = 0 => told = {}

RunningHasThread == watcher.running => \E t \in threads : t.generation = watcher.generation
RunningListens ==
    failures = 0 /\ watcher.running =>
        subscriber = watcher.generation /\ CurrentThread \in threads
OnRuns == failures = 0 /\ (\E w \in Rounds : clip[w] = "on") => watcher.running

Inv ==
    /\ ClipboardTypeOK /\ Generations /\ Registered /\ ToldByFailure
    /\ RunningHasThread /\ RunningListens /\ OnRuns

LEMMA InitInv == ClipboardInit => Inv
BY RoundsConstants, FailuresAssumption
DEF ClipboardInit, Inv, ClipboardTypeOK, Uses, Generations, Registered, ToldByFailure,
    RunningHasThread, RunningListens, OnRuns, Rounds, None

\* A step that touches nothing of the clipboard but a worker's place keeps the
\* invariant when that worker does not come to believe that the watcher runs.
LEMMA PlaceInv ==
    ASSUME Inv, NEW w \in Rounds, NEW use \in Uses \ {"start", "on"}, UseNext(w, use)
    PROVE  Inv'
BY DEF UseNext, Inv, ClipboardTypeOK, Uses, Generations, Registered, ToldByFailure,
       RunningHasThread, RunningListens, OnRuns, CurrentThread, Rounds

LEMMA UnchangedInv == ASSUME Inv, UNCHANGED clipboard PROVE Inv'
BY DEF clipboard, Inv, ClipboardTypeOK, Generations, Registered, ToldByFailure,
       RunningHasThread, RunningListens, OnRuns, CurrentThread

LEMMA RegisterInv == ASSUME Inv, NEW w \in Rounds, Register(w) PROVE Inv'
BY DEF Register, Inv, ClipboardTypeOK, Uses, Generations, Registered, ToldByFailure,
       RunningHasThread, RunningListens, OnRuns, CurrentThread, Rounds

LEMMA UnregisterInv == ASSUME Inv, NEW w \in Rounds, Unregister(w) PROVE Inv'
BY DEF Unregister, Inv, ClipboardTypeOK, Uses, Generations, Registered, ToldByFailure,
       RunningHasThread, RunningListens, OnRuns, CurrentThread, Rounds

LEMMA StartInv == ASSUME Inv, NEW w \in Rounds, TryStartClipboard(w) PROVE Inv'
<1>1. CASE watcher.running /\ UNCHANGED <<watcher, threads, subscriber, failures>>
  BY <1>1 DEF TryStartClipboard, Inv, ClipboardTypeOK, Uses, Generations, Registered,
       ToldByFailure, RunningHasThread, RunningListens, OnRuns, CurrentThread, Rounds
<1>2. CASE /\ ~watcher.running
           /\ watcher' = [generation |-> watcher.generation + 1, running |-> TRUE]
           /\ threads' = threads \cup {[generation |-> watcher'.generation, pc |-> "loop"]}
           /\ subscriber' = watcher'.generation
           /\ UNCHANGED failures
  <2>1. watcher'.generation = watcher.generation + 1 /\ watcher'.running /\ watcher.generation \in Nat
    BY <1>2 DEF Inv, ClipboardTypeOK
  <2>2. ClipboardTypeOK'
    BY <1>2, <2>1 DEF TryStartClipboard, Inv, ClipboardTypeOK, Uses, Rounds
  <2>3. Generations'
    <3>1. \A t \in threads : t.generation \in Nat /\ t.generation <= watcher.generation
      BY DEF Inv, ClipboardTypeOK, Generations
    <3> QED BY <1>2, <2>1, <3>1 DEF Inv, Generations
  <2>4. Registered' /\ ToldByFailure'
    BY <1>2 DEF TryStartClipboard, Inv, ClipboardTypeOK, Registered, ToldByFailure, Rounds
  <2>5. CurrentThread' \in threads' /\ (CurrentThread').generation = watcher'.generation
    BY <1>2 DEF CurrentThread
  <2>6. RunningHasThread' /\ RunningListens' /\ OnRuns'
    BY <1>2, <2>1, <2>5 DEF RunningHasThread, RunningListens, OnRuns
  <2> QED BY <2>2, <2>3, <2>4, <2>6 DEF Inv
<1>3. CASE /\ ~watcher.running /\ failures < MaxFailures
           /\ failures' = failures + 1 /\ subscriber' = None
           /\ UNCHANGED <<watcher, threads>>
  BY <1>3, FailuresAssumption
  DEF TryStartClipboard, Inv, ClipboardTypeOK, Uses, Generations, Registered,
      ToldByFailure, RunningHasThread, RunningListens, OnRuns, CurrentThread, Rounds, None
<1> QED BY <1>1, <1>2, <1>3 DEF TryStartClipboard

LEMMA StopInv == ASSUME Inv, NEW w \in Rounds, TryStopClipboard(w) PROVE Inv'
<1>1. CASE channels # {}
  BY <1>1 DEF TryStopClipboard, Inv, ClipboardTypeOK, Uses, Generations, Registered,
       ToldByFailure, RunningHasThread, RunningListens, OnRuns, CurrentThread, Rounds
<1>2. CASE channels = {}
  <2>1. /\ watcher' = [generation |-> watcher.generation + 1, running |-> FALSE]
        /\ watcher'.generation = watcher.generation + 1 /\ ~watcher'.running
        /\ watcher.generation \in Nat /\ subscriber' = None
    BY <1>2 DEF TryStopClipboard, Inv, ClipboardTypeOK
  <2>2. ClipboardTypeOK'
    BY <2>1 DEF TryStopClipboard, Inv, ClipboardTypeOK, Uses, Rounds, None
  <2>3. Generations'
    <3>1. \A t \in threads : t.generation \in Nat /\ t.generation <= watcher.generation
      BY DEF Inv, ClipboardTypeOK, Generations
    <3> QED BY <2>1, <3>1 DEF TryStopClipboard, Inv, Generations
  <2>4. Registered' /\ ToldByFailure' /\ RunningHasThread' /\ RunningListens'
    BY <2>1 DEF TryStopClipboard, Inv, ClipboardTypeOK, Registered, ToldByFailure,
       RunningHasThread, RunningListens, Rounds
  <2>5. OnRuns'
    BY <1>2 DEF TryStopClipboard, Inv, ClipboardTypeOK, Registered, OnRuns, Rounds
  <2> QED BY <2>2, <2>3, <2>4, <2>5 DEF Inv
<1> QED BY <1>1, <1>2

LEMMA FailInv == ASSUME Inv, ListenerFails PROVE Inv'
BY FailuresAssumption
DEF ListenerFails, Inv, ClipboardTypeOK, Generations, Registered, ToldByFailure,
    RunningHasThread, RunningListens, OnRuns, CurrentThread

LEMMA LeaveLoopInv == ASSUME Inv, NEW t \in threads, LeaveLoop(t) PROVE Inv'
<1> DEFINE u == [t EXCEPT !.pc = "finish"]
<1>1. t \in [generation : Nat, pc : {"loop", "finish"}]
  BY DEF Inv, ClipboardTypeOK
<1>2. u \in [generation : Nat, pc : {"loop", "finish"}] /\ u.generation = t.generation
  BY <1>1
<1>3. threads' = (threads \ {t}) \cup {u}
  BY DEF LeaveLoop
<1>4. ClipboardTypeOK' /\ Registered' /\ ToldByFailure' /\ OnRuns'
  BY <1>2, <1>3 DEF LeaveLoop, Inv, ClipboardTypeOK, Registered, ToldByFailure, OnRuns
<1>5. Generations' /\ RunningHasThread'
  BY <1>2, <1>3 DEF LeaveLoop, Inv, Generations, RunningHasThread
<1>6. RunningListens'
  <2>1. failures = 0 /\ watcher.running => t # CurrentThread
    BY DEF LeaveLoop, IsCurrent, Inv, ToldByFailure, CurrentThread
  <2> QED BY <1>3, <2>1 DEF LeaveLoop, Inv, RunningListens, CurrentThread
<1> QED BY <1>4, <1>5, <1>6 DEF Inv

LEMMA FinishInv == ASSUME Inv, NEW t \in threads, FinishWatcher(t) PROVE Inv'
<1>1. /\ watcher'.generation = watcher.generation
      /\ watcher'.running = (watcher.running /\ watcher.generation # t.generation)
  BY DEF FinishWatcher, Inv, ClipboardTypeOK
<1>2. ClipboardTypeOK' /\ Generations' /\ Registered' /\ ToldByFailure'
  BY <1>1 DEF FinishWatcher, Inv, ClipboardTypeOK, Generations, Registered, ToldByFailure
<1>3. RunningHasThread'
  BY <1>1 DEF FinishWatcher, Inv, RunningHasThread
<1>4. RunningListens'
  <2>1. CurrentThread' = CurrentThread /\ CurrentThread.generation = watcher.generation
    BY <1>1 DEF CurrentThread
  <2> QED BY <1>1, <2>1 DEF FinishWatcher, Inv, RunningListens
<1>5. OnRuns'
  <2>1. SUFFICES ASSUME failures = 0, watcher.running
                 PROVE  watcher.generation # t.generation
    BY <1>1 DEF FinishWatcher, Inv, OnRuns
  <2>2. CurrentThread \in threads /\ CurrentThread.generation = watcher.generation
        /\ CurrentThread.pc = "loop"
    BY <2>1 DEF Inv, RunningListens, CurrentThread
  <2> QED BY <2>2 DEF FinishWatcher, Inv, Generations
<1> QED BY <1>2, <1>3, <1>4, <1>5 DEF Inv

LEMMA NextInv == Inv /\ [ClipboardNext]_allVars => Inv'
<1> SUFFICES ASSUME Inv, [ClipboardNext]_allVars PROVE Inv'
  OBVIOUS
<1>1. CASE UserStep
  BY <1>1, UnchangedInv DEF UserStep
<1>2. ASSUME NEW w \in Rounds, RoundStep(w) \/ Exits(w) PROVE Inv'
  BY <1>2, UnchangedInv DEF RoundStep, Exits
<1>3. ASSUME NEW w \in Rounds, LogsIn(w) PROVE Inv'
  BY <1>3, PlaceInv DEF LogsIn, Uses
<1>4. ASSUME NEW w \in Rounds, Ends(w) PROVE Inv'
  BY <1>4, PlaceInv DEF Ends, Uses
<1>5. ASSUME NEW w \in Rounds, ClipboardStep(w) PROVE Inv'
  BY <1>5, RegisterInv, StartInv, UnregisterInv, StopInv DEF ClipboardStep
<1>6. CASE ListenerFails
  BY <1>6, FailInv
<1>7. CASE WatcherStep
  BY <1>7, LeaveLoopInv, FinishInv DEF WatcherStep
<1>8. CASE UNCHANGED allVars
  BY <1>8, UnchangedInv DEF allVars
<1> QED BY <1>1, <1>2, <1>3, <1>4, <1>5, <1>6, <1>7, <1>8 DEF ClipboardNext, Rounds

\* The clipboard's variables keep their types: no round uses it that does not exist,
\* and the failures stay within their bound.
THEOREM ClipboardTypesHold == ClipboardSpec => []ClipboardTypeOK
<1>1. Inv => ClipboardTypeOK
  BY DEF Inv
<1> QED BY <1>1, InitInv, NextInv, PTL DEF ClipboardSpec

\* However many rounds replace each other, a logged-in session has a watcher that
\* listens, unless the listener failed, and a watcher that is said to run has a thread
\* (try_start_clipboard, try_stop_clipboard, finish_watcher).
THEOREM ChannelsWatchedHolds == ClipboardSpec => []ChannelsWatched
<1>1. Inv => ChannelsWatched
  BY DEF Inv, ChannelsWatched, RunningHasThread, RunningListens, OnRuns, CurrentThread, Rounds
<1> QED BY <1>1, InitInv, NextInv, PTL DEF ClipboardSpec

\* Adding the clipboard takes nothing from the rounds: every behaviour is one of
\* ConnectionRounds, so that what is proved of the rounds above holds here too.
THEOREM RoundsImplemented == ClipboardSpec => Spec
<1>1. ClipboardInit => Init
  BY DEF ClipboardInit
<1>2. [ClipboardNext]_allVars => [Next]_vars
  <2> SUFFICES ASSUME [ClipboardNext]_allVars PROVE [Next]_vars
    OBVIOUS
  <2>1. CASE UserStep
    BY <2>1 DEF UserStep, Next
  <2>2. ASSUME NEW w \in Rounds, RoundStep(w) \/ LogsIn(w) \/ Ends(w) \/ Exits(w) PROVE Next
    <3>1. WorkerStep(w)
      BY <2>2 DEF RoundStep, Apart, LogsIn, Ends, Exits, WorkerStep
    <3> QED BY <3>1 DEF Next, Rounds
  <2>3. ASSUME NEW w \in Rounds, ClipboardStep(w) PROVE UNCHANGED vars
    BY <2>3 DEF ClipboardStep, Register, TryStartClipboard, Unregister, TryStopClipboard, vars
  <2>4. CASE ListenerFails \/ WatcherStep
    BY <2>4 DEF ListenerFails, WatcherStep, LeaveLoop, FinishWatcher, vars
  <2>5. CASE UNCHANGED allVars
    BY <2>5 DEF allVars, vars
  <2> QED BY <2>1, <2>2, <2>3, <2>4, <2>5 DEF ClipboardNext, Rounds
<1> QED BY <1>1, <1>2, PTL DEF ClipboardSpec, Spec

\* Hence the rounds are as safe with the shared clipboard as without it: channels,
\* rendering and prompts belong to the current attempt, and retired workers stay out.
THEOREM RoundsStillHold ==
    ClipboardSpec => []ChannelPublished /\ []OnlyCurrentRenders /\ []PromptOwned /\ RetiredKeepsOut
<1>1. ClipboardSpec => Spec
  BY RoundsImplemented
<1>2. Spec => []ChannelPublished /\ []OnlyCurrentRenders /\ []PromptOwned /\ RetiredKeepsOut
  BY ChannelPublishedHolds, OnlyCurrentRendersHolds, PromptOwnedHolds, RetiredKeepsOutHolds
<1> QED  BY <1>1, <1>2
=============================================================================
