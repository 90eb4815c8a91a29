-------------------------- MODULE ConnectionRounds --------------------------
(***************************************************************************)
(* The connection attempts ("rounds") of a viewer session.  The user       *)
(* interface starts, restarts and closes the session; every attempt has a  *)
(* worker thread that outlives its round when the next one starts; workers *)
(* may ask the user to trust the peer; decoder threads deliver frames that *)
(* the screen authority lets through or not.                               *)
(*                                                                         *)
(* ConnectionRoundState and UserApprovalGuard are in                       *)
(* ui_session_interface.rs, ScreenViewAuthority in                         *)
(* client/screen_authority.rs, the worker's loop in client/io_loop.rs.     *)
(* One step is one critical section of connection_round_state, or of the   *)
(* authority where a worker calls that alone.                              *)
(*                                                                         *)
(* Definitions whose name ends in Defect carry a seeded bug; no            *)
(* specification uses them, they measure what the properties can see.      *)
(***************************************************************************)
EXTENDS Integers, FiniteSets

CONSTANTS
    MAX_ROUNDS,    \* bound on the attempts of a behaviour
    MAX_PROMPTS,   \* questions one handshake asks: trust, then passphrase
    MAX_DECODERS   \* bound on decoder threads; they act on nothing, and the properties
                   \* speak of one at a time, so that one that starts at any moment is enough

ASSUME RoundsConstants ==
    MAX_ROUNDS \in Nat /\ MAX_PROMPTS \in Nat /\ MAX_DECODERS \in Nat

VARIABLES
    round, state,   \* ConnectionRoundState
    sender,         \* Session::sender: the round whose channel is published, or None
    closing,        \* rounds whose channel holds Data::Close
    pending,        \* the round of the worker that waits for the user's response, or None
    workers,        \* the worker of every round so far
    authority,      \* ScreenViewAuthority
    decoders        \* render contexts that decoder threads hold

session == <<round, state, sender, closing>>
vars == <<round, state, sender, closing, pending, workers, authority, decoders>>

None == 0   \* the round before the first attempt
States == {"Connecting", "AwaitingUserApproval", "Connected", "Disconnected"}

\* "spawned": the thread has not run yet; "starting": in Client::start; "guarded",
\* "waiting", "releasing": in confirm_peer_trust or request_pairing_passphrase;
\* "running": in the message loop; "exit": the loop is over, the lifetimes are not.
Steps == {"spawned", "starting", "guarded", "waiting", "releasing", "running", "exit", "done"}
Answers == {"none", "yes", "no", "timeout"}
Worker == [pc : Steps, guard : Nat, answer : Answers, prompts : Nat, logged_in : BOOLEAN]
NewWorker == [pc |-> "spawned", guard |-> None, answer |-> "none", prompts |-> 0,
              logged_in |-> FALSE]

-----------------------------------------------------------------------------
(* ScreenViewAuthority *)

Begun(a, r) ==
    IF r <= a.connection_generation THEN a
    ELSE [connection_generation |-> r, generation |-> a.generation + 1,
          allowed |-> FALSE, ended |-> FALSE]

AuthorizedDefect(a, r) ==   \* a runtime that ended may still log in
    IF r # a.connection_generation \/ a.generation = 0 \/ a.allowed THEN a
    ELSE [a EXCEPT !.allowed = TRUE, !.generation = @ + 1]
Authorized(a, r) ==
    IF r # a.connection_generation \/ a.generation = 0 \/ a.ended \/ a.allowed THEN a
    ELSE [connection_generation |-> r, generation |-> a.generation + 1,
          allowed |-> TRUE, ended |-> FALSE]

Ended(a, r) ==
    IF r < a.connection_generation \/ (r = a.connection_generation /\ a.ended) THEN a
    ELSE [connection_generation |-> r, generation |-> a.generation + 1,
          allowed |-> FALSE, ended |-> TRUE]

Accepts(a, context) ==
    /\ a.allowed
    /\ a.connection_generation = context.connection
    /\ a.generation = context.generation

-----------------------------------------------------------------------------
(* The user interface *)

\* prepare_connection_attempt and start_connection, when try_start grants a round.
TryStart(reconnect) ==
    /\ state \notin {"Connecting", "AwaitingUserApproval"}
    /\ state = "Connected" => reconnect
StartDefect(reconnect) ==   \* a reconnection does not close the connection it replaces
    /\ TryStart(reconnect) /\ round < MAX_ROUNDS
    /\ round' = round + 1 /\ state' = "Connecting" /\ sender' = round + 1
    /\ authority' = Begun(Ended(authority, round), round + 1)
    /\ workers' = [w \in 1..(round + 1) |-> IF w = round + 1 THEN NewWorker ELSE workers[w]]
    /\ UNCHANGED <<closing, pending, decoders>>
Start(reconnect) ==
    /\ TryStart(reconnect)
    /\ round < MAX_ROUNDS
    /\ round' = round + 1
    /\ state' = "Connecting"
    /\ closing' = IF state = "Connected" THEN closing \cup {sender} ELSE closing
    /\ authority' = Begun(Ended(authority, round), round + 1)
    /\ sender' = round + 1
    /\ workers' = [w \in 1..(round + 1) |-> IF w = round + 1 THEN NewWorker ELSE workers[w]]
    /\ UNCHANGED <<pending, decoders>>

\* The user's response goes to whoever waits for one.
Answered(answer) ==
    IF pending = None THEN workers ELSE [workers EXCEPT ![pending].answer = answer]

Close ==
    /\ authority' = Ended(authority, round)
    /\ state' = "Disconnected"
    /\ closing' = IF sender = None THEN closing ELSE closing \cup {sender}
    /\ sender' = None
    /\ workers' = Answered("no")
    /\ pending' = None
    /\ UNCHANGED <<round, decoders>>

Respond(answer) ==
    /\ pending # None
    /\ workers' = Answered(answer)
    /\ pending' = None
    /\ UNCHANGED <<session, authority, decoders>>

-----------------------------------------------------------------------------
(* The worker of round w *)

At(w, pc) == w \in DOMAIN workers /\ workers[w].pc = pc
Goto(w, pc) == workers' = [workers EXCEPT ![w].pc = pc]

\* finish_connection_attempt: the end of ConnectionAttemptLifetime, and a thread
\* that could not be spawned.
FinishAnyDefect(w) ==            \* whatever the current round is
    /\ state' = "Disconnected" /\ sender' = None
    /\ authority' = Ended(authority, w)
    /\ UNCHANGED <<round, closing>>
FinishChannelDefect(w) ==        \* the channel goes with any attempt
    /\ state' = IF round = w THEN "Disconnected" ELSE state
    /\ sender' = None
    /\ authority' = Ended(authority, w)
    /\ UNCHANGED <<round, closing>>
Finish(w) ==
    /\ IF round = w
       THEN state' = "Disconnected" /\ sender' = None /\ authority' = Ended(authority, w)
       ELSE UNCHANGED <<state, sender, authority>>
    /\ UNCHANGED <<round, closing>>

\* The thread could not be spawned, or io_loop finds its round retired already.
Abandon(w) ==
    /\ At(w, "spawned")
    /\ Goto(w, "done")
    /\ Finish(w)
    /\ UNCHANGED <<pending, decoders>>
Enter(w) ==
    /\ At(w, "spawned")
    /\ round = w /\ state # "Disconnected"
    /\ Goto(w, "starting")
    /\ UNCHANGED <<session, pending, authority, decoders>>

\* UserApprovalGuard::begin: the guard is for the round that is current.  When no
\* attempt is connecting, the handshake fails.
BeginApproval(w) ==
    /\ At(w, "starting") /\ workers[w].prompts < MAX_PROMPTS
    /\ state = "Connecting"
    /\ state' = "AwaitingUserApproval"
    /\ workers' = [workers EXCEPT ![w].pc = "guarded", ![w].guard = round,
                                  ![w].answer = "none", ![w].prompts = @ + 1]
    /\ UNCHANGED <<round, sender, closing, pending, authority, decoders>>

\* UserApprovalGuard::with_current
Current(w) == round = workers[w].guard /\ state = "AwaitingUserApproval"

\* The response channel is installed; one that is there already is answered "no".
InstallDefect(w) ==         \* without with_current
    /\ At(w, "guarded")
    /\ pending' = w
    /\ workers' = [workers EXCEPT ![w].pc = "waiting"]
    /\ UNCHANGED <<session, authority, decoders>>
Install(w) ==
    /\ At(w, "guarded")
    /\ IF Current(w)
       THEN /\ pending' = w
            /\ workers' = [Answered("no") EXCEPT ![w].pc = "waiting"]
       ELSE /\ workers' = [workers EXCEPT ![w].pc = "releasing", ![w].answer = "no"]
            /\ UNCHANGED pending
    /\ UNCHANGED <<session, authority, decoders>>

\* USER_APPROVAL_TIMEOUT
ExpireDefect(w) == FALSE /\ UNCHANGED vars   \* no timeout
Expire(w) ==
    /\ At(w, "waiting") /\ workers[w].answer = "none"
    /\ workers' = [workers EXCEPT ![w].answer = "timeout"]
    /\ UNCHANGED <<session, pending, authority, decoders>>

\* The response is there: the channel is removed if the round is still waiting.
Resolve(w) ==
    /\ At(w, "waiting") /\ workers[w].answer # "none"
    /\ IF Current(w)
       THEN Goto(w, "releasing") /\ pending' = None
       ELSE /\ workers' = [workers EXCEPT ![w].pc = "releasing", ![w].answer = "no"]
            /\ UNCHANGED pending
    /\ UNCHANGED <<session, authority, decoders>>

\* UserApprovalGuard::drop; without approval the handshake fails, and Client::start
\* fails or tries another route.
Release(w, next) ==
    /\ At(w, "releasing")
    /\ next \in IF workers[w].answer = "yes" THEN {"starting"} ELSE {"starting", "exit"}
    /\ state' = IF Current(w) THEN "Connecting" ELSE state
    /\ workers' = [workers EXCEPT ![w].guard = None, ![w].answer = "none", ![w].pc = next]
    /\ authority' = IF next = "exit" THEN Ended(authority, w) ELSE authority
    /\ UNCHANGED <<round, sender, closing, pending, decoders>>

\* Client::start returns a connection; set_connected refuses a retired round.
Connect(w) ==
    /\ At(w, "starting")
    /\ IF round = w /\ state = "Connecting"
       THEN state' = "Connected" /\ Goto(w, "running") /\ UNCHANGED authority
       ELSE Goto(w, "exit") /\ authority' = Ended(authority, w) /\ UNCHANGED state
    /\ UNCHANGED <<round, sender, closing, pending, decoders>>
ConnectFails(w) ==
    /\ At(w, "starting")
    /\ Goto(w, "exit")
    /\ authority' = Ended(authority, w)
    /\ UNCHANGED <<session, pending, decoders>>

\* The peer's login response.
Login(w) ==
    /\ At(w, "running")
    /\ workers' = [workers EXCEPT ![w].logged_in = TRUE]
    /\ authority' = Authorized(authority, w)
    /\ UNCHANGED <<session, pending, decoders>>

\* new_video_thread: the decoder keeps the authority's generation of this moment.
NewVideoThread(w) ==
    /\ At(w, "running") /\ Cardinality(decoders) < MAX_DECODERS
    /\ decoders' = decoders \cup {[connection |-> w, generation |-> authority.generation]}
    /\ UNCHANGED <<session, pending, workers, authority>>

\* The loop ends: the stream fails or is closed by the peer, or Data::Close arrives.
Leave(w) ==
    /\ At(w, "running")
    /\ Goto(w, "exit")
    /\ authority' = Ended(authority, w)
    /\ UNCHANGED <<session, pending, decoders>>
ReceiveClose(w) == w \in closing /\ Leave(w)

Exit(w) ==
    /\ At(w, "exit")
    /\ Goto(w, "done")
    /\ Finish(w)
    /\ UNCHANGED <<pending, decoders>>

WorkerStep(w) ==
    \/ Abandon(w) \/ Enter(w)
    \/ BeginApproval(w) \/ Install(w) \/ Expire(w) \/ Resolve(w)
    \/ \E next \in {"starting", "exit"} : Release(w, next)
    \/ Connect(w) \/ ConnectFails(w)
    \/ Login(w) \/ NewVideoThread(w) \/ Leave(w) \/ Exit(w)

-----------------------------------------------------------------------------

Init ==
    /\ round = 0 /\ state = "Disconnected" /\ sender = None
    /\ closing = {} /\ pending = None
    /\ workers = [w \in 1..0 |-> NewWorker]
    /\ authority = [connection_generation |-> 0, generation |-> 0,
                    allowed |-> FALSE, ended |-> FALSE]
    /\ decoders = {}

Next ==
    \/ \E reconnect \in BOOLEAN : Start(reconnect)
    \/ Close
    \/ \E answer \in {"yes", "no"} : Respond(answer)
    \/ \E w \in 1..MAX_ROUNDS : WorkerStep(w)

Spec == Init /\ [][Next]_vars

\* Threads run; Client::start and the prompts have timeouts; a connected loop reads
\* its command channel.  The peer, the network and the user owe nothing.
Fair(w) ==
    /\ WF_vars(Abandon(w) \/ Enter(w))
    /\ WF_vars(Install(w)) /\ WF_vars(Expire(w)) /\ WF_vars(Resolve(w))
    /\ WF_vars(\E next \in {"starting", "exit"} : Release(w, next))
    /\ WF_vars(Connect(w) \/ ConnectFails(w))
    /\ WF_vars(ReceiveClose(w)) /\ WF_vars(Exit(w))
FairSpec == Spec /\ \A w \in 1..MAX_ROUNDS : Fair(w)

-----------------------------------------------------------------------------
(* Properties *)

\* The variables have their types, there is a worker for every round so far, and the
\* authority is never ahead of the session.
TypeOK ==
    /\ round \in Nat /\ state \in States
    /\ sender \in Nat /\ closing \subseteq Nat /\ pending \in Nat
    /\ DOMAIN workers = 1..round /\ \A w \in 1..round : workers[w] \in Worker
    /\ pending # None => pending \in 1..round
    /\ authority \in [connection_generation : Nat, generation : Nat,
                      allowed : BOOLEAN, ended : BOOLEAN]
    /\ authority.connection_generation <= round
    /\ decoders \subseteq [connection : Nat, generation : Nat]

\* Exactly while an attempt is alive its command channel is published: commands of
\* the user interface never go to a retired worker, nor into nothing.
ChannelPublished == sender = IF state = "Disconnected" THEN None ELSE round

\* "Screen content belongs to one authenticated connection runtime": a decoder whose
\* frames are shown belongs to the round that is connected now, and its host accepted
\* the login.  Late logins and decoder threads of earlier rounds show nothing.
OnlyCurrentRenders ==
    \A d \in decoders : Accepts(authority, d) =>
        /\ d.connection = round /\ state = "Connected"
        /\ workers[round].pc = "running" /\ workers[round].logged_in

\* A prompt that a worker put up for its own attempt is there only while that attempt
\* is current and waits for it: close leaves none behind, and no cancelled worker
\* installs one later.  (A retired worker may put one up for the attempt that replaced
\* its own, see RetiredPublishesNothing.)
PromptOwned ==
    pending # None /\ workers[pending].guard = pending =>
        round = pending /\ state = "AwaitingUserApproval" /\ workers[pending].pc = "waiting"

\* A retired worker neither connects nor disconnects the current attempt, and does
\* not take its channel (start_connection: "their generation cannot publish
\* connection state or remove the current attempt's command channel").
RetiredKeepsOut ==
    [][\A w \in 1..MAX_ROUNDS : WorkerStep(w) /\ w # round =>
        /\ UNCHANGED <<round, sender>>
        /\ state' # state => {state, state'} = {"Connecting", "AwaitingUserApproval"}]_vars

\* The same sentence to the letter: a retired worker publishes no connection state.
RetiredPublishesNothing ==
    [][\A w \in 1..MAX_ROUNDS : WorkerStep(w) /\ w # round =>
        UNCHANGED <<round, state, sender>>]_vars

\* An attempt comes to a decision, whatever the user does with its prompts.
AttemptsResolve ==
    state \in {"Connecting", "AwaitingUserApproval"} ~> state \in {"Connected", "Disconnected"}

\* The worker of a round that was replaced comes to its end.
RetiredEnd ==
    \A w \in 1..MAX_ROUNDS :
        (w \in DOMAIN workers /\ w # round) ~> (w \in DOMAIN workers /\ workers[w].pc = "done")
=============================================================================
