-------------------------- MODULE ClipboardRounds --------------------------
(***************************************************************************)
(* ConnectionRounds with the clipboard that the sessions of a process      *)
(* share: client/clipboard_lifecycle.rs and its users in client.rs,        *)
(* client/io_loop.rs and clipboard.rs.  A worker registers a channel and   *)
(* starts the watcher when its host accepted the login; on its way out it  *)
(* removes the channel and stops the watcher, if no channel is left.  The  *)
(* watcher is a thread; it notices that it was stopped at its next look.   *)
(*                                                                         *)
(* A step is one critical section of CLIPBOARD_STATE; subscribe and        *)
(* unsubscribe of the listener are called within it.  The sessions are of  *)
(* the kind that uses the clipboard (is_default), in the Flutter build.    *)
(* Left out: the policy of a channel, which decides what is sent to it,    *)
(* not when the watcher runs; what is sent; the wrap-around of a u64.      *)
(***************************************************************************)
EXTENDS ConnectionRounds

CONSTANT MaxFailures   \* bound: errors of the clipboard listener

ASSUME FailuresAssumption == MaxFailures \in Nat

VARIABLES
    clip,         \* where each round's worker is in its use of the clipboard
    channels,     \* ClipboardChannelRegistry: the rounds with a channel
    watcher,      \* watcher_generation and watcher_running
    threads,      \* watcher threads that have not ended
    told,         \* watchers with StopWithError in their channel
    subscriber,   \* the watcher the clipboard listener sends to, or None
    failures      \* errors of the listener so far

clipboard == <<clip, channels, watcher, threads, told, subscriber, failures>>
allVars == <<vars, clipboard>>

Uses == {"none", "register", "start", "on", "unregister", "stop", "off"}
Busy(w) == clip[w] \in {"register", "start", "unregister", "stop"}

ClipboardTypeOK ==
    /\ clip \in [1..MAX_ROUNDS -> Uses]
    /\ channels \subseteq 1..MAX_ROUNDS
    /\ watcher \in [generation : Nat, running : BOOLEAN]
    /\ threads \subseteq [generation : Nat, pc : {"loop", "finish"}]
    /\ told \subseteq Nat /\ subscriber \in Nat /\ failures \in 0..MaxFailures

-----------------------------------------------------------------------------
(* The workers; where the code goes on to the clipboard, so does the worker *)

UseNext(w, use) ==
    /\ clip' = [clip EXCEPT ![w] = use]
    /\ UNCHANGED <<channels, watcher, threads, told, subscriber, failures>>

\* Steps that do not involve the clipboard.  set_connected that refuses a retired
\* round returns before the clean-up; such a worker never had a channel.
Apart(w) ==
    \/ Abandon(w) \/ Enter(w)
    \/ BeginApproval(w) \/ Install(w) \/ Expire(w) \/ Resolve(w) \/ Release(w, "starting")
    \/ Connect(w) \/ NewVideoThread(w)
RoundStep(w) == ~Busy(w) /\ Apart(w) /\ UNCHANGED clipboard
LogsIn(w) == ~Busy(w) /\ Login(w) /\ UseNext(w, "register")
Ends(w) == ~Busy(w) /\ (Release(w, "exit") \/ ConnectFails(w) \/ Leave(w)) /\ UseNext(w, "unregister")
Exits(w) == clip[w] \in {"none", "off"} /\ Exit(w) /\ UNCHANGED clipboard

\* register_clipboard_channel
Register(w) ==
    /\ clip[w] = "register"
    /\ clip' = [clip EXCEPT ![w] = "start"]
    /\ channels' = channels \cup {w}
    /\ UNCHANGED <<vars, watcher, threads, told, subscriber, failures>>

\* try_start_clipboard: one watcher for all; the listener may refuse the subscription.
TryStartClipboard(w) ==
    /\ clip[w] = "start"
    /\ clip' = [clip EXCEPT ![w] = "on"]
    /\ \/ /\ watcher.running
          /\ UNCHANGED <<watcher, threads, subscriber, failures>>
       \/ /\ ~watcher.running
          /\ watcher' = [generation |-> watcher.generation + 1, running |-> TRUE]
          /\ threads' = threads \cup {[generation |-> watcher'.generation, pc |-> "loop"]}
          /\ subscriber' = watcher'.generation
          /\ UNCHANGED failures
       \/ /\ ~watcher.running /\ failures < MaxFailures
          /\ failures' = failures + 1 /\ subscriber' = None
          /\ UNCHANGED <<watcher, threads>>
    /\ UNCHANGED <<vars, channels, told>>

\* unregister_clipboard_channel
Unregister(w) ==
    /\ clip[w] = "unregister"
    /\ clip' = [clip EXCEPT ![w] = "stop"]
    /\ channels' = channels \ {w}
    /\ UNCHANGED <<vars, watcher, threads, told, subscriber, failures>>

\* try_stop_clipboard
TryStopDefect(w) ==   \* a retired attempt leaves the watcher to the current one
    /\ clip[w] = "stop"
    /\ clip' = [clip EXCEPT ![w] = "off"]
    /\ IF channels # {} \/ w # round THEN UNCHANGED <<watcher, subscriber>>
       ELSE /\ watcher' = [generation |-> watcher.generation + 1, running |-> FALSE]
            /\ subscriber' = None
    /\ UNCHANGED <<vars, channels, threads, told, failures>>
TryStopClipboard(w) ==
    /\ clip[w] = "stop"
    /\ clip' = [clip EXCEPT ![w] = "off"]
    /\ IF channels # {} THEN UNCHANGED <<watcher, subscriber>>
       ELSE /\ watcher' = [generation |-> watcher.generation + 1, running |-> FALSE]
            /\ subscriber' = None
    /\ UNCHANGED <<vars, channels, threads, told, failures>>

ClipboardStep(w) ==
    Register(w) \/ TryStartClipboard(w) \/ Unregister(w) \/ TryStopClipboard(w)

-----------------------------------------------------------------------------
(* The listener and the watchers *)

\* on_clipboard_error
ListenerFails ==
    /\ subscriber # None /\ subscriber \notin told /\ failures < MaxFailures
    /\ failures' = failures + 1
    /\ told' = told \cup {subscriber}
    /\ UNCHANGED <<vars, clip, channels, watcher, threads, subscriber>>

\* A watcher leaves its loop when it is not the current one or was told so, and then
\* takes back that it runs, unless another one was started.
IsCurrent(g) == watcher.running /\ watcher.generation = g
LeaveLoop(t) ==
    /\ t.pc = "loop" /\ (~IsCurrent(t.generation) \/ t.generation \in told)
    /\ threads' = (threads \ {t}) \cup {[t EXCEPT !.pc = "finish"]}
    /\ UNCHANGED <<vars, clip, channels, watcher, told, subscriber, failures>>
FinishWatcherDefect(t) ==   \* whichever watcher is the current one
    /\ t.pc = "finish"
    /\ threads' = threads \ {t} /\ told' = told \ {t.generation}
    /\ watcher' = [watcher EXCEPT !.running = FALSE]
    /\ UNCHANGED <<vars, clip, channels, subscriber, failures>>
FinishWatcher(t) ==
    /\ t.pc = "finish"
    /\ threads' = threads \ {t} /\ told' = told \ {t.generation}
    /\ watcher' = [watcher EXCEPT !.running = @ /\ watcher.generation # t.generation]
    /\ UNCHANGED <<vars, clip, channels, subscriber, failures>>

WatcherStep == \E t \in threads : LeaveLoop(t) \/ FinishWatcher(t)

-----------------------------------------------------------------------------
ClipboardInit ==
    /\ Init
    /\ clip = [w \in 1..MAX_ROUNDS |-> "none"] /\ channels = {}
    /\ watcher = [generation |-> 0, running |-> FALSE]
    /\ threads = {} /\ told = {} /\ subscriber = None /\ failures = 0

UserStep ==
    /\ \/ \E reconnect \in BOOLEAN : Start(reconnect)
       \/ Close
       \/ \E answer \in {"yes", "no"} : Respond(answer)
    /\ UNCHANGED clipboard

ClipboardNext ==
    \/ UserStep
    \/ \E w \in 1..MAX_ROUNDS :
          RoundStep(w) \/ LogsIn(w) \/ Ends(w) \/ Exits(w) \/ ClipboardStep(w)
    \/ ListenerFails
    \/ WatcherStep

ClipboardSpec == ClipboardInit /\ [][ClipboardNext]_allVars

\* The fairness of ConnectionRounds, and the clipboard's threads run.  The worker's loop
\* chooses at random among what is ready, so that messages cannot keep Data::Close out.
Alone(A) == A /\ UNCHANGED clipboard
ClipboardFair(w) ==
    /\ WF_allVars(Alone(Abandon(w) \/ Enter(w)))
    /\ WF_allVars(Alone(Install(w))) /\ WF_allVars(Alone(Expire(w))) /\ WF_allVars(Alone(Resolve(w)))
    /\ WF_allVars(\/ Alone(Release(w, "starting"))
                  \/ Release(w, "exit") /\ UseNext(w, "unregister"))
    /\ WF_allVars(\/ Alone(Connect(w))
                  \/ ConnectFails(w) /\ UseNext(w, "unregister"))
    /\ SF_allVars(~Busy(w) /\ ReceiveClose(w) /\ UseNext(w, "unregister"))
    /\ WF_allVars(Exits(w)) /\ WF_allVars(ClipboardStep(w))
ClipboardFairSpec ==
    ClipboardSpec /\ WF_allVars(WatcherStep) /\ \A w \in 1..MAX_ROUNDS : ClipboardFair(w)

-----------------------------------------------------------------------------
\* A watcher that is said to run has a thread, so that the next login starts one when
\* it is needed; and unless the listener failed, every session that is logged in has
\* one that listens, however rounds replace each other.
ChannelsWatched ==
    /\ watcher.running => \E t \in threads : t.generation = watcher.generation
    /\ failures = 0 /\ (\E w \in 1..MAX_ROUNDS : clip[w] = "on") =>
          /\ watcher.running /\ subscriber = watcher.generation
          /\ [generation |-> watcher.generation, pc |-> "loop"] \in threads

\* "After all sessions are end, the loop exists": no watcher survives the last session
\* (the comment on try_start_clipboard in client.rs).
Over == \A w \in DOMAIN workers : workers[w].pc = "done"
WatchersEnd == Over ~> (~Over \/ threads = {})
=============================================================================
