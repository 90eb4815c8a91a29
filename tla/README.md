# TLA+ models of RustAdmin

RustAdmin is a remote administration program: a *host* captures its displays,
encodes them and serves them to connections; a *viewer* keeps sessions with
hosts, shows what they send and remembers which hosts it trusts. This directory
holds TLA+ models of the parts of it that are hard to test, the TLC
configurations that check them, and TLAPS proofs of the properties that matter
most. Sources are named relative to `src/src/`.

## How to run

    tlc -workers 2 -config VideoService.cfg VideoService     # one run
    tlapm VideoServiceProofs.tla                             # one module of proofs

`PROJECT.json` lists components, runs, the seeded defects every property is
measured against, the map from definitions to source lines, findings, hazards
and theorems. Definitions whose name ends in `Defect` are such seeded bugs; no
specification uses them.

## Inventory

### The host

**Video service** (`server/service.rs`, `server/video_service.rs`). One per
display. *State*: the active subscribers, the deferred ones that still need a
snapshot or a key frame, the `active` flag, and per run the encoder, whether it
was asked for a reference frame, since when a joining subscriber waits, repeats
of the last frame. *Operations*: subscribe, unsubscribe, refresh, join (from
connections); start a run, check for joins, capture, encode, send, repeat,
replace the encoder, leave through a `ServiceSwap` (the service thread).
*Hard*: connections come and go between any two critical sections of the
thread; a join depends on an encoder that may ignore it and on a screen that
may not change. *Correct when*: nobody's first frame is a delta, nobody who
subscribed is lost, everybody who waits is served, a stopped service ends.

**Video queue of a connection** (`server/video_queue.rs`, the `rx_video` and
delivery-timer branches of `server/connection.rs`). *State*: the queue of
frames and ordering barriers, a track per display (stream, enabled, recovering,
credit, refresh budget), byte total, cursor of the round robin, the entry in
hand, the parked barrier. *Operations*: push a frame or barrier, notify,
receive, hand to the transport, drop, park and retry, select displays, tick.
*Hard*: overload drops frames that others depend on; capture runs replace each
other; a notification can be lost. *Correct when*: no delta is delivered
without its reference, barriers keep their place, budgets hold, nothing sleeps
beside a full queue.

**Capture helper coordinator** (`server/helper_retry.rs`,
`server/user_capture_helper.rs`). *State*: an entry with a phase per desktop
generation, display and backend; the process gate; whether retries are enabled;
leases held by capturers. *Operations*: begin, failed, running, cancel, retry
due, reset, observe the desktop. *Hard*: an abandoned or replaced capturer
still holds its lease and reports late; preference and coordinator have
different locks. *Correct when*: slots do not leak, a lease touches only its
own attempt, back-off cannot be shortened, a restart for a due retry gets
its attempt unless another display took the slot meanwhile.

**QUIC admission** (`quic_transport/admission.rs`, `quic_transport.rs`).
*State*: pending tickets, in total and per source, and two pools of
authentication permits, all owned by one incarnation of the listener.
*Operations*: decide (accept, retry, refuse), admit, acquire a permit,
establish, fail, drop the ticket, restart the listener. *Hard*: many ways out
of a handshake, each of which must release both; a restart while old tasks
live. *Correct when*: counters equal tickets alive, unproven sources are
bounded, every ticket returns.

**Delivery recovery** (`VideoDeliveryController` of `server/connection.rs`).
*State*, per display: the stream, the newest frame sent and decoded, since when
decoding stands still, the recovery cycle with its target, reissues and
cooldowns. *Operations*: a frame was sent, feedback arrived, the delivery timer,
a reference request of the viewer. *Hard*: three sources ask for key frames
independently, feedback arrives late, also that of a replaced stream. *Correct
when*: the encoder is not flooded, and no cycle stays open for ever.

Also on the host, not modelled: frame pacing (`VideoFrameController`), quality
of service, login and its failure policy, input authorization, audio, terminal
and display services, privacy mode, privileged capture, interprocess
communication, rendezvous.

### The viewer

**Connection rounds** (`ui_session_interface.rs`, `client/screen_authority.rs`,
`client/io_loop.rs`). *State*: the current round and its state, the published
command channel, the prompt response channel, the worker threads of this and
earlier rounds, what the screen authority lets through. *Operations*: start,
reconnect, close, answer a prompt (user interface); begin and end an approval,
connect, log in, spawn decoders, finish (workers). *Hard*: workers outlive
their round and race the next one. *Correct when*: channel, prompt and screen
belong to the current round; retired workers cannot disturb it; every attempt
resolves; retired workers end.

**Display intent** (`flutter.rs`, `client/display_control.rs`,
`client/io_loop.rs`, and on the host `server.rs`, `server/connection.rs`).
*State*: what each view shows, the aggregated intent with its generations, the
outbox of the connection, commands on the wire, the host's subscriptions.
*Operations*: attach, switch, detach a view; connect, log in, disconnect;
sync; receive. *Hard*: a bounded writer refuses commands, intents overtake each
other, connections are replaced. *Correct when*: with nothing left to send the
host captures what the views show, and it comes to that.

**Peer trust repository** (`common/peer_security_mutation.rs`). *State*: QUIC
identities per id, configurations with their pairing options, the journal.
*Operations*: mutate (reset a pairing, remove a peer), list, recover; pairings
by connections. *Hard*: forgetting a peer is many writes, any of which may
fail, with crashes in between. *Correct when*: it looks like one atomic step,
and it is completed eventually.

**Startup recovery** (`client/startup_recovery.rs`, `DisplayStartupState` of
`client/io_loop.rs`). *State*, per display: stream and newest frame received,
the first key frame, requests made, ages of the last ones, decoded, failed.
*Operations*: a frame arrives, the status timer, a decode is noted. *Hard*: the
retries themselves start new streams; the writer may refuse a request; requests
overtake feedback. *Correct when*: one budget of requests per episode, a picture
or a report in the end, no report beside a picture.

**Video worker in Movie mode** (`start_video_thread` of `client.rs`,
`client/decoder_recovery.rs`, `client/io_loop.rs`). *State*: the delta queue, the
channel with key frames and tokens, `discard_queue`, `movie_keyframe_wait`, the
decoder recovery. *Operations*: receive, drop, take, discard, decode, fall back,
ask. *Hard*: two threads and a lock per flag. *Correct when*: no delta is decoded
whose reference was dropped.

**Clipboard lifecycle** (`client/clipboard_lifecycle.rs`, `client.rs`,
`clipboard.rs`). *State*: the registered channels, the generation of the watcher
and whether one runs, the watcher threads, the listener. *Operations*: register,
start, unregister, stop (workers); leave the loop, finish (watchers); the
listener fails. *Hard*: retired workers stop what all sessions share, old
watchers end late. *Correct when*: a logged-in session is watched, and no watcher
outlives the last one.

Also on the viewer, not modelled: presentation clock, downloads, the rest of the
message loop, front ends.

### How they interact

Connections on the host subscribe to services; a service sends frames to the
queue of each connection, whose task hands them to the transport. The queue
asks the service for a refresh when a display must recover; `VideoService` takes
such a request as an input. Frames of a service run carry a stream number, with
which the queue tells runs apart; `StartRun` of `VideoQueue` is that of
`VideoService`. Which services a connection is subscribed to is decided by the
commands that `DisplayIntent` models. The capture loop polls the helper
coordinator and restarts when a retry is due, which `VideoService` sees as a
disturbance. On the viewer a connection round precedes everything else:
`DisplayIntent`'s connections are rounds whose worker logged in. The trust
repository is completed before a round connects, and is written to by the
connection it starts. `VideoStartup` composes the host's delivery recovery with
the viewer's startup recovery over a lossy path; `ClipboardRounds` composes the
rounds with the clipboard their workers share.

The hazards themselves, each at its line with the properties that would catch
it, are listed in `PROJECT.json`.

## Modules

| Module | Models | Run | Proofs |
|---|---|---|---|
| `VideoQueue` | queue and connection task | `video_queue`, `video_drain` | `VideoQueueProofs` |
| `VideoService` | subscriptions and capture loop | `video_service` | `VideoServiceProofs` |
| `HelperRetry` | helper coordinator and leases | `helper_retry`, `helper_preference` | `HelperRetryProofs` |
| `TrustStore` | what forgetting a peer promises (abstract) | | |
| `PeerSecurityMutation` | the journal, refines `TrustStore` | `peer_security` | `PeerSecurityProofs` |
| `DisplayIntent` | views, outbox, host subscriptions | `display_intent` | `DisplayIntentProofs` |
| `QuicAdmission` | admission and establishment | `quic_admission` | `QuicAdmissionProofs` |
| `ConnectionRounds` | rounds, prompts, screen authority | `connection_retired`, and through `ClipboardRounds` | `ConnectionRoundsProofs` |
| `ClipboardRounds` | the rounds with the shared clipboard | `connection_rounds` | `ConnectionRoundsProofs` |
| `VideoDelivery` | the host's delivery recovery | through `VideoStartup` | |
| `StartupRecovery` | the viewer's startup recovery | through `VideoStartup` | |
| `VideoStartup` | both, with frames and messages between them | `video_startup` | `VideoStartupProofs` |
| `MovieQueue` | video worker in Movie mode, decoder recovery | `viewer_movie_drops` | |

Every module has one type invariant. Where it is proved for all constants
(`TypesHold`, `TypeCorrect`, or as part of the invariant) a run need not repeat it.

### VideoQueue

The `VecDeque` is a set of entries ordered by their arrival number. `PushVideo`
and `PushBarrier` are `push`, `PopBarrier`, `PopVideo` and `PopNone` are `pop`;
`SendVideo` and `SendBarrier` are a push by a capture thread or by whoever sends
a SwitchDisplay, with `NotifyOne` a step of its own, because `push` releases
the lock before it notifies. `Recv`, `Wake`, `SendOk`, `DropFrame`,
`ParkBarrier`, `SendError`, `Tick` are the branches of the connection task. The
transport takes an entry, refuses it, or fails. The frames a display emits are
numbered per run; a delta depends on the frame before it. Of a run's clock only
the refresh interval matters (`RefreshIntervalOver`).

- `video_queue`: two displays, two capture runs of two frames each and a
  barrier, display switches, losses and refreshes, with budgets so small that a
  frame of the other display finds the queue full.
  `DecodableDelivery` and `ForwardDelivery` speak about what reaches the
  transport, `FreshRecovery` about the request budget, `Budgets` and
  `BarrierOrder` about the queue. Two frames per run are enough for a delta to
  lose its reference, two runs for a late frame of a replaced one.
- `video_drain`: `NoLostWakeup` and `EveryEntrySettles`, with frames of the
  largest size, which take as many visits as `pop` allows. `BarrierReserve`
  states what the control reserve gives: slots are kept for barriers, bytes are
  not, so that video can use up `MAX_BYTES` and the next barrier then closes the
  connection. One frame per track, two barriers and one reserved slot make a
  barrier fail in both ways: two frames of 3 leave no byte of 6, and with two
  frames of 2 the second barrier finds bytes but no slot.
  *Fairness*: the connection task and notifiers run (weak), and a parked
  barrier is not refused for ever (strong on the retry of the tick): a
  transport that never takes a message again ends in an error, which closes the
  connection.

`QuantumDivides` (the largest frame is a multiple of the quantum) holds of the
constants in the code; the visit bound of `pop`, and with it `NoLostWakeup`, needs it.

### VideoService

`OnSubscribe`, `OnUnsubscribe`, `RequestRefresh` and `Join` belong to
connections, the rest to the service thread; a step is one critical section. A
frame is what a join looks at: it starts with a key frame ("key"), has one
further on ("mixed"), or none ("delta"). Clocks are replaced by steps at which
what they measure expires (`JoinExpires`, `ReferenceExpires`). `CheckReference`
is the decision of `subscriber_join_action` with what it does to the encoder;
`Switch`, `DisplayChanged` and `Swap` are the ways out of a run. That the first
packet of a new encoder is a key frame is assumed of the codec library.

`video_service` runs two connections with three disturbances (restarts nobody
subscribed for: a changed display, a capture error, a helper retry, ...); two
connections are enough for one to be served while another arrives. *Fairness*:
the thread runs and time passes (weak); a capturer that is asked again and again
delivers a first frame (strong `FirstPacket`): an encoder that stays silent is
replaced after its warm-up. The screen need not change: repeats make up for
that, and the run shows they do. Deadlock is checked. A set-up that fails may,
on Android, first tell a changed scale, and promote whoever is deferred, before
it gives up (`SetUpFails` to "swapping").

Two observations the run makes precise without a property failing. A viewer
that arrives right after the key frame made for another one finds
`subscriber_join_started` still set and may wait up to the restart of the run
(`JoinServed` holds through that restart). And dropping a `ServiceSwap`
promotes also those who came after its snapshot was sent; for video this is
safe only because every such path leaves the run.

### HelperRetry

Each operator on a coordinator is one method of `HelperCoordinator`, each
action one use of its mutex. `ShouldUse`, `LaunchOk`, `LaunchFails`,
`FrameArrives`, `FrameFails`, `DropCapturer` are the life of a capturer that
holds a lease, `ProtectsRefresh` and `PollRetry` the checks of a running service,
`SetPreference` and `ApplyReset` the two halves of a preference change.

A service that finds a retry due (`server/video_service.rs:3519`) leaves its loop
and asks for the attempt only when it makes its new capturer (`:1054`). The
coordinator is unlocked in between, so the answer may be stale: another display
may begin an attempt, and time, resets and old leases may change the entry. The
history variable `restarts` remembers the poll with what it saw until the restarted
service calls `ShouldUse`. `RestartHonoured` says that the restart is not in vain
through its own fault: while the desktop and the preference stay, `begin` grants the
attempt, or queues the entry, which keeps the retry due, and something newer than the
poll is to blame, an attempt granted since that is still starting or a launch that
failed since. The run reaches grants and both kinds of blame.

`helper_retry` has two
displays, each with two capturers alive at once. In the code a service has one;
two over-approximate the hand-over and let `LeaseIsolation` check what the
comment at `server/helper_retry.rs:269` says of leases. Attempt numbers reach
`U64_MAX` and time passes every timeout, so that the overflow checks, cooldowns,
suppression and abandonment all happen.

### TrustStore and PeerSecurityMutation

`TrustStore` says what a user may rely on: trust comes only from pairing and
goes only when asked, once per request, with all aliases of the peer in one
step. `PeerSecurityMutation` is the code: `Call`, `Load`, `Prepare`, `Persist`,
`ApplyQuic`, `ApplyConfig`, `ApplyRemove`, `Commit`, `Cleanup`, each of which
may fail (`Fault`) or be the last before a crash. `AtomicForget` is the
refinement: an uncommitted journal hides what it is about to remove, so the
atomic step is the write of the journal. The mapping relies on three facts:
journal writes are atomic (assumed of `config::store_path`, which is not in the
repository), replays are idempotent, and `MUTATION_LOCK` admits one call at a time. A pairing stored while a journal is
pending may be taken with it; `TrustStore` allows that (`recent`), the code does
not prevent it. `peer_security` starts from every store of two ids that may
share an identity; two faults allow a failure during recovery.
*Fairness*: a call makes progress, and the viewer lists its peers or connects
again some day (weak). A journal that cannot be parsed is an error at every
attempt (`common/peer_security_mutation.rs:124`) and stays until somebody removes
it; atomic writes do not produce one, and `PendingResolves`, which counts on faults
to stop, says nothing about it. `Forget` of `TrustStore` allows any group of ids,
more than the callers ask for: that the group is the identity's is what
`IdentityForgotten` states.

### DisplayIntent

`Attach`, `SwitchDisplay`, `Detach` reduce the views to one intent;
`Connect`, `Login`, `Disconnect` are a session's connections; `Sync` is one
pass of the loop over the outbox, atomic because only the loop touches it;
`Receive` is the host, which drops displays it does not have. Hosts that
take no set are left out, `logical_session_generation` is constant.
`display_intent` has two views on three displays, one of which the host lacks, a
writer of two commands, four changes and two connections. *Fairness*: weak on
the loop and on the host. `Converges` says the host ends in line with the views,
`Settled` that nothing else than a pending command stands between them,
`SwitchAddsNothing` that a replacement sent as a switch adds no display.

### QuicAdmission

`Admit` is the decision with the creation of a ticket, `TryAcquire` the
acquisition of a permit, `Established`, `Failed` and `Drop` the ways out;
`Restart` a new listener. Answering with a retry or a refusal changes no state;
a peer that was sent a retry comes back validated. In `quic_admission` three sources
make three connections, with two per source and a retry threshold of two, so that
the load, a source's own tickets and the limit per source each decide alone; the
total limit, here as large as the number of connections, is proved for any
(`CountedHolds`, `SpoofingBoundedHolds`). *Fairness*: weak on `Failed`, which stands for the deadline
of `establish_incoming`, and on the drop of a ticket.

### ConnectionRounds

`Start`, `Close`, `Respond` belong to the user interface, the rest to the
worker of a round; a step is a critical section of `connection_round_state`, or
of the screen authority where that is called alone. The trust and the
passphrase prompt share every step and are one; what `Client::start` exchanges
is abstracted to its outcome. Rounds are naturals (a `u32` in the code: it would
take 2^32 reconnections to wrap). What it promises is checked in the composition.

### ClipboardRounds

A worker registers its channel and starts the watcher after the login, and
removes and stops them on its way out; each is one critical section of
`CLIPBOARD_STATE`, a step of its own (`Register`, `TryStartClipboard`,
`Unregister`, `TryStopClipboard`). Watcher threads are a set, because a stopped
one lives on until it looks again (`LeaveLoop`, `FinishWatcher`). The listener
may refuse a subscription or fail later. `connection_rounds` has two rounds, so
that a retired worker races the current one, and one failure; three rounds with
the clipboard exceed what TLC can do in minutes, and the safety properties are
proved for any number. *Fairness*: threads run; `Client::start` and prompts have
timeouts; `Data::Close` is taken some day although messages keep arriving
(strong), since `tokio::select!` chooses at random among what is ready.

### VideoDelivery, StartupRecovery and VideoStartup

In the two components an action is a method: `OnFrameSent`,
`HandleVideoFeedback`, `PollRecovery`, `HandleReferenceRefresh` on the host,
`RecoveryAfter` and `DisplayAfter` (a frame), `NextAction` and `After`
(`recover_display_startup`) on the viewer. `IssueRecovery` is `issue_recovery`
with all its returns. A time is the age of the instant, capped at the longest
time it is compared with, so that the model is finite and exact.

`VideoStartup` adds the path: frames may be lost, control messages arrive in
order but for startup requests, which are written directly and overtake feedback
that waits in the session's channel. The decoder may succeed or not, the screen
may come to rest, the host may start a new run at any time. `video_startup` has
two runs of two frames, one reissue, one reference and one capture request.
*Fairness*: weak on the clock, the timers of both ends and the arrival of
control messages; nothing is assumed of frames, of the decoder, or of the
writer, which may refuse every request. `StormBounded` counts the refreshes
since the viewer last got ahead, and only those after its first feedback on the
stream: before it there is no cycle, and the refresh cooldown alone spaces the
requests (`server/connection.rs:942`). `StartupBudget` counts the requests since the
last decode; both counters are history variables that no action reads. With the
times of the run the last capture request and the startup limit fall on the same
tick; with a limit one longer, where the requests decide first, the same properties
hold (`STARTUP_LIMIT = 3`, 900,000 states).

A viewer's capability for feedback is set by its login or its first feedback. An
OptionMessage may take it back, which turns the controller off altogether; the
viewer of this repository announces it in every message (`client.rs:3981`, `4622`),
so the model does not.

### MovieQueue

The message loop and the worker of a stream, with a step per access to a lock:
`discard_queue` and `movie_keyframe_wait` have one each. `ReceiveFrame`,
`IoDiscard`, `IoArm`, `IoRecover` are the loop, `TakeKeyFrame`, `Finish`,
`TakeToken`, `WorkerDiscard`, `WorkerArm`, `WorkerRecover`, `CheckDiscard`,
`HandleFrame` the worker, `RecoverDecoder` and `Fallback` its timeouts. Its run is
the third finding. Outside Movie mode a drop asks for a new capture run, which
replaces the whole pipeline; that case is not modelled.

## Findings

1. `helper_preference`: `set_capture_backend_preference` stores the preference
   under one lock and resets the coordinator under another
   (`server/video_service.rs:400`). Two connections can leave an automatic
   preference with a disabled coordinator, and the early return on an equal
   preference keeps it so.
2. `connection_retired`: `UserApprovalGuard::begin` takes no round
   (`ui_session_interface.rs:276`). A worker whose attempt was closed and that
   reaches its first prompt after the next attempt started puts *that* attempt
   into AwaitingUserApproval, contrary to the comment at
   `ui_session_interface.rs:1932`. `RetiredKeepsOut` states what does hold: a
   retired worker never connects, disconnects or unpublishes the current round.
3. `viewer_movie_drops`: `finish_movie_keyframe_wait` (`client.rs:216`) ends the
   wait at the next key frame the worker takes, also one that was queued before
   the drop. The deltas behind it are decoded without the references that were
   dropped, contrary to the comments at `client.rs:155` and
   `client/io_loop.rs:2728`. It takes a worker that is still starting, or busy,
   while the queue overflows.

Observations made while modelling, about which no document says otherwise:

- `server/video_service.rs:531`: the notification that a connection fetched a
  frame carries the connection only; a late one shortens the capture loop's wait
  for the next frame, and nothing else.
- `server.rs:150`: the host ignores a set none of whose displays it has, and the
  viewer counts it as admitted; `DisplayIntent` compares with what the host can
  show and says nothing about such a set.
- `client.rs:3830`: a session stores the whole configuration it loaded earlier,
  and with it pairing options that were removed in the meantime; the model of
  the repository takes this for a pairing.
- `server/connection.rs:1057`: late feedback of a replaced stream resets the
  controller to that stream; requests for the new one are refused until its next
  frame. `StartupResolves` holds through it.
- `client/io_loop.rs:2683`: a source clock that goes back discards the movie
  queue, but asks for nothing when a request was just sent.
- `client.rs:2313`: a login that finds a failing watcher still marked as running
  starts none; its session is not watched until the next login
  (`ChannelsWatched` speaks of this case only until the listener fails).

## What is proved

Each theorem holds for all values of the constants that satisfy the named
`ASSUME`s of the module. Every proof has one step per action.

| Theorem | States | Inductive invariant |
|---|---|---|
| `VideoQueueProofs!TypesHold`, `TypeCorrect` | types, without and with the byte total | itself; with `Budgeted` |
| `BarrierOrderHolds` | frames and barriers keep their order | types, and the arrival numbers of queue, hand and parked barrier (`Order`) |
| `ReferencesHold` | `References`: track, queue, hand and wire in step, no delta without its reference | types, order and itself |
| `DecodableDeliveryHolds`, `ForwardDeliveryHolds` | what reaches the transport | from `ReferencesHold`, by the one action that writes the wire |
| `BudgetsHold` | the byte total is the sum over the queue; every budget holds | types, order, and `Budgeted`: the budgets of a finite queue |
| `NoLostWakeupHolds` | nothing sleeps beside a queued entry | the same and itself; `PopServes`: some visit of `pop` can pay |
| `BarrierReserveHolds` | video never takes the slots kept for barriers | from `Budgeted`, by the one action that fails the queue |
| `FreshRecoveryHolds` | a recovery starts with its full request budget | types |
| `CreditBoundedHolds` | no display hoards credit | types and itself |
| `VideoServiceProofs!FirstIsReferenceHolds`, `SubscribedHolds` | no delta first; nobody lost | types, one list per connection, `Subscribed`, `FirstIsReference`, and within a run whose encoder has delivered every active subscriber is in step (`Fed`) |
| `PeerSecurityProofs!TypesHold`, `WriteAheadHolds`, `IdentityForgottenHolds` | journal before change; identity gone once committed | types, `WriteAhead`, shape of the plan, ids of the identity tracked by the journal or paired since |
| `AtomicForgetHolds` | `PeerSecurityMutation` implements `TrustStore` | the same; every step maps to a step or a stutter |
| `QuicAdmissionProofs!CountedHolds`, `SpoofingBoundedHolds` | counters equal tickets, bounds hold | types and the two |
| `ConnectionRoundsProofs!ChannelPublishedHolds`, `OnlyCurrentRendersHolds`, `PromptOwnedHolds`, `RetiredKeepsOutHolds` | who owns channel, screen, prompt | types, `ChannelPublished`, what the authority allows is current, connected and logged in (`Allowed`), at most one guard for a waiting round (`Guards`), the response channel belongs to the worker that waits (`OwnPrompt`, `PromptOwned`) |
| `ClipboardTypesHold`, `ChannelsWatchedHolds` | a running watcher has a thread, a logged-in session is watched | generations of threads, listener and watcher (`CurrentThread`, `RunningHasThread`, `RunningListens`), who is on while none runs (`OnRuns`) |
| `RoundsImplemented` | `ClipboardRounds` implements `ConnectionRounds` | none; every step maps to a step or a stutter |
| `RoundsStillHold` | what `ConnectionRounds` promises holds with the clipboard beside it | from `RoundsImplemented` and the theorems about rounds |
| `HelperRetryProofs!TypeCorrect` | types, and the bounds of the policy | `Inv`: a good coordinator (a finite table of entries of the current generation, within its limits, `Good`), the environment's types, and `AttemptsOwned` |
| `Owned` | every startup slot and running entry has a living capturer | the same |
| `Isolated`, `BackOff` | a capturer touches its own attempt only; back-off is never shortened | from `Inv`, by what each method may leave behind (`Settles`, `BeginLeaves`, `KeepsBackOff`) |
| `Honoured` | a restart that `retry_due` asked for is not in vain, unless its slot was taken on the way | `Inv` and `RestartInv`: since the poll its entry has been spared and is still due, and whatever blocks it is newer (`Kept`, `StillDue`, `Spares`) |
| `DisplayIntentProofs!TypeCorrect` | types | `IInv`, below |
| `SettledHolds` | nothing to send and nothing to read: the host is in line | `Outboxed`: the outbox is not ahead of the intent; `Chain`: what each command on the wire finds on the host; `Selected`: which display the last switch leaves; an intent never made is empty |
| `SwitchesAddNothing` | a switch adds no capture | from `Chain` |
| `VideoStartupProofs!TypesHold` | types, and with them the limits of reissues and requests | itself |
| `StartupBudgetHolds` | one budget of startup requests until a decode | what was spent is counted, and nothing is spent once a decode is noted or there is one to note (`BudgetInv`) |
| `StormBoundedHolds` | at most 1 + `MAX_REISSUES` refreshes per cycle | `StormInv`: a cycle has asked once and for each reissue, a controller without a cycle rests or has asked nothing; and `IdsInv`: nobody knows a frame newer than the newest one sent |

Why a strengthening is needed: that no delta is delivered without its reference
is a fact about one step, but which delta that is was decided when it was
queued; `ReferenceChain` carries the fact from there through every purge to the
transport. `IdentityForgotten` speaks about a committed journal, but must be true
when the commit is written, thus while the steps before it are still being
done. `OnlyCurrentRenders` needs to know that an ended round is not let in again.
`StormBounded` needs a fact about the whole system: were there feedback for a
frame the controller has not sent, a cycle could be resolved without having
advanced, and a new one started at once; `IdsInv` follows every frame number from
the encoder through frames, decoder and feedback back to the controller.


`Budgets` is a statement about a sum, and the sum a fold over a set. What the fold
computes is proved by induction all the same: the library's induction theorems
cannot be instantiated, but that the finite subsets of a set are well-founded can
be used directly (`FiniteInduction` takes the property as a set). From it follow
that a function with the sum's equations exists and is the only one
(`WeightIsSum`), and that the weight of a queue is that of any part and of the
rest (`WeightSplits`), which is what push and remove rely on. `NoLostWakeup` needs
the arithmetic of the round robin: every display is visited
`MAX_FRAME_BYTES / QUANTUM + 1` times (`LastVisit`), all but perhaps the first of
them add a quantum, hence the last one can pay for any frame that `Budgets` let
in (`PopServes`).

`AttemptsOwned` is inductive only together with the facts about the table: that a
key is of the current generation makes a lease of an old desktop harmless, and
the bounds on the table make a new attempt possible. A method of the coordinator
is proved once, as the relation between the coordinator before and after, and
each action then uses that. `Settled` speaks of an idle link; `Chain` says what
the host will have after reading the commands still on the wire, for every
position on it, so that the last command accounts for what the outbox believes
was admitted.

The constants are unrestricted but for the named `ASSUME`s. `DisplayIntent` needs
finitely many displays (views are counted per display) and that `NONE`, the
absence of a command, is no command.

Model-checked only: the liveness properties (`EveryEntrySettles`, `JoinServed`,
`StopEnds`, `PendingResolves`, `Converges`, `TicketsReturn`, `AttemptsResolve`,
`RetiredEnd`, `WatchersEnd`, `CyclesEnd`, `StartupResolves`), since fairness is out
of the prover's reach, and the three violations. Every invariant and every action
property of a passing run is proved.

## What is not modelled

Every component is in `PROJECT.json` with its reason. In short: platform and
driver code, codecs, user interface and translations, byte streams over external
libraries, message dispatch without state of its own. Within modelled parts:
contents of messages, encodings, logging, log-only counters, the report of
dropped frames to the frame controller, display geometry, and racing routes
inside `Client::start`.

The map covers a small share of the repository's 190,000 lines, and that will
stay so: most of them call the operating system, draw, translate, parse, dispatch
or measure (quality of service, statistics), where there is no protocol to get
wrong. What is modelled is where threads, connections, timers and failures meet.

## Plan

1. *Composition* of `VideoService` with `VideoQueue`: an end-to-end statement
   that a subscribed viewer is never sent a delta it cannot decode and is
   eventually sent a key frame after a loss.
2. *Frame pacing*: `VideoFrameController` (`server/video_service.rs:460-575`).
3. *Smaller state machines*: login failure policy, input authorization leases,
   downloads.
4. *Presentation clock* as operators against a reference definition.
5. *Proofs*: the safety half of the composition; a bound on what other displays
   may send while one waits its turn in the round robin; what does hold of the
   Movie queue (a delta without its reference only behind a key frame that was
   queued before the drop).

Each module keeps safety and liveness in one run where its state space allows.
