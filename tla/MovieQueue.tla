----------------------------- MODULE MovieQueue -----------------------------
(***************************************************************************)
(* The video pipeline of one stream in a viewer in Movie mode: the message *)
(* loop (client/io_loop.rs) hands key frames to the video worker           *)
(* (start_video_thread of client.rs) through a channel and deltas through  *)
(* a short queue with one token each in that channel.  Either of the two   *)
(* drops deltas when the worker falls behind, and both then discard the    *)
(* queue until a key frame comes.  discard_queue and movie_keyframe_wait   *)
(* have a lock each, so the two threads meet between any two accesses.     *)
(*                                                                         *)
(* Frames are numbered by frame_id; frame n is decoded on top of n - 1     *)
(* unless it is a key frame.  Times are replaced by their expiry, which    *)
(* may come at any time; whether a queued frame is obsolete, whether the   *)
(* source's clock went back and what the decoder makes of a frame are      *)
(* inputs.  Left out: MediaData::Reset and RecordScreen, statistics,       *)
(* codec changes, hosts that send no frame numbers.                        *)
(***************************************************************************)
EXTENDS Naturals, Sequences

CONSTANTS
    MOVIE_VIDEO_QUEUE_MAX_FRAMES,
    MaxFrame      \* bound: frames of the stream

VARIABLES
    live,            \* the VideoThread is in video_threads
    received,        \* the newest frame_id received
    channel,         \* MediaData on its way to the worker: key frames and tokens
    queue,           \* video_queue: deltas
    discard_queue,
    movie_keyframe_wait,   \* since and fallback_sent: "none", "armed" or "sent"
    cooling,         \* movie_queue_refresh is younger than the cooldown
    requests,        \* what the session asked the host for
    io,              \* the message loop: its next access in the drop handling
    worker,          \* the video worker: its next access, and the frame it holds
    handler,         \* VideoHandler: last_frame_id and the DecoderRecovery
    dropping,        \* history: the deltas each thread has just dropped
    dropped,         \* history: the deltas dropped before the wait that was started for them
    orphans          \* history: deltas the decoder got whose reference was dropped

shared == <<channel, queue, discard_queue, movie_keyframe_wait, cooling, requests>>
history == <<dropping, dropped, orphans>>
vars == <<live, received, shared, io, worker, handler, history>>

Token == [id |-> 0, key |-> FALSE]
KeyFrame(id) == [id |-> id, key |-> TRUE]
Delta(id) == [id |-> id, key |-> FALSE]
Nothing == Token

Recovery == [next_retry : {"none", "now", "later"}, retried : BOOLEAN,
             waiting_for_keyframe : BOOLEAN, needs_reset : BOOLEAN, refresh_requested : BOOLEAN]
Healthy == [next_retry |-> "none", retried |-> FALSE, waiting_for_keyframe |-> FALSE,
            needs_reset |-> FALSE, refresh_requested |-> FALSE]

\* A worker's stages: the loop, the two halves of finish_movie_keyframe_wait, those of
\* start_movie_keyframe_wait, the request, the look at discard_queue, and decoding.
Stages == {"loop", "finish", "discard", "arm", "recover", "check", "decode"}

TypeOK ==
    /\ live \in BOOLEAN /\ received \in 0..MaxFrame
    /\ channel \in Seq([id : 0..MaxFrame, key : BOOLEAN])
    /\ queue \in Seq([id : 1..MaxFrame, key : {FALSE}])
    /\ discard_queue \in BOOLEAN /\ movie_keyframe_wait \in {"none", "armed", "sent"}
    /\ cooling \in BOOLEAN /\ requests \subseteq {"reference", "refresh"}
    /\ io \in {"idle", "discard", "arm", "recover"}
    /\ worker \in [stage : Stages, frame : [id : 0..MaxFrame, key : BOOLEAN]]
    /\ handler \in [last_frame_id : 0..MaxFrame, recovery : Recovery]
    /\ dropping \in [{"io", "worker"} -> SUBSET (1..MaxFrame)]
    /\ dropped \subseteq 1..MaxFrame /\ orphans \subseteq 1..MaxFrame

Init ==
    /\ live = TRUE /\ received = 0
    /\ channel = <<>> /\ queue = <<>> /\ discard_queue = FALSE
    /\ movie_keyframe_wait = "none" /\ cooling = FALSE /\ requests = {}
    /\ io = "idle" /\ worker = [stage |-> "loop", frame |-> Nothing]
    /\ handler = [last_frame_id |-> 0, recovery |-> Healthy]
    /\ dropping = [thread \in {"io", "worker"} |-> {}]
    /\ dropped = {} /\ orphans = {}

-----------------------------------------------------------------------------
(* Used by both threads *)

Ids(frames) == {frames[i].id : i \in DOMAIN frames}
Arm(wait) == IF wait = "none" THEN "armed" ELSE wait

\* recover_movie_queue_drops: a scoped request, unless one was sent a moment ago.
RecoverMovieQueueDrops ==
    /\ requests' = IF cooling THEN requests ELSE requests \cup {"reference"}
    /\ cooling' = TRUE

-----------------------------------------------------------------------------
(* The message loop *)

\* A frame arrives; the first of a stream is a key frame.  A source clock that went
\* back discards what is queued and asks for a refresh, unless one was just sent.
ReceiveFrame(key, regressed) ==
    /\ live /\ io = "idle" /\ received < MaxFrame
    /\ received = 0 => key /\ ~regressed
    /\ received' = received + 1
    /\ discard_queue' = (discard_queue \/ regressed)
    /\ requests' = IF regressed /\ ~cooling THEN requests \cup {"refresh"} ELSE requests
    /\ cooling' = (cooling \/ regressed)
    /\ \/ /\ key
          /\ channel' = Append(channel, KeyFrame(received'))
          /\ UNCHANGED <<queue, io, dropping>>
       \/ /\ ~key
          /\ LET excess == Len(queue) + 1 - MOVIE_VIDEO_QUEUE_MAX_FRAMES
                 drops == IF excess > 0 THEN SubSeq(queue, 1, excess) ELSE <<>>
             IN  /\ queue' = Append(SubSeq(queue, Len(drops) + 1, Len(queue)), Delta(received'))
                 /\ dropping' = [dropping EXCEPT !.io = Ids(drops)]
                 /\ io' = IF drops = <<>> THEN "idle" ELSE "discard"
          /\ channel' = Append(channel, Token)
    /\ UNCHANGED <<live, movie_keyframe_wait, worker, handler, dropped, orphans>>

\* start_movie_keyframe_wait, and the request.
IoDiscard ==
    /\ io = "discard"
    /\ discard_queue' = TRUE /\ io' = "arm"
    /\ UNCHANGED <<live, received, channel, queue, movie_keyframe_wait, cooling, requests,
                   worker, handler, history>>
IoArm ==
    /\ io = "arm"
    /\ movie_keyframe_wait' = Arm(movie_keyframe_wait) /\ io' = "recover"
    /\ dropped' = dropped \cup dropping.io
    /\ UNCHANGED <<live, received, channel, queue, discard_queue, cooling, requests,
                   worker, handler, dropping, orphans>>
IoRecover ==
    /\ io = "recover"
    /\ RecoverMovieQueueDrops /\ io' = "idle"
    /\ UNCHANGED <<live, received, channel, queue, discard_queue, movie_keyframe_wait,
                   worker, handler, history>>

\* The session's messages go out; a refresh discards what is queued.
SendRefresh ==
    /\ io = "idle" /\ "refresh" \in requests
    /\ requests' = requests \ {"refresh"}
    /\ discard_queue' = (discard_queue \/ live)
    /\ UNCHANGED <<live, received, channel, queue, movie_keyframe_wait, cooling, io, worker,
                   handler, history>>
SendReference ==
    /\ io = "idle" /\ "reference" \in requests
    /\ requests' = requests \ {"reference"}
    /\ UNCHANGED <<live, received, channel, queue, discard_queue, movie_keyframe_wait,
                   cooling, io, worker, handler, history>>

\* The first frame of a new stream replaces the thread (Drop of VideoThread).
ReplaceThread ==
    /\ live /\ io = "idle"
    /\ live' = FALSE /\ discard_queue' = TRUE
    /\ UNCHANGED <<received, channel, queue, movie_keyframe_wait, cooling, requests, io,
                   worker, handler, history>>

CooldownOver ==
    /\ cooling /\ cooling' = FALSE
    /\ UNCHANGED <<live, received, channel, queue, discard_queue, movie_keyframe_wait,
                   requests, io, worker, handler, history>>

-----------------------------------------------------------------------------
(* The head of the worker's loop *)

RefreshVideo == requests' = requests \cup {"refresh"}
RecoveryDue == handler.recovery.refresh_requested \/ handler.recovery.next_retry = "now"

\* recover_decoder_if_due
RecoverDecoder ==
    /\ worker.stage = "loop" /\ RecoveryDue
    /\ handler' = [handler EXCEPT !.recovery =
          IF @.refresh_requested THEN [@ EXCEPT !.refresh_requested = FALSE]
          ELSE [@ EXCEPT !.next_retry = "later", !.retried = TRUE,
                         !.waiting_for_keyframe = TRUE, !.needs_reset = FALSE]]
    /\ RefreshVideo
    /\ UNCHANGED <<live, received, channel, queue, discard_queue, movie_keyframe_wait, cooling,
                   io, worker, history>>
RetryTimeComes ==
    /\ handler.recovery.next_retry = "later"
    /\ handler' = [handler EXCEPT !.recovery.next_retry = "now"]
    /\ UNCHANGED <<live, received, shared, io, worker, history>>

\* fallback_due, at most once for a wait
Fallback ==
    /\ worker.stage = "loop" /\ movie_keyframe_wait = "armed"
    /\ movie_keyframe_wait' = "sent" /\ RefreshVideo
    /\ UNCHANGED <<live, received, channel, queue, discard_queue, cooling, io, worker,
                   handler, history>>

\* The worker takes the next message.  A key frame ends the wait in two steps; a token
\* takes the first delta that is not obsolete out of the queue, if there is one.
TakeKeyFrame ==
    /\ worker.stage = "loop" /\ ~RecoveryDue /\ channel # <<>> /\ Head(channel).key
    /\ channel' = Tail(channel)
    /\ worker' = [stage |-> "finish", frame |-> Head(channel)]
    /\ discard_queue' = FALSE
    /\ UNCHANGED <<live, received, queue, movie_keyframe_wait, cooling, requests, io,
                   handler, history>>
Finish ==
    /\ worker.stage = "finish"
    /\ movie_keyframe_wait' = "none"
    /\ worker' = [worker EXCEPT !.stage = "decode"]
    /\ UNCHANGED <<live, received, channel, queue, discard_queue, cooling, requests, io,
                   handler, history>>
TakeToken(stale) ==
    /\ worker.stage = "loop" /\ ~RecoveryDue /\ channel # <<>> /\ Head(channel) = Token
    /\ stale <= Len(queue) /\ \A i \in 1..stale : queue[i].id < received
    /\ channel' = Tail(channel)
    /\ queue' = SubSeq(queue, stale + 2, Len(queue))
    /\ dropping' = [dropping EXCEPT !.worker = Ids(SubSeq(queue, 1, stale))]
    /\ worker' = [stage |-> IF stale > 0 THEN "discard" ELSE "check",
                  frame |-> IF stale < Len(queue) THEN queue[stale + 1] ELSE Nothing]
    /\ UNCHANGED <<live, received, discard_queue, movie_keyframe_wait, cooling, requests, io,
                   handler, dropped, orphans>>

\* start_movie_keyframe_wait, and the request.
WorkerDiscard ==
    /\ worker.stage = "discard"
    /\ discard_queue' = TRUE /\ worker' = [worker EXCEPT !.stage = "arm"]
    /\ UNCHANGED <<live, received, channel, queue, movie_keyframe_wait, cooling, requests, io,
                   handler, history>>
WorkerArm ==
    /\ worker.stage = "arm"
    /\ movie_keyframe_wait' = Arm(movie_keyframe_wait)
    /\ worker' = [worker EXCEPT !.stage = "recover"]
    /\ dropped' = dropped \cup dropping.worker
    /\ UNCHANGED <<live, received, channel, queue, discard_queue, cooling, requests, io,
                   handler, dropping, orphans>>
WorkerRecover ==
    /\ worker.stage = "recover"
    /\ RecoverMovieQueueDrops /\ worker' = [worker EXCEPT !.stage = "check"]
    /\ UNCHANGED <<live, received, channel, queue, discard_queue, movie_keyframe_wait, io,
                   handler, history>>
CheckDiscard ==
    /\ worker.stage = "check"
    /\ worker' = IF discard_queue \/ worker.frame = Nothing
                 THEN [stage |-> "loop", frame |-> Nothing]
                 ELSE [worker EXCEPT !.stage = "decode"]
    /\ UNCHANGED <<live, received, shared, io, handler, history>>

-----------------------------------------------------------------------------
(* handle_frame *)

FrameIsCurrent == worker.frame.id > handler.last_frame_id
AcceptsFrame ==
    LET recovery == handler.recovery
    IN  ~recovery.needs_reset /\ (recovery.waiting_for_keyframe => worker.frame.key)

Succeeded(r) == Healthy
PendingOutput(r) == [r EXCEPT !.next_retry = IF @ = "none" THEN "later" ELSE @]
BackendSwitched(r) ==
    [PendingOutput(r) EXCEPT !.waiting_for_keyframe = TRUE, !.refresh_requested = TRUE]
Failed(r) == [r EXCEPT !.next_retry = IF r.retried THEN @ ELSE "now",
                       !.waiting_for_keyframe = TRUE, !.needs_reset = TRUE]

HandleFrame ==
    /\ worker.stage = "decode"
    /\ worker' = [stage |-> "loop", frame |-> Nothing]
    /\ \/ /\ ~FrameIsCurrent
          /\ UNCHANGED <<handler, orphans>>
       \/ /\ FrameIsCurrent /\ ~AcceptsFrame
          /\ handler' = [handler EXCEPT !.last_frame_id = worker.frame.id]
          /\ UNCHANGED orphans
       \/ /\ FrameIsCurrent /\ AcceptsFrame
          /\ LET fed == [handler.recovery EXCEPT !.waiting_for_keyframe = FALSE]
             IN  \E recovery \in {Succeeded(fed), PendingOutput(fed), BackendSwitched(fed), Failed(fed)} :
                    handler' = [last_frame_id |-> worker.frame.id, recovery |-> recovery]
          /\ orphans' = orphans \cup {id \in {worker.frame.id} : ~worker.frame.key /\ id - 1 \in dropped}
    /\ UNCHANGED <<live, received, shared, io, dropping, dropped>>

-----------------------------------------------------------------------------
Next ==
    \/ \E key, regressed \in BOOLEAN : ReceiveFrame(key, regressed)
    \/ IoDiscard \/ IoArm \/ IoRecover \/ SendRefresh \/ SendReference \/ ReplaceThread
    \/ CooldownOver \/ RetryTimeComes \/ RecoverDecoder \/ Fallback
    \/ TakeKeyFrame \/ Finish \/ \E stale \in 0..MaxFrame : TakeToken(stale)
    \/ WorkerDiscard \/ WorkerArm \/ WorkerRecover \/ CheckDiscard \/ HandleFrame
Spec == Init /\ [][Next]_vars

\* Once the wait for a drop has been started, no delta whose reference was dropped
\* reaches the decoder: the queue is discarded until the key frame that was asked for
\* arrives (the comment on MovieKeyframeWait in client.rs).  It does not hold: any key
\* frame ends the wait, one that was queued before the drop too.
OrphansDiscarded == orphans = {}
=============================================================================
