----------------------------- MODULE VideoQueue -----------------------------
(***************************************************************************)
(* The encoded-video queue of one host connection (server/video_queue.rs)  *)
(* together with the connection task that empties it into the transport    *)
(* (the rx_video and video_delivery_timer branches of the select loop in   *)
(* server/connection.rs).                                                  *)
(*                                                                         *)
(* Capture threads push frames, anyone on the host may push an ordering    *)
(* barrier (a SwitchDisplay message).  Under overload the queue drops      *)
(* frames of the overloaded display, and every delta frame that may depend *)
(* on a dropped one, until an independent key frame restarts the display.  *)
(*                                                                         *)
(* The VecDeque is the set `messages' of entries, ordered by the arrival   *)
(* number `at' push_back gives them: removing from the middle, which purge *)
(* and the round robin of pop do, is then set difference.                  *)
(*                                                                         *)
(* Definitions whose name ends in Defect carry a seeded bug; no            *)
(* specification uses them, they measure what the properties can see.      *)
(***************************************************************************)
EXTENDS Integers, FiniteSets, FiniteSetsExt

CONSTANTS
    DISPLAYS,         \* number of display tracks
    CONTROL_RESERVE,  \* slots that video frames may not take
    TRACK_FRAMES,     \* frames one display may have queued
    TRACKS,           \* displays that may have frames queued at once
    MAX_FRAME_BYTES,  \* bytes of one frame, and of one display's queued frames
    MAX_BYTES,        \* bytes of the whole queue
    QUANTUM,          \* credit a display gains per round-robin visit
    MAX_REFRESHES,    \* key frame requests per recovery
    FrameSizes,       \* sizes a frame may have
    BarrierSizes,     \* sizes a barrier may have
    Selections,       \* sets of displays a viewer may ask to capture
    MaxStreams,       \* bound: capture runs started
    MaxFrame,         \* bound: frames of one capture run
    MaxBarriers       \* bound: barriers pushed

ASSUME QueueConstants ==
    /\ {DISPLAYS, TRACK_FRAMES, TRACKS, MAX_FRAME_BYTES, QUANTUM} \subseteq Nat \ {0}
    /\ {CONTROL_RESERVE, MAX_BYTES, MAX_REFRESHES} \subseteq Nat
    /\ {MaxStreams, MaxFrame, MaxBarriers} \subseteq Nat
    /\ FrameSizes \subseteq Nat /\ BarrierSizes \subseteq Nat
    /\ Selections \subseteq SUBSET Nat

\* Without it a display that continues its turn with no credit left could not
\* pay for the largest frame within PopVisits (64 KiB divides 16 MiB).
ASSUME QuantumDivides == MAX_FRAME_BYTES % QUANTUM = 0

Displays == 0 .. DISPLAYS - 1
CAPACITY == TRACKS * TRACK_FRAMES + CONTROL_RESERVE
NoDisplay == -1   \* Entry.display = None: an ordering barrier
Streams == 1 .. MaxStreams

VARIABLES
    messages,    \* the queue: a set of entries ordered by .at
    arrivals,    \* entries admitted so far
    bytes,       \* the byte total the code maintains
    track,       \* per display: stream, enabled, recovering, ...
    cursor,      \* round robin: display to visit next
    continuing,  \* round robin: the cursor's display keeps its turn
    fatal,       \* a barrier could not be queued
    permit,      \* the Notify's stored permit
    unnotified,  \* pushers between the unlock and notify_one
    waiting,     \* the receiver awaits the Notify
    hand,        \* the entry the connection task popped and has not settled
    parked,      \* pending_video_ordering: a barrier the transport refused
    closed,      \* the connection has been closed
    run,         \* capture runs: display and next frame number
    wire,        \* per display: last frame handed to the transport
    wireBarrier, \* arrival number of the last barrier handed to the transport
    wantKey      \* displays whose reference refresh option is set

queueVars == <<messages, arrivals, bytes, track, cursor, continuing, fatal>>
wakeVars == <<permit, unnotified, waiting>>
taskVars == <<hand, parked, closed>>
wireVars == <<wire, wireBarrier>>
vars == <<queueVars, wakeVars, taskVars, run, wireVars, wantKey>>

-----------------------------------------------------------------------------
(* Entries and tracks *)

Video(d, s, f, k, n) ==
    [display |-> d, stream |-> s, frame |-> f, key |-> k, bytes |-> n, at |-> arrivals]
BarrierOf(n) ==
    [display |-> NoDisplay, stream |-> 0, frame |-> 0, key |-> FALSE, bytes |-> n, at |-> arrivals]

\* Track::default() of a display that starts a new stream; stream 0 is None and
\* cooling says that last_refresh is less than REFRESH_INTERVAL ago.
Track(s, rec) ==
    [stream |-> s, enabled |-> TRUE, recovering |-> rec, lost_through |-> 0,
     refreshes |-> 0, cooling |-> FALSE, deficit |-> 0]

Weight(ms) == MapThenSumSet(LAMBDA e : e.bytes, ms)
Of(ms, d) == {e \in ms : e.display = d}
Barriers(ms) == Of(ms, NoDisplay)
PendingTracks(ms) == {e.display : e \in ms \ Barriers(ms)}

\* State::purge removes a display's entries, or only its deltas.
Purge(ms, d, deltasOnly) == {e \in ms : ~(e.display = d /\ (deltasOnly => ~e.key))}

\* State::loss: the track's new state; the deltas still queued are lost as well.
LossFloor(ms, d, f) == Max({f} \cup {e.frame : e \in {x \in Of(ms, d) : ~x.key}})
LossTrackDefect(t, floor) ==   \* keeps the refresh budget of the last recovery
    [t EXCEPT !.recovering = TRUE, !.lost_through = IF @ > floor THEN @ ELSE floor]
LossTrack(t, floor) ==
    [t EXCEPT !.refreshes = IF t.recovering THEN @ ELSE 0,
              !.cooling = t.recovering /\ @,
              !.recovering = TRUE,
              !.lost_through = IF @ > floor THEN @ ELSE floor]

\* The bytes left after the queue shrank to ms (State::remove per entry).
BytesAfter(ms) == bytes - Weight(messages \ ms)

\* State::push: a disabled display or an older stream is ignored.
AcceptsDefect(t, s) == t.enabled   \* takes frames of a replaced run
Accepts(t, s) == t.enabled /\ s >= t.stream

\* State::push: the limits that refuse a frame of n bytes on display d.
FullDefect(ms, d, n) ==   \* no limit on the number of displays with frames
    LET own == Of(ms, d) IN
    \/ n > MAX_FRAME_BYTES
    \/ BytesAfter(ms) + n > MAX_BYTES
    \/ Cardinality(ms) >= CAPACITY - CONTROL_RESERVE
    \/ Weight(own) + n > MAX_FRAME_BYTES
    \/ Cardinality(own) >= TRACK_FRAMES
Full(ms, d, n) ==
    LET own == Of(ms, d) IN
    \/ n > MAX_FRAME_BYTES
    \/ BytesAfter(ms) + n > MAX_BYTES
    \/ Cardinality(ms) >= CAPACITY - CONTROL_RESERVE
    \/ Weight(own) + n > MAX_FRAME_BYTES
    \/ Cardinality(own) >= TRACK_FRAMES
    \/ own = {} /\ Cardinality(PendingTracks(ms)) >= TRACKS

-----------------------------------------------------------------------------
(* State::push of a frame, under the queue's lock *)

PushVideo(d, s, f, k, n) ==
    LET t0 == track[d]
        fresh == t0.stream # s
        t == IF fresh THEN Track(s, ~k) ELSE t0
        ms == IF fresh \/ k THEN Purge(messages, d, FALSE) ELSE messages
        refused == (~k /\ t.recovering) \/ Full(ms, d, n)
        lost == Purge(ms, d, TRUE)
        recovered == k /\ (f = 0 \/ f > t.lost_through)
    IN  \/ /\ ~Accepts(t0, s)
           /\ UNCHANGED queueVars
        \/ /\ Accepts(t0, s) /\ refused
           /\ messages' = lost
           /\ bytes' = BytesAfter(lost)
           /\ track' = [track EXCEPT ![d] = LossTrack(t, LossFloor(ms, d, f))]
           /\ UNCHANGED <<arrivals, cursor, continuing, fatal>>
        \/ /\ Accepts(t0, s) /\ ~refused
           /\ messages' = ms \cup {Video(d, s, f, k, n)}
           /\ arrivals' = arrivals + 1
           /\ bytes' = BytesAfter(ms) + n
           /\ track' = [track EXCEPT ![d] =
                 [t EXCEPT !.recovering = @ /\ ~recovered,
                           !.refreshes = IF recovered THEN 0 ELSE @]]
           /\ UNCHANGED <<cursor, continuing, fatal>>

\* State::push of a barrier: queued, or the queue fails closed.
BarrierRefusedDefect(n) ==   \* forgets that the reserve is for barriers
    \/ Cardinality(messages) >= CAPACITY - CONTROL_RESERVE
    \/ n > MAX_FRAME_BYTES
    \/ bytes + n > MAX_BYTES
BarrierRefused(n) ==
    \/ Cardinality(messages) = CAPACITY
    \/ n > MAX_FRAME_BYTES
    \/ bytes + n > MAX_BYTES
PushBarrier(n) ==
    /\ IF BarrierRefused(n)
       THEN fatal' = TRUE /\ UNCHANGED <<messages, arrivals, bytes>>
       ELSE /\ messages' = messages \cup {BarrierOf(n)}
            /\ arrivals' = arrivals + 1
            /\ bytes' = bytes + n
            /\ UNCHANGED fatal
    /\ UNCHANGED <<track, cursor, continuing>>

-----------------------------------------------------------------------------
(* State::pop: barriers in arrival order, between them deficit round robin *)

Front(ms) == CHOOSE e \in ms : \A x \in ms : e.at <= x.at

\* Entries that no queued barrier precedes, and the first of display d there.
BeforeBarrierDefect == {e \in messages : e.display # NoDisplay}
BeforeBarrier == {e \in messages : e.display # NoDisplay /\ \A b \in Barriers(messages) : e.at < b.at}
HeadOf(d) == Front(Of(BeforeBarrier, d))

\* The loop visits the displays cyclically from the cursor.  Visits are counted
\* from 0; VisitsTo(d, v) of the visits 0..v are to display d.
PopVisitsDefect == DISPLAYS * (MAX_FRAME_BYTES \div QUANTUM)
PopVisits == DISPLAYS * ((MAX_FRAME_BYTES \div QUANTUM) + 1)
VisitedAt(v) == (cursor + v) % DISPLAYS
VisitsTo(d, v) ==
    LET first == (d - cursor) % DISPLAYS
    IN  IF v < first THEN 0 ELSE ((v - first) \div DISPLAYS) + 1

\* A display's deficit after visits 0..v.  A visit adds a quantum, except the
\* first one when the display at the cursor is continuing its turn; the cap
\* keeps a long-refused display from hoarding credit.
CreditAfter(d, v) ==
    LET grants == VisitsTo(d, v) - (IF continuing /\ d = cursor THEN 1 ELSE 0)
        credit == track[d].deficit + grants * QUANTUM
    IN  IF grants > 0 /\ credit > MAX_FRAME_BYTES + QUANTUM
        THEN MAX_FRAME_BYTES + QUANTUM ELSE credit

\* Visit v finds a frame it can pay for.
Pays(v) ==
    LET d == VisitedAt(v)
    IN  /\ Of(BeforeBarrier, d) # {}
        /\ CreditAfter(d, v) >= HeadOf(d).bytes

\* The tracks after visits 0..v, of which the last paid `paid' (0 if none did).
TracksAfter(v, paid) ==
    [d \in Displays |->
        IF VisitsTo(d, v) = 0 THEN track[d]
        ELSE [track[d] EXCEPT !.deficit =
                IF Of(BeforeBarrier, d) = {} THEN 0
                ELSE CreditAfter(d, v) - (IF d = VisitedAt(v) THEN paid ELSE 0)]]

Take(e) ==
    /\ messages' = messages \ {e}
    /\ bytes' = bytes - e.bytes
    /\ hand' = {e}
    /\ UNCHANGED <<arrivals, fatal>>

PopBarrier ==
    /\ messages # {} /\ Front(messages).display = NoDisplay
    /\ Take(Front(messages))
    /\ UNCHANGED <<track, cursor, continuing>>

PopVideo ==
    \E v \in 0 .. PopVisits - 1 :
        LET e == HeadOf(VisitedAt(v)) IN
        /\ Pays(v) /\ \A u \in 0 .. v - 1 : ~Pays(u)
        /\ track' = TracksAfter(v, e.bytes)
        /\ cursor' = VisitedAt(v)
        /\ continuing' = TRUE
        /\ Take(e)

\* pop returns None: nothing queued, or no visit could pay.
PopNone ==
    /\ ~(messages # {} /\ Front(messages).display = NoDisplay)
    /\ \A v \in 0 .. PopVisits - 1 : ~Pays(v)
    /\ IF BeforeBarrier = {} THEN UNCHANGED <<track, continuing>>
       ELSE track' = TracksAfter(PopVisits - 1, 0) /\ continuing' = FALSE
    /\ UNCHANGED <<messages, arrivals, bytes, cursor, fatal, hand>>

-----------------------------------------------------------------------------
(* Pushers: capture threads and barrier senders.  send() pushes under the  *)
(* lock and calls notify_one after releasing it.                           *)

\* A video service run starts and draws the next global stream id.
StartRun(s, d) ==
    /\ run[s].display = NoDisplay
    /\ \A r \in Streams : r < s => run[r].display # NoDisplay
    /\ run' = [run EXCEPT ![s].display = d]
    /\ UNCHANGED <<queueVars, wakeVars, taskVars, wireVars, wantKey>>

\* A run emits its next frame, a key frame or a delta as the encoder decides (a
\* connection may join a run midway, so even its first frame here can be a
\* delta).  A key frame serves the pending reference refresh.
SendVideo(s, k, n) ==
    LET d == run[s].display
        f == run[s].next
    IN  /\ d # NoDisplay /\ f <= MaxFrame /\ s \notin unnotified
        /\ PushVideo(d, s, f, k, n)
        /\ run' = [run EXCEPT ![s].next = @ + 1]
        /\ wantKey' = IF k THEN wantKey \ {d} ELSE wantKey
        /\ unnotified' = unnotified \cup {s}
        /\ UNCHANGED <<permit, waiting, taskVars, wireVars>>

\* A SwitchDisplay message; run[0] counts them against the bound.
SendBarrier(n) ==
    /\ run[0].next <= MaxBarriers /\ 0 \notin unnotified
    /\ PushBarrier(n)
    /\ run' = [run EXCEPT ![0].next = @ + 1]
    /\ unnotified' = unnotified \cup {0}
    /\ UNCHANGED <<permit, waiting, taskVars, wireVars, wantKey>>

NotifyOne(p) ==
    /\ p \in unnotified
    /\ unnotified' = unnotified \ {p}
    /\ permit' = TRUE
    /\ UNCHANGED <<queueVars, waiting, taskVars, run, wireVars, wantKey>>

-----------------------------------------------------------------------------
(* The connection task *)

\* The select loop is at its top and rx_video.recv() may be polled.
Receiving == ~closed /\ hand = {} /\ parked = {} /\ ~waiting

Recv ==
    /\ Receiving /\ ~fatal
    /\ \/ (PopBarrier \/ PopVideo) /\ UNCHANGED waiting
       \/ PopNone /\ waiting' = TRUE
    /\ UNCHANGED <<permit, unnotified, parked, closed, run, wireVars, wantKey>>

\* recv returns Err, and the loop calls on_close and breaks.
RecvFatal ==
    /\ Receiving /\ fatal
    /\ closed' = TRUE
    /\ UNCHANGED <<queueVars, wakeVars, hand, parked, run, wireVars, wantKey>>

\* notified.await returns and recv looks at the queue again.
Wake ==
    /\ ~closed /\ waiting /\ permit
    /\ waiting' = FALSE /\ permit' = FALSE
    /\ UNCHANGED <<queueVars, unnotified, taskVars, run, wireVars, wantKey>>

\* The transport accepts the popped entry.
SendOk ==
    /\ ~closed
    /\ \E e \in hand :
        IF e.display = NoDisplay
        THEN wireBarrier' = e.at /\ UNCHANGED wire
        ELSE /\ wire' = [wire EXCEPT ![e.display] = [stream |-> e.stream, frame |-> e.frame]]
             /\ UNCHANGED wireBarrier
    /\ hand' = {}
    /\ UNCHANGED <<queueVars, wakeVars, parked, closed, run, wantKey>>

\* VideoQueueSender::lose: nothing if the track has moved to another stream.
LoseDefect(e) ==   \* leaves the queued deltas that depend on the lost frame
    IF track[e.display].stream # e.stream THEN UNCHANGED queueVars
    ELSE /\ track' = [track EXCEPT ![e.display] = LossTrack(@, LossFloor(messages, e.display, e.frame))]
         /\ UNCHANGED <<messages, bytes, arrivals, cursor, continuing, fatal>>
Lose(e) ==
    LET d == e.display
        ms == Purge(messages, d, TRUE)
    IN  IF track[d].stream # e.stream THEN UNCHANGED queueVars
        ELSE /\ messages' = ms
             /\ bytes' = BytesAfter(ms)
             /\ track' = [track EXCEPT ![d] = LossTrack(@, LossFloor(messages, d, e.frame))]
             /\ UNCHANGED <<arrivals, cursor, continuing, fatal>>

\* The popped frame is a delta older than STALE_DELTA, or the transport
\* answers WouldBlock.
DropFrame ==
    /\ ~closed
    /\ \E e \in hand : e.display # NoDisplay /\ Lose(e)
    /\ hand' = {}
    /\ UNCHANGED <<wakeVars, parked, closed, run, wireVars, wantKey>>

\* WouldBlock on a barrier keeps it in pending_video_ordering.
ParkBarrier ==
    /\ ~closed
    /\ \E e \in hand : e.display = NoDisplay
    /\ parked' = hand /\ hand' = {}
    /\ UNCHANGED <<queueVars, wakeVars, closed, run, wireVars, wantKey>>

\* Any other transport error closes the connection.
SendError ==
    /\ ~closed /\ hand \cup parked # {}
    /\ closed' = TRUE
    /\ UNCHANGED <<queueVars, wakeVars, hand, parked, run, wireVars, wantKey>>

\* VideoQueueSender::recovery_due: the displays to ask a key frame for.
Due == {d \in Displays : /\ track[d].enabled /\ track[d].recovering
                         /\ track[d].refreshes < MAX_REFRESHES
                         /\ ~track[d].cooling}

\* video_delivery_timer fires: retry the parked barrier, then request the due
\* refreshes.  Running another select branch drops the pending recv future.
RetryParkedDefect == UNCHANGED <<parked, wireBarrier>>   \* never retries
RetryParked ==
    \/ UNCHANGED <<parked, wireBarrier>>
    \/ \E b \in parked : parked' = {} /\ wireBarrier' = b.at
Tick ==
    /\ ~closed /\ hand = {}
    /\ RetryParked
    /\ track' = [d \in Displays |->
         IF d \in Due THEN [track[d] EXCEPT !.cooling = TRUE, !.refreshes = @ + 1]
         ELSE track[d]]
    /\ wantKey' = wantKey \cup Due
    /\ waiting' = FALSE
    /\ UNCHANGED <<messages, arrivals, bytes, cursor, continuing, fatal,
                   permit, unnotified, hand, closed, run, wire>>

\* REFRESH_INTERVAL passes after a display's last refresh.
RefreshIntervalOver(d) ==
    /\ track[d].cooling
    /\ track' = [track EXCEPT ![d].cooling = FALSE]
    /\ UNCHANGED <<messages, arrivals, bytes, cursor, continuing, fatal,
                   wakeVars, taskVars, run, wireVars, wantKey>>

\* VideoQueueSender::set_displays after a CaptureDisplays or SwitchDisplay request.
SetDisplays(on) ==
    /\ ~closed /\ hand = {}
    /\ messages' = {e \in messages :
                       e.display # NoDisplay /\ track[e.display].enabled => e.display \in on}
    /\ bytes' = BytesAfter(messages')
    /\ track' = [d \in Displays |->
         LET t == track[d] IN
         IF t.enabled /\ d \notin on THEN [t EXCEPT !.enabled = FALSE, !.recovering = FALSE]
         ELSE IF ~t.enabled /\ d \in on
         THEN [t EXCEPT !.enabled = TRUE, !.recovering = TRUE, !.refreshes = 0, !.cooling = FALSE]
         ELSE t]
    /\ waiting' = FALSE
    /\ UNCHANGED <<arrivals, cursor, continuing, fatal, permit, unnotified,
                   taskVars, run, wireVars, wantKey>>

-----------------------------------------------------------------------------

Init ==
    /\ messages = {} /\ arrivals = 1 /\ bytes = 0
    /\ track = [d \in Displays |-> Track(0, FALSE)]
    /\ cursor = 0 /\ continuing = FALSE /\ fatal = FALSE
    /\ permit = FALSE /\ unnotified = {} /\ waiting = FALSE
    /\ hand = {} /\ parked = {} /\ closed = FALSE
    /\ run = [s \in {0} \cup Streams |-> [display |-> NoDisplay, next |-> 1]]
    /\ wire = [d \in Displays |-> [stream |-> 0, frame |-> 0]]
    /\ wireBarrier = 0
    /\ wantKey = {}

Next ==
    \/ \E s \in Streams, d \in Displays : StartRun(s, d)
    \/ \E s \in Streams, k \in BOOLEAN, n \in FrameSizes : SendVideo(s, k, n)
    \/ \E n \in BarrierSizes : SendBarrier(n)
    \/ \E p \in {0} \cup Streams : NotifyOne(p)
    \/ Recv \/ RecvFatal \/ Wake
    \/ SendOk \/ DropFrame \/ ParkBarrier \/ SendError
    \/ Tick
    \/ \E d \in Displays : RefreshIntervalOver(d)
    \/ \E on \in Selections : SetDisplays(on)

Spec == Init /\ [][Next]_vars

\* The task polls its channels, finishes the branch it is in and is woken by its
\* timer; a pusher that released the lock calls notify_one; the transport does
\* not refuse a barrier forever.  Nothing is assumed of capture or the viewer.
FairSpec ==
    /\ Spec
    /\ WF_vars(Recv) /\ WF_vars(RecvFatal) /\ WF_vars(Wake)
    /\ WF_vars(hand # {} /\ (SendOk \/ DropFrame \/ ParkBarrier \/ SendError))
    /\ SF_vars(Tick /\ parked' # parked)
    /\ \A p \in {0} \cup Streams : WF_vars(NotifyOne(p))

-----------------------------------------------------------------------------
(* Properties *)

Entry == [display : Displays \cup {NoDisplay}, stream : Nat, frame : 0 .. MaxFrame,
          key : BOOLEAN, bytes : Nat, at : Nat]
TrackType == [stream : Nat, enabled : BOOLEAN, recovering : BOOLEAN, lost_through : Nat,
              refreshes : Nat, cooling : BOOLEAN, deficit : Nat]

\* Every variable has the type of the field or local it stands for; in
\* particular the deficits never underflow, and at most one entry is in hand.
Types ==
    /\ messages \in SUBSET Entry /\ arrivals \in Nat
    /\ track \in [Displays -> TrackType]
    /\ cursor \in Displays
    /\ continuing \in BOOLEAN /\ fatal \in BOOLEAN
    /\ permit \in BOOLEAN /\ waiting \in BOOLEAN /\ closed \in BOOLEAN
    /\ unnotified \subseteq {0} \cup Streams
    /\ hand \in SUBSET Entry /\ \A x, y \in hand : x = y
    /\ parked \in SUBSET Entry /\ \A x, y \in parked : x = y
    /\ run \in [{0} \cup Streams -> [display : Displays \cup {NoDisplay}, next : Nat \ {0}]]
    /\ wire \in [Displays -> [stream : Nat, frame : Nat]]
    /\ wireBarrier \in Nat
    /\ wantKey \subseteq Displays

TypeOK == Types /\ bytes \in Nat

\* The byte total that push and remove maintain incrementally is the sum over
\* the queue, and every budget of the queue holds: bytes, slots, slots kept for
\* barriers, frames and bytes per display, displays with frames.
Budgets ==
    /\ bytes = Weight(messages) /\ bytes <= MAX_BYTES
    /\ Cardinality(messages) <= CAPACITY
    /\ Cardinality(messages \ Barriers(messages)) <= CAPACITY - CONTROL_RESERVE
    /\ Cardinality(PendingTracks(messages)) <= TRACKS
    /\ \A d \in Displays : /\ Cardinality(Of(messages, d)) <= TRACK_FRAMES
                           /\ Weight(Of(messages, d)) <= MAX_FRAME_BYTES

\* A delta frame reaches the transport only directly after the frame it was
\* encoded against: whatever pushes, purges, stale drops, transport refusals,
\* stream changes and display switches happen in between, the viewer is never
\* sent a delta whose reference it did not get.
DecodableDelivery ==
    [][\A d \in Displays, e \in hand :
        wire'[d] # wire[d] /\ ~e.key =>
            wire[d] = [stream |-> e.stream, frame |-> e.frame - 1]]_vars

\* Per display, what is handed to the transport only moves forward: never back
\* to an older capture run, never back to an earlier frame of the same run.
ForwardDelivery ==
    [][\A d \in Displays :
        wire'[d] # wire[d] =>
            \/ wire'[d].stream > wire[d].stream
            \/ wire'[d].stream = wire[d].stream /\ wire'[d].frame > wire[d].frame]_vars

\* Frames and barriers cross the transport on the side of each other on which
\* they were queued, a barrier parked by a full transport included.
BarrierOrder ==
    /\ \A e \in messages \cup hand \cup parked : wireBarrier < e.at
    /\ \A e \in messages, x \in hand \cup parked :
          NoDisplay \in {e.display, x.display} => x.at < e.at
    /\ parked # {} => hand = {}

\* e is the frame after x of the same run and display.
After(e, x) == e.display = x.display /\ e.stream = x.stream /\ e.frame = x.frame + 1

\* The wire, with nothing of display d on its way to it, is at frame f of run s.
WireAt(d, s, f) == wire[d] = [stream |-> s, frame |-> f] /\ Of(hand, d) = {}

\* A display's track, its queued frames, the frame in hand and the wire are in
\* step: queued frames belong to the track's run, in frame order, and are newer
\* than what the wire has.
InStep ==
    /\ \A d \in Displays :
        /\ track[d].stream # 0 => track[d].stream \in Streams /\ run[track[d].stream].display = d
        /\ wire[d].stream <= track[d].stream
        /\ wire[d].stream # 0 => wire[d].frame < run[wire[d].stream].next
    /\ \A e \in messages : e.display # NoDisplay =>
        /\ track[e.display].enabled /\ e.stream = track[e.display].stream /\ e.stream # 0
        /\ \A x \in messages : x.display = e.display => (e.frame < x.frame <=> e.at < x.at)
        /\ \A x \in hand : x.display = e.display /\ x.stream = e.stream => x.frame < e.frame
    /\ \A e \in hand : e.display # NoDisplay =>
        e.stream \in Streams /\ e.stream <= track[e.display].stream
    /\ \A e \in messages \cup hand : e.display # NoDisplay =>
        /\ e.frame < run[e.stream].next
        /\ \/ wire[e.display].stream < e.stream
           \/ wire[e.display].stream = e.stream /\ wire[e.display].frame < e.frame

\* Every queued delta directly follows a frame that is queued, in hand or last on
\* the wire, a delta in hand follows the wire, and on a healthy track the newest
\* frame its run emitted is still there to be followed by the next delta.
ReferenceChain ==
    /\ \A e \in messages : e.display # NoDisplay /\ ~e.key =>
        \/ \E x \in messages \cup hand : After(e, x)
        \/ WireAt(e.display, e.stream, e.frame - 1)
    /\ \A e \in hand : e.display # NoDisplay /\ ~e.key =>
        wire[e.display] = [stream |-> e.stream, frame |-> e.frame - 1]
    /\ \A d \in Displays :
        track[d].enabled /\ ~track[d].recovering /\ track[d].stream # 0 =>
            LET s == track[d].stream
                newest == run[s].next - 1
            IN  \/ \E x \in messages \cup hand : x.display = d /\ x.stream = s /\ x.frame = newest
                \/ WireAt(d, s, newest)

\* Track, queue, hand and wire stay in step, and nothing that is queued or in hand
\* lacks its reference, through every purge, switch and change of run.
References == InStep /\ ReferenceChain

\* A receiver that sleeps without a wake-up on its way has an empty queue:
\* pop never reports None while something is queued, and no push between its
\* look at the queue and its await is missed.
NoLostWakeup == waiting /\ ~permit /\ unnotified = {} => messages = {}

\* Every recovery starts with its full budget of key frame requests, and with
\* the first one due at once, however the display got into recovery.
FreshRecovery ==
    [][\A d \in Displays :
        track'[d].recovering /\ (~track[d].recovering \/ track'[d].stream # track[d].stream)
            => track'[d].refreshes = 0 /\ ~track'[d].cooling]_vars

\* Every queued entry is eventually taken by the connection task or purged,
\* unless the connection closes: neither the round robin, nor a parked barrier,
\* nor a missed notification strands it.
EveryEntrySettles ==
    \A a \in 1 .. MaxStreams * MaxFrame + MaxBarriers :
        (\E e \in messages : e.at = a) ~> (closed \/ ~\E e \in messages : e.at = a)

\* Video alone cannot exhaust the slots barriers need: when a barrier fails the
\* queue closed, the reserved slots are taken by barriers or the byte budget,
\* for which nothing is reserved, is spent.
BarrierReserve ==
    [][fatal' /\ ~fatal =>
        \/ Cardinality(Barriers(messages)) >= CONTROL_RESERVE
        \/ \E n \in BarrierSizes : n > MAX_FRAME_BYTES \/ bytes + n > MAX_BYTES]_vars
=============================================================================
