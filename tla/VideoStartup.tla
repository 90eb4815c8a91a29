---------------------------- MODULE VideoStartup ----------------------------
(***************************************************************************)
(* A stream from its first frame to its first picture: the host's delivery *)
(* controller (VideoDelivery), the viewer's startup recovery               *)
(* (StartupRecovery), the frames and the control messages between them,    *)
(* and the video service and the decoder as far as these two see them.     *)
(*                                                                         *)
(* Control messages arrive once and in order, but a startup request is     *)
(* written to the stream directly and may overtake feedback that still     *)
(* waits in the session's channel.  Frames may get lost.  The decoder may  *)
(* succeed with a frame or not, at any time.                               *)
(***************************************************************************)
EXTENDS VideoDelivery, StartupRecovery, SequencesExt

CONSTANTS
    MaxStreams,    \* bound: capture runs
    MaxFrame,      \* bound: frames of a run; afterwards the screen is still
    MaxInFlight,   \* bound: frames on their way
    MaxControl     \* bound: control messages on their way

ASSUME BoundsAssumption ==
    {MaxStreams, MaxFrame, MaxInFlight, MaxControl} \subseteq Nat \ {0}

VARIABLES
    service,    \* the video service: stream and next frame
    frames,     \* video frames on their way
    control,    \* control messages on their way to the host
    tracker,    \* the video thread: VideoFeedbackTracker, and the newest frame queued
    storm,      \* history: refreshes of the stream since the viewer last got ahead
    spent       \* history: startup requests since the viewer last decoded

network == <<service, frames, control, tracker>>
history == <<storm, spent>>
vars == <<deliveryVars, startupVars, network, history>>

Frame == [stream_id : 1..MaxStreams, frame_id : 1..MaxFrame, key : BOOLEAN]
Feedback == [kind : {"feedback"}, stream_id : Nat, received : Nat, decoded : Nat]
Request == [kind : {"reference"}, stream_id : Nat, received : Nat, strict : BOOLEAN]
Refresh == [kind |-> "capture"]
Message == Feedback \cup Request \cup {Refresh}

TypeOK ==
    /\ capable \in BOOLEAN
    /\ delivery \in StateType
    /\ seen \in [stream_id : Nat, received : Nat, decoded : Nat]
    /\ display \in DisplayType /\ recovery \in RecoveryType
    /\ service \in [stream : 1..MaxStreams, next : 1..(MaxFrame + 1)]
    /\ frames \in Seq(Frame) /\ Len(frames) <= MaxInFlight
    /\ control \in Seq(Message) /\ Len(control) <= MaxControl
    /\ tracker \in [stream_id : Nat, received : Nat, decoded : Nat]

NoTracker == [stream_id |-> 0, received |-> 0, decoded |-> 0]

Init ==
    /\ DeliveryInit /\ StartupInit
    /\ service = [stream |-> 1, next |-> 1]
    /\ frames = <<>> /\ control = <<>>
    /\ tracker = NoTracker
    /\ storm = 0 /\ spent = [references |-> 0, captures |-> 0]

-----------------------------------------------------------------------------
(* The host *)

\* The service encodes a frame and the connection writes it.  The first frame of a
\* run is a key frame; one that was asked for comes sooner or later.
SendFrame(key) ==
    LET frame == [stream_id |-> service.stream, frame_id |-> service.next, key |-> key]
    IN  /\ service.next <= MaxFrame /\ Len(frames) < MaxInFlight
        /\ service.next = 1 => key
        /\ frames' = Append(frames, frame)
        /\ service' = [service EXCEPT !.next = @ + 1]
        /\ OnFrameSent(frame)
        /\ UNCHANGED <<startupVars, control, tracker, spent>>

\* A new capture run: OPTION_REFRESH makes the service start one, and so do reasons
\* of the host's own; a request is dropped while a capture helper starts.
NewRun ==
    /\ service.stream < MaxStreams
    /\ service' = [service EXCEPT !.stream = @ + 1, !.next = 1]
    /\ UNCHANGED <<deliveryVars, startupVars, frames, control, tracker, spent>>

HandleControl ==
    /\ control # <<>>
    /\ control' = Tail(control)
    /\ LET message == Head(control)
       IN  \/ /\ message.kind = "feedback"
              /\ HandleVideoFeedback([stream_id |-> message.stream_id,
                                      received |-> message.received, decoded |-> message.decoded])
           \/ /\ message.kind = "reference"
              /\ \E congested \in BOOLEAN : HandleReferenceRefresh(message, congested)
           \/ /\ message.kind = "capture"
              /\ UNCHANGED deliveryVars
    /\ UNCHANGED <<startupVars, service, frames, tracker, spent>>

\* The delivery timer.
Poll ==
    /\ PollRecovery
    /\ UNCHANGED <<startupVars, network, spent>>

-----------------------------------------------------------------------------
(* The viewer *)

Room == Len(control) < MaxControl
FeedbackOf(t) ==
    [kind |-> "feedback", stream_id |-> t.stream_id, received |-> t.received,
     decoded |-> t.decoded]
\* Feedback is sent at once when forced, and otherwise not more often than every
\* VIDEO_FEEDBACK_INTERVAL.
SendFeedback(t, force) ==
    \/ Room /\ control' = Append(control, FeedbackOf(t))
    \/ ~force /\ UNCHANGED control

\* The status timer and every dropped delta: note a decode, and take the next step
\* of the ladder, which the writer takes or refuses.
Overtakes(i) == \A j \in i..Len(control) : control[j].kind = "feedback"
RecoverFrom(r, d) ==
    LET noted == Noted(r, tracker.stream_id = d.stream_id /\ tracker.decoded # 0)
        action == NextAction(noted, d.stream_id # 0 /\ d.received # 0)
        message == IF action = "Reference"
                   THEN [kind |-> "reference", stream_id |-> d.stream_id,
                         received |-> d.received, strict |-> TRUE]
                   ELSE Refresh
    IN  \/ /\ recovery' = After(noted, action, FALSE)
           /\ UNCHANGED <<control, spent>>
        \/ /\ action \in {"Reference", "Capture"} /\ Room
           /\ recovery' = After(noted, action, TRUE)
           /\ \E i \in 1..(Len(control) + 1) :
                 Overtakes(i) /\ control' = InsertAt(control, i, message)
           /\ spent' = [spent EXCEPT !.references = @ + (IF action = "Reference" THEN 1 ELSE 0),
                                     !.captures = @ + (IF action = "Capture" THEN 1 ELSE 0)]
RecoverDisplayStartup ==
    /\ RecoverFrom(recovery, display)
    /\ UNCHANGED <<deliveryVars, display, service, frames, tracker>>

\* A frame is handed to the video thread of its stream, a new one for a new stream;
\* a delta that has to wait for its key frame makes the recovery look again.
Accept(frame) ==
    LET t == IF tracker.stream_id = frame.stream_id THEN tracker
             ELSE [NoTracker EXCEPT !.stream_id = frame.stream_id]
    IN  /\ tracker' = [t EXCEPT !.received = IF @ < frame.frame_id THEN frame.frame_id ELSE @]
        /\ SendFeedback(tracker', tracker.stream_id # frame.stream_id)
        /\ recovery' = RecoveryAfter(frame)
        /\ UNCHANGED spent
Receive ==
    /\ frames # <<>> /\ frames' = Tail(frames)
    /\ LET frame == Head(frames)
       IN  \/ /\ Stale(frame)
              /\ UNCHANGED <<display, recovery, control, tracker, spent>>
           \/ /\ ~Stale(frame) /\ ~WaitsForKeyframe(frame)
              /\ display' = DisplayAfter(frame) /\ Accept(frame)
           \/ /\ ~Stale(frame) /\ WaitsForKeyframe(frame)
              /\ display' = DisplayAfter(frame)
              /\ RecoverFrom(RecoveryAfter(frame), DisplayAfter(frame))
              /\ UNCHANGED tracker
    /\ UNCHANGED <<deliveryVars, service>>
LoseFrame ==
    /\ frames # <<>> /\ frames' = Tail(frames)
    /\ UNCHANGED <<deliveryVars, startupVars, service, control, tracker, spent>>

\* The video thread decodes a frame it was given.
Decode ==
    /\ tracker.decoded < tracker.received
    /\ \E id \in (tracker.decoded + 1)..tracker.received :
          tracker' = [tracker EXCEPT !.decoded = id]
    /\ SendFeedback(tracker', tracker.decoded = 0)
    /\ spent' = [references |-> 0, captures |-> 0]
    /\ UNCHANGED <<deliveryVars, startupVars, service, frames>>

\* Advisory requests come from the transport library of the viewer.
RequestAdvisory ==
    /\ Room /\ tracker.received # 0
    /\ control' = Append(control, [kind |-> "reference", stream_id |-> tracker.stream_id,
                                   received |-> tracker.received, strict |-> FALSE])
    /\ UNCHANGED <<deliveryVars, startupVars, service, frames, tracker, spent>>

Clock ==
    /\ DeliveryTick /\ StartupTick
    /\ UNCHANGED <<network, spent>>

-----------------------------------------------------------------------------
\* The refreshes asked for since the viewer last got ahead; those before the stream's
\* first feedback have no cycle and are not counted.
Renewed ==
    \/ delivery'.stream_id # delivery.stream_id
    \/ delivery'.highest_decoded > delivery.highest_decoded
    \/ delivery.cycle_cooldown > 0 /\ delivery'.cycle_cooldown = 0
Storm ==
    storm' = IF Renewed THEN 0
             ELSE IF /\ delivery.feedback_observed /\ storm <= MAX_REISSUES + 1
                     /\ delivery'.last_refresh = 0 /\ delivery.last_refresh # 0
             THEN storm + 1 ELSE storm

Step ==
    \/ \E key \in BOOLEAN : SendFrame(key)
    \/ NewRun
    \/ HandleControl
    \/ Poll
    \/ RecoverDisplayStartup
    \/ Receive
    \/ LoseFrame
    \/ Decode
    \/ RequestAdvisory
    \/ Clock
Next == Step /\ Storm
Spec == Init /\ [][Next]_vars

\* The timers of both ends run and messages arrive.  The writer takes a request
\* sooner or later or refuses it for ever; frames and pictures come or do not.
Fairness ==
    /\ WF_vars(Clock /\ Storm) /\ WF_vars(Poll /\ Storm)
    /\ WF_vars(RecoverDisplayStartup /\ Storm)
    /\ WF_vars(HandleControl /\ Storm)
FairSpec == Spec /\ Fairness

\* Without progress of the viewer the controller asks the service at most
\* 1 + MAX_REISSUES times before it rests for the cycle's cooldown.  This is about
\* viewers that have sent feedback on the stream: before the first one, requests are
\* bounded by the refresh cooldown alone.
StormBounded == storm <= MAX_REISSUES + 1

\* Startup recovery sends no more requests than one budget until something is
\* decoded, however many streams the host starts.
StartupBudget ==
    spent.references <= MAX_REFERENCES /\ spent.captures <= MAX_CAPTURE_RETRIES

\* Every recovery cycle of the controller ends.
CyclesEnd == []<>(delivery.target = NoFrame)

\* A display that has begun shows a picture or reports failure in the end, and the
\* report does not stay beside a picture of the stream it shows.
Pending == recovery.since # NotYet /\ ~recovery.decoded /\ ~recovery.failed
FailedBesidePicture ==
    recovery.failed /\ tracker.stream_id = display.stream_id /\ tracker.decoded # 0
StartupResolves == []<>~Pending /\ []<>~FailedBesidePicture
=============================================================================
