--------------------------- MODULE VideoDelivery ---------------------------
(***************************************************************************)
(* VideoDeliveryController of server/connection.rs, for one display: the   *)
(* host compares what it sent with what the viewer reports as decoded and  *)
(* asks the video service for a reference frame when decoding stands       *)
(* still, on its own timer or at the viewer's request.  A recovery cycle   *)
(* aims at the newest frame sent, is repeated MAX_REISSUES times and then  *)
(* rests; everything it knows belongs to one stream.                       *)
(*                                                                         *)
(* An Instant is replaced by its age in ticks, capped at the longest time  *)
(* it is compared with, and a deadline by the time left; both are exact,   *)
(* because the code only asks whether a duration has passed.  For the same *)
(* reason None is the cap: what was never set holds nothing back.  The     *)
(* network delay, and so the timeouts, do not change.  Left out: the       *)
(* generation, the counters and the stall time that only logs and          *)
(* statistics read, first_sent_at, which only feeds the stall time, and    *)
(* the option of the video service that refresh_video_reference sets: the  *)
(* service may make any frame a key frame.                                 *)
(***************************************************************************)
EXTENDS Integers

CONSTANTS
    PROGRESS_TIMEOUT,     \* progress_timeout: no decode for so long is a stall
    REFRESH_COOLDOWN,     \* refresh_cooldown
    REISSUE_MULTIPLIER,   \* VIDEO_DELIVERY_REISSUE_COOLDOWN_MULTIPLIER
    MAX_REISSUES,         \* VIDEO_DELIVERY_MAX_RECOVERY_REISSUES
    CYCLE_COOLDOWN,       \* VIDEO_DELIVERY_RECOVERY_CYCLE_COOLDOWN
    SLACK_FRAMES          \* VIDEO_DELIVERY_PIPELINE_SLACK_FRAMES

ASSUME ProgressAssumption == PROGRESS_TIMEOUT \in Nat \ {0}
ASSUME CooldownAssumption == REFRESH_COOLDOWN \in Nat /\ REFRESH_COOLDOWN >= PROGRESS_TIMEOUT
ASSUME ReissueAssumption == REISSUE_MULTIPLIER \in Nat \ {0} /\ MAX_REISSUES \in Nat
ASSUME CycleAssumption == CYCLE_COOLDOWN \in Nat \ {0} /\ SLACK_FRAMES \in Nat

VARIABLES
    capable,             \* video_feedback_capable
    delivery,            \* VideoDeliveryState of the display; stream 0: none
    seen                 \* video_feedback_by_display: the last feedback taken

deliveryVars == <<capable, delivery, seen>>

NoFrame == 0
RECOVERY_REISSUE_TIMEOUT == REISSUE_MULTIPLIER * REFRESH_COOLDOWN

Older(age, cap) == IF age < cap THEN age + 1 ELSE cap

StateType ==
    [stream_id : Nat, host_highest_sent : Nat, highest_sent : Nat, highest_decoded : Nat,
     feedback_observed : BOOLEAN, decode_pending : 0..PROGRESS_TIMEOUT,
     sent_advance : 0..PROGRESS_TIMEOUT, last_refresh : 0..RECOVERY_REISSUE_TIMEOUT,
     target : Nat, reissues : 0..MAX_REISSUES, progress : 0..RECOVERY_REISSUE_TIMEOUT,
     cycle_cooldown : 0..CYCLE_COOLDOWN, phase : {"Starting", "Healthy", "Recovering"}]

\* VideoDeliveryState::new
NewState(stream, frame) ==
    [stream_id |-> stream, host_highest_sent |-> frame, highest_sent |-> frame,
     highest_decoded |-> 0, feedback_observed |-> FALSE, decode_pending |-> 0,
     sent_advance |-> 0, last_refresh |-> RECOVERY_REISSUE_TIMEOUT, target |-> NoFrame,
     reissues |-> 0, progress |-> RECOVERY_REISSUE_TIMEOUT, cycle_cooldown |-> 0, phase |-> "Starting"]

-----------------------------------------------------------------------------
(* issue_recovery: the state it leaves, and whether it asks for a reference *)

Cleared(s) == [s EXCEPT !.target = NoFrame, !.reissues = 0,
                        !.progress = RECOVERY_REISSUE_TIMEOUT]
Cooling(s) == s.last_refresh < REFRESH_COOLDOWN
Unresolved(s) == s.target # NoFrame /\ s.highest_decoded <= s.target
\* The younger of the last progress and the last refresh of the cycle.
RetryAge(s) == IF s.last_refresh < s.progress THEN s.last_refresh ELSE s.progress

Refused(s) == [state |-> s, refresh |-> FALSE]
Issued(s) == [state |-> [s EXCEPT !.phase = "Recovering", !.last_refresh = 0], refresh |-> TRUE]

BlindRecovery(s) == IF Cooling(s) THEN Refused(s) ELSE Issued(Cleared(s))

ExhaustedDefect(s) == [Cleared(s) EXCEPT !.phase = "Healthy"]   \* does not rest
Exhausted(s) == [Cleared(s) EXCEPT !.cycle_cooldown = CYCLE_COOLDOWN, !.phase = "Healthy"]
ReissueDefect(s) ==   \* never gives the cycle up
    IF RetryAge(s) < RECOVERY_REISSUE_TIMEOUT THEN Refused(s)
    ELSE Issued([s EXCEPT !.reissues = IF @ < MAX_REISSUES THEN @ + 1 ELSE @])
Reissue(s) ==
    IF RetryAge(s) < RECOVERY_REISSUE_TIMEOUT THEN Refused(s)
    ELSE IF s.reissues >= MAX_REISSUES THEN Refused(Exhausted(s))
    ELSE Issued([s EXCEPT !.reissues = @ + 1])

NewCycle(s) ==
    LET healthy == [Cleared(s) EXCEPT !.phase = "Healthy"]
    IN  IF s.cycle_cooldown > 0 \/ s.host_highest_sent = 0 \/ Cooling(s)
        THEN Refused(healthy)
        ELSE Issued([healthy EXCEPT !.cycle_cooldown = 0, !.target = s.host_highest_sent,
                                    !.progress = 0])

IssueRecovery(s) ==
    IF ~s.feedback_observed THEN BlindRecovery(s)
    ELSE IF Unresolved(s) THEN Reissue(s)
    ELSE NewCycle(s)

-----------------------------------------------------------------------------
(* What the connection reports to the controller *)

\* on_frame_sent, after a video frame was written to the stream
Sent(s, frame) ==
    IF s.stream_id # frame.stream_id THEN NewState(frame.stream_id, frame.frame_id)
    ELSE IF frame.frame_id <= s.host_highest_sent THEN s
    ELSE [s EXCEPT !.host_highest_sent = frame.frame_id, !.sent_advance = 0,
                   !.decode_pending = IF s.host_highest_sent <= s.highest_decoded THEN 0 ELSE @,
                   !.highest_sent = IF @ < frame.frame_id THEN frame.frame_id ELSE @]
OnFrameSent(frame) ==
    /\ delivery' = IF capable THEN Sent(delivery, frame) ELSE delivery
    /\ UNCHANGED <<capable, seen>>

\* video_feedback_regressed
Regressed(feedback) ==
    \/ feedback.stream_id < seen.stream_id
    \/ /\ feedback.stream_id = seen.stream_id
       /\ feedback.received < seen.received \/ feedback.decoded < seen.decoded

\* on_feedback
Received(s, feedback) ==
    LET own == IF s.stream_id = feedback.stream_id THEN s ELSE NewState(feedback.stream_id, 0)
    IN  [own EXCEPT !.feedback_observed = TRUE,
                    !.decode_pending = IF /\ feedback.received > own.highest_sent
                                          /\ own.highest_sent <= own.highest_decoded
                                       THEN 0 ELSE @,
                    !.highest_sent = IF @ < feedback.received THEN feedback.received ELSE @]
Decoded(s, decoded) ==
    LET advanced == [s EXCEPT !.highest_decoded = decoded, !.cycle_cooldown = 0,
                              !.progress = IF s.target # NoFrame THEN 0 ELSE @,
                              !.decode_pending = IF decoded >= s.host_highest_sent THEN PROGRESS_TIMEOUT ELSE 0]
    IN  IF s.target # NoFrame /\ decoded <= s.target THEN advanced
        ELSE [Cleared(advanced) EXCEPT !.phase = "Healthy"]
OnFeedback(feedback) ==
    LET received == Received(delivery, feedback)
    IN  IF feedback.decoded > received.highest_decoded
        THEN Decoded(received, feedback.decoded) ELSE received

\* handle_video_feedback.  An OptionMessage may also take the capability back, which turns
\* the controller off; no viewer of this repository does (client.rs always announces it).
HandleVideoFeedback(feedback) ==
    IF Regressed(feedback)
    THEN UNCHANGED deliveryVars
    ELSE /\ seen' = feedback /\ capable' = TRUE
         /\ delivery' = OnFeedback(feedback)

\* poll_recovery for the display
Stalled(s) ==
    \/ s.target # NoFrame
    \/ /\ s.host_highest_sent > s.highest_decoded
       /\ s.phase = "Starting" \/ s.host_highest_sent - s.highest_decoded > SLACK_FRAMES
       /\ s.decode_pending >= PROGRESS_TIMEOUT
       /\ ~s.feedback_observed \/ s.sent_advance < PROGRESS_TIMEOUT
PollRecovery ==
    /\ capable /\ delivery.stream_id # 0
    /\ delivery' = (IF Stalled(delivery) THEN IssueRecovery(delivery) ELSE Refused(delivery)).state
    /\ UNCHANGED <<capable, seen>>

\* handle_video_reference_refresh.  A strict request that a recent key frame covers is
\* accounted like one that reaches the service; an advisory one may be put off while
\* the congestion window is small (congested), and then leaves no trace.
Acceptable(request) ==
    /\ delivery.stream_id # 0 /\ delivery.stream_id = request.stream_id
    /\ ~delivery.feedback_observed \/ request.received > delivery.highest_decoded
PutOff(request, congested, result) ==
    result.refresh /\ ~request.strict /\ congested /\ result.state.reissues = 0
HandleReferenceRefresh(request, congested) ==
    LET result == IssueRecovery(delivery)
    IN  IF ~Acceptable(request) \/ PutOff(request, congested, result) THEN UNCHANGED deliveryVars
        ELSE delivery' = result.state /\ UNCHANGED <<capable, seen>>

\* One tick of the clock.
DeliveryTick ==
    /\ delivery' = [delivery EXCEPT !.decode_pending = Older(@, PROGRESS_TIMEOUT),
                                    !.sent_advance = Older(@, PROGRESS_TIMEOUT),
                                    !.last_refresh = Older(@, RECOVERY_REISSUE_TIMEOUT),
                                    !.progress = Older(@, RECOVERY_REISSUE_TIMEOUT),
                                    !.cycle_cooldown = IF @ > 0 THEN @ - 1 ELSE 0]
    /\ UNCHANGED <<capable, seen>>

DeliveryInit ==
    /\ capable \in BOOLEAN
    /\ delivery = NewState(0, 0)
    /\ seen = [stream_id |-> 0, received |-> 0, decoded |-> 0]
=============================================================================
