-------------------------- MODULE StartupRecovery --------------------------
(***************************************************************************)
(* Startup recovery of a viewer's display: client/startup_recovery.rs and  *)
(* the display's DisplayStartupState in client/io_loop.rs.  A display that *)
(* has not decoded anything asks for reference frames, then for new        *)
(* captures, and then reports failure.  There is one budget of requests    *)
(* for an activation, whatever streams the host starts in the meantime;    *)
(* only a decoded stream opens a new episode.                              *)
(*                                                                         *)
(* An Instant is its age in ticks, capped at the longest time it is        *)
(* compared with; a last try or action that never was is as old as the     *)
(* cap.  Frames carry stream and frame numbers (hosts that send 0 are not  *)
(* modelled).                                                              *)
(***************************************************************************)
EXTENDS Integers

CONSTANTS
    REFERENCE_INTERVAL, DECODE_GRACE, FIRST_CAPTURE_RETRY, CAPTURE_RETRY_INTERVAL,
    STARTUP_LIMIT,         \* times
    MAX_REFERENCES, MAX_CAPTURE_RETRIES,
    SCOPED                 \* support_video_reference_refresh of the peer

ASSUME IntervalAssumption ==
    /\ REFERENCE_INTERVAL \in Nat \ {0} /\ DECODE_GRACE \in Nat /\ CAPTURE_RETRY_INTERVAL \in Nat
    /\ DECODE_GRACE >= REFERENCE_INTERVAL
    /\ FIRST_CAPTURE_RETRY \in Nat /\ STARTUP_LIMIT \in Nat /\ STARTUP_LIMIT >= FIRST_CAPTURE_RETRY
ASSUME BudgetAssumption ==
    MAX_REFERENCES \in Nat /\ MAX_CAPTURE_RETRIES \in Nat /\ SCOPED \in BOOLEAN

VARIABLES
    display,    \* stream_id, received_frame_id and first_frame_received
    recovery    \* the StartupRecovery of the display

startupVars == <<display, recovery>>

NotYet == -1
Grows(age, cap) == IF age = NotYet \/ age >= cap THEN age ELSE age + 1
Within(age, time) == age # NotYet /\ age < time

AgesTo(cap) == {NotYet} \cup 0..cap
DisplayType == [stream_id : Nat, received : Nat, first_received : BOOLEAN]
RecoveryType ==
    [since : AgesTo(STARTUP_LIMIT), last_action : 0..DECODE_GRACE,
     last_try : 0..REFERENCE_INTERVAL, last_capture : AgesTo(CAPTURE_RETRY_INTERVAL),
     keyframe_at : AgesTo(DECODE_GRACE), references : 0..MAX_REFERENCES,
     captures : 0..MAX_CAPTURE_RETRIES, decoded : BOOLEAN, failed : BOOLEAN]

Fresh ==
    [since |-> NotYet, last_action |-> DECODE_GRACE, last_try |-> REFERENCE_INTERVAL, last_capture |-> NotYet,
     keyframe_at |-> NotYet, references |-> 0, captures |-> 0, decoded |-> FALSE,
     failed |-> FALSE]

Since(r) == [r EXCEPT !.since = IF @ = NotYet THEN 0 ELSE @]

-----------------------------------------------------------------------------
(* A frame arrives: begin_stream and observe_frame *)

Stale(frame) == frame.stream_id < display.stream_id
Changed(frame) == frame.stream_id # display.stream_id

NewStreamDefect(r) == Since(Fresh)   \* every stream brings a new budget
NewStream(r) == Since([(IF r.decoded THEN Fresh ELSE r) EXCEPT !.keyframe_at = NotYet])

KeyframeSeen(r, key) ==
    [Since(r) EXCEPT !.keyframe_at = IF key /\ @ = NotYet THEN 0 ELSE @]

\* A delta before the first key frame of the stream is dropped (WaitForKeyframe).
WaitsForKeyframe(frame) ==
    (Changed(frame) \/ ~display.first_received) /\ ~frame.key

\* What observe_frame leaves of a frame that is not stale.
DisplayAfter(frame) ==
    [stream_id |-> frame.stream_id,
     received |-> IF Changed(frame) \/ frame.frame_id > display.received
                  THEN frame.frame_id ELSE display.received,
     first_received |-> ~WaitsForKeyframe(frame)]
RecoveryAfter(frame) ==
    KeyframeSeen(IF Changed(frame) THEN NewStream(recovery) ELSE recovery, frame.key)

-----------------------------------------------------------------------------
(* recover_display_startup: the status timer, and every dropped delta *)

\* decoded, when the stream's feedback tracker has a decoded frame
Noted(r, has_decoded) ==
    IF has_decoded THEN [r EXCEPT !.decoded = TRUE, !.failed = FALSE] ELSE r

GivesUpDefect(r) ==   \* no limit of time: waits for requests the writer may never take
    r.captures >= MAX_CAPTURE_RETRIES /\ r.last_capture >= CAPTURE_RETRY_INTERVAL
GivesUp(r) ==
    \/ r.since >= STARTUP_LIMIT
    \/ r.captures >= MAX_CAPTURE_RETRIES /\ r.last_capture >= CAPTURE_RETRY_INTERVAL
MayReference(r, known) ==
    /\ known /\ SCOPED
    /\ r.references < MAX_REFERENCES
    /\ ~Within(r.keyframe_at, DECODE_GRACE)
    /\ ~Within(r.last_action, REFERENCE_INTERVAL)
MayCapture(r) ==
    /\ r.since >= FIRST_CAPTURE_RETRY
    /\ r.captures < MAX_CAPTURE_RETRIES
    /\ ~Within(r.last_capture, CAPTURE_RETRY_INTERVAL)
    /\ ~Within(r.last_action, DECODE_GRACE)

\* next
NextAction(r, known) ==
    IF r.decoded \/ r.failed THEN "none"
    ELSE IF GivesUp(Since(r)) THEN "Failed"
    ELSE IF Within(r.last_try, REFERENCE_INTERVAL) THEN "none"
    ELSE IF MayReference(r, known) THEN "Reference"
    ELSE IF MayCapture(Since(r)) THEN "Capture"
    ELSE "none"

\* attempted, and admitted when the writer took the message
Admitted(r, action) ==
    [r EXCEPT !.last_action = 0,
              !.references = IF action = "Reference" THEN @ + 1 ELSE @,
              !.captures = IF action = "Capture" THEN @ + 1 ELSE @,
              !.last_capture = IF action = "Capture" THEN 0 ELSE @]
After(r, action, admitted) ==
    LET timed == IF r.decoded \/ r.failed THEN r ELSE Since(r)
        tried == [timed EXCEPT !.last_try = 0]
    IN  CASE action = "none" -> timed
          [] action = "Failed" -> [timed EXCEPT !.failed = TRUE]
          [] OTHER -> IF admitted THEN Admitted(tried, action) ELSE tried

\* One tick of the clock.
StartupTick ==
    /\ recovery' = [recovery EXCEPT !.since = Grows(@, STARTUP_LIMIT),
                                    !.last_action = Grows(@, DECODE_GRACE),
                                    !.last_try = Grows(@, REFERENCE_INTERVAL),
                                    !.last_capture = Grows(@, CAPTURE_RETRY_INTERVAL),
                                    !.keyframe_at = Grows(@, DECODE_GRACE)]
    /\ UNCHANGED display

StartupInit ==
    /\ display = [stream_id |-> 0, received |-> 0, first_received |-> FALSE]
    /\ recovery = Fresh
=============================================================================
