------------------------- MODULE VideoStartupProofs -------------------------
(***************************************************************************)
(* Proofs about VideoStartup: both ends keep their types, the viewer's     *)
(* startup requests stay within one budget, and the host's controller      *)
(* does not flood the encoder, for any number of streams, frames and       *)
(* messages and for any budgets and times.                                 *)
(***************************************************************************)
EXTENDS VideoStartup, SequenceTheorems, TLAPS

-----------------------------------------------------------------------------
(* Sequences *)

LEMMA InsertAtType ==
    ASSUME NEW S, NEW s \in Seq(S), NEW e \in S, NEW i \in 1..(Len(s) + 1)
    PROVE  InsertAt(s, i, e) \in Seq(S) /\ Len(InsertAt(s, i, e)) = Len(s) + 1
<1> DEFINE a == SubSeq(s, 1, i - 1)
           b == SubSeq(s, i, Len(s))
<1>1. a \in Seq(S) /\ Len(a) = i - 1
  <2>1. \A j \in 1..(i - 1) : s[j] \in S
    BY ElementOfSeq
  <2> QED BY <2>1, SubSeqProperties
<1>2. b \in Seq(S) /\ Len(b) = Len(s) - i + 1
  <2>1. \A j \in i..Len(s) : s[j] \in S
    BY ElementOfSeq
  <2> QED BY <2>1, SubSeqProperties
<1>3. <<e>> \in Seq(S) /\ Len(<<e>>) = 1
  OBVIOUS
<1> HIDE DEF a, b
<1>4. a \o <<e>> \in Seq(S) /\ Len(a \o <<e>>) = i
  BY <1>1, <1>3, ConcatProperties
<1>5. (a \o <<e>>) \o b \in Seq(S) /\ Len((a \o <<e>>) \o b) = Len(s) + 1
  <2> DEFINE c == a \o <<e>>
  <2> HIDE DEF c
  <2>1. c \in Seq(S) /\ Len(c) = i
    BY <1>4 DEF c
  <2>2. c \o b \in Seq(S) /\ Len(c \o b) = Len(c) + Len(b)
    BY <1>2, <2>1, ConcatProperties
  <2>3. Len(s) \in Nat
    BY LenProperties
  <2> QED BY <1>2, <2>1, <2>2, <2>3 DEF c
<1> QED BY <1>5 DEF InsertAt, a, b

-----------------------------------------------------------------------------
(* The controller keeps the type of its state *)

LEMMA Times ==
    /\ PROGRESS_TIMEOUT \in Nat /\ RECOVERY_REISSUE_TIMEOUT \in Nat \ {0}
    /\ REFRESH_COOLDOWN \in Nat \ {0} /\ CYCLE_COOLDOWN \in Nat \ {0} /\ MAX_REISSUES \in Nat
  BY ProgressAssumption, CooldownAssumption, ReissueAssumption, CycleAssumption
     DEF RECOVERY_REISSUE_TIMEOUT

LEMMA NewStateType ==
    ASSUME NEW stream \in Nat, NEW frame \in Nat
    PROVE  NewState(stream, frame) \in StateType
  BY Times DEF NewState, StateType, NoFrame

LEMMA SetCycle ==
    ASSUME NEW s \in StateType, NEW a \in Nat, NEW b \in 0..MAX_REISSUES,
           NEW c \in 0..RECOVERY_REISSUE_TIMEOUT
    PROVE  [s EXCEPT !.target = a, !.reissues = b,
                     !.progress = c] \in StateType
<1> DEFINE t1 == [s EXCEPT !.target = a]
           t2 == [t1 EXCEPT !.reissues = b]
           t3 == [t2 EXCEPT !.progress = c]
<1>1. t1 \in StateType
  BY DEF StateType
<1> HIDE DEF t1
<1>2. t2 \in StateType
  BY <1>1 DEF StateType
<1> HIDE DEF t2
<1>3. t3 \in StateType
  BY <1>2 DEF StateType
<1> QED BY <1>3 DEF t1, t2

LEMMA SetRefreshed ==
    ASSUME NEW s \in StateType, NEW a \in {"Starting", "Healthy", "Recovering"}, NEW b \in 0..RECOVERY_REISSUE_TIMEOUT
    PROVE  [s EXCEPT !.phase = a,
                     !.last_refresh = b] \in StateType
<1> DEFINE t1 == [s EXCEPT !.phase = a]
           t2 == [t1 EXCEPT !.last_refresh = b]
<1>1. t1 \in StateType
  BY DEF StateType
<1> HIDE DEF t1
<1>2. t2 \in StateType
  BY <1>1 DEF StateType
<1> QED BY <1>2 DEF t1

LEMMA SetResting ==
    ASSUME NEW s \in StateType, NEW a \in 0..CYCLE_COOLDOWN, NEW b \in {"Starting", "Healthy", "Recovering"}
    PROVE  [s EXCEPT !.cycle_cooldown = a,
                     !.phase = b] \in StateType
<1> DEFINE t1 == [s EXCEPT !.cycle_cooldown = a]
           t2 == [t1 EXCEPT !.phase = b]
<1>1. t1 \in StateType
  BY DEF StateType
<1> HIDE DEF t1
<1>2. t2 \in StateType
  BY <1>1 DEF StateType
<1> QED BY <1>2 DEF t1

LEMMA SetAimed ==
    ASSUME NEW s \in StateType, NEW a \in 0..CYCLE_COOLDOWN, NEW b \in Nat,
           NEW c \in 0..RECOVERY_REISSUE_TIMEOUT
    PROVE  [s EXCEPT !.cycle_cooldown = a, !.target = b,
                     !.progress = c] \in StateType
<1> DEFINE t1 == [s EXCEPT !.cycle_cooldown = a]
           t2 == [t1 EXCEPT !.target = b]
           t3 == [t2 EXCEPT !.progress = c]
<1>1. t1 \in StateType
  BY DEF StateType
<1> HIDE DEF t1
<1>2. t2 \in StateType
  BY <1>1 DEF StateType
<1> HIDE DEF t2
<1>3. t3 \in StateType
  BY <1>2 DEF StateType
<1> QED BY <1>3 DEF t1, t2

LEMMA SetSent ==
    ASSUME NEW s \in StateType, NEW a \in Nat, NEW b \in 0..PROGRESS_TIMEOUT,
           NEW c \in 0..PROGRESS_TIMEOUT, NEW d \in Nat
    PROVE  [s EXCEPT !.host_highest_sent = a, !.sent_advance = b, !.decode_pending = c,
                     !.highest_sent = d] \in StateType
<1> DEFINE t1 == [s EXCEPT !.host_highest_sent = a]
           t2 == [t1 EXCEPT !.sent_advance = b]
           t3 == [t2 EXCEPT !.decode_pending = c]
           t4 == [t3 EXCEPT !.highest_sent = d]
<1>1. t1 \in StateType
  BY DEF StateType
<1> HIDE DEF t1
<1>2. t2 \in StateType
  BY <1>1 DEF StateType
<1> HIDE DEF t2
<1>3. t3 \in StateType
  BY <1>2 DEF StateType
<1> HIDE DEF t3
<1>4. t4 \in StateType
  BY <1>3 DEF StateType
<1> QED BY <1>4 DEF t1, t2, t3

LEMMA SetReceived ==
    ASSUME NEW s \in StateType, NEW a \in BOOLEAN, NEW b \in 0..PROGRESS_TIMEOUT,
           NEW c \in Nat
    PROVE  [s EXCEPT !.feedback_observed = a, !.decode_pending = b,
                     !.highest_sent = c] \in StateType
<1> DEFINE t1 == [s EXCEPT !.feedback_observed = a]
           t2 == [t1 EXCEPT !.decode_pending = b]
           t3 == [t2 EXCEPT !.highest_sent = c]
<1>1. t1 \in StateType
  BY DEF StateType
<1> HIDE DEF t1
<1>2. t2 \in StateType
  BY <1>1 DEF StateType
<1> HIDE DEF t2
<1>3. t3 \in StateType
  BY <1>2 DEF StateType
<1> QED BY <1>3 DEF t1, t2

LEMMA SetDecoded ==
    ASSUME NEW s \in StateType, NEW a \in Nat, NEW b \in 0..CYCLE_COOLDOWN,
           NEW c \in 0..RECOVERY_REISSUE_TIMEOUT, NEW d \in 0..PROGRESS_TIMEOUT
    PROVE  [s EXCEPT !.highest_decoded = a, !.cycle_cooldown = b, !.progress = c,
                     !.decode_pending = d] \in StateType
<1> DEFINE t1 == [s EXCEPT !.highest_decoded = a]
           t2 == [t1 EXCEPT !.cycle_cooldown = b]
           t3 == [t2 EXCEPT !.progress = c]
           t4 == [t3 EXCEPT !.decode_pending = d]
<1>1. t1 \in StateType
  BY DEF StateType
<1> HIDE DEF t1
<1>2. t2 \in StateType
  BY <1>1 DEF StateType
<1> HIDE DEF t2
<1>3. t3 \in StateType
  BY <1>2 DEF StateType
<1> HIDE DEF t3
<1>4. t4 \in StateType
  BY <1>3 DEF StateType
<1> QED BY <1>4 DEF t1, t2, t3

LEMMA SetAges ==
    ASSUME NEW s \in StateType, NEW a \in 0..PROGRESS_TIMEOUT, NEW b \in 0..PROGRESS_TIMEOUT,
           NEW c \in 0..RECOVERY_REISSUE_TIMEOUT, NEW d \in 0..RECOVERY_REISSUE_TIMEOUT,
           NEW e \in 0..CYCLE_COOLDOWN
    PROVE  [s EXCEPT !.decode_pending = a, !.sent_advance = b, !.last_refresh = c,
                     !.progress = d, !.cycle_cooldown = e] \in StateType
<1> DEFINE t1 == [s EXCEPT !.decode_pending = a]
           t2 == [t1 EXCEPT !.sent_advance = b]
           t3 == [t2 EXCEPT !.last_refresh = c]
           t4 == [t3 EXCEPT !.progress = d]
           t5 == [t4 EXCEPT !.cycle_cooldown = e]
<1>1. t1 \in StateType
  BY DEF StateType
<1> HIDE DEF t1
<1>2. t2 \in StateType
  BY <1>1 DEF StateType
<1> HIDE DEF t2
<1>3. t3 \in StateType
  BY <1>2 DEF StateType
<1> HIDE DEF t3
<1>4. t4 \in StateType
  BY <1>3 DEF StateType
<1> HIDE DEF t4
<1>5. t5 \in StateType
  BY <1>4 DEF StateType
<1> QED BY <1>5 DEF t1, t2, t3, t4

LEMMA ClearedType ==
    ASSUME NEW s \in StateType
    PROVE  Cleared(s) \in StateType
<1>1. NoFrame \in Nat /\ 0 \in 0..MAX_REISSUES
      /\ RECOVERY_REISSUE_TIMEOUT \in 0..RECOVERY_REISSUE_TIMEOUT
  BY Times DEF NoFrame
<1> QED BY <1>1, SetCycle DEF Cleared

LEMMA HealthyType ==
    ASSUME NEW s \in StateType
    PROVE  [s EXCEPT !.phase = "Healthy"] \in StateType
  BY DEF StateType

LEMMA IssueType ==
    ASSUME NEW s \in StateType
    PROVE  IssueRecovery(s).state \in StateType
<1>1. /\ 0 \in 0..RECOVERY_REISSUE_TIMEOUT /\ 0 \in 0..CYCLE_COOLDOWN
      /\ CYCLE_COOLDOWN \in 0..CYCLE_COOLDOWN
      /\ "Recovering" \in {"Starting", "Healthy", "Recovering"}
      /\ "Healthy" \in {"Starting", "Healthy", "Recovering"}
  BY Times
<1>2. ASSUME NEW t \in StateType PROVE Issued(t).state \in StateType /\ Refused(t).state = t
  BY <1>1, SetRefreshed DEF Issued, Refused
<1>3. BlindRecovery(s).state \in StateType
  BY ClearedType, <1>2 DEF BlindRecovery
<1>4. Exhausted(s) \in StateType
  BY <1>1, ClearedType, SetResting DEF Exhausted
<1>5. Reissue(s).state \in StateType
  <2>1. CASE RetryAge(s) < RECOVERY_REISSUE_TIMEOUT
    BY <1>2, <2>1 DEF Reissue
  <2>2. CASE ~(RetryAge(s) < RECOVERY_REISSUE_TIMEOUT) /\ s.reissues >= MAX_REISSUES
    BY <1>2, <1>4, <2>2 DEF Reissue
  <2>3. CASE ~(RetryAge(s) < RECOVERY_REISSUE_TIMEOUT) /\ ~(s.reissues >= MAX_REISSUES)
    <3>1. [s EXCEPT !.reissues = @ + 1] \in StateType
      BY <2>3, Times DEF StateType
    <3> QED BY <1>2, <2>3, <3>1 DEF Reissue
  <2> QED BY <2>1, <2>2, <2>3
<1>6. NewCycle(s).state \in StateType
  <2> DEFINE healthy == [Cleared(s) EXCEPT !.phase = "Healthy"]
  <2>1. healthy \in StateType
    BY ClearedType, HealthyType
  <2> HIDE DEF healthy
  <2>2. s.host_highest_sent \in Nat
    BY DEF StateType
  <2>3. [healthy EXCEPT !.cycle_cooldown = 0, !.target = s.host_highest_sent, !.progress = 0]
          \in StateType
    BY <1>1, <2>1, <2>2, SetAimed
  <2> QED BY <1>2, <2>1, <2>3 DEF NewCycle, healthy
<1> QED BY <1>3, <1>5, <1>6 DEF IssueRecovery

LEMMA SentType ==
    ASSUME NEW s \in StateType, NEW frame \in Frame
    PROVE  Sent(s, frame) \in StateType
<1>1. frame.stream_id \in Nat /\ frame.frame_id \in Nat
  BY BoundsAssumption DEF Frame
<1>2. CASE s.stream_id # frame.stream_id
  BY <1>1, <1>2, NewStateType DEF Sent
<1>3. CASE s.stream_id = frame.stream_id
  <2> DEFINE p == IF s.host_highest_sent <= s.highest_decoded THEN 0 ELSE s.decode_pending
             h == IF s.highest_sent < frame.frame_id THEN frame.frame_id ELSE s.highest_sent
  <2>1. p \in 0..PROGRESS_TIMEOUT /\ h \in Nat /\ 0 \in 0..PROGRESS_TIMEOUT
    BY <1>1, Times DEF StateType
  <2>2. [s EXCEPT !.host_highest_sent = frame.frame_id, !.sent_advance = 0,
                  !.decode_pending = p, !.highest_sent = h] \in StateType
    <3> HIDE DEF p, h
    <3> QED BY <2>1, <1>1, SetSent
  <2> QED BY <1>3, <2>2 DEF Sent
<1> QED BY <1>2, <1>3

Report == [stream_id : Nat, received : Nat, decoded : Nat]

LEMMA FeedbackType ==
    ASSUME NEW s \in StateType, NEW feedback \in Report
    PROVE  /\ Received(s, feedback) \in StateType
           /\ Decoded(s, feedback.decoded) \in StateType
<1>1. feedback.stream_id \in Nat /\ feedback.received \in Nat /\ feedback.decoded \in Nat
  BY DEF Report
<1>2. Received(s, feedback) \in StateType
  <2> DEFINE own == IF s.stream_id = feedback.stream_id THEN s
                    ELSE NewState(feedback.stream_id, 0)
             p == IF feedback.received > own.highest_sent /\ own.highest_sent <= own.highest_decoded
                  THEN 0 ELSE own.decode_pending
             h == IF own.highest_sent < feedback.received THEN feedback.received
                  ELSE own.highest_sent
  <2>1. own \in StateType
    BY <1>1, NewStateType
  <2> HIDE DEF own
  <2>2. p \in 0..PROGRESS_TIMEOUT /\ h \in Nat
    BY <1>1, <2>1, Times DEF StateType
  <2>3. [own EXCEPT !.feedback_observed = TRUE, !.decode_pending = p, !.highest_sent = h]
          \in StateType
    <3> HIDE DEF p, h
    <3> QED BY <2>1, <2>2, SetReceived
  <2> QED BY <2>3 DEF Received, own
<1>3. Decoded(s, feedback.decoded) \in StateType
  <2> DEFINE g == IF s.target # NoFrame THEN 0 ELSE s.progress
             p == IF feedback.decoded >= s.host_highest_sent THEN PROGRESS_TIMEOUT ELSE 0
             advanced == [s EXCEPT !.highest_decoded = feedback.decoded, !.cycle_cooldown = 0,
                                   !.progress = g, !.decode_pending = p]
  <2>1. g \in 0..RECOVERY_REISSUE_TIMEOUT /\ p \in 0..PROGRESS_TIMEOUT /\ 0 \in 0..CYCLE_COOLDOWN
    BY Times DEF StateType
  <2>2. advanced \in StateType
    <3> HIDE DEF g, p
    <3> QED BY <1>1, <2>1, SetDecoded
  <2>3. [Cleared(advanced) EXCEPT !.phase = "Healthy"] \in StateType
    <3> HIDE DEF advanced
    <3> QED BY <2>2, ClearedType, HealthyType
  <2> QED BY <2>2, <2>3 DEF Decoded
<1> QED BY <1>2, <1>3

LEMMA OnFeedbackType ==
    ASSUME NEW feedback \in Report, delivery \in StateType
    PROVE  OnFeedback(feedback) \in StateType
  BY FeedbackType DEF OnFeedback

LEMMA TickType ==
    ASSUME delivery \in StateType, DeliveryTick
    PROVE  delivery' \in StateType
<1> DEFINE a == Older(delivery.decode_pending, PROGRESS_TIMEOUT)
           b == Older(delivery.sent_advance, PROGRESS_TIMEOUT)
           c == Older(delivery.last_refresh, RECOVERY_REISSUE_TIMEOUT)
           d == Older(delivery.progress, RECOVERY_REISSUE_TIMEOUT)
           e == IF delivery.cycle_cooldown > 0 THEN delivery.cycle_cooldown - 1 ELSE 0
<1>1. /\ a \in 0..PROGRESS_TIMEOUT /\ b \in 0..PROGRESS_TIMEOUT
      /\ c \in 0..RECOVERY_REISSUE_TIMEOUT /\ d \in 0..RECOVERY_REISSUE_TIMEOUT
      /\ e \in 0..CYCLE_COOLDOWN
  BY Times DEF Older, StateType
<1>2. delivery' = [delivery EXCEPT !.decode_pending = a, !.sent_advance = b,
                     !.last_refresh = c, !.progress = d, !.cycle_cooldown = e]
  BY DEF DeliveryTick
<1> HIDE DEF a, b, c, d, e
<1> QED BY <1>1, <1>2, SetAges

-----------------------------------------------------------------------------
(* The viewer's recovery keeps its type, and its counters stay within the budget *)

LEMMA Limits ==
    /\ STARTUP_LIMIT \in Nat /\ DECODE_GRACE \in Nat /\ REFERENCE_INTERVAL \in Nat
    /\ CAPTURE_RETRY_INTERVAL \in Nat /\ MAX_REFERENCES \in Nat /\ MAX_CAPTURE_RETRIES \in Nat
  BY IntervalAssumption, BudgetAssumption

LEMMA SetNoted ==
    ASSUME NEW s \in RecoveryType, NEW a \in BOOLEAN, NEW b \in BOOLEAN
    PROVE  [s EXCEPT !.decoded = a,
                     !.failed = b] \in RecoveryType
<1> DEFINE t1 == [s EXCEPT !.decoded = a]
           t2 == [t1 EXCEPT !.failed = b]
<1>1. t1 \in RecoveryType
  BY DEF RecoveryType
<1> HIDE DEF t1
<1>2. t2 \in RecoveryType
  BY <1>1 DEF RecoveryType
<1> QED BY <1>2 DEF t1

LEMMA SetAdmitted ==
    ASSUME NEW s \in RecoveryType, NEW a \in 0..DECODE_GRACE, NEW b \in 0..MAX_REFERENCES,
           NEW c \in 0..MAX_CAPTURE_RETRIES, NEW d \in AgesTo(CAPTURE_RETRY_INTERVAL)
    PROVE  [s EXCEPT !.last_action = a, !.references = b, !.captures = c,
                     !.last_capture = d] \in RecoveryType
<1> DEFINE t1 == [s EXCEPT !.last_action = a]
           t2 == [t1 EXCEPT !.references = b]
           t3 == [t2 EXCEPT !.captures = c]
           t4 == [t3 EXCEPT !.last_capture = d]
<1>1. t1 \in RecoveryType
  BY DEF RecoveryType
<1> HIDE DEF t1
<1>2. t2 \in RecoveryType
  BY <1>1 DEF RecoveryType
<1> HIDE DEF t2
<1>3. t3 \in RecoveryType
  BY <1>2 DEF RecoveryType
<1> HIDE DEF t3
<1>4. t4 \in RecoveryType
  BY <1>3 DEF RecoveryType
<1> QED BY <1>4 DEF t1, t2, t3

LEMMA SetElapsed ==
    ASSUME NEW s \in RecoveryType, NEW a \in AgesTo(STARTUP_LIMIT), NEW b \in 0..DECODE_GRACE,
           NEW c \in 0..REFERENCE_INTERVAL, NEW d \in AgesTo(CAPTURE_RETRY_INTERVAL),
           NEW e \in AgesTo(DECODE_GRACE)
    PROVE  [s EXCEPT !.since = a, !.last_action = b, !.last_try = c,
                     !.last_capture = d, !.keyframe_at = e] \in RecoveryType
<1> DEFINE t1 == [s EXCEPT !.since = a]
           t2 == [t1 EXCEPT !.last_action = b]
           t3 == [t2 EXCEPT !.last_try = c]
           t4 == [t3 EXCEPT !.last_capture = d]
           t5 == [t4 EXCEPT !.keyframe_at = e]
<1>1. t1 \in RecoveryType
  BY DEF RecoveryType
<1> HIDE DEF t1
<1>2. t2 \in RecoveryType
  BY <1>1 DEF RecoveryType
<1> HIDE DEF t2
<1>3. t3 \in RecoveryType
  BY <1>2 DEF RecoveryType
<1> HIDE DEF t3
<1>4. t4 \in RecoveryType
  BY <1>3 DEF RecoveryType
<1> HIDE DEF t4
<1>5. t5 \in RecoveryType
  BY <1>4 DEF RecoveryType
<1> QED BY <1>5 DEF t1, t2, t3, t4

LEMMA SinceType ==
    ASSUME NEW r \in RecoveryType
    PROVE  /\ Since(r) \in RecoveryType
           /\ Since(r).references = r.references /\ Since(r).captures = r.captures
           /\ Since(r).decoded = r.decoded /\ Since(r).failed = r.failed
  BY Limits DEF Since, RecoveryType, AgesTo, NotYet

LEMMA FreshType == Fresh \in RecoveryType
  BY Limits DEF Fresh, RecoveryType, AgesTo, NotYet

\* What a frame leaves of the recovery: a new budget only after a decoded stream.
LEMMA RecoveryAfterType ==
    ASSUME recovery \in RecoveryType, NEW frame \in Frame
    PROVE  /\ RecoveryAfter(frame) \in RecoveryType
           /\ recovery.decoded \/ ( /\ RecoveryAfter(frame).references = recovery.references
                                    /\ RecoveryAfter(frame).captures = recovery.captures
                                    /\ ~RecoveryAfter(frame).decoded )
           /\ ~Changed(frame) => RecoveryAfter(frame).decoded = recovery.decoded
           /\ ~Changed(frame) => /\ RecoveryAfter(frame).references = recovery.references
                                 /\ RecoveryAfter(frame).captures = recovery.captures
<1> DEFINE base == IF recovery.decoded THEN Fresh ELSE recovery
           begun == [base EXCEPT !.keyframe_at = NotYet]
           r == IF Changed(frame) THEN NewStream(recovery) ELSE recovery
<1>1. /\ base \in RecoveryType
      /\ recovery.decoded \/ base = recovery
  BY FreshType
<1> HIDE DEF base
<1>2. /\ begun \in RecoveryType
      /\ begun.references = base.references /\ begun.captures = base.captures
      /\ begun.decoded = base.decoded
  BY <1>1 DEF RecoveryType, AgesTo
<1> HIDE DEF begun
<1>3. /\ NewStream(recovery) \in RecoveryType
      /\ recovery.decoded \/ ( /\ NewStream(recovery).references = recovery.references
                               /\ NewStream(recovery).captures = recovery.captures
                               /\ ~NewStream(recovery).decoded )
  BY <1>1, <1>2, SinceType DEF NewStream, base, begun
<1>4. /\ r \in RecoveryType
      /\ recovery.decoded \/ ( /\ r.references = recovery.references
                               /\ r.captures = recovery.captures /\ ~r.decoded )
      /\ ~Changed(frame) => r = recovery
  BY <1>3
<1> HIDE DEF r
<1>5. /\ KeyframeSeen(r, frame.key) \in RecoveryType
      /\ KeyframeSeen(r, frame.key).references = r.references
      /\ KeyframeSeen(r, frame.key).captures = r.captures
      /\ KeyframeSeen(r, frame.key).decoded = r.decoded
  <2> DEFINE q == Since(r)
  <2>1. /\ q \in RecoveryType /\ q.references = r.references /\ q.captures = r.captures
        /\ q.decoded = r.decoded
    BY <1>4, SinceType
  <2> HIDE DEF q
  <2>2. /\ [q EXCEPT !.keyframe_at = IF frame.key /\ @ = NotYet THEN 0 ELSE @] \in RecoveryType
        /\ \A k : /\ [q EXCEPT !.keyframe_at = k].references = q.references
                  /\ [q EXCEPT !.keyframe_at = k].captures = q.captures
                  /\ [q EXCEPT !.keyframe_at = k].decoded = q.decoded
    BY <2>1, Limits DEF RecoveryType, AgesTo
  <2> QED BY <2>1, <2>2 DEF KeyframeSeen, q
<1> QED BY <1>4, <1>5 DEF RecoveryAfter, r

\* What recover_display_startup leaves: a request is counted when the writer takes it.
LEMMA AfterType ==
    ASSUME NEW r \in RecoveryType, NEW known \in BOOLEAN, NEW admitted \in BOOLEAN,
           NEW action, action = NextAction(r, known)
    PROVE  /\ After(r, action, admitted) \in RecoveryType
           /\ After(r, action, admitted).decoded = r.decoded
           /\ After(r, action, admitted).references =
                 r.references + (IF admitted /\ action = "Reference" THEN 1 ELSE 0)
           /\ After(r, action, admitted).captures =
                 r.captures + (IF admitted /\ action = "Capture" THEN 1 ELSE 0)
<1> DEFINE timed == IF r.decoded \/ r.failed THEN r ELSE Since(r)
           tried == [timed EXCEPT !.last_try = 0]
           failed == [timed EXCEPT !.failed = TRUE]
<1>1. /\ timed \in RecoveryType /\ timed.decoded = r.decoded
      /\ timed.references = r.references /\ timed.captures = r.captures
  BY SinceType
<1> HIDE DEF timed
<1>2. /\ tried \in RecoveryType /\ tried.decoded = r.decoded
      /\ tried.references = r.references /\ tried.captures = r.captures
  BY <1>1, Limits DEF RecoveryType
<1>3. /\ failed \in RecoveryType /\ failed.decoded = r.decoded
      /\ failed.references = r.references /\ failed.captures = r.captures
  BY <1>1 DEF RecoveryType
<1> HIDE DEF tried, failed
<1>4. r.references \in Nat /\ r.captures \in Nat
  BY Limits DEF RecoveryType
<1>5. /\ action \in {"none", "Failed", "Reference", "Capture"}
      /\ action = "Reference" => r.references < MAX_REFERENCES
      /\ action = "Capture" => r.captures < MAX_CAPTURE_RETRIES
  BY SinceType DEF NextAction, MayReference, MayCapture
<1>6. ASSUME admitted, action \in {"Reference", "Capture"}
      PROVE  /\ Admitted(tried, action) \in RecoveryType
             /\ Admitted(tried, action).decoded = r.decoded
             /\ Admitted(tried, action).references =
                   r.references + (IF action = "Reference" THEN 1 ELSE 0)
             /\ Admitted(tried, action).captures =
                   r.captures + (IF action = "Capture" THEN 1 ELSE 0)
  <2> DEFINE n == IF action = "Reference" THEN tried.references + 1 ELSE tried.references
             c == IF action = "Capture" THEN tried.captures + 1 ELSE tried.captures
             l == IF action = "Capture" THEN 0 ELSE tried.last_capture
             t == [tried EXCEPT !.last_action = 0, !.references = n, !.captures = c,
                                !.last_capture = l]
  <2>1. /\ n \in 0..MAX_REFERENCES /\ c \in 0..MAX_CAPTURE_RETRIES
        /\ l \in AgesTo(CAPTURE_RETRY_INTERVAL) /\ 0 \in 0..DECODE_GRACE
    BY <1>2, <1>4, <1>5, <1>6, Limits DEF RecoveryType, AgesTo
  <2>2. t \in RecoveryType
    <3> HIDE DEF n, c, l
    <3> QED BY <1>2, <2>1, SetAdmitted
  <2>3. t.decoded = tried.decoded /\ t.references = n /\ t.captures = c
    <3> HIDE DEF n, c, l
    <3> QED BY <1>2 DEF RecoveryType
  <2>4. Admitted(tried, action) = t
    BY DEF Admitted
  <2> HIDE DEF t
  <2> QED BY <1>2, <1>4, <1>6, <2>2, <2>3, <2>4
<1>7. CASE action \in {"Reference", "Capture"} /\ admitted
  <2>1. After(r, action, admitted) = Admitted(tried, action)
    BY <1>7 DEF After, tried, timed
  <2> QED BY <1>6, <1>7, <2>1
<1>8. CASE action \in {"Reference", "Capture"} /\ ~admitted
  <2>1. After(r, action, admitted) = tried
    BY <1>8 DEF After, tried, timed
  <2> QED BY <1>2, <1>4, <1>8, <2>1
<1>9. CASE action = "none"
  <2>1. After(r, action, admitted) = timed
    BY <1>9 DEF After, timed
  <2> QED BY <1>1, <1>4, <1>9, <2>1
<1>10. CASE action = "Failed"
  <2>1. After(r, action, admitted) = failed
    BY <1>10 DEF After, failed, timed
  <2> QED BY <1>3, <1>4, <1>10, <2>1
<1> QED BY <1>5, <1>7, <1>8, <1>9, <1>10

LEMMA NotedType ==
    ASSUME NEW r \in RecoveryType, NEW has_decoded \in BOOLEAN
    PROVE  /\ Noted(r, has_decoded) \in RecoveryType
           /\ Noted(r, has_decoded).references = r.references
           /\ Noted(r, has_decoded).captures = r.captures
           /\ Noted(r, has_decoded).decoded = (r.decoded \/ has_decoded)
<1>1. CASE has_decoded
  <2> DEFINE t == [r EXCEPT !.decoded = TRUE, !.failed = FALSE]
  <2>1. t \in RecoveryType
    BY SetNoted
  <2>2. t.references = r.references /\ t.captures = r.captures /\ t.decoded = TRUE
    BY DEF RecoveryType
  <2> QED BY <1>1, <2>1, <2>2 DEF Noted
<1>2. CASE ~has_decoded
  BY <1>2 DEF Noted, RecoveryType
<1> QED BY <1>1, <1>2

LEMMA StartupTickType ==
    ASSUME recovery \in RecoveryType, StartupTick
    PROVE  /\ recovery' \in RecoveryType
           /\ recovery'.references = recovery.references
           /\ recovery'.captures = recovery.captures /\ recovery'.decoded = recovery.decoded
<1> DEFINE a == Grows(recovery.since, STARTUP_LIMIT)
           b == Grows(recovery.last_action, DECODE_GRACE)
           c == Grows(recovery.last_try, REFERENCE_INTERVAL)
           d == Grows(recovery.last_capture, CAPTURE_RETRY_INTERVAL)
           e == Grows(recovery.keyframe_at, DECODE_GRACE)
           t == [recovery EXCEPT !.since = a, !.last_action = b, !.last_try = c,
                                 !.last_capture = d, !.keyframe_at = e]
<1>1. /\ a \in AgesTo(STARTUP_LIMIT) /\ b \in 0..DECODE_GRACE /\ c \in 0..REFERENCE_INTERVAL
      /\ d \in AgesTo(CAPTURE_RETRY_INTERVAL) /\ e \in AgesTo(DECODE_GRACE)
  BY Limits DEF Grows, RecoveryType, AgesTo, NotYet
<1>2. recovery' = t
  BY DEF StartupTick
<1> HIDE DEF a, b, c, d, e
<1>3. t \in RecoveryType
  BY <1>1, SetElapsed
<1>4. t.references = recovery.references /\ t.captures = recovery.captures
      /\ t.decoded = recovery.decoded
  BY DEF RecoveryType
<1> QED BY <1>2, <1>3, <1>4

-----------------------------------------------------------------------------
(* Types *)

LEMMA Bounds ==
    /\ MaxStreams \in Nat \ {0} /\ MaxFrame \in Nat \ {0}
    /\ MaxInFlight \in Nat \ {0} /\ MaxControl \in Nat \ {0}
  BY BoundsAssumption

LEMMA InitType == Init => TypeOK
<1> SUFFICES ASSUME Init PROVE TypeOK
  OBVIOUS
<1>1. capable \in BOOLEAN /\ delivery \in StateType
      /\ seen \in [stream_id : Nat, received : Nat, decoded : Nat]
  BY NewStateType DEF Init, DeliveryInit
<1>2. display \in DisplayType /\ recovery \in RecoveryType
  BY FreshType DEF Init, StartupInit, DisplayType
<1>3. /\ service \in [stream : 1..MaxStreams, next : 1..(MaxFrame + 1)]
      /\ frames \in Seq(Frame) /\ Len(frames) <= MaxInFlight
      /\ control \in Seq(Message) /\ Len(control) <= MaxControl
      /\ tracker \in [stream_id : Nat, received : Nat, decoded : Nat]
  BY Bounds DEF Init, NoTracker
<1> QED BY <1>1, <1>2, <1>3 DEF TypeOK

\* The two sequences, one step at a time.
LEMMA Arrives ==
    ASSUME NEW S, NEW q \in Seq(S), q # <<>>
    PROVE  Head(q) \in S /\ Tail(q) \in Seq(S) /\ Len(Tail(q)) = Len(q) - 1 /\ Len(q) \in Nat
  BY HeadTailProperties, LenProperties

LEMMA MessageKinds ==
    ASSUME NEW m \in Message
    PROVE  /\ m.kind = "feedback" => m \in Feedback
           /\ m.kind = "reference" => m \in Request
  BY DEF Message, Feedback, Request, Refresh

\* A step of the recovery ladder for display state d and recovery r.
LEMMA RecoverFromType ==
    ASSUME TypeOK, NEW r \in RecoveryType, NEW d \in DisplayType, RecoverFrom(r, d)
    PROVE  /\ recovery' \in RecoveryType
           /\ control' \in Seq(Message) /\ Len(control') <= MaxControl
<1> DEFINE has == tracker.stream_id = d.stream_id /\ tracker.decoded # 0
           known == d.stream_id # 0 /\ d.received # 0
           noted == Noted(r, has)
           action == NextAction(noted, known)
           message == IF action = "Reference"
                      THEN [kind |-> "reference", stream_id |-> d.stream_id,
                            received |-> d.received, strict |-> TRUE]
                      ELSE Refresh
<1>1. has \in BOOLEAN /\ known \in BOOLEAN
  OBVIOUS
<1>2. message \in Message
  BY DEF Message, Request, DisplayType
<1>3. \/ /\ recovery' = After(noted, action, FALSE)
         /\ UNCHANGED <<control, spent>>
      \/ /\ Room
         /\ recovery' = After(noted, action, TRUE)
         /\ \E i \in 1..(Len(control) + 1) : control' = InsertAt(control, i, message)
  BY DEF RecoverFrom
<1> HIDE DEF message, has, known
<1>4. noted \in RecoveryType
  BY <1>1, NotedType
<1> HIDE DEF noted
<1>5. After(noted, action, FALSE) \in RecoveryType /\ After(noted, action, TRUE) \in RecoveryType
  BY <1>1, <1>4, AfterType
<1> HIDE DEF action
<1>6. ASSUME Room, NEW i \in 1..(Len(control) + 1), control' = InsertAt(control, i, message)
      PROVE  control' \in Seq(Message) /\ Len(control') <= MaxControl
  <2>1. control \in Seq(Message) /\ Len(control) \in Nat
    BY LenProperties DEF TypeOK
  <2>2. control' \in Seq(Message) /\ Len(control') = Len(control) + 1
    BY <1>2, <1>6, <2>1, InsertAtType
  <2> QED BY <1>6, <2>1, <2>2, Bounds DEF Room
<1> QED BY <1>3, <1>5, <1>6 DEF TypeOK

LEMMA SendFeedbackType ==
    ASSUME TypeOK, NEW t \in Report, NEW force, SendFeedback(t, force)
    PROVE  control' \in Seq(Message) /\ Len(control') <= MaxControl
<1>1. FeedbackOf(t) \in Message
  BY DEF FeedbackOf, Message, Feedback, Report
<1>2. control \in Seq(Message) /\ Len(control) \in Nat /\ Len(control) <= MaxControl
  BY LenProperties DEF TypeOK
<1>3. CASE Room /\ control' = Append(control, FeedbackOf(t))
  BY <1>1, <1>2, <1>3, AppendProperties, Bounds DEF Room
<1> QED BY <1>2, <1>3 DEF SendFeedback

LEMMA SendFrameType == ASSUME TypeOK, NEW key \in BOOLEAN, SendFrame(key) PROVE TypeOK'
<1> DEFINE frame == [stream_id |-> service.stream, frame_id |-> service.next, key |-> key]
<1>1. frame \in Frame
  BY Bounds DEF TypeOK, SendFrame, Frame
<1>2. service' \in [stream : 1..MaxStreams, next : 1..(MaxFrame + 1)]
  <2>1. service \in [stream : 1..MaxStreams, next : 1..(MaxFrame + 1)]
    BY DEF TypeOK
  <2>2. service.next <= MaxFrame /\ service' = [service EXCEPT !.next = @ + 1]
    BY DEF SendFrame
  <2> QED BY <2>1, <2>2, Bounds
<1>3. frames' = Append(frames, frame) /\ Len(frames) < MaxInFlight
      /\ delivery' = (IF capable THEN Sent(delivery, frame) ELSE delivery)
      /\ UNCHANGED <<capable, seen, display, recovery, control, tracker>>
  BY DEF SendFrame, OnFrameSent, startupVars
<1> HIDE DEF frame
<1>4. frames' \in Seq(Frame) /\ Len(frames') <= MaxInFlight
  BY <1>1, <1>3, AppendProperties, LenProperties, Bounds DEF TypeOK
<1>5. delivery' \in StateType
  BY <1>1, <1>3, SentType DEF TypeOK
<1> QED BY <1>2, <1>3, <1>4, <1>5 DEF TypeOK

LEMMA NewRunType == ASSUME TypeOK, NewRun PROVE TypeOK'
<1>1. service' \in [stream : 1..MaxStreams, next : 1..(MaxFrame + 1)]
  <2>1. service \in [stream : 1..MaxStreams, next : 1..(MaxFrame + 1)]
    BY DEF TypeOK
  <2>2. /\ service.stream < MaxStreams
        /\ service' = [service EXCEPT !.stream = @ + 1, !.next = 1]
    BY DEF NewRun
  <2>3. service' = [stream |-> service.stream + 1, next |-> 1]
    BY <2>1, <2>2
  <2> QED BY <2>1, <2>2, <2>3, Bounds
<1> QED BY <1>1 DEF TypeOK, NewRun, deliveryVars, startupVars

LEMMA RequestDelivery ==
    ASSUME NEW request, NEW congested, HandleReferenceRefresh(request, congested)
    PROVE  /\ delivery' \in {delivery, IssueRecovery(delivery).state}
           /\ UNCHANGED <<capable, seen>>
  BY DEF HandleReferenceRefresh, deliveryVars

LEMMA HandleControlType == ASSUME TypeOK, HandleControl PROVE TypeOK'
<1> DEFINE message == Head(control)
<1>1. message \in Message /\ Tail(control) \in Seq(Message)
      /\ Len(Tail(control)) = Len(control) - 1 /\ Len(control) \in Nat
  BY Arrives DEF TypeOK, HandleControl
<1>2. control' \in Seq(Message) /\ Len(control') <= MaxControl
  BY <1>1, Bounds DEF TypeOK, HandleControl
<1>3. UNCHANGED <<display, recovery, service, frames, tracker>>
  BY DEF HandleControl, startupVars
<1>4. capable' \in BOOLEAN /\ delivery' \in StateType
      /\ seen' \in [stream_id : Nat, received : Nat, decoded : Nat]
  <2> HIDE DEF message
  <2>1. CASE message.kind = "feedback"
             /\ HandleVideoFeedback([stream_id |-> message.stream_id,
                                     received |-> message.received, decoded |-> message.decoded])
    <3> DEFINE feedback == [stream_id |-> message.stream_id, received |-> message.received,
                            decoded |-> message.decoded]
    <3>1. feedback \in Report
      BY <1>1, <2>1, MessageKinds DEF Feedback, Report
    <3> HIDE DEF feedback
    <3>2. HandleVideoFeedback(feedback)
      BY <2>1 DEF feedback
    <3> QED BY <3>1, <3>2, OnFeedbackType DEF HandleVideoFeedback, deliveryVars, TypeOK, Report
  <2>2. CASE \E congested \in BOOLEAN : HandleReferenceRefresh(message, congested)
    BY <2>2, RequestDelivery, IssueType DEF TypeOK
  <2>3. CASE UNCHANGED deliveryVars
    BY <2>3 DEF deliveryVars, TypeOK
  <2> QED BY <2>1, <2>2, <2>3 DEF HandleControl, message
<1> QED BY <1>2, <1>3, <1>4 DEF TypeOK

LEMMA PollType == ASSUME TypeOK, Poll PROVE TypeOK'
<1>1. delivery' \in StateType
  BY IssueType DEF TypeOK, Poll, PollRecovery, Refused
<1> QED BY <1>1 DEF TypeOK, Poll, PollRecovery, startupVars, network

LEMMA RecoverType == ASSUME TypeOK, RecoverDisplayStartup PROVE TypeOK'
<1>1. recovery' \in RecoveryType /\ control' \in Seq(Message) /\ Len(control') <= MaxControl
  BY RecoverFromType DEF TypeOK, RecoverDisplayStartup
<1> QED BY <1>1 DEF TypeOK, RecoverDisplayStartup, deliveryVars

\* A frame handed to the video thread.
LEMMA AcceptType ==
    ASSUME TypeOK, NEW frame \in Frame, Accept(frame)
    PROVE  /\ tracker' \in Report /\ recovery' \in RecoveryType
           /\ control' \in Seq(Message) /\ Len(control') <= MaxControl
<1>1. frame.stream_id \in Nat /\ frame.frame_id \in Nat
  BY Bounds DEF Frame
<1>2. tracker' \in Report
  BY <1>1 DEF Accept, TypeOK, NoTracker, Report
<1>3. control' \in Seq(Message) /\ Len(control') <= MaxControl
  BY <1>2, SendFeedbackType DEF Accept
<1>4. recovery' \in RecoveryType
  BY RecoveryAfterType DEF Accept, TypeOK
<1> QED BY <1>2, <1>3, <1>4

LEMMA DisplayAfterType ==
    ASSUME display \in DisplayType, NEW frame \in Frame
    PROVE  DisplayAfter(frame) \in DisplayType
  BY Bounds DEF DisplayAfter, DisplayType, Frame, WaitsForKeyframe, Changed

LEMMA ReceiveType == ASSUME TypeOK, Receive PROVE TypeOK'
<1> DEFINE frame == Head(frames)
<1>1. frame \in Frame /\ frames' \in Seq(Frame) /\ Len(frames') <= MaxInFlight
  BY Arrives, Bounds DEF TypeOK, Receive
<1>2. UNCHANGED <<capable, delivery, seen, service>>
  BY DEF Receive, deliveryVars
<1>3. /\ display' \in DisplayType /\ recovery' \in RecoveryType /\ tracker' \in Report
      /\ control' \in Seq(Message) /\ Len(control') <= MaxControl
  <2> HIDE DEF frame
  <2>1. CASE UNCHANGED <<display, recovery, control, tracker, spent>>
    BY <2>1 DEF TypeOK, Report
  <2>2. CASE display' = DisplayAfter(frame) /\ Accept(frame)
    BY <1>1, <2>2, DisplayAfterType, AcceptType DEF TypeOK
  <2>3. CASE /\ display' = DisplayAfter(frame)
             /\ RecoverFrom(RecoveryAfter(frame), DisplayAfter(frame))
             /\ UNCHANGED tracker
    BY <1>1, <2>3, DisplayAfterType, RecoveryAfterType, RecoverFromType DEF TypeOK, Report
  <2> QED BY <2>1, <2>2, <2>3 DEF Receive, frame
<1> QED BY <1>1, <1>2, <1>3 DEF TypeOK, Report

LEMMA LoseFrameType == ASSUME TypeOK, LoseFrame PROVE TypeOK'
<1>1. frames' \in Seq(Frame) /\ Len(frames') <= MaxInFlight
  BY Arrives, Bounds DEF TypeOK, LoseFrame
<1> QED BY <1>1 DEF TypeOK, LoseFrame, deliveryVars, startupVars

LEMMA DecodeType == ASSUME TypeOK, Decode PROVE TypeOK'
<1>1. tracker' \in Report
  <2>1. PICK id \in (tracker.decoded + 1)..tracker.received :
              tracker' = [tracker EXCEPT !.decoded = id]
    BY DEF Decode
  <2>2. tracker \in Report
    BY DEF TypeOK, Report
  <2> QED BY <2>1, <2>2 DEF Report
<1>2. control' \in Seq(Message) /\ Len(control') <= MaxControl
  BY <1>1, SendFeedbackType DEF Decode
<1> QED BY <1>1, <1>2 DEF TypeOK, Decode, deliveryVars, startupVars, Report

LEMMA AdvisoryType == ASSUME TypeOK, RequestAdvisory PROVE TypeOK'
<1> DEFINE request == [kind |-> "reference", stream_id |-> tracker.stream_id,
                       received |-> tracker.received, strict |-> FALSE]
<1>1. request \in Message
  BY DEF TypeOK, Message, Request
<1>2. control' = Append(control, request) /\ Room
  BY DEF RequestAdvisory
<1> HIDE DEF request
<1>3. control' \in Seq(Message) /\ Len(control') <= MaxControl
  BY <1>1, <1>2, AppendProperties, LenProperties, Bounds DEF TypeOK, Room
<1> QED BY <1>3 DEF TypeOK, RequestAdvisory, deliveryVars, startupVars

LEMMA ClockType == ASSUME TypeOK, Clock PROVE TypeOK'
<1>1. delivery' \in StateType /\ recovery' \in RecoveryType
  BY TickType, StartupTickType DEF TypeOK, Clock
<1> QED BY <1>1 DEF TypeOK, Clock, DeliveryTick, StartupTick, network

LEMMA NextType == TypeOK /\ [Next]_vars => TypeOK'
<1> SUFFICES ASSUME TypeOK, [Next]_vars PROVE TypeOK'
  OBVIOUS
<1>1. CASE UNCHANGED vars
  BY <1>1 DEF TypeOK, vars, deliveryVars, startupVars, network
<1>2. CASE Step
  BY <1>2, SendFrameType, NewRunType, HandleControlType, PollType, RecoverType, ReceiveType,
     LoseFrameType, DecodeType, AdvisoryType, ClockType DEF Step
<1> QED BY <1>1, <1>2 DEF Next

\* Both ends of a starting stream keep the types of their state: no recovery cycle is
\* repeated more often than MAX_REISSUES times, no counter of the viewer leaves its budget.
THEOREM TypesHold == Spec => []TypeOK
  BY InitType, NextType, PTL DEF Spec

-----------------------------------------------------------------------------
(* The viewer's budget.  What was spent since the last decode is counted by the      *)
(* recovery; the recovery forgets its counts only after it noted a decode, and then  *)
(* nothing was spent.  The video thread never is ahead of the display.               *)

Unspent == spent = [references |-> 0, captures |-> 0]
Shown(d) == tracker.stream_id = d.stream_id /\ tracker.decoded # 0
Counted(r) ==
    /\ spent \in [references : Nat, captures : Nat]
    /\ spent.references <= r.references /\ spent.captures <= r.captures
    /\ r.decoded => Unspent
BudgetInv ==
    /\ Counted(recovery)
    /\ Shown(display) => Unspent
    /\ tracker.stream_id <= display.stream_id

LEMMA RecoverFromBudget ==
    ASSUME TypeOK, NEW r \in RecoveryType, NEW d \in DisplayType, RecoverFrom(r, d),
           Counted(r), Shown(d) => Unspent
    PROVE  /\ spent' \in [references : Nat, captures : Nat]
           /\ spent'.references <= recovery'.references /\ spent'.captures <= recovery'.captures
           /\ recovery'.decoded => Unspent'
           /\ Shown(d) => Unspent'
<1> DEFINE known == d.stream_id # 0 /\ d.received # 0
           noted == Noted(r, Shown(d))
           action == NextAction(noted, known)
           n == IF action = "Reference" THEN 1 ELSE 0
           c == IF action = "Capture" THEN 1 ELSE 0
<1>1. Shown(d) \in BOOLEAN /\ known \in BOOLEAN
  BY DEF Shown
<1>2. \/ /\ recovery' = After(noted, action, FALSE)
         /\ UNCHANGED spent
      \/ /\ action \in {"Reference", "Capture"}
         /\ recovery' = After(noted, action, TRUE)
         /\ spent' = [spent EXCEPT !.references = @ + n, !.captures = @ + c]
  BY DEF RecoverFrom, Shown
<1> HIDE DEF known
<1>3. /\ noted \in RecoveryType /\ noted.references = r.references
      /\ noted.captures = r.captures /\ noted.decoded = (r.decoded \/ Shown(d))
  BY <1>1, NotedType
<1>4. action \in {"Reference", "Capture"} => ~noted.decoded
  BY DEF NextAction
<1> HIDE DEF noted
<1>5. /\ After(noted, action, FALSE).decoded = noted.decoded
      /\ After(noted, action, FALSE).references = noted.references + 0
      /\ After(noted, action, FALSE).captures = noted.captures + 0
      /\ After(noted, action, TRUE).decoded = noted.decoded
      /\ After(noted, action, TRUE).references = noted.references + n
      /\ After(noted, action, TRUE).captures = noted.captures + c
  BY <1>1, <1>3, AfterType
<1>6. r.references \in Nat /\ r.captures \in Nat /\ n \in Nat /\ c \in Nat
  BY Limits DEF RecoveryType
<1> HIDE DEF action, n, c
<1>7. CASE recovery' = After(noted, action, FALSE) /\ UNCHANGED spent
  <2>1. recovery'.references = r.references /\ recovery'.captures = r.captures
    <3>1. recovery'.references = r.references + 0 /\ recovery'.captures = r.captures + 0
      BY <1>3, <1>5, <1>7, Zenon
    <3> QED BY <1>6, <3>1
  <2>2. recovery'.decoded => r.decoded \/ Shown(d)
    BY <1>3, <1>5, <1>7, Zenon
  <2>3. Unspent => Unspent'
    BY <1>7 DEF Unspent
  <2>4. recovery'.decoded => Unspent'
    BY <2>2, <2>3, Zenon DEF Counted
  <2> QED BY <1>7, <2>1, <2>3, <2>4 DEF Counted
<1>8. CASE /\ action \in {"Reference", "Capture"}
           /\ recovery' = After(noted, action, TRUE)
           /\ spent' = [spent EXCEPT !.references = @ + n, !.captures = @ + c]
  <2>1. spent' = [references |-> spent.references + n, captures |-> spent.captures + c]
    BY <1>8 DEF Counted
  <2>2. /\ recovery'.references = r.references + n
        /\ recovery'.captures = r.captures + c
    BY <1>3, <1>5, <1>8
  <2>3. ~recovery'.decoded /\ ~Shown(d)
    BY <1>3, <1>4, <1>5, <1>8, Zenon
  <2>4. /\ spent' \in [references : Nat, captures : Nat]
        /\ spent'.references <= recovery'.references /\ spent'.captures <= recovery'.captures
    BY <1>6, <2>1, <2>2 DEF Counted
  <2> QED BY <2>3, <2>4, Zenon
<1> QED BY <1>2, <1>7, <1>8

LEMMA ReceiveBudget == ASSUME TypeOK, BudgetInv, Receive PROVE BudgetInv'
<1> DEFINE frame == Head(frames)
<1>1. frame \in Frame
  BY Arrives DEF TypeOK, Receive
<1>2. /\ frame.stream_id \in Nat /\ frame.frame_id \in Nat
      /\ display.stream_id \in Nat /\ tracker \in Report
  <2> HIDE DEF frame
  <2>1. frame.stream_id \in Nat /\ frame.frame_id \in Nat
    BY <1>1, Bounds DEF Frame
  <2>2. display.stream_id \in Nat
    BY DEF TypeOK, DisplayType
  <2>3. tracker \in Report
    BY DEF TypeOK, Report
  <2> QED BY <2>1, <2>2, <2>3
<1> HIDE DEF frame
<1>3. CASE UNCHANGED <<display, recovery, control, tracker, spent>>
  BY <1>3 DEF BudgetInv, Counted, Unspent, Shown
<1>4. RecoveryAfter(frame) \in RecoveryType /\ Counted(RecoveryAfter(frame))
  <2>1. CASE recovery.decoded
    <3>1. Unspent
      BY <2>1 DEF BudgetInv, Counted
    <3>2. RecoveryAfter(frame) \in RecoveryType
      BY <1>1, RecoveryAfterType DEF TypeOK
    <3> QED BY <3>1, <3>2, Limits DEF Counted, Unspent, RecoveryType
  <2>2. CASE ~recovery.decoded
    BY <1>1, <2>2, RecoveryAfterType DEF TypeOK, BudgetInv, Counted
  <2> QED BY <2>1, <2>2
<1>5. ASSUME ~Stale(frame)
      PROVE  /\ DisplayAfter(frame) \in DisplayType
             /\ DisplayAfter(frame).stream_id = frame.stream_id
             /\ tracker.stream_id <= frame.stream_id
             /\ tracker.stream_id = frame.stream_id => tracker.stream_id = display.stream_id
             /\ Shown(DisplayAfter(frame)) => Unspent
  <2>1. DisplayAfter(frame) \in DisplayType /\ DisplayAfter(frame).stream_id = frame.stream_id
    BY <1>1, DisplayAfterType DEF TypeOK, DisplayAfter
  <2>2. display.stream_id <= frame.stream_id /\ tracker.stream_id <= display.stream_id
    BY <1>2, <1>5 DEF Stale, BudgetInv
  <2> QED BY <1>2, <2>1, <2>2 DEF BudgetInv, Shown, Report
<1>6. CASE ~Stale(frame) /\ display' = DisplayAfter(frame) /\ Accept(frame)
  <2>1. recovery' = RecoveryAfter(frame) /\ spent' = spent
    BY <1>6 DEF Accept
  <2>2. /\ tracker'.stream_id = frame.stream_id
        /\ tracker'.decoded = IF tracker.stream_id = frame.stream_id THEN tracker.decoded ELSE 0
    BY <1>2, <1>6 DEF Accept, NoTracker, Report
  <2>3. Counted(recovery)'
    BY <1>4, <2>1 DEF Counted, Unspent
  <2>4. Shown(display)' => Unspent'
    BY <1>5, <1>6, <2>1, <2>2 DEF Shown, Unspent
  <2>5. tracker'.stream_id <= display'.stream_id
    BY <1>2, <1>5, <1>6, <2>2
  <2> QED BY <2>3, <2>4, <2>5 DEF BudgetInv
<1>7. CASE /\ ~Stale(frame) /\ display' = DisplayAfter(frame)
           /\ RecoverFrom(RecoveryAfter(frame), DisplayAfter(frame))
           /\ UNCHANGED tracker
  <2>1. /\ spent' \in [references : Nat, captures : Nat]
        /\ spent'.references <= recovery'.references /\ spent'.captures <= recovery'.captures
        /\ recovery'.decoded => Unspent'
        /\ Shown(DisplayAfter(frame)) => Unspent'
    BY <1>4, <1>5, <1>7, RecoverFromBudget
  <2>2. Counted(recovery)'
    BY <2>1 DEF Counted
  <2>3. Shown(display)' => Unspent'
    BY <1>7, <2>1 DEF Shown
  <2> QED BY <1>5, <1>7, <2>2, <2>3 DEF BudgetInv
<1> QED BY <1>3, <1>6, <1>7 DEF Receive, frame

LEMMA RecoverBudget == ASSUME TypeOK, BudgetInv, RecoverDisplayStartup PROVE BudgetInv'
<1>1. /\ spent' \in [references : Nat, captures : Nat]
      /\ spent'.references <= recovery'.references /\ spent'.captures <= recovery'.captures
      /\ recovery'.decoded => Unspent'
      /\ Shown(display) => Unspent'
  BY RecoverFromBudget DEF TypeOK, BudgetInv, RecoverDisplayStartup
<1> QED BY <1>1 DEF BudgetInv, Counted, Shown, RecoverDisplayStartup

LEMMA DecodeBudget == ASSUME TypeOK, BudgetInv, Decode PROVE BudgetInv'
<1>1. PICK id \in (tracker.decoded + 1)..tracker.received :
            tracker' = [tracker EXCEPT !.decoded = id]
  BY DEF Decode
<1>2. tracker'.stream_id = tracker.stream_id
  BY <1>1 DEF TypeOK
<1>3. Unspent' /\ UNCHANGED <<display, recovery>>
  BY DEF Decode, Unspent, startupVars
<1>4. recovery.references \in Nat /\ recovery.captures \in Nat
  BY Limits DEF TypeOK, RecoveryType
<1>5. Counted(recovery)'
  BY <1>3, <1>4 DEF Counted, Unspent
<1> QED BY <1>2, <1>3, <1>5 DEF BudgetInv

LEMMA ClockBudget == ASSUME TypeOK, BudgetInv, Clock PROVE BudgetInv'
<1>1. /\ recovery'.references = recovery.references
      /\ recovery'.captures = recovery.captures /\ recovery'.decoded = recovery.decoded
  BY StartupTickType DEF TypeOK, Clock
<1>2. UNCHANGED <<display, tracker, spent>>
  BY DEF Clock, StartupTick, network
<1> QED BY <1>1, <1>2 DEF BudgetInv, Counted, Shown, Unspent

\* Steps of the host and of the network leave the budget alone.
LEMMA OtherBudget ==
    ASSUME BudgetInv, UNCHANGED <<display, recovery, tracker, spent>>
    PROVE  BudgetInv'
  BY DEF BudgetInv, Counted, Shown, Unspent

LEMMA NextBudget == TypeOK /\ BudgetInv /\ [Next]_vars => BudgetInv'
<1> SUFFICES ASSUME TypeOK, BudgetInv, [Next]_vars PROVE BudgetInv'
  OBVIOUS
<1>1. CASE UNCHANGED vars
  BY <1>1, OtherBudget DEF vars, startupVars, network, history
<1>2. CASE \E key \in BOOLEAN : SendFrame(key)
  BY <1>2, OtherBudget DEF SendFrame, startupVars
<1>3. CASE NewRun \/ HandleControl \/ Poll \/ LoseFrame \/ RequestAdvisory
  BY <1>3, OtherBudget
     DEF NewRun, HandleControl, Poll, LoseFrame, RequestAdvisory, startupVars, network
<1> QED BY <1>1, <1>2, <1>3, ReceiveBudget, RecoverBudget, DecodeBudget, ClockBudget
        DEF Next, Step

LEMMA InitBudget == Init => BudgetInv
  BY Limits DEF Init, StartupInit, BudgetInv, Counted, Shown, Unspent, Fresh, NoTracker

\* However many streams a host starts and however the messages overtake each other, a
\* viewer that decodes nothing asks for at most MAX_REFERENCES reference frames and
\* MAX_CAPTURE_RETRIES captures (StartupRecovery of startup_recovery.rs).
THEOREM StartupBudgetHolds == Spec => []StartupBudget
<1>1. TypeOK /\ BudgetInv => StartupBudget
  <2> SUFFICES ASSUME TypeOK, BudgetInv PROVE StartupBudget
    OBVIOUS
  <2>1. recovery.references \in 0..MAX_REFERENCES /\ recovery.captures \in 0..MAX_CAPTURE_RETRIES
    BY DEF TypeOK, RecoveryType
  <2>2. /\ spent \in [references : Nat, captures : Nat]
        /\ spent.references <= recovery.references /\ spent.captures <= recovery.captures
    BY DEF BudgetInv, Counted
  <2> QED BY <2>1, <2>2, Limits DEF StartupBudget
<1> QED BY <1>1, InitType, NextType, InitBudget, NextBudget, PTL DEF Spec

-----------------------------------------------------------------------------
(* What the steps of the controller do to the fields that the storm depends on *)

\* issue_recovery: nothing, a blind refresh, the end of an exhausted cycle, a reissue,
\* the end of a resolved cycle, or a new cycle.
Identity(s, t) ==
    /\ t.stream_id = s.stream_id /\ t.host_highest_sent = s.host_highest_sent
    /\ t.highest_decoded = s.highest_decoded /\ t.feedback_observed = s.feedback_observed
Blind(s, t) ==
    ~s.feedback_observed /\ t.target = NoFrame /\ t.cycle_cooldown = s.cycle_cooldown
GivenUp(s, t) ==
    /\ s.feedback_observed /\ s.target # NoFrame /\ t.target = NoFrame
    /\ t.cycle_cooldown = CYCLE_COOLDOWN /\ t.last_refresh = s.last_refresh
Reissued(s, t) ==
    /\ s.feedback_observed /\ s.target # NoFrame /\ t.target = s.target
    /\ t.reissues = s.reissues + 1 /\ s.reissues < MAX_REISSUES
    /\ t.cycle_cooldown = s.cycle_cooldown
Settled(s, t) ==
    /\ s.feedback_observed /\ ~Unresolved(s) /\ t.target = NoFrame
    /\ t.cycle_cooldown = s.cycle_cooldown /\ t.last_refresh = s.last_refresh
Begins(s, t) ==
    /\ s.feedback_observed /\ ~Unresolved(s)
    /\ s.cycle_cooldown = 0 /\ t.cycle_cooldown = 0 /\ s.host_highest_sent # 0
    /\ t.target = s.host_highest_sent /\ t.reissues = 0

LEMMA IdentityTransitive ==
    ASSUME NEW r, NEW s, NEW t, Identity(r, s), Identity(s, t)
    PROVE  Identity(r, t)
  BY Zenon DEF Identity

LEMMA ClearedFields ==
    ASSUME NEW s \in StateType
    PROVE  /\ Identity(s, Cleared(s)) /\ Cleared(s).target = NoFrame /\ Cleared(s).reissues = 0
           /\ Cleared(s).cycle_cooldown = s.cycle_cooldown
           /\ Cleared(s).last_refresh = s.last_refresh
  BY DEF Cleared, StateType, Identity

LEMMA IssuedFields ==
    ASSUME NEW s \in StateType
    PROVE  /\ Identity(s, Issued(s).state) /\ Issued(s).state.target = s.target
           /\ Issued(s).state.reissues = s.reissues
           /\ Issued(s).state.cycle_cooldown = s.cycle_cooldown
           /\ Refused(s).state = s
  BY DEF Issued, Refused, StateType, Identity

LEMMA IssueOutcome ==
    ASSUME NEW s \in StateType, NEW t, t = IssueRecovery(s).state
    PROVE  /\ Identity(s, t)
           /\ \/ t = s \/ Blind(s, t) \/ GivenUp(s, t) \/ Reissued(s, t)
              \/ Settled(s, t) \/ Begins(s, t)
<1>1. Cleared(s) \in StateType
  BY ClearedType
<1>2. CASE ~s.feedback_observed
  <2>1. t = s \/ t = Issued(Cleared(s)).state
    BY <1>1, <1>2, IssuedFields DEF IssueRecovery, BlindRecovery
  <2> QED BY <1>1, <1>2, <2>1, ClearedFields, IssuedFields DEF Identity, Blind
<1>3. CASE s.feedback_observed /\ Unresolved(s)
  <2> DEFINE u == [s EXCEPT !.reissues = @ + 1]
  <2>1. \/ t = s
        \/ t = Exhausted(s)
        \/ s.reissues < MAX_REISSUES /\ t = Issued(u).state
    BY <1>3, Times DEF IssueRecovery, Reissue, Refused, StateType
  <2>2. CASE t = Exhausted(s)
    <3>1. /\ Identity(Cleared(s), Exhausted(s)) /\ Exhausted(s).target = Cleared(s).target
          /\ Exhausted(s).cycle_cooldown = CYCLE_COOLDOWN
          /\ Exhausted(s).last_refresh = Cleared(s).last_refresh
      <4> DEFINE c == Cleared(s)
      <4>1. Exhausted(s) = [c EXCEPT !.cycle_cooldown = CYCLE_COOLDOWN, !.phase = "Healthy"]
        BY DEF Exhausted
      <4>2. c \in StateType
        BY <1>1
      <4> HIDE DEF c
      <4>3. /\ Identity(c, Exhausted(s)) /\ Exhausted(s).target = c.target
            /\ Exhausted(s).cycle_cooldown = CYCLE_COOLDOWN
            /\ Exhausted(s).last_refresh = c.last_refresh
        BY <4>1, <4>2 DEF StateType, Identity
      <4> QED BY <4>3 DEF c
    <3> QED BY <1>3, <2>2, <3>1, ClearedFields DEF Identity, GivenUp, Unresolved
  <2>3. CASE s.reissues < MAX_REISSUES /\ t = Issued(u).state
    <3>1. u \in StateType /\ Identity(s, u) /\ u.target = s.target /\ u.reissues = s.reissues + 1
          /\ u.cycle_cooldown = s.cycle_cooldown
      BY <2>3, Times DEF StateType, Identity
    <3> HIDE DEF u
    <3>2. /\ Identity(u, t) /\ t.target = u.target /\ t.reissues = u.reissues
          /\ t.cycle_cooldown = u.cycle_cooldown
      BY <2>3, <3>1, IssuedFields
    <3>3. Reissued(s, t)
      BY <1>3, <2>3, <3>1, <3>2 DEF Reissued, Unresolved
    <3> QED BY <3>1, <3>2, <3>3, IdentityTransitive
  <2> QED BY <2>1, <2>2, <2>3 DEF Identity
<1>4. CASE s.feedback_observed /\ ~Unresolved(s)
  <2> DEFINE c == Cleared(s)
             h == [c EXCEPT !.phase = "Healthy"]
             u == [h EXCEPT !.cycle_cooldown = 0, !.target = s.host_highest_sent, !.progress = 0]
  <2>1. /\ c \in StateType /\ Identity(s, c) /\ c.target = NoFrame /\ c.reissues = 0
        /\ c.cycle_cooldown = s.cycle_cooldown /\ c.last_refresh = s.last_refresh
    BY <1>1, ClearedFields
  <2>2. \/ t = h
        \/ s.cycle_cooldown = 0 /\ s.host_highest_sent # 0 /\ t = Issued(u).state
    BY <1>4, Times DEF IssueRecovery, NewCycle, Refused, StateType
  <2> HIDE DEF c
  <2>3. /\ h \in StateType /\ Identity(c, h) /\ h.target = c.target /\ h.reissues = c.reissues
        /\ h.cycle_cooldown = c.cycle_cooldown /\ h.last_refresh = c.last_refresh
    BY <2>1 DEF StateType, Identity
  <2> HIDE DEF h
  <2>4. /\ u \in StateType /\ Identity(h, u) /\ u.target = s.host_highest_sent
        /\ u.reissues = h.reissues /\ u.cycle_cooldown = 0
    <3>1. u \in StateType
      <4>1. s.host_highest_sent \in Nat /\ 0 \in 0..CYCLE_COOLDOWN
            /\ 0 \in 0..RECOVERY_REISSUE_TIMEOUT
        BY Times DEF StateType
      <4> QED BY <2>3, <4>1, SetAimed
    <3> QED BY <2>3, <3>1 DEF StateType, Identity
  <2> HIDE DEF u
  <2>5. CASE t = h
    BY <1>4, <2>1, <2>3, <2>5 DEF Identity, Settled
  <2>6. CASE s.cycle_cooldown = 0 /\ s.host_highest_sent # 0 /\ t = Issued(u).state
    <3>1. /\ Identity(u, t) /\ t.target = u.target /\ t.reissues = u.reissues
          /\ t.cycle_cooldown = u.cycle_cooldown
      BY <2>4, <2>6, IssuedFields
    <3>2. Identity(s, t)
      BY <2>1, <2>3, <2>4, <3>1, IdentityTransitive
    <3>3. Begins(s, t)
      BY <1>4, <2>1, <2>3, <2>4, <2>6, <3>1 DEF Begins
    <3> QED BY <3>2, <3>3
  <2> QED BY <2>2, <2>5, <2>6
<1> QED BY <1>2, <1>3, <1>4

\* The fields the storm depends on stay as they are.
Steady(s, t) ==
    /\ t.target = s.target /\ t.reissues = s.reissues /\ t.last_refresh = s.last_refresh
    /\ t.cycle_cooldown = s.cycle_cooldown /\ t.highest_decoded = s.highest_decoded
    /\ t.stream_id = s.stream_id

LEMMA SentFields ==
    ASSUME NEW s \in StateType, NEW frame \in Frame, NEW t, t = Sent(s, frame),
           s.stream_id = frame.stream_id
    PROVE  /\ Steady(s, t) /\ t.feedback_observed = s.feedback_observed
           /\ \/ frame.frame_id <= s.host_highest_sent
                 /\ t.host_highest_sent = s.host_highest_sent
              \/ t.host_highest_sent = frame.frame_id
  BY DEF Sent, StateType, Steady

ReceivedOutcome(s, feedback, t) ==
    /\ t.feedback_observed = TRUE /\ t.stream_id = feedback.stream_id
    /\ s.stream_id = feedback.stream_id =>
          Steady(s, t) /\ t.host_highest_sent = s.host_highest_sent
    /\ s.stream_id # feedback.stream_id =>
          t.host_highest_sent = 0 /\ t.highest_decoded = 0 /\ t.target = NoFrame

LEMMA ReceivedFields ==
    ASSUME NEW s \in StateType, NEW feedback \in Report
    PROVE  ReceivedOutcome(s, feedback, Received(s, feedback))
<1> DEFINE t == Received(s, feedback)
           own == IF s.stream_id = feedback.stream_id THEN s
                  ELSE NewState(feedback.stream_id, 0)
           p == IF feedback.received > own.highest_sent /\ own.highest_sent <= own.highest_decoded
                THEN 0 ELSE own.decode_pending
           h == IF own.highest_sent < feedback.received THEN feedback.received
                ELSE own.highest_sent
<1>1. own \in StateType
  BY NewStateType DEF Report
<1>2. t = [own EXCEPT !.feedback_observed = TRUE, !.decode_pending = p, !.highest_sent = h]
  BY DEF Received
<1> HIDE DEF p, h, own, t
<1> SUFFICES ReceivedOutcome(s, feedback, t)
  BY DEF t
<1>3. /\ t.feedback_observed = TRUE
      /\ Steady(own, t) /\ t.host_highest_sent = own.host_highest_sent
  BY <1>1, <1>2 DEF StateType, Steady
<1>4. CASE s.stream_id = feedback.stream_id
  BY <1>3, <1>4 DEF own, Steady, ReceivedOutcome
<1>5. CASE s.stream_id # feedback.stream_id
  <2>1. own = NewState(feedback.stream_id, 0)
    BY <1>5 DEF own
  <2>2. /\ own.stream_id = feedback.stream_id /\ own.host_highest_sent = 0
        /\ own.highest_decoded = 0 /\ own.target = NoFrame
    BY <2>1 DEF NewState
  <2> QED BY <1>3, <1>5, <2>2 DEF Steady, ReceivedOutcome
<1> QED BY <1>4, <1>5

LEMMA DecodedFields ==
    ASSUME NEW s \in StateType, NEW decoded \in Nat, NEW t, t = Decoded(s, decoded)
    PROVE  /\ t.feedback_observed = s.feedback_observed /\ t.stream_id = s.stream_id
           /\ t.host_highest_sent = s.host_highest_sent /\ t.highest_decoded = decoded
           /\ t.target = NoFrame \/ (t.target = s.target /\ decoded <= s.target)
<1> DEFINE g == IF s.target # NoFrame THEN 0 ELSE s.progress
           p == IF decoded >= s.host_highest_sent THEN PROGRESS_TIMEOUT ELSE 0
           a == [s EXCEPT !.highest_decoded = decoded, !.cycle_cooldown = 0,
                          !.progress = g, !.decode_pending = p]
<1>1. g \in 0..RECOVERY_REISSUE_TIMEOUT /\ p \in 0..PROGRESS_TIMEOUT /\ 0 \in 0..CYCLE_COOLDOWN
  BY Times DEF StateType
<1>2. \/ t = a /\ decoded <= s.target
      \/ t = [Cleared(a) EXCEPT !.phase = "Healthy"]
  BY DEF Decoded
<1> HIDE DEF g, p
<1>3. a \in StateType
  BY <1>1, SetDecoded
<1>4. /\ a.feedback_observed = s.feedback_observed /\ a.stream_id = s.stream_id
      /\ a.host_highest_sent = s.host_highest_sent /\ a.highest_decoded = decoded
      /\ a.target = s.target
  BY DEF StateType
<1> HIDE DEF a
<1> DEFINE c == Cleared(a)
<1>5. c \in StateType /\ Identity(a, c) /\ c.target = NoFrame
  BY <1>3, ClearedType, ClearedFields
<1> HIDE DEF c
<1>6. /\ Identity(c, [c EXCEPT !.phase = "Healthy"])
      /\ [c EXCEPT !.phase = "Healthy"].target = c.target
  BY <1>5 DEF StateType, Identity
<1>7. CASE t = a /\ decoded <= s.target
  BY <1>4, <1>7
<1>8. CASE t = [c EXCEPT !.phase = "Healthy"]
  BY <1>4, <1>5, <1>6, <1>8 DEF Identity
<1> QED BY <1>2, <1>7, <1>8 DEF c

LEMMA TickFields ==
    ASSUME delivery \in StateType, DeliveryTick
    PROVE  /\ Identity(delivery, delivery')
           /\ delivery'.target = delivery.target /\ delivery'.reissues = delivery.reissues
           /\ delivery'.last_refresh # 0
           /\ delivery'.cycle_cooldown = 0 => delivery.cycle_cooldown \in {0, 1}
           /\ delivery.cycle_cooldown = 0 => delivery'.cycle_cooldown = 0
<1>1. /\ Older(delivery.last_refresh, RECOVERY_REISSUE_TIMEOUT) # 0
      /\ delivery.cycle_cooldown \in Nat
  BY Times DEF Older, StateType
<1> QED BY <1>1 DEF DeliveryTick, StateType, Identity

\* on_feedback: the state afterwards, for feedback of the stream and of another one.
LEMMA FeedbackOutcome ==
    ASSUME delivery \in StateType, NEW feedback \in Report, NEW t, t = OnFeedback(feedback)
    PROVE  /\ t.feedback_observed = TRUE /\ t.stream_id = feedback.stream_id
           /\ t.target = NoFrame \/ t.highest_decoded <= t.target \/ Steady(delivery, t)
           /\ delivery.stream_id = feedback.stream_id =>
                 /\ t.host_highest_sent = delivery.host_highest_sent
                 /\ \/ Steady(delivery, t)
                    \/ /\ t.highest_decoded = feedback.decoded
                       /\ feedback.decoded > delivery.highest_decoded
                       /\ t.target = NoFrame \/ t.highest_decoded <= t.target
           /\ delivery.stream_id # feedback.stream_id =>
                 /\ t.host_highest_sent = 0 /\ t.target = NoFrame
                 /\ t.highest_decoded \in {0, feedback.decoded}
<1> DEFINE r == Received(delivery, feedback)
<1>1. r \in StateType /\ feedback.decoded \in Nat
  BY FeedbackType DEF Report
<1>2. /\ r.feedback_observed = TRUE /\ r.stream_id = feedback.stream_id
      /\ delivery.stream_id = feedback.stream_id =>
            Steady(delivery, r) /\ r.host_highest_sent = delivery.host_highest_sent
      /\ delivery.stream_id # feedback.stream_id =>
            r.host_highest_sent = 0 /\ r.highest_decoded = 0 /\ r.target = NoFrame
  BY ReceivedFields DEF ReceivedOutcome
<1>3. \/ t = r
      \/ feedback.decoded > r.highest_decoded /\ t = Decoded(r, feedback.decoded)
  BY DEF OnFeedback
<1> HIDE DEF r
<1>4. CASE t = r
  BY <1>2, <1>4
<1>5. CASE feedback.decoded > r.highest_decoded /\ t = Decoded(r, feedback.decoded)
  <2>1. /\ t.feedback_observed = r.feedback_observed /\ t.stream_id = r.stream_id
        /\ t.host_highest_sent = r.host_highest_sent /\ t.highest_decoded = feedback.decoded
        /\ t.target = NoFrame \/ (t.target = r.target /\ feedback.decoded <= r.target)
    BY <1>1, <1>5, DecodedFields
  <2>2. t.target = NoFrame \/ t.highest_decoded <= t.target
    BY <2>1
  <2>3. delivery.stream_id = feedback.stream_id =>
           r.highest_decoded = delivery.highest_decoded
    BY <1>2 DEF Steady
  <2>4. delivery.stream_id # feedback.stream_id => t.target = NoFrame
    BY <1>2, <2>1
  <2> QED BY <1>2, <1>5, <2>1, <2>2, <2>3, <2>4
<1> QED BY <1>3, <1>4, <1>5

-----------------------------------------------------------------------------
(* Frame numbers.  Nothing is known of a stream that was not started, nor of a       *)
(* frame that was not encoded; and when the controller has seen a frame of its       *)
(* stream sent, nobody knows a newer one.                                            *)

IdOK(stream, id) ==
    /\ stream <= service.stream
    /\ stream = service.stream => id < service.next
    /\ stream = delivery.stream_id /\ delivery.host_highest_sent # 0 =>
          id <= delivery.host_highest_sent
OKFrame == {f \in Frame : IdOK(f.stream_id, f.frame_id)}
OKMessage == {m \in Message : m.kind = "feedback" => IdOK(m.stream_id, m.decoded)}
IdsInv ==
    /\ frames \in Seq(OKFrame) /\ control \in Seq(OKMessage)
    /\ IdOK(tracker.stream_id, tracker.received) /\ tracker.decoded <= tracker.received
    /\ IdOK(delivery.stream_id, delivery.highest_decoded)
    /\ ~capable => delivery.host_highest_sent = 0

LEMMA Numbers ==
    ASSUME TypeOK
    PROVE  /\ service.stream \in Nat /\ service.next \in Nat \ {0}
           /\ delivery.stream_id \in Nat /\ delivery.host_highest_sent \in Nat
           /\ delivery.highest_decoded \in Nat
           /\ tracker.stream_id \in Nat /\ tracker.received \in Nat /\ tracker.decoded \in Nat
<1>1. service \in [stream : 1..MaxStreams, next : 1..(MaxFrame + 1)] /\ delivery \in StateType
      /\ tracker \in [stream_id : Nat, received : Nat, decoded : Nat]
  BY DEF TypeOK
<1>2. service.stream \in Nat /\ service.next \in Nat \ {0}
  BY <1>1, Bounds
<1>3. /\ delivery.stream_id \in Nat /\ delivery.host_highest_sent \in Nat
      /\ delivery.highest_decoded \in Nat
  BY <1>1 DEF StateType
<1> QED BY <1>1, <1>2, <1>3

LEMMA SmallerId ==
    ASSUME TypeOK, NEW stream \in Nat, NEW id \in Nat, NEW old \in Nat, old <= id,
           IdOK(stream, id)
    PROVE  IdOK(stream, old)
  BY Numbers DEF IdOK

Kept == \A stream \in Nat, id \in Nat : IdOK(stream, id) => IdOK(stream, id)'

LEMMA KnownKept ==
    ASSUME Kept
    PROVE  OKFrame \subseteq OKFrame' /\ OKMessage \subseteq OKMessage'
<1>1. ASSUME NEW f \in OKFrame PROVE f \in OKFrame'
  <2>1. f \in Frame /\ f.stream_id \in Nat /\ f.frame_id \in Nat /\ IdOK(f.stream_id, f.frame_id)
    BY Bounds DEF OKFrame, Frame
  <2>2. IdOK(f.stream_id, f.frame_id)'
    BY <2>1 DEF Kept
  <2> QED BY <2>1, <2>2 DEF OKFrame
<1>2. ASSUME NEW m \in OKMessage PROVE m \in OKMessage'
  <2>1. m \in Message /\ (m.kind = "feedback" => IdOK(m.stream_id, m.decoded))
    BY DEF OKMessage
  <2>2. m.kind = "feedback" => m.stream_id \in Nat /\ m.decoded \in Nat
    BY <2>1, MessageKinds DEF Feedback
  <2>3. m.kind = "feedback" => IdOK(m.stream_id, m.decoded)'
    BY <2>1, <2>2 DEF Kept
  <2> QED BY <2>1, <2>3 DEF OKMessage
<1> QED BY <1>1, <1>2

\* The network and the viewer keep what they know when the host's state only moves on.
LEMMA ViewerKept ==
    ASSUME TypeOK, IdsInv, Kept, UNCHANGED tracker
    PROVE  /\ frames \in Seq(OKFrame') /\ control \in Seq(OKMessage')
           /\ (IdOK(tracker.stream_id, tracker.received) /\ tracker.decoded <= tracker.received)'
<1>1. frames \in Seq(OKFrame') /\ control \in Seq(OKMessage')
  BY KnownKept, SeqMonotonic DEF IdsInv
<1>2. tracker.stream_id \in Nat /\ tracker.received \in Nat
  BY DEF TypeOK
<1>3. IdOK(tracker.stream_id, tracker.received)'
  <2>1. ASSUME NEW stream \in Nat, NEW id \in Nat, stream = tracker.stream_id,
               id = tracker.received
        PROVE  IdOK(tracker.stream_id, tracker.received)'
    <3>1. IdOK(stream, id)'
      BY <2>1 DEF IdsInv, Kept
    <3>2. tracker'.stream_id = stream /\ tracker'.received = id
      BY <2>1
    <3> QED BY <3>1, <3>2
  <2> QED BY <1>2, <2>1
<1> QED BY <1>1, <1>3 DEF IdsInv

LEMMA SendFrameIds ==
    ASSUME TypeOK, IdsInv, NEW key \in BOOLEAN, SendFrame(key)
    PROVE  IdsInv'
<1> DEFINE frame == [stream_id |-> service.stream, frame_id |-> service.next, key |-> key]
<1>1. /\ frame \in Frame /\ frame.stream_id = service.stream /\ frame.frame_id = service.next
  BY Bounds DEF TypeOK, SendFrame, Frame
<1>2. /\ service.stream \in Nat /\ service.next \in Nat \ {0} /\ delivery \in StateType
      /\ delivery.host_highest_sent \in Nat /\ delivery.highest_decoded \in Nat
  BY Numbers DEF TypeOK
<1>3. service'.stream = service.stream /\ service'.next = service.next + 1
  BY DEF TypeOK, SendFrame
<1>4. /\ frames' = Append(frames, frame)
      /\ delivery' = (IF capable THEN Sent(delivery, frame) ELSE delivery)
      /\ UNCHANGED <<capable, control, tracker>>
  BY DEF SendFrame, OnFrameSent
<1> HIDE DEF frame
<1>5. /\ \/ delivery' = delivery /\ ~capable
         \/ /\ delivery'.stream_id = service.stream
            /\ \/ /\ delivery.stream_id = service.stream
                  /\ delivery'.highest_decoded = delivery.highest_decoded
                  /\ \/ delivery'.host_highest_sent = service.next
                     \/ /\ delivery'.host_highest_sent = delivery.host_highest_sent
                        /\ service.next <= delivery.host_highest_sent
               \/ delivery'.highest_decoded = 0 /\ delivery'.host_highest_sent = service.next
  <2>1. CASE ~capable
    BY <1>4, <2>1
  <2>2. CASE capable /\ delivery.stream_id # service.stream
    <3>1. delivery' = NewState(service.stream, service.next)
      BY <1>1, <1>4, <2>2 DEF Sent
    <3> QED BY <3>1 DEF NewState
  <2>3. CASE capable /\ delivery.stream_id = service.stream
    BY <1>1, <1>2, <1>4, <2>3, SentFields DEF Steady
  <2> QED BY <2>1, <2>2, <2>3
<1>6. ~capable => delivery.host_highest_sent = 0
  BY DEF IdsInv
<1>7. Kept
  <2> SUFFICES ASSUME NEW stream \in Nat, NEW id \in Nat, IdOK(stream, id)
               PROVE  IdOK(stream, id)'
    BY DEF Kept
  <2>1. stream <= service'.stream /\ (stream = service'.stream => id < service'.next)
    BY <1>2, <1>3 DEF IdOK
  <2>2. stream = delivery'.stream_id /\ delivery'.host_highest_sent # 0 =>
           id <= delivery'.host_highest_sent
    BY <1>2, <1>5 DEF IdOK
  <2> QED BY <2>1, <2>2 DEF IdOK
<1>8. frame \in OKFrame'
  <2>1. ASSUME NEW stream \in Nat, NEW id \in Nat, stream = service.stream, id = service.next
        PROVE  frame \in OKFrame'
    <3>1. IdOK(stream, id)'
      BY <1>2, <1>3, <1>5, <1>6, <2>1 DEF IdOK
    <3> QED BY <1>1, <2>1, <3>1 DEF OKFrame
  <2> QED BY <1>2, <2>1
<1>9. frames' \in Seq(OKFrame')
  BY <1>4, <1>7, <1>8, ViewerKept, AppendProperties
<1>10. IdOK(delivery.stream_id, delivery.highest_decoded)'
  <2>1. IdOK(delivery.stream_id, delivery.highest_decoded)
    BY DEF IdsInv
  <2> QED BY <1>2, <1>3, <1>5, <1>6, <2>1 DEF IdOK
<1> QED BY <1>4, <1>5, <1>6, <1>7, <1>9, <1>10, ViewerKept DEF IdsInv

LEMMA NewRunIds == ASSUME TypeOK, IdsInv, NewRun PROVE IdsInv'
<1>1. service'.stream = service.stream + 1 /\ service'.next = 1
  BY DEF TypeOK, NewRun
<1>2. UNCHANGED <<delivery, capable, frames, control, tracker>>
  BY DEF NewRun, deliveryVars
<1>3. Kept
  BY <1>1, <1>2, Numbers DEF Kept, IdOK
<1>4. IdOK(delivery.stream_id, delivery.highest_decoded)'
  BY <1>1, <1>2, Numbers DEF IdsInv, IdOK
<1> QED BY <1>2, <1>3, <1>4, ViewerKept DEF IdsInv

\* The controller changes its state, but neither its stream nor what it sent.
LEMMA SameStreamIds ==
    ASSUME TypeOK, IdsInv, Identity(delivery, delivery'), UNCHANGED <<service, frames, tracker>>,
           capable' \/ ~capable, control' \in {control, Tail(control)}, control' # control => control # <<>>
    PROVE  IdsInv'
<1>1. Kept
  BY DEF Kept, IdOK, Identity
<1>2. IdOK(delivery.stream_id, delivery.highest_decoded)'
  BY DEF IdsInv, IdOK, Identity
<1>3. control \in Seq(OKMessage') /\ frames' \in Seq(OKFrame')
      /\ (IdOK(tracker.stream_id, tracker.received) /\ tracker.decoded <= tracker.received)'
  BY <1>1, ViewerKept
<1>4. control' \in Seq(OKMessage')
  BY <1>3, Arrives
<1>5. ~capable' => delivery'.host_highest_sent = 0
  BY DEF IdsInv, Identity
<1> QED BY <1>2, <1>3, <1>4, <1>5 DEF IdsInv

LEMMA FeedbackIds ==
    ASSUME TypeOK, IdsInv, NEW feedback \in Report, HandleVideoFeedback(feedback),
           IdOK(feedback.stream_id, feedback.decoded), control # <<>>, control' = Tail(control),
           UNCHANGED <<service, frames, tracker>>
    PROVE  IdsInv'
<1>1. CASE UNCHANGED deliveryVars
  <2>1. Identity(delivery, delivery') /\ capable' = capable
    BY <1>1 DEF deliveryVars, Identity
  <2> QED BY <2>1, SameStreamIds
<1>2. CASE capable' = TRUE /\ delivery' = OnFeedback(feedback)
  <2>1. /\ delivery'.stream_id = feedback.stream_id
        /\ \/ /\ delivery.stream_id = feedback.stream_id
              /\ delivery'.host_highest_sent = delivery.host_highest_sent
              /\ delivery'.highest_decoded \in {delivery.highest_decoded, feedback.decoded}
           \/ /\ delivery'.host_highest_sent = 0
              /\ delivery'.highest_decoded \in {0, feedback.decoded}
    BY <1>2, FeedbackOutcome DEF TypeOK, Steady
  <2>2. Kept
    BY <2>1 DEF Kept, IdOK
  <2>3. control \in Seq(OKMessage') /\ frames' \in Seq(OKFrame')
        /\ (IdOK(tracker.stream_id, tracker.received) /\ tracker.decoded <= tracker.received)'
    BY <2>2, ViewerKept
  <2>4. control' \in Seq(OKMessage')
    BY <2>3, Arrives
  <2>5. IdOK(delivery.stream_id, delivery.highest_decoded)'
    <3>1. IdOK(feedback.stream_id, feedback.decoded)
          /\ IdOK(delivery.stream_id, delivery.highest_decoded)
      BY DEF IdsInv
    <3> QED BY <2>1, <3>1, Numbers DEF IdOK
  <2> QED BY <1>2, <2>3, <2>4, <2>5 DEF IdsInv
<1> QED BY <1>1, <1>2 DEF HandleVideoFeedback

LEMMA HandleControlIds == ASSUME TypeOK, IdsInv, HandleControl PROVE IdsInv'
<1> DEFINE message == Head(control)
<1>1. message \in OKMessage /\ control # <<>>
  BY Arrives DEF IdsInv, HandleControl
<1>2. control' = Tail(control) /\ UNCHANGED <<service, frames, tracker>>
  BY DEF HandleControl
<1> HIDE DEF message
<1>3. CASE message.kind = "feedback"
           /\ HandleVideoFeedback([stream_id |-> message.stream_id,
                                   received |-> message.received, decoded |-> message.decoded])
  <2> DEFINE feedback == [stream_id |-> message.stream_id, received |-> message.received,
                          decoded |-> message.decoded]
  <2>1. message \in Feedback /\ IdOK(message.stream_id, message.decoded)
    BY <1>1, <1>3, MessageKinds DEF OKMessage
  <2>2. feedback \in Report /\ feedback.stream_id = message.stream_id
        /\ feedback.decoded = message.decoded
    BY <2>1 DEF Feedback, Report
  <2>3. HandleVideoFeedback(feedback)
    BY <1>3
  <2> HIDE DEF feedback
  <2> QED BY <1>1, <1>2, <2>1, <2>2, <2>3, FeedbackIds
<1>4. CASE \E congested \in BOOLEAN : HandleReferenceRefresh(message, congested)
  <2>1. Identity(delivery, delivery') /\ capable' = capable
    BY <1>4, RequestDelivery, IssueOutcome DEF TypeOK, Identity
  <2> QED BY <1>1, <1>2, <2>1, SameStreamIds
<1>5. CASE UNCHANGED deliveryVars
  <2>1. Identity(delivery, delivery') /\ capable' = capable
    BY <1>5 DEF deliveryVars, Identity
  <2> QED BY <1>1, <1>2, <2>1, SameStreamIds
<1> QED BY <1>3, <1>4, <1>5 DEF HandleControl, message

LEMMA PollClockIds == ASSUME TypeOK, IdsInv, Poll \/ Clock PROVE IdsInv'
<1>1. Identity(delivery, delivery')
  <2>1. CASE Poll
    BY <2>1, IssueOutcome DEF TypeOK, Poll, PollRecovery, Refused, Identity
  <2>2. CASE Clock
    BY <2>2, TickFields DEF TypeOK, Clock
  <2> QED BY <2>1, <2>2
<1>2. UNCHANGED <<capable, service, frames, control, tracker>>
  BY DEF Poll, PollRecovery, Clock, DeliveryTick, network
<1> QED BY <1>1, <1>2, SameStreamIds

\* Steps of the viewer: the host's numbers do not change.
LEMMA ViewerKnows ==
    ASSUME UNCHANGED <<delivery, service>>
    PROVE  /\ OKFrame' = OKFrame /\ OKMessage' = OKMessage
           /\ \A stream, id : IdOK(stream, id)' = IdOK(stream, id)
  BY DEF OKFrame, OKMessage, IdOK

LEMMA RequestKnown ==
    ASSUME TypeOK, IdsInv, NEW r \in RecoveryType, NEW d \in DisplayType, RecoverFrom(r, d)
    PROVE  control' \in Seq(OKMessage)
<1> DEFINE action == NextAction(Noted(r, Shown(d)), d.stream_id # 0 /\ d.received # 0)
           message == IF action = "Reference"
                      THEN [kind |-> "reference", stream_id |-> d.stream_id,
                            received |-> d.received, strict |-> TRUE]
                      ELSE Refresh
<1>1. \/ UNCHANGED control
      \/ \E i \in 1..(Len(control) + 1) : control' = InsertAt(control, i, message)
  BY DEF RecoverFrom, Shown
<1>2. message \in Message /\ message.kind # "feedback"
  BY DEF Message, Request, DisplayType, Refresh
<1> HIDE DEF message
<1>3. message \in OKMessage
  BY <1>2 DEF OKMessage
<1> QED BY <1>1, <1>3, InsertAtType DEF IdsInv

LEMMA FeedbackKnown ==
    ASSUME TypeOK, IdsInv, NEW t \in Report, NEW force, SendFeedback(t, force),
           IdOK(t.stream_id, t.decoded)
    PROVE  control' \in Seq(OKMessage)
<1>1. FeedbackOf(t) \in OKMessage
  BY DEF FeedbackOf, Message, Feedback, Report, OKMessage
<1> QED BY <1>1, AppendProperties DEF SendFeedback, IdsInv

LEMMA ReceiveIds == ASSUME TypeOK, IdsInv, Receive PROVE IdsInv'
<1> DEFINE frame == Head(frames)
<1>1. frame \in OKFrame /\ frames' \in Seq(OKFrame)
  BY Arrives DEF IdsInv, Receive
<1>2. UNCHANGED <<capable, delivery, seen, service>>
  BY DEF Receive, deliveryVars
<1> HIDE DEF frame
<1>3. /\ frame \in Frame /\ frame.stream_id \in Nat /\ frame.frame_id \in Nat
      /\ IdOK(frame.stream_id, frame.frame_id)
  BY <1>1, Bounds DEF OKFrame, Frame
<1>4. /\ control' \in Seq(OKMessage) /\ tracker' \in Report
      /\ IdOK(tracker'.stream_id, tracker'.received) /\ tracker'.decoded <= tracker'.received
  <2>1. CASE UNCHANGED <<display, recovery, control, tracker, spent>>
    BY <2>1 DEF IdsInv, TypeOK, Report
  <2>2. CASE Accept(frame)
    <3>1. tracker' \in Report /\ SendFeedback(tracker', tracker.stream_id # frame.stream_id)
      BY <1>3, <2>2, AcceptType DEF Accept
    <3>2. /\ tracker'.stream_id = frame.stream_id
          /\ \/ /\ tracker.stream_id = frame.stream_id
                /\ tracker'.decoded = tracker.decoded
                /\ tracker'.received \in {tracker.received, frame.frame_id}
                /\ tracker'.received >= tracker.received
             \/ tracker'.decoded = 0 /\ tracker'.received \in {0, frame.frame_id}
                                     /\ tracker'.received = frame.frame_id
      BY <1>3, <2>2, Numbers DEF Accept, NoTracker, TypeOK
    <3>3. IdOK(tracker'.stream_id, tracker'.received) /\ tracker'.decoded <= tracker'.received
      BY <1>3, <3>2, Numbers DEF IdsInv
    <3>4. IdOK(tracker'.stream_id, tracker'.decoded)
      BY <3>1, <3>3, SmallerId DEF Report
    <3>5. control' \in Seq(OKMessage)
      BY <3>1, <3>4, FeedbackKnown
    <3> QED BY <3>1, <3>3, <3>5
  <2>3. CASE /\ RecoverFrom(RecoveryAfter(frame), DisplayAfter(frame))
             /\ UNCHANGED tracker
    BY <1>3, <2>3, RequestKnown, RecoveryAfterType, DisplayAfterType DEF IdsInv, TypeOK, Report
  <2> QED BY <2>1, <2>2, <2>3 DEF Receive, frame
<1> QED BY <1>1, <1>2, <1>4, ViewerKnows DEF IdsInv

LEMMA RecoverIds == ASSUME TypeOK, IdsInv, RecoverDisplayStartup PROVE IdsInv'
<1>1. control' \in Seq(OKMessage)
  BY RequestKnown DEF RecoverDisplayStartup, TypeOK
<1>2. UNCHANGED <<delivery, capable, service, frames, tracker>>
  BY DEF RecoverDisplayStartup, deliveryVars
<1> QED BY <1>1, <1>2, ViewerKnows DEF IdsInv

LEMMA LoseFrameIds == ASSUME TypeOK, IdsInv, LoseFrame PROVE IdsInv'
<1>1. frames' \in Seq(OKFrame)
  BY Arrives DEF IdsInv, LoseFrame
<1>2. UNCHANGED <<delivery, capable, service, control, tracker>>
  BY DEF LoseFrame, deliveryVars
<1> QED BY <1>1, <1>2, ViewerKnows DEF IdsInv

LEMMA DecodeIds == ASSUME TypeOK, IdsInv, Decode PROVE IdsInv'
<1>1. PICK id \in (tracker.decoded + 1)..tracker.received :
            tracker' = [tracker EXCEPT !.decoded = id]
  BY DEF Decode
<1>2. tracker \in Report /\ id \in Nat /\ id <= tracker.received
  BY <1>1, Numbers DEF TypeOK, Report
<1>3. tracker' = [stream_id |-> tracker.stream_id, received |-> tracker.received, decoded |-> id]
  BY <1>1, <1>2 DEF Report
<1>4. tracker' \in Report /\ IdOK(tracker'.stream_id, tracker'.decoded)
  BY <1>2, <1>3, Numbers, SmallerId DEF IdsInv, Report
<1>5. control' \in Seq(OKMessage)
  BY <1>4, FeedbackKnown DEF Decode
<1>6. UNCHANGED <<delivery, capable, service, frames>>
  BY DEF Decode, deliveryVars
<1> QED BY <1>2, <1>3, <1>5, <1>6, ViewerKnows DEF IdsInv

LEMMA AdvisoryIds == ASSUME TypeOK, IdsInv, RequestAdvisory PROVE IdsInv'
<1> DEFINE request == [kind |-> "reference", stream_id |-> tracker.stream_id,
                       received |-> tracker.received, strict |-> FALSE]
<1>1. request \in OKMessage
  BY Numbers DEF OKMessage, Message, Request
<1>2. control' = Append(control, request)
  BY DEF RequestAdvisory
<1> HIDE DEF request
<1>3. control' \in Seq(OKMessage)
  BY <1>1, <1>2, AppendProperties DEF IdsInv
<1>4. UNCHANGED <<delivery, capable, service, frames, tracker>>
  BY DEF RequestAdvisory, deliveryVars
<1> QED BY <1>3, <1>4, ViewerKnows DEF IdsInv

LEMMA NextIds == TypeOK /\ IdsInv /\ [Next]_vars => IdsInv'
<1> SUFFICES ASSUME TypeOK, IdsInv, [Next]_vars PROVE IdsInv'
  OBVIOUS
<1>1. CASE UNCHANGED vars
  BY <1>1, ViewerKnows DEF IdsInv, vars, deliveryVars, network
<1>2. CASE Step
  BY <1>2, SendFrameIds, NewRunIds, HandleControlIds, PollClockIds, RecoverIds, ReceiveIds,
     LoseFrameIds, DecodeIds, AdvisoryIds DEF Step
<1> QED BY <1>1, <1>2 DEF Next

LEMMA InitIds == Init => IdsInv
<1> SUFFICES ASSUME Init PROVE IdsInv
  OBVIOUS
<1>1. frames \in Seq(OKFrame) /\ control \in Seq(OKMessage)
  BY DEF Init
<1>2. /\ tracker.stream_id = 0 /\ tracker.received = 0 /\ tracker.decoded = 0
      /\ service.stream = 1 /\ service.next = 1
  BY DEF Init, NoTracker
<1>3. /\ delivery.stream_id = 0 /\ delivery.host_highest_sent = 0
      /\ delivery.highest_decoded = 0
  BY DEF Init, DeliveryInit, NewState
<1> QED BY <1>1, <1>2, <1>3 DEF IdsInv, IdOK

-----------------------------------------------------------------------------
(* The storm.  A cycle under way has asked once and for every reissue; when none is  *)
(* under way either the controller rests or nothing was asked since it last was      *)
(* renewed.  The target of a cycle is the newest frame sent, which nobody decoded    *)
(* a successor of (IdsInv), so that a cycle cannot be resolved unnoticed.            *)

StormOK(s, n) ==
    /\ n \in Nat /\ n <= MAX_REISSUES + 1
    /\ ~s.feedback_observed => n = 0 /\ s.target = NoFrame
    /\ s.target = NoFrame /\ s.cycle_cooldown = 0 => n = 0
    /\ s.target # NoFrame => n <= s.reissues + 1 /\ s.highest_decoded <= s.target
StormInv == StormOK(delivery, storm)

Grown(s, t, n, m) ==
    \/ m = 0 /\ ( \/ t.stream_id # s.stream_id \/ t.highest_decoded > s.highest_decoded
                  \/ s.cycle_cooldown > 0 /\ t.cycle_cooldown = 0 )
    \/ m = n + 1 /\ s.feedback_observed /\ t.last_refresh = 0 /\ s.last_refresh # 0
                 /\ t.stream_id = s.stream_id
    \/ /\ m = n /\ t.stream_id = s.stream_id /\ ~(t.highest_decoded > s.highest_decoded)
       /\ ~(s.cycle_cooldown > 0 /\ t.cycle_cooldown = 0)

LEMMA StormGrown == Storm => Grown(delivery, delivery', storm, storm')
  BY DEF Storm, Renewed, Grown

\* Nothing the storm depends on changes.
LEMMA SteadyStorm ==
    ASSUME NEW s \in StateType, NEW t, NEW n, NEW m, StormOK(s, n), Grown(s, t, n, m),
           Steady(s, t), t.feedback_observed = s.feedback_observed \/ t.feedback_observed
    PROVE  StormOK(t, m)
<1>1. /\ s.reissues \in Nat /\ s.highest_decoded \in Nat /\ s.cycle_cooldown \in Nat
      /\ s.target \in Nat
  BY Times DEF StateType
<1>2. m = n
  BY <1>1 DEF Steady, Grown
<1> QED BY <1>1, <1>2 DEF StormOK, Steady

\* A renewed controller: nothing was asked.
LEMMA RenewedStorm ==
    ASSUME NEW t \in StateType,
           ~t.feedback_observed => t.target = NoFrame,
           t.target = NoFrame \/ t.highest_decoded <= t.target
    PROVE  StormOK(t, 0)
<1>1. t.reissues \in Nat
  BY Times DEF StateType
<1> QED BY <1>1, Times DEF StormOK

LEMMA IssueStorm ==
    ASSUME NEW s \in StateType, NEW n, NEW m, NEW t, t = IssueRecovery(s).state,
           StormOK(s, n), Grown(s, t, n, m),
           s.host_highest_sent # 0 => s.highest_decoded <= s.host_highest_sent
    PROVE  StormOK(t, m)
<1>1. /\ s.reissues \in 0..MAX_REISSUES /\ s.highest_decoded \in Nat
      /\ s.cycle_cooldown \in Nat /\ s.target \in Nat /\ s.host_highest_sent \in Nat
      /\ n \in Nat
  BY Times DEF StateType, StormOK
<1>2. /\ t.stream_id = s.stream_id /\ t.highest_decoded = s.highest_decoded
      /\ t.feedback_observed = s.feedback_observed
  BY IssueOutcome DEF Identity
<1>3. CASE t = s
  <2>1. Steady(s, t)
    BY <1>3 DEF Steady
  <2> QED BY <1>2, <2>1, SteadyStorm
<1>4. CASE Blind(s, t)
  <2>1. n = 0 /\ ~s.feedback_observed /\ t.target = NoFrame
    BY <1>4 DEF Blind, StormOK
  <2>2. m = 0
    BY <2>1 DEF Grown
  <2> QED BY <1>2, <2>1, <2>2, Times DEF StormOK
<1>5. CASE GivenUp(s, t)
  <2>1. /\ s.feedback_observed /\ s.target # NoFrame /\ t.target = NoFrame
        /\ t.cycle_cooldown = CYCLE_COOLDOWN /\ t.last_refresh = s.last_refresh
    BY <1>5 DEF GivenUp
  <2>2. m \in {0, n} /\ n <= MAX_REISSUES + 1
    BY <2>1 DEF Grown, StormOK
  <2> QED BY <1>1, <1>2, <2>1, <2>2, Times DEF StormOK
<1>6. CASE Reissued(s, t)
  <2>1. /\ s.feedback_observed /\ s.target # NoFrame /\ t.target = s.target
        /\ t.reissues = s.reissues + 1 /\ s.reissues < MAX_REISSUES
    BY <1>6 DEF Reissued
  <2>2. m \in {0, n, n + 1} /\ n <= s.reissues + 1 /\ s.highest_decoded <= s.target
    BY <2>1 DEF Grown, StormOK
  <2> QED BY <1>1, <1>2, <2>1, <2>2, Times DEF StormOK
<1>7. CASE Settled(s, t)
  <2>1. /\ s.feedback_observed /\ ~Unresolved(s) /\ t.target = NoFrame
        /\ t.cycle_cooldown = s.cycle_cooldown /\ t.last_refresh = s.last_refresh
    BY <1>7 DEF Settled
  <2>2. s.target = NoFrame
    BY <2>1 DEF Unresolved, StormOK
  <2>3. m \in {0, n} /\ n <= MAX_REISSUES + 1 /\ (s.cycle_cooldown = 0 => n = 0)
    BY <2>1, <2>2 DEF Grown, StormOK
  <2> QED BY <1>1, <1>2, <2>1, <2>3, Times DEF StormOK
<1>8. CASE Begins(s, t)
  <2>1. /\ s.feedback_observed /\ ~Unresolved(s)
        /\ s.cycle_cooldown = 0 /\ s.host_highest_sent # 0
        /\ t.target = s.host_highest_sent /\ t.reissues = 0
    BY <1>8 DEF Begins
  <2>2. s.target = NoFrame
    BY <2>1 DEF Unresolved, StormOK
  <2>3. n = 0 /\ m \in {0, 1}
    BY <2>1, <2>2 DEF Grown, StormOK
  <2> QED BY <1>1, <1>2, <2>1, <2>3, Times DEF StormOK, NoFrame
<1> QED BY <1>3, <1>4, <1>5, <1>6, <1>7, <1>8, IssueOutcome

LEMMA SameStorm ==
    ASSUME TypeOK, StormInv, Storm, UNCHANGED delivery
    PROVE  StormInv'
<1>1. Steady(delivery, delivery') /\ delivery'.feedback_observed = delivery.feedback_observed
  BY DEF Steady
<1> QED BY <1>1, StormGrown, SteadyStorm DEF StormInv, TypeOK

LEMMA IssuedStorm ==
    ASSUME TypeOK, IdsInv, StormInv, Storm, delivery' = IssueRecovery(delivery).state
    PROVE  StormInv'
<1>1. delivery.host_highest_sent # 0 => delivery.highest_decoded <= delivery.host_highest_sent
  BY DEF IdsInv, IdOK
<1> QED BY <1>1, StormGrown, IssueStorm DEF StormInv, TypeOK

LEMMA SendFrameStorm ==
    ASSUME TypeOK, TypeOK', StormInv, Storm, NEW key \in BOOLEAN, SendFrame(key)
    PROVE  StormInv'
<1> DEFINE frame == [stream_id |-> service.stream, frame_id |-> service.next, key |-> key]
<1>1. frame \in Frame
  BY Bounds DEF TypeOK, SendFrame, Frame
<1>2. delivery' = (IF capable THEN Sent(delivery, frame) ELSE delivery)
  BY DEF SendFrame, OnFrameSent
<1> HIDE DEF frame
<1>3. CASE UNCHANGED delivery
  BY <1>3, SameStorm
<1>4. CASE delivery' = Sent(delivery, frame) /\ delivery.stream_id = frame.stream_id
  <2>1. Steady(delivery, delivery') /\ delivery'.feedback_observed = delivery.feedback_observed
    BY <1>1, <1>4, SentFields DEF TypeOK
  <2> QED BY <2>1, StormGrown, SteadyStorm DEF StormInv, TypeOK
<1>5. CASE delivery' = Sent(delivery, frame) /\ delivery.stream_id # frame.stream_id
  <2>1. delivery' = NewState(frame.stream_id, frame.frame_id)
    BY <1>5 DEF Sent
  <2>2. delivery'.stream_id = frame.stream_id /\ delivery'.target = NoFrame
    BY <2>1 DEF NewState
  <2>3. storm' = 0
    BY <1>5, <2>2, StormGrown DEF Grown
  <2> QED BY <2>2, <2>3, RenewedStorm DEF StormInv, TypeOK
<1> QED BY <1>2, <1>3, <1>4, <1>5

LEMMA FeedbackStorm ==
    ASSUME TypeOK, TypeOK', StormInv, Storm, NEW feedback \in Report,
           delivery' = OnFeedback(feedback)
    PROVE  StormInv'
<1>1. delivery'.feedback_observed = TRUE
  BY FeedbackOutcome DEF TypeOK
<1>2. CASE delivery.stream_id # feedback.stream_id
  <2>1. delivery'.stream_id = feedback.stream_id /\ delivery'.target = NoFrame
    BY <1>2, FeedbackOutcome DEF TypeOK
  <2>2. storm' = 0
    BY <1>2, <2>1, StormGrown DEF Grown
  <2> QED BY <1>1, <2>1, <2>2, RenewedStorm DEF StormInv, TypeOK
<1>3. CASE Steady(delivery, delivery')
  BY <1>1, <1>3, StormGrown, SteadyStorm DEF StormInv, TypeOK
<1>4. CASE /\ delivery.stream_id = feedback.stream_id
           /\ delivery'.highest_decoded > delivery.highest_decoded
           /\ delivery'.target = NoFrame \/ delivery'.highest_decoded <= delivery'.target
  <2>1. delivery'.stream_id = delivery.stream_id
    BY <1>4, FeedbackOutcome DEF TypeOK
  <2>2. storm' = 0
    BY <1>4, <2>1, Numbers DEF Storm, Renewed
  <2> QED BY <1>1, <1>4, <2>2, RenewedStorm DEF StormInv, TypeOK
<1> QED BY <1>2, <1>3, <1>4, FeedbackOutcome DEF TypeOK

LEMMA HandleControlStorm ==
    ASSUME TypeOK, TypeOK', IdsInv, StormInv, Storm, HandleControl
    PROVE  StormInv'
<1> DEFINE message == Head(control)
<1>1. message \in Message
  BY Arrives DEF TypeOK, HandleControl
<1> HIDE DEF message
<1>2. CASE message.kind = "feedback"
           /\ HandleVideoFeedback([stream_id |-> message.stream_id,
                                   received |-> message.received, decoded |-> message.decoded])
  <2> DEFINE feedback == [stream_id |-> message.stream_id, received |-> message.received,
                          decoded |-> message.decoded]
  <2>1. feedback \in Report
    BY <1>1, <1>2, MessageKinds DEF Feedback, Report
  <2>2. HandleVideoFeedback(feedback)
    BY <1>2
  <2> HIDE DEF feedback
  <2>3. UNCHANGED delivery \/ delivery' = OnFeedback(feedback)
    BY <2>2 DEF HandleVideoFeedback, deliveryVars
  <2> QED BY <2>1, <2>3, SameStorm, FeedbackStorm
<1>3. CASE \E congested \in BOOLEAN : HandleReferenceRefresh(message, congested)
  BY <1>3, RequestDelivery, SameStorm, IssuedStorm
<1>4. CASE UNCHANGED deliveryVars
  BY <1>4, SameStorm DEF deliveryVars
<1> QED BY <1>2, <1>3, <1>4 DEF HandleControl, message

LEMMA PollStorm == ASSUME TypeOK, IdsInv, StormInv, Storm, Poll PROVE StormInv'
<1>1. UNCHANGED delivery \/ delivery' = IssueRecovery(delivery).state
  BY DEF Poll, PollRecovery, Refused
<1> QED BY <1>1, SameStorm, IssuedStorm

LEMMA ClockStorm == ASSUME TypeOK, TypeOK', StormInv, Storm, Clock PROVE StormInv'
<1>1. /\ Identity(delivery, delivery')
      /\ delivery'.target = delivery.target /\ delivery'.reissues = delivery.reissues
      /\ delivery'.last_refresh # 0
      /\ delivery'.cycle_cooldown = 0 => delivery.cycle_cooldown \in {0, 1}
  BY TickFields DEF TypeOK, Clock
<1>2. storm' \in {0, storm}
      /\ (delivery.cycle_cooldown > 0 /\ delivery'.cycle_cooldown = 0 => storm' = 0)
  BY <1>1, StormGrown DEF Grown, Identity
<1>3. delivery.cycle_cooldown \in Nat /\ delivery.reissues \in Nat
  BY Times DEF TypeOK, StateType
<1>4. StormOK(delivery, storm) /\ storm' \in Nat /\ storm' <= storm
  BY <1>2 DEF StormInv, StormOK
<1>5. ~delivery'.feedback_observed => storm' = 0 /\ delivery'.target = NoFrame
  BY <1>1, <1>2, <1>4 DEF StormOK, Identity
<1>6. delivery'.target = NoFrame /\ delivery'.cycle_cooldown = 0 => storm' = 0
  BY <1>1, <1>2, <1>3, <1>4 DEF StormOK
<1>7. delivery'.target # NoFrame =>
         storm' <= delivery'.reissues + 1 /\ delivery'.highest_decoded <= delivery'.target
  BY <1>1, <1>3, <1>4 DEF StormOK, Identity
<1> QED BY <1>4, <1>5, <1>6, <1>7, Times DEF StormInv, StormOK

LEMMA NextStorm == TypeOK /\ TypeOK' /\ IdsInv /\ StormInv /\ [Next]_vars => StormInv'
<1> SUFFICES ASSUME TypeOK, TypeOK', IdsInv, StormInv, [Next]_vars PROVE StormInv'
  OBVIOUS
<1>1. CASE UNCHANGED vars
  BY <1>1 DEF vars, deliveryVars, history, StormInv, StormOK
<1>2. CASE /\ Storm
           /\ NewRun \/ RecoverDisplayStartup \/ Receive \/ LoseFrame \/ Decode \/ RequestAdvisory
  <2>1. UNCHANGED delivery
    BY <1>2 DEF NewRun, RecoverDisplayStartup, Receive, LoseFrame, Decode, RequestAdvisory,
                deliveryVars
  <2> QED BY <1>2, <2>1, SameStorm
<1> QED BY <1>1, <1>2, SendFrameStorm, HandleControlStorm, PollStorm, ClockStorm DEF Next, Step

LEMMA InitStorm == Init => StormInv
<1> SUFFICES ASSUME Init PROVE StormInv
  OBVIOUS
<1>1. delivery.target = NoFrame /\ storm = 0
  BY DEF Init, DeliveryInit, NewState
<1> QED BY <1>1, Times DEF StormInv, StormOK

\* Whatever the timers, the viewer's feedback and its requests bring about together, the
\* controller asks for at most 1 + MAX_REISSUES key frames before the viewer gets ahead
\* or the cooldown of the cycle is over (issue_recovery of connection.rs).
THEOREM StormBoundedHolds == Spec => []StormBounded
<1>1. StormInv => StormBounded
  BY DEF StormInv, StormOK, StormBounded
<1> QED BY <1>1, InitType, NextType, InitIds, NextIds, InitStorm, NextStorm, PTL DEF Spec
=============================================================================
