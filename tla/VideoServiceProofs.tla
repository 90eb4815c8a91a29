------------------------ MODULE VideoServiceProofs ------------------------
(***************************************************************************)
(* Proofs about VideoService for any set of connections, any bound on      *)
(* repeated encoding and any number of restarts.  What makes the joins     *)
(* safe is Fed: inside a run whose encoder is not new, every promoted      *)
(* subscriber has had a reference of this stream; promotions by a snapshot *)
(* break this, and every one of them leaves the run.                       *)
(***************************************************************************)
EXTENDS VideoService, TLAPS

\* Inside a run whose encoder has already delivered, all subscribers are in step.
Fed == pc \in InRun /\ ~run.fresh => subscribes \subseteq synced
\* No connection is in both lists.
OneList == subscribes \cap new_subscribes = {}
\* The inductive invariant.
IInv == TypeOK /\ OneList /\ Subscribed /\ Fed /\ FirstIsReference

\* Nothing but the thread's position, the options and the counters changes.
LEMMA StutterStep ==
    ASSUME IInv, UNCHANGED <<subscribes, new_subscribes, wanted, synced, undecodable>>,
           active' \in BOOLEAN, refresh' \in BOOLEAN, pc' \in Pcs, run' \in Run,
           disturbances' \in 0..MaxDisturbances,
           pc' \in InRun => pc \in InRun /\ (run'.fresh \/ ~run.fresh)
    PROVE  IInv'
<1>1. TypeOK' /\ OneList' /\ Subscribed' /\ FirstIsReference'
  BY DEF IInv, TypeOK, OneList, Subscribed, FirstIsReference
<1>2. Fed'
  BY DEF IInv, Fed
<1> QED
  BY <1>1, <1>2 DEF IInv

\* Replacing the encoder, asking it and joining keep the run a run and do not make a
\* new encoder an old one.
LEMMA RunType ==
    ASSUME NEW r \in Run
    PROVE  /\ Recreated(r) \in Run /\ Recreated(r).fresh
           /\ Asked(r) \in Run /\ Asked(r).fresh = r.fresh
           /\ Joining(r) \in Run /\ Joining(r).fresh = r.fresh
<1>1. 0 \in 0..REPEAT_ENCODE_MAX
  BY RepeatAssumption
<1>2. Recreated(r) \in Run /\ Recreated(r).fresh
  BY <1>1 DEF Recreated, Run
<1>3. Asked(r) \in Run /\ Asked(r).fresh = r.fresh
  BY <1>1 DEF Asked, Run
<1>4. Joining(r) \in Run /\ Joining(r).fresh = r.fresh
  <2>1. r.join_started \in {"none", "recent", "expired"}
    BY DEF Run
  <2> DEFINE j == CASE JoinAction(r) = "Forget"    -> "none"
                    [] JoinAction(r) = "Reference" -> "recent"
                    [] OTHER                       -> r.join_started
  <2>2. j \in {"none", "recent", "expired"}
    BY <2>1
  <2>3. Joining(r) = [r EXCEPT !.join_started = j]
    BY DEF Joining
  <2> HIDE DEF j
  <2> QED
    BY <2>2, <2>3 DEF Run
<1> QED
  BY <1>2, <1>3, <1>4

\* The encoder's output leaves a run whose encoder is no longer new.
LEMMA EncodedType ==
    ASSUME NEW r \in Run, NEW f \in Frames
    PROVE  Encoded(r, f) \in Run /\ ~Encoded(r, f).fresh
<1> DEFINE x == CASE r.reference = "none" \/ f # "delta" -> "none"
                  [] r.reference = "asked"              -> "unanswered"
                  [] OTHER                              -> r.reference
<1>1. r.reference \in {"none", "asked", "unanswered", "expired"}
  BY DEF Run
<1>2. x \in {"none", "asked", "unanswered", "expired"}
  BY <1>1
<1>3. Encoded(r, f) = [r EXCEPT !.encoded = TRUE, !.fresh = FALSE, !.reference = x]
  BY DEF Encoded
<1> HIDE DEF x
<1> QED
  BY <1>2, <1>3 DEF Run

\* A frame is handled: those promoted get their reference in the same step.
LEMMA FrameStep ==
    ASSUME IInv, pc = "checked", pc' = "waiting", UNCHANGED <<wanted, active, refresh, disturbances>>,
           NEW r \in Run, r.fresh = run.fresh, NEW f \in Frames, HandleOneFrame(r, f)
    PROVE  IInv'
<1>1. TypeOK /\ OneList /\ Subscribed /\ Fed /\ FirstIsReference
  BY DEF IInv
<1>2. CASE run' = r /\ UNCHANGED <<subscribes, new_subscribes, history>>
  <2>1. UNCHANGED <<subscribes, new_subscribes, wanted, synced, undecodable>>
    BY <1>2 DEF history
  <2>2. active' \in BOOLEAN /\ refresh' \in BOOLEAN /\ disturbances' \in 0..MaxDisturbances
    BY <1>1 DEF TypeOK
  <2>3. pc' \in Pcs /\ run' \in Run /\ pc \in InRun /\ (run'.fresh \/ ~run.fresh)
    BY <1>2 DEF Pcs, InRun
  <2> QED
    BY <2>1, <2>2, <2>3, StutterStep
<1>3. CASE (r.fresh => f = "key") /\ run' = Encoded(r, f) /\ Send(f)
  <2>1. run' \in Run /\ ~run'.fresh
    BY <1>3, EncodedType
  <2>2. CASE f = "key"
    <3>1. /\ subscribes' = subscribes \cup new_subscribes /\ new_subscribes' = {}
          /\ synced' = subscribes \cup new_subscribes /\ undecodable' = undecodable
      BY <1>3, <2>2 DEF Send
    <3>2. TypeOK'
      BY <1>1, <2>1, <3>1 DEF TypeOK, Pcs
    <3>3. OneList' /\ Subscribed' /\ Fed' /\ FirstIsReference'
      BY <1>1, <3>1 DEF OneList, Subscribed, Fed, FirstIsReference
    <3> QED
      BY <3>2, <3>3 DEF IInv
  <2>3. CASE f # "key"
    <3>1. subscribes \subseteq synced
      BY <1>1, <1>3, <2>3 DEF Fed, InRun
    <3>2. /\ subscribes' = subscribes /\ new_subscribes' = new_subscribes
          /\ synced' = synced /\ undecodable' = undecodable
      BY <1>3, <2>3, <3>1 DEF Send
    <3>3. TypeOK'
      BY <1>1, <2>1, <3>2 DEF TypeOK, Pcs
    <3>4. OneList' /\ Subscribed' /\ Fed' /\ FirstIsReference'
      BY <1>1, <3>1, <3>2 DEF OneList, Subscribed, Fed, FirstIsReference
    <3> QED
      BY <3>3, <3>4 DEF IInv
  <2> QED
    BY <2>2, <2>3
<1> QED
  BY <1>2, <1>3 DEF HandleOneFrame

-----------------------------------------------------------------------------

\* The head of the loop: the encoder is asked or replaced.
LEMMA CheckStep ==
    ASSUME IInv, NEW cadence \in BOOLEAN, NEW recreated \in BOOLEAN, NEW other \in BOOLEAN,
           NEW answer \in {"in_place", "recreated", "failed"},
           CheckReference(cadence, recreated, other, answer)
    PROVE  IInv'
<1> DEFINE old == cadence \/ (recreated /\ run.reference = "expired")
           r1  == IF old THEN Recreated(run) ELSE run
           r2  == Joining(r1)
           ask == (other \/ JoinAction(r1) = "Reference") /\ ~old
<1>1. TypeOK /\ run \in Run
  BY DEF IInv, TypeOK
<1>2. r1 \in Run /\ (r1.fresh \/ ~run.fresh)
  BY <1>1, RunType
<1>3. r2 \in Run /\ r2.fresh = r1.fresh
  BY <1>2, RunType
<1>4. run' = CASE ask /\ answer = "in_place"  -> Asked(r2)
               [] ask /\ answer = "recreated" -> Recreated(r2)
               [] OTHER                       -> r2
  BY DEF CheckReference
<1> HIDE DEF old, r1, r2, ask
<1>5. run' \in {Asked(r2), Recreated(r2), r2}
  BY <1>4
<1>6. run' \in Run /\ (run'.fresh \/ ~run.fresh)
  BY <1>2, <1>3, <1>5, RunType
<1>7. /\ UNCHANGED <<subscribes, new_subscribes, wanted, synced, undecodable, active, refresh, disturbances>>
      /\ pc \in InRun /\ pc' \in Pcs
  BY DEF CheckReference, subscriptions, history, InRun, Pcs
<1> QED
  BY <1>1, <1>6, <1>7, StutterStep DEF TypeOK

\* Steps of connections.
LEMMA ConnStep ==
    ASSUME IInv, NEW c \in Conns, OnSubscribe(c) \/ OnUnsubscribe(c)
    PROVE  IInv'
<1>1. TypeOK'
  BY DEF IInv, TypeOK, OnSubscribe, OnUnsubscribe
<1>2. OneList'
  BY DEF IInv, OneList, OnSubscribe, OnUnsubscribe
<1>3. Subscribed'
  BY DEF IInv, OneList, Subscribed, OnSubscribe, OnUnsubscribe
<1>4. Fed'
  BY DEF IInv, Fed, OnSubscribe, OnUnsubscribe
<1>5. FirstIsReference'
  BY DEF IInv, FirstIsReference, OnSubscribe, OnUnsubscribe
<1> QED
  BY <1>1, <1>2, <1>3, <1>4, <1>5 DEF IInv

\* A run begins with a new encoder.
LEMMA StartStep ==
    ASSUME IInv, NEW texture \in BOOLEAN, StartRun(texture)
    PROVE  IInv'
<1>1. NewRun(texture) \in Run /\ NewRun(texture).fresh
  BY RepeatAssumption DEF NewRun, Run
<1>2. TypeOK'
  BY <1>1 DEF IInv, TypeOK, StartRun, subscriptions, Pcs
<1>3. OneList' /\ Subscribed' /\ FirstIsReference'
  BY DEF IInv, OneList, Subscribed, FirstIsReference, StartRun, subscriptions
<1>4. Fed'
  BY <1>1 DEF Fed, StartRun
<1> QED
  BY <1>2, <1>3, <1>4 DEF IInv

\* A snapshot's Drop promotes the deferred subscribers and leaves the run.
LEMMA SwapStep ==
    ASSUME IInv, Swap
    PROVE  IInv'
<1>1. TypeOK'
  BY DEF IInv, TypeOK, Swap, history, Pcs
<1>2. OneList' /\ Subscribed' /\ FirstIsReference'
  BY DEF IInv, OneList, Subscribed, FirstIsReference, Swap, history
<1>3. Fed'
  BY DEF Fed, Swap, InRun
<1> QED
  BY <1>1, <1>2, <1>3 DEF IInv

\* The steps that move the thread only.
LEMMA MoveStep ==
    ASSUME IInv,
           \/ ExitThread \/ SetUpFails \/ LeaveLoop \/ Switch \/ DisplayChanged
           \/ WouldBlock \/ CaptureFails \/ Delivered \/ RequestRefresh \/ Join
           \/ \E protected \in BOOLEAN : Refresh(protected)
    PROVE  IInv'
<1>1. TypeOK /\ run' = run
      /\ UNCHANGED <<subscribes, new_subscribes, wanted, synced, undecodable>>
  BY DEF IInv, ExitThread, SetUpFails, LeaveLoop, Switch, DisplayChanged, WouldBlock, CaptureFails,
         Delivered, RequestRefresh, Join, Refresh, subscriptions, history
<1>2. active' \in BOOLEAN /\ refresh' \in BOOLEAN
  BY <1>1 DEF TypeOK, ExitThread, SetUpFails, LeaveLoop, Switch, DisplayChanged, WouldBlock, CaptureFails,
         Delivered, RequestRefresh, Join, Refresh
<1>3. disturbances' \in 0..MaxDisturbances
  <2>1. disturbances' = disturbances \/ (disturbances < MaxDisturbances /\ disturbances' = disturbances + 1)
    BY DEF ExitThread, SetUpFails, LeaveLoop, Switch, DisplayChanged, WouldBlock, CaptureFails,
         Delivered, RequestRefresh, Join, Refresh, Disturb
  <2> QED
    BY <1>1, <2>1, DisturbancesAssumption DEF TypeOK
<1>4. pc' \in Pcs /\ (pc' \in InRun => pc \in InRun)
  BY <1>1 DEF TypeOK, ExitThread, SetUpFails, LeaveLoop, Switch, DisplayChanged, WouldBlock, CaptureFails,
         Delivered, RequestRefresh, Join, Refresh, Pcs, InRun
<1> QED
  BY <1>1, <1>2, <1>3, <1>4, StutterStep DEF TypeOK

\* Time passes, or a frame that is not valid is captured.
LEMMA TimeStep ==
    ASSUME IInv, JoinExpires \/ ReferenceExpires \/ InvalidFrame
    PROVE  IInv'
<1>1. TypeOK /\ run \in Run /\ 0 \in 0..REPEAT_ENCODE_MAX
  BY RepeatAssumption DEF IInv, TypeOK
<1>2. \/ run' = [run EXCEPT !.join_started = "expired"]
      \/ run' = [run EXCEPT !.reference = "expired"]
      \/ run' = [run EXCEPT !.repeats = 0]
  BY DEF JoinExpires, ReferenceExpires, InvalidFrame
<1>3. run' \in Run /\ run'.fresh = run.fresh
  BY <1>1, <1>2 DEF Run
<1>4. /\ UNCHANGED <<subscribes, new_subscribes, wanted, synced, undecodable, active, refresh, disturbances>>
      /\ pc \in InRun /\ pc' \in Pcs
  BY <1>1 DEF TypeOK, JoinExpires, ReferenceExpires, InvalidFrame, subscriptions, history, InRun, Pcs
<1> QED
  BY <1>1, <1>3, <1>4, StutterStep DEF TypeOK

\* Frames: captured ones and repeated ones.
LEMMA EncodeStep ==
    ASSUME IInv, NEW f \in Frames, CaptureFrame(f) \/ Repeat(f)
    PROVE  IInv'
<1>1. TypeOK /\ run \in Run /\ 0 \in 0..REPEAT_ENCODE_MAX
  BY RepeatAssumption DEF IInv, TypeOK
<1>2. CASE CaptureFrame(f)
  <2> DEFINE r == [run EXCEPT !.replayable = @ \/ ~run.texture, !.repeats = 0]
  <2>1. r \in Run /\ r.fresh = run.fresh
    BY <1>1 DEF Run
  <2>2. /\ pc = "checked" /\ pc' = "waiting" /\ HandleOneFrame(r, f)
        /\ UNCHANGED <<wanted, active, refresh, disturbances>>
    BY <1>2 DEF CaptureFrame
  <2> HIDE DEF r
  <2> QED
    BY <2>1, <2>2, FrameStep
<1>3. CASE Repeat(f)
  <2> DEFINE r == [run EXCEPT !.repeats = @ + 1]
  <2>1. run.repeats + 1 \in 0..REPEAT_ENCODE_MAX
    BY <1>1, <1>3, RepeatAssumption DEF Run, Repeat, MayRepeat
  <2>2. r \in Run /\ r.fresh = run.fresh
    BY <1>1, <2>1 DEF Run
  <2>3. /\ pc = "checked" /\ pc' = "waiting" /\ HandleOneFrame(r, f)
        /\ UNCHANGED <<wanted, active, refresh, disturbances>>
    BY <1>3 DEF Repeat
  <2> HIDE DEF r
  <2> QED
    BY <2>2, <2>3, FrameStep
<1> QED
  BY <1>2, <1>3

-----------------------------------------------------------------------------

\* The inductive invariant of the service: types, disjoint lists that hold whoever
\* wants the service (on_subscribe, on_unsubscribe, swap_new_subscribes), and fed
\* subscribers in every run.
THEOREM Invariance == Spec => []IInv
<1>1. Init => IInv
  <2> SUFFICES ASSUME Init PROVE IInv
    OBVIOUS
  <2>1. NewRun(FALSE) \in Run
    BY RepeatAssumption DEF NewRun, Run
  <2>2. TypeOK
    <3>1. 0 \in 0..MaxDisturbances /\ "idle" \in Pcs
      BY DisturbancesAssumption DEF Pcs
    <3>2. active \in BOOLEAN /\ refresh \in BOOLEAN
      BY Zenon DEF Init
    <3> QED
      BY <2>1, <3>1, <3>2 DEF Init, TypeOK
  <2>3. OneList /\ Subscribed /\ Fed /\ FirstIsReference
    BY DEF Init, OneList, Subscribed, Fed, FirstIsReference, InRun
  <2> QED
    BY <2>2, <2>3 DEF IInv
<1>2. IInv /\ [Next]_vars => IInv'
  <2> SUFFICES ASSUME IInv, [Next]_vars PROVE IInv'
    OBVIOUS
  <2>1. CASE UNCHANGED vars
    <3>1. TypeOK' /\ OneList' /\ Subscribed' /\ Fed' /\ FirstIsReference'
      BY <2>1 DEF vars, IInv, TypeOK, OneList, Subscribed, Fed, FirstIsReference
    <3> QED
      BY <3>1 DEF IInv
  <2>2. CASE \E c \in Conns : OnSubscribe(c) \/ OnUnsubscribe(c)
    BY <2>2, ConnStep
  <2>3. CASE \/ ExitThread \/ SetUpFails \/ LeaveLoop \/ Switch \/ DisplayChanged
             \/ WouldBlock \/ CaptureFails \/ Delivered \/ RequestRefresh \/ Join
             \/ \E protected \in BOOLEAN : Refresh(protected)
    BY <2>3, MoveStep
  <2>4. CASE JoinExpires \/ ReferenceExpires \/ InvalidFrame
    BY <2>4, TimeStep
  <2>5. CASE Swap
    BY <2>5, SwapStep
  <2>6. CASE \E texture \in BOOLEAN : StartRun(texture)
    BY <2>6, StartStep
  <2>7. CASE \E cadence, recreated, other \in BOOLEAN, answer \in {"in_place", "recreated", "failed"} :
                CheckReference(cadence, recreated, other, answer)
    BY <2>7, CheckStep
  <2>8. CASE \E f \in Frames : CaptureFrame(f) \/ Repeat(f)
    BY <2>8, EncodeStep
  <2> QED
    BY <2>1, <2>2, <2>3, <2>4, <2>5, <2>6, <2>7, <2>8 DEF Next, ThreadStep
<1> QED
  BY <1>1, <1>2, PTL DEF Spec

\* No subscriber gets a delta before the reference it builds on, whichever way it was
\* promoted (send_video_frame_with_join, ServiceSwap::drop).
THEOREM FirstIsReferenceHolds == Spec => []FirstIsReference
BY Invariance, PTL DEF IInv

\* The lists hold exactly the connections that subscribed last (on_unsubscribe removes
\* from one list only, which is enough because they are disjoint).
THEOREM SubscribedHolds == Spec => []Subscribed
BY Invariance, PTL DEF IInv
=============================================================================
