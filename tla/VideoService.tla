---------------------------- MODULE VideoService ----------------------------
(***************************************************************************)
(* A video service: the subscriptions of server/service.rs and the loop of *)
(* server/video_service.rs that captures, encodes and sends frames.        *)
(* Connections subscribe and leave at any time, under the service's lock;  *)
(* a new subscriber of a video service is deferred (need_snapshot) until a *)
(* frame that starts with a key frame is sent to it.  The service thread   *)
(* asks the encoder for one, replaces the encoder when none comes, and     *)
(* starts over when a join has waited too long.                            *)
(*                                                                         *)
(* One step is one critical section of the thread or of a connection.  A   *)
(* frame is what the join looks at: it starts with a key frame ("key"),    *)
(* contains one further on ("mixed"), or contains none ("delta").  Clocks  *)
(* are replaced by the expiry of what is measured.  Other reasons for a    *)
(* reference frame (lost deliveries, bitrate, secure desktop) are inputs.  *)
(*                                                                         *)
(* Definitions whose name ends in Defect carry a seeded bug; no            *)
(* specification uses them, they measure what the properties can see.      *)
(***************************************************************************)
EXTENDS Naturals, FiniteSets

CONSTANTS
    Conns,               \* connections
    REPEAT_ENCODE_MAX,   \* repeat_encode_max
    LatencyFree,         \* Encoder::latency_free
    MaxDisturbances      \* bound: restarts that the subscribers did not cause

ASSUME RepeatAssumption == REPEAT_ENCODE_MAX \in Nat
ASSUME LatencyAssumption == LatencyFree \in BOOLEAN
ASSUME DisturbancesAssumption == MaxDisturbances \in Nat

VARIABLES
    subscribes,       \* ServiceInner::subscribes
    new_subscribes,   \* ServiceInner::new_subscribes, waiting for a reference
    active,           \* ServiceInner::active
    refresh,          \* OPTION_REFRESH
    pc,               \* where the service thread is
    run,              \* the locals of the capture run
    disturbances,     \* restarts used up
    wanted,           \* history: the connections whose last call was on_subscribe
    synced,           \* history: subscribers that got a reference in this stream
    undecodable       \* history: subscribers that got a delta before any reference

vars == <<subscribes, new_subscribes, active, refresh, pc, run, disturbances,
          wanted, synced, undecodable>>
subscriptions == <<subscribes, new_subscribes, wanted>>
history == <<synced, undecodable>>

\* "idle" is the outer loop of ServiceTmpl::run, "looping" the head of the capture
\* loop, "refreshing" the answer to OPTION_REFRESH, "checked" the capture call,
\* "waiting" the wait for the deliveries of a frame and "swapping" the time between
\* the snapshot's send and its Drop.
Pcs == {"idle", "looping", "refreshing", "checked", "waiting", "swapping", "ended"}
InRun == {"looping", "refreshing", "checked", "waiting"}
Frames == {"key", "mixed", "delta"}

Run == [texture : BOOLEAN, encoded : BOOLEAN, replayable : BOOLEAN,
        join_started : {"none", "recent", "expired"},
        reference : {"none", "asked", "unanswered", "expired"},
        fresh : BOOLEAN, repeats : 0..REPEAT_ENCODE_MAX]
\* A new run has a new encoder, whose first packet is a key frame (fresh).
NewRun(texture) ==
    [texture |-> texture, encoded |-> FALSE, replayable |-> FALSE, join_started |-> "none",
     reference |-> "none", fresh |-> TRUE, repeats |-> 0]

-----------------------------------------------------------------------------
(* Connections: on_subscribe, on_unsubscribe, options, join *)

OnSubscribeDefect(c) ==   \* does not look for an active subscription
    /\ new_subscribes' = new_subscribes \cup {c}
    /\ wanted' = wanted \cup {c}
    /\ UNCHANGED <<subscribes, active, refresh, pc, run, disturbances, synced, undecodable>>
OnSubscribe(c) ==
    /\ new_subscribes' = new_subscribes \cup ({c} \ subscribes)
    /\ wanted' = wanted \cup {c}
    /\ UNCHANGED <<subscribes, active, refresh, pc, run, disturbances, synced, undecodable>>

OnUnsubscribe(c) ==
    /\ subscribes' = subscribes \ {c}
    /\ new_subscribes' = IF c \in subscribes THEN new_subscribes ELSE new_subscribes \ {c}
    /\ wanted' = wanted \ {c}
    /\ synced' = synced \ {c}
    /\ UNCHANGED <<active, refresh, pc, run, disturbances, undecodable>>

Disturb == disturbances < MaxDisturbances /\ disturbances' = disturbances + 1

\* refresh_video_display
RequestRefresh ==
    /\ ~refresh /\ Disturb
    /\ refresh' = TRUE
    /\ UNCHANGED <<subscriptions, active, pc, run, history>>

\* The server is dropped and waits for the thread.
Join ==
    /\ active
    /\ active' = FALSE
    /\ UNCHANGED <<subscriptions, refresh, pc, run, disturbances, history>>

-----------------------------------------------------------------------------
(* The outer loop: ServiceTmpl::run *)

HasSubscribes == subscribes # {} \/ new_subscribes # {}
OkDefect == HasSubscribes   \* forgets to look whether the service is stopped
Ok == active /\ HasSubscribes

\* A capture run begins; refresh requests that came before are answered by it.
StartRun(texture) ==
    /\ pc = "idle" /\ active /\ HasSubscribes
    /\ pc' = "looping" /\ run' = NewRun(texture) /\ refresh' = FALSE
    /\ synced' = {}
    /\ UNCHANGED <<subscriptions, active, disturbances, undecodable>>
\* The capturer or the encoder cannot be made, or (Android) the scale has changed, which
\* is told as a display change; the thread sleeps and tries again.
SetUpFails ==
    /\ pc = "idle" /\ active /\ HasSubscribes /\ Disturb
    /\ \/ pc' = "idle"
       \/ new_subscribes # {} /\ pc' = "swapping"
    /\ UNCHANGED <<subscriptions, active, refresh, run, history>>
ExitThread ==
    /\ pc = "idle" /\ ~active
    /\ pc' = "ended"
    /\ UNCHANGED <<subscriptions, active, refresh, run, disturbances, history>>

-----------------------------------------------------------------------------
(* The head of the capture loop: references for those who wait *)

\* The encoder is replaced (recreate_encoder_at_quality, recreate_encoder_at_fps).
Recreated(r) == [r EXCEPT !.reference = "asked", !.fresh = TRUE, !.repeats = 0]
\* The encoder accepts request_keyframe.
Asked(r) == [r EXCEPT !.reference = "asked", !.repeats = 0]

JoinActionDefect(r) ==   \* waits for the reference for ever
    CASE new_subscribes = {}                             -> "Forget"
      [] new_subscribes # {} /\ ~r.encoded                -> "Wait"
      [] new_subscribes # {} /\ r.encoded /\ ~r.replayable -> "Restart"
      [] OTHER -> IF r.join_started = "none" THEN "Reference" ELSE "Wait"
\* subscriber_join_action
JoinAction(r) ==
    CASE new_subscribes = {}                -> "Forget"
      [] new_subscribes # {} /\ ~r.encoded  -> "Wait"
      [] new_subscribes # {} /\ r.encoded /\ (~r.replayable \/ r.join_started = "expired")
                                            -> "Restart"
      [] OTHER -> IF r.join_started = "none" THEN "Reference" ELSE "Wait"
Joining(r) ==
    [r EXCEPT !.join_started = CASE JoinAction(r) = "Forget"    -> "none"
                                 [] JoinAction(r) = "Reference" -> "recent"
                                 [] OTHER                       -> @]

\* sp.ok() is false, or a join restarts the service.
LeaveLoop ==
    /\ pc = "looping" /\ (~Ok \/ JoinAction(run) = "Restart")
    /\ pc' = "idle"
    /\ UNCHANGED <<subscriptions, active, refresh, run, disturbances, history>>

\* A Movie cadence change or an expired reference replaces the encoder, or fails to; a
\* join or another reason for a reference asks the encoder or, if that is not
\* supported, replaces it or fails to, unless it was just replaced.
CheckReference(cadence, recreated, other, answer) ==
    /\ pc = "looping" /\ Ok /\ JoinAction(run) # "Restart"
    /\ LET old == cadence \/ (recreated /\ run.reference = "expired")
           r1  == IF old THEN Recreated(run) ELSE run
           r2  == Joining(r1)
           ask == (other \/ JoinAction(r1) = "Reference") /\ ~old
       IN  run' = CASE ask /\ answer = "in_place"  -> Asked(r2)
                    [] ask /\ answer = "recreated" -> Recreated(r2)
                    [] OTHER                       -> r2
    /\ pc' = IF refresh THEN "refreshing" ELSE "checked"
    /\ UNCHANGED <<subscriptions, active, refresh, disturbances, history>>

\* Time: the 10 s of a join, and the second after which a reference that frames did
\* not bring counts as timed out.
JoinExpires ==
    /\ run.join_started = "recent" /\ pc \in InRun
    /\ run' = [run EXCEPT !.join_started = "expired"]
    /\ UNCHANGED <<subscriptions, active, refresh, pc, disturbances, history>>
ReferenceExpires ==
    /\ run.reference = "unanswered" /\ pc \in InRun
    /\ run' = [run EXCEPT !.reference = "expired"]
    /\ UNCHANGED <<subscriptions, active, refresh, pc, disturbances, history>>

-----------------------------------------------------------------------------
(* The ways out of a run: every one starts a new stream *)

\* A changed setting, desktop, backend or encoder makes the run bail out.
Switch ==
    /\ pc \in {"looping", "checked", "waiting"} /\ Disturb
    /\ pc' = "idle"
    /\ UNCHANGED <<subscriptions, active, refresh, run, history>>

\* The display changed, was refreshed, or the privacy mode did: subscribers are told,
\* deferred ones in a snapshot, whose Drop promotes whoever is deferred by then.
DisplayChanged ==
    /\ pc \in {"refreshing", "checked", "waiting"}
    /\ IF pc = "refreshing" THEN UNCHANGED disturbances ELSE Disturb
    /\ pc' = IF new_subscribes = {} THEN "idle" ELSE "swapping"
    /\ UNCHANGED <<subscriptions, active, refresh, run, history>>
SwapDefect ==   \* the run goes on
    /\ pc = "swapping"
    /\ subscribes' = subscribes \cup new_subscribes /\ new_subscribes' = {}
    /\ pc' = "looping"
    /\ UNCHANGED <<wanted, active, refresh, run, disturbances, history>>
Swap ==
    /\ pc = "swapping"
    /\ subscribes' = subscribes \cup new_subscribes /\ new_subscribes' = {}
    /\ pc' = "idle"
    /\ UNCHANGED <<wanted, active, refresh, run, disturbances, history>>

\* A refresh restarts the run, or is dropped while the capture helper starts.
Refresh(protected) ==
    /\ pc = "refreshing"
    /\ pc' = IF protected THEN "checked" ELSE "idle"
    /\ refresh' = ~protected
    /\ UNCHANGED <<subscriptions, active, run, disturbances, history>>

-----------------------------------------------------------------------------
(* Capturing, encoding and sending *)

\* send_video_frame_with_join: promotion and delivery in one critical section.
Send(f) ==
    LET joins   == f = "key"
        targets == subscribes \cup IF joins THEN new_subscribes ELSE {}
    IN  /\ subscribes' = targets
        /\ new_subscribes' = IF joins THEN {} ELSE new_subscribes
        /\ synced' = IF joins THEN targets ELSE synced
        /\ undecodable' = undecodable \cup IF joins THEN {} ELSE targets \ synced

\* What the encoder made of an input: the first packet of a new encoder is a key frame.
Encoded(r, f) ==
    [r EXCEPT !.encoded = TRUE, !.fresh = FALSE,
              !.reference = CASE r.reference = "none" \/ f # "delta" -> "none"
                              [] r.reference = "asked"              -> "unanswered"
                              [] OTHER                              -> r.reference]
\* handle_one_frame with the run r: a packet is sent, or there is none yet.
HandleOneFrame(r, f) ==
    \/ /\ r.fresh => f = "key"
       /\ run' = Encoded(r, f)
       /\ Send(f)
    \/ /\ run' = r
       /\ UNCHANGED <<subscribes, new_subscribes, history>>

\* A frame is captured, encoded and sent; texture frames leave nothing to repeat.
CaptureFrame(f) ==
    /\ pc = "checked"
    /\ HandleOneFrame([run EXCEPT !.replayable = @ \/ ~run.texture, !.repeats = 0], f)
    /\ pc' = "waiting"
    /\ UNCHANGED <<wanted, active, refresh, disturbances>>
\* The capturer returned a frame that is not valid.
InvalidFrame ==
    /\ pc = "checked"
    /\ run' = [run EXCEPT !.repeats = 0]
    /\ pc' = "waiting"
    /\ UNCHANGED <<subscriptions, active, refresh, disturbances, history>>
\* Nothing new on the screen: the last frame is encoded again while a reference is
\* outstanding, a bounded number of times.
MayRepeat ==
    /\ run.replayable /\ (~LatencyFree \/ run.reference # "none")
    /\ run.repeats < REPEAT_ENCODE_MAX
Repeat(f) ==
    /\ pc = "checked" /\ MayRepeat
    /\ HandleOneFrame([run EXCEPT !.repeats = @ + 1], f)
    /\ pc' = "waiting"
    /\ UNCHANGED <<wanted, active, refresh, disturbances>>
WouldBlock ==
    /\ pc = "checked" /\ ~MayRepeat
    /\ pc' = "waiting"
    /\ UNCHANGED <<subscriptions, active, refresh, run, disturbances, history>>
\* Capturing or encoding failed for good; the run ends.
CaptureFails ==
    /\ pc = "checked" /\ Disturb
    /\ pc' = "idle"
    /\ UNCHANGED <<subscriptions, active, refresh, run, history>>

\* The frame was delivered, or waited for long enough.
Delivered ==
    /\ pc = "waiting"
    /\ pc' = "looping"
    /\ UNCHANGED <<subscriptions, active, refresh, run, disturbances, history>>

-----------------------------------------------------------------------------
Init ==
    /\ subscribes = {} /\ new_subscribes = {} /\ active = TRUE /\ refresh = FALSE
    /\ pc = "idle" /\ run = NewRun(FALSE) /\ disturbances = 0
    /\ wanted = {} /\ synced = {} /\ undecodable = {}

ThreadStep ==
    \/ ExitThread \/ SetUpFails \/ LeaveLoop \/ Switch \/ DisplayChanged \/ Swap
    \/ InvalidFrame \/ WouldBlock \/ CaptureFails \/ Delivered
    \/ \E texture \in BOOLEAN : StartRun(texture)
    \/ \E cadence, recreated, other \in BOOLEAN, answer \in {"in_place", "recreated", "failed"} :
            CheckReference(cadence, recreated, other, answer)
    \/ \E protected \in BOOLEAN : Refresh(protected)
    \/ \E f \in Frames : CaptureFrame(f) \/ Repeat(f)
Next ==
    \/ ThreadStep \/ JoinExpires \/ ReferenceExpires \/ RequestRefresh \/ Join
    \/ \E c \in Conns : OnSubscribe(c) \/ OnUnsubscribe(c)

Spec == Init /\ [][Next]_vars

\* The thread runs and time passes.  A run comes to its first packet: the capturer
\* delivers a first frame, and an encoder that stays silent is replaced.
FirstPacket == ~run.encoded /\ CaptureFrame("key") /\ run'.encoded
FairSpec ==
    /\ Spec /\ WF_vars(ThreadStep) /\ WF_vars(JoinExpires) /\ WF_vars(ReferenceExpires)
    /\ SF_vars(FirstPacket)

-----------------------------------------------------------------------------
(* Properties *)

TypeOK ==
    /\ subscribes \subseteq Conns /\ new_subscribes \subseteq Conns
    /\ active \in BOOLEAN /\ refresh \in BOOLEAN /\ pc \in Pcs /\ run \in Run
    /\ disturbances \in 0..MaxDisturbances
    /\ wanted \subseteq Conns /\ synced \subseteq Conns /\ undecodable \subseteq Conns

\* The first frame of a stream that a subscriber gets starts with a key frame, whoever
\* promoted it and whatever replaced the encoder in between
\* (send_video_frame_with_join: "Promotion and first reference-frame delivery share
\* the service lock").
FirstIsReference == undecodable = {}

\* The two lists hold exactly the connections that want the service: no promotion
\* loses one, and an unsubscribe leaves no entry behind (on_unsubscribe).
Subscribed == subscribes \cup new_subscribes = wanted

\* A deferred subscriber gets a reference frame, unless it leaves or the service stops,
\* even if nothing moves on the screen and the encoder ignores every request
\* (subscriber_join_action).
JoinServed ==
    \A c \in Conns :
        c \in new_subscribes ~> c \in subscribes \cap synced \/ c \notin wanted \/ ~active

\* join returns: a stopped service's thread ends, whoever is still subscribed.
StopEnds == ~active ~> pc = "ended"
=============================================================================
