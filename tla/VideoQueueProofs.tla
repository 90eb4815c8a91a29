-------------------------- MODULE VideoQueueProofs --------------------------
(***************************************************************************)
(* Proofs about VideoQueue, for every number of displays, frames, streams, *)
(* barriers and every budget.                                              *)
(***************************************************************************)
EXTENDS VideoQueue, WellFoundedInduction, FiniteSetTheorems, TLAPS

\* A nonempty set of natural numbers has a least element.
LEMMA NatMinimum ==
    ASSUME NEW T \in SUBSET Nat, T # {}
    PROVE  \E m \in T : \A y \in T : m <= y
<1> DEFINE Less == {ss \in Nat \X Nat : ss[1] < ss[2]}
<1>1. IsWellFoundedOn(Less, Nat)
    BY NatLessThanWellFounded DEF OpToRel
<1> HIDE DEF Less
<1>2. PICK m \in T : \A y \in T : ~(<<y, m>> \in Less)
    BY <1>1, WFMin, Zenon
<1>3. ASSUME NEW y \in T PROVE m <= y
    <2>1. <<y, m>> \notin Less
        BY <1>2
    <2>2. y \in Nat /\ m \in Nat /\ <<y, m>> \in Nat \X Nat
        OBVIOUS
    <2>3. y < m => <<y, m>> \in Less
        BY <2>2 DEF Less
    <2> QED BY <2>1, <2>2, <2>3
<1> QED BY <1>3

\* A nonempty bounded set of natural numbers has a greatest element, which Max
\* of the community modules denotes.
LEMMA MaxOfBounded ==
    ASSUME NEW n \in Nat, NEW T \in SUBSET (0 .. n), T # {}
    PROVE  Max(T) \in T
<1> DEFINE U == {n - x : x \in T}
<1>1. U \in SUBSET Nat /\ U # {}
    <2>1. \A x \in T : x \in Nat /\ x <= n
        OBVIOUS
    <2>2. \A x \in T : n - x \in Nat
        BY <2>1
    <2> QED BY <2>2
<1>2. PICK m \in U : \A y \in U : m <= y
    BY <1>1, NatMinimum
<1>3. PICK x \in T : m = n - x
    BY <1>2
<1>4. ASSUME NEW y \in T PROVE x >= y
    <2>1. n - y \in U
        OBVIOUS
    <2>2. n - x <= n - y
        BY <2>1, <1>2, <1>3
    <2>3. x \in Int /\ y \in Int
        OBVIOUS
    <2> QED BY <2>2, <2>3
<1> QED BY <1>3, <1>4 DEF Max

\* The front of a nonempty set of entries is an entry of it that arrived first.
LEMMA FrontIsFirst ==
    ASSUME NEW S \in SUBSET Entry, S # {}
    PROVE  Front(S) \in S /\ \A x \in S : Front(S).at <= x.at
<1> DEFINE A == {x.at : x \in S}
<1>1. A \in SUBSET Nat /\ A # {}
    BY DEF Entry
<1>2. PICK m \in A : \A y \in A : m <= y
    BY <1>1, NatMinimum
<1>3. PICK e \in S : m = e.at
    BY <1>2
<1>4. \A x \in S : e.at <= x.at
    BY <1>2, <1>3
<1> QED BY <1>3, <1>4 DEF Front

-----------------------------------------------------------------------------
(* Types *)

\* The constants are natural numbers, the divisors positive.
LEMMA ConstantsTyped ==
    /\ DISPLAYS \in Nat \ {0} /\ QUANTUM \in Nat \ {0} /\ MAX_FRAME_BYTES \in Nat \ {0}
    /\ MaxFrame \in Nat /\ MAX_REFRESHES \in Nat
BY QueueConstants

\* A loss keeps the track well typed.
LEMMA LossTyped ==
    ASSUME NEW t \in TrackType, NEW ms \in SUBSET Entry, NEW d \in Displays,
           NEW f \in 0 .. MaxFrame
    PROVE  LossTrack(t, LossFloor(ms, d, f)) \in TrackType
<1> DEFINE F == {f} \cup {e.frame : e \in {x \in Of(ms, d) : ~x.key}}
<1>1. F \in SUBSET (0 .. MaxFrame) /\ F # {}
    BY DEF Of, Entry
<1>2. LossFloor(ms, d, f) \in Nat
    <2>1. Max(F) \in F
        BY <1>1, MaxOfBounded, ConstantsTyped
    <2> QED BY <2>1, <1>1 DEF LossFloor
<1> HIDE DEF F
<1> QED BY <1>2 DEF LossTrack, TrackType

\* The number of visits to a display, and its credit after them.
LEMMA VisitsTyped ==
    ASSUME cursor \in Displays, NEW d \in Displays, NEW v \in Nat
    PROVE  /\ VisitsTo(d, v) \in Nat
           /\ VisitedAt(v) \in Displays
<1>1. (d - cursor) % DISPLAYS \in 0 .. DISPLAYS - 1
    BY ConstantsTyped DEF Displays
<1>2. (cursor + v) % DISPLAYS \in 0 .. DISPLAYS - 1
    BY ConstantsTyped DEF Displays
<1>3. \A n \in Nat : n \div DISPLAYS \in Nat
    BY ConstantsTyped
<1>4. VisitsTo(d, v) \in Nat
    BY <1>1, <1>3 DEF VisitsTo
<1> QED BY <1>2, <1>4 DEF VisitedAt, Displays

\* A round-robin visit leaves a display with a natural credit.
LEMMA CreditTyped ==
    ASSUME Types, NEW d \in Displays, NEW v \in Nat, VisitsTo(d, v) # 0
    PROVE  CreditAfter(d, v) \in Nat
<1>1. VisitsTo(d, v) \in Nat \ {0} /\ track[d].deficit \in Nat
    BY VisitsTyped DEF Types, TrackType
<1> DEFINE g == VisitsTo(d, v) - (IF continuing /\ d = cursor THEN 1 ELSE 0)
<1>2. g \in Nat
    BY <1>1
<1>3. g * QUANTUM \in Nat
    BY <1>2, ConstantsTyped
<1> HIDE DEF g
<1>4. track[d].deficit + g * QUANTUM \in Nat /\ MAX_FRAME_BYTES + QUANTUM \in Nat
    BY <1>1, <1>3, ConstantsTyped
<1> QED BY <1>4 DEF CreditAfter, g

\* The visits of pop change nothing of a track but its deficit.
LEMMA TracksTyped ==
    ASSUME Types, NEW v \in Nat, NEW paid \in Nat,
           paid = 0 \/ CreditAfter(VisitedAt(v), v) >= paid
    PROVE  /\ TracksAfter(v, paid) \in [Displays -> TrackType]
           /\ \A d \in Displays :
                /\ TracksAfter(v, paid)[d].stream = track[d].stream
                /\ TracksAfter(v, paid)[d].enabled = track[d].enabled
                /\ TracksAfter(v, paid)[d].recovering = track[d].recovering
<1> DEFINE D(d) == IF Of(BeforeBarrier, d) = {} THEN 0
                   ELSE CreditAfter(d, v) - (IF d = VisitedAt(v) THEN paid ELSE 0)
           T(d) == IF VisitsTo(d, v) = 0 THEN track[d] ELSE [track[d] EXCEPT !.deficit = D(d)]
<1>1. ASSUME NEW d \in Displays
      PROVE  /\ T(d) \in TrackType /\ T(d).stream = track[d].stream
             /\ T(d).enabled = track[d].enabled /\ T(d).recovering = track[d].recovering
    <2>1. track[d] \in TrackType
        BY DEF Types
    <2>2. VisitsTo(d, v) # 0 => D(d) \in Nat
        <3>1. VisitsTo(d, v) # 0 => CreditAfter(d, v) \in Nat
            BY CreditTyped
        <3> QED BY <3>1
    <2> HIDE DEF D
    <2> QED BY <2>1, <2>2 DEF TrackType
<1>2. TracksAfter(v, paid) = [d \in Displays |-> T(d)]
    BY DEF TracksAfter
<1> HIDE DEF T
<1> QED BY <1>1, <1>2

\* A refresh request and the end of its interval keep a track well typed.
LEMMA RefreshTyped ==
    ASSUME NEW t \in TrackType, NEW c \in BOOLEAN, NEW r \in Nat
    PROVE  /\ [t EXCEPT !.cooling = c, !.refreshes = r] \in TrackType
           /\ [t EXCEPT !.cooling = c] \in TrackType
BY DEF TrackType

\* The initial state has the right types.
LEMMA TypesInit == Init => Types
<1> SUFFICES ASSUME Init PROVE Types
    OBVIOUS
<1>1. Track(0, FALSE) \in TrackType
    BY DEF Track, TrackType
<1>2. 0 \in Displays
    BY ConstantsTyped DEF Displays
<1>3. track \in [Displays -> TrackType]
    BY <1>1 DEF Init
<1>4. run \in [{0} \cup Streams -> [display : Displays \cup {NoDisplay}, next : Nat \ {0}]]
    BY DEF Init
<1>5. wire \in [Displays -> [stream : Nat, frame : Nat]]
    BY DEF Init
<1> QED BY <1>2, <1>3, <1>4, <1>5 DEF Init, Types

\* What push leaves of the queue and of the tracks.
LEMMA PushVideoTypes ==
    ASSUME Types, NEW d \in Displays, NEW s \in Streams, NEW f \in 0 .. MaxFrame,
           NEW k \in BOOLEAN, NEW n \in Nat, PushVideo(d, s, f, k, n)
    PROVE  /\ messages' \in SUBSET Entry /\ arrivals' \in Nat
           /\ track' \in [Displays -> TrackType]
           /\ UNCHANGED <<cursor, continuing, fatal>>
<1> DEFINE fresh == track[d].stream # s
           t == IF fresh THEN Track(s, ~k) ELSE track[d]
           ms == IF fresh \/ k THEN Purge(messages, d, FALSE) ELSE messages
<1>1. t \in TrackType
    BY DEF Track, TrackType, Types, Streams
<1>2. ms \in SUBSET Entry
    BY DEF Types, Purge
<1>3. Video(d, s, f, k, n) \in Entry
    BY DEF Video, Entry, Types, Streams
<1>4. LossTrack(t, LossFloor(ms, d, f)) \in TrackType
    BY <1>1, <1>2, LossTyped
<1>5. \A r \in BOOLEAN :
        [t EXCEPT !.recovering = @ /\ ~r, !.refreshes = IF r THEN 0 ELSE @] \in TrackType
    BY <1>1 DEF TrackType
<1> HIDE DEF t, ms, fresh
<1>6. CASE UNCHANGED queueVars
    BY <1>6 DEF Types, queueVars
<1>7. CASE /\ messages' = Purge(ms, d, TRUE)
           /\ track' = [track EXCEPT ![d] = LossTrack(t, LossFloor(ms, d, f))]
           /\ UNCHANGED <<arrivals, cursor, continuing, fatal>>
    BY <1>7, <1>2, <1>4 DEF Types, Purge
<1>8. CASE /\ messages' = ms \cup {Video(d, s, f, k, n)}
           /\ arrivals' = arrivals + 1
           /\ track' = [track EXCEPT ![d] =
                 [t EXCEPT !.recovering = @ /\ ~(k /\ (f = 0 \/ f > t.lost_through)),
                           !.refreshes = IF k /\ (f = 0 \/ f > t.lost_through) THEN 0 ELSE @]]
           /\ UNCHANGED <<cursor, continuing, fatal>>
    <2>1. PICK r \in BOOLEAN : track' = [track EXCEPT ![d] =
              [t EXCEPT !.recovering = @ /\ ~r, !.refreshes = IF r THEN 0 ELSE @]]
        BY <1>8
    <2>2. track' \in [Displays -> TrackType]
        BY <2>1, <1>5 DEF Types
    <2> QED BY <1>8, <2>2, <1>2, <1>3 DEF Types
<1> QED BY <1>6, <1>7, <1>8 DEF PushVideo, t, ms, fresh

\* The entry pop takes is one of the queue: the first to arrive, or the first of
\* its display among those that no barrier precedes.
LEMMA HeadIsFirst ==
    ASSUME Types, NEW d \in Displays, Of(BeforeBarrier, d) # {}
    PROVE  /\ HeadOf(d) \in messages /\ HeadOf(d) \in BeforeBarrier /\ HeadOf(d).display = d
           /\ \A x \in BeforeBarrier : x.display = d => HeadOf(d).at <= x.at
<1>1. Of(BeforeBarrier, d) \in SUBSET Entry
    BY DEF Of, BeforeBarrier, Types
<1>2. /\ HeadOf(d) \in Of(BeforeBarrier, d)
      /\ \A x \in Of(BeforeBarrier, d) : HeadOf(d).at <= x.at
    BY <1>1, FrontIsFirst DEF HeadOf
<1> QED BY <1>2 DEF Of, BeforeBarrier

\* Recv either takes an entry (a front barrier, or the head of a display) and
\* changes only deficits of the tracks, or takes none.
RecvTakes(e) ==
    /\ e \in messages /\ messages' = messages \ {e} /\ hand' = {e}
    /\ \/ e.display = NoDisplay /\ \A x \in messages : e.at <= x.at
       \/ /\ e.display # NoDisplay /\ e \in BeforeBarrier
          /\ \A x \in BeforeBarrier : x.display = e.display => e.at <= x.at

\* What recv does to the queue, the hand and the tracks.
LEMMA RecvEffect ==
    ASSUME Types, Recv
    PROVE  /\ \/ \E e \in messages : RecvTakes(e)
              \/ UNCHANGED <<messages, hand>>
           /\ track' \in [Displays -> TrackType]
           /\ \A d \in Displays : /\ track'[d].stream = track[d].stream
                                  /\ track'[d].enabled = track[d].enabled
                                  /\ track'[d].recovering = track[d].recovering
           /\ cursor' \in Displays /\ continuing' \in BOOLEAN /\ waiting' \in BOOLEAN
           /\ hand = {} /\ parked = {}
           /\ UNCHANGED <<arrivals, fatal, permit, unnotified, parked, closed, run,
                          wire, wireBarrier, wantKey>>
<1>0. /\ UNCHANGED <<permit, unnotified, parked, closed, run, wire, wireBarrier, wantKey>>
      /\ hand = {} /\ parked = {} /\ waiting' \in BOOLEAN
    BY DEF Recv, Receiving, wireVars, Types
<1>1. CASE PopBarrier
    <2>1. messages # {} /\ Front(messages) \in messages
          /\ \A x \in messages : Front(messages).at <= x.at
        BY <1>1, FrontIsFirst DEF PopBarrier, Types
    <2>2. RecvTakes(Front(messages))
        BY <1>1, <2>1 DEF PopBarrier, Take, RecvTakes
    <2> QED BY <1>0, <1>1, <2>1, <2>2 DEF PopBarrier, Take, Types
<1>2. CASE PopVideo
    <2>1. PICK v \in 0 .. PopVisits - 1 :
             /\ Pays(v)
             /\ track' = TracksAfter(v, HeadOf(VisitedAt(v)).bytes)
             /\ cursor' = VisitedAt(v) /\ continuing' = TRUE
             /\ Take(HeadOf(VisitedAt(v)))
        BY <1>2 DEF PopVideo
    <2>2. v \in Nat
        OBVIOUS
    <2>3. VisitedAt(v) \in Displays
        BY <2>2, VisitsTyped DEF Types
    <2> DEFINE e == HeadOf(VisitedAt(v))
    <2>4. /\ e \in messages /\ e \in BeforeBarrier
          /\ \A x \in BeforeBarrier : x.display = e.display => e.at <= x.at
          /\ CreditAfter(VisitedAt(v), v) >= e.bytes
        BY <2>1, <2>3, HeadIsFirst DEF Pays
    <2>5. e.bytes \in Nat
        BY <2>4 DEF Types, Entry
    <2>6. RecvTakes(e)
        BY <2>1, <2>4 DEF RecvTakes, Take, BeforeBarrier
    <2>7. /\ track' \in [Displays -> TrackType]
          /\ \A d \in Displays : /\ track'[d].stream = track[d].stream
                                 /\ track'[d].enabled = track[d].enabled
                                 /\ track'[d].recovering = track[d].recovering
        BY <2>1, <2>2, <2>4, <2>5, TracksTyped
    <2> HIDE DEF e
    <2> QED BY <1>0, <2>1, <2>3, <2>4, <2>6, <2>7 DEF Take
<1>3. CASE PopNone
    <2>1. PopVisits - 1 \in Nat
        <3>1. (MAX_FRAME_BYTES \div QUANTUM) \in Nat
            BY ConstantsTyped
        <3> DEFINE q == MAX_FRAME_BYTES \div QUANTUM
        <3>2. q \in Nat /\ PopVisits = DISPLAYS * (q + 1)
            BY <3>1 DEF PopVisits
        <3> HIDE DEF q
        <3>3. DISPLAYS * (q + 1) >= 1 /\ DISPLAYS * (q + 1) \in Nat
            BY <3>2, ConstantsTyped
        <3> QED BY <3>2, <3>3
    <2>2. /\ TracksAfter(PopVisits - 1, 0) \in [Displays -> TrackType]
          /\ \A d \in Displays :
                /\ TracksAfter(PopVisits - 1, 0)[d].stream = track[d].stream
                /\ TracksAfter(PopVisits - 1, 0)[d].enabled = track[d].enabled
                /\ TracksAfter(PopVisits - 1, 0)[d].recovering = track[d].recovering
        BY <2>1, TracksTyped
    <2>3. \/ track' = track /\ continuing' = continuing
          \/ track' = TracksAfter(PopVisits - 1, 0) /\ continuing' = FALSE
        BY <1>3 DEF PopNone
    <2>4. /\ track' \in [Displays -> TrackType] /\ continuing' \in BOOLEAN
          /\ \A d \in Displays : /\ track'[d].stream = track[d].stream
                                 /\ track'[d].enabled = track[d].enabled
                                 /\ track'[d].recovering = track[d].recovering
        BY <2>2, <2>3 DEF Types
    <2>5. UNCHANGED <<messages, arrivals, cursor, fatal, hand>>
        BY <1>3 DEF PopNone
    <2> QED BY <1>0, <2>4, <2>5 DEF Types
<1> QED BY <1>1, <1>2, <1>3 DEF Recv

\* Lose changes the queue and one track, and keeps both well typed.
LEMMA LoseTypes ==
    ASSUME Types, NEW e \in hand, e.display # NoDisplay, Lose(e)
    PROVE  /\ messages' \in SUBSET Entry /\ track' \in [Displays -> TrackType]
           /\ UNCHANGED <<arrivals, cursor, continuing, fatal>>
<1>1. e.display \in Displays /\ e.frame \in 0 .. MaxFrame
    BY DEF Types, Entry
<1>2. LossTrack(track[e.display], LossFloor(messages, e.display, e.frame)) \in TrackType
    BY <1>1, LossTyped DEF Types
<1> QED BY <1>1, <1>2 DEF Lose, Types, Purge, queueVars

\* Every step keeps every variable in its type.
LEMMA TypesStep == Types /\ [Next]_vars => Types'
<1> SUFFICES ASSUME Types, [Next]_vars PROVE Types'
    OBVIOUS
<1> USE DEF queueVars, wakeVars, taskVars, wireVars
<1>1. CASE UNCHANGED vars
    BY <1>1 DEF Types, vars
<1>2. ASSUME NEW s \in Streams, NEW d \in Displays, StartRun(s, d) PROVE Types'
    BY <1>2 DEF StartRun, Types
<1>3. ASSUME NEW s \in Streams, NEW k \in BOOLEAN, NEW n \in FrameSizes, SendVideo(s, k, n)
      PROVE  Types'
    <2>1. /\ run[s].display \in Displays /\ run[s].next \in 0 .. MaxFrame /\ n \in Nat
        BY <1>3, QueueConstants DEF SendVideo, Types
    <2>2. PushVideo(run[s].display, s, run[s].next, k, n)
        BY <1>3 DEF SendVideo
    <2>3. /\ messages' \in SUBSET Entry /\ arrivals' \in Nat
          /\ track' \in [Displays -> TrackType]
          /\ UNCHANGED <<cursor, continuing, fatal>>
        BY <2>1, <2>2, PushVideoTypes
    <2>4. run' \in [{0} \cup Streams -> [display : Displays \cup {NoDisplay}, next : Nat \ {0}]]
        BY <1>3 DEF SendVideo, Types
    <2>5. unnotified' \subseteq {0} \cup Streams /\ wantKey' \subseteq Displays
        BY <1>3 DEF SendVideo, Types
    <2>6. UNCHANGED <<permit, waiting, taskVars, wireVars>>
        BY <1>3 DEF SendVideo
    <2> QED BY <2>3, <2>4, <2>5, <2>6 DEF Types
<1>4. ASSUME NEW n \in BarrierSizes, SendBarrier(n) PROVE Types'
    <2>1. BarrierOf(n) \in Entry
        BY QueueConstants DEF BarrierOf, Entry, Types
    <2>2. /\ messages' \in SUBSET Entry /\ arrivals' \in Nat /\ fatal' \in BOOLEAN
          /\ UNCHANGED <<track, cursor, continuing>>
        <3>1. PushBarrier(n)
            BY <1>4 DEF SendBarrier
        <3>2. CASE BarrierRefused(n)
            BY <3>1, <3>2 DEF PushBarrier, Types
        <3>3. CASE ~BarrierRefused(n)
            BY <3>1, <3>3, <2>1 DEF PushBarrier, Types
        <3> QED BY <3>2, <3>3
    <2>3. run' \in [{0} \cup Streams -> [display : Displays \cup {NoDisplay}, next : Nat \ {0}]]
        BY <1>4 DEF SendBarrier, Types
    <2> QED BY <1>4, <2>2, <2>3 DEF SendBarrier, Types
<1>5. ASSUME NEW p \in {0} \cup Streams, NotifyOne(p) PROVE Types'
    BY <1>5 DEF NotifyOne, Types
<1>6. CASE Recv
    <2>1. \/ hand' = hand
          \/ \E e \in messages : hand' = {e}
        BY <1>6, RecvEffect DEF RecvTakes
    <2>2. hand' \in SUBSET Entry /\ \A x, y \in hand' : x = y
        BY <2>1 DEF Types
    <2>3. messages' \in SUBSET Entry
        BY <1>6, RecvEffect DEF Types, RecvTakes
    <2> QED BY <1>6, RecvEffect, <2>2, <2>3 DEF Types
<1>7. CASE RecvFatal
    BY <1>7 DEF RecvFatal, Types
<1>8. CASE Wake
    BY <1>8 DEF Wake, Types
<1>9. CASE SendOk
    <2>1. PICK e \in hand :
            IF e.display = NoDisplay
            THEN wireBarrier' = e.at /\ UNCHANGED wire
            ELSE /\ wire' = [wire EXCEPT ![e.display] = [stream |-> e.stream, frame |-> e.frame]]
                 /\ UNCHANGED wireBarrier
        BY <1>9 DEF SendOk
    <2>2. e.at \in Nat /\ e.stream \in Nat /\ e.frame \in Nat /\ e.display \in Displays \cup {NoDisplay}
        BY ConstantsTyped DEF Types, Entry
    <2>3. wireBarrier' \in Nat /\ wire' \in [Displays -> [stream : Nat, frame : Nat]]
        BY <2>1, <2>2 DEF Types
    <2> QED BY <1>9, <2>3 DEF SendOk, Types
<1>10. CASE DropFrame
    <2>1. /\ messages' \in SUBSET Entry /\ track' \in [Displays -> TrackType]
          /\ UNCHANGED <<arrivals, cursor, continuing, fatal>>
        BY <1>10, LoseTypes DEF DropFrame
    <2> QED BY <1>10, <2>1 DEF DropFrame, Types
<1>11. CASE ParkBarrier
    BY <1>11 DEF ParkBarrier, Types
<1>12. CASE SendError
    BY <1>12 DEF SendError, Types
<1>13. CASE Tick
    <2>1. track' \in [Displays -> TrackType]
        <3>1. \A d \in Displays : track[d] \in TrackType
            BY DEF Types
        <3>2. ASSUME NEW d \in Displays
              PROVE  [track[d] EXCEPT !.cooling = TRUE, !.refreshes = @ + 1] \in TrackType
            <4>1. track[d].refreshes + 1 \in Nat
                BY <3>1 DEF TrackType
            <4> QED BY <3>1, <4>1, RefreshTyped
        <3> QED BY <1>13, <3>1, <3>2 DEF Tick
    <2>2. wireBarrier' \in Nat /\ parked' \in SUBSET Entry /\ \A x, y \in parked' : x = y
        BY <1>13 DEF Tick, RetryParked, Types, Entry
    <2>3. wantKey' \subseteq Displays
        BY <1>13 DEF Tick, Due, Types
    <2> QED BY <1>13, <2>1, <2>2, <2>3 DEF Tick, Types
<1>14. ASSUME NEW d \in Displays, RefreshIntervalOver(d) PROVE Types'
    <2>1. [track[d] EXCEPT !.cooling = FALSE] \in TrackType
        BY RefreshTyped DEF Types
    <2>2. track' \in [Displays -> TrackType]
        BY <1>14, <2>1 DEF RefreshIntervalOver, Types
    <2> QED BY <1>14, <2>2 DEF RefreshIntervalOver, Types
<1>15. ASSUME NEW on \in Selections, SetDisplays(on) PROVE Types'
    <2>1. \A d \in Displays : track[d] \in TrackType
        BY DEF Types
    <2>2. track' \in [Displays -> TrackType]
        BY <1>15, <2>1 DEF SetDisplays, TrackType
    <2> QED BY <1>15, <2>2 DEF SetDisplays, Types
<1> QED BY <1>1, <1>2, <1>3, <1>4, <1>5, <1>6, <1>7, <1>8, <1>9, <1>10, <1>11, <1>12,
           <1>13, <1>14, <1>15 DEF Next

\* Every variable keeps its type: no deficit, frame number or arrival number
\* leaves the naturals, and the connection task never holds two entries.
THEOREM TypesHold == Spec => []Types
<1> QED BY TypesInit, TypesStep, PTL DEF Spec
-----------------------------------------------------------------------------
(* Order: arrival numbers and barriers *)

\* What push does to the queue: ignore the frame; refuse it, dropping entries of
\* its display; or admit it at the back, after dropping entries of its display.
Survivors(d, deltasOnly) == Purge(messages, d, deltasOnly)

PushIgnores(d, s) ==
    /\ track[d].stream = s => ~track[d].enabled
    /\ UNCHANGED <<messages, arrivals, track>>

PushRefuses(d, s) ==
    /\ track[d].enabled /\ track[d].stream <= s
    /\ \/ messages' = Survivors(d, FALSE)
       \/ track[d].stream = s /\ messages' = Survivors(d, TRUE)
    /\ arrivals' = arrivals
    /\ track'[d].recovering /\ track'[d].enabled /\ track'[d].stream = s

PushAdmits(d, s, f, k, n) ==
    /\ track[d].enabled /\ track[d].stream <= s
    /\ \/ k /\ messages' = Survivors(d, FALSE) \cup {Video(d, s, f, k, n)}
       \/ /\ ~k /\ track[d].stream = s /\ ~track[d].recovering
          /\ messages' = messages \cup {Video(d, s, f, k, n)}
    /\ arrivals' = arrivals + 1
    /\ track'[d].enabled /\ track'[d].stream = s

\* The three ways State::push of a frame ends: ignored, refused as a loss, admitted.
LEMMA PushEffect ==
    ASSUME Types, NEW d \in Displays, NEW s \in Streams, NEW f \in 0 .. MaxFrame,
           NEW k \in BOOLEAN, NEW n \in Nat, PushVideo(d, s, f, k, n)
    PROVE  /\ PushIgnores(d, s) \/ PushRefuses(d, s) \/ PushAdmits(d, s, f, k, n)
           /\ \A x \in Displays : x # d => track'[x] = track[x]
<1> DEFINE fresh == track[d].stream # s
           t == IF fresh THEN Track(s, ~k) ELSE track[d]
           ms == IF fresh \/ k THEN Purge(messages, d, FALSE) ELSE messages
           rec == k /\ (f = 0 \/ f > t.lost_through)
<1>1. track[d] \in TrackType /\ s \in Nat
    BY DEF Types, Streams
<1>2. t \in TrackType /\ t.stream = s /\ (fresh => t.enabled /\ t.recovering = ~k)
      /\ (~fresh => t = track[d])
    BY <1>1 DEF Track, TrackType
<1>3. /\ messages \in SUBSET Entry
      /\ (fresh \/ k) => ms = Survivors(d, FALSE)
      /\ ~(fresh \/ k) => ms = messages
    BY DEF Types, Survivors
<1>4. Purge(Purge(messages, d, FALSE), d, TRUE) = Purge(messages, d, FALSE)
    BY DEF Purge
<1> HIDE DEF t, ms, fresh, rec
<1>5. CASE ~Accepts(track[d], s) /\ UNCHANGED queueVars
    BY <1>1, <1>5 DEF PushIgnores, queueVars, Accepts
<1>6. CASE /\ Accepts(track[d], s)
           /\ messages' = Purge(ms, d, TRUE)
           /\ track' = [track EXCEPT ![d] = LossTrack(t, LossFloor(ms, d, f))]
           /\ UNCHANGED <<arrivals, cursor, continuing, fatal>>
    <2>1. LossTrack(t, LossFloor(ms, d, f)).recovering
          /\ LossTrack(t, LossFloor(ms, d, f)).stream = t.stream
          /\ LossTrack(t, LossFloor(ms, d, f)).enabled = t.enabled
        BY <1>2 DEF LossTrack, TrackType
    <2>2. track[d].enabled /\ track[d].stream <= s
        BY <1>6, <1>1 DEF Accepts, TrackType
    <2>3. track'[d] = LossTrack(t, LossFloor(ms, d, f)) /\ \A x \in Displays : x # d => track'[x] = track[x]
        BY <1>6 DEF Types
    <2>4. \/ messages' = Survivors(d, FALSE)
          \/ track[d].stream = s /\ messages' = Survivors(d, TRUE)
        BY <1>6, <1>3, <1>4 DEF Survivors, fresh
    <2>5. t.enabled
        BY <1>2, <2>2
    <2> QED BY <1>6, <1>2, <2>1, <2>2, <2>3, <2>4, <2>5 DEF PushRefuses
<1>7. CASE /\ Accepts(track[d], s) /\ ~(~k /\ t.recovering)
           /\ messages' = ms \cup {Video(d, s, f, k, n)}
           /\ arrivals' = arrivals + 1
           /\ track' = [track EXCEPT ![d] =
                 [t EXCEPT !.recovering = @ /\ ~rec, !.refreshes = IF rec THEN 0 ELSE @]]
           /\ UNCHANGED <<cursor, continuing, fatal>>
    <2>1. track[d].enabled /\ track[d].stream <= s
        BY <1>7, <1>1 DEF Accepts, TrackType
    <2>2. /\ track'[d].stream = t.stream /\ track'[d].enabled = t.enabled
          /\ \A x \in Displays : x # d => track'[x] = track[x]
        BY <1>7, <1>2 DEF Types, TrackType
    <2>3. ~k => ~fresh /\ ~track[d].recovering /\ track[d].stream = s
        BY <1>7, <1>2 DEF fresh
    <2>4. t.enabled
        BY <1>2, <2>1
    <2> QED BY <1>7, <1>2, <1>3, <2>1, <2>2, <2>3, <2>4 DEF PushAdmits
<1> QED BY <1>5, <1>6, <1>7 DEF PushVideo, t, ms, fresh, rec

\* Arrival numbers identify queued entries and grow.
Numbered ==
    /\ wireBarrier < arrivals
    /\ \A e \in messages \cup hand \cup parked : e.at < arrivals
    /\ \A e, x \in messages : e.at = x.at => e = x
    /\ parked = {} \/ \A b \in parked : b.display = NoDisplay

\* Arrival numbers stay unique and below the counter, and nothing overtakes a
\* barrier, in every step.
Order == Numbered /\ BarrierOrder

\* Dropping entries from the queue keeps the order of the rest.
LEMMA OrderShrinks ==
    ASSUME Types, Order, messages' \subseteq messages, arrivals' = arrivals,
           UNCHANGED <<parked, wireBarrier>>, hand' = hand \/ hand' = {}
    PROVE  Order'
BY DEF Order, Numbered, BarrierOrder

\* An entry appended at the back of the queue arrives after everything else.
LEMMA OrderGrows ==
    ASSUME Types, Order, NEW ms \in SUBSET messages, NEW e \in Entry, e.at = arrivals,
           messages' = ms \cup {e}, arrivals' = arrivals + 1,
           UNCHANGED <<hand, parked, wireBarrier>>
    PROVE  Order'
<1>1. \A x \in messages \cup hand \cup parked : x.at \in Nat /\ x.at < arrivals
    BY DEF Order, Numbered, Types, Entry
<1>2. arrivals \in Nat /\ wireBarrier \in Nat /\ wireBarrier < arrivals
    BY DEF Types, Order, Numbered
<1>3. Numbered'
    BY <1>1, <1>2 DEF Order, Numbered
<1>4. BarrierOrder'
    BY <1>1, <1>2 DEF Order, BarrierOrder
<1> QED BY <1>3, <1>4 DEF Order

\* The empty queue is ordered.
LEMMA OrderInit == Init => Order
BY DEF Init, Order, Numbered, BarrierOrder

\* Every step keeps barriers and frames in their order of arrival.
LEMMA OrderStep == Types /\ Order /\ [Next]_vars => Order'
<1> SUFFICES ASSUME Types, Order, [Next]_vars PROVE Order'
    OBVIOUS
<1> USE DEF queueVars, wakeVars, taskVars, wireVars
<1>1. CASE UNCHANGED <<messages, arrivals, hand, parked, wireBarrier>>
    BY <1>1, OrderShrinks
<1>2. ASSUME NEW s \in Streams, NEW k \in BOOLEAN, NEW n \in FrameSizes, SendVideo(s, k, n)
      PROVE  Order'
    <2> DEFINE d == run[s].display
               f == run[s].next
    <2>1. d \in Displays /\ f \in 0 .. MaxFrame /\ n \in Nat
        BY <1>2, QueueConstants DEF SendVideo, Types
    <2>2. PushVideo(d, s, f, k, n) /\ UNCHANGED <<hand, parked, wireBarrier>>
        BY <1>2 DEF SendVideo
    <2>3. Video(d, s, f, k, n) \in Entry /\ Video(d, s, f, k, n).at = arrivals
        BY <2>1 DEF Video, Entry, Types, Streams
    <2> HIDE DEF d, f
    <2>4. PushIgnores(d, s) \/ PushRefuses(d, s) \/ PushAdmits(d, s, f, k, n)
        BY <2>1, <2>2, PushEffect
    <2>5. Survivors(d, TRUE) \subseteq messages /\ Survivors(d, FALSE) \subseteq messages
        BY DEF Survivors, Purge
    <2>6. CASE PushIgnores(d, s)
        BY <2>6, <2>2, OrderShrinks DEF PushIgnores
    <2>7. CASE PushRefuses(d, s)
        BY <2>7, <2>2, <2>5, OrderShrinks DEF PushRefuses
    <2>8. CASE PushAdmits(d, s, f, k, n)
        <3>1. \E ms \in SUBSET messages : messages' = ms \cup {Video(d, s, f, k, n)}
            BY <2>8, <2>5 DEF PushAdmits
        <3> QED BY <2>8, <3>1, <2>2, <2>3, OrderGrows DEF PushAdmits
    <2> QED BY <2>4, <2>6, <2>7, <2>8
<1>3. ASSUME NEW n \in BarrierSizes, SendBarrier(n) PROVE Order'
    <2>1. PushBarrier(n) /\ UNCHANGED <<hand, parked, wireBarrier>>
        BY <1>3 DEF SendBarrier
    <2>2. BarrierOf(n) \in Entry /\ BarrierOf(n).at = arrivals
        BY QueueConstants DEF BarrierOf, Entry, Types
    <2>3. CASE BarrierRefused(n)
        BY <2>1, <2>3, OrderShrinks DEF PushBarrier
    <2>4. CASE ~BarrierRefused(n)
        BY <2>1, <2>2, <2>4, OrderGrows DEF PushBarrier
    <2> QED BY <2>3, <2>4
<1>4. CASE Recv
    <2>1. /\ hand = {} /\ parked = {} /\ UNCHANGED <<arrivals, parked, wireBarrier>>
          /\ UNCHANGED <<messages, hand>> \/ \E e \in messages : RecvTakes(e)
        BY <1>4, RecvEffect
    <2>2. ASSUME NEW e \in messages, RecvTakes(e) PROVE Order'
        <3>1. \A x \in messages : x.at \in Nat
            BY DEF Types, Entry
        <3>2. \A x \in messages \ {e} : NoDisplay \in {x.display, e.display} => e.at < x.at
            BY <2>2, <3>1 DEF RecvTakes, BeforeBarrier, Barriers, Of, Order, Numbered
        <3>3. messages' = messages \ {e} /\ hand' = {e}
            BY <2>2 DEF RecvTakes
        <3>4. Numbered'
            BY <2>1, <3>3 DEF Order, Numbered
        <3>5. BarrierOrder'
            BY <2>1, <3>2, <3>3 DEF Order, BarrierOrder
        <3> QED BY <3>4, <3>5 DEF Order
    <2> QED BY <2>1, <2>2, <1>1
<1>5. CASE SendOk
    <2>1. PICK e \in hand :
            /\ e.display = NoDisplay => wireBarrier' = e.at
            /\ e.display # NoDisplay => UNCHANGED wireBarrier
        BY <1>5 DEF SendOk
    <2>2. hand' = {} /\ UNCHANGED <<messages, arrivals, parked>>
        BY <1>5 DEF SendOk
    <2>3. CASE e.display # NoDisplay
        BY <2>1, <2>2, <2>3, OrderShrinks
    <2>4. CASE e.display = NoDisplay
        <3>1. \A x \in messages : e.at < x.at
            BY <2>4 DEF Order, BarrierOrder
        <3>2. parked = {} /\ e.at < arrivals /\ wireBarrier' = e.at
            BY <2>1, <2>4 DEF Order, BarrierOrder, Numbered
        <3> QED BY <2>2, <3>1, <3>2 DEF Order, Numbered, BarrierOrder
    <2> QED BY <2>3, <2>4
<1>6. CASE DropFrame
    <2>1. PICK e \in hand : Lose(e)
        BY <1>6 DEF DropFrame
    <2>2. messages' \subseteq messages /\ arrivals' = arrivals
        BY <2>1 DEF Lose, Purge
    <2> QED BY <1>6, <2>2, OrderShrinks DEF DropFrame
<1>7. CASE ParkBarrier
    <2>1. /\ parked' = hand /\ hand' = {} /\ UNCHANGED <<messages, arrivals, wireBarrier>>
          /\ \E e \in hand : e.display = NoDisplay
        BY <1>7 DEF ParkBarrier
    <2>2. \A e \in hand : e.display = NoDisplay
        BY <2>1 DEF Types
    <2> QED BY <2>1, <2>2 DEF Order, Numbered, BarrierOrder
<1>8. CASE Tick
    <2>1. hand = {} /\ hand' = {} /\ UNCHANGED <<messages, arrivals>>
        BY <1>8 DEF Tick
    <2>2. CASE UNCHANGED <<parked, wireBarrier>>
        BY <2>1, <2>2, OrderShrinks
    <2>3. ASSUME NEW b \in parked, parked' = {}, wireBarrier' = b.at PROVE Order'
        <3>1. b.display = NoDisplay
            BY DEF Order, Numbered
        <3>2. (\A x \in messages : b.at < x.at) /\ b.at < arrivals
            BY <3>1 DEF Order, Numbered, BarrierOrder
        <3> QED BY <2>1, <2>3, <3>2 DEF Order, Numbered, BarrierOrder
    <2> QED BY <1>8, <2>2, <2>3 DEF Tick, RetryParked
<1>9. ASSUME NEW on \in Selections, SetDisplays(on) PROVE Order'
    <2>1. messages' \subseteq messages /\ UNCHANGED <<arrivals, hand, parked, wireBarrier>>
        BY <1>9 DEF SetDisplays
    <2> QED BY <2>1, OrderShrinks
<1>10. \/ UNCHANGED <<messages, arrivals, hand, parked, wireBarrier>>
       \/ \E s \in Streams, k \in BOOLEAN, n \in FrameSizes : SendVideo(s, k, n)
       \/ \E n \in BarrierSizes : SendBarrier(n)
       \/ Recv \/ SendOk \/ DropFrame \/ ParkBarrier \/ Tick
       \/ \E on \in Selections : SetDisplays(on)
    BY DEF Next, vars, StartRun, NotifyOne, RecvFatal, Wake, SendError, RefreshIntervalOver
<1> QED BY <1>1, <1>2, <1>3, <1>4, <1>5, <1>6, <1>7, <1>8, <1>9, <1>10

\* Frames and barriers reach the transport on the side of each other on which
\* they were queued, for any number of displays and barriers.
THEOREM BarrierOrderHolds == Spec => []BarrierOrder
<1>1. Order => BarrierOrder
    BY DEF Order
<1> QED BY OrderInit, OrderStep, TypesHold, <1>1, PTL DEF Spec
-----------------------------------------------------------------------------
(* References: what the viewer is sent can be decoded *)

\* Nothing is queued initially, so nothing lacks its reference.
LEMMA ReferencesInit == Init => References
<1> SUFFICES ASSUME Init PROVE References
    OBVIOUS
<1>1. \A d \in Displays : track[d].stream = 0 /\ wire[d].stream = 0
    BY DEF Init, Track
<1>2. messages = {} /\ hand = {}
    BY DEF Init
<1> QED BY <1>1, <1>2 DEF References, InStep, ReferenceChain

\* A display whose entries, track, run and wire do not change stays in step.
\* This covers every step that touches neither queue, hand, tracks, runs nor wire.
LEMMA ReferencesStutter ==
    ASSUME References, UNCHANGED <<messages, hand, run, wire>>,
           \A d \in Displays : /\ track'[d].stream = track[d].stream
                               /\ track'[d].enabled = track[d].enabled
                               /\ track'[d].recovering = track[d].recovering,
           Types
    PROVE  References'
<1>1. \A e \in messages \cup hand : e.display # NoDisplay => e.display \in Displays
    BY DEF Types, Entry
<1>2. InStep'
    BY <1>1 DEF References, InStep
<1>3. \A d, s, f : WireAt(d, s, f)' <=> WireAt(d, s, f)
    BY DEF WireAt, Of
<1>4. ReferenceChain'
    BY <1>1, <1>3 DEF References, ReferenceChain, After
<1> QED BY <1>2, <1>4 DEF References

\* The run a track or the wire refers to is one of Streams.
LEMMA StreamsKnown ==
    ASSUME Types, References
    PROVE  /\ \A d \in Displays : wire[d].stream # 0 => wire[d].stream \in Streams
           /\ \A d \in Displays : track[d].stream # 0 => track[d].stream \in Streams
           /\ \A e \in messages \cup hand : e.display # NoDisplay =>
                 e.display \in Displays /\ e.stream \in Streams
<1>1. \A d \in Displays : wire[d].stream \in Nat /\ track[d].stream \in Nat
    BY DEF Types, TrackType
<1>2. \A d \in Displays : track[d].stream # 0 => track[d].stream \in Streams
    BY DEF References, InStep
<1>3. \A d \in Displays : wire[d].stream <= track[d].stream
    BY DEF References, InStep
<1>4. MaxStreams \in Nat
    BY QueueConstants
<1>5. \A d \in Displays : wire[d].stream # 0 => wire[d].stream \in Streams
    BY <1>1, <1>2, <1>3, <1>4 DEF Streams
<1>6. \A e \in messages \cup hand : e.display # NoDisplay => e.display \in Displays
    BY DEF Types, Entry
<1> QED BY <1>2, <1>5, <1>6 DEF References, InStep

\* A new run belongs to no track yet.
LEMMA ReferencesStartRun ==
    ASSUME Types, References, NEW s \in Streams, NEW d \in Displays, StartRun(s, d)
    PROVE  References'
<1>1. run[s].display = NoDisplay /\ UNCHANGED <<messages, hand, track, wire>>
    BY DEF StartRun, queueVars, taskVars, wireVars
<1>2. \A r \in Streams : run'[r].next = run[r].next /\ (r # s => run'[r] = run[r])
    BY DEF StartRun, Types
<1>3. NoDisplay \notin Displays
    BY DEF NoDisplay, Displays
<1>4. \A x \in Displays : track[x].stream # s
    <2>1. 0 \notin Streams
        BY DEF Streams
    <2> QED BY <1>1, <1>3, <2>1 DEF References, InStep
<1>5. InStep'
    BY <1>1, <1>2, <1>4, StreamsKnown DEF References, InStep
<1>6. \A x, r, f : WireAt(x, r, f)' <=> WireAt(x, r, f)
    BY <1>1 DEF WireAt, Of
<1>7. ReferenceChain'
    BY <1>1, <1>2, <1>6, StreamsKnown DEF References, ReferenceChain, After
<1> QED BY <1>5, <1>7 DEF References

\* A barrier is no display's frame.
LEMMA ReferencesSendBarrier ==
    ASSUME Types, References, NEW n \in BarrierSizes, SendBarrier(n)
    PROVE  References'
<1>1. /\ UNCHANGED <<hand, track, wire>>
      /\ \A r \in Streams : run'[r] = run[r]
    BY DEF SendBarrier, PushBarrier, taskVars, wireVars, Types, Streams
<1>2. \/ messages' = messages
      \/ messages' = messages \cup {BarrierOf(n)}
    BY DEF SendBarrier, PushBarrier
<1>3. BarrierOf(n).display = NoDisplay
    BY DEF BarrierOf
<1>4. /\ messages \subseteq messages'
      /\ \A e \in messages' : e.display # NoDisplay => e \in messages
    BY <1>2, <1>3
<1>5. InStep'
    BY <1>1, <1>4, StreamsKnown DEF References, InStep
<1>6. \A x, r, f : WireAt(x, r, f)' <=> WireAt(x, r, f)
    BY <1>1 DEF WireAt, Of
<1>7. ReferenceChain'
    BY <1>1, <1>4, <1>6, StreamsKnown DEF References, ReferenceChain, After
<1> QED BY <1>5, <1>7 DEF References

\* Recv: the head of a display has its reference on the wire, and the frame that
\* follows it, if queued, now follows the hand.
LEMMA ReferencesRecv ==
    ASSUME Types, Order, References, Recv
    PROVE  References'
<1>1. /\ hand = {} /\ UNCHANGED <<run, wire>>
      /\ \A d \in Displays : /\ track'[d].stream = track[d].stream
                             /\ track'[d].enabled = track[d].enabled
                             /\ track'[d].recovering = track[d].recovering
      /\ UNCHANGED <<messages, hand>> \/ \E e \in messages : RecvTakes(e)
    BY RecvEffect
<1>2. CASE UNCHANGED <<messages, hand>>
    BY <1>1, <1>2, ReferencesStutter
<1>3. ASSUME NEW e \in messages, RecvTakes(e) PROVE References'
    <2>1. messages' = messages \ {e} /\ hand' = {e}
        BY <1>3 DEF RecvTakes
    <2>2. \A x \in messages : x.frame \in Nat /\ x.at \in Nat /\ x.stream \in Nat
        BY ConstantsTyped DEF Types, Entry
    <2>3. \A x \in messages : x # e /\ x.display = e.display /\ e.display # NoDisplay =>
              e.at < x.at /\ e.frame < x.frame
        <3>1. ASSUME NEW x \in messages, x # e, x.display = e.display, e.display # NoDisplay
              PROVE  e.at <= x.at
            <4>1. CASE x \in BeforeBarrier
                BY <1>3, <3>1, <4>1 DEF RecvTakes
            <4>2. CASE x \notin BeforeBarrier
                <5>1. PICK b \in Barriers(messages) : ~(x.at < b.at)
                    BY <3>1, <4>2 DEF BeforeBarrier
                <5>2. e.at < b.at
                    BY <1>3, <3>1, <5>1 DEF RecvTakes, BeforeBarrier
                <5>3. b \in messages
                    BY <5>1 DEF Barriers, Of
                <5> QED BY <2>2, <5>1, <5>2, <5>3
            <4> QED BY <4>1, <4>2
        <3>2. \A x \in messages : x.at = e.at => x = e
            BY DEF Order, Numbered
        <3> QED BY <3>1, <3>2, <2>2 DEF References, InStep
    <2>4. InStep'
        <3>1. \A x \in messages' \cup hand' : x \in messages
            BY <2>1
        <3>2. \A x \in messages' : x.display # NoDisplay =>
                /\ track'[x.display].enabled /\ x.stream = track'[x.display].stream /\ x.stream # 0
                /\ \A y \in messages' : y.display = x.display => (x.frame < y.frame <=> x.at < y.at)
            BY <1>1, <2>1, <3>1, StreamsKnown DEF References, InStep
        <3>3. \A x \in messages' : x.display # NoDisplay =>
                \A y \in hand' : y.display = x.display /\ y.stream = x.stream => y.frame < x.frame
            BY <2>1, <2>3
        <3>4. \A x \in hand' : x.display # NoDisplay =>
                x.stream \in Streams /\ x.stream <= track'[x.display].stream
            BY <1>1, <2>1, <2>2, StreamsKnown DEF References, InStep
        <3>5. \A x \in messages' \cup hand' : x.display # NoDisplay =>
                /\ x.frame < run'[x.stream].next
                /\ \/ wire'[x.display].stream < x.stream
                   \/ wire'[x.display].stream = x.stream /\ wire'[x.display].frame < x.frame
            BY <1>1, <3>1 DEF References, InStep
        <3>6. \A d \in Displays :
                /\ track'[d].stream # 0 => track'[d].stream \in Streams /\ run'[track'[d].stream].display = d
                /\ wire'[d].stream <= track'[d].stream
                /\ wire'[d].stream # 0 => wire'[d].frame < run'[wire'[d].stream].next
            BY <1>1 DEF References, InStep
        <3> QED BY <3>2, <3>3, <3>4, <3>5, <3>6 DEF InStep
    <2>5. e.display # NoDisplay /\ ~e.key =>
             wire[e.display] = [stream |-> e.stream, frame |-> e.frame - 1]
        <3>1. ASSUME e.display # NoDisplay, NEW x \in messages, After(e, x) PROVE FALSE
            BY <3>1, <2>2, <2>3 DEF After
        <3> QED BY <1>1, <3>1 DEF References, ReferenceChain, WireAt
    <2>6. ASSUME NEW x \in messages', x.display # NoDisplay, ~x.key
          PROVE  \/ \E y \in messages' \cup hand' : After(x, y)
                 \/ WireAt(x.display, x.stream, x.frame - 1)'
        <3>1. CASE \E y \in messages \cup hand : After(x, y)
            BY <1>1, <2>1, <3>1
        <3>2. CASE WireAt(x.display, x.stream, x.frame - 1) /\ x.display # e.display
            BY <1>1, <2>1, <3>2 DEF WireAt, Of
        <3>3. CASE WireAt(x.display, x.stream, x.frame - 1) /\ x.display = e.display
            <4>1. e.stream = x.stream /\ e.display \in Displays
                BY <2>1, <2>6, <3>3, StreamsKnown DEF References, InStep
            <4>2. wire[x.display].stream = x.stream /\ wire[x.display].frame = x.frame - 1
                BY <3>3 DEF WireAt
            <4>3. wire[e.display].frame < e.frame
                BY <2>6, <3>3, <4>1, <4>2, <2>2 DEF References, InStep
            <4>4. e.frame < x.frame
                BY <2>1, <2>3, <2>6, <3>3
            <4> QED BY <4>2, <4>3, <4>4, <3>3, <2>2, <2>1
        <3> QED BY <2>1, <2>6, <3>1, <3>2, <3>3 DEF References, ReferenceChain
    <2>7. ASSUME NEW d \in Displays, track'[d].enabled, ~track'[d].recovering, track'[d].stream # 0
          PROVE  \/ \E x \in messages' \cup hand' :
                       x.display = d /\ x.stream = track'[d].stream
                       /\ x.frame = run'[track'[d].stream].next - 1
                 \/ WireAt(d, track[d].stream, run[track[d].stream].next - 1)'
        <3> DEFINE s == track[d].stream
                   m == run[s].next - 1
        <3>1. \/ \E x \in messages \cup hand : x.display = d /\ x.stream = s /\ x.frame = m
              \/ WireAt(d, s, m)
            BY <1>1, <2>7 DEF References, ReferenceChain
        <3>2. CASE \E x \in messages \cup hand : x.display = d /\ x.stream = s /\ x.frame = m
            BY <1>1, <2>1, <3>2
        <3>3. CASE WireAt(d, s, m) /\ e.display # d
            BY <1>1, <2>1, <3>3 DEF WireAt, Of
        <3>4. CASE WireAt(d, s, m) /\ e.display = d
            <4>1. d # NoDisplay
                BY DEF NoDisplay, Displays
            <4>2. e.stream = s /\ e.frame < run[s].next /\ wire[d].frame < e.frame
                BY <3>4, <4>1, <2>2 DEF References, InStep, WireAt
            <4>3. wire[d].frame = run[s].next - 1 /\ run[s].next \in Nat
                BY <3>4, <2>7, <1>1, StreamsKnown DEF WireAt, Types
            <4> QED BY <4>2, <4>3, <2>2
        <3> QED BY <3>1, <3>2, <3>3, <3>4
    <2>8. \A x \in hand' : x.display # NoDisplay /\ ~x.key =>
              wire'[x.display] = [stream |-> x.stream, frame |-> x.frame - 1]
        BY <1>1, <2>1, <2>5
    <2>9. ReferenceChain'
        BY <2>6, <2>7, <2>8 DEF ReferenceChain
    <2> QED BY <2>4, <2>9 DEF References
<1> QED BY <1>1, <1>2, <1>3

\* A barrier leaves the hand: no display's frame moves.
LEMMA ReferencesBarrierLeaves ==
    ASSUME Types, References, NEW e \in hand, e.display = NoDisplay, hand' = {},
           UNCHANGED <<messages, track, run, wire>>
    PROVE  References'
<1>1. \A x \in hand : x.display = NoDisplay
    BY DEF Types
<1>2. NoDisplay \notin Displays
    BY DEF NoDisplay, Displays
<1>3. \A x \in messages : x.display # NoDisplay => x.display \in Displays
    BY StreamsKnown
<1>4. \A d \in Displays : \A s, f : WireAt(d, s, f) => WireAt(d, s, f)'
    BY DEF WireAt, Of
<1>5. InStep'
    BY DEF References, InStep
<1>6. ReferenceChain'
    BY <1>1, <1>2, <1>3, <1>4 DEF References, ReferenceChain, After
<1> QED BY <1>5, <1>6 DEF References

\* The transport accepts the frame in hand: the wire takes its place.
LEMMA ReferencesSendOk ==
    ASSUME Types, References, SendOk
    PROVE  References'
<1>1. PICK e \in hand :
        IF e.display = NoDisplay
        THEN UNCHANGED wire
        ELSE wire' = [wire EXCEPT ![e.display] = [stream |-> e.stream, frame |-> e.frame]]
    BY DEF SendOk
<1>2. hand' = {} /\ UNCHANGED <<messages, track, run>>
    BY DEF SendOk, queueVars
<1>3. CASE e.display = NoDisplay
    BY <1>1, <1>2, <1>3, ReferencesBarrierLeaves
<1>4. CASE e.display # NoDisplay
    <2> DEFINE d == e.display
    <2>1. d \in Displays /\ e.stream \in Streams /\ hand = {e}
        BY <1>4, StreamsKnown DEF Types
    <2>2. \A x \in messages \cup hand : x.frame \in Nat /\ x.stream \in Nat
        BY ConstantsTyped DEF Types, Entry
    <2>3. /\ wire'[d] = [stream |-> e.stream, frame |-> e.frame]
          /\ \A x \in Displays : x # d => wire'[x] = wire[x]
        BY <1>1, <1>4, <2>1 DEF Types
    <2> HIDE DEF d
    <2>4. \A x \in Displays :
            /\ track[x].stream # 0 => track[x].stream \in Streams /\ run[track[x].stream].display = x
            /\ wire'[x].stream <= track[x].stream
            /\ wire'[x].stream # 0 => wire'[x].frame < run[wire'[x].stream].next
        BY <1>4, <2>1, <2>3 DEF References, InStep, d
    <2>5. ASSUME NEW x \in messages, x.display # NoDisplay
          PROVE  \/ wire'[x.display].stream < x.stream
                 \/ wire'[x.display].stream = x.stream /\ wire'[x.display].frame < x.frame
        <3>1. x.display \in Displays
            BY <2>5, StreamsKnown
        <3>2. CASE x.display # d
            BY <2>3, <2>5, <3>1, <3>2 DEF References, InStep
        <3>3. CASE x.display = d
            <4>1. x.stream = track[d].stream /\ e.stream <= track[d].stream
                BY <1>4, <2>5, <3>3 DEF References, InStep, d
            <4>2. e.stream = x.stream => e.frame < x.frame
                BY <2>5, <3>3 DEF References, InStep, d
            <4> QED BY <2>2, <2>3, <3>3, <4>1, <4>2
        <3> QED BY <3>2, <3>3
    <2>6. InStep'
        BY <1>2, <2>4, <2>5 DEF References, InStep
    <2>7. ASSUME NEW c \in Displays, NEW s, NEW f, WireAt(c, s, f)
          PROVE  WireAt(c, s, f)'
        <3>1. c # d
            BY <2>1, <2>7 DEF WireAt, Of, d
        <3> QED BY <1>2, <2>3, <2>7, <3>1 DEF WireAt, Of
    <2>8. WireAt(d, e.stream, e.frame)'
        BY <1>2, <2>3 DEF WireAt, Of
    <2>9. ASSUME NEW x \in messages, x.display # NoDisplay, ~x.key
          PROVE  \/ \E y \in messages' \cup hand' : After(x, y)
                 \/ WireAt(x.display, x.stream, x.frame - 1)'
        <3>1. CASE \E y \in messages : After(x, y)
            BY <1>2, <3>1
        <3>2. CASE After(x, e)
            <4>1. x.display = d /\ x.stream = e.stream /\ x.frame - 1 = e.frame
                BY <2>2, <3>2 DEF After, d
            <4> QED BY <4>1, <2>8
        <3>3. CASE WireAt(x.display, x.stream, x.frame - 1)
            BY <2>7, <2>9, <3>3, StreamsKnown
        <3> QED BY <2>1, <2>9, <3>1, <3>2, <3>3 DEF References, ReferenceChain
    <2>10. ASSUME NEW c \in Displays, track[c].enabled, ~track[c].recovering, track[c].stream # 0
           PROVE  \/ \E x \in messages' \cup hand' :
                       x.display = c /\ x.stream = track[c].stream
                       /\ x.frame = run[track[c].stream].next - 1
                  \/ WireAt(c, track[c].stream, run[track[c].stream].next - 1)'
        <3> DEFINE s == track[c].stream
                   m == run[s].next - 1
        <3>1. \/ \E x \in messages \cup hand : x.display = c /\ x.stream = s /\ x.frame = m
              \/ WireAt(c, s, m)
            BY <2>10 DEF References, ReferenceChain
        <3>2. CASE \E x \in messages : x.display = c /\ x.stream = s /\ x.frame = m
            BY <1>2, <3>2
        <3>3. CASE e.display = c /\ e.stream = s /\ e.frame = m
            <4>1. WireAt(c, s, m)'
                BY <1>2, <2>8, <3>3 DEF d
            <4> QED BY <4>1, <1>2
        <3>4. CASE WireAt(c, s, m)
            <4>1. WireAt(c, s, m)'
                BY <1>2, <2>3, <2>7, <3>4 DEF WireAt
            <4> QED BY <4>1, <1>2
        <3> QED BY <2>1, <3>1, <3>2, <3>3, <3>4
    <2>11. ReferenceChain'
        BY <1>2, <2>9, <2>10 DEF ReferenceChain
    <2> QED BY <2>6, <2>11 DEF References
<1> QED BY <1>3, <1>4

\* A step that only drops frames: each display either keeps its entries and its
\* track, or is left with key frames at most and waits for a new one (or is off).
LEMMA ReferencesShrink ==
    ASSUME Types, References, Types',
           messages' \subseteq messages, hand' = {}, UNCHANGED <<run, wire>>,
           NEW Hit \in SUBSET Displays,
           \A e \in messages : e.display \notin Hit => e \in messages',
           \A d \in Hit : /\ track'[d].stream = track[d].stream
                          /\ track'[d].enabled => track'[d].recovering
                          /\ \A e \in messages' : e.display = d => e.key /\ track'[d].enabled,
           \A d \in Displays \ Hit : track'[d] = track[d],
           \A e \in hand : e.display \in Displays \ Hit =>
               track[e.display].stream # e.stream
    PROVE  References'
<1>1. \A x \in messages : x.display # NoDisplay => x.display \in Displays
    BY StreamsKnown
<1>2. \A d \in Displays : track'[d].stream = track[d].stream
    OBVIOUS
<1>3. \A x \in messages' : x.display # NoDisplay => track'[x.display].enabled
    BY <1>1 DEF References, InStep
<1>4. InStep'
    BY <1>1, <1>2, <1>3 DEF References, InStep
<1>5. \A d \in Displays : \A s, f : WireAt(d, s, f) => WireAt(d, s, f)'
    BY DEF WireAt, Of
<1>6. ASSUME NEW x \in messages', x.display # NoDisplay, ~x.key
      PROVE  \/ \E y \in messages' \cup hand' : After(x, y)
             \/ WireAt(x.display, x.stream, x.frame - 1)'
    <2>1. x.display \in Displays \ Hit /\ x.stream = track[x.display].stream
        BY <1>1, <1>6 DEF References, InStep
    <2>2. ASSUME NEW y \in messages \cup hand, After(x, y) PROVE y \in messages'
        BY <2>1, <2>2 DEF After
    <2> QED BY <1>5, <1>6, <2>1, <2>2 DEF References, ReferenceChain
<1>7. ASSUME NEW d \in Displays, track'[d].enabled, ~track'[d].recovering, track'[d].stream # 0
      PROVE  \/ \E x \in messages' \cup hand' :
                   x.display = d /\ x.stream = track'[d].stream
                   /\ x.frame = run'[track'[d].stream].next - 1
             \/ WireAt(d, track[d].stream, run[track[d].stream].next - 1)'
    <2>1. d \notin Hit /\ track'[d] = track[d]
        BY <1>7
    <2> DEFINE s == track[d].stream
               m == run[s].next - 1
    <2>2. \/ \E x \in messages \cup hand : x.display = d /\ x.stream = s /\ x.frame = m
          \/ WireAt(d, s, m)
        BY <1>7, <2>1 DEF References, ReferenceChain
    <2>3. CASE \E x \in messages \cup hand : x.display = d /\ x.stream = s /\ x.frame = m
        BY <2>1, <2>3
    <2>4. CASE WireAt(d, s, m)
        BY <1>5, <2>1, <2>4 DEF WireAt, Of
    <2> QED BY <2>2, <2>3, <2>4
<1>8. ReferenceChain'
    BY <1>6, <1>7 DEF ReferenceChain
<1> QED BY <1>4, <1>8 DEF References

\* A stale or refused frame takes the deltas that depend on it along.
LEMMA ReferencesDropFrame ==
    ASSUME Types, Types', References, DropFrame
    PROVE  References'
<1>1. PICK e \in hand : e.display # NoDisplay /\ Lose(e)
    BY DEF DropFrame
<1>2. hand' = {} /\ UNCHANGED <<run, wire>> /\ hand = {e}
    BY DEF DropFrame, wireVars, Types
<1>3. e.display \in Displays
    BY <1>1, StreamsKnown
<1>4. CASE track[e.display].stream # e.stream
    <2>1. UNCHANGED <<messages, track>>
        BY <1>1, <1>4 DEF Lose, queueVars
    <2> QED BY <1>2, <1>4, <2>1, ReferencesShrink
<1>5. CASE track[e.display].stream = e.stream
    <2> DEFINE d == e.display
               t == LossTrack(track[d], LossFloor(messages, d, e.frame))
    <2>1. messages' = Purge(messages, d, TRUE) /\ track' = [track EXCEPT ![d] = t]
        BY <1>1, <1>5 DEF Lose
    <2>2. t.recovering /\ t.stream = track[d].stream /\ t.enabled = track[d].enabled
        BY <1>3 DEF LossTrack, Types, TrackType
    <2> HIDE DEF t
    <2>3. track'[d] = t /\ \A x \in Displays : x # d => track'[x] = track[x]
        BY <1>3, <2>1 DEF Types
    <2>4. /\ messages' \subseteq messages
          /\ \A x \in messages : x.display \notin {d} => x \in messages'
          /\ \A x \in messages' : x.display = d => x.key
        BY <2>1 DEF Purge
    <2>5. \A x \in messages' : x.display = d => track[d].enabled
        BY <1>1, <2>4 DEF References, InStep
    <2>6. {d} \in SUBSET Displays
        BY <1>3
    <2>7. \A c \in {d} : /\ track'[c].stream = track[c].stream
                         /\ track'[c].enabled => track'[c].recovering
                         /\ \A x \in messages' : x.display = c => x.key /\ track'[c].enabled
        BY <2>2, <2>3, <2>4, <2>5
    <2>8. \A c \in Displays \ {d} : track'[c] = track[c]
        BY <2>3
    <2>9. \A x \in hand : x.display \in Displays \ {d} => track[x.display].stream # x.stream
        BY <1>2
    <2> HIDE DEF d
    <2> QED BY <1>2, <2>4, <2>6, <2>7, <2>8, <2>9, ReferencesShrink
<1> QED BY <1>4, <1>5

\* Switching a display off empties it; switching it on waits for a key frame.
LEMMA ReferencesSetDisplays ==
    ASSUME Types, Types', References, NEW on \in Selections, SetDisplays(on)
    PROVE  References'
<1> DEFINE Hit == {d \in Displays : ~(track[d].enabled <=> d \in on)}
<1>1. hand = {} /\ hand' = {} /\ UNCHANGED <<run, wire>>
    BY DEF SetDisplays, taskVars, wireVars
<1>2. /\ messages' \subseteq messages
      /\ \A e \in messages : e.display \notin Hit => e \in messages'
      /\ \A e \in messages' : e.display \notin Hit
    <2>1. \A e \in messages : e.display # NoDisplay =>
             e.display \in Displays /\ track[e.display].enabled
        BY StreamsKnown DEF References, InStep
    <2>2. messages' = {e \in messages :
                  e.display # NoDisplay /\ track[e.display].enabled => e.display \in on}
        BY DEF SetDisplays
    <2>3. NoDisplay \notin Displays
        BY DEF NoDisplay, Displays
    <2>4. ASSUME NEW e \in messages PROVE e \in messages' <=> e.display \notin Hit
        <3>1. CASE e.display = NoDisplay
            BY <2>2, <2>3, <3>1
        <3>2. CASE e.display # NoDisplay
            <4>1. e \in messages' <=> e.display \in on
                BY <2>1, <2>2, <3>2
            <4>2. e.display \in Hit <=> ~(e.display \in on)
                BY <2>1, <3>2
            <4> QED BY <4>1, <4>2
        <3> QED BY <3>1, <3>2
    <2> QED BY <2>2, <2>4
<1>3. \A d \in Displays : track[d].enabled \in BOOLEAN /\ track[d] \in TrackType
    BY DEF Types, TrackType
<1>4. \A d \in Hit : track'[d].stream = track[d].stream /\ (track'[d].enabled => track'[d].recovering)
    BY <1>3 DEF SetDisplays, TrackType
<1>5. \A d \in Displays \ Hit : track'[d] = track[d]
    BY <1>3 DEF SetDisplays
<1> HIDE DEF Hit
<1>6. Hit \in SUBSET Displays
    BY DEF Hit
<1> QED BY <1>1, <1>2, <1>4, <1>5, <1>6, ReferencesShrink

\* A pushed frame: ignored only when its display is off or has moved on, refused
\* only together with the deltas after it, admitted behind its reference.
LEMMA ReferencesSendVideo ==
    ASSUME Types, Types', Order, References,
           NEW s \in Streams, NEW k \in BOOLEAN, NEW n \in FrameSizes, SendVideo(s, k, n)
    PROVE  References'
<1> DEFINE d == run[s].display
           f == run[s].next
           v == Video(d, s, f, k, n)
<1>1. d \in Displays /\ f \in 0 .. MaxFrame /\ f \in Nat /\ n \in Nat /\ s \in Nat /\ s # 0
    BY QueueConstants DEF SendVideo, Types, Streams
<1>2. PushVideo(d, s, f, k, n) /\ UNCHANGED <<hand, wire>>
    BY DEF SendVideo, taskVars, wireVars
<1>3. /\ run'[s].next = f + 1 /\ run'[s].display = d
      /\ \A r \in Streams : r # s => run'[r] = run[r]
    BY DEF SendVideo, Types
<1>4. v.display = d /\ v.stream = s /\ v.frame = f /\ v.key = k /\ v.at = arrivals
    BY DEF Video
<1> HIDE DEF d, f, v
<1>5. /\ PushIgnores(d, s) \/ PushRefuses(d, s) \/ PushAdmits(d, s, f, k, n)
      /\ \A x \in Displays : x # d => track'[x] = track[x]
    BY <1>1, <1>2, PushEffect
<1>6. \A r \in Streams : run'[r].display = run[r].display /\ run[r].next <= run'[r].next
                         /\ run[r].next \in Nat /\ run'[r].next \in Nat
    BY <1>1, <1>3 DEF d, f, Types
<1>7. \A x \in Displays : track[x].stream \in Nat /\ wire[x].stream \in Nat /\ wire[x].frame \in Nat
    BY DEF Types, TrackType
<1>8. \A x \in messages \cup hand : x.frame \in Nat /\ x.at \in Nat /\ x.stream \in Nat /\ x.at < arrivals
    BY ConstantsTyped DEF Types, Entry, Order, Numbered
<1>9. \A x \in Displays : track[x].stream = s => x = d
    BY <1>1 DEF References, InStep, d
<1>10. track'[d].stream >= track[d].stream
    <2>1. CASE PushIgnores(d, s)
        BY <1>1, <1>7, <2>1 DEF PushIgnores
    <2>2. PushRefuses(d, s) => track[d].stream <= s /\ track'[d].stream = s
        BY DEF PushRefuses
    <2>3. PushAdmits(d, s, f, k, n) => track[d].stream <= s /\ track'[d].stream = s
        BY DEF PushAdmits
    <2> QED BY <1>1, <1>5, <1>7, <2>1, <2>2, <2>3
<1>11. \A x \in Displays :
        /\ track'[x].stream # 0 => track'[x].stream \in Streams /\ run'[track'[x].stream].display = x
        /\ wire'[x].stream <= track'[x].stream
        /\ wire'[x].stream # 0 => wire'[x].frame < run'[wire'[x].stream].next
    <2>1. track'[d].stream = track[d].stream \/ track'[d].stream = s
        BY <1>5 DEF PushIgnores, PushRefuses, PushAdmits
    <2>2. \A x \in Displays : wire[x].stream <= track'[x].stream
        BY <1>5, <1>7, <1>10, <2>1, <1>1 DEF References, InStep
    <2>3. \A x \in Displays : wire[x].stream # 0 => wire[x].frame < run'[wire[x].stream].next
        BY <1>6, <1>7, StreamsKnown DEF References, InStep
    <2>4. \A x \in Displays : track'[x].stream # 0 =>
             track'[x].stream \in Streams /\ run'[track'[x].stream].display = x
        BY <1>3, <1>5, <1>6, <2>1, StreamsKnown DEF References, InStep
    <2> QED BY <1>2, <2>2, <2>3, <2>4
<1>12. \A x \in messages \cup hand : x.display # NoDisplay =>
        /\ x.display \in Displays /\ x.stream \in Streams
        /\ x.frame < run[x.stream].next
        /\ x.frame < run'[x.stream].next
        /\ \/ wire'[x.display].stream < x.stream
           \/ wire'[x.display].stream = x.stream /\ wire'[x.display].frame < x.frame
    BY <1>2, <1>6, <1>8, StreamsKnown DEF References, InStep
<1>13. \A x \in hand : x.display # NoDisplay =>
        x.stream \in Streams /\ x.stream <= track'[x.display].stream
    <2>1. \A x \in hand : x.display # NoDisplay =>
             x.display \in Displays /\ x.stream \in Streams /\ x.stream <= track[x.display].stream
        BY StreamsKnown DEF References, InStep
    <2>2. track'[d].stream \in Nat
        BY <1>1 DEF Types, TrackType
    <2> QED BY <1>5, <1>7, <1>8, <1>10, <2>1, <2>2
<1>14. \A x \in messages \cup hand : x.display = d /\ x.stream = s => x.frame < f
    <2>1. d # NoDisplay
        BY <1>1 DEF NoDisplay, Displays
    <2> QED BY <1>12, <2>1 DEF f
<1>15. wire[d].stream < s \/ (wire[d].stream = s /\ wire[d].frame < f)
       \/ ~(PushAdmits(d, s, f, k, n))
    <2>1. wire[d].stream <= track[d].stream
        BY <1>1 DEF References, InStep
    <2>2. wire[d].stream = s => wire[d].frame < f
        BY <1>1 DEF References, InStep, f
    <2>3. PushAdmits(d, s, f, k, n) => track[d].stream <= s
        BY DEF PushAdmits
    <2> QED BY <1>1, <1>7, <2>1, <2>2, <2>3
<1>16. \A c, r, g : WireAt(c, r, g)' <=> WireAt(c, r, g)
    BY <1>2 DEF WireAt, Of
<1>17. CASE PushIgnores(d, s) \/ PushRefuses(d, s)
    <2>1. /\ messages' \subseteq messages
          /\ \A x \in messages : x.display # d => x \in messages'
        BY <1>17 DEF PushIgnores, PushRefuses, Survivors, Purge
    <2>2. CASE PushIgnores(d, s)
        <3>1. UNCHANGED <<messages, track>> /\ (track[d].stream = s => ~track[d].enabled)
            BY <2>2 DEF PushIgnores
        <3>2. InStep'
            BY <1>2, <1>11, <1>12, <1>13, <3>1 DEF References, InStep
        <3>3. \A x \in Displays : track[x].enabled /\ track[x].stream # 0 =>
                 run'[track[x].stream] = run[track[x].stream]
            BY <1>3, <1>9, <3>1, StreamsKnown
        <3>4. ReferenceChain'
            BY <1>2, <1>16, <3>1, <3>3 DEF References, ReferenceChain, After
        <3> QED BY <3>2, <3>4 DEF References
    <2>3. CASE PushRefuses(d, s)
        <3>1. /\ track'[d].recovering /\ track'[d].enabled /\ track'[d].stream = s
              /\ \/ messages' = Survivors(d, FALSE)
                 \/ track[d].stream = s /\ messages' = Survivors(d, TRUE)
            BY <2>3 DEF PushRefuses
        <3>2. \A x \in messages' : x.display = d => x.key /\ track[d].stream = s
            BY <3>1 DEF Survivors, Purge
        <3>3. ASSUME NEW x \in messages', x.display # NoDisplay
              PROVE  /\ track'[x.display].enabled /\ x.stream = track'[x.display].stream /\ x.stream # 0
                     /\ \A y \in messages' : y.display = x.display => (x.frame < y.frame <=> x.at < y.at)
                     /\ \A y \in hand' : y.display = x.display /\ y.stream = x.stream => y.frame < x.frame
            <4>1. /\ track[x.display].enabled /\ x.stream = track[x.display].stream /\ x.stream # 0
                  /\ \A y \in messages : y.display = x.display => (x.frame < y.frame <=> x.at < y.at)
                  /\ \A y \in hand : y.display = x.display /\ y.stream = x.stream => y.frame < x.frame
                BY <2>1, <3>3 DEF References, InStep
            <4>2. /\ x.display \in Displays
                BY <2>1, <3>3, <1>12
            <4>3. track'[x.display].enabled /\ x.stream = track'[x.display].stream
                BY <4>1, <4>2, <3>1, <3>2, <1>5, <3>3
            <4> QED BY <1>2, <2>1, <4>1, <4>3
        <3>4. InStep'
            BY <1>2, <1>11, <1>12, <1>13, <2>1, <3>3 DEF InStep
        <3>5. ASSUME NEW x \in messages', x.display # NoDisplay, ~x.key
              PROVE  \/ \E y \in messages' \cup hand' : After(x, y)
                     \/ WireAt(x.display, x.stream, x.frame - 1)'
            <4>1. x.display # d
                BY <3>2, <3>5
            <4> QED BY <1>2, <1>16, <2>1, <3>5, <4>1 DEF References, ReferenceChain, After
        <3>6. ASSUME NEW c \in Displays, track'[c].enabled, ~track'[c].recovering, track'[c].stream # 0
              PROVE  \/ \E x \in messages' \cup hand' :
                           x.display = c /\ x.stream = track'[c].stream
                           /\ x.frame = run'[track'[c].stream].next - 1
                     \/ WireAt(c, track[c].stream, run[track[c].stream].next - 1)'
            <4>1. c # d /\ track'[c] = track[c]
                BY <1>5, <3>1, <3>6
            <4>2. track[c].stream \in Streams /\ run'[track[c].stream] = run[track[c].stream]
                BY <1>3, <1>9, <3>6, <4>1, StreamsKnown
            <4> DEFINE r == track[c].stream
                       m == run[r].next - 1
            <4>3. \/ \E x \in messages \cup hand : x.display = c /\ x.stream = r /\ x.frame = m
                  \/ WireAt(c, r, m)
                BY <3>6, <4>1 DEF References, ReferenceChain
            <4>4. CASE \E x \in messages \cup hand : x.display = c /\ x.stream = r /\ x.frame = m
                BY <1>2, <2>1, <4>1, <4>2, <4>4
            <4>5. CASE WireAt(c, r, m)
                BY <1>2, <4>1, <4>2, <4>5 DEF WireAt, Of
            <4> QED BY <4>3, <4>4, <4>5
        <3>7. ReferenceChain'
            BY <1>2, <3>5, <3>6 DEF References, ReferenceChain
        <3> QED BY <3>4, <3>7 DEF References
    <2> QED BY <1>17, <2>2, <2>3
<1>18. CASE PushAdmits(d, s, f, k, n)
    <2>1. /\ track'[d].enabled /\ track'[d].stream = s
          /\ \/ k /\ messages' = Survivors(d, FALSE) \cup {v}
             \/ /\ ~k /\ track[d].stream = s /\ track[d].enabled /\ ~track[d].recovering
                /\ messages' = messages \cup {v}
        BY <1>18 DEF PushAdmits, v
    <2>2. /\ v \in messages' /\ \A x \in messages' : x = v \/ x \in messages
          /\ \A x \in messages : x.display # d => x \in messages'
          /\ \A x \in messages' : x # v /\ x.display = d => ~k /\ track[d].stream = s
        BY <2>1 DEF Survivors, Purge
    <2>3. d # NoDisplay
        BY <1>1 DEF NoDisplay, Displays
    <2>4. ASSUME NEW x \in messages', x.display # NoDisplay
          PROVE  /\ track'[x.display].enabled /\ x.stream = track'[x.display].stream /\ x.stream # 0
                 /\ \A y \in messages' : y.display = x.display => (x.frame < y.frame <=> x.at < y.at)
                 /\ \A y \in hand' : y.display = x.display /\ y.stream = x.stream => y.frame < x.frame
        <3>1. CASE x = v
            <4>1. \A y \in messages' : y.display = d /\ y # v => y.frame < f /\ y.at < arrivals
                <5>1. ASSUME NEW y \in messages', y.display = d, y # v PROVE y.stream = s
                    BY <2>2, <2>3, <5>1 DEF References, InStep
                <5> QED BY <1>8, <1>14, <2>2, <5>1
            <4>2. \A y \in messages' : y.display = d => (f < y.frame <=> arrivals < y.at)
                <5>1. arrivals \in Nat
                    BY DEF Types
                <5> QED BY <1>1, <1>4, <1>8, <2>2, <4>1, <5>1
            <4>3. \A y \in hand' : y.display = d /\ y.stream = s => y.frame < f
                BY <1>2, <1>14
            <4> QED BY <1>1, <1>4, <2>1, <3>1, <4>2, <4>3
        <3>2. CASE x # v
            <4>1. x \in messages
                BY <2>2, <3>2
            <4>2. /\ track[x.display].enabled /\ x.stream = track[x.display].stream /\ x.stream # 0
                  /\ \A y \in messages : y.display = x.display => (x.frame < y.frame <=> x.at < y.at)
                  /\ \A y \in hand : y.display = x.display /\ y.stream = x.stream => y.frame < x.frame
                BY <2>4, <4>1 DEF References, InStep
            <4>3. x.display \in Displays
                BY <2>4, <4>1, <1>12
            <4>4. track'[x.display].enabled /\ x.stream = track'[x.display].stream
                BY <1>5, <2>1, <2>2, <2>4, <3>2, <4>2, <4>3
            <4>5. x.display = d => x.frame < v.frame /\ x.at < v.at
                <5>1. x.display = d => x.stream = s
                    BY <2>1, <4>4
                <5> QED BY <1>4, <1>8, <1>14, <4>1, <5>1
            <4>6. \A y \in messages' : y.display = x.display => (x.frame < y.frame <=> x.at < y.at)
                BY <1>4, <2>2, <4>2, <4>5
            <4> QED BY <1>2, <4>2, <4>4, <4>6
        <3> QED BY <3>1, <3>2
    <2>5. \A x \in messages' \cup hand' : x.display # NoDisplay =>
            /\ x.frame < run'[x.stream].next
            /\ \/ wire'[x.display].stream < x.stream
               \/ wire'[x.display].stream = x.stream /\ wire'[x.display].frame < x.frame
        <3>1. f < run'[s].next
            BY <1>1, <1>3
        <3>2. wire'[d].stream < s \/ (wire'[d].stream = s /\ wire'[d].frame < f)
            BY <1>2, <1>15, <1>18
        <3> QED BY <1>2, <1>4, <1>12, <2>2, <3>1, <3>2
    <2>6. InStep'
        BY <1>2, <1>11, <1>13, <2>4, <2>5 DEF InStep
    <2>7. ASSUME NEW x \in messages', x.display # NoDisplay, ~x.key
          PROVE  \/ \E y \in messages' \cup hand' : After(x, y)
                 \/ WireAt(x.display, x.stream, x.frame - 1)'
        <3>1. CASE x = v
            <4>1. /\ ~k /\ track[d].stream = s /\ track[d].enabled /\ ~track[d].recovering
                  /\ messages' = messages \cup {v}
                BY <1>4, <2>1, <2>7, <3>1
            <4>2. \/ \E y \in messages \cup hand : y.display = d /\ y.stream = s /\ y.frame = f - 1
                  \/ WireAt(d, s, f - 1)
                BY <1>1, <4>1 DEF References, ReferenceChain, f
            <4>3. CASE \E y \in messages \cup hand : y.display = d /\ y.stream = s /\ y.frame = f - 1
                BY <1>1, <1>2, <1>4, <3>1, <4>1, <4>3 DEF After
            <4>4. CASE WireAt(d, s, f - 1)
                BY <1>4, <1>16, <3>1, <4>4
            <4> QED BY <4>2, <4>3, <4>4
        <3>2. CASE x # v
            <4>1. x \in messages
                BY <2>2, <3>2
            <4>2. \/ \E y \in messages \cup hand : After(x, y)
                  \/ WireAt(x.display, x.stream, x.frame - 1)
                BY <2>7, <4>1 DEF References, ReferenceChain
            <4>3. \A y \in messages : After(x, y) => y \in messages'
                BY <2>1, <2>2, <3>2, <2>7 DEF After
            <4> QED BY <1>2, <1>16, <4>2, <4>3
        <3> QED BY <3>1, <3>2
    <2>8. \A x \in hand' : x.display # NoDisplay /\ ~x.key =>
              wire'[x.display] = [stream |-> x.stream, frame |-> x.frame - 1]
        BY <1>2 DEF References, ReferenceChain
    <2>9. ASSUME NEW c \in Displays, track'[c].enabled, ~track'[c].recovering, track'[c].stream # 0
          PROVE  \/ \E x \in messages' \cup hand' :
                       x.display = c /\ x.stream = track'[c].stream
                       /\ x.frame = run'[track'[c].stream].next - 1
                 \/ WireAt(c, track[c].stream, run[track[c].stream].next - 1)'
        <3>1. CASE c = d
            <4>1. v.frame = run'[s].next - 1
                BY <1>1, <1>3, <1>4
            <4> QED BY <1>4, <2>1, <2>2, <3>1, <4>1
        <3>2. CASE c # d
            <4>1. track'[c] = track[c]
                BY <1>5, <3>2
            <4>2. track[c].stream \in Streams /\ run'[track[c].stream] = run[track[c].stream]
                BY <1>3, <1>9, <2>9, <3>2, <4>1, StreamsKnown
            <4> DEFINE r == track[c].stream
                       m == run[r].next - 1
            <4>3. \/ \E x \in messages \cup hand : x.display = c /\ x.stream = r /\ x.frame = m
                  \/ WireAt(c, r, m)
                BY <2>9, <4>1 DEF References, ReferenceChain
            <4>4. CASE \E x \in messages \cup hand : x.display = c /\ x.stream = r /\ x.frame = m
                BY <1>2, <2>2, <3>2, <4>1, <4>2, <4>4
            <4>5. CASE WireAt(c, r, m)
                BY <1>2, <4>1, <4>2, <4>5 DEF WireAt, Of
            <4> QED BY <4>3, <4>4, <4>5
        <3> QED BY <3>1, <3>2
    <2>10. ReferenceChain'
        BY <2>7, <2>8, <2>9 DEF ReferenceChain
    <2> QED BY <2>6, <2>10 DEF References
<1> QED BY <1>5, <1>17, <1>18

\* References are kept by every step.
LEMMA ReferencesStep == Types /\ Types' /\ Order /\ References /\ [Next]_vars => References'
<1> SUFFICES ASSUME Types, Types', Order, References, [Next]_vars PROVE References'
    OBVIOUS
<1> USE DEF queueVars, wakeVars, taskVars, wireVars
<1>1. CASE UNCHANGED <<messages, hand, run, wire, track>>
    BY <1>1, ReferencesStutter
<1>2. CASE ParkBarrier
    BY <1>2, ReferencesBarrierLeaves DEF ParkBarrier
<1>3. CASE Tick
    <2>1. \A d \in Displays : /\ track'[d].stream = track[d].stream
                              /\ track'[d].enabled = track[d].enabled
                              /\ track'[d].recovering = track[d].recovering
        <3>1. \A d \in Displays : track[d] \in TrackType
            BY DEF Types
        <3> QED BY <1>3, <3>1 DEF Tick, TrackType
    <2> QED BY <1>3, <2>1, ReferencesStutter DEF Tick
<1>4. ASSUME NEW d \in Displays, RefreshIntervalOver(d) PROVE References'
    <2>1. \A x \in Displays : /\ track'[x].stream = track[x].stream
                              /\ track'[x].enabled = track[x].enabled
                              /\ track'[x].recovering = track[x].recovering
        <3>1. track' = [track EXCEPT ![d] = [track[d] EXCEPT !.cooling = FALSE]]
            BY <1>4 DEF RefreshIntervalOver
        <3>2. /\ [track[d] EXCEPT !.cooling = FALSE].stream = track[d].stream
              /\ [track[d] EXCEPT !.cooling = FALSE].enabled = track[d].enabled
              /\ [track[d] EXCEPT !.cooling = FALSE].recovering = track[d].recovering
            BY DEF Types, TrackType
        <3> QED BY <3>1, <3>2 DEF Types
    <2> QED BY <1>4, <2>1, ReferencesStutter DEF RefreshIntervalOver
<1>5. \/ UNCHANGED <<messages, hand, run, wire, track>>
      \/ \E s \in Streams, d \in Displays : StartRun(s, d)
      \/ \E s \in Streams, k \in BOOLEAN, n \in FrameSizes : SendVideo(s, k, n)
      \/ \E n \in BarrierSizes : SendBarrier(n)
      \/ Recv \/ SendOk \/ DropFrame \/ ParkBarrier \/ Tick
      \/ \E d \in Displays : RefreshIntervalOver(d)
      \/ \E on \in Selections : SetDisplays(on)
    BY DEF Next, vars, NotifyOne, RecvFatal, Wake, SendError
<1> QED BY <1>1, <1>2, <1>3, <1>4, <1>5, ReferencesStartRun, ReferencesSendVideo,
           ReferencesSendBarrier, ReferencesRecv, ReferencesSendOk, ReferencesDropFrame,
           ReferencesSetDisplays

\* Track, queue, hand and wire of every display stay in step, and every queued
\* delta directly follows a frame the viewer has or will have been sent.
THEOREM ReferencesHold == Spec => []References
<1>1. Order /\ Types /\ [Next]_vars => Order'
    BY OrderStep
<1> QED BY TypesInit, TypesStep, OrderInit, <1>1, ReferencesInit, ReferencesStep, PTL DEF Spec

\* The viewer of every display is only ever sent deltas whose reference it got.
THEOREM DecodableDeliveryHolds == Spec => DecodableDelivery
<1> DEFINE A == \A d \in Displays, e \in hand : wire'[d] # wire[d] /\ ~e.key =>
                   wire[d] = [stream |-> e.stream, frame |-> e.frame - 1]
<1>1. Types /\ References /\ [Next]_vars => [A]_vars
    <2> SUFFICES ASSUME Types, References, [Next]_vars, NEW d \in Displays, NEW e \in hand,
                        wire'[d] # wire[d], ~e.key
                 PROVE  wire[d] = [stream |-> e.stream, frame |-> e.frame - 1]
        OBVIOUS
    <2>1. SendOk
        BY DEF Next, vars, wireVars, StartRun, SendVideo, SendBarrier, NotifyOne, Recv, RecvFatal,
               Wake, DropFrame, ParkBarrier, SendError, Tick, RefreshIntervalOver, SetDisplays
    <2>2. PICK x \in hand : IF x.display = NoDisplay THEN UNCHANGED wire
                            ELSE wire' = [wire EXCEPT ![x.display] = [stream |-> x.stream, frame |-> x.frame]]
        BY <2>1 DEF SendOk
    <2>3. x = e
        BY DEF Types
    <2>4. e.display = d
        BY <2>2, <2>3 DEF Types
    <2>5. d # NoDisplay
        BY DEF NoDisplay, Displays
    <2> QED BY <2>4, <2>5 DEF References, ReferenceChain
<1>2. References <=> InStep /\ ReferenceChain
    BY DEF References
<1>3. DecodableDelivery <=> [][A]_vars
    BY DEF DecodableDelivery
<1> HIDE DEF A
<1> QED BY <1>1, <1>2, <1>3, TypesHold, ReferencesHold, PTL DEF Spec

\* The transport never sees a display go back to an older run or frame.
THEOREM ForwardDeliveryHolds == Spec => ForwardDelivery
<1> DEFINE A == \A d \in Displays : wire'[d] # wire[d] =>
                    \/ wire'[d].stream > wire[d].stream
                    \/ wire'[d].stream = wire[d].stream /\ wire'[d].frame > wire[d].frame
<1>1. Types /\ References /\ [Next]_vars => [A]_vars
    <2> SUFFICES ASSUME Types, References, [Next]_vars, NEW d \in Displays, wire'[d] # wire[d]
                 PROVE  \/ wire'[d].stream > wire[d].stream
                        \/ wire'[d].stream = wire[d].stream /\ wire'[d].frame > wire[d].frame
        OBVIOUS
    <2>1. SendOk
        BY DEF Next, vars, wireVars, StartRun, SendVideo, SendBarrier, NotifyOne, Recv, RecvFatal,
               Wake, DropFrame, ParkBarrier, SendError, Tick, RefreshIntervalOver, SetDisplays
    <2>2. PICK x \in hand : IF x.display = NoDisplay THEN UNCHANGED wire
                            ELSE wire' = [wire EXCEPT ![x.display] = [stream |-> x.stream, frame |-> x.frame]]
        BY <2>1 DEF SendOk
    <2>3. x.display = d /\ d # NoDisplay
        BY <2>2 DEF Types, NoDisplay, Displays
    <2>4. wire'[d] = [stream |-> x.stream, frame |-> x.frame]
        BY <2>2, <2>3 DEF Types
    <2>5. \/ wire[d].stream < x.stream
          \/ wire[d].stream = x.stream /\ wire[d].frame < x.frame
        BY <2>3 DEF References, InStep
    <2>6. x.stream \in Nat /\ x.frame \in Nat /\ wire[d].stream \in Nat /\ wire[d].frame \in Nat
        BY ConstantsTyped DEF Types, Entry
    <2> QED BY <2>4, <2>5, <2>6
<1>2. References <=> InStep /\ ReferenceChain
    BY DEF References
<1>3. ForwardDelivery <=> [][A]_vars
    BY DEF ForwardDelivery
<1> HIDE DEF A
<1> QED BY <1>1, <1>2, <1>3, TypesHold, ReferencesHold, PTL DEF Spec
-----------------------------------------------------------------------------
(* Budgets.  Weight folds over a set; what it computes is proved by induction   *)
(* over the finite subsets of the set, which are well-founded.                 *)

\* Induction over a finite set, with the property given as the set C of the sets
\* that have it.
LEMMA FiniteInduction ==
    ASSUME NEW S, IsFiniteSet(S), NEW C, {} \in C,
           \A T \in SUBSET S : \A x \in S : T \in C => T \cup {x} \in C
    PROVE  S \in C
<1> SUFFICES ASSUME S \notin C PROVE FALSE
    OBVIOUS
<1> DEFINE B == {T \in SUBSET S : T \notin C}
<1>1. B \subseteq FiniteSubsetsOf(S) /\ B # {}
    BY FS_FiniteSubsetsOfFinite
<1>2. IsWellFoundedOn(StrictSubsetOrdering(S), FiniteSubsetsOf(S))
    BY FS_StrictSubsetOrderingWellFounded
<1>3. PICK T \in B : \A U \in B : ~(<<U, T>> \in StrictSubsetOrdering(S))
    <2> HIDE DEF B
    <2> QED BY <1>1, <1>2, WFMin, Zenon
<1>4. T # {}
    OBVIOUS
<1>5. PICK x \in T : TRUE
    BY <1>4
<1>6. <<T \ {x}, T>> \in StrictSubsetOrdering(S)
    BY DEF StrictSubsetOrdering
<1>7. T \ {x} \in C /\ T = (T \ {x}) \cup {x} /\ x \in S
    BY <1>3, <1>6
<1> QED BY <1>7

\* g gives every subset of S the sum of its entries' bytes, added one by one.
Adds(S, g) ==
    /\ g \in [SUBSET S -> Nat] /\ g[{}] = 0
    /\ \A T \in SUBSET S : \A x \in S \ T : g[T \cup {x}] = x.bytes + g[T]

\* The function that Weight recurses with.
FoldsBytes(S, g) ==
    g = [s \in SUBSET S |-> IF s = {} THEN 0
                            ELSE (CHOOSE x \in s : TRUE).bytes + g[s \ {CHOOSE x \in s : TRUE}]]

\* Weight(S) is the value at S of a function that satisfies the fold's equation.
LEMMA WeightFolds ==
    ASSUME NEW S
    PROVE  Weight(S) = (CHOOSE g : FoldsBytes(S, g))[S]
BY DEF Weight, MapThenSumSet, MapThenFoldSet, FoldsBytes

\* Such a function exists for every finite queue: one more entry extends it.
LEMMA AddsExists ==
    ASSUME NEW S \in SUBSET Entry, IsFiniteSet(S)
    PROVE  \E g : Adds(S, g)
<1> DEFINE C == {T \in SUBSET S : \E g : Adds(T, g)}
<1>1. {} \in C
    <2> DEFINE g == [T \in SUBSET {} |-> 0]
    <2>1. Adds({}, g)
        BY DEF Adds
    <2> QED BY <2>1
<1>2. ASSUME NEW T \in SUBSET S, NEW a \in S, T \in C PROVE T \cup {a} \in C
    <2>1. CASE a \in T
        <3>1. T \cup {a} = T
            BY <2>1
        <3> QED BY <3>1, <1>2
    <2>2. CASE a \notin T
        <3>1. PICK g : Adds(T, g)
            BY <1>2
        <3> DEFINE U == T \cup {a}
                   h == [s \in SUBSET U |-> IF a \in s THEN a.bytes + g[s \ {a}] ELSE g[s]]
        <3>2. \A x \in S : x.bytes \in Nat
            BY DEF Entry
        <3>3. h \in [SUBSET U -> Nat]
            <4>1. ASSUME NEW s \in SUBSET U PROVE h[s] \in Nat
                <5>1. s \ {a} \in SUBSET T /\ (a \notin s => s \in SUBSET T)
                    OBVIOUS
                <5> QED BY <5>1, <3>1, <3>2 DEF Adds
            <4> QED BY <4>1
        <3>4. h[{}] = 0
            BY <3>1 DEF Adds
        <3>5. ASSUME NEW s \in SUBSET U, NEW x \in U \ s PROVE h[s \cup {x}] = x.bytes + h[s]
            <4>1. s \cup {x} \in SUBSET U /\ s \in SUBSET U
                OBVIOUS
            <4>2. CASE x = a
                <5>1. (s \cup {x}) \ {a} = s /\ a \notin s /\ a \in s \cup {x}
                    BY <4>2, <3>5
                <5> QED BY <5>1, <4>1, <4>2
            <4>3. CASE x # a /\ a \in s
                <5> DEFINE r == s \ {a}
                <5>1. (s \cup {x}) \ {a} = r \cup {x} /\ a \in s \cup {x} /\ r \in SUBSET T /\ x \in T \ r
                    BY <4>3, <3>5
                <5>2. g[r \cup {x}] = x.bytes + g[r] /\ g[r] \in Nat
                    BY <5>1, <3>1 DEF Adds
                <5>3. h[s \cup {x}] = a.bytes + g[r \cup {x}] /\ h[s] = a.bytes + g[r]
                    BY <5>1, <4>1, <4>3
                <5>4. a.bytes \in Nat /\ x.bytes \in Nat
                    BY <3>2
                <5> HIDE DEF r, h
                <5> QED BY <5>2, <5>3, <5>4
            <4>4. CASE x # a /\ a \notin s
                <5>1. a \notin s \cup {x} /\ s \in SUBSET T /\ x \in T \ s
                    BY <4>4, <3>5
                <5>2. g[s \cup {x}] = x.bytes + g[s]
                    BY <5>1, <3>1 DEF Adds
                <5> QED BY <5>1, <5>2, <4>1, <4>4
            <4> QED BY <4>2, <4>3, <4>4
        <3> HIDE DEF h
        <3>6. Adds(U, h)
            BY <3>3, <3>4, <3>5 DEF Adds
        <3> QED BY <3>6
    <2> QED BY <2>1, <2>2
<1> HIDE DEF C
<1>3. S \in C
    BY <1>1, <1>2, FiniteInduction, Zenon
<1> QED BY <1>3 DEF C

\* It satisfies the fold's equation, whichever entry the fold takes first.
LEMMA AddsIsFold ==
    ASSUME NEW S \in SUBSET Entry, NEW g, Adds(S, g)
    PROVE  FoldsBytes(S, g)
<1>1. g \in [SUBSET S -> Nat]
    BY DEF Adds
<1>2. ASSUME NEW s \in SUBSET S, s # {}
      PROVE  g[s] = (CHOOSE x \in s : TRUE).bytes + g[s \ {CHOOSE x \in s : TRUE}]
    <2> DEFINE x == CHOOSE x \in s : TRUE
    <2>1. x \in s
        BY <1>2
    <2> HIDE DEF x
    <2>2. s = (s \ {x}) \cup {x} /\ s \ {x} \in SUBSET S /\ x \in S \ (s \ {x})
        BY <2>1
    <2>3. g[(s \ {x}) \cup {x}] = x.bytes + g[s \ {x}]
        BY <2>2 DEF Adds
    <2> QED BY <2>2, <2>3 DEF x
<1>3. g[{}] = 0
    BY DEF Adds
<1> QED BY <1>1, <1>2, <1>3 DEF FoldsBytes

\* It is the only one that does.
LEMMA FoldIsAdds ==
    ASSUME NEW S \in SUBSET Entry, IsFiniteSet(S), NEW g, Adds(S, g), NEW f, FoldsBytes(S, f)
    PROVE  f[S] = g[S]
<1> DEFINE B == {T \in SUBSET S : f[T] # g[T]}
<1> SUFFICES ASSUME f[S] # g[S] PROVE FALSE
    OBVIOUS
<1>1. B \subseteq FiniteSubsetsOf(S) /\ B # {}
    BY FS_FiniteSubsetsOfFinite
<1>2. IsWellFoundedOn(StrictSubsetOrdering(S), FiniteSubsetsOf(S))
    BY FS_StrictSubsetOrderingWellFounded
<1>3. PICK T \in B : \A U \in B : ~(<<U, T>> \in StrictSubsetOrdering(S))
    <2> HIDE DEF B
    <2> QED BY <1>1, <1>2, WFMin, Zenon
<1>4. FoldsBytes(S, g)
    BY AddsIsFold
<1>5. f[{}] = 0 /\ g[{}] = 0
    BY <1>4 DEF FoldsBytes
<1>6. T # {} /\ T \in SUBSET S
    BY <1>5
<1> DEFINE x == CHOOSE x \in T : TRUE
<1>7. x \in T
    BY <1>6
<1>8. f[T] = x.bytes + f[T \ {x}] /\ g[T] = x.bytes + g[T \ {x}]
    BY <1>4, <1>6 DEF FoldsBytes
<1> HIDE DEF x
<1>9. <<T \ {x}, T>> \in StrictSubsetOrdering(S)
    BY <1>6, <1>7 DEF StrictSubsetOrdering
<1>10. f[T \ {x}] = g[T \ {x}]
    BY <1>3, <1>6, <1>9
<1> QED BY <1>8, <1>10

\* Hence Weight of any part of a finite queue is the sum of its entries' bytes.
LEMMA WeightIsSum ==
    ASSUME NEW S \in SUBSET Entry, IsFiniteSet(S), NEW g, Adds(S, g)
    PROVE  \A T \in SUBSET S : Weight(T) = g[T]
<1> SUFFICES ASSUME NEW T \in SUBSET S PROVE Weight(T) = g[T]
    OBVIOUS
<1> DEFINE r == [s \in SUBSET T |-> g[s]]
<1>1. IsFiniteSet(T) /\ T \in SUBSET Entry
    BY FS_Subset
<1>2. Adds(T, r)
    <2>1. r \in [SUBSET T -> Nat] /\ r[{}] = 0
        BY DEF Adds
    <2>2. ASSUME NEW s \in SUBSET T, NEW x \in T \ s PROVE r[s \cup {x}] = x.bytes + r[s]
        <3>1. s \in SUBSET S /\ x \in S \ s /\ s \cup {x} \in SUBSET T
            OBVIOUS
        <3>2. g[s \cup {x}] = x.bytes + g[s]
            BY <3>1 DEF Adds
        <3> QED BY <3>1, <3>2
    <2> HIDE DEF r
    <2> QED BY <2>1, <2>2 DEF Adds
<1>3. r[T] = g[T]
    OBVIOUS
<1> HIDE DEF r
<1> DEFINE f == CHOOSE f : FoldsBytes(T, f)
<1>4. FoldsBytes(T, f)
    BY <1>1, <1>2, AddsIsFold
<1>5. Weight(T) = f[T]
    BY WeightFolds
<1> HIDE DEF f
<1> QED BY <1>1, <1>2, <1>3, <1>4, <1>5, FoldIsAdds

\* The weight of the empty queue, and of a queue with one entry more.
LEMMA WeightAdds ==
    ASSUME NEW S \in SUBSET Entry, IsFiniteSet(S), NEW e \in Entry \ S
    PROVE  /\ Weight(S) \in Nat /\ Weight({}) = 0
           /\ Weight(S \cup {e}) = Weight(S) + e.bytes
<1> DEFINE U == S \cup {e}
<1>1. U \in SUBSET Entry /\ IsFiniteSet(U) /\ S \in SUBSET U /\ {} \in SUBSET U /\ e \in U \ S
    BY FS_AddElement
<1> HIDE DEF U
<1>2. PICK g : Adds(U, g)
    BY <1>1, AddsExists
<1>3. Weight(S) = g[S] /\ Weight({}) = g[{}] /\ Weight(U) = g[U]
    BY <1>1, <1>2, WeightIsSum
<1>4. g[S \cup {e}] = e.bytes + g[S] /\ g[{}] = 0 /\ g[S] \in Nat
    BY <1>1, <1>2 DEF Adds
<1>5. e.bytes \in Nat
    BY DEF Entry
<1> QED BY <1>3, <1>4, <1>5 DEF U

\* The weight of a queue is that of any part of it and that of the rest.
LEMMA WeightSplits ==
    ASSUME NEW S \in SUBSET Entry, IsFiniteSet(S), NEW T \in SUBSET S
    PROVE  /\ Weight(S) \in Nat /\ Weight(T) \in Nat /\ Weight(S \ T) \in Nat
           /\ Weight(S) = Weight(T) + Weight(S \ T)
<1>1. PICK g : Adds(S, g)
    BY AddsExists
<1>2. \A U \in SUBSET S : Weight(U) = g[U] /\ g[U] \in Nat
    BY <1>1, WeightIsSum DEF Adds
<1> DEFINE C == {U \in SUBSET T : g[(S \ T) \cup U] = g[S \ T] + g[U]}
<1>3. {} \in C
    <2>1. (S \ T) \cup {} = S \ T /\ S \ T \in SUBSET S
        OBVIOUS
    <2>2. g[{}] = 0 /\ g[S \ T] \in Nat
        BY <1>1 DEF Adds
    <2> QED BY <2>1, <2>2
<1>4. ASSUME NEW U \in SUBSET T, NEW x \in T, U \in C PROVE U \cup {x} \in C
    <2>1. CASE x \in U
        <3>1. U \cup {x} = U
            BY <2>1
        <3> QED BY <3>1, <1>4
    <2>2. CASE x \notin U
        <3> DEFINE V == (S \ T) \cup U
        <3>1. V \in SUBSET S /\ U \in SUBSET S /\ S \ T \in SUBSET S /\ x \in S \ V /\ x \in S \ U
            BY <2>2
        <3>2. (S \ T) \cup (U \cup {x}) = V \cup {x}
            OBVIOUS
        <3>3. g[V \cup {x}] = x.bytes + g[V] /\ g[U \cup {x}] = x.bytes + g[U]
            BY <3>1, <1>1 DEF Adds
        <3>4. g[V] = g[S \ T] + g[U]
            BY <1>4
        <3>5. x.bytes \in Nat /\ g[S \ T] \in Nat /\ g[U] \in Nat
            BY <3>1, <1>2 DEF Entry
        <3> HIDE DEF V
        <3>6. g[(S \ T) \cup (U \cup {x})] = g[S \ T] + g[U \cup {x}]
            <4>1. \A p, q, n \in Nat : n + (p + q) = p + (n + q)
                OBVIOUS
            <4>2. g[V \cup {x}] = g[S \ T] + (x.bytes + g[U])
                BY <3>3, <3>4, <3>5, <4>1
            <4> QED BY <3>2, <3>3, <4>2
        <3> QED BY <3>6
    <2> QED BY <2>1, <2>2
<1>5. IsFiniteSet(T)
    BY FS_Subset
<1>6. T \in C
    <2> HIDE DEF C
    <2> QED BY <1>3, <1>4, <1>5, FiniteInduction, Zenon
<1>7. g[S] = g[S \ T] + g[T]
    <2>1. (S \ T) \cup T = S
        OBVIOUS
    <2> QED BY <1>6, <2>1
<1>8. S \in SUBSET S /\ T \in SUBSET S /\ S \ T \in SUBSET S
    OBVIOUS
<1> QED BY <1>2, <1>7, <1>8

-----------------------------------------------------------------------------
(* The budgets of the queue *)

\* Budgets of a queue with the entries of ms.
Within(ms) ==
    /\ IsFiniteSet(ms) /\ Weight(ms) <= MAX_BYTES
    /\ Cardinality(ms) <= CAPACITY
    /\ Cardinality(ms \ Barriers(ms)) <= CAPACITY - CONTROL_RESERVE
    /\ Cardinality(PendingTracks(ms)) <= TRACKS
    /\ \A d \in Displays : /\ Cardinality(Of(ms, d)) <= TRACK_FRAMES
                           /\ Weight(Of(ms, d)) <= MAX_FRAME_BYTES

\* The inductive form of Budgets: the queue is finite, too.
Budgeted == bytes = Weight(messages) /\ Within(messages)

\* The budgets are natural numbers, and the reserve is part of the capacity.
LEMMA BudgetConstants ==
    /\ {MAX_BYTES, TRACKS, TRACK_FRAMES, MAX_FRAME_BYTES, CONTROL_RESERVE, CAPACITY} \subseteq Nat
    /\ CAPACITY - CONTROL_RESERVE \in Nat /\ CAPACITY - CONTROL_RESERVE <= CAPACITY
<1>1. {MAX_BYTES, TRACKS, TRACK_FRAMES, MAX_FRAME_BYTES, CONTROL_RESERVE} \subseteq Nat
    BY QueueConstants
<1>2. TRACKS * TRACK_FRAMES \in Nat
    BY <1>1
<1> DEFINE p == TRACKS * TRACK_FRAMES
<1>3. p \in Nat /\ CAPACITY = p + CONTROL_RESERVE
    BY <1>2 DEF CAPACITY
<1> HIDE DEF p
<1> QED BY <1>1, <1>3

\* Fewer entries never exceed a budget that more of them kept.
LEMMA SmallerCounts ==
    ASSUME NEW S, IsFiniteSet(S), NEW T, T \subseteq S
    PROVE  IsFiniteSet(T) /\ Cardinality(T) \in Nat /\ Cardinality(S) \in Nat
           /\ Cardinality(T) <= Cardinality(S)
BY FS_Subset, FS_CardinalityType

\* A part of a queue weighs no more than the queue.
LEMMA LighterPart ==
    ASSUME NEW S \in SUBSET Entry, IsFiniteSet(S), NEW T, T \subseteq S
    PROVE  Weight(T) \in Nat /\ Weight(S) \in Nat /\ Weight(T) <= Weight(S)
<1>1. T \in SUBSET S
    OBVIOUS
<1>2. /\ Weight(S) \in Nat /\ Weight(T) \in Nat /\ Weight(S \ T) \in Nat
      /\ Weight(S) = Weight(T) + Weight(S \ T)
    BY <1>1, WeightSplits
<1>3. \A p, q \in Nat : p <= p + q
    OBVIOUS
<1> QED BY <1>2, <1>3

\* The displays with queued frames are finitely many.
LEMMA TracksFinite ==
    ASSUME NEW ms \in SUBSET Entry
    PROVE  /\ PendingTracks(ms) \subseteq Displays /\ IsFiniteSet(PendingTracks(ms))
           /\ Cardinality(PendingTracks(ms)) \in Nat
<1>1. PendingTracks(ms) \subseteq Displays
    BY DEF PendingTracks, Barriers, Of, Entry
<1>2. IsFiniteSet(Displays)
    <2>1. 0 \in Int /\ DISPLAYS - 1 \in Int
        BY ConstantsTyped
    <2> QED BY <2>1, FS_Interval DEF Displays
<1> QED BY <1>1, <1>2, FS_Subset, FS_CardinalityType

\* Removing entries keeps every budget.
LEMMA WithinShrinks ==
    ASSUME NEW ms \in SUBSET Entry, Within(ms), NEW ns, ns \subseteq ms
    PROVE  Within(ns)
<1>0. IsFiniteSet(ms)
    BY DEF Within
<1>1. IsFiniteSet(ns) /\ Cardinality(ns) \in Nat /\ Cardinality(ns) <= Cardinality(ms) /\ Cardinality(ms) \in Nat
    BY <1>0, SmallerCounts
<1>2. Weight(ns) \in Nat /\ Weight(ms) \in Nat /\ Weight(ns) <= Weight(ms)
    BY <1>0, LighterPart
<1>3. Weight(ns) <= MAX_BYTES /\ Cardinality(ns) <= CAPACITY
    BY <1>1, <1>2, BudgetConstants DEF Within
<1>4. Cardinality(ns \ Barriers(ns)) <= CAPACITY - CONTROL_RESERVE
    <2>1. ns \ Barriers(ns) \subseteq ms \ Barriers(ms)
        BY DEF Barriers, Of
    <2>2. IsFiniteSet(ms \ Barriers(ms))
        BY <1>0, FS_Difference
    <2>3. /\ Cardinality(ns \ Barriers(ns)) \in Nat /\ Cardinality(ms \ Barriers(ms)) \in Nat
          /\ Cardinality(ns \ Barriers(ns)) <= Cardinality(ms \ Barriers(ms))
        BY <2>1, <2>2, SmallerCounts
    <2> QED BY <2>3, BudgetConstants DEF Within
<1>5. Cardinality(PendingTracks(ns)) <= TRACKS
    <2>1. PendingTracks(ns) \subseteq PendingTracks(ms)
        BY DEF PendingTracks, Barriers, Of
    <2>2. /\ Cardinality(PendingTracks(ns)) \in Nat /\ Cardinality(PendingTracks(ms)) \in Nat
          /\ Cardinality(PendingTracks(ns)) <= Cardinality(PendingTracks(ms))
        BY <2>1, TracksFinite, SmallerCounts
    <2> QED BY <2>2, BudgetConstants DEF Within
<1>6. ASSUME NEW d \in Displays
      PROVE  Cardinality(Of(ns, d)) <= TRACK_FRAMES /\ Weight(Of(ns, d)) <= MAX_FRAME_BYTES
    <2>1. Of(ns, d) \subseteq Of(ms, d) /\ Of(ms, d) \subseteq ms /\ Of(ms, d) \in SUBSET Entry
        BY DEF Of
    <2>2. IsFiniteSet(Of(ms, d))
        BY <1>0, <2>1, SmallerCounts
    <2>3. /\ Cardinality(Of(ns, d)) \in Nat /\ Cardinality(Of(ms, d)) \in Nat
          /\ Cardinality(Of(ns, d)) <= Cardinality(Of(ms, d))
        BY <2>1, <2>2, SmallerCounts
    <2>4. Weight(Of(ns, d)) \in Nat /\ Weight(Of(ms, d)) \in Nat /\ Weight(Of(ns, d)) <= Weight(Of(ms, d))
        BY <2>1, <2>2, LighterPart
    <2>5. Cardinality(Of(ms, d)) <= TRACK_FRAMES /\ Weight(Of(ms, d)) <= MAX_FRAME_BYTES
        BY DEF Within
    <2> QED BY <2>3, <2>4, <2>5, BudgetConstants
<1> QED BY <1>1, <1>3, <1>4, <1>5, <1>6 DEF Within

\* The incremental byte total is the weight of what is left.
LEMMA BytesLeft ==
    ASSUME messages \in SUBSET Entry, Budgeted, NEW ns, ns \subseteq messages
    PROVE  BytesAfter(ns) = Weight(ns) /\ Weight(ns) \in Nat
<1>1. ns \in SUBSET messages /\ IsFiniteSet(messages)
    BY DEF Budgeted, Within
<1>2. /\ Weight(messages) \in Nat /\ Weight(ns) \in Nat /\ Weight(messages \ ns) \in Nat
      /\ Weight(messages) = Weight(ns) + Weight(messages \ ns)
    BY <1>1, WeightSplits
<1> QED BY <1>2 DEF BytesAfter, Budgeted

\* An admitted frame keeps the budgets.
LEMMA WithinVideo ==
    ASSUME NEW ms \in SUBSET Entry, Within(ms), NEW d \in Displays, NEW e \in Entry \ ms,
           e.display = d, BytesAfter(ms) = Weight(ms), ~Full(ms, d, e.bytes)
    PROVE  Within(ms \cup {e})
<1> DEFINE U == ms \cup {e}
           own == Of(ms, d)
<1>0. IsFiniteSet(ms) /\ e.bytes \in Nat /\ d # NoDisplay
    BY DEF Within, Entry, Displays, NoDisplay
<1>1. /\ ~(Weight(ms) + e.bytes > MAX_BYTES)
      /\ ~(Cardinality(ms) >= CAPACITY - CONTROL_RESERVE)
      /\ ~(Weight(own) + e.bytes > MAX_FRAME_BYTES)
      /\ ~(Cardinality(own) >= TRACK_FRAMES)
      /\ ~(own = {} /\ Cardinality(PendingTracks(ms)) >= TRACKS)
    BY DEF Full
<1>2. /\ IsFiniteSet(U) /\ Cardinality(U) = Cardinality(ms) + 1 /\ Cardinality(ms) \in Nat
    BY <1>0, FS_AddElement, FS_CardinalityType
<1>3. Weight(U) = Weight(ms) + e.bytes /\ Weight(ms) \in Nat
    BY <1>0, WeightAdds
<1>4. Cardinality(U) <= CAPACITY - CONTROL_RESERVE /\ Weight(U) <= MAX_BYTES
    BY <1>0, <1>1, <1>2, <1>3, BudgetConstants
<1>5. Cardinality(U) <= CAPACITY
    BY <1>4, <1>2, BudgetConstants
<1>6. Cardinality(U \ Barriers(U)) <= CAPACITY - CONTROL_RESERVE
    <2>1. Cardinality(U \ Barriers(U)) \in Nat /\ Cardinality(U \ Barriers(U)) <= Cardinality(U)
          /\ Cardinality(U) \in Nat
        BY <1>2, SmallerCounts
    <2> HIDE DEF U
    <2> QED BY <1>4, <2>1, BudgetConstants
<1>7. own \in SUBSET Entry /\ own \subseteq ms /\ e \notin own /\ IsFiniteSet(own)
    BY <1>0, SmallerCounts DEF Of
<1>8. PendingTracks(U) = PendingTracks(ms) \cup {d}
    BY <1>0 DEF PendingTracks, Barriers, Of
<1>9. Cardinality(PendingTracks(U)) <= TRACKS
    <2>1. IsFiniteSet(PendingTracks(ms)) /\ Cardinality(PendingTracks(ms)) \in Nat
        BY TracksFinite
    <2>2. CASE own = {}
        <3>1. d \notin PendingTracks(ms)
            BY <2>2 DEF PendingTracks, Of
        <3>2. Cardinality(PendingTracks(U)) = Cardinality(PendingTracks(ms)) + 1
            BY <1>8, <2>1, <3>1, FS_AddElement
        <3> QED BY <3>2, <2>1, <2>2, <1>1, BudgetConstants
    <2>3. CASE own # {}
        <3>1. d \in PendingTracks(ms)
            BY <2>3, <1>0 DEF PendingTracks, Of, Barriers
        <3>2. PendingTracks(U) = PendingTracks(ms)
            BY <3>1, <1>8
        <3> QED BY <3>2 DEF Within
    <2> QED BY <2>2, <2>3
<1>10. ASSUME NEW x \in Displays
       PROVE  Cardinality(Of(U, x)) <= TRACK_FRAMES /\ Weight(Of(U, x)) <= MAX_FRAME_BYTES
    <2>1. CASE x = d
        <3>1. Of(U, x) = own \cup {e}
            BY <2>1 DEF Of
        <3> HIDE DEF own, U
        <3>2. Cardinality(own \cup {e}) = Cardinality(own) + 1 /\ Cardinality(own) \in Nat
            BY <1>7, FS_AddElement, FS_CardinalityType
        <3>3. Weight(own \cup {e}) = Weight(own) + e.bytes /\ Weight(own) \in Nat
            BY <1>7, WeightAdds
        <3> QED BY <1>0, <1>1, <3>1, <3>2, <3>3, BudgetConstants
    <2>2. CASE x # d
        <3>1. Of(U, x) = Of(ms, x)
            BY <2>2 DEF Of
        <3> QED BY <3>1 DEF Within
    <2> QED BY <2>1, <2>2
<1> HIDE DEF U
<1> QED BY <1>2, <1>4, <1>5, <1>6, <1>9, <1>10 DEF Within, U

\* So does an admitted barrier.
LEMMA WithinBarrier ==
    ASSUME messages \in SUBSET Entry, Budgeted, NEW e \in Entry \ messages,
           e.display = NoDisplay, ~BarrierRefused(e.bytes)
    PROVE  Within(messages \cup {e}) /\ Weight(messages \cup {e}) = bytes + e.bytes
<1> DEFINE U == messages \cup {e}
<1>0. IsFiniteSet(messages) /\ e.bytes \in Nat /\ Within(messages) /\ bytes = Weight(messages)
    BY DEF Budgeted, Within, Entry
<1>1. Cardinality(messages) # CAPACITY /\ ~(bytes + e.bytes > MAX_BYTES)
    BY DEF BarrierRefused
<1>2. /\ IsFiniteSet(U) /\ Cardinality(U) = Cardinality(messages) + 1 /\ Cardinality(messages) \in Nat
    BY <1>0, FS_AddElement, FS_CardinalityType
<1>3. Weight(U) = bytes + e.bytes /\ bytes \in Nat
    BY <1>0, WeightAdds
<1>4. Cardinality(U) <= CAPACITY /\ Weight(U) <= MAX_BYTES
    BY <1>0, <1>1, <1>2, <1>3, BudgetConstants DEF Within
<1>5. U \ Barriers(U) = messages \ Barriers(messages) /\ PendingTracks(U) = PendingTracks(messages)
    BY DEF PendingTracks, Barriers, Of
<1>6. \A x \in Displays : Of(U, x) = Of(messages, x)
    BY DEF Of, NoDisplay, Displays
<1> HIDE DEF U
<1>7. Within(U)
    BY <1>0, <1>2, <1>4, <1>5, <1>6 DEF Within
<1> QED BY <1>3, <1>7 DEF U

-----------------------------------------------------------------------------
\* The empty queue is within its budgets.
LEMMA BudgetedInit == Init => Budgeted
<1> SUFFICES ASSUME Init PROVE Budgeted
    OBVIOUS
<1>1. messages = {} /\ bytes = 0
    BY DEF Init
<1>2. IsFiniteSet({}) /\ Cardinality({}) = 0
    BY FS_EmptySet
<1>3. Weight({}) = 0
    <2>1. {} \in SUBSET Entry /\ {} \in SUBSET {}
        OBVIOUS
    <2>2. PICK g : Adds({}, g)
        BY <1>2, <2>1, AddsExists
    <2>3. Weight({}) = g[{}]
        BY <1>2, <2>1, <2>2, WeightIsSum
    <2> QED BY <2>2, <2>3 DEF Adds
<1>4. {} \ Barriers({}) = {} /\ PendingTracks({}) = {} /\ \A d \in Displays : Of({}, d) = {}
    BY DEF Barriers, Of, PendingTracks
<1>5. Within({})
    BY <1>2, <1>3, <1>4, BudgetConstants DEF Within
<1> QED BY <1>1, <1>3, <1>5 DEF Budgeted

\* A queue that only shrank, its byte total with it, keeps the budgets.
LEMMA BudgetedShrinks ==
    ASSUME messages \in SUBSET Entry, Budgeted, messages' \subseteq messages,
           bytes' = BytesAfter(messages')
    PROVE  Budgeted'
<1>1. bytes' = Weight(messages')
    BY BytesLeft
<1>2. Within(messages')
    BY WithinShrinks DEF Budgeted
<1>3. Within(messages)'
    BY <1>2 DEF Within, Barriers, PendingTracks, Of
<1>4. bytes' = Weight(messages)'
    BY <1>1
<1> QED BY <1>3, <1>4 DEF Budgeted

\* State::push keeps the budgets, whether it ignores, refuses or admits the frame.
LEMMA BudgetedPush ==
    ASSUME Types, Order, Budgeted, NEW d \in Displays, NEW s \in Streams, NEW f \in 0 .. MaxFrame,
           NEW k \in BOOLEAN, NEW n \in Nat, PushVideo(d, s, f, k, n)
    PROVE  Budgeted'
<1> DEFINE fresh == track[d].stream # s
           t == IF fresh THEN Track(s, ~k) ELSE track[d]
           ms == IF fresh \/ k THEN Purge(messages, d, FALSE) ELSE messages
           e == Video(d, s, f, k, n)
<1>1. messages \in SUBSET Entry /\ ms \subseteq messages /\ ms \in SUBSET Entry
    BY DEF Types, Purge
<1>2. /\ e.display = d /\ e.bytes = n /\ e.at = arrivals
      /\ e \in Entry
    BY DEF Video, Types, Entry, Streams
<1>3. e \notin messages
    <2>1. \A x \in messages : x.at < arrivals
        BY DEF Order, Numbered
    <2>2. ~(arrivals < arrivals)
        BY DEF Types
    <2> QED BY <1>2, <2>1, <2>2
<1> HIDE DEF ms, t, fresh, e
<1>4. CASE UNCHANGED queueVars
    BY <1>4 DEF Budgeted, Within, queueVars
<1>5. CASE messages' = Purge(ms, d, TRUE) /\ bytes' = BytesAfter(Purge(ms, d, TRUE))
    <2>1. messages' \subseteq messages /\ bytes' = BytesAfter(messages')
        BY <1>1, <1>5 DEF Purge
    <2> QED BY <1>1, <2>1, BudgetedShrinks
<1>6. CASE ~Full(ms, d, n) /\ messages' = ms \cup {e} /\ bytes' = BytesAfter(ms) + n
    <2>1. BytesAfter(ms) = Weight(ms) /\ Weight(ms) \in Nat
        BY <1>1, BytesLeft
    <2>2. Within(ms)
        BY <1>1, WithinShrinks DEF Budgeted
    <2>3. Within(ms \cup {e})
        BY <1>1, <1>2, <1>3, <1>6, <2>1, <2>2, WithinVideo
    <2>4. IsFiniteSet(ms)
        BY <2>2 DEF Within
    <2>5. Weight(ms \cup {e}) = Weight(ms) + n
        BY <1>1, <1>2, <1>3, <2>4, WeightAdds
    <2>6. bytes' = Weight(messages') /\ Within(messages')
        BY <1>6, <2>1, <2>3, <2>5
    <2> QED BY <2>6 DEF Budgeted
<1> QED BY <1>4, <1>5, <1>6 DEF PushVideo, ms, t, fresh, e

\* Every step keeps the budgets and the byte total.
LEMMA BudgetedStep == Types /\ Order /\ Budgeted /\ [Next]_vars => Budgeted'
<1> SUFFICES ASSUME Types, Order, Budgeted, [Next]_vars PROVE Budgeted'
    OBVIOUS
<1> USE DEF queueVars, wakeVars, taskVars, wireVars
<1>0. messages \in SUBSET Entry
    BY DEF Types
<1>1. CASE UNCHANGED <<messages, bytes>>
    BY <1>1 DEF Budgeted, Within
<1>2. ASSUME NEW s \in Streams, NEW k \in BOOLEAN, NEW n \in FrameSizes, SendVideo(s, k, n)
      PROVE  Budgeted'
    <2>1. /\ run[s].display \in Displays /\ run[s].next \in 0 .. MaxFrame /\ n \in Nat
        BY <1>2, QueueConstants DEF SendVideo, Types
    <2>2. PushVideo(run[s].display, s, run[s].next, k, n)
        BY <1>2 DEF SendVideo
    <2> QED BY <2>1, <2>2, BudgetedPush
<1>3. ASSUME NEW n \in BarrierSizes, SendBarrier(n) PROVE Budgeted'
    <2> DEFINE e == BarrierOf(n)
    <2>1. e \in Entry /\ e.display = NoDisplay /\ e.bytes = n /\ e.at = arrivals
        BY QueueConstants DEF BarrierOf, Entry, Types
    <2>2. e \notin messages
        <3>1. \A x \in messages : x.at < arrivals
            BY DEF Order, Numbered
        <3>2. ~(arrivals < arrivals)
            BY DEF Types
        <3> QED BY <2>1, <3>1, <3>2
    <2>3. CASE BarrierRefused(n)
        BY <1>1, <1>3, <2>3 DEF SendBarrier, PushBarrier
    <2>4. CASE ~BarrierRefused(n)
        <3>1. messages' = messages \cup {e} /\ bytes' = bytes + n
            BY <1>3, <2>4 DEF SendBarrier, PushBarrier
        <3> HIDE DEF e
        <3>2. Within(messages \cup {e}) /\ Weight(messages \cup {e}) = bytes + n
            BY <1>0, <2>1, <2>2, <2>4, WithinBarrier
        <3>3. bytes' = Weight(messages') /\ Within(messages')
            BY <3>1, <3>2
        <3> QED BY <3>3 DEF Budgeted
    <2> QED BY <2>3, <2>4
<1>4. CASE Recv
    <2>1. CASE PopNone
        BY <1>1, <2>1 DEF PopNone
    <2>2. ASSUME NEW e \in messages, Take(e) PROVE Budgeted'
        <3>1. messages' = messages \ {e} /\ messages \ (messages \ {e}) = {e} /\ bytes' = bytes - e.bytes
            BY <2>2 DEF Take
        <3>2. Weight({e}) = e.bytes
            <4>1. {} \in SUBSET Entry /\ IsFiniteSet({}) /\ e \in Entry \ {} /\ {} \cup {e} = {e}
                BY <1>0, FS_EmptySet
            <4>2. Weight({} \cup {e}) = Weight({}) + e.bytes /\ Weight({}) = 0
                BY <4>1, WeightAdds
            <4>3. e.bytes \in Nat
                BY <4>1 DEF Entry
            <4> QED BY <4>1, <4>2, <4>3
        <3>3. bytes' = BytesAfter(messages')
            BY <3>1, <3>2 DEF BytesAfter
        <3> QED BY <1>0, <3>1, <3>3, BudgetedShrinks
    <2>3. CASE PopBarrier
        <3>1. Front(messages) \in messages /\ Take(Front(messages))
            BY <1>0, <2>3, FrontIsFirst DEF PopBarrier
        <3> QED BY <2>2, <3>1
    <2>4. CASE PopVideo
        <3>1. PICK v \in 0 .. PopVisits - 1 : Pays(v) /\ Take(HeadOf(VisitedAt(v)))
            BY <2>4 DEF PopVideo
        <3>2. v \in Nat
            OBVIOUS
        <3>3. VisitedAt(v) \in Displays
            BY <3>2, VisitsTyped DEF Types
        <3>4. HeadOf(VisitedAt(v)) \in messages
            BY <3>1, <3>3, HeadIsFirst DEF Pays
        <3> QED BY <2>2, <3>1, <3>4
    <2> QED BY <1>4, <2>1, <2>3, <2>4 DEF Recv
<1>5. CASE DropFrame
    <2>1. PICK e \in hand : Lose(e)
        BY <1>5 DEF DropFrame
    <2>2. CASE track[e.display].stream # e.stream
        BY <1>1, <2>1, <2>2 DEF Lose
    <2>3. CASE track[e.display].stream = e.stream
        <3>1. messages' \subseteq messages /\ bytes' = BytesAfter(messages')
            BY <2>1, <2>3 DEF Lose, Purge
        <3> QED BY <1>0, <3>1, BudgetedShrinks
    <2> QED BY <2>2, <2>3
<1>6. ASSUME NEW on \in Selections, SetDisplays(on) PROVE Budgeted'
    <2>1. messages' \subseteq messages /\ bytes' = BytesAfter(messages')
        BY <1>6 DEF SetDisplays
    <2> QED BY <1>0, <2>1, BudgetedShrinks
<1>7. \/ UNCHANGED <<messages, bytes>>
      \/ \E s \in Streams, k \in BOOLEAN, n \in FrameSizes : SendVideo(s, k, n)
      \/ \E n \in BarrierSizes : SendBarrier(n)
      \/ Recv \/ DropFrame
      \/ \E on \in Selections : SetDisplays(on)
    BY DEF Next, vars, StartRun, NotifyOne, RecvFatal, Wake, SendOk, ParkBarrier, SendError,
           Tick, RefreshIntervalOver
<1> QED BY <1>1, <1>2, <1>3, <1>4, <1>5, <1>6, <1>7

\* Types, order and budgets hold together.
LEMMA QueueInvariant == Spec => [](Types /\ Order /\ Budgeted)
<1>1. Types /\ Order /\ [Next]_vars => Order'
    BY OrderStep
<1> QED BY TypesInit, TypesStep, OrderInit, <1>1, BudgetedInit, BudgetedStep, PTL DEF Spec

\* The byte total the queue maintains is the sum over its entries, and no
\* interleaving of pushes, pops, losses and switches exceeds a budget.
THEOREM BudgetsHold == Spec => []Budgets
<1>1. Budgeted => Budgets
    BY DEF Budgeted, Within, Budgets
<1> QED BY <1>1, QueueInvariant, PTL

\* TypeOK of the module: the byte total is a natural number too.
THEOREM TypeCorrect == Spec => []TypeOK
<1>1. Types /\ Budgeted => TypeOK
    <2> SUFFICES ASSUME Types, Budgeted PROVE TypeOK
        OBVIOUS
    <2>1. messages \in SUBSET Entry /\ messages \subseteq messages
        BY DEF Types
    <2>2. Weight(messages) \in Nat
        BY <2>1, BytesLeft
    <2> QED BY <2>2 DEF TypeOK, Budgeted
<1> QED BY <1>1, QueueInvariant, PTL

-----------------------------------------------------------------------------
(* Round robin: no wake-up is lost, no barrier finds its slots taken by video  *)

\* Division with remainder by a positive number is unique.
LEMMA Remainder ==
    ASSUME NEW n \in Nat \ {0}, NEW r \in 0 .. n - 1, NEW q \in Int
    PROVE  (n * q + r) % n = r /\ (n * q + r) \div n = q
<1> DEFINE x == n * q + r
           a == x \div n
           b == x % n
<1>1. n * q \in Int /\ x \in Int
    OBVIOUS
<1>2. a \in Int /\ b \in 0 .. n - 1 /\ x = n * a + b
    BY <1>1
<1> HIDE DEF a, b
<1>3. n * q + r = n * a + b
    BY <1>2
<1>4. q = a
    <2>1. CASE q < a
        <3>1. PICK z \in Nat \ {0} : a = q + z
            BY <2>1, <1>2
        <3>2. n * a = n * q + n * z
            BY <3>1
        <3>3. n * z >= n
            BY <3>1
        <3> QED BY <1>2, <1>3, <3>2, <3>3
    <2>2. CASE q > a
        <3>1. PICK z \in Nat \ {0} : q = a + z
            BY <2>2, <1>2
        <3>2. n * q = n * a + n * z
            BY <3>1, <1>2
        <3>3. n * z >= n
            BY <3>1
        <3> QED BY <1>2, <1>3, <3>2, <3>3
    <2> QED BY <2>1, <2>2, <1>2
<1>5. r = b
    BY <1>2, <1>3, <1>4
<1> QED BY <1>4, <1>5 DEF a, b

\* pop visits every display MAX_FRAME_BYTES \div QUANTUM + 1 times: the last of them.
LEMMA LastVisit ==
    ASSUME cursor \in Displays, NEW d \in Displays
    PROVE  \E v \in 0 .. PopVisits - 1 :
              VisitedAt(v) = d /\ VisitsTo(d, v) = (MAX_FRAME_BYTES \div QUANTUM) + 1
<1> DEFINE q == MAX_FRAME_BYTES \div QUANTUM
           n == DISPLAYS
           first == (d - cursor) % n
           v == first + n * q
<1>1. q \in Nat /\ n \in Nat \ {0} /\ cursor \in 0 .. n - 1 /\ d \in 0 .. n - 1
    BY ConstantsTyped DEF Displays
<1>2. PopVisits = n * (q + 1)
    BY DEF PopVisits
<1>3. first = (IF d >= cursor THEN d - cursor ELSE d - cursor + n)
    <2>1. CASE d >= cursor
        <3>1. d - cursor \in 0 .. n - 1 /\ 0 \in Int /\ n * 0 + (d - cursor) = d - cursor
            BY <1>1, <2>1
        <3>2. (n * 0 + (d - cursor)) % n = d - cursor
            BY <1>1, <3>1, Remainder
        <3> QED BY <2>1, <3>1, <3>2
    <2>2. CASE d < cursor
        <3>1. /\ d - cursor + n \in 0 .. n - 1 /\ -1 \in Int
              /\ n * (-1) + (d - cursor + n) = d - cursor
            BY <1>1, <2>2
        <3>2. (n * (-1) + (d - cursor + n)) % n = d - cursor + n
            BY <1>1, <3>1, Remainder
        <3> QED BY <1>1, <2>2, <3>1, <3>2
    <2> QED BY <1>1, <2>1, <2>2
<1> HIDE DEF q, n
<1>4. first \in 0 .. n - 1
    BY <1>1, <1>3
<1>5. n * q \in Nat /\ n * (q + 1) = n * q + n
    BY <1>1
<1>6. VisitedAt(v) = (cursor + v) % n
    BY DEF VisitedAt, n
<1>7. VisitsTo(d, v) = IF v < first THEN 0 ELSE ((v - first) \div n) + 1
    BY DEF VisitsTo, n
<1>8. (cursor + v) % n = d
    <2>1. CASE d >= cursor
        <3>1. cursor + v = n * q + d
            BY <1>1, <1>3, <1>5, <2>1
        <3>2. (n * q + d) % n = d
            BY <1>1, Remainder
        <3> QED BY <3>1, <3>2
    <2>2. CASE d < cursor
        <3>1. cursor + v = n * (q + 1) + d /\ q + 1 \in Int
            BY <1>1, <1>3, <1>5, <2>2
        <3>2. (n * (q + 1) + d) % n = d
            BY <1>1, <3>1, Remainder
        <3> QED BY <3>1, <3>2
    <2> QED BY <1>1, <2>1, <2>2
<1>9. (v - first) \div n = q /\ ~(v < first)
    <2>1. v - first = n * q + 0 /\ ~(v < first) /\ 0 \in 0 .. n - 1
        BY <1>1, <1>4, <1>5
    <2>2. (n * q + 0) \div n = q
        BY <1>1, <2>1, Remainder
    <2> QED BY <2>1, <2>2
<1>10. v \in 0 .. n * (q + 1) - 1
    BY <1>1, <1>4, <1>5
<1> HIDE DEF v, first
<1>11. v \in 0 .. PopVisits - 1
    BY <1>2, <1>10
<1>12. VisitedAt(v) = d /\ VisitsTo(d, v) = q + 1
    BY <1>6, <1>7, <1>8, <1>9
<1> QED BY <1>11, <1>12 DEF q

\* With a frame before the first barrier, some visit of pop can pay.
LEMMA PopServes ==
    ASSUME Types, Order, Budgeted, messages # {}, Front(messages).display # NoDisplay
    PROVE  \E v \in 0 .. PopVisits - 1 : Pays(v)
<1> DEFINE e == Front(messages)
           d == e.display
           q == MAX_FRAME_BYTES \div QUANTUM
<1>1. e \in messages /\ e \in Entry /\ \A x \in messages : e.at <= x.at
    BY FrontIsFirst DEF Types
<1> HIDE DEF e
<1>2. d \in Displays
    BY <1>1 DEF Entry, e
<1>3. e \in BeforeBarrier
    <2>1. ASSUME NEW b \in Barriers(messages) PROVE e.at < b.at
        <3>1. b \in messages /\ b # e /\ e.at <= b.at /\ e.at \in Nat /\ b.at \in Nat
            BY <1>1 DEF Barriers, Of, e, Types, Entry
        <3>2. e.at # b.at
            BY <1>1, <3>1 DEF Order, Numbered
        <3> QED BY <3>1, <3>2
    <2> QED BY <1>1, <2>1 DEF BeforeBarrier, e
<1>4. Of(BeforeBarrier, d) # {}
    BY <1>3 DEF Of
<1>5. HeadOf(d) \in messages /\ HeadOf(d).display = d
    BY <1>2, <1>4, HeadIsFirst
<1> DEFINE h == HeadOf(d)
<1>6. h.bytes \in Nat /\ h.bytes <= MAX_FRAME_BYTES
    <2> DEFINE own == Of(messages, d)
    <2>1. own \in SUBSET Entry /\ own \subseteq messages /\ h \in own
        BY <1>5 DEF Types, Of
    <2>2. IsFiniteSet(own) /\ Weight(own) <= MAX_FRAME_BYTES
        BY <1>2, <2>1, SmallerCounts DEF Budgeted, Within
    <2> HIDE DEF own, h
    <2>3. /\ own \ {h} \in SUBSET Entry /\ IsFiniteSet(own \ {h}) /\ h \in Entry \ (own \ {h})
          /\ (own \ {h}) \cup {h} = own
        BY <2>1, <2>2, SmallerCounts
    <2>4. Weight((own \ {h}) \cup {h}) = Weight(own \ {h}) + h.bytes /\ Weight(own \ {h}) \in Nat
        BY <2>3, WeightAdds
    <2>5. h.bytes \in Nat
        BY <2>3 DEF Entry
    <2> QED BY <2>2, <2>3, <2>4, <2>5, BudgetConstants
<1>7. PICK v \in 0 .. PopVisits - 1 : VisitedAt(v) = d /\ VisitsTo(d, v) = q + 1
    BY <1>2, LastVisit DEF Types
<1>8. CreditAfter(d, v) >= h.bytes
    <2>1. q \in Nat /\ q * QUANTUM = MAX_FRAME_BYTES /\ QUANTUM \in Nat /\ MAX_FRAME_BYTES \in Nat
        <3>1. MAX_FRAME_BYTES = QUANTUM * q + (MAX_FRAME_BYTES % QUANTUM) /\ q \in Nat
            BY ConstantsTyped
        <3>2. q * QUANTUM = QUANTUM * q /\ QUANTUM * q \in Nat
            BY <3>1, ConstantsTyped
        <3> QED BY <3>1, <3>2, QuantumDivides, ConstantsTyped
    <2> DEFINE g == (q + 1) - (IF continuing /\ d = cursor THEN 1 ELSE 0)
               credit == track[d].deficit + g * QUANTUM
    <2>2. CreditAfter(d, v) = IF g > 0 /\ credit > MAX_FRAME_BYTES + QUANTUM
                              THEN MAX_FRAME_BYTES + QUANTUM ELSE credit
        BY <1>7 DEF CreditAfter
    <2>3. track[d].deficit \in Nat
        BY <1>2 DEF Types, TrackType
    <2> HIDE DEF q
    <2>4. g = q \/ g = q + 1
        BY <2>1
    <2> HIDE DEF g
    <2>5. g * QUANTUM = q * QUANTUM \/ g * QUANTUM = q * QUANTUM + QUANTUM
        <3>1. (q + 1) * QUANTUM = q * QUANTUM + QUANTUM
            BY <2>1
        <3> QED BY <2>4, <3>1
    <2>6. credit \in Nat /\ credit >= MAX_FRAME_BYTES
        BY <2>1, <2>3, <2>5
    <2> HIDE DEF credit, h
    <2> QED BY <1>6, <2>1, <2>2, <2>6
<1> QED BY <1>4, <1>7, <1>8 DEF Pays

-----------------------------------------------------------------------------
\* No step loses a wake-up: a push leaves its notification, and a receiver goes to
\* sleep only on an empty queue.
LEMMA WakeupStep == Types /\ Order /\ Budgeted /\ NoLostWakeup /\ [Next]_vars => NoLostWakeup'
<1> SUFFICES ASSUME Types, Order, Budgeted, NoLostWakeup, [Next]_vars,
                    waiting', ~permit', unnotified' = {}
             PROVE  messages' = {}
    BY DEF NoLostWakeup
<1> USE DEF queueVars, wakeVars, taskVars, wireVars
<1>1. CASE Recv
    <2>1. UNCHANGED <<permit, unnotified>> /\ ~waiting
        BY <1>1 DEF Recv, Receiving
    <2>2. PopNone
        BY <1>1, <2>1 DEF Recv
    <2>3. messages = {}
        <3>1. SUFFICES ASSUME messages # {} PROVE FALSE
            OBVIOUS
        <3>2. Front(messages).display # NoDisplay /\ \A v \in 0 .. PopVisits - 1 : ~Pays(v)
            BY <2>2, <3>1 DEF PopNone
        <3> QED BY <3>1, <3>2, PopServes
    <2> QED BY <2>2, <2>3 DEF PopNone
<1>2. CASE UNCHANGED <<messages, permit, unnotified, waiting>>
    BY <1>2 DEF NoLostWakeup
<1>3. CASE DropFrame
    <2>1. PICK e \in hand : Lose(e)
        BY <1>3 DEF DropFrame
    <2>2. messages' \subseteq messages
        BY <2>1 DEF Lose, Purge
    <2>3. messages = {}
        BY <1>3 DEF DropFrame, NoLostWakeup
    <2> QED BY <2>2, <2>3
<1>4. ~(\E s \in Streams, k \in BOOLEAN, n \in FrameSizes : SendVideo(s, k, n))
    BY DEF SendVideo
<1>5. ~(\E n \in BarrierSizes : SendBarrier(n))
    BY DEF SendBarrier
<1>6. ~(\E p \in {0} \cup Streams : NotifyOne(p))
    BY DEF NotifyOne
<1>7. ~Wake /\ ~Tick /\ ~\E on \in Selections : SetDisplays(on)
    BY DEF Wake, Tick, SetDisplays
<1>8. \/ UNCHANGED <<messages, permit, unnotified, waiting>>
      \/ Recv \/ DropFrame
    BY <1>4, <1>5, <1>6, <1>7
       DEF Next, vars, StartRun, RecvFatal, SendOk, ParkBarrier, SendError, RefreshIntervalOver
<1> QED BY <1>1, <1>2, <1>3, <1>8

\* A receiver asleep without a wake-up on its way has nothing queued.
THEOREM NoLostWakeupHolds == Spec => []NoLostWakeup
<1>1. Init => NoLostWakeup
    BY DEF Init, NoLostWakeup
<1> QED BY <1>1, QueueInvariant, WakeupStep, PTL DEF Spec

\* A barrier is refused for want of a slot only when barriers fill the reserve.
THEOREM BarrierReserveHolds == Spec => BarrierReserve
<1> DEFINE A == fatal' /\ ~fatal =>
                  \/ Cardinality(Barriers(messages)) >= CONTROL_RESERVE
                  \/ \E n \in BarrierSizes : n > MAX_FRAME_BYTES \/ bytes + n > MAX_BYTES
<1>1. Types /\ Order /\ Budgeted /\ [Next]_vars => [A]_vars
    <2> SUFFICES ASSUME Types, Budgeted, [Next]_vars, fatal', ~fatal,
                        \A n \in BarrierSizes : ~(n > MAX_FRAME_BYTES \/ bytes + n > MAX_BYTES)
                 PROVE  Cardinality(Barriers(messages)) >= CONTROL_RESERVE
        OBVIOUS
    <2>0. ASSUME NEW s \in Streams, NEW k \in BOOLEAN, NEW n \in FrameSizes, SendVideo(s, k, n)
          PROVE  FALSE
        <3>1. fatal' = fatal
            BY <2>0 DEF SendVideo, PushVideo, queueVars
        <3> QED BY <3>1
    <2>00. Recv => fatal' = fatal
        BY RecvEffect
    <2>1. PICK n \in BarrierSizes : SendBarrier(n)
        BY <2>0, <2>00 DEF Next, vars, queueVars, StartRun, NotifyOne, RecvFatal,
               Wake, SendOk, DropFrame, Lose, ParkBarrier, SendError, Tick, RefreshIntervalOver, SetDisplays
    <2>2. BarrierRefused(n)
        BY <2>1 DEF SendBarrier, PushBarrier
    <2>3. Cardinality(messages) = CAPACITY
        BY <2>2 DEF BarrierRefused
    <2> DEFINE B == Barriers(messages)
    <2>4. IsFiniteSet(messages) /\ B \subseteq messages /\ messages \cap B = B
        BY DEF Budgeted, Within, Barriers, Of
    <2>5. Cardinality(messages \ B) = Cardinality(messages) - Cardinality(messages \cap B)
        BY <2>4, FS_Difference
    <2>6. Cardinality(B) \in Nat
        BY <2>4, SmallerCounts
    <2>7. Cardinality(messages \ B) <= CAPACITY - CONTROL_RESERVE
        BY DEF Budgeted, Within
    <2>8. CAPACITY - Cardinality(B) <= CAPACITY - CONTROL_RESERVE
        BY <2>3, <2>4, <2>5, <2>7
    <2> HIDE DEF B
    <2>9. Cardinality(B) >= CONTROL_RESERVE
        BY <2>6, <2>8, BudgetConstants
    <2> QED BY <2>9 DEF B
<1>2. BarrierReserve <=> [][A]_vars
    BY DEF BarrierReserve
<1> HIDE DEF A
<1> QED BY <1>1, <1>2, QueueInvariant, PTL DEF Spec

-----------------------------------------------------------------------------
(* Recovery *)

\* A loss outside a recovery starts one with nothing requested; a loss during a
\* recovery keeps what was requested.
LEMMA LossFields ==
    ASSUME NEW t \in TrackType, NEW floor
    PROVE  /\ LossTrack(t, floor).stream = t.stream
           /\ ~t.recovering => LossTrack(t, floor).refreshes = 0 /\ ~LossTrack(t, floor).cooling
           /\ t.recovering => /\ LossTrack(t, floor).refreshes = t.refreshes
                              /\ LossTrack(t, floor).cooling = t.cooling
<1> DEFINE c == t.recovering /\ t.cooling
           n == IF t.recovering THEN t.refreshes ELSE 0
           m == IF t.lost_through > floor THEN t.lost_through ELSE floor
           a == [t EXCEPT !.refreshes = n]
           b == [a EXCEPT !.cooling = c]
           r == [b EXCEPT !.recovering = TRUE]
           l == [r EXCEPT !.lost_through = m]
<1>1. DOMAIN t = {"stream", "enabled", "recovering", "lost_through", "refreshes", "cooling", "deficit"}
    BY DEF TrackType
<1>2. LossTrack(t, floor) = l
    BY DEF LossTrack
<1> HIDE DEF c, n, m
<1>3. l.stream = t.stream /\ l.refreshes = n /\ l.cooling = c
    BY <1>1
<1> HIDE DEF l
<1>4. t.recovering \in BOOLEAN /\ t.cooling \in BOOLEAN
    BY DEF TrackType
<1>5. /\ ~t.recovering => n = 0 /\ ~c
      /\ t.recovering => n = t.refreshes /\ c = t.cooling
    BY <1>4, Zenon DEF c, n
<1> QED BY <1>2, <1>3, <1>5, Zenon

\* A display that enters recovery, or one of a new run, has asked for nothing yet.
Starts(t, u) ==
    u.recovering /\ (~t.recovering \/ u.stream # t.stream) => u.refreshes = 0 /\ ~u.cooling

\* A push that begins a recovery, or a run that begins in recovery, starts afresh.
LEMMA PushStarts ==
    ASSUME Types, NEW d \in Displays, NEW s \in Streams, NEW f \in 0 .. MaxFrame,
           NEW k \in BOOLEAN, NEW n \in Nat, PushVideo(d, s, f, k, n), NEW x \in Displays
    PROVE  Starts(track[x], track'[x])
<1> DEFINE fresh == track[d].stream # s
           t == IF fresh THEN Track(s, ~k) ELSE track[d]
           ms == IF fresh \/ k THEN Purge(messages, d, FALSE) ELSE messages
           rec == k /\ (f = 0 \/ f > t.lost_through)
           loss == LossTrack(t, LossFloor(ms, d, f))
           adm == [t EXCEPT !.recovering = @ /\ ~rec, !.refreshes = IF rec THEN 0 ELSE @]
<1>1. track[d] \in TrackType /\ s \in Nat /\ track \in [Displays -> TrackType]
    BY DEF Types, Streams
<1>2. /\ t \in TrackType /\ t.stream = s
      /\ fresh => t.recovering = ~k /\ t.refreshes = 0 /\ ~t.cooling
      /\ ~fresh => t = track[d]
    BY <1>1 DEF Track, TrackType
<1>3. ~fresh => track[d].stream = s
    OBVIOUS
<1>4. Starts(track[x], track[x])
    BY DEF Starts
<1> HIDE DEF t, ms, fresh, rec
<1>5. CASE UNCHANGED queueVars
    BY <1>4, <1>5 DEF queueVars
<1>6. CASE track' = [track EXCEPT ![d] = loss]
    <2>1. /\ loss.stream = t.stream
          /\ ~t.recovering => loss.refreshes = 0 /\ ~loss.cooling
          /\ t.recovering => loss.refreshes = t.refreshes /\ loss.cooling = t.cooling
        BY <1>2, LossFields
    <2> HIDE DEF loss
    <2>2. Starts(track[d], loss)
        BY <1>2, <1>3, <2>1 DEF Starts
    <2>3. track'[x] = IF x = d THEN loss ELSE track[x]
        BY <1>1, <1>6
    <2> QED BY <1>4, <2>2, <2>3
<1>7. CASE ~(~k /\ t.recovering) /\ track' = [track EXCEPT ![d] = adm]
    <2>1. adm.stream = t.stream /\ adm.cooling = t.cooling /\ adm.recovering = (t.recovering /\ ~rec)
        BY <1>2 DEF TrackType
    <2> HIDE DEF adm
    <2>2. Starts(track[d], adm)
        <3>1. CASE fresh
            BY <1>2, <1>7, <2>1, <3>1 DEF Starts
        <3>2. CASE ~fresh
            BY <1>2, <1>3, <2>1, <3>2 DEF Starts
        <3> QED BY <3>1, <3>2
    <2>3. track'[x] = IF x = d THEN adm ELSE track[x]
        BY <1>1, <1>7
    <2> QED BY <1>4, <2>2, <2>3
<1> QED BY <1>5, <1>6, <1>7 DEF PushVideo, t, ms, fresh, rec, loss, adm

\* Every recovery starts with its full budget of key frame requests and none in
\* the recent past, however the display got into recovery.
THEOREM FreshRecoveryHolds == Spec => FreshRecovery
<1> DEFINE A == \A d \in Displays :
        track'[d].recovering /\ (~track[d].recovering \/ track'[d].stream # track[d].stream)
            => track'[d].refreshes = 0 /\ ~track'[d].cooling
<1>1. Types /\ [Next]_vars => [A]_vars
    <2> SUFFICES ASSUME Types, [Next]_vars, NEW x \in Displays
                 PROVE  Starts(track[x], track'[x])
        BY DEF Starts
    <2> USE DEF queueVars, wakeVars, taskVars, wireVars
    <2>0. \A d \in Displays : track[d] \in TrackType
        BY DEF Types
    <2>1. CASE track'[x].stream = track[x].stream /\ track'[x].recovering = track[x].recovering
        BY <2>1 DEF Starts
    <2>2. ASSUME NEW s \in Streams, NEW k \in BOOLEAN, NEW n \in FrameSizes, SendVideo(s, k, n)
          PROVE  Starts(track[x], track'[x])
        <3>1. /\ run[s].display \in Displays /\ run[s].next \in 0 .. MaxFrame /\ n \in Nat
            BY <2>2, QueueConstants DEF SendVideo, Types
        <3>2. PushVideo(run[s].display, s, run[s].next, k, n)
            BY <2>2 DEF SendVideo
        <3> QED BY <3>1, <3>2, PushStarts
    <2>3. CASE Recv
        BY <2>1, <2>3, RecvEffect
    <2>4. CASE DropFrame
        <3>1. PICK e \in hand : e.display # NoDisplay /\ Lose(e)
            BY <2>4 DEF DropFrame
        <3>2. e.display \in Displays
            BY <3>1 DEF Types, Entry
        <3> DEFINE loss == LossTrack(track[e.display], LossFloor(messages, e.display, e.frame))
        <3>3. Starts(track[e.display], loss)
            <4>1. /\ loss.stream = track[e.display].stream
                  /\ ~track[e.display].recovering => loss.refreshes = 0 /\ ~loss.cooling
                BY <2>0, <3>2, LossFields
            <4> HIDE DEF loss
            <4> QED BY <4>1 DEF Starts
        <3>4. track' = track \/ track' = [track EXCEPT ![e.display] = loss]
            BY <3>1 DEF Lose
        <3> HIDE DEF loss
        <3>5. track'[x] = track[x] \/ (x = e.display /\ track'[x] = loss)
            BY <3>2, <3>4 DEF Types
        <3> QED BY <2>1, <3>3, <3>5
    <2>5. CASE Tick
        <3>1. track'[x].stream = track[x].stream /\ track'[x].recovering = track[x].recovering
            BY <2>5, <2>0 DEF Tick, TrackType
        <3> QED BY <2>1, <3>1
    <2>6. ASSUME NEW d \in Displays, RefreshIntervalOver(d) PROVE Starts(track[x], track'[x])
        <3>1. track' = [track EXCEPT ![d] = [track[d] EXCEPT !.cooling = FALSE]]
            BY <2>6 DEF RefreshIntervalOver
        <3>2. /\ [track[d] EXCEPT !.cooling = FALSE].stream = track[d].stream
              /\ [track[d] EXCEPT !.cooling = FALSE].recovering = track[d].recovering
            BY <2>0 DEF TrackType
        <3>3. track'[x].stream = track[x].stream /\ track'[x].recovering = track[x].recovering
            BY <3>1, <3>2 DEF Types
        <3> QED BY <2>1, <3>3
    <2>7. ASSUME NEW on \in Selections, SetDisplays(on) PROVE Starts(track[x], track'[x])
        <3> DEFINE t == track[x]
                   off == [t EXCEPT !.enabled = FALSE, !.recovering = FALSE]
                   again == [t EXCEPT !.enabled = TRUE, !.recovering = TRUE, !.refreshes = 0, !.cooling = FALSE]
        <3>1. track'[x] = IF t.enabled /\ x \notin on THEN off
                          ELSE IF ~t.enabled /\ x \in on THEN again ELSE t
            BY <2>7 DEF SetDisplays
        <3>2. DOMAIN t = {"stream", "enabled", "recovering", "lost_through", "refreshes", "cooling", "deficit"}
            BY <2>0 DEF TrackType
        <3>3. off.recovering = FALSE /\ again.refreshes = 0 /\ again.cooling = FALSE
            BY <3>2
        <3> HIDE DEF off, again
        <3> QED BY <2>1, <3>1, <3>3 DEF Starts
    <2>8. \/ UNCHANGED track
          \/ \E s \in Streams, k \in BOOLEAN, n \in FrameSizes : SendVideo(s, k, n)
          \/ Recv \/ DropFrame \/ Tick
          \/ \E d \in Displays : RefreshIntervalOver(d)
          \/ \E on \in Selections : SetDisplays(on)
        BY DEF Next, vars, StartRun, SendBarrier, PushBarrier, NotifyOne, RecvFatal, Wake, SendOk,
               ParkBarrier, SendError
    <2> QED BY <2>1, <2>2, <2>3, <2>4, <2>5, <2>6, <2>7, <2>8
<1>2. FreshRecovery <=> [][A]_vars
    BY DEF FreshRecovery
<1> HIDE DEF A
<1> QED BY <1>1, <1>2, TypesHold, PTL DEF Spec

-----------------------------------------------------------------------------
(* Credit of the round robin *)

\* No display hoards credit: a display that is visited again and again while the
\* queue holds nothing it can pay for never has more than one quantum beyond the
\* largest frame.
CreditBounded == \A d \in Displays : track[d].deficit <= MAX_FRAME_BYTES + QUANTUM

\* The visits of pop keep the bound, whatever the last one pays.
LEMMA CreditKept ==
    ASSUME Types, CreditBounded, NEW v \in Nat, NEW paid \in Nat,
           paid = 0 \/ CreditAfter(VisitedAt(v), v) >= paid, NEW d \in Displays
    PROVE  TracksAfter(v, paid)[d].deficit <= MAX_FRAME_BYTES + QUANTUM
<1>1. /\ track[d] \in TrackType /\ track[d].deficit \in Nat
      /\ track[d].deficit <= MAX_FRAME_BYTES + QUANTUM
    BY DEF Types, TrackType, CreditBounded
<1> DEFINE limit == MAX_FRAME_BYTES + QUANTUM
<1>2. limit \in Nat
    BY ConstantsTyped
<1>3. CASE VisitsTo(d, v) = 0
    BY <1>1, <1>3 DEF TracksAfter
<1>4. CASE VisitsTo(d, v) # 0
    <2>1. CreditAfter(d, v) \in Nat
        BY <1>4, CreditTyped
    <2>2. CreditAfter(d, v) <= limit
        <3> DEFINE g == VisitsTo(d, v) - (IF continuing /\ d = cursor THEN 1 ELSE 0)
                   credit == track[d].deficit + g * QUANTUM
        <3>1. CreditAfter(d, v) = IF g > 0 /\ credit > limit THEN limit ELSE credit
            BY DEF CreditAfter
        <3>2. g \in Nat
            <4>1. VisitsTo(d, v) \in Nat \ {0}
                BY <1>4, VisitsTyped DEF Types
            <4> QED BY <4>1
        <3> HIDE DEF g
        <3>3. g * QUANTUM \in Nat /\ (g = 0 => g * QUANTUM = 0)
            BY <3>2, ConstantsTyped
        <3>4. credit \in Nat /\ (g = 0 => credit = track[d].deficit)
            BY <1>1, <3>3
        <3> HIDE DEF credit, limit
        <3> QED BY <1>1, <1>2, <3>1, <3>2, <3>4 DEF limit
    <2> DEFINE D == IF Of(BeforeBarrier, d) = {} THEN 0
                    ELSE CreditAfter(d, v) - (IF d = VisitedAt(v) THEN paid ELSE 0)
    <2>3. D <= limit
        BY <1>2, <2>1, <2>2
    <2>4. TracksAfter(v, paid)[d] = [track[d] EXCEPT !.deficit = D]
        BY <1>4 DEF TracksAfter
    <2> HIDE DEF D
    <2>5. TracksAfter(v, paid)[d].deficit = D
        BY <1>1, <2>4 DEF TrackType
    <2> QED BY <2>3, <2>5
<1> QED BY <1>3, <1>4

\* A loss leaves a track's credit alone.
LEMMA LossCredit ==
    ASSUME NEW t \in TrackType, NEW floor
    PROVE  LossTrack(t, floor).deficit = t.deficit
BY DEF LossTrack, TrackType

\* A push changes at most the track of its display, whose credit stays, or is zero
\* in a new run.
LEMMA PushCredit ==
    ASSUME Types, NEW d \in Displays, NEW s \in Streams, NEW f \in 0 .. MaxFrame,
           NEW k \in BOOLEAN, NEW n \in Nat, PushVideo(d, s, f, k, n), NEW x \in Displays
    PROVE  track'[x].deficit = track[x].deficit \/ track'[x].deficit = 0
<1> DEFINE fresh == track[d].stream # s
           t == IF fresh THEN Track(s, ~k) ELSE track[d]
           ms == IF fresh \/ k THEN Purge(messages, d, FALSE) ELSE messages
           rec == k /\ (f = 0 \/ f > t.lost_through)
           loss == LossTrack(t, LossFloor(ms, d, f))
           adm == [t EXCEPT !.recovering = @ /\ ~rec, !.refreshes = IF rec THEN 0 ELSE @]
<1>1. track[d] \in TrackType /\ s \in Nat /\ track \in [Displays -> TrackType]
    BY DEF Types, Streams
<1>2. t \in TrackType /\ (t.deficit = track[d].deficit \/ t.deficit = 0)
    BY <1>1 DEF Track, TrackType
<1>3. adm.deficit = t.deficit
    <2> HIDE DEF t, rec
    <2> QED BY <1>2 DEF TrackType
<1> HIDE DEF t, ms, rec, adm
<1>4. loss.deficit = t.deficit
    BY <1>2, LossCredit
<1> HIDE DEF loss
<1>5. track' = track \/ track' = [track EXCEPT ![d] = loss] \/ track' = [track EXCEPT ![d] = adm]
    BY DEF PushVideo, queueVars, t, ms, fresh, rec, loss, adm
<1>6. track'[x] = track[x] \/ (x = d /\ (track'[x] = loss \/ track'[x] = adm))
    BY <1>1, <1>5
<1> QED BY <1>2, <1>3, <1>4, <1>6

\* The credit of every display stays within one quantum of the largest frame,
\* through every pop, loss, new run and switch.
THEOREM CreditBoundedHolds == Spec => []CreditBounded
<1> DEFINE limit == MAX_FRAME_BYTES + QUANTUM
<1>1. Init => CreditBounded
    <2> SUFFICES ASSUME Init, NEW d \in Displays PROVE track[d].deficit <= limit
        BY DEF CreditBounded
    <2>1. track[d].deficit = 0
        BY DEF Init, Track
    <2> QED BY <2>1, ConstantsTyped
<1>2. Types /\ CreditBounded /\ [Next]_vars => CreditBounded'
    <2> SUFFICES ASSUME Types, CreditBounded, [Next]_vars, NEW x \in Displays
                 PROVE  track'[x].deficit <= limit
        BY DEF CreditBounded
    <2> USE DEF queueVars, wakeVars, taskVars, wireVars
    <2>0. /\ \A d \in Displays : track[d] \in TrackType
          /\ track[x].deficit <= limit /\ 0 <= limit
        BY ConstantsTyped DEF Types, CreditBounded
    <2>1. CASE track'[x].deficit = track[x].deficit \/ track'[x].deficit = 0
        BY <2>0, <2>1
    <2>2. ASSUME NEW s \in Streams, NEW k \in BOOLEAN, NEW n \in FrameSizes, SendVideo(s, k, n)
          PROVE  track'[x].deficit <= limit
        <3>1. /\ run[s].display \in Displays /\ run[s].next \in 0 .. MaxFrame /\ n \in Nat
            BY <2>2, QueueConstants DEF SendVideo, Types
        <3>2. PushVideo(run[s].display, s, run[s].next, k, n)
            BY <2>2 DEF SendVideo
        <3> QED BY <2>1, <3>1, <3>2, PushCredit
    <2>3. CASE Recv
        <3>1. CASE PopBarrier
            BY <2>1, <3>1 DEF PopBarrier
        <3>2. CASE PopVideo
            <4>1. PICK v \in 0 .. PopVisits - 1 :
                    Pays(v) /\ track' = TracksAfter(v, HeadOf(VisitedAt(v)).bytes)
                BY <3>2 DEF PopVideo
            <4>2. v \in Nat
                OBVIOUS
            <4>3. VisitedAt(v) \in Displays
                BY <4>2, VisitsTyped DEF Types
            <4>4. HeadOf(VisitedAt(v)) \in messages
                BY <4>1, <4>3, HeadIsFirst DEF Pays
            <4>5. HeadOf(VisitedAt(v)).bytes \in Nat
                BY <4>4 DEF Types, Entry
            <4>6. CreditAfter(VisitedAt(v), v) >= HeadOf(VisitedAt(v)).bytes
                BY <4>1 DEF Pays
            <4> QED BY <4>1, <4>2, <4>5, <4>6, CreditKept
        <3>3. CASE PopNone
            <4>1. CASE track' = track
                BY <2>1, <4>1
            <4>2. CASE track' = TracksAfter(PopVisits - 1, 0)
                <5>1. PopVisits - 1 \in Nat
                    <6>1. \E v \in 0 .. PopVisits - 1 : VisitedAt(v) = x
                        BY LastVisit DEF Types
                    <6>2. PopVisits \in Int
                        <7>1. MAX_FRAME_BYTES \div QUANTUM \in Nat
                            BY ConstantsTyped
                        <7> QED BY <7>1, ConstantsTyped DEF PopVisits
                    <6> QED BY <6>1, <6>2
                <5> QED BY <4>2, <5>1, CreditKept
            <4> QED BY <3>3, <4>1, <4>2 DEF PopNone
        <3> QED BY <2>3, <3>1, <3>2, <3>3 DEF Recv
    <2>4. CASE DropFrame
        <3>1. PICK e \in hand : e.display # NoDisplay /\ Lose(e)
            BY <2>4 DEF DropFrame
        <3>2. e.display \in Displays
            BY <3>1 DEF Types, Entry
        <3> DEFINE loss == LossTrack(track[e.display], LossFloor(messages, e.display, e.frame))
        <3>3. loss.deficit = track[e.display].deficit
            BY <2>0, <3>2, LossCredit
        <3>4. track' = track \/ track' = [track EXCEPT ![e.display] = loss]
            BY <3>1 DEF Lose
        <3> HIDE DEF loss
        <3>5. track'[x] = track[x] \/ (x = e.display /\ track'[x] = loss)
            BY <3>2, <3>4 DEF Types
        <3> QED BY <2>1, <3>3, <3>5
    <2>5. CASE Tick
        <3>1. track'[x].deficit = track[x].deficit
            BY <2>5, <2>0 DEF Tick, TrackType
        <3> QED BY <2>1, <3>1
    <2>6. ASSUME NEW d \in Displays, RefreshIntervalOver(d) PROVE track'[x].deficit <= limit
        <3>1. track' = [track EXCEPT ![d] = [track[d] EXCEPT !.cooling = FALSE]]
            BY <2>6 DEF RefreshIntervalOver
        <3>2. [track[d] EXCEPT !.cooling = FALSE].deficit = track[d].deficit
            BY <2>0 DEF TrackType
        <3>3. track'[x].deficit = track[x].deficit
            BY <3>1, <3>2 DEF Types
        <3> QED BY <2>1, <3>3
    <2>7. ASSUME NEW on \in Selections, SetDisplays(on) PROVE track'[x].deficit <= limit
        <3>1. track'[x].deficit = track[x].deficit
            BY <2>7, <2>0 DEF SetDisplays, TrackType
        <3> QED BY <2>1, <3>1
    <2>8. \/ UNCHANGED track
          \/ \E s \in Streams, k \in BOOLEAN, n \in FrameSizes : SendVideo(s, k, n)
          \/ Recv \/ DropFrame \/ Tick
          \/ \E d \in Displays : RefreshIntervalOver(d)
          \/ \E on \in Selections : SetDisplays(on)
        BY DEF Next, vars, StartRun, SendBarrier, PushBarrier, NotifyOne, RecvFatal, Wake, SendOk,
               ParkBarrier, SendError
    <2> HIDE DEF limit
    <2> QED BY <2>1, <2>2, <2>3, <2>4, <2>5, <2>6, <2>7, <2>8
<1> QED BY <1>1, <1>2, TypesHold, PTL DEF Spec
=============================================================================
