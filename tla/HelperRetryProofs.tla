------------------------- MODULE HelperRetryProofs --------------------------
(***************************************************************************)
(* Proofs about the startup policy of the capture helpers.                 *)
(***************************************************************************)
EXTENDS HelperRetry, FiniteSetTheorems, TLAPS

-----------------------------------------------------------------------------
(* The inductive invariant *)

EntryMaps == UNION {[K -> Entry] : K \in SUBSET Keys}
Coordinator ==
    [desktop : Contexts \cup {"none"}, desktop_generation : 0 .. U64_MAX,
     next_attempt : 0 .. U64_MAX, entries : EntryMaps, enabled : BOOLEAN,
     process_retry_at : Nat]

\* The failures of one entry are bounded, and the last one suppresses it.
GoodEntry(e) ==
    /\ e \in Entry
    /\ e.failures <= MAX_FAILURES
    /\ e.failures = MAX_FAILURES <=> e.phase = "Suppressed"

\* The keys of a map of entries that count as starting.
StartingIn(m) == {k \in DOMAIN m : m[k].phase = "Starting"}

\* The entries kept in desktop generation g.
GoodEntries(m, g) ==
    /\ m \in EntryMaps
    /\ IsFiniteSet(DOMAIN m) /\ Cardinality(DOMAIN m) <= MAX_KEYS
    /\ Cardinality(StartingIn(m)) <= MAX_STARTING
    /\ \A k \in DOMAIN m : k.desktop_generation = g /\ GoodEntry(m[k])

Good(o) == o \in Coordinator /\ GoodEntries(o.entries, o.desktop_generation)

Environment ==
    /\ leases \in SUBSET Lease
    /\ now \in Nat /\ context \in Contexts
    /\ resetting \in SUBSET [conn : Connections, on : BOOLEAN]

Inv == Good(owner) /\ Environment /\ AttemptsOwned

-----------------------------------------------------------------------------
(* Entries and maps of entries *)

\* Entry e in phase p since, or until, t.
Moved(e, p, t) == [e EXCEPT !.phase = p, !.at = t]
Phases == {"Ready", "Queued", "Starting", "Running", "Cooldown", "Suppressed"}

\* An entry moved to another phase keeps its failures and its attempt.
LEMMA MovedFields ==
    ASSUME NEW e \in Entry, NEW p \in Phases, NEW t \in Nat
    PROVE  /\ Moved(e, p, t) \in Entry
           /\ Moved(e, p, t).phase = p
           /\ Moved(e, p, t).failures = e.failures
           /\ Moved(e, p, t).attempt = e.attempt
<1> DEFINE e1 == [e EXCEPT !.phase = p]
<1>1. e1 \in Entry /\ e1.phase = p /\ e1.failures = e.failures /\ e1.attempt = e.attempt
  BY DEF Entry, Phases
<1> HIDE DEF e1
<1> DEFINE e2 == [e1 EXCEPT !.at = t]
<1>2. e2 \in Entry /\ e2.phase = p /\ e2.failures = e.failures /\ e2.attempt = e.attempt
  BY <1>1 DEF Entry
<1>3. e2 = Moved(e, p, t)
  BY DEF e1, Moved
<1> QED  BY <1>2, <1>3

\* Fail records one more failure, and suppresses the helper at the limit.
LEMMA FailOutcome ==
    ASSUME now \in Nat, NEW e, GoodEntry(e), e.phase # "Suppressed"
    PROVE  /\ GoodEntry(Fail(e))
           /\ Fail(e).phase \in {"Cooldown", "Suppressed"}
           /\ Fail(e).attempt = e.attempt
<1> DEFINE n == e.failures + 1
           cooldown == IF n = 1 THEN FIRST_COOLDOWN ELSE SECOND_COOLDOWN
           e1 == [e EXCEPT !.failures = n]
<1>1. e \in Entry /\ n \in Nat /\ n <= MAX_FAILURES /\ MAX_FAILURES \in Nat
  BY HelperConstants DEF GoodEntry, Entry
<1>2. now + cooldown \in Nat
  BY <1>1, HelperConstants
<1>3. e1 \in Entry /\ e1.failures = n /\ e1.attempt = e.attempt
  BY <1>1 DEF Entry
<1>4. CASE n >= MAX_FAILURES
  <2> DEFINE f == Moved(e1, "Suppressed", 0)
  <2>1. f \in Entry /\ f.phase = "Suppressed" /\ f.failures = n /\ f.attempt = e.attempt
    <3>1. 0 \in Nat /\ "Suppressed" \in Phases
      BY DEF Phases
    <3> HIDE DEF e1, n
    <3> QED  BY <1>3, <3>1, MovedFields
  <2>2. Fail(e) = f
    BY <1>4 DEF Fail, Moved
  <2>3. n = MAX_FAILURES
    BY <1>1, <1>4
  <2> HIDE DEF f, e1, n
  <2> QED  BY <2>1, <2>2, <2>3, <1>1 DEF GoodEntry
<1>5. CASE ~(n >= MAX_FAILURES)
  <2> DEFINE f == Moved(e1, "Cooldown", now + cooldown)
  <2>1. f \in Entry /\ f.phase = "Cooldown" /\ f.failures = n /\ f.attempt = e.attempt
    <3>1. "Cooldown" \in Phases
      BY DEF Phases
    <3> HIDE DEF e1, n, cooldown
    <3> QED  BY <1>2, <1>3, <3>1, MovedFields
  <2>2. Fail(e) = f
    BY <1>5 DEF Fail, Moved
  <2>3. n # MAX_FAILURES
    BY <1>1, <1>5
  <2> HIDE DEF f, e1, n
  <2> QED  BY <2>1, <2>2, <2>3, <1>1 DEF GoodEntry
<1> QED  BY <1>4, <1>5

\* What a table of entries is made of.
LEMMA MapTypes ==
    ASSUME NEW m \in EntryMaps
    PROVE  /\ DOMAIN m \subseteq Keys
           /\ \A k \in DOMAIN m : m[k] \in Entry
           /\ m \in [DOMAIN m -> Entry]
  BY DEF EntryMaps

\* A function from some keys to entries is a table.
LEMMA MapMember ==
    ASSUME NEW D \in SUBSET Keys, NEW m \in [D -> Entry]
    PROVE  m \in EntryMaps
  BY DEF EntryMaps

\* A finite table has finitely many entries that are starting.
LEMMA StartingFinite ==
    ASSUME NEW m, IsFiniteSet(DOMAIN m)
    PROVE  IsFiniteSet(StartingIn(m)) /\ Cardinality(StartingIn(m)) \in Nat
<1>1. StartingIn(m) \in SUBSET DOMAIN m
  BY DEF StartingIn
<1> QED  BY <1>1, FS_Subset, FS_CardinalityType

\* The map m with entry e under key k.
Stored(m, k, e) == [x \in DOMAIN m \cup {k} |-> IF x = k THEN e ELSE m[x]]

\* Storing an entry keeps the table within its bounds, when there is room for a new
\* key and for one more attempt that starts.
LEMMA StoredGood ==
    ASSUME NEW m, NEW g, GoodEntries(m, g), NEW k \in Keys, k.desktop_generation = g,
           NEW e, GoodEntry(e),
           k \in DOMAIN m \/ Cardinality(DOMAIN m) < MAX_KEYS,
           e.phase = "Starting" => Cardinality(StartingIn(m)) < MAX_STARTING
    PROVE  GoodEntries(Stored(m, k, e), g)
<1> DEFINE s == Stored(m, k, e)
<1>1. /\ m \in EntryMaps /\ IsFiniteSet(DOMAIN m) /\ Cardinality(DOMAIN m) <= MAX_KEYS
      /\ Cardinality(StartingIn(m)) <= MAX_STARTING
      /\ \A x \in DOMAIN m : x.desktop_generation = g /\ GoodEntry(m[x])
  BY DEF GoodEntries
<1>2. DOMAIN s = DOMAIN m \cup {k} /\ \A x \in DOMAIN s : s[x] = IF x = k THEN e ELSE m[x]
  BY DEF Stored
<1>3. s \in EntryMaps
  <2>1. s \in [DOMAIN m \cup {k} -> Entry]
    BY <1>1, MapTypes DEF Stored, GoodEntry
  <2>2. DOMAIN m \cup {k} \in SUBSET Keys
    BY <1>1, MapTypes
  <2> QED  BY <2>1, <2>2, MapMember
<1> HIDE DEF s
<1>4. IsFiniteSet(DOMAIN s) /\ Cardinality(DOMAIN s) <= MAX_KEYS
  <2>1. /\ IsFiniteSet(DOMAIN m \cup {k})
        /\ Cardinality(DOMAIN m \cup {k}) =
              IF k \in DOMAIN m THEN Cardinality(DOMAIN m) ELSE Cardinality(DOMAIN m) + 1
    BY <1>1, FS_AddElement
  <2>2. Cardinality(DOMAIN m) \in Nat
    BY <1>1, FS_CardinalityType
  <2> QED  BY <1>1, <1>2, <2>1, <2>2, HelperConstants
<1>5. Cardinality(StartingIn(s)) <= MAX_STARTING
  <2> DEFINE T == StartingIn(m)
  <2>1. IsFiniteSet(T) /\ Cardinality(T) \in Nat /\ Cardinality(T) <= MAX_STARTING
    BY <1>1, StartingFinite
  <2>2. MAX_STARTING \in Nat
    BY HelperConstants
  <2>3. CASE e.phase = "Starting"
    <3>1. StartingIn(s) \in SUBSET (T \cup {k})
      BY <1>2 DEF StartingIn
    <3> HIDE DEF T
    <3>2. IsFiniteSet(T \cup {k}) /\ Cardinality(T \cup {k}) <= MAX_STARTING /\ Cardinality(T \cup {k}) \in Nat
      <4>1. Cardinality(T) < MAX_STARTING
        BY <2>3 DEF T
      <4>2. /\ IsFiniteSet(T \cup {k})
            /\ Cardinality(T \cup {k}) = IF k \in T THEN Cardinality(T) ELSE Cardinality(T) + 1
        BY <2>1, FS_AddElement
      <4> QED  BY <4>1, <4>2, <2>1, <2>2
    <3>3. IsFiniteSet(StartingIn(s)) /\ Cardinality(StartingIn(s)) <= Cardinality(T \cup {k})
      BY <3>1, <3>2, FS_Subset
    <3>4. Cardinality(StartingIn(s)) \in Nat
      BY <3>3, FS_CardinalityType
    <3> QED  BY <3>2, <3>3, <3>4, <2>2
  <2>4. CASE e.phase # "Starting"
    <3>1. StartingIn(s) \in SUBSET T
      BY <1>2, <2>4 DEF StartingIn
    <3>3. IsFiniteSet(StartingIn(s)) /\ Cardinality(StartingIn(s)) <= Cardinality(T)
      BY <3>1, <2>1, FS_Subset
    <3>4. Cardinality(StartingIn(s)) \in Nat
      BY <3>3, FS_CardinalityType
    <3> HIDE DEF T
    <3> QED  BY <2>1, <3>3, <3>4, <2>2
  <2> QED  BY <2>3, <2>4
<1>6. \A x \in DOMAIN s : x.desktop_generation = g /\ GoodEntry(s[x])
  BY <1>1, <1>2
<1> QED  BY <1>3, <1>4, <1>5, <1>6 DEF GoodEntries, s

-----------------------------------------------------------------------------
(* The coordinator's methods *)

\* o and p agree on everything but the entries.
SameRest(o, p) ==
    /\ p.desktop = o.desktop /\ p.desktop_generation = o.desktop_generation
    /\ p.next_attempt = o.next_attempt /\ p.enabled = o.enabled
    /\ p.process_retry_at = o.process_retry_at

\* The fields of a good coordinator.
LEMMA GoodFields ==
    ASSUME NEW o, Good(o)
    PROVE  /\ o \in Coordinator
           /\ o.desktop \in Contexts \cup {"none"}
           /\ o.desktop_generation \in 0 .. U64_MAX /\ o.next_attempt \in 0 .. U64_MAX
           /\ o.entries \in EntryMaps
           /\ o.enabled \in BOOLEAN /\ o.process_retry_at \in Nat
           /\ GoodEntries(o.entries, o.desktop_generation)
  BY DEF Good, Coordinator

WithEntries(o, m) == [o EXCEPT !.entries = m]

\* Replacing the table of a coordinator leaves its other fields.
LEMMA WithEntriesFields ==
    ASSUME NEW o \in Coordinator, NEW m \in EntryMaps
    PROVE  /\ WithEntries(o, m) \in Coordinator
           /\ WithEntries(o, m).entries = m
           /\ SameRest(o, WithEntries(o, m))
  BY DEF Coordinator, SameRest, WithEntries

\* A coordinator stays good with another table of the same generation.
LEMMA WithEntriesGood ==
    ASSUME NEW o, Good(o), NEW m, GoodEntries(m, o.desktop_generation)
    PROVE  /\ Good(WithEntries(o, m))
           /\ WithEntries(o, m).entries = m
           /\ SameRest(o, WithEntries(o, m))
<1>1. o \in Coordinator /\ m \in EntryMaps
  BY DEF Good, GoodEntries
<1> QED  BY <1>1, WithEntriesFields DEF Good, SameRest

\* Store keeps the policy's bounds when there is room for what it stores.
LEMMA StoreOutcome ==
    ASSUME NEW o, Good(o), NEW k \in Keys, k.desktop_generation = o.desktop_generation,
           NEW e, GoodEntry(e),
           k \in DOMAIN o.entries \/ Cardinality(DOMAIN o.entries) < MAX_KEYS,
           e.phase = "Starting" => Cardinality(StartingIn(o.entries)) < MAX_STARTING
    PROVE  /\ Good(Store(o, k, e))
           /\ Store(o, k, e).entries = Stored(o.entries, k, e)
           /\ SameRest(o, Store(o, k, e))
<1>1. GoodEntries(o.entries, o.desktop_generation)
  BY GoodFields
<1>2. GoodEntries(Stored(o.entries, k, e), o.desktop_generation)
  BY <1>1, StoredGood
<1>3. Store(o, k, e) = WithEntries(o, Stored(o.entries, k, e))
  BY DEF Store, WithEntries, Stored
<1> QED  BY <1>2, <1>3, WithEntriesGood

\* Expiring the abandoned attempts turns them into failures and nothing else.
Expired(m) == [k \in DOMAIN m |-> IF Abandoned(m[k]) THEN Fail(m[k]) ELSE m[k]]

\* Counting abandoned attempts as failures keeps the table good.
LEMMA ExpiredGood ==
    ASSUME now \in Nat, NEW m, NEW g, GoodEntries(m, g)
    PROVE  GoodEntries(Expired(m), g)
<1> DEFINE s == Expired(m)
<1>1. /\ m \in EntryMaps /\ IsFiniteSet(DOMAIN m) /\ Cardinality(DOMAIN m) <= MAX_KEYS
      /\ Cardinality(StartingIn(m)) <= MAX_STARTING
      /\ \A x \in DOMAIN m : x.desktop_generation = g /\ GoodEntry(m[x])
  BY DEF GoodEntries
<1>2. DOMAIN s = DOMAIN m /\ \A x \in DOMAIN m : s[x] = IF Abandoned(m[x]) THEN Fail(m[x]) ELSE m[x]
  BY DEF Expired
<1>3. \A x \in DOMAIN m : /\ GoodEntry(s[x])
                          /\ s[x].phase = "Starting" => m[x].phase = "Starting"
  <2> TAKE x \in DOMAIN m
  <2>1. CASE Abandoned(m[x])
    <3>1. m[x].phase # "Suppressed"
      BY <2>1 DEF Abandoned
    <3>2. GoodEntry(Fail(m[x])) /\ Fail(m[x]).phase \in {"Cooldown", "Suppressed"}
      BY <1>1, <3>1, FailOutcome
    <3> HIDE DEF s
    <3> QED  BY <1>2, <2>1, <3>2
  <2>2. CASE ~Abandoned(m[x])
    <3> HIDE DEF s
    <3> QED  BY <1>1, <1>2, <2>2
  <2> QED  BY <2>1, <2>2
<1>4. s = [x \in DOMAIN m |-> s[x]]
  BY DEF Expired
<1> HIDE DEF s
<1>5. s \in EntryMaps
  <2>1. \A x \in DOMAIN m : s[x] \in Entry
    BY <1>3 DEF GoodEntry
  <2>2. s \in [DOMAIN m -> Entry]
    BY <1>4, <2>1
  <2> QED  BY <1>1, <2>2, MapTypes, MapMember
<1>6. Cardinality(StartingIn(s)) <= MAX_STARTING
  <2>1. StartingIn(s) \in SUBSET StartingIn(m)
    BY <1>2, <1>3 DEF StartingIn
  <2>2. IsFiniteSet(StartingIn(m)) /\ Cardinality(StartingIn(m)) \in Nat
    BY <1>1, StartingFinite
  <2>3. IsFiniteSet(StartingIn(s)) /\ Cardinality(StartingIn(s)) <= Cardinality(StartingIn(m))
    BY <2>1, <2>2, FS_Subset
  <2>4. Cardinality(StartingIn(s)) \in Nat
    BY <2>3, FS_CardinalityType
  <2> QED  BY <1>1, <2>2, <2>3, <2>4, HelperConstants
<1> QED  BY <1>1, <1>2, <1>3, <1>5, <1>6 DEF GoodEntries, s

\* expire touches the entries only.
LEMMA ExpireOutcome ==
    ASSUME now \in Nat, NEW o, Good(o)
    PROVE  /\ Good(Expire(o)) /\ SameRest(o, Expire(o))
           /\ Expire(o).entries = Expired(o.entries)
<1>1. GoodEntries(Expired(o.entries), o.desktop_generation)
  BY GoodFields, ExpiredGood
<1>2. Expire(o) = WithEntries(o, Expired(o.entries))
  BY DEF Expire, WithEntries, Expired
<1> QED  BY <1>1, <1>2, WithEntriesGood

\* What expiring leaves of one entry.
LEMMA ExpiredFields ==
    ASSUME now \in Nat, NEW m, NEW g, GoodEntries(m, g)
    PROVE  /\ DOMAIN Expired(m) = DOMAIN m
           /\ \A k \in DOMAIN m :
                \/ ~Abandoned(m[k]) /\ Expired(m)[k] = m[k]
                \/ /\ m[k].phase = "Starting"
                   /\ Expired(m)[k].phase \in {"Cooldown", "Suppressed"}
<1>1. DOMAIN Expired(m) = DOMAIN m
  BY DEF Expired
<1>2. ASSUME NEW k \in DOMAIN m, Abandoned(m[k])
      PROVE  m[k].phase = "Starting" /\ Expired(m)[k].phase \in {"Cooldown", "Suppressed"}
  <2>1. m[k].phase = "Starting"
    BY <1>2 DEF Abandoned
  <2>2. GoodEntry(m[k])
    BY DEF GoodEntries
  <2>3. Fail(m[k]).phase \in {"Cooldown", "Suppressed"}
    BY <2>1, <2>2, FailOutcome
  <2> QED  BY <1>2, <2>1, <2>3 DEF Expired
<1>3. ASSUME NEW k \in DOMAIN m, ~Abandoned(m[k])
      PROVE  Expired(m)[k] = m[k]
  BY <1>3 DEF Expired
<1> QED  BY <1>1, <1>2, <1>3

\* The empty table is good.
LEMMA NoEntriesGood ==
    ASSUME NEW g
    PROVE  GoodEntries(NoEntries, g) /\ DOMAIN NoEntries = {}
<1>1. DOMAIN NoEntries = {} /\ NoEntries \in [{} -> Entry]
  BY DEF NoEntries
<1>2. NoEntries \in EntryMaps
  BY <1>1, MapMember
<1>3. StartingIn(NoEntries) = {}
  BY <1>1 DEF StartingIn
<1>4. Cardinality({}) = 0 /\ IsFiniteSet({})
  BY FS_EmptySet
<1> QED  BY <1>1, <1>2, <1>3, <1>4, HelperConstants DEF GoodEntries

\* The desktop generation of p comes after that of o, or generations are used up.
Advances(o, p) ==
    /\ p.desktop_generation >= o.desktop_generation
    /\ p.desktop_generation > o.desktop_generation \/ p.desktop_generation = U64_MAX

\* A reset empties the coordinator and moves to the next desktop generation.
LEMMA ResetOutcome ==
    ASSUME NEW o \in Coordinator, NEW on \in BOOLEAN
    PROVE  /\ Good(Reset(o, on)) /\ DOMAIN Reset(o, on).entries = {}
           /\ Reset(o, on).next_attempt = o.next_attempt
           /\ Reset(o, on).desktop = o.desktop
           /\ Advances(o, Reset(o, on))
<1> DEFINE g == IF o.desktop_generation < U64_MAX THEN o.desktop_generation + 1 ELSE o.desktop_generation
           a == [o EXCEPT !.desktop_generation = g]
           b == [a EXCEPT !.entries = NoEntries]
           c == [b EXCEPT !.process_retry_at = 0]
           d == [c EXCEPT !.enabled = on]
<1>1. g \in 0 .. U64_MAX
  BY HelperConstants DEF Coordinator
<1>2. Reset(o, on) = d
  BY DEF Reset
<1>0. g >= o.desktop_generation /\ (g > o.desktop_generation \/ g = U64_MAX)
  BY HelperConstants DEF Coordinator
<1> HIDE DEF g
<1>3. a \in Coordinator /\ a.desktop_generation = g /\ a.next_attempt = o.next_attempt /\ a.desktop = o.desktop
  BY <1>1 DEF Coordinator
<1> HIDE DEF a
<1>4. NoEntries \in EntryMaps /\ DOMAIN NoEntries = {}
  BY NoEntriesGood DEF GoodEntries
<1>5. /\ b \in Coordinator /\ b.desktop_generation = g /\ b.next_attempt = o.next_attempt /\ b.desktop = o.desktop
      /\ b.entries = NoEntries
  BY <1>3, <1>4 DEF Coordinator
<1> HIDE DEF b
<1>6. /\ c \in Coordinator /\ c.desktop_generation = g /\ c.next_attempt = o.next_attempt /\ c.desktop = o.desktop
      /\ c.entries = NoEntries
  BY <1>5 DEF Coordinator
<1> HIDE DEF c
<1>7. /\ d \in Coordinator /\ d.desktop_generation = g /\ d.next_attempt = o.next_attempt /\ d.desktop = o.desktop
      /\ d.entries = NoEntries
  BY <1>6 DEF Coordinator
<1> HIDE DEF d
<1>8. GoodEntries(NoEntries, d.desktop_generation)
  BY NoEntriesGood
<1> QED  BY <1>0, <1>2, <1>4, <1>7, <1>8 DEF Good, Advances

\* Observing the desktop does nothing, or starts afresh on another desktop.
LEMMA ObserveOutcome ==
    ASSUME NEW o, Good(o), context \in Contexts
    PROVE  /\ Good(Observe(o)) /\ Observe(o).next_attempt = o.next_attempt
           /\ \/ Observe(o) = o
              \/ /\ DOMAIN Observe(o).entries = {} /\ Observe(o).desktop # o.desktop
                 /\ Advances(o, Observe(o))
<1>1. CASE o.desktop = context
  BY <1>1 DEF Observe
<1>2. CASE o.desktop # context
  <2> DEFINE p == [o EXCEPT !.desktop = context]
  <2>1. /\ p \in Coordinator /\ p.desktop = context /\ p.next_attempt = o.next_attempt
        /\ p.desktop_generation = o.desktop_generation /\ o.enabled \in BOOLEAN
    BY GoodFields DEF Coordinator
  <2>2. Observe(o) = Reset(p, o.enabled)
    BY <1>2 DEF Observe
  <2> HIDE DEF p
  <2> QED  BY <1>2, <2>1, <2>2, ResetOutcome DEF Advances
<1> QED  BY <1>1, <1>2

\* A key the coordinator makes is of its desktop generation.
LEMMA KeyOf ==
    ASSUME NEW o, Good(o), NEW d \in Displays, NEW b \in Backends
    PROVE  Key(o, d, b) \in Keys /\ Key(o, d, b).desktop_generation = o.desktop_generation
<1>1. o.desktop_generation \in Nat
  BY GoodFields, HelperConstants
<1> QED  BY <1>1 DEF Key, Keys

\* An entry is good, the default one of an unknown key included.
LEMMA EntryOfGood ==
    ASSUME NEW o, Good(o), NEW k
    PROVE  GoodEntry(EntryOf(o, k))
<1>1. GoodEntry(NewEntry)
  BY HelperConstants DEF GoodEntry, NewEntry, Entry
<1>2. k \in DOMAIN o.entries => GoodEntry(o.entries[k])
  BY DEF Good, GoodEntries
<1> QED  BY <1>1, <1>2 DEF EntryOf

\* Moving an entry that is not suppressed keeps it good.
LEMMA MovedGood ==
    ASSUME NEW e, GoodEntry(e), e.phase # "Suppressed", NEW p \in Phases, p # "Suppressed", NEW t \in Nat
    PROVE  /\ GoodEntry(Moved(e, p, t)) /\ Moved(e, p, t).phase = p
           /\ Moved(e, p, t).attempt = e.attempt
<1>1. e \in Entry
  BY DEF GoodEntry
<1>2. /\ Moved(e, p, t) \in Entry /\ Moved(e, p, t).phase = p
      /\ Moved(e, p, t).failures = e.failures /\ Moved(e, p, t).attempt = e.attempt
  BY <1>1, MovedFields
<1> QED  BY <1>2 DEF GoodEntry

\* Entry e once attempt n of it has begun.
Begun(e, n) == [e EXCEPT !.phase = "Starting", !.at = now, !.attempt = n]

\* An entry whose new attempt begins is starting, with that attempt.
LEMMA BegunGood ==
    ASSUME now \in Nat, NEW e, GoodEntry(e), e.phase # "Suppressed", NEW n \in Nat
    PROVE  GoodEntry(Begun(e, n)) /\ Begun(e, n).phase = "Starting" /\ Begun(e, n).attempt = n
<1> DEFINE f == Moved(e, "Starting", now)
           h == [f EXCEPT !.attempt = n]
<1>1. GoodEntry(f) /\ f.phase = "Starting"
  BY MovedGood DEF Phases
<1>2. h = Begun(e, n)
  BY DEF Begun, Moved
<1> HIDE DEF f
<1>3. f \in Entry
  BY <1>1 DEF GoodEntry
<1>4. h \in Entry /\ h.phase = "Starting" /\ h.attempt = n /\ h.failures = f.failures
  BY <1>1, <1>3 DEF Entry
<1> HIDE DEF h
<1>5. GoodEntry(h)
  BY <1>1, <1>4 DEF GoodEntry
<1> QED  BY <1>2, <1>4, <1>5

\* What begin may leave in the coordinator, x being o with its abandoned attempts
\* expired: o, x, x with the entry queued, or x with the entry started.
Queues(o, x, k, p) ==
    /\ MayStart(EntryOf(x, k))
    /\ p.entries = Stored(x.entries, k, Moved(EntryOf(x, k), "Queued", 0))
    /\ SameRest(o, p)
Starts(o, x, k, p) ==
    /\ MayStart(EntryOf(x, k))
    /\ o.next_attempt # U64_MAX
    /\ p.entries = Stored(x.entries, k, Begun(EntryOf(x, k), o.next_attempt + 1))
    /\ p.next_attempt = o.next_attempt + 1 /\ p.desktop_generation = o.desktop_generation
    /\ p.desktop = o.desktop /\ p.enabled = o.enabled
BeginLeaves(o, k, p) ==
    LET x == Expire(o)
    IN  IF Grants(o, k) THEN Starts(o, x, k, p)
        ELSE p = o \/ p = x \/ Queues(o, x, k, p)

\* begin either changes nothing but expired entries, or starts the next attempt
\* under its key.
LEMMA BeginOutcome ==
    ASSUME now \in Nat, NEW o, Good(o), NEW k \in Keys
    PROVE  Good(AfterBegin(o, k)) /\ BeginLeaves(o, k, AfterBegin(o, k))
<1> DEFINE x == Expire(o)
           e == EntryOf(x, k)
           p == AfterBegin(o, k)
<1>1. Good(x) /\ SameRest(o, x)
  BY ExpireOutcome
<1>2. GoodEntry(e) /\ (MayStart(e) => e.phase # "Suppressed")
  BY <1>1, EntryOfGood DEF MayStart
<1>3. CASE Refuses(o, k)
  BY <1>3 DEF AfterBegin, BeginLeaves, Grants
<1>4. CASE ~Refuses(o, k) /\ (NoRoom(x, k) \/ ~MayStart(e))
  <2>1. p = x /\ ~Grants(o, k)
    BY <1>4 DEF AfterBegin, Grants
  <2> QED  BY <1>1, <2>1 DEF BeginLeaves
<1>5. CASE ~Refuses(o, k) /\ ~NoRoom(x, k) /\ MayStart(e)
  <2>1. /\ o.next_attempt # U64_MAX /\ k.desktop_generation = o.desktop_generation
        /\ k.desktop_generation = x.desktop_generation
    BY <1>1, <1>5 DEF Refuses, SameRest
  <2>2. /\ Cardinality(DOMAIN x.entries) \in Nat /\ IsFiniteSet(DOMAIN x.entries)
        /\ MAX_KEYS \in Nat /\ MAX_STARTING \in Nat
    BY <1>1, FS_CardinalityType, HelperConstants DEF Good, GoodEntries
  <2>3. k \in DOMAIN x.entries \/ Cardinality(DOMAIN x.entries) < MAX_KEYS
    BY <1>5, <2>2 DEF NoRoom
  <2>4. CASE ~Grants(o, k)
    <3> DEFINE f == Moved(e, "Queued", 0)
    <3>1. p = Store(x, k, f)
      BY <1>5, <2>4 DEF AfterBegin, Moved
    <3>2. GoodEntry(f) /\ f.phase = "Queued"
      BY <1>2, <1>5, MovedGood DEF Phases
    <3> HIDE DEF f, x, e, p
    <3>3. Good(p) /\ p.entries = Stored(x.entries, k, f) /\ SameRest(x, p)
      BY <1>1, <2>1, <2>3, <3>1, <3>2, StoreOutcome
    <3>4. SameRest(o, p)
      BY <1>1, <3>3 DEF SameRest
    <3> QED  BY <1>5, <2>4, <3>3, <3>4 DEF BeginLeaves, Queues, f, x, e, p
  <2>5. CASE Grants(o, k)
    <3> DEFINE y == [x EXCEPT !.next_attempt = @ + 1]
               f == Begun(e, o.next_attempt + 1)
    <3>1. p = Store(y, k, f)
      BY <1>5, <2>5 DEF AfterBegin, Begun
    <3>2. o.next_attempt + 1 \in 0 .. U64_MAX /\ o.next_attempt \in Nat /\ o.next_attempt + 1 \in Nat
      BY <2>1, GoodFields, HelperConstants
    <3>3. GoodEntry(f)
      BY <1>2, <1>5, <3>2, BegunGood
    <3>4. Cardinality(StartingIn(x.entries)) < MAX_STARTING
      <4>1. ~(Cardinality(InStartup(x)) >= MAX_STARTING)
        BY <2>5 DEF Grants, Busy
      <4>2. InStartup(x) = StartingIn(x.entries)
        BY DEF InStartup, StartingIn
      <4>3. Cardinality(StartingIn(x.entries)) \in Nat
        BY <2>2, StartingFinite
      <4> HIDE DEF x
      <4> QED  BY <4>1, <4>2, <4>3, <2>2
    <3>5. /\ Good(y) /\ y.entries = x.entries /\ y.next_attempt = o.next_attempt + 1
          /\ y.desktop_generation = o.desktop_generation /\ y.desktop = o.desktop
          /\ y.enabled = o.enabled
      <4>1. x \in Coordinator /\ x.next_attempt = o.next_attempt
        BY <1>1 DEF Good, SameRest
      <4> HIDE DEF x
      <4>2. /\ y \in Coordinator /\ y.entries = x.entries /\ y.next_attempt = o.next_attempt + 1
            /\ y.desktop_generation = x.desktop_generation /\ y.desktop = x.desktop
            /\ y.enabled = x.enabled
        BY <3>2, <4>1 DEF Coordinator
      <4> HIDE DEF y
      <4> QED  BY <1>1, <4>2 DEF Good, SameRest
    <3> HIDE DEF f, x, e, p, y
    <3>6. Good(p) /\ p.entries = Stored(x.entries, k, f) /\ SameRest(y, p)
      BY <2>1, <2>3, <3>1, <3>3, <3>4, <3>5, StoreOutcome
    <3> QED  BY <1>5, <2>1, <2>5, <3>5, <3>6 DEF BeginLeaves, Starts, SameRest, f, x, e, p
  <2> QED  BY <2>4, <2>5
<1> QED  BY <1>3, <1>4, <1>5

\* What the end of an attempt may leave: the lease's own active entry is no longer
\* active, and everything else is as it was.
Active(o, l) == Owns(o, l) /\ PhaseOf(o, l) \in {"Starting", "Running"}
Settles(o, l, p) ==
    /\ p.next_attempt = o.next_attempt /\ p.desktop = o.desktop
    /\ p.desktop_generation = o.desktop_generation /\ p.enabled = o.enabled
    /\ IF Active(o, l)
       THEN \E e : p.entries = Stored(o.entries, l.key, e) /\ e.phase \notin {"Starting", "Running"}
       ELSE p = o

\* An active lease names the entry its attempt belongs to.
LEMMA OwnedEntry ==
    ASSUME NEW o, Good(o), NEW l, Active(o, l)
    PROVE  /\ l.key \in DOMAIN o.entries /\ l.key \in Keys
           /\ l.key.desktop_generation = o.desktop_generation
           /\ GoodEntry(o.entries[l.key]) /\ o.entries[l.key].attempt = l.attempt
           /\ o.entries[l.key].phase \in {"Starting", "Running"}
<1>1. l.key \in DOMAIN o.entries /\ o.entries[l.key].attempt = l.attempt
  BY DEF Active, Owns
<1>2. l.key \in Keys
  BY <1>1, GoodFields, MapTypes
<1> QED  BY <1>1, <1>2 DEF Active, PhaseOf, Good, GoodEntries

\* A reported failure settles the lease's own attempt and no other.
LEMMA FailureOutcome ==
    ASSUME now \in Nat, NEW o, Good(o), NEW l, NEW launch \in BOOLEAN
    PROVE  Good(AfterFailure(o, l, launch)) /\ Settles(o, l, AfterFailure(o, l, launch))
<1>1. CASE ~Active(o, l)
  BY <1>1 DEF AfterFailure, Active, Settles
<1>2. CASE Active(o, l)
  <2> DEFINE e == Fail(o.entries[l.key])
             x == Store(o, l.key, e)
             p == AfterFailure(o, l, launch)
             y == [x EXCEPT !.process_retry_at = now + FIRST_COOLDOWN]
  <2>1. GoodEntry(e) /\ e.phase \in {"Cooldown", "Suppressed"}
    BY <1>2, OwnedEntry, FailOutcome
  <2>2. p = IF launch THEN y ELSE x
    BY <1>2 DEF AfterFailure, Active
  <2> HIDE DEF e
  <2>3. Good(x) /\ x.entries = Stored(o.entries, l.key, e) /\ SameRest(o, x)
    BY <1>2, <2>1, OwnedEntry, StoreOutcome
  <2> HIDE DEF x
  <2>4. Good(y) /\ y.entries = x.entries /\ y.next_attempt = x.next_attempt
                /\ y.desktop = x.desktop /\ y.desktop_generation = x.desktop_generation
                /\ y.enabled = x.enabled
    <3>1. now + FIRST_COOLDOWN \in Nat
      BY HelperConstants
    <3>2. x \in Coordinator
      BY <2>3 DEF Good
    <3>3. /\ y \in Coordinator /\ y.entries = x.entries /\ y.next_attempt = x.next_attempt
          /\ y.desktop = x.desktop /\ y.desktop_generation = x.desktop_generation
          /\ y.enabled = x.enabled
      BY <3>1, <3>2 DEF Coordinator
    <3> HIDE DEF y
    <3> QED  BY <2>3, <3>3 DEF Good
  <2> HIDE DEF y, p
  <2>5. /\ Good(p) /\ p.entries = Stored(o.entries, l.key, e) /\ p.next_attempt = o.next_attempt
        /\ p.desktop = o.desktop /\ p.desktop_generation = o.desktop_generation
        /\ p.enabled = o.enabled
    BY <2>2, <2>3, <2>4 DEF SameRest
  <2> QED  BY <1>2, <2>1, <2>5 DEF Settles, p
<1> QED  BY <1>1, <1>2

\* So does a cancelled one.
LEMMA CancelOutcome ==
    ASSUME NEW o, Good(o), NEW l
    PROVE  Good(AfterCancel(o, l)) /\ Settles(o, l, AfterCancel(o, l))
<1>1. CASE ~Active(o, l)
  BY <1>1 DEF AfterCancel, Active, Settles
<1>2. CASE Active(o, l)
  <2> DEFINE e == Moved(o.entries[l.key], "Ready", 0)
             p == AfterCancel(o, l)
  <2>1. GoodEntry(e) /\ e.phase = "Ready"
    BY <1>2, OwnedEntry, MovedGood DEF Phases
  <2>2. p = Store(o, l.key, e)
    BY <1>2 DEF AfterCancel, Active, Moved
  <2> HIDE DEF e, p
  <2>3. Good(p) /\ p.entries = Stored(o.entries, l.key, e) /\ SameRest(o, p)
    BY <1>2, <2>1, <2>2, OwnedEntry, StoreOutcome
  <2> QED  BY <1>2, <2>1, <2>3 DEF Settles, SameRest, p
<1> QED  BY <1>1, <1>2

\* The first valid frame of an attempt: its entry runs, with no failures.
Ran(e) == [e EXCEPT !.phase = "Running", !.at = 0, !.failures = 0]

\* An entry whose helper delivered runs, with the same attempt.
LEMMA RanGood ==
    ASSUME NEW e \in Entry
    PROVE  GoodEntry(Ran(e)) /\ Ran(e).phase = "Running" /\ Ran(e).attempt = e.attempt
<1> DEFINE f == Moved(e, "Running", 0)
           h == [f EXCEPT !.failures = 0]
<1>1. f \in Entry /\ f.phase = "Running" /\ f.attempt = e.attempt
  BY MovedFields DEF Phases
<1>2. h = Ran(e)
  BY DEF Ran, Moved
<1> HIDE DEF f
<1>3. h \in Entry /\ h.phase = "Running" /\ h.attempt = e.attempt /\ h.failures = 0
  BY <1>1 DEF Entry
<1> HIDE DEF h
<1>4. GoodEntry(h)
  BY <1>3, HelperConstants DEF GoodEntry
<1> QED  BY <1>2, <1>3, <1>4

\* The first frame changes the lease's own entry only.
LEMMA FirstFrameOutcome ==
    ASSUME NEW o, Good(o), NEW l, Active(o, l)
    PROVE  LET p == Store(o, l.key, Ran(o.entries[l.key]))
           IN  /\ Good(p) /\ SameRest(o, p)
               /\ p.entries = Stored(o.entries, l.key, Ran(o.entries[l.key]))
<1> DEFINE e == Ran(o.entries[l.key])
<1>1. GoodEntry(e) /\ e.phase = "Running"
  BY OwnedEntry, RanGood DEF GoodEntry
<1> HIDE DEF e
<1>2. /\ Good(Store(o, l.key, e)) /\ SameRest(o, Store(o, l.key, e))
      /\ Store(o, l.key, e).entries = Stored(o.entries, l.key, e)
  BY <1>1, OwnedEntry, StoreOutcome
<1> QED  BY <1>2 DEF e

-----------------------------------------------------------------------------
(* The inductive invariant is kept by every step *)

\* Lease w is the one alive for entry k of coordinator o.
Holds(w, o, k) ==
    /\ w.key = k /\ w.attempt = o.entries[k].attempt
    /\ w.stage # "failed"
    /\ w.first_frame <=> o.entries[k].phase = "Running"

\* AttemptsOwned, read as: every slot has a holder, attempts identify leases, and
\* none is newer than the last one handed out.
LEMMA OwnedParts ==
    ASSUME AttemptsOwned
    PROVE  /\ \A k \in DOMAIN owner.entries :
                owner.entries[k].phase \in {"Starting", "Running"} => \E l \in leases : Holds(l, owner, k)
           /\ \A l, m \in leases : l.attempt = m.attempt => l = m
           /\ \A l \in leases : l.attempt <= owner.next_attempt
  BY DEF AttemptsOwned, Holds

\* The same three facts of the next state give AttemptsOwned there.
LEMMA OwnedFrom ==
    ASSUME Good(owner)',
           (\A k \in DOMAIN owner.entries :
                owner.entries[k].phase \in {"Starting", "Running"} => \E l \in leases : Holds(l, owner, k))',
           (\A l, m \in leases : l.attempt = m.attempt => l = m)',
           (\A l \in leases : l.attempt <= owner.next_attempt)'
    PROVE  AttemptsOwned'
  BY DEF AttemptsOwned, Holds, Good, GoodEntries

\* A lease that changes its stage, or sees its first frame, keeps the rest.
LEMMA LeaseFields ==
    ASSUME NEW l \in Lease, NEW s \in {"launching", "capturing", "failed"}
    PROVE  /\ [l EXCEPT !.stage = s] \in Lease
           /\ [l EXCEPT !.stage = s].stage = s
           /\ [l EXCEPT !.stage = s].key = l.key
           /\ [l EXCEPT !.stage = s].attempt = l.attempt
           /\ [l EXCEPT !.stage = s].first_frame = l.first_frame
           /\ [l EXCEPT !.first_frame = TRUE] \in Lease
           /\ [l EXCEPT !.first_frame = TRUE].stage = l.stage
           /\ [l EXCEPT !.first_frame = TRUE].key = l.key
           /\ [l EXCEPT !.first_frame = TRUE].attempt = l.attempt
           /\ [l EXCEPT !.first_frame = TRUE].first_frame = TRUE
  BY DEF Lease

\* The leases after one of them is dropped or changes without changing its attempt.
LEMMA LeaseReplaced ==
    ASSUME Inv, NEW l \in leases, NEW ms, \A m \in ms : m \in Lease /\ m.attempt = l.attempt,
           \A m, n \in ms : m = n,
           leases' = (leases \ {l}) \cup ms, owner'.next_attempt = owner.next_attempt
    PROVE  /\ leases' \in SUBSET Lease
           /\ (\A x, y \in leases : x.attempt = y.attempt => x = y)'
           /\ (\A x \in leases : x.attempt <= owner.next_attempt)'
<1>1. /\ leases \in SUBSET Lease
      /\ \A x, y \in leases : x.attempt = y.attempt => x = y
      /\ \A x \in leases : x.attempt <= owner.next_attempt
  BY OwnedParts DEF Inv, Environment
<1> QED  BY <1>1

\* The end of an attempt, with the lease kept as failed or dropped.
LEMMA EndStep ==
    ASSUME Inv, NEW l \in leases, Good(owner'), Settles(owner, l, owner'),
           NEW ms, \A m \in ms : m \in Lease /\ m.attempt = l.attempt, \A m, n \in ms : m = n,
           leases' = (leases \ {l}) \cup ms
    PROVE  leases' \in SUBSET Lease /\ AttemptsOwned'
<1>1. /\ leases' \in SUBSET Lease
      /\ (\A x, y \in leases : x.attempt = y.attempt => x = y)'
      /\ (\A x \in leases : x.attempt <= owner.next_attempt)'
  BY LeaseReplaced DEF Settles
<1>2. ASSUME NEW k \in DOMAIN owner'.entries, owner'.entries[k].phase \in {"Starting", "Running"}
      PROVE  \E w \in leases' : Holds(w, owner', k)
  <2>1. /\ k \in DOMAIN owner.entries /\ owner'.entries[k] = owner.entries[k]
        /\ Active(owner, l) => k # l.key
    <3>1. CASE Active(owner, l)
      <4>1. PICK e : owner'.entries = Stored(owner.entries, l.key, e) /\ e.phase \notin {"Starting", "Running"}
        BY <3>1 DEF Settles
      <4>2. l.key \in DOMAIN owner.entries
        BY <3>1, OwnedEntry DEF Inv
      <4>3. /\ DOMAIN owner'.entries = DOMAIN owner.entries \cup {l.key}
            /\ owner'.entries[l.key] = e
            /\ \A x \in DOMAIN owner.entries : x # l.key => owner'.entries[x] = owner.entries[x]
        BY <4>1 DEF Stored
      <4>4. k # l.key
        BY <1>2, <4>1, <4>3
      <4> QED  BY <1>2, <4>2, <4>3, <4>4
    <3>2. CASE ~Active(owner, l)
      BY <1>2, <3>2 DEF Settles
    <3> QED  BY <3>1, <3>2
  <2>2. PICK w \in leases : Holds(w, owner, k)
    BY <1>2, <2>1, OwnedParts DEF Inv
  <2>3. w # l
    BY <1>2, <2>1, <2>2 DEF Holds, Active, Owns, PhaseOf
  <2> QED  BY <2>1, <2>2, <2>3 DEF Holds
<1> QED  BY <1>1, <1>2, OwnedFrom

\* A helper that was launched keeps the invariant.
LEMMA LaunchOkStep ==
    ASSUME Inv, NEW l \in leases, LaunchOk(l)
    PROVE  Inv'
<1> DEFINE m == [l EXCEPT !.stage = "capturing"]
<1>1. l \in Lease /\ l.stage = "launching"
  BY DEF Inv, Environment, LaunchOk
<1>2. m \in Lease /\ m.key = l.key /\ m.attempt = l.attempt /\ m.first_frame = l.first_frame /\ m.stage = "capturing"
  BY <1>1, LeaseFields
<1>3. leases' = (leases \ {l}) \cup {m} /\ owner' = owner
  BY DEF LaunchOk, Becomes
<1> HIDE DEF m
<1>4. /\ leases' \in SUBSET Lease
      /\ (\A x, y \in leases : x.attempt = y.attempt => x = y)'
      /\ (\A x \in leases : x.attempt <= owner.next_attempt)'
  <2>1. /\ \A x \in {m} : x \in Lease /\ x.attempt = l.attempt
        /\ \A x, y \in {m} : x = y
    BY <1>2
  <2>2. owner'.next_attempt = owner.next_attempt
    BY <1>3
  <2> QED  BY <1>3, <2>1, <2>2, LeaseReplaced
<1>5. ASSUME NEW k \in DOMAIN owner'.entries, owner'.entries[k].phase \in {"Starting", "Running"}
      PROVE  \E w \in leases' : Holds(w, owner', k)
  <2>1. PICK w \in leases : Holds(w, owner, k)
    BY <1>3, <1>5, OwnedParts DEF Inv
  <2>2. CASE w = l
    <3>1. Holds(m, owner', k)
      BY <1>2, <1>3, <2>1, <2>2 DEF Holds
    <3> QED  BY <1>3, <3>1
  <2>3. CASE w # l
    BY <1>3, <2>1, <2>3
  <2> QED  BY <2>2, <2>3
<1>6. Good(owner)' /\ Environment'
  BY <1>3, <1>4 DEF Inv, Environment, LaunchOk
<1> QED  BY <1>4, <1>5, <1>6, OwnedFrom DEF Inv

\* So does every way in which a capturer ends.
LEMMA EndSteps ==
    ASSUME Inv, NEW l \in leases, NEW launch \in BOOLEAN,
           LaunchFails(l, launch) \/ FrameFails(l) \/ DropCapturer(l)
    PROVE  Inv'
<1>1. now \in Nat /\ Good(owner) /\ l \in Lease
  BY DEF Inv, Environment
<1>2. PICK ms : /\ \A m \in ms : m \in Lease /\ m.attempt = l.attempt
                /\ \A m, n \in ms : m = n
                /\ leases' = (leases \ {l}) \cup ms
  <2>1. CASE DropCapturer(l)
    <3>1. leases' = (leases \ {l}) \cup {}
      BY <2>1 DEF DropCapturer
    <3>2. /\ \A m \in {} : m \in Lease /\ m.attempt = l.attempt
          /\ \A m, n \in {} : m = n
      OBVIOUS
    <3> QED  BY <3>1, <3>2
  <2>2. CASE LaunchFails(l, launch) \/ FrameFails(l)
    <3> DEFINE m == [l EXCEPT !.stage = "failed"]
    <3>1. m \in Lease /\ m.attempt = l.attempt
      BY <1>1, LeaseFields
    <3>2. leases' = (leases \ {l}) \cup {m}
      BY <2>2 DEF LaunchFails, FrameFails, Becomes
    <3> HIDE DEF m
    <3>3. /\ \A x \in {m} : x \in Lease /\ x.attempt = l.attempt
          /\ \A x, y \in {m} : x = y
      BY <3>1
    <3> QED  BY <3>2, <3>3
  <2> QED  BY <2>1, <2>2
<1>3. Good(owner') /\ Settles(owner, l, owner')
  BY <1>1, FailureOutcome, CancelOutcome DEF LaunchFails, FrameFails, DropCapturer
<1>4. leases' \in SUBSET Lease /\ AttemptsOwned'
  BY <1>2, <1>3, EndStep
<1>5. UNCHANGED <<now, context, resetting>>
  BY DEF LaunchFails, FrameFails, DropCapturer
<1> QED  BY <1>3, <1>4, <1>5 DEF Inv, Environment

\* So does a frame that arrives, late or not.
LEMMA FrameStep ==
    ASSUME Inv, NEW l \in leases, FrameArrives(l)
    PROVE  Inv'
<1>1. Good(owner) /\ l \in Lease /\ l.stage = "capturing" /\ UNCHANGED <<now, context, resetting>>
  BY DEF Inv, Environment, FrameArrives
<1>2. CASE FirstFrame(l)
  <2> DEFINE m == [l EXCEPT !.first_frame = TRUE]
             e == Ran(owner.entries[l.key])
  <2>1. Active(owner, l) /\ ~l.first_frame
    BY <1>2 DEF FirstFrame, Active
  <2>2. owner' = Store(owner, l.key, e) /\ leases' = (leases \ {l}) \cup {m}
    BY <1>2 DEF FrameArrives, Becomes, Ran
  <2>3. m \in Lease /\ m.key = l.key /\ m.attempt = l.attempt /\ m.first_frame = TRUE /\ m.stage = "capturing"
    BY <1>1, LeaseFields
  <2>4. Good(owner') /\ SameRest(owner, owner') /\ owner'.entries = Stored(owner.entries, l.key, e)
    BY <1>1, <2>1, <2>2, FirstFrameOutcome
  <2>5. /\ l.key \in DOMAIN owner.entries /\ owner.entries[l.key] \in Entry
        /\ owner.entries[l.key].attempt = l.attempt
    BY <1>1, <2>1, OwnedEntry DEF GoodEntry
  <2>6. e.phase = "Running" /\ e.attempt = l.attempt
    BY <2>5, RanGood
  <2> HIDE DEF m, e
  <2>7. /\ leases' \in SUBSET Lease
        /\ (\A x, y \in leases : x.attempt = y.attempt => x = y)'
        /\ (\A x \in leases : x.attempt <= owner.next_attempt)'
    <3>1. /\ \A x \in {m} : x \in Lease /\ x.attempt = l.attempt
          /\ \A x, y \in {m} : x = y
      BY <2>3
    <3>2. owner'.next_attempt = owner.next_attempt
      BY <2>4 DEF SameRest
    <3> QED  BY <2>2, <3>1, <3>2, LeaseReplaced
  <2>8. ASSUME NEW k \in DOMAIN owner'.entries, owner'.entries[k].phase \in {"Starting", "Running"}
        PROVE  \E w \in leases' : Holds(w, owner', k)
    <3>1. /\ DOMAIN owner'.entries = DOMAIN owner.entries \cup {l.key}
          /\ owner'.entries[l.key] = e
          /\ \A x \in DOMAIN owner.entries : x # l.key => owner'.entries[x] = owner.entries[x]
      BY <2>4 DEF Stored
    <3>2. CASE k = l.key
      <4>1. Holds(m, owner', k)
        BY <2>3, <2>6, <3>1, <3>2 DEF Holds
      <4> QED  BY <2>2, <4>1
    <3>3. CASE k # l.key
      <4>1. k \in DOMAIN owner.entries /\ owner'.entries[k] = owner.entries[k]
        BY <2>8, <3>1, <3>3
      <4>2. PICK w \in leases : Holds(w, owner, k)
        BY <2>8, <4>1, OwnedParts DEF Inv
      <4>3. w # l
        BY <3>3, <4>2 DEF Holds
      <4> QED  BY <2>2, <4>1, <4>2, <4>3 DEF Holds
    <3> QED  BY <3>2, <3>3
  <2>9. Environment'
    BY <1>1, <2>7 DEF Inv, Environment
  <2> QED  BY <2>4, <2>7, <2>8, <2>9, OwnedFrom DEF Inv
<1>3. CASE ~FirstFrame(l)
  <2> DEFINE m == [l EXCEPT !.stage = "failed"]
  <2>1. ~StillRunning(l) /\ owner' = owner /\ leases' = (leases \ {l}) \cup {m}
    BY <1>3 DEF FrameArrives, Becomes
  <2>2. m \in Lease /\ m.attempt = l.attempt
    BY <1>1, LeaseFields
  <2>3. l.first_frame \in BOOLEAN
    BY <1>1 DEF Lease
  <2> HIDE DEF m
  <2>4. /\ leases' \in SUBSET Lease
        /\ (\A x, y \in leases : x.attempt = y.attempt => x = y)'
        /\ (\A x \in leases : x.attempt <= owner.next_attempt)'
    <3>1. /\ \A x \in {m} : x \in Lease /\ x.attempt = l.attempt
          /\ \A x, y \in {m} : x = y
      BY <2>2
    <3>2. owner'.next_attempt = owner.next_attempt
      BY <2>1
    <3> QED  BY <2>1, <3>1, <3>2, LeaseReplaced
  <2>5. ASSUME NEW k \in DOMAIN owner'.entries, owner'.entries[k].phase \in {"Starting", "Running"}
        PROVE  \E w \in leases' : Holds(w, owner', k)
    <3>1. PICK w \in leases : Holds(w, owner, k)
      BY <2>1, <2>5, OwnedParts DEF Inv
    <3>2. w # l
      BY <1>3, <2>1, <2>5, <3>1 DEF Holds, FirstFrame, StillRunning, Owns, PhaseOf
    <3> QED  BY <2>1, <3>1, <3>2
  <2>6. Good(owner') /\ Environment'
    BY <1>1, <2>1, <2>4 DEF Inv, Environment
  <2> QED  BY <2>4, <2>5, <2>6, OwnedFrom DEF Inv
<1> QED  BY <1>2, <1>3

\* Whatever is active in p is the same in o.
Calmer(o, p) ==
    \A k \in DOMAIN p.entries :
        p.entries[k].phase \in {"Starting", "Running"} =>
            k \in DOMAIN o.entries /\ p.entries[k] = o.entries[k]

\* A step that only settles attempts leaves nobody's slot without a holder.
LEMMA CalmStep ==
    ASSUME Inv, Good(owner'), Calmer(owner, owner'),
           owner'.next_attempt = owner.next_attempt, leases' = leases
    PROVE  AttemptsOwned'
<1>1. ASSUME NEW k \in DOMAIN owner'.entries, owner'.entries[k].phase \in {"Starting", "Running"}
      PROVE  \E w \in leases' : Holds(w, owner', k)
  <2>1. k \in DOMAIN owner.entries /\ owner'.entries[k] = owner.entries[k]
    BY <1>1 DEF Calmer
  <2>2. PICK w \in leases : Holds(w, owner, k)
    BY <1>1, <2>1, OwnedParts DEF Inv
  <2> QED  BY <2>1, <2>2 DEF Holds
<1>2. /\ (\A x, y \in leases : x.attempt = y.attempt => x = y)'
      /\ (\A x \in leases : x.attempt <= owner.next_attempt)'
  BY OwnedParts DEF Inv
<1> QED  BY <1>1, <1>2, OwnedFrom

\* Observing the desktop starts nothing.
LEMMA ObserveCalms ==
    ASSUME Inv
    PROVE  /\ Good(Observe(owner)) /\ Calmer(owner, Observe(owner))
           /\ Observe(owner).next_attempt = owner.next_attempt
<1>1. Good(owner) /\ context \in Contexts
  BY DEF Inv, Environment
<1> QED  BY <1>1, ObserveOutcome DEF Calmer

\* Neither does expiry.
LEMMA ExpireCalms ==
    ASSUME now \in Nat, NEW o, Good(o)
    PROVE  /\ Good(Expire(o)) /\ Calmer(o, Expire(o))
           /\ Expire(o).next_attempt = o.next_attempt
<1>1. /\ Good(Expire(o)) /\ SameRest(o, Expire(o)) /\ Expire(o).entries = Expired(o.entries)
  BY ExpireOutcome
<1>2. GoodEntries(o.entries, o.desktop_generation)
  BY GoodFields
<1>3. Calmer(o, Expire(o))
  BY <1>1, <1>2, ExpiredFields DEF Calmer
<1> QED  BY <1>1, <1>3 DEF SameRest

\* Two calming steps make one.
LEMMA CalmerTransitive ==
    ASSUME NEW o, NEW p, NEW q, Calmer(o, p), Calmer(p, q)
    PROVE  Calmer(o, q)
  BY DEF Calmer

\* A request for a helper keeps the invariant: a slot it takes is held by its lease.
LEMMA ShouldUseStep ==
    ASSUME Inv, NEW d \in Displays, NEW b \in Backends, NEW met \in BOOLEAN, ShouldUse(d, b, met)
    PROVE  Inv'
<1> DEFINE o == Observe(owner)
           k == Key(o, d, b)
           x == Expire(o)
           e == EntryOf(x, k)
           n == o.next_attempt + 1
           l == [key |-> k, attempt |-> n, first_frame |-> FALSE, stage |-> "launching"]
<1>1. now \in Nat /\ Good(owner) /\ leases \in SUBSET Lease /\ UNCHANGED <<now, context, resetting>>
  BY DEF Inv, Environment, ShouldUse
<1>2. Good(o) /\ Calmer(owner, o) /\ o.next_attempt = owner.next_attempt
  BY ObserveCalms
<1>3. k \in Keys /\ k.desktop_generation = o.desktop_generation
  BY <1>2, KeyOf
<1>4. /\ owner' = IF met THEN AfterBegin(o, k) ELSE o
      /\ leases' = IF met /\ Grants(o, k) THEN leases \cup {l} ELSE leases
  BY DEF ShouldUse
<1>5. Good(x) /\ Calmer(o, x) /\ x.next_attempt = o.next_attempt
  BY <1>1, <1>2, ExpireCalms
<1>6. Good(AfterBegin(o, k)) /\ BeginLeaves(o, k, AfterBegin(o, k))
  BY <1>1, <1>2, <1>3, BeginOutcome
<1>7. GoodEntry(e) /\ e.phase \in Phases
  BY <1>5, EntryOfGood DEF GoodEntry, Entry, Phases
<1>8. CASE ~met \/ ~Grants(o, k)
  <2>1. leases' = leases
    BY <1>4, <1>8
  <2>2. owner' \in {o, x} \/ Queues(o, x, k, owner')
    BY <1>4, <1>6, <1>8 DEF BeginLeaves
  <2>3. Good(owner')
    BY <1>2, <1>4, <1>6
  <2> HIDE DEF o, k, x, e, n, l
  <2>4. Calmer(o, owner') /\ owner'.next_attempt = o.next_attempt
    <3>1. CASE owner' \in {o, x}
      BY <1>5, <3>1 DEF Calmer
    <3>2. CASE Queues(o, x, k, owner')
      <4> DEFINE f == Moved(EntryOf(x, k), "Queued", 0)
      <4>1. owner'.entries = Stored(x.entries, k, f) /\ owner'.next_attempt = o.next_attempt
        BY <3>2 DEF Queues, SameRest
      <4>2. f.phase = "Queued"
        BY <1>7, MovedFields DEF Phases, GoodEntry, e
      <4> HIDE DEF f
      <4>3. Calmer(x, owner')
        BY <4>1, <4>2 DEF Calmer, Stored
      <4> QED  BY <1>5, <4>1, <4>3, CalmerTransitive
    <3> QED  BY <2>2, <3>1, <3>2
  <2>5. AttemptsOwned'
    BY <1>2, <2>1, <2>3, <2>4, CalmerTransitive, CalmStep
  <2> QED  BY <1>1, <2>1, <2>3, <2>5 DEF Inv, Environment
<1>9. CASE met /\ Grants(o, k)
  <2> DEFINE f == Begun(e, n)
  <2>1. /\ leases' = leases \cup {l} /\ Good(owner') /\ Starts(o, x, k, owner')
    BY <1>4, <1>6, <1>9 DEF BeginLeaves
  <2>2. n \in Nat \ {0} /\ o.next_attempt \in Nat
    BY <1>2, GoodFields, HelperConstants
  <2>3. l \in Lease /\ l.key = k /\ l.attempt = n /\ l.first_frame = FALSE /\ l.stage = "launching"
    BY <1>3, <2>2 DEF Lease
  <2>4. f.phase = "Starting" /\ f.attempt = n
    <3>1. e.phase # "Suppressed"
      BY <2>1 DEF Starts, MayStart
    <3> HIDE DEF e
    <3> QED  BY <1>1, <1>7, <2>2, <3>1, BegunGood
  <2>5. owner'.entries = Stored(x.entries, k, f) /\ owner'.next_attempt = n
    BY <2>1 DEF Starts
  <2> HIDE DEF o, k, x, e, l, f
  <2>6. /\ leases' \in SUBSET Lease
        /\ (\A y, z \in leases : y.attempt = z.attempt => y = z)'
        /\ (\A y \in leases : y.attempt <= owner.next_attempt)'
    <3>1. /\ \A y, z \in leases : y.attempt = z.attempt => y = z
          /\ \A y \in leases : y.attempt \in Nat /\ y.attempt <= o.next_attempt
      BY <1>1, <1>2, OwnedParts DEF Inv, Lease
    <3>2. \A y \in leases : y.attempt # n /\ y.attempt <= n
      BY <2>2, <3>1
    <3>3. n <= n
      BY <2>2
    <3> HIDE DEF n
    <3> QED  BY <1>1, <2>1, <2>3, <2>5, <3>1, <3>2, <3>3
  <2>7. ASSUME NEW j \in DOMAIN owner'.entries, owner'.entries[j].phase \in {"Starting", "Running"}
        PROVE  \E w \in leases' : Holds(w, owner', j)
    <3>1. /\ DOMAIN owner'.entries = DOMAIN x.entries \cup {k}
          /\ owner'.entries[k] = f
          /\ \A y \in DOMAIN x.entries : y # k => owner'.entries[y] = x.entries[y]
      BY <2>5 DEF Stored
    <3> HIDE DEF n
    <3>2. CASE j = k
      <4>1. Holds(l, owner', j)
        BY <2>3, <2>4, <3>1, <3>2 DEF Holds
      <4> QED  BY <2>1, <4>1
    <3>3. CASE j # k
      <4>1. j \in DOMAIN x.entries /\ owner'.entries[j] = x.entries[j]
        BY <2>7, <3>1, <3>3
      <4>2. j \in DOMAIN owner.entries /\ x.entries[j] = owner.entries[j]
        BY <1>2, <1>5, <2>7, <4>1 DEF Calmer
      <4>3. PICK w \in leases : Holds(w, owner, j)
        BY <2>7, <4>1, <4>2, OwnedParts DEF Inv
      <4> QED  BY <2>1, <4>1, <4>2, <4>3 DEF Holds
    <3> QED  BY <3>2, <3>3
  <2>8. Environment'
    BY <1>1, <2>6 DEF Inv, Environment
  <2> QED  BY <2>1, <2>6, <2>7, <2>8, OwnedFrom DEF Inv
<1> QED  BY <1>8, <1>9

\* The polls of the service loop.
Polls == ProtectsRefresh \/ \E d \in Displays, b \in Backends : PollRetry(d, b)

\* Samples of the desktop, polls and resets.
LEMMA CoordinatorSteps ==
    ASSUME Inv, \/ SampleDesktop \/ Polls
                \/ \E r \in resetting : ApplyReset(r)
    PROVE  Inv'
<1>1. now \in Nat /\ Good(owner) /\ owner \in Coordinator
  BY DEF Inv, Environment, Good
<1>2. Good(Observe(owner)) /\ Calmer(owner, Observe(owner)) /\ Observe(owner).next_attempt = owner.next_attempt
  BY ObserveCalms
<1>3. /\ leases' = leases /\ now' = now /\ context' = context /\ resetting' \subseteq resetting
  BY DEF SampleDesktop, Polls, ProtectsRefresh, PollRetry, ApplyReset
<1>4. Good(owner') /\ Calmer(owner, owner') /\ owner'.next_attempt = owner.next_attempt
  <2>1. CASE SampleDesktop
    BY <1>2, <2>1 DEF SampleDesktop
  <2>2. CASE Polls
    <3>1. owner' = Expire(Observe(owner))
      BY <2>2 DEF Polls, ProtectsRefresh, PollRetry
    <3>2. Good(owner') /\ Calmer(Observe(owner), owner') /\ owner'.next_attempt = owner.next_attempt
      BY <1>1, <1>2, <3>1, ExpireCalms
    <3> QED  BY <1>2, <3>2, CalmerTransitive
  <2>3. CASE \E r \in resetting : ApplyReset(r)
    <3>1. PICK r \in resetting : ApplyReset(r)
      BY <2>3
    <3>2. r.on \in BOOLEAN /\ owner' = Reset(owner, r.on)
      BY <3>1 DEF ApplyReset, Inv, Environment
    <3> QED  BY <1>1, <3>2, ResetOutcome DEF Calmer
  <2> QED  BY <2>1, <2>2, <2>3
<1>5. AttemptsOwned'
  BY <1>3, <1>4, CalmStep
<1> QED  BY <1>3, <1>4, <1>5 DEF Inv, Environment

\* The steps of the viewers, the desktop and time.
LEMMA EnvironmentSteps ==
    ASSUME Inv,
           \/ \E c \in Connections, p \in Preferences : SetPreference(c, p)
           \/ \E c \in Contexts : ChangeDesktop(c)
           \/ Tick \/ UNCHANGED vars
    PROVE  Inv'
<1>1. owner' = owner /\ leases' = leases
  BY DEF SetPreference, ChangeDesktop, Tick, vars
<1>2. Good(owner') /\ AttemptsOwned'
  BY <1>1 DEF Inv, AttemptsOwned
<1>3. now' \in Nat /\ context' \in Contexts
  BY DEF SetPreference, ChangeDesktop, Tick, vars, Inv, Environment
<1>4. resetting' \in SUBSET [conn : Connections, on : BOOLEAN]
  <2>1. ASSUME NEW c \in Connections, NEW p \in Preferences, SetPreference(c, p)
        PROVE  resetting' \in SUBSET [conn : Connections, on : BOOLEAN]
    <3>1. resetting' = resetting \cup {[conn |-> c, on |-> Allows(p)]}
      BY <2>1 DEF SetPreference
    <3>2. Allows(p) \in BOOLEAN
      BY DEF Allows
    <3> QED  BY <3>1, <3>2 DEF Inv, Environment
  <2>2. CASE ~\E c \in Connections, p \in Preferences : SetPreference(c, p)
    BY <2>2 DEF ChangeDesktop, Tick, vars, Inv, Environment
  <2> QED  BY <2>1, <2>2
<1> QED  BY <1>1, <1>2, <1>3, <1>4 DEF Inv, Environment

\* The invariant holds at the start.
LEMMA InitInv == Init => Inv
<1> SUFFICES ASSUME Init PROVE Inv
  OBVIOUS
<1>1. NoEntries \in EntryMaps /\ DOMAIN NoEntries = {} /\ GoodEntries(NoEntries, 0)
  BY NoEntriesGood DEF GoodEntries
<1>2. owner \in Coordinator /\ owner.entries = NoEntries /\ owner.desktop_generation = 0
  BY <1>1, HelperConstants DEF Init, Coordinator
<1>3. Good(owner)
  BY <1>1, <1>2 DEF Good
<1>4. Environment
  BY DEF Init, Environment
<1>5. AttemptsOwned
  BY <1>1, <1>2 DEF Init, AttemptsOwned
<1> QED  BY <1>3, <1>4, <1>5 DEF Inv

\* Every step keeps the invariant.
LEMMA StepInv == Inv /\ [Next]_vars => Inv'
<1> SUFFICES ASSUME Inv, [Next]_vars PROVE Inv'
  OBVIOUS
<1>1. ASSUME NEW l \in leases,
             \/ LaunchOk(l) \/ \E launch \in BOOLEAN : LaunchFails(l, launch)
             \/ FrameArrives(l) \/ FrameFails(l) \/ DropCapturer(l)
      PROVE  Inv'
  BY <1>1, LaunchOkStep, EndSteps, FrameStep
<1> QED  BY <1>1, ShouldUseStep, CoordinatorSteps, EnvironmentSteps DEF Next, Polls

\* The invariant holds throughout.
LEMMA Invariant == Spec => []Inv
  BY InitInv, StepInv, PTL DEF Spec

-----------------------------------------------------------------------------
(* Restarts: what the poll saw stays true until begin *)

\* The entries of table m whose attempt, not newer than a, is starting.
OldStarting(m, a) == {k \in DOMAIN m : m[k].phase = "Starting" /\ m[k].attempt <= a}

\* The retry of restart r is still due at t, but for attempts granted since the poll.
StillDue(r, o, t) ==
    /\ o.enabled /\ r.key \in DOMAIN o.entries
    /\ \/ o.entries[r.key].phase = "Queued"
       \/ o.entries[r.key].phase = "Cooldown" /\ t >= o.entries[r.key].at
    /\ Cardinality(OldStarting(o.entries, r.attempts)) < MAX_STARTING

Kept(r, o, t) ==
    /\ r.gate <= t /\ r.attempts <= o.next_attempt
    /\ r.key.desktop_generation <= o.desktop_generation
    /\ (r.key.desktop_generation = o.desktop_generation /\ o.desktop_generation < U64_MAX)
           => StillDue(r, o, t)

RestartInv == restarts \in SUBSET Restart /\ \A r \in restarts : Kept(r, owner, now)

\* From o to p nothing happens to the waiting entry k, and only attempts newer than
\* those of o are added to the ones that start; or the entries belong to the past.
Spares(o, p, k) ==
    /\ p.next_attempt >= o.next_attempt
    /\ \/ Advances(o, p)
       \/ /\ p.desktop_generation = o.desktop_generation /\ p.enabled = o.enabled
          /\ (k \in DOMAIN o.entries /\ o.entries[k].phase \in {"Queued", "Cooldown"})
                 => (k \in DOMAIN p.entries /\ p.entries[k] = o.entries[k])
          /\ \A j \in DOMAIN p.entries : p.entries[j].phase = "Starting" =>
                 \/ p.entries[j].attempt > o.next_attempt
                 \/ j \in DOMAIN o.entries /\ p.entries[j] = o.entries[j]

\* The old attempts that are starting are finitely many.
LEMMA OldFinite ==
    ASSUME NEW o, Good(o), NEW a
    PROVE  /\ IsFiniteSet(OldStarting(o.entries, a))
           /\ Cardinality(OldStarting(o.entries, a)) \in Nat
<1>1. IsFiniteSet(DOMAIN o.entries)
  BY DEF Good, GoodEntries
<1>2. OldStarting(o.entries, a) \in SUBSET DOMAIN o.entries
  BY DEF OldStarting
<1> QED  BY <1>1, <1>2, FS_Subset, FS_CardinalityType

\* A step that spares a restart's entry keeps its retry due.
LEMMA SparesKeeps ==
    ASSUME NEW o, Good(o), NEW p, Good(p), NEW r \in Restart, NEW t \in Nat,
           Kept(r, o, t), Spares(o, p, r.key)
    PROVE  Kept(r, p, t)
<1>1. /\ r.key \in Keys /\ r.attempts \in Nat /\ r.gate \in Nat
      /\ r.key.desktop_generation \in Nat
  BY DEF Restart, Keys
<1>2. /\ o.desktop_generation \in Nat /\ o.next_attempt \in Nat
      /\ p.desktop_generation \in Nat /\ p.next_attempt \in Nat /\ U64_MAX \in Nat
      /\ p.desktop_generation <= U64_MAX
  BY GoodFields, HelperConstants
<1>3. r.gate <= t /\ r.attempts <= p.next_attempt /\ r.key.desktop_generation <= p.desktop_generation
  BY <1>1, <1>2 DEF Kept, Spares, Advances
<1>4. ASSUME r.key.desktop_generation = p.desktop_generation, p.desktop_generation < U64_MAX
      PROVE  StillDue(r, p, t)
  <2>1. ~Advances(o, p)
    BY <1>1, <1>2, <1>4 DEF Kept, Advances
  <2>2. /\ p.desktop_generation = o.desktop_generation /\ p.enabled = o.enabled
        /\ (r.key \in DOMAIN o.entries /\ o.entries[r.key].phase \in {"Queued", "Cooldown"})
               => (r.key \in DOMAIN p.entries /\ p.entries[r.key] = o.entries[r.key])
        /\ \A j \in DOMAIN p.entries : p.entries[j].phase = "Starting" =>
               \/ p.entries[j].attempt > o.next_attempt
               \/ j \in DOMAIN o.entries /\ p.entries[j] = o.entries[j]
    BY <2>1 DEF Spares
  <2>3. StillDue(r, o, t)
    BY <1>4, <2>2 DEF Kept
  <2>4. OldStarting(p.entries, r.attempts) \in SUBSET OldStarting(o.entries, r.attempts)
    <3> SUFFICES ASSUME NEW j \in DOMAIN p.entries, p.entries[j].phase = "Starting",
                        p.entries[j].attempt <= r.attempts
                 PROVE  j \in DOMAIN o.entries /\ p.entries[j] = o.entries[j]
      BY DEF OldStarting
    <3>1. p.entries[j].attempt \in Nat
      BY GoodFields, MapTypes DEF Entry
    <3>2. ~(p.entries[j].attempt > o.next_attempt)
      BY <1>1, <1>2, <3>1 DEF Kept
    <3> QED  BY <2>2, <3>2
  <2>5. /\ IsFiniteSet(OldStarting(o.entries, r.attempts))
        /\ Cardinality(OldStarting(o.entries, r.attempts)) \in Nat
        /\ Cardinality(OldStarting(p.entries, r.attempts)) \in Nat
    BY OldFinite
  <2>6. Cardinality(OldStarting(p.entries, r.attempts)) <= Cardinality(OldStarting(o.entries, r.attempts))
    BY <2>4, <2>5, FS_Subset
  <2>7. Cardinality(OldStarting(p.entries, r.attempts)) < MAX_STARTING
    BY <2>3, <2>5, <2>6, HelperConstants DEF StillDue
  <2> QED  BY <2>2, <2>3, <2>7 DEF StillDue
<1> QED  BY <1>3, <1>4 DEF Kept

\* Observing the desktop spares every waiting entry, or puts it in the past.
LEMMA ObserveSpares ==
    ASSUME Inv, NEW k
    PROVE  Good(Observe(owner)) /\ Spares(owner, Observe(owner), k)
<1>1. Good(owner) /\ context \in Contexts
  BY DEF Inv, Environment
<1>2. owner.next_attempt \in Nat
  BY <1>1, GoodFields, HelperConstants
<1> QED  BY <1>1, <1>2, ObserveOutcome DEF Spares

\* Expiry concerns starting entries only.
LEMMA ExpireSpares ==
    ASSUME now \in Nat, NEW o, Good(o), NEW k
    PROVE  Good(Expire(o)) /\ Spares(o, Expire(o), k)
<1>1. /\ Good(Expire(o)) /\ SameRest(o, Expire(o)) /\ Expire(o).entries = Expired(o.entries)
  BY ExpireOutcome
<1>2. GoodEntries(o.entries, o.desktop_generation) /\ o.next_attempt \in Nat
  BY GoodFields, HelperConstants
<1>3. /\ DOMAIN Expired(o.entries) = DOMAIN o.entries
      /\ \A j \in DOMAIN o.entries :
           \/ ~Abandoned(o.entries[j]) /\ Expired(o.entries)[j] = o.entries[j]
           \/ /\ o.entries[j].phase = "Starting"
              /\ Expired(o.entries)[j].phase \in {"Cooldown", "Suppressed"}
  BY <1>2, ExpiredFields
<1>4. Expire(o).next_attempt >= o.next_attempt
  BY <1>1, <1>2 DEF SameRest
<1>5. /\ Expire(o).desktop_generation = o.desktop_generation /\ Expire(o).enabled = o.enabled
      /\ Expire(o).entries = Expired(o.entries)
  BY <1>1 DEF SameRest
<1> QED  BY <1>1, <1>3, <1>4, <1>5 DEF Spares

\* begin under another key does too: the attempt it starts is a new one.
LEMMA BeginSpares ==
    ASSUME now \in Nat, NEW o, Good(o), NEW j \in Keys, NEW k, k # j
    PROVE  Good(AfterBegin(o, j)) /\ Spares(o, AfterBegin(o, j), k)
<1> DEFINE x == Expire(o)
           e == EntryOf(x, j)
           p == AfterBegin(o, j)
<1>1. Good(p) /\ BeginLeaves(o, j, p)
  BY BeginOutcome
<1>2. Good(x) /\ Spares(o, x, k) /\ SameRest(o, x)
  BY ExpireSpares, ExpireOutcome
<1>3. o.next_attempt \in Nat /\ o.desktop_generation \in Nat /\ U64_MAX \in Nat
  BY GoodFields, HelperConstants
<1>4. GoodEntry(e) /\ e.phase \in Phases
  BY <1>2, EntryOfGood DEF GoodEntry, Entry, Phases
<1>5. CASE p = o
  BY <1>1, <1>3, <1>5 DEF Spares
<1>6. CASE p = x
  BY <1>1, <1>2, <1>6
<1>7. CASE Queues(o, x, j, p) \/ Starts(o, x, j, p)
  <2>1. PICK f : /\ p.entries = Stored(x.entries, j, f)
                 /\ f.phase = "Starting" => f.attempt > o.next_attempt
    <3>1. CASE Queues(o, x, j, p)
      <4>1. Moved(e, "Queued", 0).phase = "Queued"
        BY <1>4, MovedFields DEF Phases, GoodEntry
      <4> QED  BY <3>1, <4>1 DEF Queues
    <3>2. CASE Starts(o, x, j, p)
      <4>1. e.phase # "Suppressed"
        BY <3>2 DEF Starts, MayStart
      <4>2. o.next_attempt + 1 \in Nat /\ o.next_attempt + 1 > o.next_attempt
        BY <1>3
      <4> HIDE DEF e
      <4>3. Begun(e, o.next_attempt + 1).attempt = o.next_attempt + 1
        BY <1>4, <4>1, <4>2, BegunGood
      <4>4. p.entries = Stored(x.entries, j, Begun(e, o.next_attempt + 1))
        BY <3>2 DEF Starts, e
      <4> QED  BY <4>2, <4>3, <4>4
    <3> QED  BY <1>7, <3>1, <3>2
  <2>2. /\ p.desktop_generation = o.desktop_generation /\ p.enabled = o.enabled
        /\ p.next_attempt >= o.next_attempt
    BY <1>3, <1>7 DEF Queues, Starts, SameRest
  <2>3. /\ DOMAIN p.entries = DOMAIN x.entries \cup {j} /\ p.entries[j] = f
        /\ \A i \in DOMAIN x.entries : i # j => p.entries[i] = x.entries[i]
    BY <2>1 DEF Stored
  <2>4. GoodEntries(o.entries, o.desktop_generation) /\ x.entries = Expired(o.entries)
    BY GoodFields, ExpireOutcome
  <2>5. /\ DOMAIN x.entries = DOMAIN o.entries
        /\ \A i \in DOMAIN o.entries :
             \/ x.entries[i] = o.entries[i]
             \/ o.entries[i].phase = "Starting" /\ x.entries[i].phase \in {"Cooldown", "Suppressed"}
    BY <2>4, ExpiredFields
  <2> HIDE DEF p, x, e
  <2>6. (k \in DOMAIN o.entries /\ o.entries[k].phase \in {"Queued", "Cooldown"})
            => (k \in DOMAIN p.entries /\ p.entries[k] = o.entries[k])
    BY <2>3, <2>5
  <2>7. \A i \in DOMAIN p.entries : p.entries[i].phase = "Starting" =>
            \/ p.entries[i].attempt > o.next_attempt
            \/ i \in DOMAIN o.entries /\ p.entries[i] = o.entries[i]
    BY <2>1, <2>3, <2>5
  <2>8. Spares(o, p, k)
    BY <2>2, <2>6, <2>7 DEF Spares
  <2> QED  BY <1>1, <2>8 DEF p
<1> QED  BY <1>1, <1>5, <1>6, <1>7 DEF BeginLeaves

\* What a capturer does spares every waiting entry, its own display's included.
LEMMA CapturerSpares ==
    ASSUME Inv, NEW l \in leases, NEW k,
           \/ LaunchOk(l) \/ \E launch \in BOOLEAN : LaunchFails(l, launch)
           \/ FrameArrives(l) \/ FrameFails(l) \/ DropCapturer(l)
    PROVE  Spares(owner, owner', k)
<1>1. now \in Nat /\ Good(owner) /\ owner.next_attempt \in Nat
  BY GoodFields, HelperConstants DEF Inv, Environment
<1>2. owner' = owner => Spares(owner, owner', k)
  BY <1>1 DEF Spares
<1>3. ASSUME Active(owner, l), NEW e, owner'.entries = Stored(owner.entries, l.key, e),
             e.phase # "Starting", owner'.next_attempt = owner.next_attempt,
             owner'.desktop_generation = owner.desktop_generation, owner'.enabled = owner.enabled
      PROVE  Spares(owner, owner', k)
  <2>1. l.key \in DOMAIN owner.entries /\ owner.entries[l.key].phase \in {"Starting", "Running"}
    BY <1>1, <1>3, OwnedEntry
  <2>2. /\ DOMAIN owner'.entries = DOMAIN owner.entries \cup {l.key} /\ owner'.entries[l.key] = e
        /\ \A i \in DOMAIN owner.entries : i # l.key => owner'.entries[i] = owner.entries[i]
    BY <1>3 DEF Stored
  <2>3. owner'.next_attempt >= owner.next_attempt
    BY <1>1, <1>3
  <2> QED  BY <1>3, <2>1, <2>2, <2>3 DEF Spares
<1>4. CASE LaunchOk(l) \/ (FrameArrives(l) /\ ~FirstFrame(l))
  BY <1>2, <1>4 DEF LaunchOk, FrameArrives
<1>5. CASE FrameArrives(l) /\ FirstFrame(l)
  <2>1. Active(owner, l) /\ owner' = Store(owner, l.key, Ran(owner.entries[l.key]))
    BY <1>5 DEF FrameArrives, FirstFrame, Active, Ran
  <2>2. /\ owner'.entries = Stored(owner.entries, l.key, Ran(owner.entries[l.key]))
        /\ SameRest(owner, owner')
    BY <1>1, <2>1, FirstFrameOutcome
  <2>3. Ran(owner.entries[l.key]).phase = "Running"
    BY <1>1, <2>1, OwnedEntry, RanGood DEF GoodEntry
  <2> QED  BY <1>3, <2>1, <2>2, <2>3 DEF SameRest
<1>6. CASE (\E launch \in BOOLEAN : LaunchFails(l, launch)) \/ FrameFails(l) \/ DropCapturer(l)
  <2>1. Settles(owner, l, owner')
    BY <1>1, <1>6, FailureOutcome, CancelOutcome DEF LaunchFails, FrameFails, DropCapturer
  <2> QED  BY <1>2, <1>3, <2>1 DEF Settles
<1> QED  BY <1>4, <1>5, <1>6

\* Restarts that a step leaves over, and whose entries it spares, stay due.
LEMMA RestartsSpared ==
    ASSUME Inv, RestartInv, Good(owner'), now' \in Nat, now' >= now, restarts' \subseteq restarts,
           \A r \in restarts' : Spares(owner, owner', r.key)
    PROVE  RestartInv'
<1>1. now \in Nat /\ Good(owner)
  BY DEF Inv, Environment
<1>2. ASSUME NEW r \in restarts'
      PROVE  r \in Restart /\ Kept(r, owner', now')
  <2>1. r \in Restart /\ Kept(r, owner, now)
    BY <1>2 DEF RestartInv
  <2>2. Kept(r, owner, now')
    <3>1. r.gate \in Nat
      BY <2>1 DEF Restart
    <3>2. r.key \in DOMAIN owner.entries => owner.entries[r.key].at \in Nat
      BY <1>1, GoodFields, MapTypes DEF Entry
    <3> QED  BY <1>1, <2>1, <3>1, <3>2 DEF Kept, StillDue
  <2> QED  BY <1>1, <1>2, <2>1, <2>2, SparesKeeps
<1> QED  BY <1>2 DEF RestartInv

\* Two steps in a row keep a restart due when each spares its entry.
LEMMA SparedTwice ==
    ASSUME Inv, NEW r \in Restart, Kept(r, owner, now), NEW p, Good(p),
           Spares(Observe(owner), p, r.key)
    PROVE  Kept(r, p, now)
<1>1. now \in Nat /\ Good(owner)
  BY DEF Inv, Environment
<1>2. Good(Observe(owner)) /\ Kept(r, Observe(owner), now)
  BY <1>1, ObserveSpares, SparesKeeps
<1> QED  BY <1>1, <1>2, SparesKeeps

\* A poll that says yes starts a restart whose retry is due.
LEMMA PollRestarts ==
    ASSUME now \in Nat, NEW o, Good(o), NEW d \in Displays, NEW b \in Backends,
           RetryDue(o, Key(o, d, b)),
           NEW r, r = [key |-> Key(o, d, b), attempts |-> o.next_attempt, gate |-> o.process_retry_at]
    PROVE  r \in Restart /\ Kept(r, o, now)
<1>1. Key(o, d, b) \in Keys /\ Key(o, d, b).desktop_generation = o.desktop_generation
  BY KeyOf
<1>2. /\ o.next_attempt \in Nat /\ o.process_retry_at \in Nat /\ o.desktop_generation \in Nat
      /\ MAX_STARTING \in Nat
  BY GoodFields, HelperConstants
<1>3. /\ r.key = Key(o, d, b) /\ r.attempts = o.next_attempt /\ r.gate = o.process_retry_at
      /\ r \in Restart
  BY <1>1, <1>2 DEF Restart
<1>4. r.gate <= now
  BY <1>2, <1>3 DEF RetryDue, ProcessBlocked
<1>5. Cardinality(OldStarting(o.entries, r.attempts)) < MAX_STARTING
  <2>1. OldStarting(o.entries, r.attempts) \in SUBSET StartingIn(o.entries)
    BY DEF OldStarting, StartingIn
  <2>2. IsFiniteSet(StartingIn(o.entries)) /\ Cardinality(StartingIn(o.entries)) \in Nat
    BY StartingFinite DEF Good, GoodEntries
  <2>3. Cardinality(OldStarting(o.entries, r.attempts)) <= Cardinality(StartingIn(o.entries))
    BY <2>1, <2>2, FS_Subset
  <2>4. Cardinality(OldStarting(o.entries, r.attempts)) \in Nat
    BY OldFinite
  <2>5. ~(Cardinality(StartingIn(o.entries)) >= MAX_STARTING)
    BY DEF RetryDue, Busy, InStartup, StartingIn
  <2> QED  BY <1>2, <2>2, <2>3, <2>4, <2>5
<1>6. StillDue(r, o, now)
  BY <1>3, <1>5 DEF StillDue, RetryDue
<1> HIDE DEF Kept
<1>7. r.attempts <= o.next_attempt /\ r.key.desktop_generation <= o.desktop_generation
  BY <1>1, <1>2, <1>3
<1> QED  BY <1>3, <1>4, <1>6, <1>7 DEF Kept

\* Every step keeps the retries of the restarts under way due.
LEMMA StepRestarts == Inv /\ RestartInv /\ [Next]_vars => RestartInv'
<1> SUFFICES ASSUME Inv, RestartInv, [Next]_vars PROVE RestartInv'
  OBVIOUS
<1>1. now \in Nat /\ Good(owner) /\ owner.next_attempt \in Nat /\ owner \in Coordinator
  BY GoodFields, HelperConstants DEF Inv, Environment
<1>2. Good(owner')
  BY StepInv DEF Inv
<1>3. ASSUME NEW d \in Displays, NEW b \in Backends, NEW met \in BOOLEAN, ShouldUse(d, b, met)
      PROVE  RestartInv'
  <2> DEFINE o == Observe(owner)
             k == Key(o, d, b)
  <2>1. Good(o) /\ k \in Keys /\ k.display = d /\ k.backend = b
    <3>1. Good(o)
      BY ObserveCalms
    <3> QED  BY <3>1, KeyOf DEF Key
  <2>2. owner' = o \/ owner' = AfterBegin(o, k)
    BY <1>3 DEF ShouldUse
  <2>3. now' = now /\ \A r \in restarts' : r \in restarts /\ (r.key.display # d \/ r.key.backend # b)
    BY <1>3 DEF ShouldUse
  <2> HIDE DEF k
  <2>4. ASSUME NEW r \in restarts'
        PROVE  r \in Restart /\ Kept(r, owner', now')
    <3>1. r \in Restart /\ Kept(r, owner, now) /\ r.key # k
      BY <2>1, <2>3 DEF RestartInv
    <3>2. Spares(o, owner', r.key)
      <4>1. CASE owner' = o
        <5>1. o.next_attempt \in Nat
          BY <2>1, GoodFields, HelperConstants
        <5> QED  BY <4>1, <5>1 DEF Spares
      <4>2. CASE owner' = AfterBegin(o, k)
        BY <1>1, <2>1, <3>1, <4>2, BeginSpares
      <4> QED  BY <2>2, <4>1, <4>2
    <3> QED  BY <1>2, <2>3, <3>1, <3>2, SparedTwice
  <2> QED  BY <2>4 DEF RestartInv
<1>4. ASSUME NEW l \in leases,
             \/ LaunchOk(l) \/ \E launch \in BOOLEAN : LaunchFails(l, launch)
             \/ FrameArrives(l) \/ FrameFails(l) \/ DropCapturer(l)
      PROVE  RestartInv'
  <2>1. now' = now /\ restarts' = restarts
    BY <1>4 DEF LaunchOk, LaunchFails, FrameArrives, FrameFails, DropCapturer
  <2> QED  BY <1>1, <1>2, <1>4, <2>1, CapturerSpares, RestartsSpared
<1>5. CASE SampleDesktop
  <2>1. owner' = Observe(owner) /\ now' = now /\ restarts' = restarts
    BY <1>5 DEF SampleDesktop
  <2> QED  BY <1>1, <1>2, <2>1, ObserveSpares, RestartsSpared
<1>6. CASE Polls
  <2> DEFINE o == Expire(Observe(owner))
  <2>1. now' = now /\ owner' = o /\ Good(Observe(owner)) /\ Good(o)
    BY <1>1, <1>2, <1>6, ObserveCalms DEF Polls, ProtectsRefresh, PollRetry
  <2>2. \A r \in restarts : r \in Restart /\ Kept(r, o, now)
    <3>1. ASSUME NEW r \in restarts
          PROVE  Spares(Observe(owner), o, r.key)
      BY <1>1, <2>1, ExpireSpares
    <3> QED  BY <2>1, <3>1, SparedTwice DEF RestartInv
  <2>3. CASE ProtectsRefresh
    <3>1. restarts' = restarts
      BY <2>3 DEF ProtectsRefresh
    <3> QED  BY <2>1, <2>2, <3>1 DEF RestartInv
  <2>4. ASSUME NEW d \in Displays, NEW b \in Backends, PollRetry(d, b)
        PROVE  RestartInv'
    <3> DEFINE s == [key |-> Key(o, d, b), attempts |-> o.next_attempt, gate |-> o.process_retry_at]
    <3>1. restarts' = IF RetryDue(o, Key(o, d, b)) THEN restarts \cup {s} ELSE restarts
      BY <2>4 DEF PollRetry
    <3> HIDE DEF o
    <3>2. RetryDue(o, Key(o, d, b)) => s \in Restart /\ Kept(s, o, now)
      BY <1>1, <2>1, PollRestarts
    <3> HIDE DEF s
    <3> QED  BY <2>1, <2>2, <3>1, <3>2 DEF RestartInv
  <2> QED  BY <1>6, <2>3, <2>4 DEF Polls
<1>7. ASSUME NEW q \in resetting, ApplyReset(q)
      PROVE  RestartInv'
  <2>1. /\ q.on \in BOOLEAN /\ owner' = Reset(owner, q.on)
        /\ now' = now /\ restarts' = restarts
    BY <1>7 DEF ApplyReset, Inv, Environment
  <2>2. Advances(owner, owner') /\ owner'.next_attempt = owner.next_attempt
    BY <1>1, <2>1, ResetOutcome
  <2>3. \A k : Spares(owner, owner', k)
    BY <1>1, <2>2 DEF Spares
  <2> QED  BY <1>1, <1>2, <2>1, <2>3, RestartsSpared
<1>8. CASE \/ \E c \in Connections, p \in Preferences : SetPreference(c, p)
           \/ \E c \in Contexts : ChangeDesktop(c)
           \/ Tick \/ UNCHANGED vars
  <2>1. owner' = owner /\ restarts' = restarts /\ now' \in Nat /\ now' >= now
    BY <1>1, <1>8 DEF SetPreference, ChangeDesktop, Tick, vars
  <2>2. \A k : Spares(owner, owner', k)
    BY <1>1, <2>1 DEF Spares
  <2> QED  BY <1>2, <2>1, <2>2, RestartsSpared
<1> QED  BY <1>3, <1>4, <1>5, <1>6, <1>7, <1>8 DEF Next, Polls

\* The restarts under way stay due throughout.
LEMMA RestartInvariant == Spec => []RestartInv
<1>1. Init => RestartInv
  BY DEF Init, RestartInv
<1> QED  BY <1>1, StepRestarts, Invariant, PTL DEF Spec

\* The invariant implies the types and the bounds of the policy.
LEMMA InvTypes == Inv /\ RestartInv => TypeOK
<1> SUFFICES ASSUME Inv, RestartInv PROVE TypeOK
  OBVIOUS
<1>1. /\ owner.desktop \in Contexts \cup {"none"}
      /\ owner.desktop_generation \in 0 .. U64_MAX /\ owner.next_attempt \in 0 .. U64_MAX
      /\ owner.enabled \in BOOLEAN /\ owner.process_retry_at \in Nat
      /\ owner.entries \in EntryMaps /\ GoodEntries(owner.entries, owner.desktop_generation)
  BY GoodFields DEF Inv
<1>2. DOMAIN owner.entries \subseteq Keys /\ \A k \in DOMAIN owner.entries : owner.entries[k] \in Entry
  BY <1>1, MapTypes
<1>3. PolicyBounds
  <2>1. InStartup(owner) = StartingIn(owner.entries)
    BY DEF InStartup, StartingIn
  <2> QED  BY <1>1, <2>1 DEF PolicyBounds, GoodEntries, GoodEntry
<1> QED  BY <1>1, <1>2, <1>3 DEF TypeOK, Inv, Environment, RestartInv

-----------------------------------------------------------------------------
(* The theorems *)

\* The coordinator keeps its types and the bounds of its policy (attempts starting
\* at once, entries kept, failures in a row) for every number of displays, every
\* limit and cooldown, through resets, saturated counters and expired attempts.
THEOREM TypeCorrect == Spec => []TypeOK
  BY Invariant, RestartInvariant, InvTypes, PTL

\* Every startup slot and every running entry belongs to a capturer that is alive
\* and has not failed.
THEOREM Owned == Spec => []AttemptsOwned
<1>1. Inv => AttemptsOwned
  BY DEF Inv
<1> QED  BY <1>1, Invariant, PTL

\* What one capturer does never touches an attempt that is not its own.
THEOREM Isolated == Spec => LeaseIsolation
<1> DEFINE A == \A l \in leases \ leases' : \A k \in DOMAIN owner.entries :
                    owner.entries[k].attempt # l.attempt =>
                        k \in DOMAIN owner'.entries /\ owner'.entries[k] = owner.entries[k]
<1>1. Inv /\ [Next]_vars => [A]_vars
  <2> SUFFICES ASSUME Inv, [Next]_vars, NEW l \in leases \ leases', NEW k \in DOMAIN owner.entries,
                      owner.entries[k].attempt # l.attempt
               PROVE  k \in DOMAIN owner'.entries /\ owner'.entries[k] = owner.entries[k]
    OBVIOUS
  <2>1. now \in Nat /\ Good(owner)
    BY DEF Inv, Environment
  <2>2. PICK m \in leases : \/ LaunchOk(m) \/ \E launch \in BOOLEAN : LaunchFails(m, launch)
                            \/ FrameArrives(m) \/ FrameFails(m) \/ DropCapturer(m)
    BY DEF Next, vars, ShouldUse, SampleDesktop, ProtectsRefresh, PollRetry, SetPreference, ApplyReset, ChangeDesktop, Tick
  <2>3. m = l
    BY <2>2 DEF LaunchOk, LaunchFails, FrameArrives, FrameFails, DropCapturer, Becomes
  <2>4. CASE Settles(owner, l, owner')
    <3>1. CASE Active(owner, l)
      <4>1. PICK e : owner'.entries = Stored(owner.entries, l.key, e)
        BY <2>4, <3>1 DEF Settles
      <4>2. k # l.key
        BY <2>1, <3>1, OwnedEntry
      <4> QED  BY <4>1, <4>2 DEF Stored
    <3> QED  BY <2>4, <3>1 DEF Settles
  <2>5. CASE FrameArrives(l) /\ FirstFrame(l)
    <3>1. Active(owner, l) /\ owner' = Store(owner, l.key, Ran(owner.entries[l.key]))
      BY <2>5 DEF FrameArrives, FirstFrame, Active, Ran
    <3>2. owner'.entries = Stored(owner.entries, l.key, Ran(owner.entries[l.key]))
      BY <2>1, <3>1, FirstFrameOutcome
    <3>3. k # l.key
      BY <2>1, <3>1, OwnedEntry
    <3> QED  BY <3>2, <3>3 DEF Stored
  <2>6. CASE LaunchOk(l) \/ (FrameArrives(l) /\ ~FirstFrame(l))
    BY <2>6 DEF LaunchOk, FrameArrives
  <2>7. CASE (\E launch \in BOOLEAN : LaunchFails(l, launch)) \/ FrameFails(l) \/ DropCapturer(l)
    <3>1. Settles(owner, l, owner')
      BY <2>1, <2>7, FailureOutcome, CancelOutcome DEF LaunchFails, FrameFails, DropCapturer
    <3> QED  BY <3>1, <2>4
  <2> QED  BY <2>2, <2>3, <2>5, <2>6, <2>7
<1>2. LeaseIsolation <=> [][A]_vars
  BY DEF LeaseIsolation
<1> HIDE DEF A
<1> QED  BY <1>1, <1>2, Invariant, PTL DEF Spec

\* From o to p no suppression ends, and no cooldown before its time.
KeepsBackOff(o, p) ==
    \A k \in DOMAIN o.entries \cap DOMAIN p.entries :
        /\ o.entries[k].phase = "Suppressed" => p.entries[k] = o.entries[k]
        /\ o.entries[k].phase = "Cooldown" => p.entries[k] = o.entries[k] \/ now >= o.entries[k].at

\* Settling an attempt shortens no back-off.
LEMMA SettlesKeeps ==
    ASSUME NEW o, Good(o), NEW l, NEW p, Settles(o, l, p)
    PROVE  KeepsBackOff(o, p)
<1>1. CASE Active(o, l)
  <2>1. PICK e : p.entries = Stored(o.entries, l.key, e)
    BY <1>1 DEF Settles
  <2>2. o.entries[l.key].phase \in {"Starting", "Running"}
    BY <1>1, OwnedEntry
  <2> QED  BY <2>1, <2>2 DEF Stored, KeepsBackOff
<1>2. CASE ~Active(o, l)
  BY <1>2 DEF Settles, KeepsBackOff
<1> QED  BY <1>1, <1>2

\* Neither does begin.
LEMMA BeginKeeps ==
    ASSUME now \in Nat, NEW o, Good(o), NEW k \in Keys, NEW p, BeginLeaves(o, k, p)
    PROVE  KeepsBackOff(o, p) /\ p.desktop = o.desktop
<1> DEFINE x == Expire(o)
<1>1. Good(x) /\ SameRest(o, x) /\ x.entries = Expired(o.entries)
  BY ExpireOutcome
<1>2. GoodEntries(o.entries, o.desktop_generation)
  BY GoodFields
<1>3. /\ DOMAIN x.entries = DOMAIN o.entries
      /\ \A j \in DOMAIN o.entries : o.entries[j].phase # "Starting" => x.entries[j] = o.entries[j]
  BY <1>1, <1>2, ExpiredFields
<1>4. p.desktop = o.desktop
  BY <1>1 DEF BeginLeaves, Starts, Queues, SameRest
<1>5. p = o \/ p = x \/ (MayStart(EntryOf(x, k)) /\ \E e : p.entries = Stored(x.entries, k, e))
  BY DEF BeginLeaves, Starts, Queues
<1> HIDE DEF x
<1>6. CASE p = o \/ p = x
  BY <1>3, <1>4, <1>6 DEF KeepsBackOff
<1>7. CASE MayStart(EntryOf(x, k)) /\ \E e : p.entries = Stored(x.entries, k, e)
  <2>1. PICK e : p.entries = Stored(x.entries, k, e)
    BY <1>7
  <2>2. ASSUME NEW j \in DOMAIN o.entries, o.entries[j].phase \in {"Suppressed", "Cooldown"}
        PROVE  p.entries[j] = o.entries[j] \/ (o.entries[j].phase = "Cooldown" /\ now >= o.entries[j].at)
    <3>1. x.entries[j] = o.entries[j] /\ j \in DOMAIN x.entries
      BY <1>3, <2>2
    <3>2. CASE j # k
      BY <2>1, <3>1, <3>2 DEF Stored
    <3>3. CASE j = k
      <4>1. MayStart(o.entries[j])
        BY <1>7, <3>1, <3>3 DEF EntryOf
      <4> QED  BY <2>2, <4>1 DEF MayStart
    <3> QED  BY <3>2, <3>3
  <2> QED  BY <1>4, <2>2 DEF KeepsBackOff
<1> QED  BY <1>4, <1>5, <1>6, <1>7

\* On one desktop and under one preference nothing shortens a helper's back-off.
THEOREM BackOff == Spec => BackOffKept
<1> DEFINE A == \A k \in DOMAIN owner.entries \cap DOMAIN owner'.entries :
                  owner.desktop = owner'.desktop =>
                    /\ owner.entries[k].phase = "Suppressed" => owner'.entries[k] = owner.entries[k]
                    /\ owner.entries[k].phase = "Cooldown" =>
                         owner'.entries[k] = owner.entries[k] \/ now >= owner.entries[k].at
<1>1. Inv /\ [Next]_vars => [A]_vars
  <2> SUFFICES ASSUME Inv, [Next]_vars, owner.desktop = owner'.desktop
               PROVE  KeepsBackOff(owner, owner')
    BY DEF KeepsBackOff
  <2>1. now \in Nat /\ Good(owner) /\ context \in Contexts /\ owner \in Coordinator
    BY DEF Inv, Environment, Good
  <2>2. KeepsBackOff(owner, owner)
    BY DEF KeepsBackOff
  <2>3. ASSUME NEW d \in Displays, NEW b \in Backends, NEW met \in BOOLEAN, ShouldUse(d, b, met)
        PROVE  KeepsBackOff(owner, owner')
    <3> DEFINE o == Observe(owner)
               k == Key(o, d, b)
    <3>1. Good(o) /\ (o = owner \/ o.desktop # owner.desktop)
      BY <2>1, ObserveOutcome
    <3>2. k \in Keys
      BY <3>1, KeyOf
    <3>3. owner' = o \/ BeginLeaves(o, k, owner')
      <4>1. owner' = o \/ owner' = AfterBegin(o, k)
        BY <2>3 DEF ShouldUse
      <4> QED  BY <2>1, <3>1, <3>2, <4>1, BeginOutcome
    <3> HIDE DEF o, k
    <3>4. KeepsBackOff(o, owner') /\ owner'.desktop = o.desktop
      <4>1. CASE owner' = o
        BY <4>1 DEF KeepsBackOff
      <4>2. CASE BeginLeaves(o, k, owner')
        BY <2>1, <3>1, <3>2, <4>2, BeginKeeps
      <4> QED  BY <3>3, <4>1, <4>2
    <3> QED  BY <3>1, <3>4
  <2>4. ASSUME NEW l \in leases,
               \/ LaunchOk(l) \/ \E launch \in BOOLEAN : LaunchFails(l, launch)
               \/ FrameArrives(l) \/ FrameFails(l) \/ DropCapturer(l)
        PROVE  KeepsBackOff(owner, owner')
    <3>1. CASE (\E launch \in BOOLEAN : LaunchFails(l, launch)) \/ FrameFails(l) \/ DropCapturer(l)
      <4>1. Settles(owner, l, owner')
        BY <2>1, <3>1, FailureOutcome, CancelOutcome DEF LaunchFails, FrameFails, DropCapturer
      <4> QED  BY <2>1, <4>1, SettlesKeeps
    <3>2. CASE LaunchOk(l) \/ (FrameArrives(l) /\ ~FirstFrame(l))
      BY <2>2, <3>2 DEF LaunchOk, FrameArrives
    <3>3. CASE FrameArrives(l) /\ FirstFrame(l)
      <4>1. Active(owner, l) /\ owner' = Store(owner, l.key, Ran(owner.entries[l.key]))
        BY <3>3 DEF FrameArrives, FirstFrame, Active, Ran
      <4>2. owner'.entries = Stored(owner.entries, l.key, Ran(owner.entries[l.key]))
        BY <2>1, <4>1, FirstFrameOutcome
      <4>3. owner.entries[l.key].phase \in {"Starting", "Running"}
        BY <2>1, <4>1, OwnedEntry
      <4> QED  BY <4>2, <4>3 DEF Stored, KeepsBackOff
    <3> QED  BY <2>4, <3>1, <3>2, <3>3
  <2>5. CASE SampleDesktop \/ Polls
    <3> DEFINE o == Observe(owner)
    <3>1. Good(o) /\ (o = owner \/ o.desktop # owner.desktop)
      BY <2>1, ObserveOutcome
    <3>2. owner' = o \/ owner' = Expire(o)
      BY <2>5 DEF SampleDesktop, Polls, ProtectsRefresh, PollRetry
    <3>3. Good(Expire(o)) /\ SameRest(o, Expire(o)) /\ Expire(o).entries = Expired(o.entries)
      BY <2>1, <3>1, ExpireOutcome
    <3>4. GoodEntries(o.entries, o.desktop_generation)
      BY <3>1, GoodFields
    <3>5. KeepsBackOff(o, Expire(o)) /\ KeepsBackOff(o, o)
      BY <2>1, <3>3, <3>4, ExpiredFields DEF KeepsBackOff
    <3> HIDE DEF o
    <3> QED  BY <3>1, <3>2, <3>3, <3>5 DEF SameRest
  <2>6. ASSUME NEW r \in resetting, ApplyReset(r)
        PROVE  KeepsBackOff(owner, owner')
    <3>1. r.on \in BOOLEAN /\ owner' = Reset(owner, r.on)
      BY <2>6 DEF ApplyReset, Inv, Environment
    <3> QED  BY <2>1, <3>1, ResetOutcome DEF KeepsBackOff
  <2>7. CASE \/ \E c \in Connections, p \in Preferences : SetPreference(c, p)
             \/ \E c \in Contexts : ChangeDesktop(c)
             \/ Tick \/ UNCHANGED vars
    BY <2>2, <2>7 DEF SetPreference, ChangeDesktop, Tick, vars
  <2> QED  BY <2>3, <2>4, <2>5, <2>6, <2>7 DEF Next, Polls
<1>2. BackOffKept <=> [][A]_vars
  BY DEF BackOffKept
<1> HIDE DEF A
<1> QED  BY <1>1, <1>2, Invariant, PTL DEF Spec

\* Whatever happens between the poll that asked for a restart and its begin, begin
\* grants the attempt or queues it because of something that happened in between.
THEOREM Honoured == Spec => []RestartHonoured
<1>1. Inv /\ RestartInv => RestartHonoured
  <2> SUFFICES ASSUME Inv, RestartInv, NEW r \in restarts,
                      r.key.desktop_generation = owner.desktop_generation,
                      owner.desktop_generation < U64_MAX, owner.next_attempt < U64_MAX,
                      ~Grants(owner, r.key)
               PROVE  LET p == AfterBegin(owner, r.key)
                      IN  /\ r.key \in DOMAIN p.entries /\ p.entries[r.key].phase = "Queued"
                          /\ \/ \E k \in InStartup(p) : p.entries[k].attempt > r.attempts
                             \/ p.process_retry_at > r.gate
    BY DEF RestartHonoured
  <2> DEFINE k == r.key
             x == Expire(owner)
             p == AfterBegin(owner, k)
             e == EntryOf(x, k)
             f == Moved(e, "Queued", 0)
  <2>1. now \in Nat /\ Good(owner) /\ k \in Keys /\ r.attempts \in Nat /\ r.gate \in Nat
    BY DEF Inv, Environment, RestartInv, Restart
  <2>2. StillDue(r, owner, now) /\ r.gate <= now
    BY DEF RestartInv, Kept
  <2>3. Good(x) /\ SameRest(owner, x) /\ x.entries = Expired(owner.entries)
    BY <2>1, ExpireOutcome
  <2>4. /\ DOMAIN x.entries = DOMAIN owner.entries
        /\ \A j \in DOMAIN owner.entries :
             \/ x.entries[j] = owner.entries[j]
             \/ owner.entries[j].phase = "Starting" /\ x.entries[j].phase \in {"Cooldown", "Suppressed"}
    BY <2>1, <2>3, ExpiredFields, GoodFields
  <2>5. k \in DOMAIN x.entries /\ x.entries[k] = owner.entries[k] /\ e = owner.entries[k]
    BY <2>2, <2>4 DEF StillDue, EntryOf
  <2>6. ~Refuses(owner, k) /\ ~NoRoom(x, k) /\ MayStart(e) /\ e.phase # "Starting"
    <3>1. owner.next_attempt # U64_MAX
      BY <2>1, GoodFields, HelperConstants
    <3> QED  BY <2>2, <2>5, <3>1 DEF Refuses, NoRoom, MayStart, StillDue
  <2>7. Busy(x) \/ ProcessBlocked(x)
    BY <2>6 DEF Grants
  <2>8. /\ p.entries = Stored(x.entries, k, f) /\ p.process_retry_at = x.process_retry_at
        /\ f.phase = "Queued"
    <3>1. p = Store(x, k, f)
      BY <2>6 DEF AfterBegin, Moved
    <3>2. GoodEntry(e) /\ e.phase # "Suppressed"
      BY <2>3, <2>6, EntryOfGood DEF MayStart
    <3>3. GoodEntry(f) /\ f.phase = "Queued"
      BY <3>2, MovedGood DEF Phases
    <3>4. k.desktop_generation = x.desktop_generation
      BY <2>3 DEF SameRest
    <3> HIDE DEF f, x, e, p
    <3>5. p.entries = Stored(x.entries, k, f) /\ SameRest(x, p)
      BY <2>1, <2>3, <2>5, <3>1, <3>3, <3>4, StoreOutcome
    <3> QED  BY <3>3, <3>5 DEF SameRest
  <2>9. /\ DOMAIN p.entries = DOMAIN x.entries \cup {k} /\ p.entries[k] = f
        /\ \A j \in DOMAIN x.entries : j # k => p.entries[j] = x.entries[j]
    BY <2>8 DEF Stored
  <2>10. CASE ProcessBlocked(x)
    <3>1. x.process_retry_at \in Nat
      BY <2>3, GoodFields
    <3>2. p.process_retry_at > r.gate
      BY <2>1, <2>2, <2>8, <2>10, <3>1 DEF ProcessBlocked
    <3> QED  BY <2>8, <2>9, <3>2
  <2>11. CASE Busy(x)
    <3>1. PICK j \in InStartup(x) : ~(x.entries[j].attempt <= r.attempts)
      <4> SUFFICES ASSUME \A j \in InStartup(x) : x.entries[j].attempt <= r.attempts
                   PROVE  FALSE
        OBVIOUS
      <4>1. InStartup(x) \in SUBSET OldStarting(owner.entries, r.attempts)
        BY <2>4 DEF InStartup, OldStarting
      <4>2. /\ IsFiniteSet(OldStarting(owner.entries, r.attempts))
            /\ Cardinality(OldStarting(owner.entries, r.attempts)) \in Nat
        BY <2>1, OldFinite
      <4>3. /\ IsFiniteSet(InStartup(x))
            /\ Cardinality(InStartup(x)) <= Cardinality(OldStarting(owner.entries, r.attempts))
        BY <4>1, <4>2, FS_Subset
      <4>4. Cardinality(InStartup(x)) \in Nat
        BY <4>3, FS_CardinalityType
      <4> HIDE DEF x
      <4> QED  BY <2>2, <2>11, <4>2, <4>3, <4>4, HelperConstants DEF StillDue, Busy
    <3>2. /\ j \in DOMAIN x.entries /\ x.entries[j].phase = "Starting" /\ j # k
          /\ x.entries[j].attempt \in Nat
      <4>1. j \in DOMAIN x.entries /\ x.entries[j].phase = "Starting"
        BY DEF InStartup
      <4>2. x.entries[j] \in Entry
        BY <2>3, <4>1, GoodFields, MapTypes
      <4> QED  BY <2>5, <2>6, <4>1, <4>2 DEF Entry
    <3>3. p.entries[j] = x.entries[j] /\ j \in DOMAIN p.entries
      BY <2>9, <3>2
    <3>4. j \in InStartup(p) /\ p.entries[j].attempt > r.attempts
      BY <2>1, <3>1, <3>2, <3>3 DEF InStartup
    <3> QED  BY <2>8, <2>9, <3>4
  <2> QED  BY <2>7, <2>10, <2>11
<1> QED  BY <1>1, Invariant, RestartInvariant, PTL
=============================================================================
