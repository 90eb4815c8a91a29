---------------------------- MODULE HelperRetry -----------------------------
(***************************************************************************)
(* The startup policy of the user-session capture helpers on a Windows     *)
(* host: HelperCoordinator and HelperAttemptLease (server/helper_retry.rs) *)
(* with the video services that hold the leases (server/video_service.rs,  *)
(* server/user_capture_helper.rs) and the connections that change the      *)
(* capture backend preference.                                             *)
(*                                                                         *)
(* Every operator on a coordinator o is one method of HelperCoordinator,   *)
(* which runs under the mutex; every action is one use of that mutex.      *)
(* Definitions whose name ends in Defect carry a seeded bug; no            *)
(* specification uses them, they measure what the properties can see.      *)
(***************************************************************************)
EXTENDS Integers, FiniteSets

CONSTANTS
    Displays,            \* displays with a video service
    CAPTURERS,           \* capturers alive per display: 1, the service's own
    Backends,            \* UserCaptureBackend: Wgc, Dxgi
    Contexts,            \* desktops: (session id, persistently secure)
    Preferences,         \* capture backends a viewer may ask for
    Connections,         \* connections that may ask
    ABANDONED_TIMEOUT, FIRST_COOLDOWN, SECOND_COOLDOWN,
    MAX_FAILURES, MAX_STARTING, MAX_KEYS,
    U64_MAX,             \* largest desktop generation and attempt number
    MaxTime,             \* bound: last instant
    MaxChanges           \* bound: changes of the desktop or of the preference

ASSUME HelperConstants ==
    /\ {ABANDONED_TIMEOUT, FIRST_COOLDOWN, SECOND_COOLDOWN} \subseteq Nat \ {0}
    /\ {MAX_FAILURES, MAX_STARTING, MAX_KEYS, U64_MAX, CAPTURERS} \subseteq Nat \ {0}
    /\ MaxTime \in Nat /\ MaxChanges \in Nat
    /\ "none" \notin Contexts

VARIABLES
    owner,       \* the coordinator
    leases,      \* HelperAttemptLease values alive
    restarts,    \* video services restarting because retry_due said so
    now,
    context,     \* the desktop the process is on, as the system reports it
    preference,  \* CAPTURE_BACKEND_PREFERENCE
    resetting,   \* connections between storing a preference and resetting
    changes      \* changes so far

vars == <<owner, leases, restarts, now, context, preference, resetting, changes>>

-----------------------------------------------------------------------------
(* HelperCoordinator; `at' is the Instant of Starting and Cooldown *)

NewEntry == [phase |-> "Ready", at |-> 0, attempt |-> 0, failures |-> 0]
NoEntries == [k \in {} |-> NewEntry]

FailDefect(e) ==   \* a third failure is only another cooldown
    [e EXCEPT !.failures = @ + 1, !.phase = "Cooldown",
              !.at = now + (IF e.failures = 0 THEN FIRST_COOLDOWN ELSE SECOND_COOLDOWN)]
Fail(e) ==
    LET n == e.failures + 1
        cooldown == IF n = 1 THEN FIRST_COOLDOWN ELSE SECOND_COOLDOWN
    IN  IF n >= MAX_FAILURES
        THEN [e EXCEPT !.failures = n, !.phase = "Suppressed", !.at = 0]
        ELSE [e EXCEPT !.failures = n, !.phase = "Cooldown", !.at = now + cooldown]

\* process_retry_at 0 is None: no instant is before it.
Reset(o, on) ==
    [o EXCEPT !.desktop_generation = IF @ < U64_MAX THEN @ + 1 ELSE @,
              !.entries = NoEntries, !.process_retry_at = 0, !.enabled = on]

\* observe_desktop, with the sample helper_key takes under the lock.
Observe(o) ==
    IF o.desktop = context THEN o ELSE Reset([o EXCEPT !.desktop = context], o.enabled)
Key(o, d, b) == [desktop_generation |-> o.desktop_generation, display |-> d, backend |-> b]

\* o with entry e stored under key k.
Store(o, k, e) ==
    [o EXCEPT !.entries = [x \in DOMAIN @ \cup {k} |-> IF x = k THEN e ELSE @[x]]]

Abandoned(e) == e.phase = "Starting" /\ now - e.at >= ABANDONED_TIMEOUT
Expire(o) ==
    [o EXCEPT !.entries = [k \in DOMAIN @ |-> IF Abandoned(@[k]) THEN Fail(@[k]) ELSE @[k]]]

InStartup(o) == {k \in DOMAIN o.entries : o.entries[k].phase = "Starting"}
Busy(o) == Cardinality(InStartup(o)) >= MAX_STARTING
ProcessBlocked(o) == now < o.process_retry_at

\* begin in three parts: its early returns, whether the entry may start, and
\* whether it starts now or is queued.
Refuses(o, k) ==
    \/ ~o.enabled
    \/ k.desktop_generation # o.desktop_generation
    \/ o.next_attempt = U64_MAX
NoRoom(o, k) == k \notin DOMAIN o.entries /\ Cardinality(DOMAIN o.entries) >= MAX_KEYS
EntryOf(o, k) == IF k \in DOMAIN o.entries THEN o.entries[k] ELSE NewEntry
MayStartDefect(e) == e.phase \in {"Ready", "Queued", "Cooldown"}   \* any cooldown
MayStart(e) == e.phase \in {"Ready", "Queued"} \/ (e.phase = "Cooldown" /\ now >= e.at)

Grants(o, k) ==
    LET x == Expire(o)
    IN  ~Refuses(o, k) /\ ~NoRoom(x, k) /\ MayStart(EntryOf(x, k))
        /\ ~Busy(x) /\ ~ProcessBlocked(x)
AfterBegin(o, k) ==
    LET x == Expire(o)
        e == EntryOf(x, k)
    IN  IF Refuses(o, k) THEN o
        ELSE IF NoRoom(x, k) \/ ~MayStart(e) THEN x
        ELSE IF ~Grants(o, k) THEN Store(x, k, [e EXCEPT !.phase = "Queued", !.at = 0])
        ELSE Store([x EXCEPT !.next_attempt = @ + 1], k,
                   [e EXCEPT !.phase = "Starting", !.at = now, !.attempt = o.next_attempt + 1])

\* owned_entry: the lease's attempt is the one the coordinator has for its key.
OwnsDefect(o, l) == l.key \in DOMAIN o.entries   \* whichever attempt it is
Owns(o, l) == l.key \in DOMAIN o.entries /\ o.entries[l.key].attempt = l.attempt
PhaseOf(o, l) == o.entries[l.key].phase

AfterFailure(o, l, launch) ==
    IF ~(Owns(o, l) /\ PhaseOf(o, l) \in {"Starting", "Running"}) THEN o
    ELSE LET x == Store(o, l.key, Fail(o.entries[l.key]))
         IN  IF launch THEN [x EXCEPT !.process_retry_at = now + FIRST_COOLDOWN] ELSE x

AfterCancelDefect(o, l) ==   \* a dropped capturer that was running keeps its entry
    IF ~(Owns(o, l) /\ PhaseOf(o, l) = "Starting") THEN o
    ELSE Store(o, l.key, [o.entries[l.key] EXCEPT !.phase = "Ready", !.at = 0])
AfterCancel(o, l) ==
    IF ~(Owns(o, l) /\ PhaseOf(o, l) \in {"Starting", "Running"}) THEN o
    ELSE Store(o, l.key, [o.entries[l.key] EXCEPT !.phase = "Ready", !.at = 0])

\* retry_due's answer, once it has expired the abandoned attempts.
RetryDueDefect(o, k) ==   \* forgets the process gate
    /\ o.enabled /\ k.desktop_generation = o.desktop_generation /\ ~Busy(o)
    /\ k \in DOMAIN o.entries
    /\ \/ o.entries[k].phase = "Queued"
       \/ o.entries[k].phase = "Cooldown" /\ now >= o.entries[k].at
RetryDue(o, k) ==
    /\ o.enabled /\ k.desktop_generation = o.desktop_generation
    /\ ~ProcessBlocked(o) /\ ~Busy(o)
    /\ k \in DOMAIN o.entries
    /\ \/ o.entries[k].phase = "Queued"
       \/ o.entries[k].phase = "Cooldown" /\ now >= o.entries[k].at

-----------------------------------------------------------------------------
(* The video service of a display.  Its lease is "launching" until         *)
(* create_capturer has started the helper process, "capturing" while       *)
(* frame() is polled, and "failed" from the error that makes the service   *)
(* drop the capturer until the drop.                                       *)

Idle(d) == Cardinality({l \in leases : l.key.display = d}) < CAPTURERS
Becomes(l, m) == leases' = (leases \ {l}) \cup {m}

\* should_use_user_capture_helper; `met' stands for its prerequisites (installed
\* service, no privacy mode, no secure desktop).  A restart of the display is over
\* once its backend has been tried or the display has a helper.
ShouldUse(d, b, met) ==
    LET o == Observe(owner)
        k == Key(o, d, b)
        granted == met /\ Grants(o, k)
    IN  /\ Idle(d)
        /\ owner' = IF met THEN AfterBegin(o, k) ELSE o
        /\ leases' = IF granted
                     THEN leases \cup {[key |-> k, attempt |-> o.next_attempt + 1,
                                        first_frame |-> FALSE, stage |-> "launching"]}
                     ELSE leases
        /\ restarts' = {r \in restarts : r.key.display # d \/ (r.key.backend # b /\ ~granted)}
        /\ UNCHANGED <<now, context, preference, resetting, changes>>

\* create_capturer: the helper process runs, or launching it (launch) or
\* something around it failed.
LaunchOk(l) ==
    /\ l.stage = "launching"
    /\ Becomes(l, [l EXCEPT !.stage = "capturing"])
    /\ UNCHANGED <<owner, restarts, now, context, preference, resetting, changes>>
LaunchFails(l, launch) ==
    /\ l.stage = "launching"
    /\ owner' = AfterFailure(owner, l, launch)
    /\ Becomes(l, [l EXCEPT !.stage = "failed"])
    /\ UNCHANGED <<restarts, now, context, preference, resetting, changes>>

\* frame() finds a valid frame: HelperAttemptLease::success decides whether the
\* frame is used or the attempt has been retired meanwhile.
FirstFrame(l) == ~l.first_frame /\ Owns(owner, l) /\ PhaseOf(owner, l) = "Starting"
StillRunning(l) == l.first_frame /\ Owns(owner, l) /\ PhaseOf(owner, l) = "Running"
FrameArrives(l) ==
    /\ l.stage = "capturing"
    /\ \/ /\ FirstFrame(l)
          /\ owner' = Store(owner, l.key, [owner.entries[l.key] EXCEPT
                                !.phase = "Running", !.at = 0, !.failures = 0])
          /\ Becomes(l, [l EXCEPT !.first_frame = TRUE])
       \/ /\ ~FirstFrame(l) /\ ~StillRunning(l)
          /\ Becomes(l, [l EXCEPT !.stage = "failed"])
          /\ UNCHANGED owner
    /\ UNCHANGED <<restarts, now, context, preference, resetting, changes>>

\* frame() finds an invalid frame, an error status or the helper gone, at any
\* time, or no frame although STARTUP_TIMEOUT has passed.
FrameFails(l) ==
    /\ l.stage = "capturing"
    /\ owner' = AfterFailure(owner, l, FALSE)
    /\ Becomes(l, [l EXCEPT !.stage = "failed"])
    /\ UNCHANGED <<restarts, now, context, preference, resetting, changes>>

\* The capturer is dropped: after an error, or because the service switches or
\* stops.  The lease's destructor cancels the attempt.
DropCapturer(l) ==
    /\ l.stage # "launching"
    /\ owner' = AfterCancel(owner, l)
    /\ leases' = leases \ {l}
    /\ UNCHANGED <<restarts, now, context, preference, resetting, changes>>

\* The service loop samples the desktop (helper_key) on every round, and on a
\* viewer's refresh asks protects_refresh.
SampleDesktop ==
    /\ owner' = Observe(owner)
    /\ UNCHANGED <<leases, restarts, now, context, preference, resetting, changes>>
ProtectsRefresh ==
    /\ owner' = Expire(Observe(owner))
    /\ UNCHANGED <<leases, restarts, now, context, preference, resetting, changes>>

\* On the fallback capturer the loop asks retry_due for the backends of the
\* preference it read before, hence for any of them.  A yes ends the run with
\* SWITCH: the lock is free until the restarted service calls begin in ShouldUse.
\* The restart remembers the last attempt and the process gate of the poll; no
\* guard reads them.
PollRetry(d, b) ==
    LET o == Expire(Observe(owner))
        k == Key(o, d, b)
    IN  /\ Idle(d) /\ \A r \in restarts : r.key.display # d
        /\ owner' = o
        /\ restarts' = IF RetryDue(o, k)
                       THEN restarts \cup {[key |-> k, attempts |-> o.next_attempt,
                                          gate |-> o.process_retry_at]}
                       ELSE restarts
        /\ UNCHANGED <<leases, now, context, preference, resetting, changes>>

-----------------------------------------------------------------------------
(* The environment: viewers, the desktop, time *)

\* capture_backend_allows_user_helper_retry
Allows(p) == p \in {"Auto", "Wgc", "Dxgi"}

\* set_capture_backend_preference stores the preference under one lock and
\* resets the coordinator under another.
SetPreference(c, p) ==
    /\ changes < MaxChanges
    /\ p # preference /\ \A r \in resetting : r.conn # c
    /\ preference' = p
    /\ resetting' = resetting \cup {[conn |-> c, on |-> Allows(p)]}
    /\ changes' = changes + 1
    /\ UNCHANGED <<owner, leases, restarts, now, context>>
ApplyReset(r) ==
    /\ owner' = Reset(owner, r.on)
    /\ resetting' = resetting \ {r}
    /\ UNCHANGED <<leases, restarts, now, context, preference, changes>>

ChangeDesktop(c) ==
    /\ changes < MaxChanges
    /\ c # context /\ context' = c
    /\ changes' = changes + 1
    /\ UNCHANGED <<owner, leases, restarts, now, preference, resetting>>
Tick ==
    /\ now < MaxTime /\ now' = now + 1
    /\ UNCHANGED <<owner, leases, restarts, context, preference, resetting, changes>>

Init ==
    /\ owner = [desktop |-> "none", desktop_generation |-> 0, next_attempt |-> 0,
                entries |-> NoEntries, enabled |-> TRUE, process_retry_at |-> 0]
    /\ leases = {} /\ restarts = {} /\ now = 0 /\ changes = 0
    /\ context \in Contexts
    /\ preference = "Auto" /\ resetting = {}

Next ==
    \/ \E d \in Displays, b \in Backends, met \in BOOLEAN : ShouldUse(d, b, met)
    \/ \E l \in leases :
        \/ LaunchOk(l) \/ \E launch \in BOOLEAN : LaunchFails(l, launch)
        \/ FrameArrives(l) \/ FrameFails(l) \/ DropCapturer(l)
    \/ SampleDesktop \/ ProtectsRefresh
    \/ \E d \in Displays, b \in Backends : PollRetry(d, b)
    \/ \E c \in Connections, p \in Preferences : SetPreference(c, p)
    \/ \E r \in resetting : ApplyReset(r)
    \/ \E c \in Contexts : ChangeDesktop(c)
    \/ Tick

Spec == Init /\ [][Next]_vars

-----------------------------------------------------------------------------
(* Properties *)

Keys == [desktop_generation : Nat, display : Displays, backend : Backends]
Entry == [phase : {"Ready", "Queued", "Starting", "Running", "Cooldown", "Suppressed"},
          at : Nat, attempt : Nat, failures : Nat]
Lease == [key : Keys, attempt : Nat \ {0}, first_frame : BOOLEAN,
          stage : {"launching", "capturing", "failed"}]
Restart == [key : Keys, attempts : Nat, gate : Nat]

\* The bounds of the policy: attempts starting at once, entries kept, and
\* consecutive failures of one helper, the last of which suppresses it.
PolicyBounds ==
    /\ Cardinality(InStartup(owner)) <= MAX_STARTING
    /\ Cardinality(DOMAIN owner.entries) <= MAX_KEYS
    /\ \A k \in DOMAIN owner.entries :
        /\ owner.entries[k].failures <= MAX_FAILURES
        /\ owner.entries[k].failures = MAX_FAILURES <=> owner.entries[k].phase = "Suppressed"

\* The coordinator, the leases and the environment have the types of the fields
\* they stand for; the 64-bit counters do not overflow, and the policy's bounds hold.
TypeOK ==
    /\ owner.desktop \in Contexts \cup {"none"}
    /\ owner.desktop_generation \in 0 .. U64_MAX /\ owner.next_attempt \in 0 .. U64_MAX
    /\ owner.enabled \in BOOLEAN /\ owner.process_retry_at \in Nat
    /\ DOMAIN owner.entries \subseteq Keys
    /\ \A k \in DOMAIN owner.entries : owner.entries[k] \in Entry
    /\ leases \in SUBSET Lease /\ restarts \in SUBSET Restart
    /\ now \in Nat /\ context \in Contexts
    /\ resetting \in SUBSET [conn : Connections, on : BOOLEAN]
    /\ PolicyBounds

\* An attempt the coordinator counts as starting or running belongs to a capturer
\* that is alive and has not failed, in the current desktop generation: no early
\* return, error, switch or desktop change leaks a startup slot or leaves an
\* entry running without a helper.
AttemptsOwned ==
    /\ \A k \in DOMAIN owner.entries :
        /\ k.desktop_generation = owner.desktop_generation
        /\ owner.entries[k].phase \in {"Starting", "Running"} =>
            \E l \in leases : /\ l.key = k /\ l.attempt = owner.entries[k].attempt
                              /\ l.stage # "failed"
                              /\ l.first_frame <=> owner.entries[k].phase = "Running"
    /\ \A l, m \in leases : l.attempt = m.attempt => l = m
    /\ \A l \in leases : l.attempt <= owner.next_attempt

\* What one capturer does (its launch, frames, errors and its drop) never changes
\* the state of an attempt that is not its own, not even of a newer attempt for
\* the same display and backend.  The coordinator promises this whatever its
\* callers do, hence also with two capturers alive on one display.
LeaseIsolation ==
    [][\A l \in leases \ leases' : \A k \in DOMAIN owner.entries :
        owner.entries[k].attempt # l.attempt =>
            k \in DOMAIN owner'.entries /\ owner'.entries[k] = owner.entries[k]]_vars

\* On one desktop and under one preference a cooldown ends only when its time is
\* over, and a suppressed helper stays suppressed: dropping the failed capturer,
\* late frames and polls cannot shorten the back-off.
BackOffKept ==
    [][\A k \in DOMAIN owner.entries \cap DOMAIN owner'.entries :
        owner.desktop = owner'.desktop =>
            /\ owner.entries[k].phase = "Suppressed" => owner'.entries[k] = owner.entries[k]
            /\ owner.entries[k].phase = "Cooldown" =>
                 owner'.entries[k] = owner.entries[k] \/ now >= owner.entries[k].at]_vars

\* A restart that retry_due asked for is never in vain through its own fault.  The
\* lock is free from the poll until the restarted service calls begin; whatever
\* the other displays, old capturers and viewers do meanwhile, as long as the
\* desktop and the preference stay (and the counters last) begin then grants the
\* attempt, or it queues the entry, which keeps the retry due, and something that
\* happened after the poll is to blame: an attempt granted since that is still
\* starting, or a launch that failed since.
RestartHonoured ==
    \A r \in restarts :
        LET p == AfterBegin(owner, r.key)
        IN  /\ owner.desktop = context /\ r.key.desktop_generation = owner.desktop_generation
            /\ owner.desktop_generation < U64_MAX /\ owner.next_attempt < U64_MAX
            => \/ Grants(owner, r.key)
               \/ /\ r.key \in DOMAIN p.entries /\ p.entries[r.key].phase = "Queued"
                  /\ \/ \E k \in InStartup(p) : p.entries[k].attempt > r.attempts
                     \/ p.process_retry_at > r.gate

\* Once no preference change is under way, helpers are retried exactly when the
\* stored preference allows it.
GateFollowsPreference == resetting = {} => (owner.enabled <=> Allows(preference))
=============================================================================
