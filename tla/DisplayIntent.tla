---------------------------- MODULE DisplayIntent ---------------------------
(***************************************************************************)
(* Which displays a host captures for a viewer.  The views (windows) of a  *)
(* session each show some displays; a reducer aggregates them into one     *)
(* intent (flutter.rs); the connection loop brings the host in line with   *)
(* the latest intent through an outbox that retries what the bounded       *)
(* writer refused and forgets what a newer intent overtook                 *)
(* (client/display_control.rs, client/io_loop.rs); the host subscribes the *)
(* connection to its video services (server/connection.rs, server.rs).     *)
(*                                                                         *)
(* Views run on user-interface threads; the outbox belongs to the loop.    *)
(* The host is one that takes a whole set of displays at once; older hosts *)
(* are left out.  Displays are indexes, Available the ones the host has.   *)
(* Definitions whose name ends in Defect carry a seeded bug; no            *)
(* specification uses them, they measure what the properties can see.      *)
(***************************************************************************)
EXTENDS Integers, Sequences, FiniteSets

CONSTANTS
    Displays,    \* displays a view may ask for
    Available,   \* displays the host has
    Primary,     \* the one a new connection is subscribed to
    Views,
    NONE,
    RefreshReplacement,  \* replacement_refresh_required: an older desktop host
    MaxQueue,    \* commands the writer takes before it refuses
    MaxChanges,  \* bound: changes of the views
    MaxRounds    \* bound: connections

ASSUME DisplayConstants ==
    /\ IsFiniteSet(Displays) /\ Available \subseteq Displays /\ Primary \in Available
    /\ NONE \notin Displays /\ \A ds \in SUBSET Displays : ds # NONE
    /\ RefreshReplacement \in BOOLEAN
    /\ MaxQueue \in Nat \ {0} /\ {MaxChanges, MaxRounds} \subseteq Nat

VARIABLES
    shown,     \* per attached view: the displays it shows, or NONE if unseeded
    intent,    \* media_intent: generation, and per display in demand its
               \* activation and number of views; the display to replace with
    last,      \* last_activation_generation per display, 0 if it never had one
    known,     \* whether the host's PeerInfo has arrived
    round,     \* connection_round
    phase,     \* of that connection: "off", "starting", "on" (is_connected)
    outbox,    \* DisplayIntentOutbox of the round
    wire,      \* commands the writer has taken, in order
    subs, display_idx,  \* host: subscribed displays, the connection's display
    changes

ui == <<shown, intent, last, changes>>
host == <<subs, display_idx>>
vars == <<ui, known, round, phase, outbox, wire, host>>

-----------------------------------------------------------------------------
(* Views and their aggregate *)

Demand(sh) == UNION {sh[v] : v \in {w \in DOMAIN sh : sh[w] # NONE}}
ViewCount(sh, d) == Cardinality({v \in DOMAIN sh : sh[v] # NONE /\ d \in sh[v]})

\* is_single_display_replacement
Replaces(sh, was, is) == Cardinality(DOMAIN sh) = 1 /\ \E d, e \in Displays : d # e /\ was = {d} /\ is = {e}

\* reconcile_display_media with the registry sh of attached views.
Activation(d) == IF d \in DOMAIN intent.displays THEN intent.displays[d].generation ELSE last[d] + 1
Reconcile(sh) ==
    LET entries == [d \in Demand(sh) |->
                       [generation |-> Activation(d), view_count |-> ViewCount(sh, d)]]
        was == DOMAIN intent.displays
    IN  /\ shown' = sh
        /\ IF entries = intent.displays THEN UNCHANGED <<intent, last>>
           ELSE /\ intent' = [generation |-> intent.generation + 1, displays |-> entries,
                              replacement |-> IF Replaces(sh, was, Demand(sh))
                                              THEN CHOOSE d \in Demand(sh) : TRUE ELSE NONE]
                /\ last' = [d \in Displays |-> IF d \in Demand(sh) THEN Activation(d) ELSE last[d]]

\* A change of a view, under the registry lock.
Change(sh) ==
    /\ changes < MaxChanges /\ changes' = changes + 1
    /\ Reconcile(sh)
    /\ UNCHANGED <<known, round, phase, outbox, wire, host>>

\* session_start_with_display_intent, with the displays asked for or without: then
\* the view shows the host's current display, once the PeerInfo is there.
Attach(v, ds) ==
    /\ v \notin DOMAIN shown
    /\ Change([w \in DOMAIN shown \cup {v} |->
                  IF w # v THEN shown[w] ELSE IF ds = NONE /\ known THEN {Primary} ELSE ds])
\* session_switch_display
SwitchDisplay(v, ds) ==
    /\ v \in DOMAIN shown
    /\ Change([shown EXCEPT ![v] = ds])
\* remove_session: the last view takes the session with it.
Detach(v) ==
    /\ v \in DOMAIN shown /\ DOMAIN shown # {v}
    /\ Change([w \in DOMAIN shown \ {v} |-> shown[w]])

-----------------------------------------------------------------------------
(* DisplayIntentOutbox *)

Cmd(kind, arg) == [kind |-> kind, arg |-> arg]
Command == [kind : {"Set"}, arg : SUBSET Displays]
           \cup [kind : {"Select", "Replace", "Refresh"}, arg : Displays]
ASSUME NoneIsNoCommand == NONE \notin Command

NewOutbox ==
    [generation |-> 0, desired |-> {}, admitted |-> NONE, selected |-> NONE,
     replaced |-> 0, replacement |-> NONE]

ObserveDefect(o) ==   \* a replacement of an older intent is kept
    IF intent.generation <= o.generation THEN o
    ELSE [o EXCEPT !.generation = intent.generation, !.desired = DOMAIN intent.displays]
Observe(o) ==
    IF intent.generation <= o.generation THEN o
    ELSE [o EXCEPT !.generation = intent.generation, !.replacement = NONE,
                   !.desired = DOMAIN intent.displays]

Replace(o) ==
    IF o.generation # intent.generation \/ o.replaced = o.generation
         \/ o.desired # {intent.replacement} THEN o
    ELSE [o EXCEPT !.replaced = o.generation,
                   !.replacement = Cmd("Replace", intent.replacement)]

\* reconcile_display_intent
Reconciled(o) ==
    IF phase = "on" /\ intent.replacement # NONE THEN Replace(Observe(o)) ELSE Observe(o)

PendingDefect(o) ==   \* an empty set is nothing to send
    IF o.generation = 0 \/ o.desired = {} THEN NONE
    ELSE IF o.admitted # o.desired THEN Cmd("Set", o.desired)
    ELSE IF o.replacement # NONE THEN o.replacement
    ELSE IF \E d \in Displays : o.desired = {d} /\ o.selected # d
         THEN Cmd("Select", CHOOSE d \in o.desired : TRUE)
    ELSE NONE
Pending(o) ==
    IF o.generation = 0 THEN NONE
    ELSE IF o.admitted # o.desired THEN Cmd("Set", o.desired)
    ELSE IF o.replacement # NONE THEN o.replacement
    ELSE IF \E d \in Displays : o.desired = {d} /\ o.selected # d
         THEN Cmd("Select", CHOOSE d \in o.desired : TRUE)
    ELSE NONE

Admit(o, c) ==
    CASE c.kind = "Set" ->
            [o EXCEPT !.admitted = c.arg,
                      !.selected = IF Cardinality(c.arg) = 1 THEN @ ELSE NONE]
      [] c.kind = "Select" -> [o EXCEPT !.selected = c.arg]
      [] c.kind = "Replace" ->
            [o EXCEPT !.selected = c.arg,
                      !.replacement = IF RefreshReplacement THEN Cmd("Refresh", c.arg) ELSE NONE]
      [] c.kind = "Refresh" -> [o EXCEPT !.replacement = NONE]

-----------------------------------------------------------------------------
(* The connection loop *)

\* io_loop starts with an outbox of its own and the intent there is.
Connect ==
    /\ phase = "off" /\ round < MaxRounds
    /\ round' = round + 1 /\ phase' = "starting"
    /\ outbox' = Observe(NewOutbox)
    /\ wire' = <<>> /\ subs' = {Primary} /\ display_idx' = Primary
    /\ UNCHANGED <<ui, known>>

\* PeerInfo arrives: views that have no displays yet show the current one.
Login ==
    /\ phase = "starting"
    /\ phase' = "on" /\ known' = TRUE
    /\ Reconcile([v \in DOMAIN shown |-> IF shown[v] = NONE THEN {Primary} ELSE shown[v]])
    /\ UNCHANGED <<changes, round, outbox, wire, host>>

Disconnect ==
    /\ phase # "off" /\ round < MaxRounds
    /\ phase' = "off"
    /\ UNCHANGED <<ui, known, round, outbox, wire, host>>

\* One attempt of sync_display_intent_to_peer, on every wakeup and status tick: it
\* reads the latest intent, and admits a command only when the writer took it.
\* Nothing but this loop touches the outbox, so changes of the intent between the
\* read and the send commute with it.
SyncDefect ==   \* tries once per intent, the tick does not try again
    LET o == Reconciled(outbox)
        c == Pending(o)
    IN  /\ phase = "on" /\ o # outbox
        /\ IF c # NONE /\ Len(wire) < MaxQueue
           THEN wire' = Append(wire, c) /\ outbox' = Admit(o, c)
           ELSE outbox' = o /\ UNCHANGED wire
        /\ UNCHANGED <<ui, known, round, phase, host>>
Sync ==
    LET o == Reconciled(outbox)
        c == Pending(o)
    IN  /\ phase = "on"
        /\ IF c # NONE /\ Len(wire) < MaxQueue
           THEN wire' = Append(wire, c) /\ outbox' = Admit(o, c)
           ELSE outbox' = o /\ UNCHANGED wire
        /\ UNCHANGED <<ui, known, round, phase, host>>

-----------------------------------------------------------------------------
(* The host's connection *)

\* validated_request: displays the host does not have are left out; if none is
\* left, the request is ignored.
ValidDefect(ds) == ds   \* takes indexes as they come
Valid(ds) == ds \cap Available
CaptureDisplays(ds) ==
    /\ subs' = IF ds # {} /\ Valid(ds) = {} THEN subs ELSE Valid(ds)
    /\ UNCHANGED display_idx

\* handle_switch_display and switch_display_to
SwitchTo(d) ==
    IF d = display_idx \/ d \notin Available THEN UNCHANGED host
    ELSE subs' = subs \cup {d} /\ display_idx' = d

Receive ==
    /\ phase = "on" /\ wire # <<>>
    /\ wire' = Tail(wire)
    /\ LET c == Head(wire)
       IN  \/ c.kind = "Set" /\ CaptureDisplays(c.arg)
           \/ c.kind \in {"Select", "Replace"} /\ SwitchTo(c.arg)
           \/ c.kind = "Refresh" /\ UNCHANGED host
    /\ UNCHANGED <<ui, known, round, phase, outbox>>

-----------------------------------------------------------------------------

Init ==
    /\ shown = [v \in {} |-> NONE] /\ changes = 0
    /\ intent = [generation |-> 0, displays |-> [d \in {} |-> 0], replacement |-> NONE]
    /\ last = [d \in Displays |-> 0]
    /\ known = FALSE /\ round = 0 /\ phase = "off"
    /\ outbox = NewOutbox /\ wire = <<>>
    /\ subs = {} /\ display_idx = Primary

Next ==
    \/ \E v \in Views, ds \in {NONE} \cup SUBSET Displays : Attach(v, ds)
    \/ \E v \in Views, ds \in SUBSET Displays : SwitchDisplay(v, ds)
    \/ \E v \in Views : Detach(v)
    \/ Connect \/ Login \/ Disconnect \/ Sync \/ Receive

Spec == Init /\ [][Next]_vars

\* The status timer of the loop keeps ticking and the host keeps reading.
FairSpec == Spec /\ WF_vars(Sync) /\ WF_vars(Receive)

-----------------------------------------------------------------------------
(* Properties *)

\* The viewer's and the host's state have the types of the fields they stand for.
TypeOK ==
    /\ DOMAIN shown \subseteq Views /\ \A v \in DOMAIN shown : shown[v] \in {NONE} \cup SUBSET Displays
    /\ intent.generation \in Nat /\ DOMAIN intent.displays \subseteq Displays
    /\ intent.replacement \in Displays \cup {NONE}
    /\ \A d \in DOMAIN intent.displays :
        intent.displays[d].generation = last[d] /\ intent.displays[d].view_count \in Nat \ {0}
    /\ outbox.generation \in 0 .. intent.generation
    /\ outbox.desired \in SUBSET Displays /\ outbox.admitted \in {NONE} \cup SUBSET Displays
    /\ outbox.selected \in Displays \cup {NONE} /\ outbox.replacement \in Command \cup {NONE}
    /\ \A i \in DOMAIN wire : wire[i] \in Command
    /\ subs \subseteq Available /\ display_idx \in Available

\* What the viewer asked for, as far as the host can give it.
Wanted == Valid(DOMAIN intent.displays)
InLine ==
    /\ DOMAIN intent.displays = {} \/ Wanted # {} => subs = Wanted
    /\ Cardinality(DOMAIN intent.displays) = 1 /\ Wanted # {} => display_idx \in Wanted

\* When the outbox has nothing left to send and the host has read everything, the
\* host captures what the views show now, and a single display is the current one:
\* no refused send, overtaken intent or reconnection leaves a difference behind.
Settled ==
    phase = "on" /\ intent.generation > 0 /\ wire = <<>> /\ Pending(Reconciled(outbox)) = NONE
        => InLine

\* A select or replace command finds the host already subscribed to its display
\* alone, so it never starts a capture that the set did not ask for.
SwitchAddsNothing ==
    [][wire # <<>> /\ wire' = Tail(wire) /\ phase = "on" /\ Head(wire).kind \in {"Select", "Replace"}
        => subs' = subs]_vars

\* Once views and connections stop changing, the host comes in line and stays so:
\* refused sends are retried and nothing is waited for that does not happen.
Converges == <>[](phase = "on" /\ intent.generation > 0 => InLine)
=============================================================================
