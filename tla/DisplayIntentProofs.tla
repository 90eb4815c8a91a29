------------------------ MODULE DisplayIntentProofs -------------------------
(***************************************************************************)
(* Proofs about DisplayIntent, for any displays, views, rounds and length  *)
(* of the writer's queue.  The argument is about what the host will have   *)
(* once it has read the wire: the displays the outbox last admitted, and   *)
(* the one it last selected.                                               *)
(***************************************************************************)
EXTENDS DisplayIntent, SequenceTheorems, FiniteSetTheorems, TLAPS

-----------------------------------------------------------------------------
(* The inductive invariant *)

Outbox == [generation : Nat, desired : SUBSET Displays, admitted : {NONE} \cup SUBSET Displays,
           selected : Displays \cup {NONE}, replaced : Nat, replacement : Command \cup {NONE}]

\* The views and their aggregate.
UiTypes ==
    /\ DOMAIN shown \subseteq Views /\ IsFiniteSet(DOMAIN shown)
    /\ \A v \in DOMAIN shown : shown[v] \in {NONE} \cup SUBSET Displays
    /\ intent.generation \in Nat /\ DOMAIN intent.displays \subseteq Displays
    /\ intent.replacement \in Displays \cup {NONE}
    /\ last \in [Displays -> Nat]
    /\ \A d \in DOMAIN intent.displays :
        intent.displays[d].generation = last[d] /\ intent.displays[d].view_count \in Nat \ {0}

LinkTypes ==
    /\ outbox \in Outbox /\ wire \in Seq(Command)
    /\ subs \subseteq Available /\ display_idx \in Available

\* The outbox is not ahead of the intent, wants what the intent wants when it has its
\* generation, and holds a replacement only of the single display it wants.
Outboxed ==
    /\ outbox.generation <= intent.generation
    /\ outbox.generation = intent.generation => outbox.desired = DOMAIN intent.displays
    /\ outbox.replacement # NONE =>
        /\ outbox.replacement.kind \in {"Replace", "Refresh"}
        /\ outbox.desired = {outbox.replacement.arg}

\* Command c leaves, or finds, the host subscribed to ds as far as it has them.
Leaves(c, ds) == IF c.kind = "Set" THEN c.arg = ds ELSE ds = {c.arg}
Has(s, ds) == ds = {} \/ Valid(ds) # {} => s = Valid(ds)

\* Every command but Set comes after one that asked for its display alone; the
\* last one asked for what the outbox has admitted.
Chain ==
    /\ \A i \in 1 .. Len(wire) - 1 :
        wire[i + 1].kind # "Set" => Leaves(wire[i], {wire[i + 1].arg})
    /\ wire # <<>> /\ wire[1].kind # "Set" => Has(subs, {wire[1].arg})
    /\ wire # <<>> => Leaves(wire[Len(wire)], outbox.admitted)
    /\ wire = <<>> /\ outbox.admitted # NONE => Has(subs, outbox.admitted)

\* The last switch on the wire is to the display the outbox selected; without one,
\* the host is there already.
Switches(c) == c.kind \in {"Select", "Replace"}
Selected ==
    outbox.selected # NONE =>
        /\ \A i \in 1 .. Len(wire) :
            Switches(wire[i]) /\ (\A j \in i + 1 .. Len(wire) : ~Switches(wire[j]))
                => wire[i].arg = outbox.selected
        /\ (\A i \in 1 .. Len(wire) : ~Switches(wire[i])) /\ outbox.selected \in Available
                => display_idx = outbox.selected

Inv == UiTypes /\ LinkTypes /\ Outboxed /\ Chain /\ Selected

-----------------------------------------------------------------------------
(* The views and their aggregate *)

\* A registry of attached views.
Registry(sh) ==
    /\ DOMAIN sh \subseteq Views /\ IsFiniteSet(DOMAIN sh)
    /\ \A v \in DOMAIN sh : sh[v] \in {NONE} \cup SUBSET Displays

\* The views show displays.
LEMMA DemandType ==
    ASSUME NEW sh, Registry(sh)
    PROVE  Demand(sh) \subseteq Displays
  BY DisplayConstants DEF Registry, Demand

\* A display somebody shows is shown by at least one view.
LEMMA DemandCounted ==
    ASSUME NEW sh, Registry(sh), NEW d \in Demand(sh)
    PROVE  ViewCount(sh, d) \in Nat \ {0}
<1> DEFINE S == {v \in DOMAIN sh : sh[v] # NONE /\ d \in sh[v]}
<1>1. S \in SUBSET DOMAIN sh /\ S # {}
  BY DEF Demand
<1>2. IsFiniteSet(S)
  BY <1>1, FS_Subset DEF Registry
<1>3. Cardinality(S) \in Nat /\ Cardinality(S) # 0
  BY <1>1, <1>2, FS_CardinalityType, FS_EmptySet
<1> QED  BY <1>3 DEF ViewCount

\* Activation numbers are natural.
LEMMA ActivationType ==
    ASSUME UiTypes, NEW d \in Displays
    PROVE  Activation(d) \in Nat
  BY DEF UiTypes, Activation

\* The reducer keeps the types; it leaves the intent alone or starts a new one.
LEMMA ReconcileOutcome ==
    ASSUME UiTypes, NEW sh, Registry(sh), Reconcile(sh)
    PROVE  UiTypes' /\ (intent' = intent \/ intent'.generation = intent.generation + 1)
<1> DEFINE entries == [d \in Demand(sh) |->
                          [generation |-> Activation(d), view_count |-> ViewCount(sh, d)]]
           chosen == IF Replaces(sh, DOMAIN intent.displays, Demand(sh))
                     THEN CHOOSE d \in Demand(sh) : TRUE ELSE NONE
<1>1. shown' = sh
  BY DEF Reconcile
<1>2. CASE entries = intent.displays
  <2>1. UNCHANGED <<intent, last>>
    BY <1>2 DEF Reconcile
  <2> QED  BY <1>1, <2>1 DEF UiTypes, Registry
<1>3. CASE entries # intent.displays
  <2>1. /\ intent' = [generation |-> intent.generation + 1, displays |-> entries, replacement |-> chosen]
        /\ last' = [d \in Displays |-> IF d \in Demand(sh) THEN Activation(d) ELSE last[d]]
    BY <1>3 DEF Reconcile
  <2>2. chosen \in Displays \cup {NONE}
    <3>1. CASE Replaces(sh, DOMAIN intent.displays, Demand(sh))
      <4>1. \E d \in Demand(sh) : TRUE
        BY <3>1 DEF Replaces
      <4>2. chosen \in Demand(sh)
        BY <3>1, <4>1
      <4> QED  BY <4>2, DemandType
    <3>2. CASE ~Replaces(sh, DOMAIN intent.displays, Demand(sh))
      BY <3>2
    <3> QED  BY <3>1, <3>2
  <2>3. \A d \in Demand(sh) : /\ d \in Displays /\ last'[d] = Activation(d)
                              /\ entries[d].generation = Activation(d)
                              /\ entries[d].view_count \in Nat \ {0}
    BY <2>1, DemandType, DemandCounted
  <2>4. last' \in [Displays -> Nat]
    BY <2>1, ActivationType DEF UiTypes
  <2>5. DOMAIN entries = Demand(sh)
    OBVIOUS
  <2> HIDE DEF entries, chosen
  <2>6. /\ intent'.generation = intent.generation + 1 /\ intent'.displays = entries
        /\ intent'.replacement = chosen
    BY <2>1
  <2>7. intent'.generation \in Nat
    BY <2>6 DEF UiTypes
  <2> QED  BY <1>1, <2>2, <2>3, <2>4, <2>5, <2>6, <2>7, DemandType DEF UiTypes, Registry
<1> QED  BY <1>2, <1>3

\* The registry of views after each of their operations.
LEMMA AttachRegistry ==
    ASSUME UiTypes, NEW v \in Views, NEW ds \in {NONE} \cup SUBSET Displays
    PROVE  Registry([w \in DOMAIN shown \cup {v} |->
                        IF w # v THEN shown[w] ELSE IF ds = NONE /\ known THEN {Primary} ELSE ds])
<1>1. IsFiniteSet(DOMAIN shown \cup {v})
  BY FS_AddElement DEF UiTypes
<1> QED  BY <1>1, DisplayConstants DEF UiTypes, Registry

\* A view that switches leaves a registry of views.
LEMMA SwitchRegistry ==
    ASSUME UiTypes, NEW v \in DOMAIN shown, NEW ds \in SUBSET Displays
    PROVE  Registry([shown EXCEPT ![v] = ds])
  BY DEF UiTypes, Registry

\* So does one that goes.
LEMMA DetachRegistry ==
    ASSUME UiTypes, NEW v
    PROVE  Registry([w \in DOMAIN shown \ {v} |-> shown[w]])
<1>1. IsFiniteSet(DOMAIN shown \ {v})
  BY FS_RemoveElement DEF UiTypes
<1> QED  BY <1>1 DEF UiTypes, Registry

\* So does the first login, which gives waiting views the primary display.
LEMMA LoginRegistry ==
    ASSUME UiTypes
    PROVE  Registry([v \in DOMAIN shown |-> IF shown[v] = NONE THEN {Primary} ELSE shown[v]])
  BY DisplayConstants DEF UiTypes, Registry

\* A new intent disturbs neither the outbox nor the host.
LEMMA UiStep ==
    ASSUME Inv, NEW sh, Registry(sh), Reconcile(sh), UNCHANGED <<outbox, wire, host>>
    PROVE  Inv'
<1>1. UiTypes' /\ (intent' = intent \/ intent'.generation = intent.generation + 1)
  BY ReconcileOutcome DEF Inv
<1>2. LinkTypes' /\ Chain' /\ Selected'
  BY DEF Inv, LinkTypes, Chain, Selected, host, Leaves, Has, Valid
<1>3. outbox.generation \in Nat /\ intent.generation \in Nat
  BY DEF Inv, UiTypes, LinkTypes, Outbox
<1>4. Outboxed'
  BY <1>1, <1>3 DEF Inv, Outboxed
<1> QED  BY <1>1, <1>2, <1>4 DEF Inv

-----------------------------------------------------------------------------
(* The outbox *)

OutboxOK(o) ==
    /\ o \in Outbox
    /\ o.generation <= intent.generation
    /\ o.generation = intent.generation => o.desired = DOMAIN intent.displays
    /\ o.replacement # NONE =>
        /\ o.replacement.kind \in {"Replace", "Refresh"}
        /\ o.desired = {o.replacement.arg}

\* The invariant gives the facts about the outbox.
LEMMA OutboxOKHolds ==
    ASSUME Inv
    PROVE  OutboxOK(outbox)
  BY DEF Inv, LinkTypes, Outboxed, OutboxOK

\* Commands, their kinds and their arguments.
LEMMA CommandTypes ==
    /\ \A ds \in SUBSET Displays : /\ Cmd("Set", ds) \in Command /\ Cmd("Set", ds).kind = "Set"
                                   /\ Cmd("Set", ds).arg = ds
    /\ \A d \in Displays, k \in {"Select", "Replace", "Refresh"} :
        Cmd(k, d) \in Command /\ Cmd(k, d).kind = k /\ Cmd(k, d).arg = d
    /\ \A c \in Command : \/ c.kind = "Set" /\ c.arg \in SUBSET Displays
                          \/ c.kind \in {"Select", "Replace", "Refresh"} /\ c.arg \in Displays
    /\ \A c \in Command : c # NONE
  BY NoneIsNoCommand DEF Cmd, Command

\* One field of an outbox changed.
LEMMA SetGeneration ==
    ASSUME NEW o \in Outbox, NEW g \in Nat
    PROVE  LET p == [o EXCEPT !.generation = g]
           IN  /\ p \in Outbox /\ p.generation = g /\ p.desired = o.desired /\ p.admitted = o.admitted
               /\ p.selected = o.selected /\ p.replaced = o.replaced /\ p.replacement = o.replacement
  BY DEF Outbox
\* The same of its desired set,
LEMMA SetDesired ==
    ASSUME NEW o \in Outbox, NEW ds \in SUBSET Displays
    PROVE  LET p == [o EXCEPT !.desired = ds]
           IN  /\ p \in Outbox /\ p.generation = o.generation /\ p.desired = ds /\ p.admitted = o.admitted
               /\ p.selected = o.selected /\ p.replaced = o.replaced /\ p.replacement = o.replacement
  BY DEF Outbox
\* of the set it has admitted,
LEMMA SetAdmitted ==
    ASSUME NEW o \in Outbox, NEW ds \in SUBSET Displays
    PROVE  LET p == [o EXCEPT !.admitted = ds]
           IN  /\ p \in Outbox /\ p.generation = o.generation /\ p.desired = o.desired /\ p.admitted = ds
               /\ p.selected = o.selected /\ p.replaced = o.replaced /\ p.replacement = o.replacement
  BY DEF Outbox
\* of the display it selected,
LEMMA SetSelected ==
    ASSUME NEW o \in Outbox, NEW d \in Displays \cup {NONE}
    PROVE  LET p == [o EXCEPT !.selected = d]
           IN  /\ p \in Outbox /\ p.generation = o.generation /\ p.desired = o.desired /\ p.admitted = o.admitted
               /\ p.selected = d /\ p.replaced = o.replaced /\ p.replacement = o.replacement
  BY DEF Outbox
\* of the generation it replaced,
LEMMA SetReplaced ==
    ASSUME NEW o \in Outbox, NEW g \in Nat
    PROVE  LET p == [o EXCEPT !.replaced = g]
           IN  /\ p \in Outbox /\ p.generation = o.generation /\ p.desired = o.desired /\ p.admitted = o.admitted
               /\ p.selected = o.selected /\ p.replaced = g /\ p.replacement = o.replacement
  BY DEF Outbox
\* and of the replacement it holds.
LEMMA SetReplacement ==
    ASSUME NEW o \in Outbox, NEW c \in Command \cup {NONE}
    PROVE  LET p == [o EXCEPT !.replacement = c]
           IN  /\ p \in Outbox /\ p.generation = o.generation /\ p.desired = o.desired /\ p.admitted = o.admitted
               /\ p.selected = o.selected /\ p.replaced = o.replaced /\ p.replacement = c
  BY DEF Outbox

\* p is o brought up to the latest intent: what was admitted and selected stands.
Current(o, p) ==
    /\ OutboxOK(p) /\ p.generation = intent.generation
    /\ p.admitted = o.admitted /\ p.selected = o.selected

\* observe brings the outbox to the intent's generation.
LEMMA ObserveOutcome ==
    ASSUME UiTypes, NEW o, OutboxOK(o)
    PROVE  Current(o, Observe(o))
<1>1. /\ o \in Outbox /\ o.generation \in Nat /\ intent.generation \in Nat
      /\ DOMAIN intent.displays \in SUBSET Displays
  BY DEF UiTypes, OutboxOK, Outbox
<1>2. CASE intent.generation <= o.generation
  <2>1. Observe(o) = o
    BY <1>2 DEF Observe
  <2>2. o.generation = intent.generation
    BY <1>1, <1>2 DEF OutboxOK
  <2> QED  BY <2>1, <2>2 DEF Current
<1>3. CASE ~(intent.generation <= o.generation)
  <2> DEFINE a == [o EXCEPT !.generation = intent.generation]
             b == [a EXCEPT !.replacement = NONE]
             c == [b EXCEPT !.desired = DOMAIN intent.displays]
  <2>1. Observe(o) = c
    BY <1>3 DEF Observe
  <2>2. a \in Outbox /\ a.generation = intent.generation /\ a.admitted = o.admitted /\ a.selected = o.selected
    BY <1>1, SetGeneration
  <2> HIDE DEF a
  <2>3. /\ b \in Outbox /\ b.generation = intent.generation /\ b.admitted = o.admitted
        /\ b.selected = o.selected /\ b.replacement = NONE
    BY <2>2, SetReplacement
  <2> HIDE DEF b
  <2>4. /\ c \in Outbox /\ c.generation = intent.generation /\ c.admitted = o.admitted
        /\ c.selected = o.selected /\ c.replacement = NONE /\ c.desired = DOMAIN intent.displays
    BY <1>1, <2>3, SetDesired
  <2> HIDE DEF c
  <2> QED  BY <1>1, <2>1, <2>4 DEF Current, OutboxOK
<1> QED  BY <1>2, <1>3

\* replace keeps it there.
LEMMA ReplaceOutcome ==
    ASSUME UiTypes, NEW o, OutboxOK(o), o.generation = intent.generation, intent.replacement # NONE
    PROVE  Current(o, Replace(o))
<1>1. /\ o \in Outbox /\ intent.replacement \in Displays /\ o.generation \in Nat
  BY DEF UiTypes, OutboxOK, Outbox
<1>2. CASE Replace(o) = o
  BY <1>2 DEF Current
<1>3. CASE Replace(o) # o
  <2> DEFINE r == Cmd("Replace", intent.replacement)
             a == [o EXCEPT !.replaced = o.generation]
             b == [a EXCEPT !.replacement = r]
  <2>1. Replace(o) = b /\ o.desired = {intent.replacement}
    BY <1>3 DEF Replace
  <2>2. r \in Command /\ r.kind = "Replace" /\ r.arg = intent.replacement
    BY <1>1, CommandTypes
  <2>3. /\ a \in Outbox /\ a.generation = o.generation /\ a.admitted = o.admitted /\ a.selected = o.selected
        /\ a.desired = o.desired
    BY <1>1, SetReplaced
  <2> HIDE DEF a, r
  <2>4. /\ b \in Outbox /\ b.generation = o.generation /\ b.admitted = o.admitted
        /\ b.selected = o.selected /\ b.desired = o.desired /\ b.replacement = r
    BY <2>2, <2>3, SetReplacement
  <2> HIDE DEF b
  <2> QED  BY <2>1, <2>2, <2>4 DEF Current, OutboxOK
<1> QED  BY <1>2, <1>3

\* Hence so does the reconciliation of a pass.
LEMMA ReconciledOutcome ==
    ASSUME UiTypes, NEW o, OutboxOK(o)
    PROVE  Current(o, Reconciled(o))
<1>1. Current(o, Observe(o))
  BY ObserveOutcome
<1>2. intent.replacement # NONE => Current(Observe(o), Replace(Observe(o)))
  BY <1>1, ReplaceOutcome DEF Current
<1> QED  BY <1>1, <1>2 DEF Reconciled, Current

\* What the outbox offers next: the set it wants, or a command for the single
\* display it has admitted.
Offered(o, c) ==
    /\ c \in Command
    /\ IF c.kind = "Set" THEN c.arg = o.desired
       ELSE o.admitted = o.desired /\ o.desired = {c.arg}

\* What the outbox offers next is a command its state asks for.
LEMMA PendingOutcome ==
    ASSUME NEW o, OutboxOK(o), Pending(o) # NONE
    PROVE  Offered(o, Pending(o))
<1>1. o \in Outbox /\ o.desired \in SUBSET Displays /\ o.replacement \in Command \cup {NONE}
  BY DEF OutboxOK, Outbox
<1>2. CASE o.admitted # o.desired
  <2>1. Pending(o) = Cmd("Set", o.desired)
    BY <1>2 DEF Pending
  <2> QED  BY <1>1, <2>1, CommandTypes DEF Offered
<1>3. CASE o.admitted = o.desired /\ o.replacement # NONE
  <2>1. Pending(o) = o.replacement
    BY <1>3 DEF Pending
  <2> QED  BY <1>1, <1>3, <2>1 DEF Offered, OutboxOK
<1>4. CASE o.admitted = o.desired /\ o.replacement = NONE
  <2> DEFINE e == CHOOSE x \in o.desired : TRUE
  <2>1. \E d \in Displays : o.desired = {d}
    BY <1>4 DEF Pending
  <2>2. Pending(o) = Cmd("Select", e)
    BY <1>4 DEF Pending
  <2>3. e \in Displays /\ o.desired = {e}
    BY <2>1
  <2> HIDE DEF e
  <2>4. /\ Cmd("Select", e) \in Command /\ Cmd("Select", e).kind = "Select" /\ Cmd("Select", e).arg = e
    BY <2>3, CommandTypes
  <2> QED  BY <1>4, <2>2, <2>3, <2>4 DEF Offered
<1> QED  BY <1>2, <1>3, <1>4

\* Admitting an offered command.
Admitted(o, c, p) ==
    /\ OutboxOK(p)
    /\ Leaves(c, p.admitted) /\ p.admitted # NONE
    /\ IF Switches(c) THEN p.selected = c.arg ELSE p.selected \in {o.selected, NONE}

\* Admitting a command records exactly that command.
LEMMA AdmitOutcome ==
    ASSUME NEW o, OutboxOK(o), NEW c, Offered(o, c)
    PROVE  Admitted(o, c, Admit(o, c))
<1>1. o \in Outbox /\ c \in Command /\ o.selected \in Displays \cup {NONE} /\ o.desired \in SUBSET Displays
  BY DEF OutboxOK, Offered, Outbox
<1>2. o.desired # NONE
  BY <1>1, DisplayConstants
<1>3. CASE c.kind = "Set"
  <2> DEFINE s == IF Cardinality(c.arg) = 1 THEN o.selected ELSE NONE
             a == [o EXCEPT !.admitted = c.arg]
             b == [a EXCEPT !.selected = s]
  <2>1. Admit(o, c) = b
    BY <1>3 DEF Admit
  <2>2. s \in Displays \cup {NONE} /\ s \in {o.selected, NONE} /\ c.arg \in SUBSET Displays /\ c.arg = o.desired
    BY <1>1, <1>3 DEF Offered
  <2>3. /\ a \in Outbox /\ a.generation = o.generation /\ a.admitted = c.arg
        /\ a.desired = o.desired /\ a.replacement = o.replacement
    BY <1>1, <2>2, SetAdmitted
  <2> HIDE DEF a, s
  <2>4. /\ b \in Outbox /\ b.generation = o.generation /\ b.admitted = c.arg /\ b.selected = s
        /\ b.desired = o.desired /\ b.replacement = o.replacement
    BY <2>2, <2>3, SetSelected
  <2> HIDE DEF b
  <2> QED  BY <1>2, <1>3, <2>1, <2>2, <2>4 DEF Admitted, OutboxOK, Leaves, Switches
<1>4. CASE c.kind = "Select"
  <2> DEFINE b == [o EXCEPT !.selected = c.arg]
  <2>1. Admit(o, c) = b
    BY <1>4 DEF Admit
  <2>2. c.arg \in Displays /\ o.admitted = o.desired /\ o.desired = {c.arg}
    BY <1>1, <1>4, CommandTypes DEF Offered
  <2>3. /\ b \in Outbox /\ b.generation = o.generation /\ b.admitted = o.admitted /\ b.selected = c.arg
        /\ b.desired = o.desired /\ b.replacement = o.replacement
    BY <1>1, <2>2, SetSelected
  <2> HIDE DEF b
  <2> QED  BY <1>2, <1>4, <2>1, <2>2, <2>3 DEF Admitted, OutboxOK, Leaves, Switches
<1>5. CASE c.kind = "Replace"
  <2> DEFINE r == IF RefreshReplacement THEN Cmd("Refresh", c.arg) ELSE NONE
             a == [o EXCEPT !.selected = c.arg]
             b == [a EXCEPT !.replacement = r]
  <2>1. Admit(o, c) = b
    BY <1>5 DEF Admit
  <2>2. c.arg \in Displays /\ o.admitted = o.desired /\ o.desired = {c.arg}
    BY <1>1, <1>5, CommandTypes DEF Offered
  <2>3. r \in Command \cup {NONE} /\ (r # NONE => r.kind = "Refresh" /\ r.arg = c.arg)
    BY <2>2, CommandTypes
  <2>4. /\ a \in Outbox /\ a.generation = o.generation /\ a.admitted = o.admitted /\ a.selected = c.arg
        /\ a.desired = o.desired
    BY <1>1, <2>2, SetSelected
  <2> HIDE DEF a, r
  <2>5. /\ b \in Outbox /\ b.generation = o.generation /\ b.admitted = o.admitted /\ b.selected = c.arg
        /\ b.desired = o.desired /\ b.replacement = r
    BY <2>3, <2>4, SetReplacement
  <2> HIDE DEF b
  <2> QED  BY <1>2, <1>5, <2>1, <2>2, <2>3, <2>5 DEF Admitted, OutboxOK, Leaves, Switches
<1>6. CASE c.kind = "Refresh"
  <2> DEFINE b == [o EXCEPT !.replacement = NONE]
  <2>1. Admit(o, c) = b
    BY <1>6 DEF Admit
  <2>2. o.admitted = o.desired /\ o.desired = {c.arg}
    BY <1>6 DEF Offered
  <2>3. /\ b \in Outbox /\ b.generation = o.generation /\ b.admitted = o.admitted /\ b.selected = o.selected
        /\ b.desired = o.desired /\ b.replacement = NONE
    BY <1>1, SetReplacement
  <2> HIDE DEF b
  <2> QED  BY <1>2, <1>6, <2>1, <2>2, <2>3 DEF Admitted, OutboxOK, Leaves, Switches
<1> QED  BY <1>1, <1>3, <1>4, <1>5, <1>6, CommandTypes

-----------------------------------------------------------------------------
(* The wire *)

\* The wire is a sequence of commands.
LEMMA WireTypes ==
    ASSUME LinkTypes
    PROVE  Len(wire) \in Nat /\ \A i \in 1 .. Len(wire) : wire[i] \in Command
  BY LenProperties, ElementOfSeq DEF LinkTypes

\* The loop sends command c, having admitted it.
LEMMA SendStep ==
    ASSUME Inv, NEW o, OutboxOK(o), o.admitted = outbox.admitted, o.selected = outbox.selected,
           NEW c, Offered(o, c), Admitted(o, c, outbox'), wire' = Append(wire, c), UNCHANGED <<intent, host>>
    PROVE  LinkTypes' /\ Outboxed' /\ Chain' /\ Selected'
<1> DEFINE n == Len(wire)
<1>1. n \in Nat /\ \A i \in 1 .. n : wire[i] \in Command
  BY WireTypes DEF Inv
<1>2. c \in Command /\ outbox' \in Outbox
  BY DEF Offered, Admitted, OutboxOK
<1>3. /\ wire' \in Seq(Command) /\ Len(wire') = n + 1 /\ wire' # <<>>
      /\ \A i \in 1 .. n : wire'[i] = wire[i]
      /\ wire'[n + 1] = c
  BY <1>2, AppendProperties DEF Inv, LinkTypes
<1>4. LinkTypes'
  BY <1>2, <1>3 DEF Inv, LinkTypes, host
<1>5. Outboxed'
  BY DEF Admitted, OutboxOK, Outboxed
<1>6. wire = <<>> <=> n = 0
  BY LenProperties, EmptySeq DEF Inv, LinkTypes
<1> HIDE DEF n
<1>7. Chain'
  <2>1. ASSUME NEW i \in 1 .. n, wire'[i + 1].kind # "Set"
        PROVE  Leaves(wire'[i], {wire'[i + 1].arg})
    <3>1. CASE i = n
      <4>1. Leaves(wire[n], outbox.admitted) /\ wire'[i] = wire[n] /\ wire'[i + 1] = c
        BY <1>1, <1>3, <1>6, <3>1 DEF Inv, Chain, n
      <4>2. outbox.admitted = {c.arg}
        BY <2>1, <4>1 DEF Offered
      <4> QED  BY <4>1, <4>2
    <3>2. CASE i # n
      <4>1. i \in 1 .. n - 1 /\ i + 1 \in 1 .. n /\ wire'[i] = wire[i] /\ wire'[i + 1] = wire[i + 1]
        BY <1>1, <1>3, <3>2
      <4> QED  BY <2>1, <4>1 DEF Inv, Chain, n
    <3> QED  BY <3>1, <3>2
  <2>2. (wire[1].kind # "Set" => Has(subs, {wire[1].arg}))'
    <3>1. CASE n = 0
      <4>1. wire'[1] = c /\ wire = <<>>
        BY <1>3, <1>6, <3>1
      <4>2. c.kind # "Set" => outbox.admitted = {c.arg} /\ outbox.admitted # NONE
        BY <1>2, DisplayConstants, CommandTypes DEF Offered
      <4>3. c.kind # "Set" => Has(subs, {c.arg})
        BY <4>1, <4>2 DEF Inv, Chain
      <4> QED  BY <4>1, <4>3 DEF Has, host, Valid
    <3>2. CASE n # 0
      <4>1. wire'[1] = wire[1] /\ wire # <<>>
        BY <1>1, <1>3, <1>6, <3>2
      <4> QED  BY <4>1 DEF Inv, Chain, Has, host, Valid
    <3> QED  BY <3>1, <3>2
  <2>3. Leaves(wire'[Len(wire')], outbox'.admitted)
    BY <1>3 DEF Admitted
  <2>4. Len(wire') - 1 = n
    BY <1>1, <1>3
  <2> QED  BY <1>3, <2>1, <2>2, <2>3, <2>4 DEF Chain
<1>8. Selected'
  <2> SUFFICES ASSUME outbox'.selected # NONE
               PROVE  /\ \A i \in 1 .. n + 1 :
                           Switches(wire'[i]) /\ (\A j \in i + 1 .. n + 1 : ~Switches(wire'[j]))
                               => wire'[i].arg = outbox'.selected
                      /\ (\A i \in 1 .. n + 1 : ~Switches(wire'[i])) /\ outbox'.selected \in Available
                               => display_idx' = outbox'.selected
    BY <1>3 DEF Selected
  <2>1. CASE Switches(c)
    <3>1. outbox'.selected = c.arg
      BY <2>1 DEF Admitted
    <3>2. n + 1 \in 1 .. n + 1 /\ Switches(wire'[n + 1])
      BY <1>1, <1>3, <2>1
    <3>3. ASSUME NEW i \in 1 .. n + 1, \A j \in i + 1 .. n + 1 : ~Switches(wire'[j])
          PROVE  i = n + 1
      <4>1. i # n + 1 => n + 1 \in i + 1 .. n + 1
        BY <1>1
      <4> QED  BY <3>2, <3>3, <4>1
    <3> QED  BY <1>3, <3>1, <3>2, <3>3
  <2>2. CASE ~Switches(c)
    <3>1. outbox'.selected = outbox.selected /\ outbox.selected # NONE
      BY <2>2 DEF Admitted
    <3>2. /\ \A i \in 1 .. n :
                Switches(wire[i]) /\ (\A j \in i + 1 .. n : ~Switches(wire[j]))
                    => wire[i].arg = outbox.selected
          /\ (\A i \in 1 .. n : ~Switches(wire[i])) /\ outbox.selected \in Available
                    => display_idx = outbox.selected
      BY <3>1 DEF Inv, Selected, n
    <3>3. ASSUME NEW i \in 1 .. n + 1, Switches(wire'[i]), \A j \in i + 1 .. n + 1 : ~Switches(wire'[j])
          PROVE  wire'[i].arg = outbox'.selected
      <4>1. i \in 1 .. n /\ wire'[i] = wire[i]
        BY <1>1, <1>3, <2>2, <3>3
      <4>2. \A j \in i + 1 .. n : ~Switches(wire[j])
        BY <1>1, <1>3, <3>3, <4>1
      <4> QED  BY <3>1, <3>2, <3>3, <4>1, <4>2
    <3>4. ASSUME \A i \in 1 .. n + 1 : ~Switches(wire'[i]), outbox'.selected \in Available
          PROVE  display_idx' = outbox'.selected
      <4>1. \A i \in 1 .. n : ~Switches(wire[i])
        BY <1>1, <1>3, <3>4
      <4> QED  BY <3>1, <3>2, <3>4, <4>1 DEF host
    <3> QED  BY <3>3, <3>4
  <2> QED  BY <2>1, <2>2
<1> QED  BY <1>4, <1>5, <1>7, <1>8

\* A pass of the loop keeps the invariant, whether the writer takes the command or not.
LEMMA SyncStep ==
    ASSUME Inv, Sync
    PROVE  Inv'
<1> DEFINE o == Reconciled(outbox)
           c == Pending(o)
<1>1. Current(outbox, o)
  BY OutboxOKHolds, ReconciledOutcome DEF Inv
<1>2. UNCHANGED <<ui, host>> /\ UiTypes'
  BY DEF Sync, Inv, UiTypes, ui
<1>3. CASE c # NONE /\ Len(wire) < MaxQueue
  <2>1. wire' = Append(wire, c) /\ outbox' = Admit(o, c)
    BY <1>3 DEF Sync
  <2>2. OutboxOK(o) /\ Offered(o, c)
    BY <1>1, <1>3, PendingOutcome DEF Current
  <2> HIDE DEF o, c
  <2>3. Admitted(o, c, outbox')
    BY <2>1, <2>2, AdmitOutcome
  <2>4. o.admitted = outbox.admitted /\ o.selected = outbox.selected /\ UNCHANGED <<intent, host>>
    BY <1>1, <1>2 DEF Current, ui
  <2> QED  BY <1>2, <2>1, <2>2, <2>3, <2>4, SendStep DEF Inv
<1>4. CASE ~(c # NONE /\ Len(wire) < MaxQueue)
  <2>1. outbox' = o /\ wire' = wire
    BY <1>4 DEF Sync
  <2> HIDE DEF o, c
  <2>2. outbox'.admitted = outbox.admitted /\ outbox'.selected = outbox.selected /\ OutboxOK(o) /\ o \in Outbox
    BY <1>1, <2>1 DEF Current, OutboxOK
  <2>3. UNCHANGED <<intent, wire, subs, display_idx>>
    BY <1>2, <2>1 DEF ui, host
  <2>4. LinkTypes' /\ Outboxed'
    BY <2>1, <2>2, <2>3 DEF Inv, LinkTypes, Outboxed, OutboxOK
  <2>5. Chain' /\ Selected'
    BY <2>2, <2>3 DEF Inv, Chain, Selected, Has
  <2> QED  BY <1>2, <2>4, <2>5 DEF Inv
<1> QED  BY <1>3, <1>4

\* What the host does with the command at the head of the wire.
LEMMA HostReads ==
    ASSUME Inv, Receive
    PROVE  LET c == wire[1]
           IN  /\ c \in Command
               /\ c.kind # "Set" => subs' = subs
               /\ \A ds : Leaves(c, ds) => Has(subs', ds)
               /\ IF Switches(c) /\ c.arg \in Available THEN display_idx' = c.arg
                  ELSE display_idx' = display_idx
               /\ subs' \subseteq Available /\ display_idx' \in Available
<1> DEFINE c == wire[1]
<1>1. wire # <<>> /\ Head(wire) = c /\ c \in Command
  <2>1. wire # <<>> /\ wire \in Seq(Command)
    BY DEF Receive, Inv, LinkTypes
  <2> QED  BY <2>1, HeadTailProperties
<1>2. \/ c.kind = "Set" /\ CaptureDisplays(c.arg)
      \/ c.kind \in {"Select", "Replace"} /\ SwitchTo(c.arg)
      \/ c.kind = "Refresh" /\ UNCHANGED host
  BY <1>1 DEF Receive
<1>3. subs \subseteq Available /\ display_idx \in Available
  BY DEF Inv, LinkTypes
<1>4. c.kind # "Set" => Has(subs, {c.arg})
  BY <1>1 DEF Inv, Chain
<1> HIDE DEF c
<1>5. CASE c.kind = "Set"
  <2>1. /\ subs' = (IF c.arg # {} /\ Valid(c.arg) = {} THEN subs ELSE Valid(c.arg))
        /\ display_idx' = display_idx
    BY <1>2, <1>5 DEF CaptureDisplays
  <2>2. Has(subs', c.arg)
    BY <2>1 DEF Has, Valid
  <2>3. subs' \subseteq Available
    BY <1>3, <2>1 DEF Valid
  <2> QED  BY <1>1, <1>3, <1>5, <2>1, <2>2, <2>3 DEF Leaves, Switches, Has, Valid, c
<1>6. CASE c.kind # "Set"
  <2>1. subs' = subs
    <3>1. CASE UNCHANGED host
      BY <3>1 DEF host
    <3>2. CASE ~UNCHANGED host
      <4>1. c.arg \in Available /\ subs' = subs \cup {c.arg}
        BY <1>2, <1>6, <3>2 DEF SwitchTo
      <4>2. Valid({c.arg}) = {c.arg}
        BY <4>1 DEF Valid
      <4>3. subs = {c.arg}
        BY <1>4, <1>6, <4>2 DEF Has
      <4> QED  BY <4>1, <4>3
    <3> QED  BY <3>1, <3>2
  <2>2. IF Switches(c) /\ c.arg \in Available THEN display_idx' = c.arg
        ELSE display_idx' = display_idx
    BY <1>2, <1>6 DEF Switches, SwitchTo, host
  <2>3. Has(subs', {c.arg})
    BY <1>4, <1>6, <2>1 DEF Has, Valid
  <2> QED  BY <1>1, <1>3, <1>6, <2>1, <2>2, <2>3 DEF Leaves, Has, Valid, c
<1> QED  BY <1>5, <1>6

\* So does the host when it reads a command.
LEMMA ReceiveStep ==
    ASSUME Inv, Receive
    PROVE  Inv'
<1> DEFINE n == Len(wire)
           c == wire[1]
<1>1. UNCHANGED <<intent, outbox, last, shown>> /\ wire # <<>> /\ wire' = Tail(wire) /\ wire \in Seq(Command)
  BY DEF Receive, ui, Inv, LinkTypes
<1>2. UiTypes' /\ Outboxed'
  BY <1>1 DEF Inv, UiTypes, Outboxed
<1>3. n \in Nat /\ n # 0
  BY <1>1, LenProperties, EmptySeq
<1>4. /\ wire' \in Seq(Command) /\ Len(wire') = n - 1
      /\ \A i \in 1 .. n - 1 : wire'[i] = wire[i + 1]
      /\ wire' = <<>> <=> n = 1
  <2>1. /\ Tail(wire) \in Seq(Command) /\ Len(Tail(wire)) = n - 1
        /\ \A i \in 1 .. Len(Tail(wire)) : Tail(wire)[i] = wire[i + 1]
    BY <1>1, HeadTailProperties
  <2>2. Tail(wire) = <<>> <=> Len(Tail(wire)) = 0
    BY <2>1, LenProperties, EmptySeq
  <2> QED  BY <1>1, <1>3, <2>1, <2>2
<1>5. /\ \A ds : Leaves(c, ds) => Has(subs', ds)
      /\ IF Switches(c) /\ c.arg \in Available THEN display_idx' = c.arg
         ELSE display_idx' = display_idx
      /\ subs' \subseteq Available /\ display_idx' \in Available
  BY HostReads
<1>6. LinkTypes'
  BY <1>1, <1>4, <1>5 DEF Inv, LinkTypes
<1>7. Chain'
  <2>1. ASSUME NEW i \in 1 .. (n - 1) - 1, wire'[i + 1].kind # "Set"
        PROVE  Leaves(wire'[i], {wire'[i + 1].arg})
    <3>1. /\ i \in 1 .. n - 1 /\ i + 1 \in 1 .. n - 1
      BY <1>3
    <3>2. wire'[i] = wire[i + 1] /\ wire'[i + 1] = wire[(i + 1) + 1]
      BY <1>4, <3>1
    <3> QED  BY <2>1, <3>1, <3>2 DEF Inv, Chain
  <2>2. (wire # <<>> /\ wire[1].kind # "Set" => Has(subs, {wire[1].arg}))'
    <3>1. CASE n = 1
      BY <1>4, <3>1
    <3>2. CASE n # 1
      <4>1. 1 \in 1 .. n - 1 /\ 1 + 1 = 2
        BY <1>3, <3>2
      <4>2. wire'[1] = wire[2] /\ (wire[2].kind # "Set" => Leaves(c, {wire[2].arg}))
        BY <1>4, <4>1 DEF Inv, Chain
      <4>3. wire[2].kind # "Set" => Has(subs', {wire[2].arg})
        BY <1>5, <4>2
      <4> QED  BY <4>2, <4>3
    <3> QED  BY <3>1, <3>2
  <2>3. (wire # <<>> => Leaves(wire[Len(wire)], outbox.admitted))'
    <3>1. CASE n # 1
      <4>1. n - 1 \in 1 .. n - 1 /\ (n - 1) + 1 = n
        BY <1>3, <3>1
      <4>2. wire'[Len(wire')] = wire[n]
        BY <1>4, <4>1
      <4> QED  BY <1>1, <4>2 DEF Inv, Chain
    <3> QED  BY <1>4, <3>1
  <2>4. (wire = <<>> /\ outbox.admitted # NONE => Has(subs, outbox.admitted))'
    <3>1. n = 1 => Leaves(c, outbox.admitted)
      BY <1>1 DEF Inv, Chain
    <3> QED  BY <1>1, <1>4, <1>5, <3>1
  <2> HIDE DEF n, c
  <2> QED  BY <1>4, <2>1, <2>2, <2>3, <2>4 DEF Chain
<1>8. Selected'
  <2> SUFFICES ASSUME outbox.selected # NONE
               PROVE  /\ \A i \in 1 .. n - 1 :
                           Switches(wire'[i]) /\ (\A j \in i + 1 .. n - 1 : ~Switches(wire'[j]))
                               => wire'[i].arg = outbox.selected
                      /\ (\A i \in 1 .. n - 1 : ~Switches(wire'[i])) /\ outbox.selected \in Available
                               => display_idx' = outbox.selected
    BY <1>1, <1>4 DEF Selected
  <2>1. /\ \A i \in 1 .. n :
              Switches(wire[i]) /\ (\A j \in i + 1 .. n : ~Switches(wire[j]))
                  => wire[i].arg = outbox.selected
        /\ (\A i \in 1 .. n : ~Switches(wire[i])) /\ outbox.selected \in Available
                  => display_idx = outbox.selected
    BY DEF Inv, Selected
  <2> HIDE DEF n
  <2>2. ASSUME NEW i \in 1 .. n - 1, Switches(wire'[i]), \A j \in i + 1 .. n - 1 : ~Switches(wire'[j])
        PROVE  wire'[i].arg = outbox.selected
    <3>1. i + 1 \in 1 .. n /\ wire'[i] = wire[i + 1]
      BY <1>3, <1>4
    <3>2. ASSUME NEW j \in (i + 1) + 1 .. n
          PROVE  ~Switches(wire[j])
      <4>1. j - 1 \in i + 1 .. n - 1 /\ j - 1 \in 1 .. n - 1 /\ (j - 1) + 1 = j
        BY <1>3
      <4>2. wire'[j - 1] = wire[j]
        BY <1>4, <4>1
      <4> QED  BY <2>2, <4>1, <4>2
    <3> QED  BY <2>1, <2>2, <3>1, <3>2
  <2>3. ASSUME \A i \in 1 .. n - 1 : ~Switches(wire'[i]), outbox.selected \in Available
        PROVE  display_idx' = outbox.selected
    <3>1. \A j \in 2 .. n : ~Switches(wire[j])
      <4> TAKE j \in 2 .. n
      <4>1. j - 1 \in 1 .. n - 1 /\ (j - 1) + 1 = j
        BY <1>3
      <4>2. wire'[j - 1] = wire[j]
        BY <1>4, <4>1
      <4> QED  BY <2>3, <4>1, <4>2
    <3>2. 1 \in 1 .. n /\ 1 + 1 = 2 /\ 1 .. n = {1} \cup (2 .. n)
      BY <1>3
    <3>3. CASE Switches(c)
      <4>1. c.arg = outbox.selected
        BY <2>1, <3>1, <3>2, <3>3
      <4> QED  BY <1>5, <2>3, <3>3, <4>1
    <3>4. CASE ~Switches(c)
      BY <1>5, <2>1, <2>3, <3>1, <3>2, <3>4
    <3> QED  BY <3>3, <3>4
  <2> QED  BY <2>2, <2>3
<1> QED  BY <1>2, <1>6, <1>7, <1>8 DEF Inv

-----------------------------------------------------------------------------
(* The remaining steps, and the invariant *)

\* A new connection's outbox knows nothing of the host.
LEMMA NewOutboxOK ==
    ASSUME UiTypes, intent.generation = 0 => DOMAIN intent.displays = {}
    PROVE  OutboxOK(NewOutbox) /\ NewOutbox.admitted = NONE /\ NewOutbox.selected = NONE
<1>1. /\ NewOutbox \in Outbox /\ NewOutbox.generation = 0 /\ NewOutbox.desired = {}
      /\ NewOutbox.admitted = NONE /\ NewOutbox.selected = NONE /\ NewOutbox.replacement = NONE
  BY DEF NewOutbox, Outbox
<1> QED  BY <1>1 DEF OutboxOK, UiTypes

\* So does a new connection, with an empty wire.
LEMMA ConnectStep ==
    ASSUME Inv, intent.generation = 0 => DOMAIN intent.displays = {}, Connect
    PROVE  Inv'
<1>1. /\ outbox' = Observe(NewOutbox) /\ wire' = <<>> /\ subs' = {Primary} /\ display_idx' = Primary
      /\ UNCHANGED <<shown, intent, last>>
  BY DEF Connect, ui
<1>2. Current(NewOutbox, outbox') /\ outbox'.admitted = NONE /\ outbox'.selected = NONE
  BY <1>1, NewOutboxOK, ObserveOutcome DEF Inv, Current
<1>3. UiTypes' /\ Outboxed'
  BY <1>1, <1>2 DEF Inv, UiTypes, Outboxed, Current, OutboxOK
<1>4. wire' \in Seq(Command) /\ Len(wire') = 0
  BY <1>1
<1>5. LinkTypes'
  BY <1>1, <1>2, <1>4, DisplayConstants DEF LinkTypes, Current, OutboxOK
<1>6. Chain' /\ Selected'
  BY <1>1, <1>2, <1>4 DEF Chain, Selected
<1> QED  BY <1>3, <1>5, <1>6 DEF Inv

\* Without an intent there is no demand; with the invariant, inductive.
FirstIntent == intent.generation = 0 => DOMAIN intent.displays = {}
IInv == Inv /\ FirstIntent

\* An intent that was never made has no displays.
LEMMA FirstIntentStep ==
    ASSUME IInv, [Next]_vars
    PROVE  FirstIntent'
<1>1. intent.generation \in Nat
  BY DEF IInv, Inv, UiTypes
<1>2. intent' = intent \/ intent'.generation = intent.generation + 1
  <2>1. ASSUME NEW sh, Reconcile(sh)
        PROVE  intent' = intent \/ intent'.generation = intent.generation + 1
    BY <2>1 DEF Reconcile
  <2>2. (\E sh : Reconcile(sh)) \/ intent' = intent
    BY DEF Next, Attach, SwitchDisplay, Detach, Change, Login, Connect, Disconnect, Sync,
           Receive, ui, vars
  <2> QED  BY <2>1, <2>2
<1> QED  BY <1>1, <1>2 DEF IInv, FirstIntent

\* The invariant holds at the start.
LEMMA InitInv == Init => IInv
<1> SUFFICES ASSUME Init PROVE IInv
  OBVIOUS
<1>1. UiTypes /\ FirstIntent
  <2>1. DOMAIN shown = {} /\ DOMAIN intent.displays = {} /\ intent.generation = 0 /\ intent.replacement = NONE
    BY DEF Init
  <2>2. IsFiniteSet({})
    BY FS_EmptySet
  <2>3. last \in [Displays -> Nat]
    BY DEF Init
  <2> QED  BY <2>1, <2>2, <2>3 DEF UiTypes, FirstIntent
<1>2. OutboxOK(outbox) /\ outbox.admitted = NONE /\ outbox.selected = NONE
  BY <1>1, NewOutboxOK DEF Init, FirstIntent
<1>3. wire = <<>> /\ wire \in Seq(Command) /\ Len(wire) = 0 /\ subs = {} /\ display_idx = Primary
  BY DEF Init
<1>4. LinkTypes /\ Outboxed
  BY <1>2, <1>3, DisplayConstants DEF LinkTypes, Outboxed, OutboxOK
<1>5. Chain /\ Selected
  BY <1>2, <1>3 DEF Chain, Selected
<1> QED  BY <1>1, <1>4, <1>5 DEF IInv, Inv

\* Every step keeps the invariant.
LEMMA StepInv == IInv /\ [Next]_vars => IInv'
<1> SUFFICES ASSUME IInv, [Next]_vars PROVE Inv'
  BY FirstIntentStep DEF IInv
<1>1. Inv /\ UiTypes
  BY DEF IInv, Inv
<1>2. ASSUME NEW v \in Views, NEW ds \in {NONE} \cup SUBSET Displays, Attach(v, ds)
      PROVE  Inv'
  <2> DEFINE sh == [w \in DOMAIN shown \cup {v} |->
                      IF w # v THEN shown[w] ELSE IF ds = NONE /\ known THEN {Primary} ELSE ds]
  <2>1. Registry(sh)
    BY <1>1, AttachRegistry
  <2>2. Reconcile(sh) /\ UNCHANGED <<outbox, wire, host>>
    BY <1>2 DEF Attach, Change
  <2> HIDE DEF sh
  <2> QED  BY <1>1, <2>1, <2>2, UiStep
<1>3. ASSUME NEW v \in Views, NEW ds \in SUBSET Displays, SwitchDisplay(v, ds)
      PROVE  Inv'
  <2> DEFINE sh == [shown EXCEPT ![v] = ds]
  <2>1. v \in DOMAIN shown
    BY <1>3 DEF SwitchDisplay
  <2>2. Registry(sh)
    BY <1>1, <2>1, SwitchRegistry
  <2>3. Reconcile(sh) /\ UNCHANGED <<outbox, wire, host>>
    BY <1>3 DEF SwitchDisplay, Change
  <2> HIDE DEF sh
  <2> QED  BY <1>1, <2>2, <2>3, UiStep
<1>4. ASSUME NEW v \in Views, Detach(v)
      PROVE  Inv'
  <2> DEFINE sh == [w \in DOMAIN shown \ {v} |-> shown[w]]
  <2>1. Registry(sh)
    BY <1>1, DetachRegistry
  <2>2. Reconcile(sh) /\ UNCHANGED <<outbox, wire, host>>
    BY <1>4 DEF Detach, Change
  <2> HIDE DEF sh
  <2> QED  BY <1>1, <2>1, <2>2, UiStep
<1>5. CASE Login
  <2> DEFINE sh == [v \in DOMAIN shown |-> IF shown[v] = NONE THEN {Primary} ELSE shown[v]]
  <2>1. Registry(sh)
    BY <1>1, LoginRegistry
  <2>2. Reconcile(sh) /\ UNCHANGED <<outbox, wire, host>>
    BY <1>5 DEF Login
  <2> HIDE DEF sh
  <2> QED  BY <1>1, <2>1, <2>2, UiStep
<1>6. CASE Connect
  BY <1>1, <1>6, ConnectStep DEF IInv, FirstIntent
<1>7. CASE Disconnect \/ UNCHANGED vars
  <2>1. UNCHANGED <<shown, intent, last, outbox, wire, subs, display_idx>>
    BY <1>7 DEF Disconnect, vars, ui, host
  <2> QED  BY <1>1, <2>1 DEF Inv, UiTypes, LinkTypes, Outboxed, Chain, Selected, Has
<1>8. CASE Sync
  BY <1>1, <1>8, SyncStep
<1>9. CASE Receive
  BY <1>1, <1>9, ReceiveStep
<1> QED  BY <1>2, <1>3, <1>4, <1>5, <1>6, <1>7, <1>8, <1>9 DEF Next

\* The invariant holds throughout.
LEMMA Invariant == Spec => []IInv
  BY InitInv, StepInv, PTL DEF Spec

-----------------------------------------------------------------------------
(* The theorems *)

\* The viewer's and the host's state keep their types: the outbox is never ahead of
\* the intent, the wire holds commands only, and the host is subscribed only to
\* displays it has (validated_request), whatever indexes the views ask for.
THEOREM TypeCorrect == Spec => []TypeOK
<1>1. IInv => TypeOK
  <2> SUFFICES ASSUME IInv PROVE TypeOK
    OBVIOUS
  <2>1. /\ outbox \in Outbox /\ outbox.generation \in Nat /\ outbox.desired \in SUBSET Displays
        /\ outbox.admitted \in {NONE} \cup SUBSET Displays
        /\ outbox.selected \in Displays \cup {NONE} /\ outbox.replacement \in Command \cup {NONE}
    BY DEF IInv, Inv, LinkTypes, Outbox
  <2>2. outbox.generation \in 0 .. intent.generation
    BY <2>1 DEF IInv, Inv, UiTypes, Outboxed
  <2>3. \A i \in DOMAIN wire : wire[i] \in Command
    BY LenProperties DEF IInv, Inv, LinkTypes
  <2> QED  BY <2>1, <2>2, <2>3 DEF TypeOK, IInv, Inv, UiTypes, LinkTypes
<1> QED  BY <1>1, Invariant, PTL

\* Nothing left to send and nothing left to read means that the host is in line with
\* the views, whatever was refused, overtaken or cut off before.
THEOREM SettledHolds == Spec => []Settled
<1>1. IInv => Settled
  <2> DEFINE o == Reconciled(outbox)
             D == DOMAIN intent.displays
  <2> SUFFICES ASSUME IInv, intent.generation > 0, wire = <<>>, Pending(o) = NONE
               PROVE  InLine
    BY DEF Settled
  <2>1. Current(outbox, o)
    BY OutboxOKHolds, ReconciledOutcome DEF IInv, Inv
  <2> HIDE DEF o
  <2>2. /\ o.generation # 0 /\ o.desired = D /\ o.desired \in SUBSET Displays
        /\ o.replacement \in Command \cup {NONE}
    BY <2>1 DEF Current, OutboxOK, Outbox, IInv, Inv, UiTypes
  <2>3. o.admitted = D
    <3>1. CASE o.admitted # o.desired
      <4>1. Pending(o) = Cmd("Set", o.desired)
        BY <2>2, <3>1 DEF Pending
      <4> QED  BY <2>2, <4>1, CommandTypes
    <3> QED  BY <2>2, <3>1
  <2>4. \A d \in Displays : D = {d} => o.selected = d
    <3> SUFFICES ASSUME NEW d \in Displays, D = {d}, o.selected # d PROVE FALSE
      OBVIOUS
    <3>1. o.replacement = NONE
      BY <2>2, <2>3 DEF Pending
    <3>2. Pending(o) = Cmd("Select", CHOOSE x \in o.desired : TRUE)
      BY <2>2, <2>3, <3>1 DEF Pending
    <3>3. (CHOOSE x \in o.desired : TRUE) = d
      BY <2>2
    <3> QED  BY <3>2, <3>3, CommandTypes
  <2>5. outbox.admitted = D /\ (\A d \in Displays : D = {d} => outbox.selected = d)
    BY <2>1, <2>3, <2>4 DEF Current
  <2>6. D # NONE /\ D \subseteq Displays
    BY <2>2, DisplayConstants
  <2>7. Has(subs, D)
    BY <2>5, <2>6 DEF IInv, Inv, Chain
  <2>8. ASSUME Cardinality(D) = 1, Wanted # {}
        PROVE  display_idx \in Wanted
    <3>1. IsFiniteSet(D)
      BY <2>6, FS_Subset, DisplayConstants
    <3>2. PICK d : D = {d}
      BY <2>8, <3>1, FS_Singleton
    <3>3. d \in Displays /\ d # NONE /\ outbox.selected = d
      BY <2>5, <2>6, <3>2, DisplayConstants
    <3>4. d \in Available /\ Wanted = {d}
      BY <2>8, <3>2 DEF Wanted, Valid
    <3>5. Len(wire) = 0
      OBVIOUS
    <3>6. display_idx = d
      BY <3>3, <3>4, <3>5 DEF IInv, Inv, Selected
    <3> QED  BY <3>4, <3>6
  <2> QED  BY <2>7, <2>8 DEF InLine, Has, Wanted
<1> QED  BY <1>1, Invariant, PTL

\* A select or replace command never adds a capture on the host.
THEOREM SwitchesAddNothing == Spec => SwitchAddsNothing
<1> DEFINE A == wire # <<>> /\ wire' = Tail(wire) /\ phase = "on"
                  /\ Head(wire).kind \in {"Select", "Replace"} => subs' = subs
<1>1. IInv /\ [Next]_vars => [A]_vars
  <2> SUFFICES ASSUME IInv, [Next]_vars, wire # <<>>, wire' = Tail(wire), phase = "on",
                      Head(wire).kind \in {"Select", "Replace"}
               PROVE  subs' = subs
    OBVIOUS
  <2>1. Head(wire) = wire[1]
    BY HeadTailProperties DEF IInv, Inv, LinkTypes
  <2>3. CASE Receive
    BY <2>1, <2>3, HostReads DEF IInv
  <2>4. CASE ~Receive
    <3>1. subs' = subs \/ Connect
      BY <2>4 DEF Next, Attach, SwitchDisplay, Detach, Change, Login, Disconnect, Sync, vars, host
    <3> QED  BY <3>1 DEF Connect
  <2> QED  BY <2>3, <2>4
<1>2. SwitchAddsNothing <=> [][A]_vars
  BY DEF SwitchAddsNothing
<1> HIDE DEF A
<1> QED  BY <1>1, <1>2, Invariant, PTL DEF Spec
=============================================================================
