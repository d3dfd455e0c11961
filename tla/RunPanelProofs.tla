--------------------------- MODULE RunPanelProofs ---------------------------
(***************************************************************************)
(* Proofs, for any plans, runs, files and users, that the run panel is of  *)
(* the draft and the run it shows: a plan is shown with the draft it was   *)
(* inspected with, a button that went off comes on again, a plan becomes   *)
(* one run, and what is judged or proposed is of the run that is shown.    *)
(*                                                                         *)
(* The argument: whoever may still answer to a section has that section's  *)
(* scope, and what a section holds is of its scope; so where effects have  *)
(* run, it is of the run that is shown. Snapshots never run ahead of the   *)
(* server, whose clocks only grow.                                         *)
(***************************************************************************)
EXTENDS MCJobStore, FiniteSetTheorems, TLAPS

Statuses == {"awaiting", "voicing", "review", "approved", "rejected", "rendering", "rendered", "cancelled"}
Plans == [id : Nat, version : Nat, choice : PlanChoices]
Rows == [plan : Plans, key : Plans, status : Statuses, take : Nat, job : Nat, seen : Nat, clock : Nat]
Records == [id : Nat, status : Statuses, take : Nat, job : Nat, clock : Nat]

\* What the server has: each plan is one run's.
ServerInv ==
    /\ saved \in Nat
    /\ runs \in Seq(Rows)
    /\ bookmark \in 0..Len(runs)
    /\ \A r \in 1..Len(runs) : runs[r].key = runs[r].plan
    /\ \A r, t \in 1..Len(runs) : runs[r].key = runs[t].key => r = t

\* A run as it is or once was.
Known(x, table) == x \in Records /\ x.id \in 1..Len(table) /\ x.clock =< table[x.id].clock

KnownScope(t, table) ==
    t # NoRecord =>
        /\ t = [id |-> t.id, version |-> t.version, shown |-> t.shown]
        /\ t.id = t.shown.id /\ Known(t.shown, table)

FileIn(p, t) == IF p = "voice" THEN t.shown.take ELSE t.shown.job

\* A proposal for what a section is about.
ProposedFor(x, t, table) ==
    /\ x = [id |-> x.id, of |-> x.of, allowed |-> x.allowed]
    /\ x.id \in 1..Len(table) /\ x.id = t.id /\ x.of.clock >= t.shown.clock

PageInv ==
    /\ page = [version |-> page.version, dirty |-> page.dirty, due |-> page.due]
    /\ page.version \in Nat /\ page.dirty \in BOOLEAN /\ page.due \in BOOLEAN
    /\ panel = [plan |-> panel.plan, run |-> panel.run, of |-> panel.of, choice |-> panel.choice, locked |-> panel.locked]
    /\ panel.choice \in PlanChoices /\ panel.locked \in BOOLEAN
    /\ panel.plan # NoRecord => panel.plan \in Plans
    /\ panel.run # NoRecord => Known(panel.run, runs)

\* What a section holds is of its scope.
SectionOk(p, x, table) ==
    /\ x = [scope |-> x.scope, locked |-> x.locked, file |-> x.file,
            observed |-> x.observed, proposal |-> x.proposal]
    /\ x.locked \in BOOLEAN
    /\ KnownScope(x.scope, table)
    /\ x.file # NoRecord => x.scope # NoRecord /\ x.file = [id |-> FileIn(p, x.scope)]
    /\ x.proposal # NoRecord => x.scope # NoRecord /\ ProposedFor(x.proposal, x.scope, table)

SectionInv ==
    /\ section = [p \in Sections |-> section[p]]
    /\ \A p \in Sections : SectionOk(p, section[p], runs)

PanelKinds == {"preflight", "restore", "start", "read", "resume", "cancel"}
PartKinds == {"load", "dispatch", "review", "observe", "inspect", "repair"}

\* What is left of a request to be done.
Remaining(kind) ==
    CASE kind = "restore" -> {<<"read">>, <<>>}
      [] kind = "load" -> {<<"file">>, <<>>}
      [] kind = "inspect" -> {<<"propose">>, <<>>}
      [] kind \in {"review", "repair"} -> {<<kind, "read">>, <<"read">>, <<>>}
      [] OTHER -> {<<kind>>, <<>>}

RequestType(q, table) ==
    /\ q = [by |-> q.by, kind |-> q.kind, on |-> q.on, steps |-> q.steps, answer |-> q.answer,
            live |-> q.live, left |-> q.left, version |-> q.version, choice |-> q.choice, scope |-> q.scope]
    /\ q.live \in BOOLEAN /\ q.left \in BOOLEAN /\ q.version \in Nat /\ q.choice \in PlanChoices
    /\ \/ q.by = "panel" /\ q.kind \in PanelKinds
       \/ q.by \in Sections /\ q.kind \in PartKinds
    /\ q.steps \in Remaining(q.kind)
    /\ KnownScope(q.scope, table)

\* What a request is about is there.
AboutKnown(q, table) ==
    CASE q.kind = "preflight" -> TRUE
      [] q.kind = "start" -> q.on \in Plans
      [] q.kind = "review" -> q.on.id \in 1..Len(table) /\ q.on.verdict \in {"approved", "rejected"}
      [] q.kind = "inspect" -> q.scope # NoRecord /\ q.on.id = q.scope.id
      [] OTHER -> q.on.id \in 1..Len(table)

\* What is answered is of what was asked.
AnswerOf(q, value, table) ==
    CASE q.kind = "preflight" -> value \in Plans /\ value.choice = q.choice
      [] q.kind = "load" -> value.id = FileIn(q.by, q.scope)
      [] q.kind = "inspect" -> ProposedFor(value, q.scope, table)
      [] q.kind = "observe" -> TRUE
      [] OTHER -> Known(value, table)

RequestOk(q, table) ==
    RequestType(q, table) /\ AboutKnown(q, table) /\ (q.steps = <<>> /\ Ok(q) => AnswerOf(q, q.answer, table))

RequestInv == \A q \in requests : RequestOk(q, runs)

\* Whose answer the panel awaits, and whose a section.
PanelWaits(q) == q.by = "panel" /\ q.live
PartWaits(p, q) == q.by = p /\ q.live /\ ~q.left
ForPart(p, q) == PartWaits(p, q) /\ q.kind # "load"

PanelLock ==
    ~page.due =>
        /\ \A q \in requests : PanelWaits(q) => q.version = page.version /\ q.choice = panel.choice
        /\ panel.locked <=> \E q \in requests : PanelWaits(q)
        /\ \A q, o \in requests : PanelWaits(q) /\ PanelWaits(o) => q = o

PartLock ==
    \A p \in Sections :
        /\ \A q \in requests : PartWaits(p, q) => q.scope # NoRecord /\ q.scope = section[p].scope
        /\ \A q, o \in requests : ForPart(p, q) /\ ForPart(p, o) => q = o
        /\ ~page.due /\ section[p].scope = ScopeOf(p) =>
               (section[p].locked <=> \E q \in requests : ForPart(p, q))

PlanInv ==
    ~page.due =>
        /\ panel.plan # NoRecord =>
               ~page.dirty /\ panel.plan.version = page.version /\ panel.plan.choice = panel.choice
        /\ \A q \in requests : PanelWaits(q) /\ q.kind = "preflight" => ~page.dirty

PanelInv == ServerInv /\ PageInv /\ SectionInv /\ RequestInv /\ PanelLock /\ PartLock /\ PlanInv

-----------------------------------------------------------------------------
(* Lemmas about what is known.                                             *)

Grew(table, more) ==
    Len(table) =< Len(more) /\ \A r \in 1..Len(table) : table[r].clock =< more[r].clock

LEMMA RowsAre ==
  ASSUME NEW table \in Seq(Rows)
  PROVE  /\ Len(table) \in Nat
         /\ \A r \in 1..Len(table) : table[r] \in Rows /\ table[r].clock \in Nat /\ table[r].take \in Nat
                                    /\ table[r].job \in Nat /\ table[r].status \in Statuses
<1>1. Len(table) \in Nat /\ \A r \in 1..Len(table) : table[r] \in Rows
  OBVIOUS
<1> QED
  BY <1>1 DEF Rows

LEMMA KnownGrows ==
  ASSUME NEW table \in Seq(Rows), NEW more \in Seq(Rows), Grew(table, more), NEW x, Known(x, table)
  PROVE  Known(x, more)
<1>1. x.id \in 1..Len(table) /\ x.clock \in Nat /\ x \in Records /\ x.clock =< table[x.id].clock
  BY DEF Known, Records
<1>2. table[x.id].clock =< more[x.id].clock /\ x.id \in 1..Len(more)
  BY <1>1, RowsAre DEF Grew
<1>3. table[x.id].clock \in Nat /\ more[x.id].clock \in Nat
  BY <1>1, <1>2, RowsAre
<1> QED
  BY <1>1, <1>2, <1>3 DEF Known

LEMMA ScopeGrows ==
  ASSUME NEW table \in Seq(Rows), NEW more \in Seq(Rows), Grew(table, more), NEW t, KnownScope(t, table)
  PROVE  KnownScope(t, more)
  BY KnownGrows DEF KnownScope

LEMMA ProposalGrows ==
  ASSUME NEW table \in Seq(Rows), NEW more \in Seq(Rows), Grew(table, more),
         NEW x, NEW t, ProposedFor(x, t, table)
  PROVE  ProposedFor(x, t, more)
<1>1. x.id \in 1..Len(more)
  BY RowsAre DEF ProposedFor, Grew
<1> QED
  BY <1>1 DEF ProposedFor

LEMMA SectionGrows ==
  ASSUME NEW table \in Seq(Rows), NEW more \in Seq(Rows), Grew(table, more),
         NEW p, NEW x, SectionOk(p, x, table)
  PROVE  SectionOk(p, x, more)
<1>1. KnownScope(x.scope, more)
  BY ScopeGrows DEF SectionOk
<1>2. x.proposal # NoRecord => ProposedFor(x.proposal, x.scope, more)
  BY ProposalGrows DEF SectionOk
<1> QED
  BY <1>1, <1>2 DEF SectionOk

LEMMA RequestGrows ==
  ASSUME NEW table \in Seq(Rows), NEW more \in Seq(Rows), Grew(table, more),
         NEW q, RequestOk(q, table)
  PROVE  RequestOk(q, more)
<1>1. RequestType(q, more)
  BY ScopeGrows DEF RequestOk, RequestType
<1>2. \A r \in 1..Len(table) : r \in 1..Len(more)
  BY RowsAre DEF Grew
<1>3. AboutKnown(q, more)
  <2>1. AboutKnown(q, table)
    BY DEF RequestOk
  <2> QED
    BY <2>1, <1>2 DEF AboutKnown
<1>4. q.steps = <<>> /\ Ok(q) => AnswerOf(q, q.answer, more)
  <2> SUFFICES ASSUME AnswerOf(q, q.answer, table) PROVE AnswerOf(q, q.answer, more)
    BY DEF RequestOk
  <2>1. Known(q.answer, table) => Known(q.answer, more)
    BY KnownGrows
  <2>2. ProposedFor(q.answer, q.scope, table) => ProposedFor(q.answer, q.scope, more)
    BY ProposalGrows
  <2> QED
    BY <2>1, <2>2 DEF AnswerOf
<1> QED
  BY <1>1, <1>3, <1>4 DEF RequestOk

-----------------------------------------------------------------------------
(* What is known of a record that is written once more.                    *)

\* A request that is no longer waited for, or only outlives its section.
LEMMA Released ==
  ASSUME NEW table, NEW r, RequestOk(r, table), NEW q,
         q = [r EXCEPT !.live = FALSE] \/ q = [r EXCEPT !.left = TRUE]
  PROVE  /\ RequestOk(q, table)
         /\ q.by = r.by /\ q.kind = r.kind
         /\ ~q.live \/ q.left
<1> DEFINE fields(x) == [by |-> x.by, kind |-> x.kind, on |-> x.on, steps |-> x.steps, answer |-> x.answer,
            live |-> x.live, left |-> x.left, version |-> x.version, choice |-> x.choice, scope |-> x.scope]
<1>1. r = fields(r) /\ r.live \in BOOLEAN /\ r.left \in BOOLEAN
  BY DEF RequestOk, RequestType
<1>2. CASE q = [r EXCEPT !.live = FALSE]
  <2>1. /\ q = fields(q) /\ q.live = FALSE /\ q.left = r.left
        /\ q.by = r.by /\ q.kind = r.kind /\ q.on = r.on /\ q.steps = r.steps /\ q.answer = r.answer
        /\ q.version = r.version /\ q.choice = r.choice /\ q.scope = r.scope
    BY <1>1, <1>2
  <2> HIDE DEF fields
  <2>2. RequestType(q, table) /\ AboutKnown(q, table) /\ (q.steps = <<>> /\ Ok(q) => AnswerOf(q, q.answer, table))
    BY <1>1, <2>1 DEF fields, RequestOk, RequestType, AboutKnown, AnswerOf, Ok
  <2> QED
    BY <2>1, <2>2 DEF RequestOk
<1>3. CASE q = [r EXCEPT !.left = TRUE]
  <2>1. /\ q = fields(q) /\ q.left = TRUE /\ q.live = r.live
        /\ q.by = r.by /\ q.kind = r.kind /\ q.on = r.on /\ q.steps = r.steps /\ q.answer = r.answer
        /\ q.version = r.version /\ q.choice = r.choice /\ q.scope = r.scope
    BY <1>1, <1>3
  <2> HIDE DEF fields
  <2>2. RequestType(q, table) /\ AboutKnown(q, table) /\ (q.steps = <<>> /\ Ok(q) => AnswerOf(q, q.answer, table))
    BY <1>1, <2>1 DEF fields, RequestOk, RequestType, AboutKnown, AnswerOf, Ok
  <2> QED
    BY <2>1, <2>2 DEF RequestOk
<1> QED
  BY <1>2, <1>3

\* A request that is served, refused or lost stays whose it was.
SameAsker(q, r) ==
    /\ q.by = r.by /\ q.kind = r.kind /\ q.on = r.on /\ q.live = r.live /\ q.left = r.left
    /\ q.version = r.version /\ q.choice = r.choice /\ q.scope = r.scope

Now(r, steps, value) == [r EXCEPT !.steps = steps, !.answer = value]

LEMMA Answered ==
  ASSUME NEW table, NEW r, RequestType(r, table), AboutKnown(r, table), NEW steps, NEW value, NEW q,
         q = Now(r, steps, value),
         steps \in Remaining(r.kind),
         steps = <<>> /\ value # LostAnswer => AnswerOf(r, value, table)
  PROVE  RequestOk(q, table) /\ SameAsker(q, r) /\ q.steps = steps /\ q.answer = value
<1> DEFINE fields(x) == [by |-> x.by, kind |-> x.kind, on |-> x.on, steps |-> x.steps, answer |-> x.answer,
            live |-> x.live, left |-> x.left, version |-> x.version, choice |-> x.choice, scope |-> x.scope]
<1>1. r = fields(r)
  BY DEF RequestType
<1>2. /\ q = fields(q) /\ q.steps = steps /\ q.answer = value
      /\ q.by = r.by /\ q.kind = r.kind /\ q.on = r.on /\ q.live = r.live /\ q.left = r.left
      /\ q.version = r.version /\ q.choice = r.choice /\ q.scope = r.scope
  BY <1>1 DEF Now
<1>3. q.steps = <<>> /\ Ok(q) => AnswerOf(q, q.answer, table)
  BY <1>2 DEF Ok, AnswerOf
<1> HIDE DEF fields
<1>4. RequestType(q, table)
  BY <1>2 DEF fields, RequestType
<1>5. AboutKnown(q, table)
  BY <1>2 DEF AboutKnown
<1> QED
  BY <1>2, <1>3, <1>4, <1>5 DEF RequestOk, SameAsker

-----------------------------------------------------------------------------
(* What keeps the locks: an asker that is served stays the asker.          *)

LEMMA Replaced ==
  ASSUME NEW r \in requests, NEW q, SameAsker(q, r),
         requests' = (requests \ {r}) \cup {q},
         UNCHANGED <<page, panel, section>>,
         PanelLock, PartLock, PlanInv
  PROVE  PanelLock' /\ PartLock' /\ PlanInv'
<1>1. \A o \in requests' : \E b \in requests :
          SameAsker(o, b) /\ ((o = q /\ b = r) \/ (o = b /\ b # r))
  BY DEF SameAsker
<1>2. \A o, b : SameAsker(o, b) =>
          /\ PanelWaits(o) <=> PanelWaits(b)
          /\ \A p : PartWaits(p, o) <=> PartWaits(p, b)
          /\ \A p : ForPart(p, o) <=> ForPart(p, b)
  BY DEF SameAsker, PanelWaits, PartWaits, ForPart
<1>3. \A b \in requests : \E o \in requests' : SameAsker(o, b)
  BY DEF SameAsker
<1>4. ScopeOf("voice")' = ScopeOf("voice") /\ ScopeOf("picture")' = ScopeOf("picture")
  BY DEF ScopeOf
<1>5. PanelLock'
  <2> SUFFICES ASSUME ~page.due
      PROVE  /\ \A o \in requests' : PanelWaits(o) => o.version = page.version /\ o.choice = panel.choice
             /\ panel.locked <=> \E o \in requests' : PanelWaits(o)
             /\ \A o, b \in requests' : PanelWaits(o) /\ PanelWaits(b) => o = b
    BY DEF PanelLock
  <2>1. \A o \in requests' : PanelWaits(o) => o.version = page.version /\ o.choice = panel.choice
    BY <1>1, <1>2 DEF PanelLock, SameAsker
  <2>2. panel.locked <=> \E o \in requests' : PanelWaits(o)
    BY <1>1, <1>2, <1>3 DEF PanelLock
  <2>3. ASSUME NEW o \in requests', NEW b \in requests', PanelWaits(o), PanelWaits(b) PROVE o = b
    <3>1. PICK x \in requests : SameAsker(o, x) /\ ((o = q /\ x = r) \/ (o = x /\ x # r))
      BY <1>1
    <3>2. PICK y \in requests : SameAsker(b, y) /\ ((b = q /\ y = r) \/ (b = y /\ y # r))
      BY <1>1
    <3>3. PanelWaits(x) /\ PanelWaits(y)
      BY <2>3, <3>1, <3>2, <1>2
    <3>4. x = y
      BY <3>3 DEF PanelLock
    <3> QED
      BY <3>1, <3>2, <3>4
  <2> QED
    BY <2>1, <2>2, <2>3
<1>6. PartLock'
  <2> SUFFICES ASSUME NEW p \in Sections
      PROVE  /\ \A o \in requests' : PartWaits(p, o) => o.scope # NoRecord /\ o.scope = section[p].scope
             /\ \A o, b \in requests' : ForPart(p, o) /\ ForPart(p, b) => o = b
             /\ ~page.due /\ section[p].scope = ScopeOf(p) =>
                    (section[p].locked <=> \E o \in requests' : ForPart(p, o))
    BY <1>4 DEF PartLock, Sections
  <2>1. \A o \in requests' : PartWaits(p, o) => o.scope # NoRecord /\ o.scope = section[p].scope
    BY <1>1, <1>2 DEF PartLock, SameAsker
  <2>2. ~page.due /\ section[p].scope = ScopeOf(p) =>
            (section[p].locked <=> \E o \in requests' : ForPart(p, o))
    BY <1>1, <1>2, <1>3 DEF PartLock
  <2>3. ASSUME NEW o \in requests', NEW b \in requests', ForPart(p, o), ForPart(p, b) PROVE o = b
    <3>1. PICK x \in requests : SameAsker(o, x) /\ ((o = q /\ x = r) \/ (o = x /\ x # r))
      BY <1>1
    <3>2. PICK y \in requests : SameAsker(b, y) /\ ((b = q /\ y = r) \/ (b = y /\ y # r))
      BY <1>1
    <3>3. ForPart(p, x) /\ ForPart(p, y)
      BY <2>3, <3>1, <3>2, <1>2
    <3>4. x = y
      BY <3>3 DEF PartLock
    <3> QED
      BY <3>1, <3>2, <3>4
  <2> QED
    BY <2>1, <2>2, <2>3
<1>7. PlanInv'
  BY <1>1, <1>2 DEF PlanInv, SameAsker
<1> QED
  BY <1>5, <1>6, <1>7

\* What is awaited is not asked again, and a new request is what is awaited then.
LEMMA Asked ==
  ASSUME PartLock, NEW p \in Sections, NEW q, q.by = p, q.live, ~q.left, q.kind # "load",
         q.scope = section[p].scope, q.scope # NoRecord,
         ~page.due, section[p].scope = ScopeOf(p), ~section[p].locked,
         requests' = requests \cup {q},
         UNCHANGED <<page, panel>>,
         \A t \in Sections : section'[t].scope = section[t].scope
                             /\ (t # p => section'[t].locked = section[t].locked),
         section'[p].locked
  PROVE  PartLock'
<1>1. \A t \in Sections : ScopeOf(t)' = ScopeOf(t)
  BY DEF ScopeOf
<1>2. \A o \in requests : ~ForPart(p, o)
  BY DEF PartLock
<1>3. \A t : t # p => ~PartWaits(t, q) /\ ~ForPart(t, q)
  BY DEF PartWaits, ForPart
<1>4. PartWaits(p, q) /\ ForPart(p, q)
  BY DEF PartWaits, ForPart
<1>5. SUFFICES ASSUME NEW t \in Sections
      PROVE  /\ \A o \in requests' : PartWaits(t, o) => o.scope # NoRecord /\ o.scope = section'[t].scope
             /\ \A o, b \in requests' : ForPart(t, o) /\ ForPart(t, b) => o = b
             /\ ~page.due /\ section'[t].scope = ScopeOf(t) =>
                    (section'[t].locked <=> \E o \in requests' : ForPart(t, o))
  BY <1>1 DEF PartLock
<1>6. CASE t = p
  BY <1>2, <1>4, <1>6 DEF PartLock
<1>7. CASE t # p
  BY <1>3, <1>7 DEF PartLock
<1> QED
  BY <1>6, <1>7

\* What is known stays known as the runs go on.
Goes ==
    /\ runs' \in Seq(Rows) /\ Grew(runs, runs')
    /\ \A r \in 1..Len(runs') : runs'[r].key = runs'[r].plan
    /\ \A r, t \in 1..Len(runs') : runs'[r].key = runs'[t].key => r = t

LEMMA TableKeeps ==
  ASSUME ServerInv, PageInv, SectionInv, RequestInv,
         UNCHANGED <<page, panel, section, bookmark>>, saved' \in Nat, Goes
  PROVE  /\ ServerInv' /\ PageInv' /\ SectionInv'
         /\ \A q \in requests : RequestOk(q, runs')
<1>1. runs \in Seq(Rows) /\ Len(runs) \in Nat /\ Len(runs') \in Nat /\ Len(runs) =< Len(runs')
      /\ runs' \in Seq(Rows) /\ Grew(runs, runs')
  BY DEF ServerInv, Grew, Goes
<1>2. ServerInv'
  BY <1>1 DEF ServerInv, Goes
<1>3. PageInv'
  <2>1. panel.run # NoRecord => Known(panel.run, runs')
    BY <1>1, KnownGrows DEF PageInv
  <2> QED
    BY <2>1 DEF PageInv
<1>4. SectionInv'
  <2>1. \A p \in Sections : SectionOk(p, section[p], runs')
    BY <1>1, SectionGrows DEF SectionInv
  <2> QED
    BY <2>1 DEF SectionInv
<1>5. \A q \in requests : RequestOk(q, runs')
  BY <1>1, RequestGrows DEF RequestInv
<1> QED
  BY <1>2, <1>3, <1>4, <1>5

LEMMA OthersKeep ==
  ASSUME PanelInv, UNCHANGED <<page, panel, section, bookmark, requests>>, saved' \in Nat, Goes
  PROVE  PanelInv'
<1>1. ServerInv' /\ PageInv' /\ SectionInv' /\ RequestInv'
  <2>1. ServerInv' /\ PageInv' /\ SectionInv' /\ \A q \in requests : RequestOk(q, runs')
    BY TableKeeps DEF PanelInv
  <2> QED
    BY <2>1 DEF RequestInv
<1>2. PanelLock' /\ PlanInv'
  BY DEF PanelInv, PanelLock, PlanInv
<1>3. PartLock'
  <2>1. \A p \in Sections : ScopeOf(p)' = ScopeOf(p)
    BY DEF ScopeOf
  <2> QED
    BY <2>1 DEF PanelInv, PartLock
<1> QED
  BY <1>1, <1>2, <1>3 DEF PanelInv

\* A request comes to the next of its steps, or is refused.
LEMMA ServedKeeps ==
  ASSUME PanelInv, NEW r \in requests, NEW steps \in Remaining(r.kind), NEW value,
         requests' = (requests \ {r}) \cup {Now(r, steps, value)},
         UNCHANGED <<saved, page, panel, section, bookmark>>, Goes,
         steps = <<>> /\ value # LostAnswer => AnswerOf(r, value, runs')
  PROVE  PanelInv'
<1>1. /\ ServerInv' /\ PageInv' /\ SectionInv'
      /\ \A q \in requests : RequestOk(q, runs')
  BY TableKeeps DEF PanelInv, ServerInv
<1>2. PICK q, table : q = Now(r, steps, value) /\ table = runs'
  OBVIOUS
<1>3. RequestType(r, table) /\ AboutKnown(r, table)
  BY <1>1, <1>2 DEF RequestOk
<1>4. RequestOk(q, table) /\ SameAsker(q, r)
  <2>1. steps = <<>> /\ value # LostAnswer => AnswerOf(r, value, table)
    BY <1>2
  <2> QED
    BY <1>2, <1>3, <2>1, Answered
<1>5. RequestInv'
  BY <1>1, <1>2, <1>4 DEF RequestInv
<1>6. requests' = (requests \ {r}) \cup {q}
  BY <1>2
<1>7. PanelLock' /\ PartLock' /\ PlanInv'
  BY <1>4, <1>6, Replaced DEF PanelInv
<1> QED
  BY <1>1, <1>5, <1>7 DEF PanelInv

-----------------------------------------------------------------------------
(* Renders, effects and clicks.                                            *)

LEMMA SaveElsewhereKeeps ==
  ASSUME PanelInv, SaveElsewhere
  PROVE  PanelInv'
<1>1. saved' \in Nat /\ UNCHANGED runs /\ runs \in Seq(Rows)
  BY DEF PanelInv, ServerInv, SaveElsewhere
<1>2. Goes
  BY <1>1, RowsAre DEF PanelInv, ServerInv, Grew, Goes
<1> QED
  BY <1>1, <1>2, OthersKeep DEF SaveElsewhere

LEMMA RenderDraftKeeps ==
  ASSUME PanelInv, RenderDraft
  PROVE  PanelInv'
<1> USE DEF PanelInv, RenderDraft
<1>1. PICK version \in {page.version, saved}, dirty \in BOOLEAN :
          page' = [version |-> version, dirty |-> dirty, due |-> TRUE]
  OBVIOUS
<1>2. ServerInv'
  BY DEF ServerInv
<1>3. PageInv'
  BY <1>1 DEF PageInv, ServerInv
<1>4. SectionInv'
  BY DEF SectionInv
<1>5. RequestInv'
  BY DEF RequestInv
<1>6. PanelLock' /\ PlanInv'
  BY <1>1 DEF PanelLock, PlanInv
<1>7. PartLock'
  BY <1>1 DEF PartLock
<1> QED
  BY <1>2, <1>3, <1>4, <1>5, <1>6, <1>7

\* Whoever was awaited is not, or outlives the section.
LEMMA ExpiredAre ==
  ASSUME NEW qs, NEW table, \A q \in qs : RequestOk(q, table), NEW q \in Expired(qs)
  PROVE  \E r \in qs : RequestOk(q, table) /\ q.by = r.by /\ q.kind = r.kind /\ ~q.live
<1>1. PICK r \in qs : q = [r EXCEPT !.live = FALSE]
  BY DEF Expired
<1>2. q.live = FALSE
  BY <1>1 DEF RequestOk, RequestType
<1> QED
  BY <1>1, <1>2, Released

LEMMA UnmountedAre ==
  ASSUME NEW qs, NEW table, \A q \in qs : RequestOk(q, table), NEW q \in Unmounted(qs)
  PROVE  \E r \in qs : RequestOk(q, table) /\ q.by = r.by /\ q.kind = r.kind /\ (~q.live \/ q.left)
<1>1. CASE \E r \in qs : q = [r EXCEPT !.left = TRUE]
  BY <1>1, Released
<1>2. CASE q \in Expired({r \in qs : ~Outlives(r)})
  BY <1>2, ExpiredAre
<1> QED
  BY <1>1, <1>2 DEF Unmounted

\* A request that is asked now.
Asking(by, kind, on, steps, choice) ==
    [by |-> by, kind |-> kind, on |-> on, steps |-> steps, answer |-> NoRecord, live |-> TRUE, left |-> FALSE,
     version |-> page.version, choice |-> choice, scope |-> IF by = "panel" THEN NoRecord ELSE ScopeOf(by)]

LEMMA NewRequest ==
  ASSUME NEW by, NEW kind, NEW on, NEW steps, NEW choice \in PlanChoices, PageInv,
         \/ by = "panel" /\ kind \in PanelKinds
         \/ by \in Sections /\ kind \in PartKinds,
         steps \in Remaining(kind), steps # <<>>,
         NEW q, q = Asking(by, kind, on, steps, choice),
         AboutKnown(q, runs)
  PROVE  /\ RequestOk(q, runs)
         /\ q.by = by /\ q.kind = kind /\ q.live /\ ~q.left
         /\ q.version = page.version /\ q.choice = choice
         /\ q.scope = IF by = "panel" THEN NoRecord ELSE ScopeOf(by)
<1> USE DEF Asking
<1>1. KnownScope(q.scope, runs)
  <2>1. \A p : KnownScope(ScopeOf(p), runs)
    BY DEF ScopeOf, KnownScope, PageInv, Known
  <2>2. KnownScope(NoRecord, runs)
    BY DEF KnownScope
  <2> QED
    BY <2>1, <2>2
<1>2. RequestType(q, runs)
  <2>1. q.version \in Nat
    BY DEF PageInv
  <2>2. /\ q.by = by /\ q.kind = kind /\ q.on = on /\ q.steps = steps /\ q.answer = NoRecord
        /\ q.live = TRUE /\ q.left = FALSE /\ q.version = page.version /\ q.choice = choice
    OBVIOUS
  <2>3. q = [by |-> q.by, kind |-> q.kind, on |-> q.on, steps |-> q.steps, answer |-> q.answer,
             live |-> q.live, left |-> q.left, version |-> q.version, choice |-> q.choice, scope |-> q.scope]
    OBVIOUS
  <2> QED
    BY <1>1, <2>1, <2>2, <2>3 DEF RequestType
<1> QED
  BY <1>2 DEF RequestOk

LEMMA PanelEffectKeeps ==
  ASSUME PanelInv, PanelEffect
  PROVE  PanelInv'
<1> USE DEF PanelInv
<1> DEFINE restore == [Request("panel", "restore", [id |-> bookmark], <<"read">>) EXCEPT !.choice = FirstChoice]
           ours == Expired(AskedBy("panel"))
           theirs == Unmounted(requests \ AskedBy("panel"))
<1>1. /\ page' = [page EXCEPT !.due = FALSE]
      /\ panel' = [plan |-> NoRecord, run |-> NoRecord, of |-> NoRecord, choice |-> FirstChoice, locked |-> bookmark # 0]
      /\ section' = [p \in Sections |-> BlankPart]
      /\ requests' = ours \cup theirs \cup (IF bookmark = 0 THEN {} ELSE {restore})
      /\ UNCHANGED <<saved, bookmark, runs, clicks>>
  BY DEF PanelEffect
<1>2. /\ page'.version = page.version /\ page'.dirty = page.dirty /\ page'.due = FALSE
      /\ page' = [version |-> page.version, dirty |-> page.dirty, due |-> FALSE]
  BY <1>1 DEF PageInv
<1>3. \A q \in ours : RequestOk(q, runs) /\ q.by = "panel" /\ ~q.live
  <2>1. \A q \in AskedBy("panel") : RequestOk(q, runs) /\ q.by = "panel"
    BY DEF AskedBy, RequestInv
  <2> QED
    BY <2>1, ExpiredAre
<1>4. \A q \in theirs : RequestOk(q, runs) /\ q.by # "panel" /\ (~q.live \/ q.left)
  <2>1. \A q \in requests \ AskedBy("panel") : RequestOk(q, runs) /\ q.by # "panel"
    BY DEF AskedBy, RequestInv
  <2> DEFINE rest == requests \ AskedBy("panel")
  <2>2. PICK qs : qs = rest
    OBVIOUS
  <2>3. \A q \in qs : RequestOk(q, runs) /\ q.by # "panel"
    BY <2>1, <2>2
  <2> HIDE DEF rest
  <2>4. \A q \in Unmounted(qs) : RequestOk(q, runs) /\ q.by # "panel" /\ (~q.live \/ q.left)
    BY <2>3, UnmountedAre
  <2> QED
    BY <2>2, <2>4 DEF rest
<1>5. bookmark # 0 =>
          /\ RequestOk(restore, runs) /\ restore.by = "panel" /\ restore.kind = "restore" /\ restore.live
          /\ restore.version = page.version /\ restore.choice = FirstChoice
  <2> SUFFICES ASSUME bookmark # 0
      PROVE  /\ RequestOk(restore, runs) /\ restore.by = "panel" /\ restore.kind = "restore" /\ restore.live
             /\ restore.version = page.version /\ restore.choice = FirstChoice
    OBVIOUS
  <2>1. PICK q, on, steps : on = [id |-> bookmark] /\ steps = <<"read">>
                            /\ q = Asking("panel", "restore", on, steps, FirstChoice)
    OBVIOUS
  <2>2. q = restore
    <3>1. Request("panel", "restore", on, steps) =
             [by |-> "panel", kind |-> "restore", on |-> on, steps |-> steps, answer |-> NoRecord, live |-> TRUE,
              left |-> FALSE, version |-> page.version, choice |-> panel.choice, scope |-> NoRecord]
      BY DEF Request
    <3>2. restore = [Request("panel", "restore", on, steps) EXCEPT !.choice = FirstChoice]
      BY <2>1
    <3>3. q = [by |-> "panel", kind |-> "restore", on |-> on, steps |-> steps, answer |-> NoRecord, live |-> TRUE,
               left |-> FALSE, version |-> page.version, choice |-> FirstChoice, scope |-> NoRecord]
      BY <2>1 DEF Asking
    <3> DEFINE fields(x) == [by |-> x.by, kind |-> x.kind, on |-> x.on, steps |-> x.steps, answer |-> x.answer,
            live |-> x.live, left |-> x.left, version |-> x.version, choice |-> x.choice, scope |-> x.scope]
    <3> HIDE DEF restore
    <3>4. PICK r : r = Request("panel", "restore", on, steps)
      OBVIOUS
    <3>5. /\ r = fields(r) /\ r.by = "panel" /\ r.kind = "restore" /\ r.on = on /\ r.steps = steps
          /\ r.answer = NoRecord /\ r.live = TRUE /\ r.left = FALSE /\ r.version = page.version
          /\ r.scope = NoRecord
      BY <3>1, <3>4
    <3>6. restore = [r EXCEPT !.choice = FirstChoice]
      BY <3>2, <3>4
    <3>7. /\ restore = fields(restore) /\ restore.by = "panel" /\ restore.kind = "restore" /\ restore.on = on
          /\ restore.steps = steps /\ restore.answer = NoRecord /\ restore.live = TRUE /\ restore.left = FALSE
          /\ restore.version = page.version /\ restore.choice = FirstChoice /\ restore.scope = NoRecord
      BY <3>5, <3>6
    <3> QED
      BY <3>3, <3>7
  <2>3. steps \in Remaining("restore") /\ steps # <<>> /\ "restore" \in PanelKinds
    BY <2>1 DEF Remaining, PanelKinds
  <2>4. AboutKnown(q, runs)
    <3>1. q.kind = "restore" /\ q.on.id \in 1..Len(runs)
      BY <2>1 DEF Asking, ServerInv
    <3> QED
      BY <3>1 DEF AboutKnown
  <2>5. /\ RequestOk(q, runs) /\ q.by = "panel" /\ q.kind = "restore" /\ q.live
        /\ q.version = page.version /\ q.choice = FirstChoice
    BY <2>1, <2>3, <2>4, NewRequest, PanelAssumption
  <2> HIDE DEF restore
  <2> QED
    BY <2>2, <2>5
<1> HIDE DEF restore, ours, theirs
<1>6. ServerInv'
  BY <1>1 DEF ServerInv
<1>7. PageInv'
  BY <1>1, <1>2, PanelAssumption DEF PageInv
<1>8. SectionInv'
  <2>1. SectionOk("voice", BlankPart, runs) /\ SectionOk("picture", BlankPart, runs)
    BY DEF SectionOk, BlankPart, KnownScope
  <2> QED
    BY <1>1, <2>1 DEF SectionInv, Sections
<1>9. RequestInv'
  BY <1>1, <1>3, <1>4, <1>5 DEF RequestInv
<1>10. PanelLock'
  BY <1>1, <1>2, <1>3, <1>4, <1>5 DEF PanelLock, PanelWaits
<1>11. PartLock'
  <2>1. \A p \in Sections, q \in requests' : ~PartWaits(p, q)
    BY <1>1, <1>3, <1>4, <1>5 DEF PartWaits, Sections
  <2>2. \A p \in Sections : ~section'[p].locked
    BY <1>1 DEF BlankPart
  <2> QED
    BY <2>1, <2>2 DEF PartLock, ForPart
<1>12. PlanInv'
  BY <1>1, <1>3, <1>4, <1>5 DEF PlanInv, PanelWaits
<1> QED
  BY <1>6, <1>7, <1>8, <1>9, <1>10, <1>11, <1>12

LEMMA ScopeKnown ==
  ASSUME PageInv, NEW p
  PROVE  /\ KnownScope(ScopeOf(p), runs)
         /\ ScopeOf(p) # NoRecord =>
                /\ panel.run # NoRecord /\ Known(panel.run, runs)
                /\ ScopeOf(p) = [id |-> panel.run.id, version |-> page.version, shown |-> panel.run]
                /\ ScopeOf(p).id = panel.run.id /\ ScopeOf(p).shown = panel.run
  BY DEF ScopeOf, KnownScope, PageInv, Known

LEMMA AskedIs ==
  ASSUME NEW by, NEW kind, NEW on, NEW steps
  PROVE  Request(by, kind, on, steps) = Asking(by, kind, on, steps, panel.choice)
  BY DEF Request, Asking

LEMMA PartEffectsKeeps ==
  ASSUME PanelInv, PartEffects
  PROVE  PanelInv'
<1> DEFINE Stale == {p \in Sections : section[p].scope # ScopeOf(p)}
           Gone(p) == {q \in AskedBy(p) : q.left}
           Staying(p) == IF SameMount(p, section[p].scope, ScopeOf(p)) THEN Expired(AskedBy(p) \ Gone(p)) \cup Gone(p)
                         ELSE Unmounted(AskedBy(p))
           others == {q \in requests : q.by \notin Stale}
           theirs == UNION {Staying(p) : p \in Stale}
           load(p) == Request(p, "load", [id |-> panel.run.id], <<"file">>)
           loads == {load(p) : p \in {t \in Stale : HasFile(t)}}
<1> USE DEF PanelInv
<1>1. /\ ~page.due
      /\ section' = [p \in Sections |-> IF p \in Stale THEN [BlankPart EXCEPT !.scope = ScopeOf(p)] ELSE section[p]]
      /\ requests' = others \cup theirs \cup loads
      /\ UNCHANGED <<saved, page, panel, bookmark, runs, clicks>>
  <2>1. ~page.due /\ UNCHANGED <<saved, page, panel, bookmark, runs, clicks>>
    BY DEF PartEffects
  <2>2. section' = [p \in Sections |-> IF p \in Stale THEN [BlankPart EXCEPT !.scope = ScopeOf(p)] ELSE section[p]]
    BY DEF PartEffects
  <2>3. requests' = others \cup theirs \cup loads
    BY Zenon DEF PartEffects
  <2> QED
    BY <2>1, <2>2, <2>3
<1>2. \A q \in others : q \in requests /\ q.by \notin Stale /\ RequestOk(q, runs)
  BY DEF RequestInv
<1>3. \A q \in theirs : RequestOk(q, runs) /\ q.by \in Stale /\ (~q.live \/ q.left)
  <2> SUFFICES ASSUME NEW p \in Stale, NEW q \in Staying(p)
      PROVE  RequestOk(q, runs) /\ q.by = p /\ (~q.live \/ q.left)
    OBVIOUS
  <2>1. PICK qs : qs = AskedBy(p)
    OBVIOUS
  <2>2. \A r \in qs : RequestOk(r, runs) /\ r.by = p
    BY <2>1 DEF AskedBy, RequestInv
  <2>3. PICK gone : gone = Gone(p)
    OBVIOUS
  <2>4. q \in Expired(qs \ gone) \/ q \in gone \/ q \in Unmounted(qs)
    BY <2>1, <2>3
  <2>5. \A r \in gone : r \in qs /\ r.left
    BY <2>1, <2>3
  <2> HIDE DEF Staying, Stale, Gone
  <2>6. CASE q \in Expired(qs \ gone)
    <3>1. \A r \in qs \ gone : RequestOk(r, runs) /\ r.by = p
      BY <2>2
    <3> QED
      BY <2>6, <3>1, ExpiredAre
  <2>7. CASE q \in gone
    BY <2>2, <2>5, <2>7
  <2>8. CASE q \in Unmounted(qs)
    BY <2>2, <2>8, UnmountedAre
  <2> QED
    BY <2>4, <2>6, <2>7, <2>8
<1>4. \A q \in loads : /\ RequestOk(q, runs) /\ q.by \in Stale /\ q.kind = "load"
                       /\ q.scope = ScopeOf(q.by) /\ q.scope # NoRecord
  <2> SUFFICES ASSUME NEW p \in Stale, HasFile(p)
      PROVE  /\ RequestOk(load(p), runs) /\ load(p).by = p /\ load(p).kind = "load"
             /\ load(p).scope = ScopeOf(p) /\ ScopeOf(p) # NoRecord
    OBVIOUS
  <2>1. ScopeOf(p) # NoRecord
    BY DEF HasFile
  <2>2. panel.run.id \in 1..Len(runs)
    BY <2>1, ScopeKnown DEF Known
  <2>3. PICK q, on, steps : on = [id |-> panel.run.id] /\ steps = <<"file">>
                            /\ q = Asking(p, "load", on, steps, panel.choice)
    OBVIOUS
  <2>4. q = load(p)
    BY <2>3, AskedIs
  <2>5. steps \in Remaining("load") /\ steps # <<>> /\ "load" \in PartKinds /\ p \in Sections /\ p # "panel"
    BY <2>3 DEF Remaining, PartKinds, Sections
  <2>6. AboutKnown(q, runs)
    <3>1. q.kind = "load" /\ q.on.id \in 1..Len(runs)
      BY <2>2, <2>3 DEF Asking
    <3> QED
      BY <3>1 DEF AboutKnown
  <2>7. panel.choice \in PlanChoices
    BY DEF PageInv
  <2> HIDE DEF load, Stale, loads
  <2>8. RequestOk(q, runs) /\ q.by = p /\ q.kind = "load" /\ q.scope = ScopeOf(p)
    BY <2>3, <2>5, <2>6, <2>7, NewRequest
  <2> QED
    BY <2>1, <2>4, <2>8
<1>5. "panel" \notin Stale /\ Stale \subseteq Sections
  BY DEF Sections
<1>6. \A p \in Sections : ScopeOf(p)' = ScopeOf(p)
  BY <1>1 DEF ScopeOf
<1>7. \A p \in Sections :
        IF p \in Stale THEN section'[p] = [BlankPart EXCEPT !.scope = ScopeOf(p)]
                       ELSE section'[p] = section[p] /\ section[p].scope = ScopeOf(p)
  BY <1>1
<1>8. \A p \in Stale : /\ SectionOk(p, section'[p], runs) /\ section'[p].scope = ScopeOf(p)
                       /\ ~section'[p].locked
  <2> SUFFICES ASSUME NEW p \in Stale, NEW x, x = [BlankPart EXCEPT !.scope = ScopeOf(p)]
      PROVE  SectionOk(p, x, runs) /\ x.scope = ScopeOf(p) /\ ~x.locked
    BY <1>5, <1>7
  <2>1. /\ x.scope = ScopeOf(p) /\ x.locked = FALSE /\ x.file = NoRecord /\ x.observed = FALSE /\ x.proposal = NoRecord
        /\ x = [scope |-> x.scope, locked |-> x.locked, file |-> x.file, observed |-> x.observed, proposal |-> x.proposal]
    BY DEF BlankPart
  <2> QED
    BY <2>1, ScopeKnown DEF SectionOk
<1> HIDE DEF Stale, Staying, others, theirs, load, loads
<1>9. ServerInv' /\ PageInv'
  BY <1>1 DEF ServerInv, PageInv
<1>10. SectionInv'
  <2>1. \A p \in Sections : SectionOk(p, section'[p], runs)
    BY <1>7, <1>8 DEF SectionInv
  <2>2. section' = [p \in Sections |-> section'[p]]
    BY <1>1
  <2> QED
    BY <1>1, <2>1, <2>2 DEF SectionInv
<1>11. RequestInv'
  BY <1>1, <1>2, <1>3, <1>4 DEF RequestInv
<1>12. \A q \in requests' : q.by = "panel" => q \in requests
  BY <1>1, <1>2, <1>3, <1>4, <1>5
<1>13. \A q \in requests : q.by \notin Stale => q \in requests'
  BY <1>1 DEF others
<1>14. PanelLock' /\ PlanInv'
  BY <1>1, <1>5, <1>12, <1>13 DEF PanelLock, PlanInv, PanelWaits
<1>15. PartLock'
  <2> SUFFICES ASSUME NEW p \in Sections
      PROVE  /\ \A q \in requests' : PartWaits(p, q) => q.scope # NoRecord /\ q.scope = section'[p].scope
             /\ \A q, o \in requests' : ForPart(p, q) /\ ForPart(p, o) => q = o
             /\ (~page.due /\ section'[p].scope = ScopeOf(p)) =>
                    (section'[p].locked <=> \E q \in requests' : ForPart(p, q))
    BY <1>1, <1>6 DEF PartLock
  <2>1. CASE p \in Stale
    <3>1. \A q \in requests' : PartWaits(p, q) => q \in loads
      BY <1>1, <1>2, <1>3, <2>1 DEF PartWaits
    <3>2. \A q \in requests' : ~ForPart(p, q)
      BY <3>1, <1>4 DEF ForPart
    <3> QED
      BY <3>1, <3>2, <1>4, <1>8, <2>1 DEF PartWaits
  <2>2. CASE p \notin Stale
    <3>1. \A q : q.by = p => (q \in requests' <=> q \in requests)
      BY <1>1, <1>2, <1>3, <1>4, <1>13, <2>2
    <3>2. section'[p] = section[p]
      BY <1>7, <2>2
    <3> QED
      BY <3>1, <3>2 DEF PartLock, ForPart, PartWaits
  <2> QED
    BY <2>1, <2>2
<1> QED
  BY <1>9, <1>10, <1>11, <1>14, <1>15

LEMMA ChooseKeeps ==
  ASSUME PanelInv, Choose
  PROVE  PanelInv'
<1> USE DEF PanelInv
<1>1. PICK choice \in PlanChoices : panel' = [panel EXCEPT !.choice = choice, !.plan = NoRecord]
  BY DEF Choose
<1>2. /\ ~panel.locked /\ ~page.due
      /\ requests' = Expired(AskedBy("panel")) \cup (requests \ AskedBy("panel"))
      /\ UNCHANGED <<saved, page, section, bookmark, runs>>
  BY DEF Choose, Acts, Settled
<1>3. /\ panel'.choice = choice /\ panel'.plan = NoRecord /\ panel'.run = panel.run /\ panel'.of = panel.of /\ panel'.locked = panel.locked
      /\ panel' = [plan |-> NoRecord, run |-> panel.run, of |-> panel.of, choice |-> choice, locked |-> panel.locked]
  BY <1>1 DEF PageInv
<1>4. \A q \in Expired(AskedBy("panel")) : RequestOk(q, runs) /\ q.by = "panel" /\ ~q.live
  <2>1. \A q \in AskedBy("panel") : RequestOk(q, runs) /\ q.by = "panel"
    BY DEF AskedBy, RequestInv
  <2> QED
    BY <2>1, ExpiredAre
<1>5. \A q \in requests' : /\ RequestOk(q, runs) /\ ~PanelWaits(q)
                           /\ q.by # "panel" => q \in requests
  BY <1>2, <1>4 DEF AskedBy, RequestInv, PanelWaits
<1>6. \A q \in requests : q.by # "panel" => q \in requests'
  BY <1>2 DEF AskedBy
<1>7. ServerInv' /\ SectionInv' /\ RequestInv'
  BY <1>2, <1>5 DEF ServerInv, SectionInv, RequestInv
<1>8. PageInv'
  BY <1>2, <1>3 DEF PageInv
<1>9. PanelLock' /\ PlanInv'
  BY <1>2, <1>3, <1>5 DEF PanelLock, PlanInv
<1>10. PartLock'
  <2>1. \A p \in Sections : ScopeOf(p)' = ScopeOf(p)
    BY <1>2, <1>3 DEF ScopeOf
  <2>2. \A p \in Sections : \A q : ForPart(p, q) \/ PartWaits(p, q) => q.by # "panel"
    BY DEF ForPart, PartWaits, Sections
  <2> QED
    BY <1>2, <1>5, <1>6, <2>1, <2>2 DEF PartLock
<1> QED
  BY <1>7, <1>8, <1>9, <1>10

LEMMA PerformKeeps ==
  ASSUME PanelInv, NEW kind \in {"preflight", "start", "read", "resume", "cancel"}, Perform(kind)
  PROVE  PanelInv'
<1>0. ServerInv /\ PageInv /\ SectionInv /\ RequestInv /\ PanelLock /\ PartLock /\ PlanInv
  BY DEF PanelInv
<1>1. PICK q, on, steps :
        /\ on = CASE kind = "preflight" -> NoRecord
                  [] kind = "start" -> panel.plan
                  [] OTHER -> [id |-> panel.run.id]
        /\ steps = <<kind>>
        /\ q = Asking("panel", kind, on, steps, panel.choice)
  OBVIOUS
<1>2. /\ ~panel.locked /\ ~page.due
      /\ requests' = requests \cup {q}
      /\ UNCHANGED <<saved, page, section, bookmark, runs>>
  BY <1>1, AskedIs DEF Perform, CanAsk, Acts, Settled
<1>3. /\ panel'.choice = panel.choice /\ panel'.plan = panel.plan /\ panel'.run = panel.run /\ panel'.locked = TRUE
      /\ panel' = [plan |-> panel.plan, run |-> panel.run, of |-> panel.of, choice |-> panel.choice, locked |-> TRUE]
  BY <1>0 DEF Perform, PageInv
<1>4. /\ kind = "preflight" => ~page.dirty
      /\ kind = "start" => on \in Plans
      /\ kind \in {"read", "resume", "cancel"} => on.id \in 1..Len(runs)
  BY <1>0, <1>1 DEF Perform, PageInv, Known
<1>5. AboutKnown(q, runs)
  <2>1. q.kind = kind /\ q.on = on
    BY <1>1 DEF Asking
  <2> QED
    BY <1>4, <2>1 DEF AboutKnown
<1>6. /\ RequestOk(q, runs) /\ q.by = "panel" /\ q.kind = kind /\ q.live
      /\ q.version = page.version /\ q.choice = panel.choice
  <2>1. steps \in Remaining(kind) /\ steps # <<>> /\ kind \in PanelKinds
    BY <1>1 DEF Remaining, PanelKinds
  <2>2. panel.choice \in PlanChoices
    BY <1>0 DEF PageInv
  <2>3. PICK by : by = "panel"
    OBVIOUS
  <2>4. q = Asking(by, kind, on, steps, panel.choice)
    BY <1>1, <2>3
  <2>5. /\ RequestOk(q, runs) /\ q.by = by /\ q.kind = kind /\ q.live
        /\ q.version = page.version /\ q.choice = panel.choice
    BY <1>0, <1>5, <2>1, <2>2, <2>3, <2>4, NewRequest
  <2> QED
    BY <2>3, <2>5
<1>7. ServerInv' /\ SectionInv' /\ RequestInv'
  BY <1>0, <1>2, <1>6 DEF ServerInv, SectionInv, RequestInv
<1>8. PageInv'
  BY <1>0, <1>2, <1>3 DEF PageInv
<1>9. \A o \in requests : ~PanelWaits(o)
  BY <1>0, <1>2 DEF PanelLock
<1>10. PanelLock'
  BY <1>2, <1>3, <1>6, <1>9 DEF PanelLock, PanelWaits
<1>11. PlanInv'
  BY <1>0, <1>2, <1>3, <1>4, <1>6, <1>9 DEF PlanInv, PanelWaits
<1>12. PartLock'
  <2>1. \A p \in Sections : ScopeOf(p)' = ScopeOf(p)
    BY <1>2, <1>3 DEF ScopeOf
  <2>2. \A p \in Sections : ~PartWaits(p, q) /\ ~ForPart(p, q)
    BY <1>6 DEF ForPart, PartWaits, Sections
  <2> QED
    BY <1>0, <1>2, <2>1, <2>2 DEF PartLock
<1> QED
  BY <1>7, <1>8, <1>10, <1>11, <1>12 DEF PanelInv

\* What a section sends, whatever it forgets of its record meanwhile.
LEMMA SendingKeeps ==
  ASSUME PanelInv, NEW p \in Sections, NEW kind \in PartKinds \ {"load"}, NEW on, NEW steps, NEW now,
         Sending(p, kind, on, steps, now),
         steps \in Remaining(kind), steps # <<>>,
         AboutKnown(Asking(p, kind, on, steps, panel.choice), runs),
         SectionOk(p, now, runs), now.scope = section[p].scope
  PROVE  PanelInv'
<1>0. ServerInv /\ PageInv /\ SectionInv /\ RequestInv /\ PanelLock /\ PartLock /\ PlanInv
  BY DEF PanelInv
<1>1. PICK q : q = Asking(p, kind, on, steps, panel.choice)
  OBVIOUS
<1>2. /\ ~page.due /\ section[p].scope # NoRecord /\ ~section[p].locked
      /\ section' = [section EXCEPT ![p] = [now EXCEPT !.locked = TRUE]]
      /\ requests' = requests \cup {q}
      /\ UNCHANGED <<saved, page, panel, bookmark, runs>>
  BY <1>1, AskedIs DEF Sending, CanAsk, Acts, Settled
<1>3. section[p].scope = ScopeOf(p)
  BY DEF Sending, CanAsk, Acts, Settled
<1>4. /\ RequestOk(q, runs) /\ q.by = p /\ q.kind = kind /\ q.live /\ ~q.left
      /\ q.scope = ScopeOf(p)
  <2>1. panel.choice \in PlanChoices
    BY <1>0 DEF PageInv
  <2>2. p # "panel" /\ kind \in PartKinds
    BY DEF Sections
  <2>3. RequestOk(q, runs) /\ q.by = p /\ q.kind = kind /\ q.live /\ ~q.left
        /\ q.scope = IF p = "panel" THEN NoRecord ELSE ScopeOf(p)
    BY <1>0, <1>1, <2>1, <2>2, NewRequest
  <2> QED
    BY <2>2, <2>3
<1>5. /\ section' = [t \in Sections |-> section'[t]]
      /\ section'[p] = [now EXCEPT !.locked = TRUE]
      /\ \A t \in Sections : t # p => section'[t] = section[t]
  <2>1. section = [t \in Sections |-> section[t]]
    BY <1>0 DEF SectionInv
  <2> QED
    BY <1>2, <2>1
<1>6. PICK x : x = section'[p]
  OBVIOUS
<1>7. /\ x.scope = section[p].scope /\ x.locked = TRUE /\ x.file = now.file /\ x.proposal = now.proposal
      /\ x = [scope |-> x.scope, locked |-> x.locked, file |-> x.file, observed |-> x.observed, proposal |-> x.proposal]
  BY <1>5, <1>6 DEF SectionOk
<1>8. SectionOk(p, x, runs)
  BY <1>7 DEF SectionOk
<1>9. ServerInv' /\ PageInv' /\ RequestInv'
  BY <1>0, <1>2, <1>4 DEF ServerInv, PageInv, RequestInv
<1>10. SectionInv'
  BY <1>0, <1>2, <1>5, <1>6, <1>8 DEF SectionInv
<1>11. ~PanelWaits(q)
  BY <1>4 DEF PanelWaits, Sections
<1>12. PanelLock' /\ PlanInv'
  BY <1>0, <1>2, <1>11 DEF PanelLock, PlanInv
<1>13. PartLock'
  <2>1. \A t \in Sections : section'[t].scope = section[t].scope
                            /\ (t # p => section'[t].locked = section[t].locked)
    BY <1>5, <1>6, <1>7
  <2>2. section'[p].locked
    BY <1>6, <1>7
  <2>3. kind # "load"
    OBVIOUS
  <2> QED
    BY <1>0, <1>2, <1>3, <1>4, <2>1, <2>2, <2>3, Asked
<1> QED
  BY <1>9, <1>10, <1>12, <1>13 DEF PanelInv

\* A section that has run its effects is of a run that is known.
LEMMA SectionRun ==
  ASSUME PanelInv, Settled, NEW p \in Sections, section[p].scope # NoRecord
  PROVE  /\ section[p].scope = ScopeOf(p) /\ ScopeOf(p).id = panel.run.id
         /\ panel.run.id \in 1..Len(runs)
         /\ SectionOk(p, section[p], runs)
<1>1. section[p].scope = ScopeOf(p)
  BY DEF Settled
<1>2. panel.run.id \in 1..Len(runs) /\ ScopeOf(p).id = panel.run.id
  BY <1>1, ScopeKnown DEF PanelInv, Known
<1> QED
  BY <1>1, <1>2 DEF PanelInv, SectionInv

LEMMA DispatchVoiceKeeps ==
  ASSUME PanelInv, DispatchVoice
  PROVE  PanelInv'
<1>1. PICK p, kind, on, steps : p = "voice" /\ kind = "dispatch" /\ on = [id |-> panel.run.id] /\ steps = <<"dispatch">>
  OBVIOUS
<1>2. Sending(p, kind, on, steps, section[p]) /\ section[p].scope # NoRecord /\ Settled /\ p \in Sections
  BY <1>1 DEF DispatchVoice, SendPart, Sending, CanAsk, Acts, Sections
<1>3. panel.run.id \in 1..Len(runs) /\ SectionOk(p, section[p], runs)
  BY <1>2, SectionRun
<1>4. AboutKnown(Asking(p, kind, on, steps, panel.choice), runs)
  BY <1>1, <1>3 DEF AboutKnown, Asking
<1>5. steps \in Remaining(kind) /\ steps # <<>> /\ kind \in PartKinds \ {"load"}
  BY <1>1 DEF Remaining, PartKinds
<1> QED
  BY <1>2, <1>3, <1>4, <1>5, SendingKeeps

LEMMA ReviewVoiceKeeps ==
  ASSUME PanelInv, ReviewVoice
  PROVE  PanelInv'
<1>1. PICK verdict \in {"approved", "rejected"} :
        SendPart("voice", "review", [id |-> panel.run.id, file |-> section["voice"].file.id, verdict |-> verdict],
                 <<"review", "read">>)
  BY DEF ReviewVoice
<1>2. PICK p, kind, on, steps :
        /\ p = "voice" /\ kind = "review" /\ steps = <<"review", "read">>
        /\ on = [id |-> panel.run.id, file |-> section["voice"].file.id, verdict |-> verdict]
  OBVIOUS
<1>3. Sending(p, kind, on, steps, section[p]) /\ section[p].scope # NoRecord /\ Settled /\ p \in Sections
  BY <1>1, <1>2 DEF SendPart, Sending, CanAsk, Acts, Sections
<1>4. panel.run.id \in 1..Len(runs) /\ SectionOk(p, section[p], runs)
  BY <1>3, SectionRun
<1>5. AboutKnown(Asking(p, kind, on, steps, panel.choice), runs)
  BY <1>2, <1>4 DEF AboutKnown, Asking
<1>6. steps \in Remaining(kind) /\ steps # <<>> /\ kind \in PartKinds \ {"load"}
  BY <1>2 DEF Remaining, PartKinds
<1> QED
  BY <1>3, <1>4, <1>5, <1>6, SendingKeeps

LEMMA RecordObservationKeeps ==
  ASSUME PanelInv, RecordObservation
  PROVE  PanelInv'
<1>1. PICK p, kind, on, steps, now :
        /\ p = "picture" /\ kind = "observe" /\ steps = <<"observe">>
        /\ on = [id |-> panel.run.id, file |-> section["picture"].file.id]
        /\ now = [section["picture"] EXCEPT !.observed = FALSE, !.proposal = NoRecord]
  OBVIOUS
<1>2. Sending(p, kind, on, steps, now) /\ section[p].scope # NoRecord /\ Settled /\ p \in Sections
  BY <1>1 DEF RecordObservation, Sending, CanAsk, Acts, Sections
<1>3. panel.run.id \in 1..Len(runs) /\ SectionOk(p, section[p], runs)
  BY <1>2, SectionRun
<1>4. SectionOk(p, now, runs) /\ now.scope = section[p].scope
  <2>1. PICK x : x = section[p]
    OBVIOUS
  <2>2. now = [x EXCEPT !.observed = FALSE, !.proposal = NoRecord]
    BY <1>1, <2>1
  <2>3. /\ now.scope = x.scope /\ now.locked = x.locked /\ now.file = x.file /\ now.proposal = NoRecord
        /\ now = [scope |-> now.scope, locked |-> now.locked, file |-> now.file,
                  observed |-> now.observed, proposal |-> now.proposal]
    BY <1>3, <2>1, <2>2 DEF SectionOk
  <2> QED
    BY <1>3, <2>1, <2>3 DEF SectionOk
<1>5. AboutKnown(Asking(p, kind, on, steps, panel.choice), runs)
  BY <1>1, <1>3 DEF AboutKnown, Asking
<1>6. steps \in Remaining(kind) /\ steps # <<>> /\ kind \in PartKinds \ {"load"}
  BY <1>1 DEF Remaining, PartKinds
<1> QED
  BY <1>2, <1>4, <1>5, <1>6, SendingKeeps

LEMMA InspectRepairKeeps ==
  ASSUME PanelInv, NEW p \in Sections, InspectRepair(p)
  PROVE  PanelInv'
<1>1. PICK kind, on, steps : kind = "inspect" /\ on = [id |-> panel.run.id] /\ steps = <<"propose">>
  OBVIOUS
<1>2. Sending(p, kind, on, steps, section[p]) /\ section[p].scope # NoRecord /\ Settled
  BY <1>1 DEF InspectRepair, SendPart, Sending, CanAsk, Acts
<1>3. /\ section[p].scope = ScopeOf(p) /\ ScopeOf(p).id = panel.run.id
      /\ panel.run.id \in 1..Len(runs) /\ SectionOk(p, section[p], runs)
  BY <1>2, SectionRun
<1>4. AboutKnown(Asking(p, kind, on, steps, panel.choice), runs)
  BY <1>1, <1>2, <1>3 DEF AboutKnown, Asking, Sections
<1>5. steps \in Remaining(kind) /\ steps # <<>> /\ kind \in PartKinds \ {"load"}
  BY <1>1 DEF Remaining, PartKinds
<1> QED
  BY <1>2, <1>3, <1>4, <1>5, SendingKeeps

LEMMA SubmitRepairKeeps ==
  ASSUME PanelInv, NEW p \in Sections, SubmitRepair(p)
  PROVE  PanelInv'
<1>1. PICK kind, on, steps : kind = "repair" /\ on = section[p].proposal /\ steps = <<"repair", "read">>
  OBVIOUS
<1>2. /\ Sending(p, kind, on, steps, section[p]) /\ section[p].scope # NoRecord /\ Settled
      /\ section[p].proposal # NoRecord
  BY <1>1 DEF SubmitRepair, SendPart, Sending, CanAsk, Acts
<1>3. SectionOk(p, section[p], runs)
  BY <1>2, SectionRun
<1>4. on.id \in 1..Len(runs)
  BY <1>1, <1>2, <1>3 DEF SectionOk, ProposedFor
<1>5. AboutKnown(Asking(p, kind, on, steps, panel.choice), runs)
  BY <1>1, <1>4 DEF AboutKnown, Asking
<1>6. steps \in Remaining(kind) /\ steps # <<>> /\ kind \in PartKinds \ {"load"}
  BY <1>1 DEF Remaining, PartKinds
<1> QED
  BY <1>2, <1>3, <1>5, <1>6, SendingKeeps

-----------------------------------------------------------------------------
(* The server: rows that change, and what is answered of them.             *)

LEMMA RowChanged ==
  ASSUME ServerInv, NEW r \in 1..Len(runs), NEW row \in Rows,
         row.key = runs[r].key, row.plan = runs[r].plan, row.clock >= runs[r].clock,
         runs' = [runs EXCEPT ![r] = row]
  PROVE  Goes /\ Len(runs') = Len(runs) /\ runs'[r] = row
<1>1. runs \in Seq(Rows) /\ Len(runs) \in Nat /\ \A t \in 1..Len(runs) : runs[t] \in Rows /\ runs[t].clock \in Nat
  BY RowsAre DEF ServerInv
<1>2. /\ runs' \in Seq(Rows) /\ Len(runs') = Len(runs)
      /\ \A t \in 1..Len(runs) : runs'[t] = IF t = r THEN row ELSE runs[t]
  BY <1>1
<1>3. Grew(runs, runs')
  BY <1>1, <1>2 DEF Grew
<1>4. \A t \in 1..Len(runs) : runs'[t].key = runs[t].key /\ runs'[t].plan = runs[t].plan
  BY <1>2
<1> QED
  BY <1>2, <1>3, <1>4 DEF Goes, ServerInv

LEMMA NothingGoes ==
  ASSUME ServerInv, UNCHANGED runs
  PROVE  Goes
  BY RowsAre DEF ServerInv, Grew, Goes

\* Which of its steps a request comes to, and what is left then.
LEMMA StepsAre ==
  ASSUME NEW q, NEW table, RequestType(q, table), q.steps # <<>>
  PROVE  LET step == Head(q.steps) IN
         /\ Tail(q.steps) \in Remaining(q.kind)
         /\ step = "read" => q.kind \in {"read", "restore", "review", "repair"}
         /\ step = "file" => q.kind = "load"
         /\ step = "propose" => q.kind = "inspect"
         /\ step \in {"preflight", "start", "resume", "cancel", "dispatch", "observe"} => q.kind = step
         /\ step \in {"review", "repair"} => q.kind = step /\ Tail(q.steps) # <<>>
<1>1. q.kind \in PanelKinds \cup PartKinds /\ q.steps \in Remaining(q.kind)
  BY DEF RequestType
<1>2. CASE q.kind = "restore"
  <2>1. q.steps = <<"read">>
    BY <1>1, <1>2 DEF Remaining
  <2> QED
    BY <1>2, <2>1 DEF Remaining
<1>3. CASE q.kind = "load"
  <2>1. q.steps = <<"file">>
    BY <1>1, <1>3 DEF Remaining
  <2> QED
    BY <1>3, <2>1 DEF Remaining
<1>4. CASE q.kind = "inspect"
  <2>1. q.steps = <<"propose">>
    BY <1>1, <1>4 DEF Remaining
  <2> QED
    BY <1>4, <2>1 DEF Remaining
<1>5. CASE q.kind \in {"review", "repair"}
  <2>1. q.steps = <<q.kind, "read">> \/ q.steps = <<"read">>
    BY <1>1, <1>5 DEF Remaining
  <2>2. CASE q.steps = <<q.kind, "read">>
    BY <1>5, <2>2 DEF Remaining
  <2>3. CASE q.steps = <<"read">>
    BY <1>5, <2>3 DEF Remaining
  <2> QED
    BY <2>1, <2>2, <2>3
<1>6. CASE q.kind \notin {"restore", "load", "inspect", "review", "repair"}
  <2>1. q.steps = <<q.kind>> /\ Remaining(q.kind) = {<<q.kind>>, <<>>}
    BY <1>1, <1>6 DEF Remaining
  <2>2. Head(q.steps) = q.kind /\ Tail(q.steps) = <<>>
    BY <2>1
  <2>3. q.kind \in {"preflight", "start", "read", "resume", "cancel", "dispatch", "observe"}
    BY <1>1, <1>6 DEF PanelKinds, PartKinds
  <2> QED
    BY <2>1, <2>2, <2>3
<1> QED
  BY <1>2, <1>3, <1>4, <1>5, <1>6

LEMMA EndsInNone ==
  ASSUME NEW kind
  PROVE  <<>> \in Remaining(kind)
  BY DEF Remaining

\* A request is refused, or its answer lost, whatever became of the runs.
LEMMA RefusedKeeps ==
  ASSUME PanelInv, NEW r \in requests, RefuseRequest(r),
         UNCHANGED <<saved, page, panel, section, bookmark>>, Goes
  PROVE  PanelInv'
<1>1. PICK steps, value : steps = <<>> /\ value = LostAnswer
  OBVIOUS
<1>2. requests' = (requests \ {r}) \cup {Now(r, steps, value)}
  BY <1>1 DEF RefuseRequest, Now
<1>3. steps \in Remaining(r.kind)
  BY <1>1, EndsInNone
<1> QED
  BY <1>1, <1>2, <1>3, ServedKeeps

\* A step of a request is answered with what it is to be answered with.
LEMMA AnsweredKeeps ==
  ASSUME PanelInv, NEW r \in requests, NEW value, AnswerRequest(r, value), r.steps # <<>>,
         UNCHANGED <<saved, page, panel, section, bookmark>>, Goes,
         Tail(r.steps) = <<>> => AnswerOf(r, value, runs')
  PROVE  PanelInv'
<1>1. RequestType(r, runs)
  BY DEF PanelInv, RequestInv, RequestOk
<1>2. PICK steps : steps = Tail(r.steps)
  OBVIOUS
<1>3. steps \in Remaining(r.kind)
  BY <1>1, <1>2, StepsAre
<1>4. requests' = (requests \ {r}) \cup {Now(r, steps, value)}
  <2>1. [r EXCEPT !.steps = Tail(@), !.answer = value] = Now(r, steps, value)
    BY <1>1, <1>2 DEF Now, RequestType
  <2> QED
    BY <2>1 DEF AnswerRequest
<1> QED
  BY <1>2, <1>3, <1>4, ServedKeeps

LEMMA RunRecordKnown ==
  ASSUME ServerInv, NEW r \in 1..Len(runs)
  PROVE  /\ Known(RunRecord(r), runs)
         /\ RunRecord(r).id = r /\ RunRecord(r).clock = runs[r].clock
         /\ runs[r] \in Rows /\ runs[r].clock \in Nat
  BY RowsAre DEF ServerInv, Known, Records, RunRecord

\* A run of which a request changes the status, or gives it a render.
Becomes(r, row) ==
    /\ row = [plan |-> runs[r].plan, key |-> runs[r].key, status |-> row.status, take |-> runs[r].take,
              job |-> row.job, seen |-> runs[r].seen, clock |-> runs[r].clock]
    /\ row.status \in Statuses /\ row.job \in Nat

LEMMA ChangeKeeps ==
  ASSUME PanelInv, NEW q \in requests, q.steps # <<>>, q.on.id \in 1..Len(runs), NEW row, Becomes(q.on.id, row),
         Change(q, row), q.kind \in {"resume", "cancel", "dispatch", "review", "repair"},
         UNCHANGED <<saved, page, panel, section, bookmark>>
  PROVE  PanelInv'
<1>1. PICK r \in 1..Len(runs) : r = q.on.id
  OBVIOUS
<1>2. PICK next : next = [row EXCEPT !.clock = @ + 1]
  OBVIOUS
<1>3. runs[r] \in Rows /\ runs[r].clock \in Nat /\ ServerInv
  BY RowsAre DEF PanelInv, ServerInv
<1>4. /\ row.clock = runs[r].clock /\ row.take = runs[r].take /\ row.seen = runs[r].seen
      /\ row.plan = runs[r].plan /\ row.key = runs[r].key
      /\ row = [plan |-> row.plan, key |-> row.key, status |-> row.status, take |-> row.take,
                job |-> row.job, seen |-> row.seen, clock |-> row.clock]
  BY <1>1 DEF Becomes
<1>5. /\ next.plan = runs[r].plan /\ next.key = runs[r].key /\ next.status = row.status /\ next.take = runs[r].take
      /\ next.job = row.job /\ next.seen = runs[r].seen /\ next.clock = runs[r].clock + 1
      /\ next = [plan |-> next.plan, key |-> next.key, status |-> next.status, take |-> next.take,
                 job |-> next.job, seen |-> next.seen, clock |-> next.clock]
  BY <1>2, <1>4
<1>6. row.status \in Statuses /\ row.job \in Nat
  BY DEF Becomes
<1>7. next \in Rows
  BY <1>3, <1>5, <1>6 DEF Rows
<1>8. runs' = [runs EXCEPT ![r] = next]
  BY <1>1, <1>2 DEF Change
<1>9. Goes /\ Len(runs') = Len(runs) /\ runs'[r] = next
  <2>1. next.clock >= runs[r].clock
    BY <1>3, <1>5
  <2>2. next.key = runs[r].key /\ next.plan = runs[r].plan
    BY <1>5
  <2> QED
    BY <1>3, <1>7, <1>8, <2>1, <2>2, RowChanged
<1>10. PICK value : value = [RunRecord(r) EXCEPT !.status = next.status, !.job = next.job, !.clock = next.clock]
  OBVIOUS
<1>11. AnswerRequest(q, value)
  BY <1>1, <1>2, <1>10 DEF Change
<1>12. value = [id |-> r, status |-> next.status, take |-> runs[r].take, job |-> next.job, clock |-> next.clock]
  BY <1>10 DEF RunRecord
<1>13. Known(value, runs')
  <2>1. value \in Records
    BY <1>3, <1>5, <1>6, <1>12 DEF Records, Rows
  <2>2. value.id = r /\ value.clock = next.clock /\ next.clock \in Nat
    BY <1>3, <1>5, <1>12
  <2>3. runs'[value.id].clock = next.clock
    BY <1>9, <2>2
  <2> QED
    BY <1>9, <2>1, <2>2, <2>3 DEF Known
<1>14. AnswerOf(q, value, runs')
  BY <1>13 DEF AnswerOf
<1> QED
  BY <1>9, <1>11, <1>14, AnsweredKeeps

LEMMA DoKeeps ==
  ASSUME PanelInv, NEW q \in requests, q.steps # <<>>, q.on.id \in 1..Len(runs), NEW row, Becomes(q.on.id, row),
         NEW allowed, Do(q, allowed, row), q.kind \in {"resume", "cancel", "dispatch", "review", "repair"},
         UNCHANGED <<saved, page, panel, section, bookmark>>
  PROVE  PanelInv'
<1>1. CASE allowed
  BY <1>1, ChangeKeeps DEF Do
<1>2. CASE ~allowed
  BY <1>2, RefusedKeeps, NothingGoes DEF Do, PanelInv
<1> QED
  BY <1>1, <1>2

LEMMA StartRunKeeps ==
  ASSUME PanelInv, NEW q \in requests, q.steps # <<>>, q.kind = "start", StartRun(q),
         UNCHANGED <<saved, page, panel, section, bookmark>>
  PROVE  PanelInv'
<1> DEFINE Same == {r \in 1..Len(runs) : runs[r].key = StartKey(q)}
           Current == q.on.version = saved /\ q.on.choice = q.choice /\ Len(runs) < MaxRuns
           new == [plan |-> q.on, key |-> StartKey(q), status |-> "awaiting", take |-> 0,
                   job |-> 0, seen |-> 0, clock |-> 0]
           record == [id |-> Len(runs) + 1, status |-> "awaiting", take |-> 0, job |-> 0, clock |-> 0]
<1>1. ServerInv /\ RequestOk(q, runs) /\ Len(runs) \in Nat /\ runs \in Seq(Rows)
  BY RowsAre DEF PanelInv, RequestInv, ServerInv
<1>2. q.on \in Plans /\ StartKey(q) = q.on
  BY <1>1 DEF RequestOk, AboutKnown, StartKey
<1>3. CASE Same # {}
  <2>1. PICK r \in Same : r = CHOOSE t \in Same : TRUE
    BY <1>3
  <2>2. PICK value : value = RunRecord(r)
    OBVIOUS
  <2>3. AnswerRequest(q, value) /\ UNCHANGED runs
    BY <1>3, <2>1, <2>2 DEF StartRun
  <2>4. Known(value, runs')
    BY <1>1, <2>2, <2>3, RunRecordKnown
  <2>5. AnswerOf(q, value, runs') /\ Goes
    BY <1>1, <2>3, <2>4, NothingGoes DEF AnswerOf
  <2> QED
    BY <2>3, <2>5, AnsweredKeeps
<1>4. CASE Same = {} /\ ~Current
  <2>1. RefuseRequest(q) /\ UNCHANGED runs
    BY <1>4 DEF StartRun
  <2> QED
    BY <1>1, <2>1, RefusedKeeps, NothingGoes
<1>5. CASE Same = {} /\ Current
  <2>1. PICK row, value : row = new /\ value = record
    OBVIOUS
  <2>2. runs' = Append(runs, row) /\ AnswerRequest(q, value)
    BY <1>5, <2>1 DEF StartRun
  <2>3. row \in Rows /\ row.key = q.on /\ row.plan = q.on /\ row.clock = 0
    BY <1>2, <2>1 DEF Rows, Statuses
  <2>4. /\ runs' \in Seq(Rows) /\ Len(runs') = Len(runs) + 1
        /\ \A t \in 1..Len(runs) : runs'[t] = runs[t]
        /\ runs'[Len(runs) + 1] = row
    BY <1>1, <2>2, <2>3
  <2>5. \A t \in 1..Len(runs) : runs[t].clock \in Nat /\ runs[t].key # q.on
    BY <1>1, <1>2, <1>5, RowsAre
  <2>6. Goes
    <3>1. Grew(runs, runs')
      BY <1>1, <2>4, <2>5 DEF Grew
    <3>2. \A t \in 1..Len(runs') : t \in 1..Len(runs) \/ t = Len(runs) + 1
      BY <1>1, <2>4
    <3>3. \A t \in 1..Len(runs') : runs'[t].key = runs'[t].plan
      BY <1>1, <2>3, <2>4, <3>2 DEF ServerInv
    <3>4. ASSUME NEW t \in 1..Len(runs'), NEW u \in 1..Len(runs'), runs'[t].key = runs'[u].key
          PROVE  t = u
      <4>1. CASE t \in 1..Len(runs) /\ u \in 1..Len(runs)
        BY <1>1, <2>4, <3>4, <4>1 DEF ServerInv
      <4>2. CASE t = Len(runs) + 1 /\ u \in 1..Len(runs)
        BY <2>3, <2>4, <2>5, <3>4, <4>2
      <4>3. CASE u = Len(runs) + 1 /\ t \in 1..Len(runs)
        BY <2>3, <2>4, <2>5, <3>4, <4>3
      <4> QED
        BY <3>2, <4>1, <4>2, <4>3
    <3> QED
      BY <2>4, <3>1, <3>3, <3>4 DEF Goes
  <2>7. Known(value, runs')
    <3>1. value \in Records /\ value.id = Len(runs) + 1 /\ value.clock = 0
      BY <1>1, <2>1 DEF Records, Statuses
    <3>2. value.id \in 1..Len(runs') /\ runs'[value.id].clock = 0
      BY <1>1, <2>3, <2>4, <3>1
    <3> QED
      BY <3>1, <3>2 DEF Known
  <2>8. AnswerOf(q, value, runs')
    BY <2>7 DEF AnswerOf
  <2> QED
    BY <2>2, <2>6, <2>8, AnsweredKeeps
<1> QED
  BY <1>3, <1>4, <1>5

LEMMA ServeKeeps ==
  ASSUME PanelInv, NEW q \in requests, Serve(q)
  PROVE  PanelInv'
<1> DEFINE step == Head(q.steps)
           row == runs[q.on.id]
<1>1. /\ q.steps # <<>>
      /\ UNCHANGED <<saved, page, panel, section, bookmark>>
      /\ CASE step = "preflight" -> AnswerRequest(q, [id |-> 0, version |-> saved, choice |-> q.choice]) /\ UNCHANGED runs
           [] step = "start" -> StartRun(q)
           [] step = "read" -> AnswerRequest(q, RunRecord(q.on.id)) /\ UNCHANGED runs
           [] step = "resume" -> Do(q, row.status = "approved" /\ row.plan.version = saved,
                                    [row EXCEPT !.status = "rendering", !.job = 1])
           [] step = "cancel" -> Do(q, row.status \notin {"rendering", "rendered", "cancelled"},
                                    [row EXCEPT !.status = "cancelled"])
           [] step = "dispatch" -> Do(q, row.status = "awaiting" /\ row.plan.version = saved, [row EXCEPT !.status = "voicing"])
           [] step = "review" -> Do(q, row.status = "review" /\ row.take = q.on.file, [row EXCEPT !.status = q.on.verdict])
           [] step = "file" -> AnswerRequest(q, [id |-> IF q.by = "voice" THEN q.scope.shown.take ELSE q.scope.shown.job,
                                          seen |-> row.seen]) /\ UNCHANGED runs
           [] step = "observe" -> IF row.status = "rendered" /\ row.job = q.on.file
                                    THEN AnswerRequest(q, q.on) /\ runs' = [runs EXCEPT ![q.on.id].seen = row.job]
                                    ELSE RefuseRequest(q) /\ UNCHANGED runs
           [] step = "propose" -> AnswerRequest(q, Propose(q)) /\ UNCHANGED runs
           [] step = "repair" -> Do(q, q.on.of = RunRecord(q.on.id), Repaired(q))
  BY DEF Serve
<1>2. ServerInv /\ PageInv /\ RequestOk(q, runs) /\ RequestType(q, runs) /\ AboutKnown(q, runs)
  BY DEF PanelInv, RequestInv, RequestOk
<1>3. /\ step = "read" => q.kind \in {"read", "restore", "review", "repair"}
      /\ step = "file" => q.kind = "load"
      /\ step = "propose" => q.kind = "inspect"
      /\ step \in {"preflight", "start", "resume", "cancel", "dispatch", "observe"} => q.kind = step
      /\ step \in {"review", "repair"} => q.kind = step
  BY <1>1, <1>2, StepsAre
<1>4. UNCHANGED runs => Goes
  BY <1>2, NothingGoes
<1>5. q.kind \in {"read", "restore", "review", "repair", "resume", "cancel", "dispatch", "observe", "load"}
        => q.on.id \in 1..Len(runs)
  BY <1>2 DEF AboutKnown
<1>6. q.on.id \in 1..Len(runs) =>
        /\ row \in Rows /\ row.clock \in Nat /\ row.job \in Nat
        /\ row = [plan |-> row.plan, key |-> row.key, status |-> row.status, take |-> row.take,
                  job |-> row.job, seen |-> row.seen, clock |-> row.clock]
  BY <1>2, RowsAre DEF ServerInv, Rows
<1>7. CASE step = "preflight"
  <2>1. PICK value : value = [id |-> 0, version |-> saved, choice |-> q.choice]
    OBVIOUS
  <2>2. AnswerRequest(q, value) /\ UNCHANGED runs
    BY <1>1, <1>7, <2>1
  <2>3. value \in Plans /\ value.choice = q.choice
    BY <1>2, <2>1 DEF Plans, ServerInv, RequestType
  <2>4. AnswerOf(q, value, runs')
    BY <1>3, <1>7, <2>3 DEF AnswerOf
  <2> QED
    BY <1>1, <1>4, <2>2, <2>4, AnsweredKeeps
<1>8. CASE step = "start"
  BY <1>1, <1>3, <1>8, StartRunKeeps
<1>9. CASE step = "read"
  <2>1. PICK value : value = RunRecord(q.on.id)
    OBVIOUS
  <2>2. AnswerRequest(q, value) /\ UNCHANGED runs
    BY <1>1, <1>9, <2>1
  <2>3. Known(value, runs')
    BY <1>2, <1>3, <1>5, <1>9, <2>1, <2>2, RunRecordKnown
  <2>4. AnswerOf(q, value, runs')
    BY <1>3, <1>9, <2>3 DEF AnswerOf
  <2> QED
    BY <1>1, <1>4, <2>2, <2>4, AnsweredKeeps
<1>10. CASE step \in {"resume", "cancel", "dispatch", "review", "repair"}
  <2>1. PICK new, allowed :
           /\ Do(q, allowed, new)
           /\ \/ new = [row EXCEPT !.status = "rendering", !.job = 1]
              \/ \E to \in {"cancelled", "voicing"} : new = [row EXCEPT !.status = to]
              \/ step = "review" /\ new = [row EXCEPT !.status = q.on.verdict]
              \/ new = [row EXCEPT !.status = "rendering", !.job = @ + 1]
    <3>1. CASE step = "resume"
      BY <1>1, <3>1
    <3>2. CASE step = "cancel"
      BY <1>1, <3>2
    <3>3. CASE step = "dispatch"
      BY <1>1, <3>3
    <3>4. CASE step = "review"
      BY <1>1, <3>4
    <3>5. CASE step = "repair"
      BY <1>1, <3>5 DEF Repaired
    <3> QED
      BY <1>10, <3>1, <3>2, <3>3, <3>4, <3>5
  <2>2. step = "review" => q.on.verdict \in {"approved", "rejected"}
    BY <1>2, <1>3 DEF AboutKnown
  <2>3. q.kind = step /\ q.on.id \in 1..Len(runs)
    BY <1>3, <1>5, <1>10
  <2>4. PICK old : old = row
    OBVIOUS
  <2>5. /\ new.plan = old.plan /\ new.key = old.key /\ new.take = old.take /\ new.seen = old.seen /\ new.clock = old.clock
        /\ new.status \in Statuses /\ new.job \in Nat
        /\ new = [plan |-> new.plan, key |-> new.key, status |-> new.status, take |-> new.take,
                  job |-> new.job, seen |-> new.seen, clock |-> new.clock]
    <3>1. /\ old = [plan |-> old.plan, key |-> old.key, status |-> old.status, take |-> old.take,
                    job |-> old.job, seen |-> old.seen, clock |-> old.clock]
          /\ old.job \in Nat
      BY <1>6, <2>3, <2>4
    <3>2. CASE new = [old EXCEPT !.status = "rendering", !.job = 1]
      BY <3>1, <3>2 DEF Statuses
    <3>3. CASE \E to \in {"cancelled", "voicing", "approved", "rejected"} : new = [old EXCEPT !.status = to]
      BY <3>1, <3>3 DEF Statuses
    <3>4. CASE new = [old EXCEPT !.status = "rendering", !.job = @ + 1]
      <4>1. PICK job : job = old.job + 1
        OBVIOUS
      <4>2. new = [old EXCEPT !.status = "rendering", !.job = job]
        BY <3>1, <3>4, <4>1
      <4>3. job \in Nat
        BY <3>1, <4>1
      <4> QED
        BY <3>1, <4>2, <4>3 DEF Statuses
    <3> QED
      BY <2>1, <2>2, <2>4, <3>2, <3>3, <3>4
  <2>6. Becomes(q.on.id, new)
    BY <2>4, <2>5 DEF Becomes
  <2>7. q.kind \in {"resume", "cancel", "dispatch", "review", "repair"}
    BY <1>10, <2>3
  <2> QED
    BY <1>1, <2>1, <2>3, <2>6, <2>7, DoKeeps
<1>11. CASE step = "file"
  <2>1. PICK value : value = [id |-> IF q.by = "voice" THEN q.scope.shown.take ELSE q.scope.shown.job, seen |-> row.seen]
    OBVIOUS
  <2>2. AnswerRequest(q, value) /\ UNCHANGED runs
    BY <1>1, <1>11, <2>1
  <2>3. value.id = FileIn(q.by, q.scope)
    BY <2>1 DEF FileIn
  <2>4. AnswerOf(q, value, runs')
    BY <1>3, <1>11, <2>3 DEF AnswerOf
  <2> QED
    BY <1>1, <1>4, <2>2, <2>4, AnsweredKeeps
<1>12. CASE step = "observe"
  <2>1. CASE RefuseRequest(q) /\ UNCHANGED runs
    BY <1>1, <1>4, <2>1, RefusedKeeps
  <2>2. CASE AnswerRequest(q, q.on) /\ runs' = [runs EXCEPT ![q.on.id].seen = row.job]
    <3>1. PICK r \in 1..Len(runs) : r = q.on.id
      BY <1>3, <1>5, <1>12
    <3>2. PICK old, new : old = row /\ new = [old EXCEPT !.seen = old.job]
      OBVIOUS
    <3>3. /\ new.plan = old.plan /\ new.key = old.key /\ new.clock = old.clock /\ new \in Rows /\ old.clock \in Nat
      BY <1>6, <3>1, <3>2 DEF Rows
    <3>4. runs' = [runs EXCEPT ![r] = new]
      BY <2>2, <3>1, <3>2
    <3>5. old = runs[r] /\ new.clock >= runs[r].clock
      BY <3>1, <3>2, <3>3
    <3>6. Goes
      BY <1>2, <3>3, <3>4, <3>5, RowChanged
    <3>7. AnswerOf(q, q.on, runs')
      BY <1>3, <1>12 DEF AnswerOf
    <3> QED
      BY <1>1, <2>2, <3>6, <3>7, AnsweredKeeps
  <2> QED
    BY <1>1, <1>12, <2>1, <2>2
<1>13. CASE step = "propose"
  <2>1. PICK r, value : r = q.on.id /\ value = Propose(q)
    OBVIOUS
  <2>2. AnswerRequest(q, value) /\ UNCHANGED runs
    BY <1>1, <1>13, <2>1
  <2>3. q.scope # NoRecord /\ r = q.scope.id /\ KnownScope(q.scope, runs)
    BY <1>2, <1>3, <1>13, <2>1 DEF AboutKnown, RequestType
  <2>4. r \in 1..Len(runs) /\ q.scope.shown.clock =< runs[r].clock
    BY <2>3 DEF KnownScope, Known
  <2>5. value = [id |-> r, of |-> RunRecord(r), allowed |-> value.allowed]
    BY <2>1 DEF Propose
  <2>6. RunRecord(r).clock >= q.scope.shown.clock
    <3>1. RunRecord(r).clock = runs[r].clock /\ runs[r].clock \in Nat
      BY <1>2, <2>4, RunRecordKnown
    <3>2. q.scope.shown.clock \in Nat
      BY <2>3 DEF KnownScope, Known, Records
    <3> QED
      BY <2>4, <3>1, <3>2
  <2>7. ProposedFor(value, q.scope, runs')
    <3>1. value.id = r /\ value.of = RunRecord(r)
      BY <2>5
    <3> QED
      BY <2>2, <2>3, <2>4, <2>5, <2>6, <3>1 DEF ProposedFor
  <2>8. AnswerOf(q, value, runs')
    BY <1>3, <1>13, <2>7 DEF AnswerOf
  <2> QED
    BY <1>1, <1>4, <2>2, <2>8, AnsweredKeeps
<1> HIDE DEF step
<1>14. step \in {"preflight", "start", "read", "resume", "cancel", "dispatch", "review", "file", "observe", "propose", "repair"}
  <2>1. q.steps \in Remaining(q.kind) /\ q.kind \in PanelKinds \cup PartKinds /\ q.steps # <<>>
    BY <1>1, <1>2 DEF RequestType
  <2>2. \/ q.steps = <<"read">> \/ q.steps = <<"file">> \/ q.steps = <<"propose">>
        \/ q.kind \in {"review", "repair"} /\ q.steps = <<q.kind, "read">>
        \/ q.kind \in {"preflight", "start", "read", "resume", "cancel", "dispatch", "observe"} /\ q.steps = <<q.kind>>
    BY <2>1 DEF Remaining, PanelKinds, PartKinds
  <2> QED
    BY <2>2 DEF step
<1> QED
  BY <1>7, <1>8, <1>9, <1>10, <1>11, <1>12, <1>13, <1>14

LEMMA LoseKeeps ==
  ASSUME PanelInv, NEW q \in requests, Lose(q)
  PROVE  PanelInv'
<1>1. RefuseRequest(q) /\ UNCHANGED <<saved, page, panel, section, bookmark, runs>>
  BY DEF Lose
<1> QED
  BY <1>1, RefusedKeeps, NothingGoes DEF PanelInv

LEMMA WorkKeeps ==
  ASSUME PanelInv, Work
  PROVE  PanelInv'
<1>1. PICK r \in 1..Len(runs) :
        \/ runs' = [runs EXCEPT ![r].status = "review", ![r].take = @ + 1, ![r].clock = @ + 1]
        \/ runs' = [runs EXCEPT ![r].status = "rendered", ![r].clock = @ + 1]
  BY DEF Work
<1>2. PICK old : old = runs[r]
  OBVIOUS
<1>3. ServerInv /\ old \in Rows /\ old.clock \in Nat /\ old.take \in Nat /\ r \in DOMAIN runs
  BY <1>2, RowsAre DEF PanelInv, ServerInv
<1>4. PICK new :
        /\ runs' = [runs EXCEPT ![r] = new]
        /\ \/ new = [old EXCEPT !.status = "review", !.take = @ + 1, !.clock = @ + 1]
           \/ new = [old EXCEPT !.status = "rendered", !.clock = @ + 1]
  BY <1>1, <1>2, <1>3
<1>5. new \in Rows /\ new.key = old.key /\ new.plan = old.plan /\ new.clock = old.clock + 1
  <2>1. /\ old = [plan |-> old.plan, key |-> old.key, status |-> old.status, take |-> old.take,
                  job |-> old.job, seen |-> old.seen, clock |-> old.clock]
        /\ old.plan \in Plans /\ old.key \in Plans /\ old.job \in Nat /\ old.seen \in Nat
    BY <1>3 DEF Rows
  <2>2. PICK take, clock : take = old.take + 1 /\ clock = old.clock + 1
    OBVIOUS
  <2>3. CASE new = [old EXCEPT !.status = "review", !.take = take, !.clock = clock]
    <3>1. new = [plan |-> old.plan, key |-> old.key, status |-> "review", take |-> take,
                 job |-> old.job, seen |-> old.seen, clock |-> clock]
      BY <2>1, <2>3
    <3> QED
      BY <1>3, <2>1, <2>2, <3>1 DEF Rows, Statuses
  <2>4. CASE new = [old EXCEPT !.status = "rendered", !.clock = clock]
    <3>1. new = [plan |-> old.plan, key |-> old.key, status |-> "rendered", take |-> old.take,
                 job |-> old.job, seen |-> old.seen, clock |-> clock]
      BY <2>1, <2>4
    <3> QED
      BY <1>3, <2>1, <2>2, <3>1 DEF Rows, Statuses
  <2> QED
    BY <1>4, <2>1, <2>2, <2>3, <2>4
<1>6. new.clock >= runs[r].clock
  BY <1>2, <1>3, <1>5
<1>7. Goes
  BY <1>2, <1>3, <1>4, <1>5, <1>6, RowChanged
<1> QED
  BY <1>7, OthersKeep DEF Work, PanelInv, ServerInv

-----------------------------------------------------------------------------
(* Answers that come to the page.                                          *)

\* An answer changes the run that is shown only where what is due to the last has run.
LEMMA ScopesAfter ==
  ASSUME Rendered, page' = page, NEW p \in Sections, ~page.due
  PROVE  section[p].scope = ScopeOf(p)' => section[p].scope = ScopeOf(p)
<1>1. CASE panel'.run = panel.run
  BY <1>1 DEF ScopeOf
<1>2. CASE panel'.run # panel.run
  BY <1>2 DEF Rendered, Settled
<1> QED
  BY <1>1, <1>2

LEMMA PanelAnswerKeeps ==
  ASSUME PanelInv, NEW q \in requests, PanelAnswer(q)
  PROVE  PanelInv'
<1>0. ServerInv /\ PageInv /\ SectionInv /\ RequestInv /\ PanelLock /\ PartLock /\ PlanInv
  BY DEF PanelInv
<1>1. /\ q.by = "panel" /\ q.steps = <<>> /\ requests' = requests \ {q} /\ Rendered
      /\ UNCHANGED <<saved, page, section, runs, clicks>>
  BY DEF PanelAnswer, HasAnswer
<1>2. RequestOk(q, runs) /\ q.kind \in PanelKinds
  BY <1>0, <1>1 DEF RequestInv, RequestOk, RequestType, Sections
<1>3. Ok(q) => /\ q.kind # "preflight" => Known(q.answer, runs)
               /\ q.kind = "preflight" => q.answer \in Plans /\ q.answer.choice = q.choice
  BY <1>1, <1>2 DEF RequestOk, AnswerOf, PanelKinds
<1>4. /\ panel'.choice = panel.choice
      /\ panel' = [plan |-> panel'.plan, run |-> panel'.run, of |-> panel'.of, choice |-> panel.choice, locked |-> panel'.locked]
      /\ panel'.locked = (panel.locked /\ ~PanelActive(q))
      /\ \/ panel'.run = panel.run
         \/ Ok(q) /\ q.kind # "preflight" /\ panel'.run = q.answer
      /\ \/ panel'.plan = panel.plan \/ panel'.plan = NoRecord
         \/ PanelActive(q) /\ Ok(q) /\ q.kind = "preflight" /\ q.answer.version = q.version /\ panel'.plan = q.answer
  <2>1. panel = [plan |-> panel.plan, run |-> panel.run, of |-> panel.of, choice |-> panel.choice, locked |-> panel.locked]
        /\ panel.locked \in BOOLEAN
    BY <1>0 DEF PageInv
  <2>2. CASE ~PanelActive(q)
    <3>1. panel' = panel
      BY <2>2 DEF PanelAnswer
    <3> QED
      BY <2>1, <2>2, <3>1
  <2>3. CASE PanelActive(q) /\ q.kind # "preflight"
    <3>1. panel' = [panel EXCEPT !.locked = FALSE, !.run = IF Ok(q) THEN q.answer ELSE @,
                                 !.of = IF Ok(q) THEN [version |-> q.version, left |-> FALSE] ELSE @]
      BY <2>3 DEF PanelAnswer
    <3> QED
      BY <2>1, <2>3, <3>1
  <2>4. CASE PanelActive(q) /\ q.kind = "preflight"
    <3>1. panel' = [panel EXCEPT !.locked = FALSE,
                                 !.plan = IF ~Ok(q) THEN NoRecord
                                          ELSE IF q.answer.version = q.version THEN q.answer ELSE @]
      BY <2>4 DEF PanelAnswer
    <3> QED
      BY <2>1, <2>4, <3>1
  <2> QED
    BY <2>2, <2>3, <2>4
<1>5. ServerInv'
  <2>1. bookmark' \in 0..Len(runs)
    <3>1. CASE bookmark' = bookmark
      BY <1>0, <3>1 DEF ServerInv
    <3>2. CASE bookmark' = q.answer.id /\ Ok(q) /\ q.kind # "preflight"
      <4>1. bookmark' \in 1..Len(runs)
        BY <1>3, <3>2 DEF Known
      <4>2. Len(runs) \in Nat
        BY <1>0, RowsAre DEF ServerInv
      <4> QED
        BY <4>1, <4>2
    <3> QED
      BY <3>1, <3>2 DEF PanelAnswer
  <2> QED
    BY <1>0, <1>1, <2>1 DEF ServerInv
<1>6. PageInv'
  <2>1. panel'.run # NoRecord => Known(panel'.run, runs)
    BY <1>0, <1>3, <1>4 DEF PageInv
  <2>2. panel'.plan # NoRecord => panel'.plan \in Plans
    BY <1>0, <1>3, <1>4 DEF PageInv
  <2>3. panel'.locked \in BOOLEAN
    BY <1>4
  <2> QED
    BY <1>0, <1>1, <1>4, <2>1, <2>2, <2>3 DEF PageInv
<1>7. SectionInv' /\ RequestInv'
  BY <1>0, <1>1 DEF SectionInv, RequestInv
<1>8. ~page.due => (PanelWaits(q) <=> PanelActive(q))
  BY <1>0, <1>1 DEF PanelLock, PanelWaits, PanelActive
<1>9. PanelLock'
  <2> SUFFICES ASSUME ~page.due
      PROVE  /\ \A o \in requests' : PanelWaits(o) => o.version = page.version /\ o.choice = panel.choice
             /\ panel'.locked <=> \E o \in requests' : PanelWaits(o)
             /\ \A o, b \in requests' : PanelWaits(o) /\ PanelWaits(b) => o = b
    BY <1>1, <1>4 DEF PanelLock
  <2>1. panel'.locked <=> \E o \in requests' : PanelWaits(o)
    BY <1>0, <1>1, <1>4, <1>8 DEF PanelLock
  <2> QED
    BY <1>0, <1>1, <2>1 DEF PanelLock
<1>10. PlanInv'
  <2> SUFFICES ASSUME ~page.due
      PROVE  /\ panel'.plan # NoRecord =>
                    ~page.dirty /\ panel'.plan.version = page.version /\ panel'.plan.choice = panel.choice
             /\ \A o \in requests' : PanelWaits(o) /\ o.kind = "preflight" => ~page.dirty
    BY <1>1, <1>4 DEF PlanInv
  <2>1. \A o \in requests' : PanelWaits(o) /\ o.kind = "preflight" => ~page.dirty
    BY <1>0, <1>1 DEF PlanInv
  <2>2. panel'.plan # NoRecord =>
          ~page.dirty /\ panel'.plan.version = page.version /\ panel'.plan.choice = panel.choice
    BY <1>0, <1>3, <1>4, <1>8 DEF PlanInv, PanelActive
  <2> QED
    BY <2>1, <2>2
<1>11. PartLock'
  <2> SUFFICES ASSUME NEW p \in Sections
      PROVE  /\ \A o \in requests' : PartWaits(p, o) => o.scope # NoRecord /\ o.scope = section[p].scope
             /\ \A o, b \in requests' : ForPart(p, o) /\ ForPart(p, b) => o = b
             /\ ~page.due /\ section[p].scope = ScopeOf(p)' =>
                    (section[p].locked <=> \E o \in requests' : ForPart(p, o))
    BY <1>1 DEF PartLock
  <2>1. ~ForPart(p, q)
    BY <1>1 DEF ForPart, PartWaits, Sections
  <2>2. ~page.due /\ section[p].scope = ScopeOf(p)' => section[p].scope = ScopeOf(p)
    BY <1>1, ScopesAfter
  <2> QED
    BY <1>0, <1>1, <2>1, <2>2 DEF PartLock
<1> QED
  BY <1>5, <1>6, <1>7, <1>9, <1>10, <1>11 DEF PanelInv

\* What an answer makes of its section is of the section's scope still.
LEMMA PartAfterOk ==
  ASSUME NEW q, NEW table, RequestOk(q, table), q.steps = <<>>, q.by \in Sections,
         NEW old, SectionOk(q.by, old, table), old.scope = q.scope, q.scope # NoRecord,
         NEW now \in PartAfter(q, old)
  PROVE  /\ SectionOk(q.by, now, table) /\ now.scope = old.scope
         /\ now.locked = (old.locked /\ q.kind = "load")
<1>1. q.kind \in PartKinds
  BY DEF RequestOk, RequestType, Sections
<1>2. Ok(q) => /\ q.kind = "load" => q.answer.id = FileIn(q.by, q.scope)
               /\ q.kind = "inspect" => ProposedFor(q.answer, q.scope, table)
  BY DEF RequestOk, AnswerOf
<1>3. /\ old = [scope |-> old.scope, locked |-> old.locked, file |-> old.file,
                observed |-> old.observed, proposal |-> old.proposal]
      /\ old.locked \in BOOLEAN /\ KnownScope(old.scope, table)
      /\ old.file # NoRecord => old.file = [id |-> FileIn(q.by, old.scope)]
      /\ old.proposal # NoRecord => ProposedFor(old.proposal, old.scope, table)
  BY DEF SectionOk
<1>4. PICK locked, file, observed, proposal :
        /\ now = [scope |-> old.scope, locked |-> locked, file |-> file, observed |-> observed, proposal |-> proposal]
        /\ locked = (old.locked /\ q.kind = "load")
        /\ file = old.file \/ (Ok(q) /\ q.kind = "load" /\ file = [id |-> q.answer.id])
        /\ proposal = old.proposal \/ proposal = NoRecord \/ (Ok(q) /\ q.kind = "inspect" /\ proposal = q.answer)
  <2>1. CASE q.kind = "load"
    <3>1. PICK kept \in BOOLEAN : now = IF Ok(q) THEN [old EXCEPT !.file = [id |-> q.answer.id], !.observed = kept] ELSE old
      BY <2>1 DEF PartAfter
    <3> QED
      BY <1>3, <2>1, <3>1
  <2>2. CASE q.kind = "inspect"
    <3>1. now = [old EXCEPT !.locked = FALSE, !.proposal = IF Ok(q) THEN q.answer ELSE @]
      BY <2>2 DEF PartAfter
    <3>2. PICK proposal : proposal = IF Ok(q) THEN q.answer ELSE old.proposal
      OBVIOUS
    <3>3. now = [old EXCEPT !.locked = FALSE, !.proposal = proposal]
      BY <1>3, <3>1, <3>2
    <3>4. now = [scope |-> old.scope, locked |-> FALSE, file |-> old.file,
                 observed |-> old.observed, proposal |-> proposal]
      BY <1>3, <3>3
    <3> QED
      BY <2>2, <3>2, <3>4
  <2>3. CASE q.kind = "observe"
    <3>1. now = [old EXCEPT !.locked = FALSE, !.observed = Ok(q)]
      BY <2>3 DEF PartAfter
    <3> QED
      BY <1>3, <2>3, <3>1
  <2>4. CASE q.kind = "repair"
    <3>1. now = [old EXCEPT !.locked = FALSE, !.proposal = NoRecord, !.observed = @ /\ ~Ok(q)]
      BY <2>4 DEF PartAfter
    <3> QED
      BY <1>3, <2>4, <3>1
  <2>5. CASE q.kind \in {"dispatch", "review"}
    <3>1. now = [old EXCEPT !.locked = FALSE]
      BY <2>5 DEF PartAfter
    <3> QED
      BY <1>3, <2>5, <3>1
  <2> QED
    BY <1>1, <2>1, <2>2, <2>3, <2>4, <2>5 DEF PartKinds
<1>5. now.scope = old.scope /\ now.locked = locked /\ now.file = file /\ now.observed = observed /\ now.proposal = proposal
  BY <1>4
<1>6. SectionOk(q.by, now, table)
  <2>1. now.file # NoRecord => now.file = [id |-> FileIn(q.by, now.scope)]
    BY <1>2, <1>3, <1>4, <1>5
  <2>2. now.proposal # NoRecord => ProposedFor(now.proposal, now.scope, table)
    BY <1>2, <1>3, <1>4, <1>5
  <2>3. now = [scope |-> now.scope, locked |-> now.locked, file |-> now.file,
               observed |-> now.observed, proposal |-> now.proposal]
    BY <1>4, <1>5
  <2>4. now.locked \in BOOLEAN
    BY <1>4, <1>5
  <2> QED
    BY <1>3, <1>5, <2>1, <2>2, <2>3, <2>4 DEF SectionOk
<1> QED
  BY <1>4, <1>5, <1>6

LEMMA PartAnswerKeeps ==
  ASSUME PanelInv, NEW q \in requests, PartAnswer(q)
  PROVE  PanelInv'
<1>0. ServerInv /\ PageInv /\ SectionInv /\ RequestInv /\ PanelLock /\ PartLock /\ PlanInv
  BY DEF PanelInv
<1>1. /\ q.by # "panel" /\ q.steps = <<>> /\ requests' = requests \ {q} /\ Rendered
      /\ UNCHANGED <<saved, page, bookmark, runs, clicks>>
  BY DEF PartAnswer, HasAnswer
<1>2. RequestOk(q, runs) /\ q.by \in Sections /\ q.kind \in PartKinds
  BY <1>0, <1>1 DEF RequestInv, RequestOk, RequestType
<1>3. /\ panel'.choice = panel.choice /\ panel'.plan = panel.plan /\ panel'.locked = panel.locked
      /\ panel' = [plan |-> panel.plan, run |-> panel'.run, of |-> panel'.of, choice |-> panel.choice, locked |-> panel.locked]
      /\ panel'.run = panel.run \/ Known(panel'.run, runs)
  <2>1. panel = [plan |-> panel.plan, run |-> panel.run, of |-> panel.of, choice |-> panel.choice, locked |-> panel.locked]
    BY <1>0 DEF PageInv
  <2>2. CASE panel' = panel
    BY <2>1, <2>2
  <2>3. CASE /\ Ok(q) /\ q.kind \in {"dispatch", "review", "repair"}
             /\ panel' = [panel EXCEPT !.run = q.answer, !.of = [version |-> q.scope.version, left |-> q.left]]
    <3>1. Known(q.answer, runs)
      BY <1>1, <1>2, <2>3 DEF RequestOk, AnswerOf
    <3> QED
      BY <2>1, <2>3, <3>1
  <2> QED
    BY <2>2, <2>3 DEF PartAnswer
<1>4. PartWaits(q.by, q) => q.scope # NoRecord /\ q.scope = section[q.by].scope
  BY <1>0, <1>2 DEF PartLock
<1>5. \/ section' = section /\ (PartWaits(q.by, q) => section[q.by].scope # ScopeOf(q.by))
      \/ /\ PartWaits(q.by, q)
         /\ \E now \in PartAfter(q, section[q.by]) : section' = [section EXCEPT ![q.by] = now]
  <2>1. CASE ~PartActive(q)
    BY <1>4, <2>1 DEF PartAnswer, PartWaits, PartActive
  <2>2. CASE PartActive(q) /\ q.left
    <3>1. section' = [section EXCEPT ![q.by] = section[q.by]]
      BY <2>2 DEF PartAnswer
    <3>2. section' = section
      BY <1>0, <3>1 DEF SectionInv
    <3> QED
      BY <2>2, <3>2 DEF PartWaits
  <2>3. CASE PartActive(q) /\ ~q.left
    BY <1>4, <2>3 DEF PartAnswer, PartWaits, PartActive
  <2> QED
    BY <2>1, <2>2, <2>3
<1>6. /\ section' = [p \in Sections |-> section'[p]]
      /\ \A p \in Sections : /\ SectionOk(p, section'[p], runs)
                             /\ section'[p].scope = section[p].scope
                             /\ p # q.by => section'[p] = section[p]
      /\ \/ section'[q.by].locked = section[q.by].locked /\ (ForPart(q.by, q) => section[q.by].scope # ScopeOf(q.by))
         \/ ~section'[q.by].locked /\ ForPart(q.by, q)
  <2>1. section = [p \in Sections |-> section[p]] /\ \A p \in Sections : SectionOk(p, section[p], runs)
    BY <1>0 DEF SectionInv
  <2>2. CASE section' = section /\ (PartWaits(q.by, q) => section[q.by].scope # ScopeOf(q.by))
    BY <2>1, <2>2 DEF ForPart
  <2>3. CASE /\ PartWaits(q.by, q)
             /\ \E now \in PartAfter(q, section[q.by]) : section' = [section EXCEPT ![q.by] = now]
    <3>1. PICK now \in PartAfter(q, section[q.by]) : section' = [section EXCEPT ![q.by] = now]
      BY <2>3
    <3>2. PICK old : old = section[q.by]
      OBVIOUS
    <3>3. SectionOk(q.by, old, runs) /\ old.scope = q.scope /\ q.scope # NoRecord /\ now \in PartAfter(q, old)
      BY <1>2, <1>4, <2>1, <2>3, <3>1, <3>2
    <3>4. /\ SectionOk(q.by, now, runs) /\ now.scope = old.scope
          /\ now.locked = (old.locked /\ q.kind = "load")
      BY <1>1, <1>2, <3>3, PartAfterOk
    <3>5. /\ section' = [p \in Sections |-> section'[p]] /\ section'[q.by] = now
          /\ \A p \in Sections : p # q.by => section'[p] = section[p]
      BY <1>2, <2>1, <3>1
    <3>6. \/ now.locked = old.locked /\ ~ForPart(q.by, q)
          \/ ~now.locked /\ ForPart(q.by, q)
      <4>1. old.locked \in BOOLEAN
        BY <3>3 DEF SectionOk
      <4>2. ForPart(q.by, q) <=> q.kind # "load"
        BY <2>3 DEF ForPart
      <4> QED
        BY <3>4, <4>1, <4>2
    <3> QED
      BY <2>1, <3>2, <3>4, <3>5, <3>6
  <2> QED
    BY <1>5, <2>2, <2>3
<1>7. ServerInv' /\ RequestInv' /\ SectionInv'
  BY <1>0, <1>1, <1>6 DEF ServerInv, RequestInv, SectionInv
<1>8. PageInv'
  BY <1>0, <1>1, <1>3 DEF PageInv
<1>9. PanelLock' /\ PlanInv'
  BY <1>0, <1>1, <1>3 DEF PanelLock, PlanInv, PanelWaits
<1>10. PartLock'
  <2> SUFFICES ASSUME NEW p \in Sections
      PROVE  /\ \A o \in requests' : PartWaits(p, o) => o.scope # NoRecord /\ o.scope = section'[p].scope
             /\ \A o, b \in requests' : ForPart(p, o) /\ ForPart(p, b) => o = b
             /\ ~page.due /\ section'[p].scope = ScopeOf(p)' =>
                    (section'[p].locked <=> \E o \in requests' : ForPart(p, o))
    BY <1>1 DEF PartLock
  <2>1. /\ \A o \in requests' : PartWaits(p, o) => o.scope # NoRecord /\ o.scope = section'[p].scope
        /\ \A o, b \in requests' : ForPart(p, o) /\ ForPart(p, b) => o = b
    BY <1>0, <1>1, <1>6 DEF PartLock
  <2>2. ASSUME ~page.due, section'[p].scope = ScopeOf(p)' PROVE section'[p].locked <=> \E o \in requests' : ForPart(p, o)
    <3>1. section[p].scope = ScopeOf(p)
      BY <1>1, <1>6, <2>2, ScopesAfter
    <3>2. section[p].locked <=> \E o \in requests : ForPart(p, o)
      BY <1>0, <2>2, <3>1 DEF PartLock
    <3>3. CASE p # q.by
      <4>1. ~ForPart(p, q)
        BY <3>3 DEF ForPart, PartWaits
      <4> QED
        BY <1>1, <1>6, <3>2, <3>3, <4>1
    <3>4. CASE p = q.by /\ ~section'[p].locked /\ ForPart(p, q)
      <4>1. \A o \in requests : ForPart(p, o) => o = q
        BY <1>0, <3>4 DEF PartLock
      <4> QED
        BY <1>1, <3>4, <4>1
    <3>5. CASE p = q.by /\ section'[p].locked = section[p].locked /\ ~ForPart(p, q)
      BY <1>1, <3>2, <3>5
    <3> QED
      BY <1>6, <3>1, <3>3, <3>4, <3>5
  <2> QED
    BY <2>1, <2>2
<1> QED
  BY <1>7, <1>8, <1>9, <1>10 DEF PanelInv

-----------------------------------------------------------------------------
(* The page as a whole.                                                    *)

LEMMA PanelBegins ==
  ASSUME PanelInit
  PROVE  PanelInv
<1>1. PICK reopened \in BOOLEAN :
        /\ page = [version |-> 0, dirty |-> FALSE, due |-> reopened] /\ bookmark = (IF reopened THEN 1 ELSE 0)
        /\ panel = [plan |-> IF reopened THEN NoRecord ELSE FirstPlan, run |-> NoRecord, of |-> NoRecord, choice |-> FirstChoice, locked |-> FALSE]
        /\ IF ~reopened THEN runs = <<>>
           ELSE \E row \in {[Fresh EXCEPT !.status = to, !.take = 1] : to \in {"review", "approved", "rejected"}}
                           \cup {Fresh, [Fresh EXCEPT !.status = "rendered", !.take = 1, !.job = 1]} : runs = <<row>>
  BY DEF PanelInit
<1>2. saved = 0 /\ section = [p \in Sections |-> BlankPart] /\ requests = {}
  BY DEF PanelInit
<1>3. FirstPlan \in Plans
  BY PanelAssumption DEF FirstPlan, Plans
<1>4. ServerInv
  <2>1. CASE ~reopened
    BY <1>1, <1>2, <2>1 DEF ServerInv
  <2>2. CASE reopened
    <3>1. PICK row : /\ runs = <<row>>
                     /\ row \in {[Fresh EXCEPT !.status = to, !.take = 1] : to \in {"review", "approved", "rejected"}}
                                \cup {Fresh, [Fresh EXCEPT !.status = "rendered", !.take = 1, !.job = 1]}
      BY <1>1, <2>2
    <3>2. PICK state \in Statuses, take \in Nat, job \in Nat :
            row = [plan |-> FirstPlan, key |-> FirstPlan, status |-> state, take |-> take,
                   job |-> job, seen |-> 0, clock |-> 0]
      <4>1. CASE row = Fresh
        BY <4>1 DEF Fresh, Statuses
      <4>2. CASE \E to \in {"review", "approved", "rejected"} : row = [Fresh EXCEPT !.status = to, !.take = 1]
        <5>1. PICK to \in {"review", "approved", "rejected"} : row = [Fresh EXCEPT !.status = to, !.take = 1]
          BY <4>2
        <5>2. row = [plan |-> FirstPlan, key |-> FirstPlan, status |-> to, take |-> 1, job |-> 0, seen |-> 0, clock |-> 0]
          BY <5>1 DEF Fresh
        <5>3. to \in Statuses /\ 0 \in Nat /\ 1 \in Nat
          BY DEF Statuses
        <5> QED
          BY <5>2, <5>3
      <4>3. CASE row = [Fresh EXCEPT !.status = "rendered", !.take = 1, !.job = 1]
        BY <4>3 DEF Fresh, Statuses
      <4> QED
        BY <3>1, <4>1, <4>2, <4>3
    <3>3. row \in Rows /\ row.key = row.plan
      BY <1>3, <3>2 DEF Rows
    <3>4. runs \in Seq(Rows) /\ Len(runs) = 1 /\ runs[1] = row
      BY <3>1, <3>3
    <3> QED
      BY <1>1, <1>2, <2>2, <3>3, <3>4 DEF ServerInv
  <2> QED
    BY <2>1, <2>2
<1>5. PageInv
  BY <1>1, <1>3, PanelAssumption DEF PageInv
<1>6. SectionInv
  <2>1. \A p \in Sections : SectionOk(p, BlankPart, runs)
    BY DEF SectionOk, BlankPart, KnownScope
  <2> QED
    BY <1>2, <2>1 DEF SectionInv
<1>7. RequestInv
  BY <1>2 DEF RequestInv
<1>8. PanelLock
  BY <1>1, <1>2 DEF PanelLock
<1>9. PartLock
  BY <1>2 DEF PartLock, BlankPart
<1>10. PlanInv
  BY <1>1, <1>2 DEF PlanInv, FirstPlan
<1> QED
  BY <1>4, <1>5, <1>6, <1>7, <1>8, <1>9, <1>10 DEF PanelInv

LEMMA PanelStays ==
  ASSUME PanelInv, UNCHANGED panelVars
  PROVE  PanelInv'
<1>1. UNCHANGED <<saved, page, panel, section, bookmark, runs, requests, clicks>>
  BY DEF panelVars
<1>2. Goes
  BY <1>1, NothingGoes DEF PanelInv
<1> QED
  BY <1>1, <1>2, OthersKeep DEF PanelInv, ServerInv

LEMMA PanelSteps ==
  ASSUME PanelInv, PanelNext
  PROVE  PanelInv'
<1>1. CASE SaveElsewhere
  BY <1>1, SaveElsewhereKeeps
<1>2. CASE RenderDraft
  BY <1>2, RenderDraftKeeps
<1>3. CASE PanelEffect
  BY <1>3, PanelEffectKeeps
<1>4. CASE PartEffects
  BY <1>4, PartEffectsKeeps
<1>5. CASE Choose
  BY <1>5, ChooseKeeps
<1>6. CASE \E kind \in {"preflight", "start", "read", "resume", "cancel"} : Perform(kind)
  BY <1>6, PerformKeeps
<1>7. CASE DispatchVoice \/ ReviewVoice \/ RecordObservation
  BY <1>7, DispatchVoiceKeeps, ReviewVoiceKeeps, RecordObservationKeeps
<1>8. CASE \E p \in Sections : InspectRepair(p) \/ SubmitRepair(p)
  BY <1>8, InspectRepairKeeps, SubmitRepairKeeps
<1>9. CASE \E q \in requests : Serve(q) \/ Lose(q) \/ PanelAnswer(q) \/ PartAnswer(q)
  BY <1>9, ServeKeeps, LoseKeeps, PanelAnswerKeeps, PartAnswerKeeps
<1>10. CASE Work
  BY <1>10, WorkKeeps
<1> QED
  BY <1>1, <1>2, <1>3, <1>4, <1>5, <1>6, <1>7, <1>8, <1>9, <1>10 DEF PanelNext

\* A run is shown for the draft it was asked for with, or for what a section was
\* doing when it went; and a section is of the draft shown.
DraftInv ==
    ~page.due =>
        /\ panel.run # NoRecord => panel.of.left \/ panel.of.version = page.version
        /\ \A p \in Sections : section[p].scope # NoRecord => section[p].scope.version = page.version

LEMMA DraftBegins == PanelInit => DraftInv
BY DEF PanelInit, DraftInv, BlankPart

LEMMA DraftStep ==
  ASSUME PanelInv, DraftInv, PanelNext \/ UNCHANGED panelVars
  PROVE  DraftInv'
<1>1. PageInv /\ SectionInv /\ PartLock
  BY DEF PanelInv
<1>2. panel = [plan |-> panel.plan, run |-> panel.run, of |-> panel.of, choice |-> panel.choice, locked |-> panel.locked]
  BY <1>1 DEF PageInv
<1>3. ASSUME page' = page, panel'.run = panel.run, panel'.of = panel.of,
             \A p \in Sections : section'[p].scope = section[p].scope
      PROVE  DraftInv'
  BY <1>3 DEF DraftInv
<1>4. ASSUME NEW p \in Sections, NEW kind, NEW on, NEW steps, NEW now,
             Sending(p, kind, on, steps, now), now.scope = section[p].scope,
             now = [scope |-> now.scope, locked |-> now.locked, file |-> now.file,
                    observed |-> now.observed, proposal |-> now.proposal]
      PROVE  DraftInv'
  <2>1. section' = [section EXCEPT ![p] = [now EXCEPT !.locked = TRUE]] /\ UNCHANGED <<page, panel>>
    BY <1>4 DEF Sending
  <2>2. [now EXCEPT !.locked = TRUE].scope = section[p].scope
    BY <1>4
  <2>3. \A t \in Sections : section'[t].scope = section[t].scope
    BY <1>1, <2>1, <2>2 DEF SectionInv
  <2> QED
    BY <1>3, <2>1, <2>3
<1>5. ASSUME NEW p \in Sections, NEW kind, NEW on, NEW steps, SendPart(p, kind, on, steps)
      PROVE  DraftInv'
  <2>1. PICK now : now = section[p]
    OBVIOUS
  <2>2. /\ now.scope = section[p].scope
        /\ now = [scope |-> now.scope, locked |-> now.locked, file |-> now.file,
                  observed |-> now.observed, proposal |-> now.proposal]
    BY <1>1, <2>1 DEF SectionInv, SectionOk
  <2> QED
    BY <1>4, <1>5, <2>1, <2>2 DEF SendPart
<1>6. CASE SaveElsewhere \/ Work \/ UNCHANGED panelVars \/ \E q \in requests : Serve(q) \/ Lose(q)
  BY <1>3, <1>6 DEF SaveElsewhere, Work, panelVars, Serve, Lose
<1>7. CASE RenderDraft
  BY <1>7 DEF RenderDraft, DraftInv
<1>8. CASE PanelEffect
  <2>1. panel'.run = NoRecord
    BY <1>8 DEF PanelEffect
  <2>2. \A p \in Sections : section'[p].scope = NoRecord
    BY <1>8 DEF PanelEffect, BlankPart
  <2> QED
    BY <2>1, <2>2 DEF DraftInv
<1>9. CASE PartEffects
  <2>1. /\ UNCHANGED <<page, panel>>
        /\ \A p \in Sections : section'[p].scope \in {section[p].scope, ScopeOf(p)}
    BY <1>9 DEF PartEffects, BlankPart
  <2>2. \A p \in Sections : ScopeOf(p) # NoRecord => ScopeOf(p).version = page.version
    BY DEF ScopeOf
  <2> QED
    BY <2>1, <2>2 DEF DraftInv
<1>10. CASE Choose
  <2>1. UNCHANGED <<page, section>> /\ panel'.run = panel.run /\ panel'.of = panel.of
    BY <1>2, <1>10 DEF Choose
  <2> QED
    BY <1>3, <2>1
<1>11. CASE \E kind \in {"preflight", "start", "read", "resume", "cancel"} : Perform(kind)
  <2>1. UNCHANGED <<page, section>> /\ panel' = [panel EXCEPT !.locked = TRUE]
    BY <1>11 DEF Perform
  <2>2. panel'.run = panel.run /\ panel'.of = panel.of
    BY <1>2, <2>1
  <2> QED
    BY <1>3, <2>1, <2>2
<1>12. CASE DispatchVoice \/ ReviewVoice \/ \E p \in Sections : InspectRepair(p) \/ SubmitRepair(p)
  BY <1>5, <1>12 DEF DispatchVoice, ReviewVoice, InspectRepair, SubmitRepair, Sections
<1>13. CASE RecordObservation
  <2>1. PICK old : old = section["picture"]
    OBVIOUS
  <2>2. PICK now : now = [old EXCEPT !.observed = FALSE, !.proposal = NoRecord]
    OBVIOUS
  <2>3. /\ now.scope = section["picture"].scope
        /\ now = [scope |-> now.scope, locked |-> now.locked, file |-> now.file,
                  observed |-> now.observed, proposal |-> now.proposal]
    BY <1>1, <2>1, <2>2 DEF SectionInv, SectionOk, Sections
  <2>4. PICK kind, on, steps : Sending("picture", kind, on, steps, now)
    BY <1>13, <2>1, <2>2 DEF RecordObservation
  <2> QED
    BY <1>4, <2>3, <2>4 DEF Sections
<1>14. ASSUME NEW q \in requests, PanelAnswer(q) PROVE DraftInv'
  <2>1. UNCHANGED <<page, section>>
    BY <1>14 DEF PanelAnswer
  <2>2. CASE panel'.run = panel.run /\ panel'.of = panel.of
    BY <1>3, <2>1, <2>2
  <2>3. CASE PanelActive(q) /\ q.kind # "preflight" /\ Ok(q)
    <3>1. panel' = [panel EXCEPT !.locked = FALSE, !.run = q.answer,
                                 !.of = [version |-> q.version, left |-> FALSE]]
      BY <1>14, <2>3 DEF PanelAnswer
    <3>2. panel'.of.version = page.version
      BY <1>2, <2>3, <3>1 DEF PanelActive
    <3> QED
      BY <2>1, <3>2 DEF DraftInv
  <2>4. CASE ~PanelActive(q)
    BY <1>14, <2>2, <2>4 DEF PanelAnswer
  <2>5. CASE PanelActive(q) /\ q.kind # "preflight" /\ ~Ok(q)
    <3>1. panel' = [panel EXCEPT !.locked = FALSE, !.run = @, !.of = @]
      BY <1>14, <2>5 DEF PanelAnswer
    <3> QED
      BY <1>2, <2>2, <3>1
  <2>6. CASE PanelActive(q) /\ q.kind = "preflight"
    <3>1. panel' = [panel EXCEPT !.locked = FALSE,
                                 !.plan = IF ~Ok(q) THEN NoRecord
                                          ELSE IF q.answer.version = q.version THEN q.answer ELSE @]
      BY <1>14, <2>6 DEF PanelAnswer
    <3> QED
      BY <1>2, <2>2, <3>1
  <2> QED
    BY <2>3, <2>4, <2>5, <2>6
<1>15. ASSUME NEW q \in requests, PartAnswer(q) PROVE DraftInv'
  <2>1. page' = page /\ q.by # "panel"
    BY <1>15 DEF PartAnswer
  <2>2. q.by \in Sections
    BY <2>1 DEF PanelInv, RequestInv, RequestOk, RequestType
  <2>3. \A p \in Sections : section'[p].scope = section[p].scope
    <3>1. CASE ~PartActive(q)
      BY <1>15, <3>1 DEF PartAnswer
    <3>2. CASE PartActive(q)
      <4>1. PICK now \in (IF q.left THEN {section[q.by]} ELSE PartAfter(q, section[q.by])) :
                 section' = [section EXCEPT ![q.by] = now]
        BY <1>15, <3>2 DEF PartAnswer
      <4>2. now.scope = section[q.by].scope
        <5>1. CASE q.left
          BY <4>1, <5>1
        <5>2. CASE ~q.left
          <6>1. PICK old : old = section[q.by]
            OBVIOUS
          <6>2. old = [scope |-> old.scope, locked |-> old.locked, file |-> old.file,
                       observed |-> old.observed, proposal |-> old.proposal]
            BY <1>1, <2>2, <6>1 DEF SectionInv, SectionOk
          <6>3. now \in PartAfter(q, old)
            BY <4>1, <5>2, <6>1
          <6> QED
            BY <6>1, <6>2, <6>3 DEF PartAfter
        <5> QED
          BY <5>1, <5>2
      <4> QED
        BY <1>1, <4>1, <4>2 DEF SectionInv
    <3> QED
      BY <3>1, <3>2
  <2>4. CASE panel' = panel
    BY <1>3, <2>1, <2>3, <2>4
  <2>5. CASE /\ PartActive(q)
             /\ panel' = [panel EXCEPT !.run = q.answer, !.of = [version |-> q.scope.version, left |-> q.left]]
    <3>1. panel'.of.left = q.left /\ panel'.of.version = q.scope.version
      BY <1>2, <2>5
    <3>2. CASE q.left
      BY <2>1, <2>3, <3>1, <3>2 DEF DraftInv
    <3>3. CASE ~q.left
      <4>1. PartWaits(q.by, q)
        BY <2>5, <3>3 DEF PartActive, PartWaits
      <4>2. q.scope # NoRecord /\ q.scope = section[q.by].scope
        BY <1>1, <2>2, <4>1 DEF PartLock
      <4> QED
        BY <2>1, <2>2, <2>3, <3>1, <4>2 DEF DraftInv
    <3> QED
      BY <3>2, <3>3
  <2> QED
    BY <1>15, <2>4, <2>5 DEF PartAnswer
<1> QED
  BY <1>6, <1>7, <1>8, <1>9, <1>10, <1>11, <1>12, <1>13, <1>14, <1>15 DEF PanelNext

\* A set whose members are all one has one member, or none.
LEMMA OneOrNone ==
  ASSUME NEW S, \A a, b \in S : a = b
  PROVE  Cardinality(S) = IF \E a \in S : TRUE THEN 1 ELSE 0
<1>1. CASE S = {}
  BY <1>1, FS_EmptySet
<1>2. CASE S # {}
  <2>1. PICK a \in S : TRUE
    BY <1>2
  <2>2. S = {a}
    BY <2>1
  <2>3. Cardinality({a}) = 1
    BY FS_Singleton
  <2> QED
    BY <2>1, <2>2, <2>3
<1> QED
  BY <1>1, <1>2

LEMMA ButtonsAre ==
  ASSUME PanelInv
  PROVE  ButtonsReturn
<1> SUFFICES ASSUME Settled PROVE
        /\ Cardinality({q \in AskedBy("panel") : PanelActive(q)}) = IF panel.locked THEN 1 ELSE 0
        /\ \A p \in Sections :
              Cardinality({q \in AskedBy(p) : PartActive(q) /\ ~q.left /\ q.kind # "load"})
                = IF section[p].locked THEN 1 ELSE 0
  BY DEF ButtonsReturn
<1>1. ~page.due /\ \A p \in Sections : section[p].scope = ScopeOf(p)
  BY DEF Settled
<1>2. Cardinality({q \in AskedBy("panel") : PanelActive(q)}) = IF panel.locked THEN 1 ELSE 0
  <2>1. PICK waiting : waiting = {q \in AskedBy("panel") : PanelActive(q)}
    OBVIOUS
  <2>2. \A q : q \in waiting <=> q \in requests /\ PanelWaits(q)
    BY <1>1, <2>1 DEF PanelInv, PanelLock, PanelWaits, PanelActive, AskedBy
  <2>3. \A q, o \in waiting : q = o
    BY <1>1, <2>2 DEF PanelInv, PanelLock
  <2>4. panel.locked <=> \E q \in waiting : TRUE
    BY <1>1, <2>2 DEF PanelInv, PanelLock
  <2>5. Cardinality(waiting) = IF \E q \in waiting : TRUE THEN 1 ELSE 0
    BY <2>3, OneOrNone
  <2> QED
    BY <2>1, <2>4, <2>5
<1>3. ASSUME NEW p \in Sections
      PROVE  Cardinality({q \in AskedBy(p) : PartActive(q) /\ ~q.left /\ q.kind # "load"})
                = IF section[p].locked THEN 1 ELSE 0
  <2>1. PICK waiting : waiting = {q \in AskedBy(p) : PartActive(q) /\ ~q.left /\ q.kind # "load"}
    OBVIOUS
  <2>2. \A q : q \in waiting <=> q \in requests /\ ForPart(p, q)
    BY <1>1, <2>1 DEF PanelInv, PartLock, ForPart, PartWaits, PartActive, AskedBy
  <2>3. \A q, o \in waiting : q = o
    BY <2>2 DEF PanelInv, PartLock
  <2>4. section[p].locked <=> \E q \in waiting : TRUE
    BY <1>1, <2>2 DEF PanelInv, PartLock
  <2>5. Cardinality(waiting) = IF \E q \in waiting : TRUE THEN 1 ELSE 0
    BY <2>3, OneOrNone
  <2> QED
    BY <2>1, <2>4, <2>5
<1> QED
  BY <1>2, <1>3

LEMMA PanelIsSound ==
  ASSUME PanelInv, DraftInv
  PROVE  PanelSound
<1>1. PlanOfDraft
  BY DEF PanelInv, PlanInv, PlanOfDraft
<1>2. OneRunPerPlan
  BY DEF PanelInv, ServerInv, OneRunPerPlan
<1>3. \A p \in Sections : SectionOk(p, section[p], runs)
  BY DEF PanelInv, SectionInv
<1>4. Settled => \A p \in Sections : section[p].scope # NoRecord =>
          section[p].scope.shown = panel.run /\ section[p].scope.id = panel.run.id
  BY ScopeKnown DEF PanelInv, Settled
<1>5. FileOfRun
  <2> SUFFICES ASSUME Settled, NEW p \in Sections, section[p].file # NoRecord
      PROVE  section[p].file.id = (IF p = "voice" THEN panel.run.take ELSE panel.run.job)
    BY DEF FileOfRun
  <2>1. section[p].scope # NoRecord /\ section[p].file = [id |-> FileIn(p, section[p].scope)]
    BY <1>3 DEF SectionOk
  <2>2. section[p].file.id = FileIn(p, section[p].scope)
    BY <2>1
  <2> QED
    BY <1>4, <2>1, <2>2 DEF FileIn
<1>6. ProposalOfRun
  <2> SUFFICES ASSUME Settled, NEW p \in Sections, section[p].proposal # NoRecord
      PROVE  section[p].proposal.id = panel.run.id /\ section[p].proposal.of.clock >= panel.run.clock
    BY DEF ProposalOfRun
  <2>1. section[p].scope # NoRecord /\ ProposedFor(section[p].proposal, section[p].scope, runs)
    BY <1>3 DEF SectionOk
  <2> QED
    BY <1>4, <2>1 DEF ProposedFor
<1>7. bookmark \in 0..Len(runs)
  BY DEF PanelInv, ServerInv
<1>8. RunOfDraft
  BY DEF DraftInv, RunOfDraft
<1> QED
  BY <1>1, <1>2, <1>5, <1>6, <1>7, <1>8, ButtonsAre DEF PanelSound

\* What the page shows and lets be clicked is of the run shown, and that run is one the draft shown was
\* asked for with or one a narration was at work on when its section went, for any draft, plans, runs and
\* files, however requests are served, lost and answered (PageHolds, a property of the run "queue").
THEOREM PageStands == QueueSpec => []PageHolds
<1> DEFINE PageStill == machine = "page" => PanelInv /\ DraftInv
<1>1. QueueInit => PageStill
  BY PanelBegins, DraftBegins DEF QueueInit
<1>2. PageStill /\ [QueueNext]_<<vars, machine, panelVars>> => PageStill'
  <2> SUFFICES ASSUME PageStill, [QueueNext]_<<vars, machine, panelVars>>, machine' = "page"
      PROVE  PanelInv' /\ DraftInv'
    OBVIOUS
  <2>1. machine = "page" /\ PanelInv /\ DraftInv /\ (PanelNext \/ UNCHANGED panelVars)
    BY DEF QueueNext
  <2>2. CASE PanelNext
    BY <2>1, <2>2, PanelSteps, DraftStep
  <2>3. CASE UNCHANGED panelVars
    BY <2>1, <2>3, PanelStays, DraftStep
  <2> QED
    BY <2>1, <2>2, <2>3
<1>3. PageStill => PageHolds
  BY PanelIsSound DEF PageHolds
<1> QED
  BY <1>1, <1>2, <1>3, PTL DEF QueueSpec
=============================================================================
