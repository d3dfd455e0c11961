------------------------------ MODULE RunPanel ------------------------------
(***************************************************************************)
(* A project's production in the browser (apps/web/src): the panel that    *)
(* inspects a plan and starts, refreshes, resumes and cancels a run, and   *)
(* within it a section for the narration and one for the rendered picture, *)
(* which show the run's present file and propose its repair.               *)
(* A request is served and answered at any later time, or fails after all  *)
(* or part of what it does was done; the draft, the choice and the run     *)
(* change meanwhile, and React's effects run some time after the render    *)
(* that calls for them.                                                    *)
(***************************************************************************)
EXTENDS Integers, FiniteSets, Sequences, TLC

CONSTANTS PlanChoices, \* the presentation and purpose a plan is inspected with
          FirstChoice, \* the one a panel begins with
          MaxSaves,    \* the draft is saved at most so often
          MaxFiles,    \* takes of the narration, and renders, a run comes to
          MaxRuns,     \* runs of the project
          MaxWaiting,  \* requests under way at one time
          MaxClicks    \* what the user does on the page

ASSUME PanelAssumption == FirstChoice \in PlanChoices

NoRecord == [id |-> 0]     \* no plan, run, file or proposal
LostAnswer == [id |-> -1]  \* what a request comes to that was refused or lost
Sections == {"voice", "picture"}

VARIABLES
    saved,     \* the version of the draft the server has
    page,      \* [version, dirty, due]: the draft as rendered; whether its effect is to come
    panel,     \* [plan, run, of, choice, locked]; of: the draft the run was asked for with
    section,   \* of each section, [scope, locked, file, observed, proposal]
    bookmark,  \* the run this browser remembers, or 0
    runs,      \* the project's runs on the server
    requests,  \* under way
    clicks     \* what the user did

panelVars == <<saved, page, panel, section, bookmark, runs, requests, clicks>>

-----------------------------------------------------------------------------
(* What is shown, and whom an answer is for.                               *)

\* A section is mounted while there is a run for it; what it is about changes with the run.
ScopeOf(p) ==
    IF panel.run # NoRecord /\ (IF p = "voice" THEN panel.run.status # "cancelled" ELSE panel.run.job > 0)
      THEN [id |-> panel.run.id, version |-> page.version, shown |-> panel.run]
      ELSE NoRecord

\* React keeps a section as it is while its key stays; the picture's names the render too.
SameMount(p, t, u) ==
    /\ t # NoRecord /\ u # NoRecord /\ t.id = u.id /\ t.version = u.version
    /\ p = "picture" => t.shown = u.shown

Settled == ~page.due /\ \A p \in Sections : section[p].scope = ScopeOf(p)

\* Mutant: an answer is taken whatever has been asked or rendered since.
SameVersion(q) == q.version = page.version /\ q.choice = panel.choice

PanelActive(q) == q.live /\ q.version = page.version /\ q.choice = panel.choice

\* Mutant: an answer is taken as long as the section is there.
SameRun(q) == q.left \/ SameMount("voice", q.scope, ScopeOf(q.by))

\* A section compares with what it was last rendered with, and is not rendered
\* again once it is gone; what ends with it does so when its effects run.
PartActive(q) ==
    q.live /\ (q.left \/ q.scope = ScopeOf(q.by) \/ ~SameMount(q.by, q.scope, ScopeOf(q.by)))

Awaited(q) == IF q.by = "panel" THEN PanelActive(q) ELSE PartActive(q)

AskedBy(by) == {q \in requests : q.by = by}

\* What only reads leaves nothing behind once no one waits for it.
Reads == {"preflight", "restore", "load", "inspect"}

Expired(qs) == {[q EXCEPT !.live = FALSE] : q \in {r \in qs : r.kind \notin Reads}}

\* An action of the narration's section begins an epoch of its own, which does
\* not end with the section, why ever it is unmounted: a saved draft, another
\* run, a cancelling.
Outlives(q) == q.by = "voice" /\ q.kind \notin Reads /\ q.live

Unmounted(qs) ==
    {[q EXCEPT !.left = TRUE] : q \in {r \in qs : Outlives(r)}} \cup Expired({r \in qs : ~Outlives(r)})

Request(by, kind, on, steps) ==
    [by |-> by, kind |-> kind, on |-> on, steps |-> steps, answer |-> NoRecord, live |-> TRUE, left |-> FALSE,
     version |-> page.version, choice |-> panel.choice,
     scope |-> IF by = "panel" THEN NoRecord ELSE ScopeOf(by)]

\* The user does something: what is due to a render has run by then.
Acts == Settled /\ clicks < MaxClicks /\ clicks' = clicks + 1

BlankPart == [scope |-> NoRecord, locked |-> FALSE, file |-> NoRecord, observed |-> FALSE, proposal |-> NoRecord]

-----------------------------------------------------------------------------
(* Renders and their effects.                                              *)

\* The draft is saved in this page or in another.
SaveElsewhere ==
    /\ saved < MaxSaves /\ saved' = saved + 1
    /\ UNCHANGED <<page, panel, section, bookmark, runs, requests, clicks>>

RenderDraft ==
    /\ Acts
    /\ \E version \in {page.version, saved}, dirty \in BOOLEAN :
        /\ version # page.version \/ dirty # page.dirty
        /\ page' = [version |-> version, dirty |-> dirty, due |-> TRUE]
    /\ UNCHANGED <<saved, panel, section, bookmark, runs, requests>>

\* The panel begins again for the draft, with the run this browser remembers.
PanelEffect ==
    LET Restore == [Request("panel", "restore", [id |-> bookmark], <<"read">>) EXCEPT !.choice = FirstChoice] IN
    /\ page.due
    /\ page' = [page EXCEPT !.due = FALSE]
    /\ panel' = [plan |-> NoRecord, run |-> NoRecord, of |-> NoRecord, choice |-> FirstChoice, locked |-> bookmark # 0]
    /\ section' = [p \in Sections |-> BlankPart]
    /\ requests' = Expired(AskedBy("panel")) \cup Unmounted(requests \ AskedBy("panel"))
                   \cup (IF bookmark = 0 THEN {} ELSE {Restore})
    /\ UNCHANGED <<saved, bookmark, runs, clicks>>

HasFile(p) ==
    ScopeOf(p) # NoRecord /\ IF p = "voice" THEN panel.run.take > 0 ELSE panel.run.status = "rendered"

\* The run shown changed: its parts begin again and load its files.
PartEffects ==
    LET Stale == {p \in Sections : section[p].scope # ScopeOf(p)}
        Gone(p) == {q \in AskedBy(p) : q.left}
        Staying(p) == IF SameMount(p, section[p].scope, ScopeOf(p)) THEN Expired(AskedBy(p) \ Gone(p)) \cup Gone(p)
                      ELSE Unmounted(AskedBy(p))
    IN
    /\ ~page.due /\ Stale # {}
    /\ section' = [p \in Sections |-> IF p \in Stale THEN [BlankPart EXCEPT !.scope = ScopeOf(p)] ELSE section[p]]
    /\ requests' = {q \in requests : q.by \notin Stale} \cup (UNION {Staying(p) : p \in Stale})
                   \cup {Request(p, "load", [id |-> panel.run.id], <<"file">>) : p \in {t \in Stale : HasFile(t)}}
    /\ UNCHANGED <<saved, page, panel, bookmark, runs, clicks>>

-----------------------------------------------------------------------------
(* Clicks.                                                                 *)

CanAsk == Acts /\ Cardinality(requests) < MaxWaiting

NoRun == panel.run # NoRecord => panel.run.status = "cancelled"

Choose ==
    /\ Acts /\ ~panel.locked /\ NoRun
    /\ \E choice \in PlanChoices \ {panel.choice} : panel' = [panel EXCEPT !.choice = choice, !.plan = NoRecord]
    /\ requests' = Expired(AskedBy("panel")) \cup (requests \ AskedBy("panel"))
    /\ UNCHANGED <<saved, page, section, bookmark, runs>>

Perform(kind) ==
    /\ CanAsk /\ ~panel.locked
    /\ kind \in {"preflight", "start", "resume"} => ~page.dirty
    /\ kind = "start" => NoRun /\ panel.plan # NoRecord
    /\ kind \in {"read", "resume", "cancel"} => panel.run # NoRecord
    /\ kind \in {"resume", "cancel"} => panel.run.status # "cancelled"
    /\ panel' = [panel EXCEPT !.locked = TRUE]
    /\ requests' = requests \cup
           {Request("panel", kind, CASE kind = "preflight" -> NoRecord
                                     [] kind = "start" -> panel.plan
                                     [] OTHER -> [id |-> panel.run.id], <<kind>>)}
    /\ UNCHANGED <<saved, page, section, bookmark, runs>>

Sending(p, kind, on, steps, now) ==
    /\ CanAsk /\ section[p].scope # NoRecord /\ ~section[p].locked
    /\ section' = [section EXCEPT ![p] = [now EXCEPT !.locked = TRUE]]
    /\ requests' = requests \cup {Request(p, kind, on, steps)}
    /\ UNCHANGED <<saved, page, panel, bookmark, runs>>

SendPart(p, kind, on, steps) == Sending(p, kind, on, steps, section[p])

DispatchVoice ==
    /\ section["voice"].scope # NoRecord /\ panel.run.status = "awaiting"
    /\ SendPart("voice", "dispatch", [id |-> panel.run.id], <<"dispatch">>)

\* The take is judged that is heard; below, the render observed that is seen.
ReviewVoice ==
    /\ section["voice"].file # NoRecord /\ panel.run.status = "review"
    /\ \E verdict \in {"approved", "rejected"} :
        SendPart("voice", "review", [id |-> panel.run.id, file |-> section["voice"].file.id, verdict |-> verdict],
                 <<"review", "read">>)

\* A new observation is written over the last one and over what it proposed.
RecordObservation ==
    /\ section["picture"].file # NoRecord
    /\ Sending("picture", "observe", [id |-> panel.run.id, file |-> section["picture"].file.id], <<"observe">>,
               [section["picture"] EXCEPT !.observed = FALSE, !.proposal = NoRecord])

InspectRepair(p) ==
    /\ section[p].scope # NoRecord /\ section[p].proposal = NoRecord
    /\ IF p = "voice" THEN panel.run.status = "rejected" ELSE section[p].observed
    /\ SendPart(p, "inspect", [id |-> panel.run.id], <<"propose">>)

\* Only what was proposed is confirmed: the same narration once more, or the picture revised.
SubmitRepair(p) ==
    /\ section[p].proposal # NoRecord /\ section[p].proposal.allowed
    /\ SendPart(p, "repair", section[p].proposal, <<"repair", "read">>)

-----------------------------------------------------------------------------
(* The server, of whose runs only what the browser tells apart is kept.     *)

RunRecord(r) == [id |-> r, status |-> runs[r].status, take |-> runs[r].take, job |-> runs[r].job, clock |-> runs[r].clock]

AnswerRequest(q, value) == requests' = (requests \ {q}) \cup {[q EXCEPT !.steps = Tail(@), !.answer = value]}
RefuseRequest(q) == requests' = (requests \ {q}) \cup {[q EXCEPT !.steps = <<>>, !.answer = LostAnswer]}

Change(q, row) ==
    LET r == q.on.id
        next == [row EXCEPT !.clock = @ + 1]
    IN  /\ runs' = [runs EXCEPT ![r] = next]
        /\ AnswerRequest(q, [RunRecord(r) EXCEPT !.status = next.status, !.job = next.job, !.clock = next.clock])

Do(q, allowed, row) == IF allowed THEN Change(q, row) ELSE RefuseRequest(q) /\ UNCHANGED runs

\* Mutant: each request to start has a key of its own.
KeyPerRequest(q) == q.on @@ [nth |-> Len(runs)]

\* One start of a plan, however often it is sent: its key is made of the plan.
StartKey(q) == q.on

StartRun(q) ==
    LET Same == {r \in 1..Len(runs) : runs[r].key = StartKey(q)}
        Current == q.on.version = saved /\ q.on.choice = q.choice /\ Len(runs) < MaxRuns
    IN
    IF Same # {} THEN AnswerRequest(q, RunRecord(CHOOSE r \in Same : TRUE)) /\ UNCHANGED runs
    ELSE IF ~Current THEN RefuseRequest(q) /\ UNCHANGED runs
    ELSE /\ runs' = Append(runs, [plan |-> q.on, key |-> StartKey(q), status |-> "awaiting", take |-> 0,
                                  job |-> 0, seen |-> 0, clock |-> 0])
         /\ AnswerRequest(q, [id |-> Len(runs) + 1, status |-> "awaiting", take |-> 0, job |-> 0, clock |-> 0])

\* A repair is proposed of the run as it now is, and made if it is still that.
Propose(q) ==
    LET r == q.on.id
        now == RunRecord(r)
    IN  [id |-> r, of |-> now,
         allowed |-> IF q.by = "voice" THEN now.status = "rejected" /\ now.take < MaxFiles
                     ELSE now.status = "rendered" /\ now.job < MaxFiles]

Repaired(q) ==
    LET row == runs[q.on.id] IN
    IF q.by = "voice" THEN [row EXCEPT !.status = "voicing"] ELSE [row EXCEPT !.status = "rendering", !.job = @ + 1]

Serve(q) ==
    LET step == Head(q.steps)
        row == runs[q.on.id]
    IN
    /\ q.steps # <<>>
    /\ CASE step = "preflight" -> AnswerRequest(q, [id |-> 0, version |-> saved, choice |-> q.choice]) /\ UNCHANGED runs
         [] step = "start" -> StartRun(q)
         [] step = "read" -> AnswerRequest(q, RunRecord(q.on.id)) /\ UNCHANGED runs
         [] step = "resume" -> Do(q, row.status = "approved" /\ row.plan.version = saved,
                                  [row EXCEPT !.status = "rendering", !.job = 1])
         [] step = "cancel" -> Do(q, row.status \notin {"rendering", "rendered", "cancelled"},
                                  [row EXCEPT !.status = "cancelled"])
         [] step = "dispatch" -> Do(q, row.status = "awaiting" /\ row.plan.version = saved, [row EXCEPT !.status = "voicing"])
         [] step = "review" -> Do(q, row.status = "review" /\ row.take = q.on.file, [row EXCEPT !.status = q.on.verdict])
         [] step = "file" -> AnswerRequest(q, [id |-> IF q.by = "voice" THEN q.scope.shown.take ELSE q.scope.shown.job,
                                        seen |-> row.seen]) /\ UNCHANGED runs
         [] step = "observe" -> IF row.status = "rendered" /\ row.job = q.on.file
                                  THEN AnswerRequest(q, q.on) /\ runs' = [runs EXCEPT ![q.on.id].seen = row.job]
                                  ELSE RefuseRequest(q) /\ UNCHANGED runs
         [] step = "propose" -> AnswerRequest(q, Propose(q)) /\ UNCHANGED runs
         [] step = "repair" -> Do(q, q.on.of = RunRecord(q.on.id), Repaired(q))
    /\ UNCHANGED <<saved, page, panel, section, bookmark, clicks>>

\* The connection fails, whatever the server has done of the request.
Lose(q) == q.answer # LostAnswer /\ RefuseRequest(q) /\ UNCHANGED <<saved, page, panel, section, bookmark, runs, clicks>>

\* A worker completes what the run waits for.
Work ==
    /\ \E r \in 1..Len(runs) :
        \/ /\ runs[r].status = "voicing"
           /\ runs' = [runs EXCEPT ![r].status = "review", ![r].take = @ + 1, ![r].clock = @ + 1]
        \/ /\ runs[r].status = "rendering"
           /\ runs' = [runs EXCEPT ![r].status = "rendered", ![r].clock = @ + 1]
    /\ UNCHANGED <<saved, page, panel, section, bookmark, requests, clicks>>

-----------------------------------------------------------------------------
(* Answers.                                                                *)

HasAnswer(q) == q.steps = <<>> /\ requests' = requests \ {q}

\* React runs what is due to one render before the next.
Rendered == panel'.run # panel.run => page.due \/ Settled

Ok(q) == q.answer # LostAnswer

\* A completed action is remembered though nobody waits for it any more.
PanelAnswer(q) ==
    /\ q.by = "panel" /\ HasAnswer(q)
    /\ bookmark' = IF Ok(q) /\ q.kind \notin {"preflight", "restore"} THEN q.answer.id ELSE bookmark
    /\ panel' =
         IF ~PanelActive(q) THEN panel
         ELSE IF q.kind # "preflight"
           THEN [panel EXCEPT !.locked = FALSE, !.run = IF Ok(q) THEN q.answer ELSE @,
                              !.of = IF Ok(q) THEN [version |-> q.version, left |-> FALSE] ELSE @]
           ELSE [panel EXCEPT !.locked = FALSE,
                              !.plan = IF ~Ok(q) THEN NoRecord
                                       ELSE IF q.answer.version = q.version THEN q.answer ELSE @]
    /\ Rendered
    /\ UNCHANGED <<saved, page, section, runs, clicks>>

\* What a section's answer makes of it.
PartAfter(q, old) ==
    CASE q.kind = "load" ->
           {IF Ok(q) THEN [old EXCEPT !.file = [id |-> q.answer.id], !.observed = kept] ELSE old :
              kept \in IF q.by = "picture" /\ Ok(q) /\ q.answer.seen = q.answer.id THEN BOOLEAN ELSE {FALSE}}
      [] q.kind = "inspect" -> {[old EXCEPT !.locked = FALSE, !.proposal = IF Ok(q) THEN q.answer ELSE @]}
      [] q.kind = "observe" -> {[old EXCEPT !.locked = FALSE, !.observed = Ok(q)]}
      [] q.kind = "repair" -> {[old EXCEPT !.locked = FALSE, !.proposal = NoRecord, !.observed = @ /\ ~Ok(q)]}
      [] OTHER -> {[old EXCEPT !.locked = FALSE]}

PartAnswer(q) ==
    /\ q.by # "panel" /\ HasAnswer(q)
    /\ IF ~PartActive(q) THEN UNCHANGED <<panel, section>>
       ELSE /\ \E now \in IF q.left THEN {section[q.by]} ELSE PartAfter(q, section[q.by]) :
                  section' = [section EXCEPT ![q.by] = now]
            /\ panel' = IF Ok(q) /\ q.kind \in {"dispatch", "review", "repair"}
                          THEN [panel EXCEPT !.run = q.answer, !.of = [version |-> q.scope.version, left |-> q.left]]
                          ELSE panel
    /\ Rendered
    /\ UNCHANGED <<saved, page, bookmark, runs, clicks>>

-----------------------------------------------------------------------------
FirstPlan == [id |-> 0, version |-> 0, choice |-> FirstChoice]
Fresh == [plan |-> FirstPlan, key |-> FirstPlan, status |-> "awaiting", take |-> 0, job |-> 0, seen |-> 0, clock |-> 0]

\* The page shows a plan, or is reopened on a run that this browser started.
PanelInit ==
    /\ saved = 0 /\ section = [p \in Sections |-> BlankPart] /\ requests = {} /\ clicks = 0
    /\ \E reopened \in BOOLEAN :
        /\ page = [version |-> 0, dirty |-> FALSE, due |-> reopened] /\ bookmark = (IF reopened THEN 1 ELSE 0)
        /\ panel = [plan |-> IF reopened THEN NoRecord ELSE FirstPlan, run |-> NoRecord, of |-> NoRecord,
                     choice |-> FirstChoice, locked |-> FALSE]
        /\ IF ~reopened THEN runs = <<>>
           ELSE \E row \in {[Fresh EXCEPT !.status = status, !.take = 1] : status \in {"review", "approved", "rejected"}}
                           \cup {Fresh, [Fresh EXCEPT !.status = "rendered", !.take = 1, !.job = 1]} : runs = <<row>>

PanelNext ==
    \/ SaveElsewhere \/ RenderDraft \/ PanelEffect \/ PartEffects \/ Choose
    \/ \E kind \in {"preflight", "start", "read", "resume", "cancel"} : Perform(kind)
    \/ DispatchVoice \/ ReviewVoice \/ RecordObservation
    \/ \E p \in Sections : InspectRepair(p) \/ SubmitRepair(p)
    \/ \E q \in requests : Serve(q) \/ Lose(q) \/ PanelAnswer(q) \/ PartAnswer(q)
    \/ Work

-----------------------------------------------------------------------------
\* A plan is shown only with the draft and the choice it was inspected with.
PlanOfDraft ==
    panel.plan # NoRecord /\ ~page.due =>
        ~page.dirty /\ panel.plan.version = page.version /\ panel.plan.choice = panel.choice

\* Buttons are off exactly while one answer is awaited, and come on again with it.
ButtonsReturn ==
    Settled =>
        /\ Cardinality({q \in AskedBy("panel") : PanelActive(q)}) = IF panel.locked THEN 1 ELSE 0
        /\ \A p \in Sections :
              Cardinality({q \in AskedBy(p) : PartActive(q) /\ ~q.left /\ q.kind # "load"})
                = IF section[p].locked THEN 1 ELSE 0

\* A plan becomes at most one run, however often it is inspected and started.
OneRunPerPlan == \A r, t \in 1..Len(runs) : runs[r].plan = runs[t].plan => r = t

\* The file that can be judged is the one of the run that is shown.
FileOfRun ==
    Settled => \A p \in Sections :
        section[p].file # NoRecord => section[p].file.id = (IF p = "voice" THEN panel.run.take ELSE panel.run.job)

\* A repair is proposed of the run that is shown, and of nothing it was before.
ProposalOfRun ==
    Settled => \A p \in Sections :
        section[p].proposal # NoRecord =>
            section[p].proposal.id = panel.run.id /\ section[p].proposal.of.clock >= panel.run.clock

\* The run that is shown was asked for with the draft that is shown, whatever was
\* under way when the draft changed: "Draft/project changes discard in-flight
\* display results" (EXECUTION_COMPUTE.md).  Not so what a narration's section
\* was doing when it went: its answer puts the run it was about on the page,
\* of an earlier draft, cancelled or replaced by another as it may be.
RunOfDraft ==
    panel.run # NoRecord /\ ~page.due => panel.of.left \/ panel.of.version = page.version

PanelSound == PlanOfDraft /\ RunOfDraft /\ ButtonsReturn /\ OneRunPerPlan /\ FileOfRun /\ ProposalOfRun
                /\ bookmark \in 0..Len(runs)
=============================================================================
