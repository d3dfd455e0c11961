----------------------------- MODULE TalkingRun -----------------------------
(***************************************************************************)
(* The Talking lane of one ProductionRun that holds its approved Master    *)
(* (production_runs.py, talking/planned_admission.py, review_policy.py,    *)
(* repair.py, planned_preview.py): for each planned scene a source is      *)
(* bound and admitted, a video generated, checked, previewed with the      *)
(* Master's sound, reviewed and admitted; then the run resumes to its      *)
(* render.  A scene may have its video generated once more.                *)
(*                                                                         *)
(* Videos are identified by their bytes, as assets are: a provider may     *)
(* return bytes it returned before, and the preview of equal bytes is      *)
(* equal.  The Master keeps its approval, files their bytes; previews are  *)
(* not shorter than their scene, and no concern joins one that was upheld. *)
(* Requests refused for anything else change nothing.                      *)
(***************************************************************************)
EXTENDS Integers, FiniteSets

CONSTANTS
    Scenes,        \* the planned Talking scenes
    Contents,      \* bytes a provider may return for a scene
    Allowance,     \* repairs granted to the run at its start
    MaxAttempts,   \* of a job
    MaxFaults,     \* bounds lost leases, crashes and upsets around the run
    NoContent

VARIABLES
    run,       \* production_runs, its stage and what it was started with
    bind,      \* its talking_source_bindings
    around,    \* what the plan rests on outside the run
    receipts,  \* talking_source_admissions
    jobs,
    assets,    \* talking_generation of the generated videos
    series,    \* the output each planned collection was made of
    previews,  \* the generation whose preview job stored these bytes
    reviews,   \* continuity reviews of the collections
    concerns,  \* localized concerns on a preview, with their answers
    calls,     \* provider calls reserved for a generation job
    work,      \* handlers at work
    desk,      \* the review request between its read and its write
    faults

vars == <<run, bind, around, receipts, jobs, assets, series, previews,
          reviews, concerns, calls, work, desk, faults>>

\* The job a scene was dispatched with, and the one that replaced it.
Gens == 1..2
Jobs == Scenes \X {"gen", "qa", "preview"} \X Gens

\* "faulted" is failed with talking_temporarily_unavailable.
Statuses == {"absent", "pending", "running", "completed", "failed", "faulted", "cancelled"}

\* A rejection or an upheld concern is "faulty" when all it names is visible
\* sync and artifacts, and "wrong" otherwise.
Against == {"faulty", "wrong"}

\* A source is unusable when its claim says so or cannot say; it is "claimed"
\* while a request that applies the claim is under way.
Bindings == [source : {"none", "bound", "claimed", "suitable", "unusable"},
             gen : {0} \cup Gens, out : Contents \cup {NoContent}, qa : {0} \cup Gens,
             preview : {0} \cup Gens, admitted : {0} \cup Gens]

\* job 0: not stored.  by is the job of the QA evidence.
Videos == [job : {0} \cup Gens, attempt : 0..MaxAttempts,
           qa : {"pending", "verified", "failed"}, by : {0} \cup Gens,
           human : {"none", "approved", "rejected"}]

\* What a generation handler stores, over whatever is there.
Fresh(g, a) == [job |-> g, attempt |-> a, qa |-> "pending", by |-> 0, human |-> "none"]

Reviews == [verdict : {"none", "approved"} \cup Against, of : Contents \cup {NoContent}]

\* out is the video a check or a preview read, seen the attempt that made it.
Handlers == [job : Jobs, attempt : 1..MaxAttempts,
             at : {"begun", "called", "read", "good", "bad"},
             out : Contents \cup {NoContent}, seen : 0..MaxAttempts]

Desk == [scene : Scenes, of : Contents, copy : Videos]
NoDesk == [scene |-> NoContent]

ASSUME TalkingAssumption ==
    /\ Allowance \in 0..2 /\ MaxAttempts \in Nat \ {0} /\ MaxFaults \in Nat
    /\ IsFiniteSet(Scenes) /\ Scenes # {} /\ IsFiniteSet(Contents)
    /\ NoContent \notin Contents \cup Scenes

TalkingTypeOK ==
    /\ run \in [stage : {"awaiting_talking", "render", "cancelled"}, policy : 1..2,
                earlier : 0..Allowance, render : {"none", "pending", "claimed", "cancelled"}]
    /\ bind \in [Scenes -> Bindings]
    /\ around \in [draft : BOOLEAN, authority : BOOLEAN, budget : BOOLEAN]
    /\ receipts \in [Scenes -> {"none", "active", "revoked"}]
    /\ jobs \in [Jobs -> [status : Statuses, attempt : 0..MaxAttempts]]
    /\ assets \in [Scenes -> [Contents -> Videos]]
    /\ series \in [Scenes -> [Gens -> Contents \cup {NoContent}]]
    /\ previews \in [Scenes -> [Contents -> {0} \cup Gens]]
    /\ reviews \in [Scenes -> [Gens -> Reviews]]
    /\ concerns \in [Scenes -> [Contents -> {"none", "open", "cleared"} \cup Against]]
    /\ calls \in [Scenes -> [Gens -> Nat]]
    /\ work \subseteq Handlers
    /\ desk \in Desk \cup {NoDesk}
    /\ faults \in 0..MaxFaults

\* repairs of the Voice stage count against the same allowance.
TalkingInit ==
    /\ run \in [stage : {"awaiting_talking"}, policy : 1..2, earlier : 0..Allowance,
                render : {"none"}]
    /\ bind = [s \in Scenes |-> [source |-> "none", gen |-> 0, out |-> NoContent,
                                 qa |-> 0, preview |-> 0, admitted |-> 0]]
    /\ around = [draft |-> TRUE, authority |-> TRUE, budget |-> TRUE]
    /\ receipts = [s \in Scenes |-> "none"]
    /\ jobs = [j \in Jobs |-> [status |-> "absent", attempt |-> 0]]
    /\ assets = [s \in Scenes |-> [c \in Contents |-> Fresh(0, 0)]]
    /\ series = [s \in Scenes |-> [g \in Gens |-> NoContent]]
    /\ previews = [s \in Scenes |-> [c \in Contents |-> 0]]
    /\ reviews = [s \in Scenes |-> [g \in Gens |-> [verdict |-> "none", of |-> NoContent]]]
    /\ concerns = [s \in Scenes |-> [c \in Contents |-> "none"]]
    /\ calls = [s \in Scenes |-> [g \in Gens |-> 0]]
    /\ work = {}
    /\ desk = NoDesk
    /\ faults = 0

-----------------------------------------------------------------------------
(* What a request or a handler finds                                       *)

Job(s, kind, g) == <<s, kind, g>>
Is(s, kind, g, status) == g # 0 /\ jobs[<<s, kind, g>>].status = status

Waiting == run.stage = "awaiting_talking"
Live == Waiting \/ (run.stage = "render" /\ run.render # "cancelled")

\* _require_consumed_talking_source: the saved draft, consent, licence and
\* source bytes as they were, and a receipt nobody revoked.
Consumable(s) ==
    /\ around.draft /\ around.authority
    /\ bind[s].source = "suitable" /\ receipts[s] = "active"

Outputs(s, g) == {c \in Contents : assets[s][c].job = g}

\* require_child_judgment: the older policy waits for a person to approve.
ChildJudged(v) == IF run.policy = 1 THEN v.human = "approved" ELSE v.human # "rejected"

\* require_current_planned_run_origin without the reopened dispatch gates.
Evidence(s) ==
    LET b == bind[s] IN
    /\ Live /\ Consumable(s)
    /\ Is(s, "gen", b.gen, "completed") /\ Is(s, "qa", b.qa, "completed")
    /\ Outputs(s, b.gen) = {b.out}
    /\ assets[s][b.out].qa = "verified" /\ assets[s][b.out].by = b.qa
    /\ ChildJudged(assets[s][b.out])

\* require_current_candidate, given the origin.
Previewed(s) ==
    LET b == bind[s] IN
    /\ b.preview = b.gen /\ series[s][b.preview] = b.out
    /\ Is(s, "preview", b.preview, "completed")
    /\ previews[s][b.out] = b.preview

\* TalkingReviewPolicyService.blockers.
Upheld(s, c) ==
    \/ concerns[s][c] \in Against
    \/ \E g \in Gens : reviews[s][g].of = c /\ reviews[s][g].verdict \in Against
Clear(s, c) == concerns[s][c] # "open" /\ ~Upheld(s, c)

\* Mutant of ReviewStands: no rejection is taken for an approval.
NotRejected(s) == Clear(s, bind[s].out)

\* require_admitted_review.
ReviewStands(s) ==
    LET b == bind[s] IN
    /\ reviews[s][b.preview] = [verdict |-> "approved", of |-> b.out]
    /\ run.policy = 2 => Clear(s, b.out)

\* Mutant of Eligible: the review is not read again.
EligibleOnce(s) == bind[s].admitted # 0 /\ Evidence(s) /\ Previewed(s)

\* talking_visual_blocker finds nothing.
Eligible(s) ==
    /\ bind[s].admitted # 0
    /\ Evidence(s) /\ Previewed(s) /\ ReviewStands(s)

\* _start_stage of a fresh preflight is still awaiting_talking: routing finds
\* no admitted video for any of the scenes.
StillPlanned == \A s \in Scenes : ~Eligible(s)

\* bind_talking_source and _validated_talking_dispatch; only new inference
\* asks for a budget.
Dispatchable(s) == Waiting /\ Consumable(s) /\ StillPlanned

Current(s) == Evidence(s) /\ (bind[s].admitted = 0 => Dispatchable(s))
Candidate(s) == Current(s) /\ Previewed(s)

\* require_talking_job_admission.
Admitted(s, g) == bind[s].gen = g /\ Dispatchable(s) /\ around.budget

-----------------------------------------------------------------------------
(* Requests on a scene's source and video                                  *)

SourceGates ==
    /\ Waiting /\ around.draft /\ around.authority /\ around.budget /\ StillPlanned

BindSource(s) ==
    /\ SourceGates
    /\ bind[s].source = "none"
    /\ bind' = [bind EXCEPT ![s].source = "bound"]
    /\ UNCHANGED <<run, around, receipts, jobs, assets, series, previews, reviews,
                   concerns, calls, work, desk, faults>>

\* A claim on the source passes the gates of bind_talking_source in one
\* transaction and is applied in another.
BeginSuitability(s) ==
    /\ SourceGates
    /\ bind[s].source = "bound"
    /\ bind' = [bind EXCEPT ![s].source = "claimed"]
    /\ UNCHANGED <<run, around, receipts, jobs, assets, series, previews, reviews,
                   concerns, calls, work, desk, faults>>

ApplySuitability(s) ==
    /\ Waiting /\ bind[s].source = "claimed"
    /\ \E d \in {"suitable", "unusable"} : bind' = [bind EXCEPT ![s].source = d]
    /\ UNCHANGED <<run, around, receipts, jobs, assets, series, previews, reviews,
                   concerns, calls, work, desk, faults>>

Fault == faults < MaxFaults /\ faults' = faults + 1

\* A revoked assessment is not admitted again.
AdmitSource(s) ==
    /\ \/ receipts[s] = "none" /\ receipts' = [receipts EXCEPT ![s] = "active"] /\ UNCHANGED faults
       \/ receipts[s] = "active" /\ receipts' = [receipts EXCEPT ![s] = "revoked"] /\ Fault
    /\ UNCHANGED <<run, bind, around, jobs, assets, series, previews, reviews,
                   concerns, calls, work, desk>>

Queue(j) == jobs' = [jobs EXCEPT ![j].status = "pending"]

DispatchTalking(s) ==
    /\ Dispatchable(s) /\ around.budget
    /\ bind[s].gen = 0
    /\ bind' = [bind EXCEPT ![s].gen = 1]
    /\ Queue(Job(s, "gen", 1))
    /\ UNCHANGED <<run, around, receipts, assets, series, previews, reviews, concerns,
                   calls, work, desk, faults>>

\* By request, by the callback of the completed job or by a worker's sweep.
AdvanceQa(s) ==
    LET g == bind[s].gen IN
    /\ Waiting /\ Is(s, "gen", g, "completed")
    /\ bind[s].qa = 0
    /\ \E c \in Contents :
          /\ Outputs(s, g) = {c} /\ assets[s][c].qa = "pending"
          /\ bind' = [bind EXCEPT ![s].out = c, ![s].qa = g]
    /\ Queue(Job(s, "qa", g))
    /\ UNCHANGED <<run, around, receipts, assets, series, previews, reviews, concerns,
                   calls, work, desk, faults>>

PreparePreview(s) ==
    LET g == bind[s].gen IN
    /\ Current(s)
    /\ bind[s].preview = 0
    /\ bind' = [bind EXCEPT ![s].preview = g]
    /\ series' = [series EXCEPT ![s][g] = bind[s].out]
    /\ Queue(Job(s, "preview", g))
    /\ UNCHANGED <<run, around, receipts, assets, previews, reviews, concerns, calls,
                   work, desk, faults>>

\* record_talking_human_review, of the child video: read, then written back.
DeskReads(s) ==
    /\ desk = NoDesk
    /\ \E c \in Contents, d \in {"approved", "rejected"} :
          LET v == assets[s][c] IN
          /\ Is(s, "gen", v.job, "completed") /\ v.qa = "verified" /\ v.human = "none"
          /\ desk' = [scene |-> s, of |-> c, copy |-> [v EXCEPT !.human = d]]
    /\ UNCHANGED <<run, bind, around, receipts, jobs, assets, series, previews,
                   reviews, concerns, calls, work, faults>>

DeskWrites ==
    /\ desk # NoDesk
    /\ assets' = [assets EXCEPT ![desk.scene][desk.of] = desk.copy]
    /\ desk' = NoDesk
    /\ UNCHANGED <<run, bind, around, receipts, jobs, series, previews, reviews,
                   concerns, calls, work, faults>>

Verdicts == {"approved", "wrong"} \cup (IF run.policy = 2 THEN {"faulty"} ELSE {})

\* One review of a collection, for good; the older policy knows no concerns.
RecordReview(s) ==
    LET b == bind[s] IN
    /\ Candidate(s)
    /\ reviews[s][b.preview].verdict = "none"
    /\ \E v \in Verdicts :
          /\ v = "approved" /\ run.policy = 2 => Clear(s, b.out)
          /\ reviews' = [reviews EXCEPT ![s][b.preview] = [verdict |-> v, of |-> b.out]]
    /\ UNCHANGED <<run, bind, around, receipts, jobs, assets, series, previews,
                   concerns, calls, work, desk, faults>>

Concern(s) ==
    LET c == bind[s].out IN
    /\ run.policy = 2 /\ Candidate(s)
    /\ \/ /\ concerns[s][c] \in {"none", "cleared"}
          /\ concerns' = [concerns EXCEPT ![s][c] = "open"]
       \/ /\ concerns[s][c] = "open"
          /\ \E a \in {"cleared"} \cup Against : concerns' = [concerns EXCEPT ![s][c] = a]
    /\ UNCHANGED <<run, bind, around, receipts, jobs, assets, series, previews,
                   reviews, calls, work, desk, faults>>

AdmitRun(s) ==
    /\ Candidate(s) /\ ReviewStands(s)
    /\ bind[s].admitted = 0
    /\ bind' = [bind EXCEPT ![s].admitted = bind[s].preview]
    /\ UNCHANGED <<run, around, receipts, jobs, assets, series, previews, reviews,
                   concerns, calls, work, desk, faults>>

-----------------------------------------------------------------------------
(* Requests on the run                                                     *)

\* The evidence TalkingRepairService.plan asks for.
Repairable(s) ==
    LET b == bind[s]
        said == {reviews[s][b.preview].verdict, concerns[s][b.out]}
    IN  \/ Is(s, "gen", b.gen, "faulted")
        \/ /\ Is(s, "gen", b.gen, "completed") /\ b.preview # 0
           /\ Candidate(s)
           /\ "faulty" \in said /\ said \cap {"open", "wrong"} = {}

Repairs == run.earlier + Cardinality({s \in Scenes : bind[s].gen = 2})

\* Mutant of Repair: the check of the replaced video stays bound.
RepairKeepsQa(s) ==
    /\ bind[s].gen = 1 /\ bind[s].admitted = 0
    /\ Admitted(s, 1)
    /\ Repairs < Allowance
    /\ Repairable(s)
    /\ bind' = [bind EXCEPT ![s].gen = 2, ![s].preview = 0]
    /\ Queue(Job(s, "gen", 2))
    /\ UNCHANGED <<run, around, receipts, assets, series, previews, reviews, concerns,
                   calls, work, desk, faults>>

\* Once for a scene, within the run's allowance.
Repair(s) ==
    /\ bind[s].gen = 1 /\ bind[s].admitted = 0
    /\ Admitted(s, 1)
    /\ Repairs < Allowance
    /\ Repairable(s)
    /\ bind' = [bind EXCEPT ![s] = [@ EXCEPT !.gen = 2, !.out = NoContent, !.qa = 0, !.preview = 0]]
    /\ Queue(Job(s, "gen", 2))
    /\ UNCHANGED <<run, around, receipts, assets, series, previews, reviews, concerns,
                   calls, work, desk, faults>>

Resume ==
    /\ Waiting /\ around.draft
    /\ \A s \in Scenes : Eligible(s)
    /\ run' = [run EXCEPT !.stage = "render", !.render = "pending"]
    /\ UNCHANGED <<bind, around, receipts, jobs, assets, series, previews, reviews,
                   concerns, calls, work, desk, faults>>

Linked(s) == {Job(s, "gen", bind[s].gen), Job(s, "qa", bind[s].qa),
              Job(s, "preview", bind[s].preview)} \cap Jobs
AllLinked == UNION {Linked(s) : s \in Scenes}

Withdrawn(S) ==
    [j \in Jobs |-> IF j \in S /\ jobs[j].status = "pending"
                    THEN [jobs[j] EXCEPT !.status = "cancelled"] ELSE jobs[j]]

\* Mutant of Cancel: the jobs are left to the workers.
CancelRowOnly ==
    /\ Waiting
    /\ run' = [run EXCEPT !.stage = "cancelled"]
    /\ UNCHANGED <<bind, around, receipts, jobs, assets, series, previews, reviews, concerns,
                   calls, work, desk, faults>>

Cancel ==
    /\ \/ /\ Waiting
          /\ \A j \in AllLinked : jobs[j].status # "running"
          /\ jobs' = Withdrawn(AllLinked)
          /\ run' = [run EXCEPT !.stage = "cancelled"]
       \/ /\ run.stage = "render" /\ run.render = "pending"
          /\ run' = [run EXCEPT !.render = "cancelled"]
          /\ UNCHANGED jobs
    /\ UNCHANGED <<bind, around, receipts, assets, series, previews, reviews, concerns,
                   calls, work, desk, faults>>

\* A save of the draft is for good; consent, licence and budget come and go.
Around ==
    /\ Live
    /\ \/ \E x \in {"draft", "authority", "budget"} :
             around[x] /\ Fault /\ around' = [around EXCEPT ![x] = FALSE]
       \/ \E x \in {"authority", "budget"} :
             around' = [around EXCEPT ![x] = TRUE] /\ UNCHANGED faults
    /\ UNCHANGED <<run, bind, receipts, jobs, assets, series, previews, reviews,
                   concerns, calls, work, desk>>

-----------------------------------------------------------------------------
(* Workers                                                                 *)

Claim(j) ==
    /\ jobs[j].status = "pending"
    /\ jobs' = [jobs EXCEPT ![j].status = "running", ![j].attempt = @ + 1]
    /\ work' = work \cup {[job |-> j, attempt |-> jobs[j].attempt + 1, at |-> "begun",
                           out |-> NoContent, seen |-> 0]}
    /\ UNCHANGED <<run, bind, around, receipts, assets, series, previews, reviews,
                   concerns, calls, desk, faults>>

ClaimRender ==
    /\ run.render = "pending"
    /\ run' = [run EXCEPT !.render = "claimed"]
    /\ UNCHANGED <<bind, around, receipts, jobs, assets, series, previews, reviews,
                   concerns, calls, work, desk, faults>>

Owns(w) == jobs[w.job].status = "running" /\ jobs[w.job].attempt = w.attempt
Spent(j) == jobs[j].attempt = MaxAttempts

\* A report is refused once the lease is lost.
Ends(w, status) ==
    /\ work' = work \ {w}
    /\ jobs' = IF Owns(w) THEN [jobs EXCEPT ![w.job].status = status] ELSE jobs

Retries(w, status) == Ends(w, IF Spent(w.job) THEN status ELSE "pending")

Goes(w, at) == work' = (work \ {w}) \cup {[w EXCEPT !.at = at]}

\* A handler's result is decided; now it reports.
Reports(w) ==
    /\ \/ w.at = "good" /\ Ends(w, "completed")
       \/ w.at = "bad" /\ Ends(w, "failed")
    /\ UNCHANGED <<run, bind, around, receipts, assets, series, previews, reviews,
                   concerns, calls, desk, faults>>

\* Mutant of CallAllowed: one call for each attempt.
CallEachAttempt(s, g) == calls[s][g] < MaxAttempts

\* require_repair_call_budget: a replacement has one call, whatever its attempt.
CallAllowed(s, g) == g = 2 => calls[s][g] = 0

\* Admission is checked twice before and once inside the reservation.
GenCalls(w) ==
    LET s == w.job[1] g == w.job[3] IN
    /\ w.at = "begun"
    /\ Admitted(s, g) /\ CallAllowed(s, g)
    /\ calls' = [calls EXCEPT ![s][g] = @ + 1]
    /\ Goes(w, "called")
    /\ UNCHANGED <<run, bind, around, receipts, jobs, assets, series, previews, reviews,
                   concerns, desk, faults>>

\* Refused, or no answer from the provider; only "temporarily unavailable"
\* is what a repair accepts.
GenFails(w) ==
    /\ \/ w.at \in {"begun", "called"} /\ (Ends(w, "failed") \/ Retries(w, "failed"))
       \/ w.at = "called" /\ Retries(w, "faulted")
    /\ UNCHANGED <<run, bind, around, receipts, assets, series, previews, reviews,
                   concerns, calls, desk, faults>>

\* Bytes that are known keep their row and get this job's metadata.
GenStores(w) ==
    LET s == w.job[1] IN
    /\ w.at = "called"
    /\ \E c \in Contents :
          assets' = [assets EXCEPT ![s][c] = Fresh(w.job[3], w.attempt)]
    /\ Goes(w, "good")
    /\ UNCHANGED <<run, bind, around, receipts, jobs, series, previews, reviews,
                   concerns, calls, desk, faults>>

\* require_talking_qa_job.
QaCurrent(s, g) ==
    LET b == bind[s] IN
    /\ Live /\ b.gen = g /\ b.qa = g
    /\ Is(s, "gen", g, "completed") /\ Outputs(s, g) = {b.out}

\* A verdict this job left behind is reported again.
QaReads(w) ==
    LET s == w.job[1]
        g == w.job[3]
        c == bind[s].out
        mayRead == QaCurrent(s, g) /\ assets[s][c].qa = "pending"
        done == QaCurrent(s, g) /\ assets[s][c].qa = "verified" /\ assets[s][c].by = g
    IN
    /\ w.at = "begun"
    /\ \/ /\ mayRead
          /\ work' = (work \ {w}) \cup {[w EXCEPT !.at = "read", !.out = c,
                                                  !.seen = assets[s][c].attempt]}
       \/ done /\ Goes(w, "good")
       \/ ~mayRead /\ ~done /\ Goes(w, "bad")
    /\ UNCHANGED <<run, bind, around, receipts, jobs, assets, series, previews, reviews,
                   concerns, calls, desk, faults>>

\* Mutant of Unchanged: only the job is compared.
SameJob(w) == assets[w.job[1]][w.out].job = w.job[3]

\* current.metadata != output.metadata.
Unchanged(w) == assets[w.job[1]][w.out] = Fresh(w.job[3], w.seen)

QaWrites(w) ==
    LET s == w.job[1] g == w.job[3] IN
    /\ w.at = "read"
    /\ \/ /\ Unchanged(w)
          /\ \E q \in {"verified", "failed"} :
                /\ assets' = [assets EXCEPT ![s][w.out] = [Fresh(g, w.seen) EXCEPT !.qa = q, !.by = g]]
                /\ Goes(w, IF q = "verified" THEN "good" ELSE "bad")
       \/ ~Unchanged(w) /\ Goes(w, "bad") /\ UNCHANGED assets
    /\ UNCHANGED <<run, bind, around, receipts, jobs, series, previews, reviews,
                   concerns, calls, desk, faults>>

Stored(s, g) == {c \in Contents : previews[s][c] = g}

\* TalkingRunPreviewJobHandler._current.
PreviewCurrent(s, g) ==
    /\ Current(s)
    /\ bind[s].gen = g /\ bind[s].preview = g /\ series[s][g] = bind[s].out
    /\ run.policy = 2 => \A c \in Stored(s, g) : ~Upheld(s, c)

PreviewReads(w) ==
    LET s == w.job[1] g == w.job[3] IN
    /\ w.at = "begun"
    /\ \/ /\ PreviewCurrent(s, g) /\ Stored(s, g) = {}
          /\ work' = (work \ {w}) \cup {[w EXCEPT !.at = "read", !.out = bind[s].out]}
       \/ PreviewCurrent(s, g) /\ Stored(s, g) # {} /\ Goes(w, "good")
       \/ ~PreviewCurrent(s, g) /\ Goes(w, "bad")
    /\ UNCHANGED <<run, bind, around, receipts, jobs, assets, series, previews, reviews,
                   concerns, calls, desk, faults>>

\* "preview bytes collide with another asset identity"
NewBytes(s, c) == previews[s][c] = 0

PreviewWrites(w) ==
    LET s == w.job[1]
        g == w.job[3]
        ok == PreviewCurrent(s, g) /\ NewBytes(s, w.out)
    IN
    /\ w.at = "read"
    /\ Goes(w, IF ok THEN "good" ELSE "bad")
    /\ previews' = IF ok THEN [previews EXCEPT ![s][w.out] = g] ELSE previews
    /\ UNCHANGED <<run, bind, around, receipts, jobs, assets, series, reviews, concerns,
                   calls, desk, faults>>

\* A handler dies, or its lease runs out and it works on without.
LoseLease(j) ==
    /\ Fault
    /\ jobs[j].status = "running"
    /\ jobs' = [jobs EXCEPT ![j].status = IF Spent(j) THEN "failed" ELSE "pending"]
    /\ \E dead \in SUBSET {w \in work : w.job = j /\ Owns(w)} : work' = work \ dead
    /\ UNCHANGED <<run, bind, around, receipts, assets, series, previews, reviews,
                   concerns, calls, desk>>

-----------------------------------------------------------------------------
Requests(s) ==
    \/ BindSource(s) \/ BeginSuitability(s) \/ ApplySuitability(s) \/ AdmitSource(s)
    \/ DispatchTalking(s) \/ AdvanceQa(s) \/ PreparePreview(s) \/ DeskReads(s) \/ RecordReview(s)
    \/ Concern(s) \/ AdmitRun(s) \/ Repair(s)

Handle(w) ==
    \/ Reports(w)
    \/ w.job[2] = "gen" /\ (GenCalls(w) \/ GenFails(w) \/ GenStores(w))
    \/ w.job[2] = "qa" /\ (QaReads(w) \/ QaWrites(w))
    \/ w.job[2] = "preview" /\ (PreviewReads(w) \/ PreviewWrites(w))

TalkingNext ==
    \/ \E s \in Scenes : Requests(s)
    \/ \E j \in Jobs : Claim(j) \/ LoseLease(j)
    \/ \E w \in work : Handle(w)
    \/ Resume \/ Cancel \/ Around \/ DeskWrites \/ ClaimRender

TalkingSpec == TalkingInit /\ [][TalkingNext]_vars

-----------------------------------------------------------------------------
(***************************************************************************)
(* What the Talking lane keeps between a scene's binding, its jobs, the    *)
(* videos and what people said of them.                                    *)
(***************************************************************************)
\* What a scene is bound to was made of one generation: no callback, check or
\* preview of a replaced video is taken for the new one's.
BoundTogether ==
    \A s \in Scenes : LET b == bind[s] IN
        /\ b.qa \in {0, b.gen} /\ b.preview \in {0, b.gen} /\ b.admitted \in {0, b.preview}
        /\ b.qa = 0 <=> b.out = NoContent
        /\ b.preview # 0 => series[s][b.gen] = b.out /\ Is(s, "qa", b.qa, "completed")
        /\ \A c \in Contents : assets[s][c].by # 0 => assets[s][c].by = assets[s][c].job

\* An admitted video is what the approved review was of, previewed by its own
\* job, and neither those bytes nor those of its predecessor were rejected.
AdmittedAsReviewed ==
    \A s \in Scenes : LET b == bind[s] IN b.admitted # 0 =>
        /\ reviews[s][b.admitted] = [verdict |-> "approved", of |-> b.out]
        /\ previews[s][b.out] = b.admitted
        /\ run.policy = 2 => \A g \in Gens : reviews[s][g].of = b.out => g = b.admitted

\* No worker is left a job of a cancelled run, or of a video that was replaced.
NothingLeftQueued ==
    \A j \in Jobs : (run.stage = "cancelled" \/ j \notin AllLinked)
                       => jobs[j].status \notin {"pending", "running"}

\* Repairs stay within the allowance, and each sends one request to the
\* provider, through retries, crashes and handlers that outlive their lease.
RepairsBounded ==
    /\ Repairs <= Allowance
    /\ \A s \in Scenes : calls[s][2] <= 1

\* What a scene's binding, its jobs and the allowance keep together.
SceneStands == BoundTogether /\ NothingLeftQueued /\ RepairsBounded

\* What a person decided on a video stands until the same bytes are generated
\* anew: no check that began earlier and no other review takes it back.
JudgmentKept ==
    [][\A s \in Scenes, c \in Contents :
          assets[s][c].human # "none" =>
              \/ assets'[s][c].human = assets[s][c].human
              \/ assets'[s][c].qa = "pending" /\ \E w \in work : w.at = "called" /\ w.job[1] = s]_vars

\* The render is queued for videos whose review stands at that moment, on
\* receipts, consent and draft as they then are ("cancelled, revoked,
\* incomplete, replaced or too-short visuals stop").
RenderEarned ==
    [][run.stage # "render" /\ run'.stage = "render" =>
          /\ around.draft /\ around.authority
          /\ \A s \in Scenes :
                LET b == bind[s] IN
                /\ b.admitted # 0 /\ receipts[s] = "active"
                /\ reviews[s][b.admitted].verdict = "approved"
                /\ run.policy = 2 => concerns[s][b.out] \in {"none", "cleared"}
                /\ assets[s][b.out].qa = "verified" /\ assets[s][b.out].job = b.gen]_vars

\* Every scene can be admitted once its exact preview is approved ("after every
\* planned dependency is admitted, the existing resume action locks those exact
\* native-portrait Run Clips").
ReviewedAdmissible ==
    \A s \in Scenes :
        (/\ Waiting /\ Evidence(s) /\ Previewed(s) /\ ReviewStands(s)
         /\ bind[s].admitted = 0) => Candidate(s)
=============================================================================
