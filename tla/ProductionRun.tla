--------------------------- MODULE ProductionRun ---------------------------
(***************************************************************************)
(* ProductionRunService (production_runs.py) and VoiceRepairService        *)
(* (voice_repair.py) for the typography lane of one project: a run is      *)
(* started from a plan, has its narration generated, checked and reviewed, *)
(* and renders once.  Beside the owner's requests there are the workers    *)
(* that execute the linked jobs, the completion callback of a voice job    *)
(* with its sweep at a worker's start, and whoever edits the draft or      *)
(* checks and reviews takes by hand.                                       *)
(*                                                                         *)
(* A job is what JobLifecycle promises.  A check reads the take, works for *)
(* minutes and writes its copy back, over whatever was decided meanwhile,  *)
(* and so does a review, as in VoiceTake: a take may lose its approval     *)
(* again.  The API process runs its requests one after the other.          *)
(* Requests may be refused for reasons outside this model (budget,         *)
(* licence, consent, changed bytes) and then change nothing.               *)
(***************************************************************************)
EXTENDS Integers, FiniteSets

CONSTANTS
    Runs,
    OtherTakes,    \* takes of the project's voice jobs outside any run
    Allowance,     \* repairs granted to a run at its start
    MaxAttempts,   \* of a job
    MaxVersion,    \* bounds saves of the draft
    MaxFaults,     \* bounds lost leases, crashes and checks by hand
    NoRow, NoJob, NoTake

VARIABLES
    draft,   \* the project's draft
    rows,    \* production_runs
    jobs,    \* the runs' jobs
    takes,   \* audio_assets, in the order they were stored
    late,    \* voice and QA attempts at work although their lease was lost
    check,   \* where each check of a take is: it holds a copy, or has stored a verdict
    desk,    \* the take the review endpoint holds a copy of
    calls,   \* where the completion callback of each voice job is
    down,    \* is a worker to be relaunched?
    faults

vars == <<draft, rows, jobs, takes, late, check, desk, calls, down, faults>>

VoiceJobs == Runs \X {"voice", "revoice"}
QaJobs == Runs \X {"qa", "reqa"}
RenderJobs == Runs \X {"render"}
Jobs == VoiceJobs \cup QaJobs \cup RenderJobs

\* The idempotency keys of advance_voice_qa and _enqueue_render.
QaOf(j) == <<j[1], IF j[2] = "voice" THEN "qa" ELSE "reqa">>
RenderOf(r) == <<r, "render">>

Attempts == 1..MaxAttempts
JobTakes == VoiceJobs \X Attempts
Takes == JobTakes \cup OtherTakes

\* A check by hand is named by its take, of which one such is at work at most.
QaAttempts == QaJobs \X Attempts
Checks == QaAttempts \cup Takes
Verdicts == {"verified", "failed"}

\* "faulted" is a failure a repair accepts: voice_temporarily_unavailable, or
\* voice_qa_failed with nothing but copy checks.
Statuses == {"absent", "pending", "running", "completed", "failed", "faulted", "cancelled"}

\* version counts saves; plan and script stand for what the fingerprint and
\* the voice copy are computed from.
Drafts == [version : 1..MaxVersion, plan : 1..MaxVersion, script : 1..MaxVersion]

\* order 0: not stored.
TakeRows == [order : 0..Cardinality(Takes), script : 0..MaxVersion,
             qa : {"pending", "verified", "failed"},
             review : {"pending", "approved", "rejected"}]

Rows == [stage : {"awaiting_master", "voice", "render", "cancelled"},
         plan : (1..MaxVersion) \X (Takes \cup {NoTake}),
         version : 1..MaxVersion, script : 1..MaxVersion,
         voice : VoiceJobs \cup {NoJob}, audio : Takes \cup {NoTake},
         qa : QaJobs \cup {NoJob}, stopped : BOOLEAN, repairs : 0..1]

\* take is a QA job's subject and the narration of a render job's video_spec.
JobRows == [status : Statuses, attempt : 0..MaxAttempts, take : Takes \cup {NoTake}]

ASSUME RunAssumption ==
    /\ MaxAttempts \in Nat \ {0} /\ MaxVersion \in Nat \ {0}
    /\ Allowance \in 0..2 /\ MaxFaults \in Nat
    /\ IsFiniteSet(Runs) /\ IsFiniteSet(OtherTakes)
    /\ OtherTakes \cap JobTakes = {}
    /\ NoTake \notin Takes /\ NoJob \notin Jobs /\ NoRow \notin Rows

RunTypeOK ==
    /\ draft \in Drafts
    /\ rows \in [Runs -> Rows \cup {NoRow}]
    /\ jobs \in [Jobs -> JobRows]
    /\ takes \in [Takes -> TakeRows]
    /\ late \subseteq JobTakes \cup QaAttempts
    /\ check \in [Checks -> {"none", "copy"} \cup Verdicts]
    /\ desk \in Takes \cup {NoTake}
    /\ calls \in [VoiceJobs -> {"none", "owed", "read", "refused"}]
    /\ down \in BOOLEAN
    /\ faults \in 0..MaxFaults

RunInit ==
    /\ draft = [version |-> 1, plan |-> 1, script |-> 1]
    /\ rows = [r \in Runs |-> NoRow]
    /\ jobs = [j \in Jobs |-> [status |-> "absent", attempt |-> 0, take |-> NoTake]]
    /\ takes = [t \in Takes |-> [order |-> 0, script |-> 0, qa |-> "pending", review |-> "pending"]]
    /\ late = {}
    /\ check = [c \in Checks |-> "none"]
    /\ desk = NoTake
    /\ calls = [j \in VoiceJobs |-> "none"]
    /\ down = FALSE
    /\ faults = 0

-----------------------------------------------------------------------------
(* What the preflight sees                                                 *)

Stored(t) == takes[t].order > 0
Reusable(t) == Stored(t) /\ takes[t].review = "approved" /\ takes[t].script = draft.script

\* _approved_master: the first one in the table.
First(t) == Reusable(t) /\ \A u \in Takes : Reusable(u) => takes[t].order <= takes[u].order
Master == IF \E t \in Takes : First(t) THEN CHOOSE t \in Takes : First(t) ELSE NoTake

\* The fingerprint.
PlanNow == <<draft.plan, Master>>

Made(t, j) == \E a \in Attempts : t = <<j, a>>
Outputs(j) == {t \in Takes : Stored(t) /\ Made(t, j)}

Exists(r) == rows[r] # NoRow
In(r, stages) == Exists(r) /\ rows[r].stage \in stages
Is(j, statuses) == j # NoJob /\ jobs[j].status \in statuses
Current(r) == rows[r].version = draft.version

\* Mutant: the fingerprint is not unique in the table.
PlanAlwaysFree(r) == TRUE

\* UNIQUE(project_id, preflight_fingerprint), and the checks before it.
PlanFree(r) == \A q \in Runs \ {r} : Exists(q) => rows[q].plan # PlanNow

Queued(t) == [status |-> "pending", attempt |-> 0, take |-> t]

-----------------------------------------------------------------------------
(* Requests                                                                *)

\* A repeated start, of the same key or the same plan, returns the row.
Start(r) ==
    /\ ~Exists(r)
    /\ PlanFree(r)
    /\ rows' = [rows EXCEPT ![r] =
                   [stage |-> IF Master = NoTake THEN "awaiting_master" ELSE "render",
                    plan |-> PlanNow, version |-> draft.version, script |-> draft.script,
                    voice |-> NoJob, audio |-> NoTake, qa |-> NoJob,
                    stopped |-> FALSE, repairs |-> 0]]
    /\ jobs' = IF Master = NoTake THEN jobs ELSE [jobs EXCEPT ![RenderOf(r)] = Queued(Master)]
    /\ UNCHANGED <<draft, takes, late, check, desk, calls, down, faults>>

DispatchVoice(r) ==
    /\ In(r, {"awaiting_master"})
    /\ Current(r) /\ Master = NoTake
    /\ rows' = [rows EXCEPT ![r].stage = "voice", ![r].voice = <<r, "voice">>]
    /\ jobs' = [jobs EXCEPT ![<<r, "voice">>] = Queued(NoTake)]
    /\ UNCHANGED <<draft, takes, late, check, desk, calls, down, faults>>

CanAdvance(r) ==
    /\ In(r, {"voice"}) /\ rows[r].qa = NoJob
    /\ Is(rows[r].voice, {"completed"})
    /\ Current(r) /\ Master = NoTake
    /\ \E t \in Takes : Outputs(rows[r].voice) = {t} /\ takes[t].qa = "pending"

BindQa(r) ==
    LET t == CHOOSE u \in Takes : u \in Outputs(rows[r].voice)
        q == QaOf(rows[r].voice)
    IN  /\ rows' = [rows EXCEPT ![r].audio = t, ![r].qa = q, ![r].stopped = FALSE]
        /\ jobs' = [jobs EXCEPT ![q] = Queued(t)]

\* advance_voice_qa as the explicit retry.
AdvanceVoiceQa(r) ==
    /\ CanAdvance(r)
    /\ BindQa(r)
    /\ UNCHANGED <<draft, takes, late, check, desk, calls, down, faults>>

\* Mutant: any approved take of the copy will do.
AnyMaster(r) == TRUE

\* approved_master_not_from_run_voice_job, _not_bound_voice_output.
MasterIsOwn(r) ==
    rows[r].stage = "voice" =>
        /\ Made(Master, rows[r].voice)
        /\ rows[r].audio \in {NoTake, Master}

CanResume(r) ==
    /\ In(r, {"awaiting_master", "voice"})
    /\ rows[r].stage = "voice" =>
          /\ Is(rows[r].voice, {"completed"})
          /\ rows[r].qa # NoJob => Is(rows[r].qa, {"completed"})
    /\ Current(r)
    /\ Master # NoTake
    /\ MasterIsOwn(r)
    /\ PlanFree(r)

Resume(r) ==
    /\ CanResume(r)
    /\ rows' = [rows EXCEPT ![r].stage = "render", ![r].plan = PlanNow]
    /\ jobs' = [jobs EXCEPT ![RenderOf(r)] = Queued(Master)]
    /\ UNCHANGED <<draft, takes, late, check, desk, calls, down, faults>>

Linked(r) == {rows[r].voice, rows[r].qa} \ {NoJob}

\* Mutant: the pending jobs are left in the queue.
CancelRowOnly(r) ==
    /\ In(r, {"awaiting_master", "voice"})
    /\ ~\E j \in Linked(r) : Is(j, {"running"})
    /\ rows' = [rows EXCEPT ![r].stage = "cancelled"]
    /\ UNCHANGED <<draft, jobs, takes, late, check, desk, calls, down, faults>>

Withdrawn(S) ==
    [j \in Jobs |-> IF j \in S /\ jobs[j].status = "pending"
                    THEN [jobs[j] EXCEPT !.status = "cancelled"] ELSE jobs[j]]

Cancel(r) ==
    /\ \/ /\ In(r, {"awaiting_master", "voice"})
          /\ ~\E j \in Linked(r) : Is(j, {"running"})
          /\ rows' = [rows EXCEPT ![r].stage = "cancelled"]
          /\ jobs' = Withdrawn(Linked(r))
       \/ /\ In(r, {"render"})
          /\ Is(RenderOf(r), {"pending"})
          /\ jobs' = Withdrawn({RenderOf(r)})
          /\ UNCHANGED rows
    /\ UNCHANGED <<draft, takes, late, check, desk, calls, down, faults>>

\* Mutant: the take's own state is not looked at.
AnyTake(t) == TRUE

\* voice_repair_approved_master_not_replaceable, _human_judgment_requires_replan.
Unreviewed(t) == takes[t].review = "pending" /\ takes[t].qa = "failed"

Repairable(r) ==
    \/ Is(rows[r].voice, {"faulted"})
    \/ /\ Is(rows[r].voice, {"completed"}) /\ rows[r].audio # NoTake
       /\ Is(rows[r].qa, {"faulted"})
       /\ Unreviewed(rows[r].audio)

\* Mutant: the predecessor's take and QA job stay bound.
RepairKeepsQa(r) ==
    /\ In(r, {"voice"})
    /\ rows[r].repairs = 0 /\ Allowance > 0
    /\ Current(r)
    /\ Repairable(r)
    /\ rows' = [rows EXCEPT ![r].voice = <<r, "revoice">>, ![r].stopped = FALSE, ![r].repairs = 1]
    /\ jobs' = [jobs EXCEPT ![<<r, "revoice">>] = Queued(NoTake)]
    /\ UNCHANGED <<draft, takes, late, check, desk, calls, down, faults>>

\* VoiceRepairService.execute: one per run (UNIQUE run_id).
Repair(r) ==
    /\ In(r, {"voice"})
    /\ rows[r].repairs = 0 /\ Allowance > 0
    /\ Current(r)
    /\ Repairable(r)
    /\ rows' = [rows EXCEPT ![r].voice = <<r, "revoice">>, ![r].audio = NoTake,
                            ![r].qa = NoJob, ![r].stopped = FALSE, ![r].repairs = 1]
    /\ jobs' = [jobs EXCEPT ![<<r, "revoice">>] = Queued(NoTake)]
    /\ UNCHANGED <<draft, takes, late, check, desk, calls, down, faults>>

-----------------------------------------------------------------------------
(* Around the runs: drafts, other takes, checks by hand, human reviews     *)

\* save_project_draft of routes and the like, of what the plan is made of, or
\* of the copy as well.
SaveDraft ==
    /\ draft.version < MaxVersion
    /\ \E p, s \in {0, 1} :
          /\ s <= p
          /\ draft' = [version |-> draft.version + 1, plan |-> draft.plan + p,
                       script |-> draft.script + s]
    /\ UNCHANGED <<rows, jobs, takes, late, check, desk, calls, down, faults>>

StoreTake(t, script) ==
    /\ ~Stored(t)
    /\ takes' = [takes EXCEPT ![t].script = script,
                              ![t].order = Cardinality({u \in Takes : Stored(u)}) + 1]

OtherTake(t) ==
    /\ t \in OtherTakes
    /\ StoreTake(t, draft.script)
    /\ UNCHANGED <<draft, rows, jobs, late, check, desk, calls, down, faults>>

\* apply_voice_qa on the copy the check has read: what it read was not
\* verified, and so nobody had decided on it.
Verdict(t, v) == takes' = [takes EXCEPT ![t].qa = v, ![t].review = "pending"]

\* POST voice-qa-jobs, and the handler of the job it queues: read, then write.
Checking(c, s) == check' = [check EXCEPT ![c] = s]
Reads(c, t) == check[c] = "none" /\ takes[t].qa # "verified" /\ Checking(c, "copy")

HandReads(t) ==
    /\ faults < MaxFaults
    /\ Stored(t) /\ Reads(t, t)
    /\ faults' = faults + 1
    /\ UNCHANGED <<draft, rows, jobs, takes, late, desk, calls, down>>

\* The verdict, or none.
Answers(t) == UNCHANGED takes \/ \E v \in Verdicts : Verdict(t, v)

HandWrites(t) ==
    /\ check[t] = "copy"
    /\ Answers(t)
    /\ Checking(t, "none")
    /\ UNCHANGED <<draft, rows, jobs, late, desk, calls, down, faults>>

\* record_voice_human_review: read and check, then write the copy.
ReviewReads(t) ==
    /\ desk = NoTake
    /\ takes[t].qa = "verified" /\ takes[t].review = "pending"
    /\ desk' = t
    /\ UNCHANGED <<draft, rows, jobs, takes, late, check, calls, down, faults>>

ReviewWrites ==
    /\ desk # NoTake
    /\ \E d \in {"approved", "rejected"} :
          takes' = [takes EXCEPT ![desk].qa = "verified", ![desk].review = d]
    /\ desk' = NoTake
    /\ UNCHANGED <<draft, rows, jobs, late, check, calls, down, faults>>

-----------------------------------------------------------------------------
(* Workers                                                                 *)

Ends(j, s) == jobs' = [jobs EXCEPT ![j].status = s]

\* Another attempt, or the end.
Retry(j, end) == Ends(j, IF jobs[j].attempt < MaxAttempts THEN "pending" ELSE end)

Claim(j) ==
    /\ Is(j, {"pending"})
    /\ jobs' = [jobs EXCEPT ![j].status = "running", ![j].attempt = @ + 1]
    /\ UNCHANGED <<draft, rows, takes, late, check, desk, calls, down, faults>>

This(j) == <<j, jobs[j].attempt>>

\* The script of a voice job is its run's: a row keeps the script revision.
VoiceStores(j) ==
    /\ Is(j, {"running"})
    /\ StoreTake(This(j), rows[j[1]].script)
    /\ UNCHANGED <<draft, rows, jobs, late, check, desk, calls, down, faults>>

LateStores(t) ==
    /\ t \in late \cap JobTakes
    /\ StoreTake(t, rows[t[1][1]].script)
    /\ late' = late \ {t}
    /\ UNCHANGED <<draft, rows, jobs, calls, down, check, desk, faults>>

VoiceEnds(j) ==
    /\ Is(j, {"running"})
    /\ IF Stored(This(j))
       THEN Ends(j, "completed") /\ calls' = [calls EXCEPT ![j] = "owed"]
       ELSE (Retry(j, "faulted") \/ Ends(j, "failed")) /\ UNCHANGED calls
    /\ UNCHANGED <<draft, rows, takes, late, check, desk, down, faults>>

QaReads(j) ==
    /\ Is(j, {"running"})
    /\ Reads(This(j), jobs[j].take)
    /\ UNCHANGED <<draft, rows, jobs, takes, late, desk, calls, down, faults>>

QaWrites(j) ==
    /\ Is(j, {"running"})
    /\ check[This(j)] = "copy"
    /\ \E v \in Verdicts : Verdict(jobs[j].take, v) /\ Checking(This(j), v)
    /\ UNCHANGED <<draft, rows, jobs, late, desk, calls, down, faults>>

QaEnds(j) ==
    /\ Is(j, {"running"})
    /\ \/ check[This(j)] = "verified" /\ Ends(j, "completed")
       \/ check[This(j)] = "failed" /\ (Ends(j, "failed") \/ Ends(j, "faulted"))
    /\ Checking(This(j), "none")
    /\ UNCHANGED <<draft, rows, takes, late, desk, calls, down, faults>>

\* voice_qa_already_verified, and every error before or after the verdict.
QaFails(j) ==
    /\ Is(j, {"running"})
    /\ Retry(j, "failed") \/ Ends(j, "failed")
    /\ Checking(This(j), "none")
    /\ UNCHANGED <<draft, rows, takes, late, desk, calls, down, faults>>

LateReads(c) ==
    /\ c \in late \cap QaAttempts
    /\ Reads(c, jobs[c[1]].take)
    /\ UNCHANGED <<draft, rows, jobs, takes, late, desk, calls, down, faults>>

LateAnswers(c) ==
    /\ c \in late \cap QaAttempts
    /\ check[c] = "copy"
    /\ Answers(jobs[c[1]].take)
    /\ Checking(c, "none")
    /\ late' = late \ {c}
    /\ UNCHANGED <<draft, rows, jobs, desk, calls, down, faults>>

RenderEnds(j) ==
    /\ Is(j, {"running"})
    /\ Ends(j, "completed") \/ Retry(j, "failed") \/ Ends(j, "failed")
    /\ UNCHANGED <<draft, rows, takes, late, check, desk, calls, down, faults>>

\* A handler dies or its lease runs out; what it stored stays, and without
\* its lease it may still store.
Dies(j) ==
    /\ down' = TRUE
    /\ IF j \in QaJobs THEN Checking(This(j), "none") ELSE UNCHANGED check
    /\ UNCHANGED late

WorksOn(j) ==
    /\ \/ j \in VoiceJobs /\ ~Stored(This(j))
       \/ j \in QaJobs /\ check[This(j)] \notin Verdicts
    /\ late' = late \cup {This(j)}
    /\ UNCHANGED <<check, down>>

LoseLease(j) ==
    /\ faults < MaxFaults
    /\ Is(j, {"running"})
    /\ Retry(j, "failed")
    /\ Dies(j) \/ WorksOn(j)
    /\ faults' = faults + 1
    /\ UNCHANGED <<draft, rows, takes, desk, calls>>

-----------------------------------------------------------------------------
(* reconcile_completed_voice_job: the row and the job are read, the run is *)
(* advanced in one transaction, and a refusal is written in another        *)

\* rows that wait for the hand-off of voice job j.
Waits(j) ==
    LET r == j[1] IN
    In(r, {"voice"}) /\ rows[r].voice = j /\ rows[r].qa = NoJob /\ Is(j, {"completed"})

At(j, c) == calls[j] = c
Goes(j, c) == calls' = [calls EXCEPT ![j] = c]

CallReads(j) ==
    /\ At(j, "owed")
    /\ Goes(j, IF Waits(j) THEN "read" ELSE "none")
    /\ UNCHANGED <<draft, rows, jobs, takes, late, check, desk, down, faults>>

CallAdvances(j) ==
    /\ At(j, "read")
    /\ \/ CanAdvance(j[1]) /\ BindQa(j[1]) /\ Goes(j, "none")
       \/ /\ In(j[1], {"voice"}) /\ rows[j[1]].qa # NoJob
          /\ Goes(j, "none") /\ UNCHANGED <<rows, jobs>>
       \/ /\ ~(In(j[1], {"voice"}) /\ rows[j[1]].qa # NoJob)
          /\ Goes(j, "refused") /\ UNCHANGED <<rows, jobs>>
    /\ UNCHANGED <<draft, takes, late, check, desk, down, faults>>

CallNotes(j) ==
    /\ At(j, "refused")
    /\ rows' = IF In(j[1], {"voice"}) /\ rows[j[1]].qa = NoJob
               THEN [rows EXCEPT ![j[1]].stopped = TRUE] ELSE rows
    /\ Goes(j, "none")
    /\ UNCHANGED <<draft, jobs, takes, late, check, desk, down, faults>>

CallDies(j) ==
    /\ faults < MaxFaults
    /\ calls[j] # "none"
    /\ Goes(j, "none")
    /\ down' = TRUE
    /\ faults' = faults + 1
    /\ UNCHANGED <<draft, rows, jobs, takes, late, check, desk>>

\* Mutant: the relaunched worker only polls.
RelaunchOnly ==
    /\ down
    /\ down' = FALSE
    /\ UNCHANGED <<draft, rows, jobs, takes, late, check, desk, calls, faults>>

\* reconcile_completed_voice_jobs_once.
Relaunch ==
    /\ down
    /\ down' = FALSE
    /\ calls' = [j \in VoiceJobs |-> IF Waits(j) /\ At(j, "none") THEN "owed" ELSE calls[j]]
    /\ UNCHANGED <<draft, rows, jobs, takes, late, check, desk, faults>>

-----------------------------------------------------------------------------
Requests(r) ==
    \/ Start(r) \/ DispatchVoice(r) \/ AdvanceVoiceQa(r)
    \/ Resume(r) \/ Cancel(r) \/ Repair(r)

Work(j) ==
    \/ Claim(j)
    \/ j \in VoiceJobs /\ (VoiceStores(j) \/ VoiceEnds(j))
    \/ j \in QaJobs /\ (QaReads(j) \/ QaWrites(j) \/ QaEnds(j) \/ QaFails(j))
    \/ j \in RenderJobs /\ RenderEnds(j)
    \/ LoseLease(j)

Call(j) == CallReads(j) \/ CallAdvances(j) \/ CallNotes(j)

RunNext ==
    \/ desk = NoTake /\ \E r \in Runs : Requests(r)
    \/ \E j \in Jobs : Work(j)
    \/ \E j \in VoiceJobs : Call(j) \/ CallDies(j)
    \/ \E t \in JobTakes : LateStores(t)
    \/ \E c \in QaAttempts : LateReads(c) \/ LateAnswers(c)
    \/ \E t \in Takes : OtherTake(t) \/ HandReads(t) \/ HandWrites(t) \/ ReviewReads(t)
    \/ ReviewWrites
    \/ Relaunch
    \/ desk = NoTake /\ SaveDraft

RunSpec == RunInit /\ [][RunNext]_vars

\* A callback that was begun goes on, and somebody relaunches a worker.
FairRunSpec == RunSpec /\ \A j \in VoiceJobs : WF_vars(Call(j)) /\ WF_vars(Relaunch)

-----------------------------------------------------------------------------
(***************************************************************************)
(* What a run keeps between its row, its jobs and the takes, whoever acts  *)
(* on them in whatever order.                                              *)
(***************************************************************************)
\* The bound take is an output of the run's present voice job and the subject
\* of its QA job: no callback or retry links what a repair replaced ("old
\* completion callbacks cannot relink the predecessor").
LinksAgree ==
    \A r \in Runs : Exists(r) =>
        /\ rows[r].audio = NoTake <=> rows[r].qa = NoJob
        /\ rows[r].qa # NoJob =>
              /\ rows[r].qa = QaOf(rows[r].voice)
              /\ Made(rows[r].audio, rows[r].voice)
              /\ jobs[rows[r].qa].take = rows[r].audio

\* The narration of r's render is that of its plan; for a run with a voice job
\* it is that job's, and the bound one.
RendersOwn(r) ==
    In(r, {"render"}) =>
        LET t == jobs[RenderOf(r)].take IN
        /\ t # NoTake /\ rows[r].plan[2] = t
        /\ rows[r].voice # NoJob => Made(t, rows[r].voice) /\ rows[r].audio \in {NoTake, t}

\* The step that queues r's render: /start, or /resume after the voice work.
Admitted(r) == ~In(r, {"render"}) /\ In(r, {"render"})'

\* Every render reads the narration of its own run ("it cannot substitute a
\* different approved take"), and that take was verified and approved when the
\* run was admitted: checks and reviews that write old copies back take both
\* away together or neither.
RenderedMaster ==
    /\ [](\A r \in Runs : RendersOwn(r))
    /\ [][\A r \in Runs : Admitted(r) =>
             LET t == jobs'[RenderOf(r)].take IN
             takes[t].qa = "verified" /\ takes[t].review = "approved"]_vars

\* A plan is rendered, or waited for, by one run only, through restarts,
\* repeated starts and resumes.
OneRunPerPlan ==
    \A r, q \in Runs : Exists(r) /\ Exists(q) /\ rows[r].plan = rows[q].plan => r = q

\* No job of a cancelled run is left to a worker, nor one of a voice job that
\* was replaced.
NothingLeftBehind ==
    \A r \in Runs : Exists(r) =>
        \A k \in {"voice", "revoice", "qa", "reqa"} :
            (rows[r].stage \in {"cancelled", "render"} \/ <<r, k>> \notin Linked(r))
                => jobs[<<r, k>>].status \notin {"pending", "running"}

\* What a run, its jobs and the takes keep together, whichever callback, retry,
\* repair, review or cancel comes last.
RunStands == LinksAgree /\ OneRunPerPlan /\ NothingLeftBehind

\* A bound take stays bound while a person's approval stands on it: repair,
\* callbacks and retries may replace only what nobody decided on.
ApprovedKept ==
    [][\A r \in Runs :
          Exists(r) /\ rows[r].audio # NoTake /\ Reusable(rows[r].audio)
             => rows'[r].audio = rows[r].audio]_vars

\* A completed voice job is followed by its QA job, a visible stop reason, or
\* the owner's decision, even when the worker dies in between.
Handoff == \A j \in VoiceJobs : Waits(j) ~> (~Waits(j) \/ rows[j[1]].stopped)
=============================================================================
