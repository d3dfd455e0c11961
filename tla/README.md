# content-os in TLA+

A verification project for the content-os backend (`services/api/app`) and the run
panel of its web workspace: TLA+ modules of the parts whose correctness depends on
*order* - who writes when, who crashes where, whose lease is still good - and of the
rules that turn scripts, recordings and answers into a video; TLC runs over small
instances of them, and TLAPS proofs for instances of any size.

content-os plans, generates and renders short videos on one machine. A FastAPI
process serves the creator; one or more worker processes take jobs from a
SQLite queue, call local or remote models, and write media and evidence back.
Nothing is held in memory across requests: what one process may rely on is what
another has committed. That makes the database protocols the core of the
program.

## The system

Paths are below `src/services/api/app` unless said. *Modelled* names the TLA+ modules;
`PROJECT.json` says for each part what of it is left out.

| Part | State | Operations | Modelled |
|---|---|---|---|
| Job queue, `jobs/store.py` | tables `jobs`, `local_resource_leases` | insert, claim, heartbeat, complete, fail, fail_terminal, recover_expired; cancelled and adopted by two services through `JobRepository.update` | `JobStore`, abstract `JobLifecycle` |
| Worker processes, `jobs/runner.py`, `jobs/worker.py`, `worker_cli.py` | one claimed job, a heartbeat thread | start-up sweep, recover, claim, handler, heartbeat, report, completion callback, exit | `JobRunner` |
| Provider-call ledger and budgets, `budget.py` | `provider_call_records`, `budget_policies` | reserve, reserve_execution, finish, save policy | `ProviderLedger` |
| Provider execution, `provider_execution.py` | where each caller is | reserve, send, persist, finish, replay | `ProviderExecution` |
| Voice takes, `jobs/handlers.py`, `voice_qa.py`, `main.py` | metadata of an `audio_assets` row | QA handler, alignment handler, human review | `VoiceTake` |
| Production runs, `production_runs.py`, `voice_repair.py` | `production_runs`, linked jobs, takes, the draft | start, dispatch_voice, advance_voice_qa, resume, cancel, repair, callback and sweep | `ProductionRun` (typography lane) |
| Talking lane of a run, `production_runs.py`, `talking/planned_admission.py`, `planned_preview.py`, `review_policy.py`, `repair.py`, `source_admission.py` | run bindings, receipts, asset metadata, reviews, concerns, repairs | bind, admit a source, dispatch, check, preview, review, raise and answer concerns, admit, repair, resume, cancel | `TalkingRun` |
| Evaluation lane of Talking, `evaluation_talking*.py`, `talking/evaluation_admission.py`, `jobs/lease_fence.py` | receipts, claims, jobs, previews, reviews | request, reserve, launch the child, store, check, preview, review, admit, cancel, replace, adopt a batch | `EvaluationTalking` |
| Evaluation lane of Voice, `voice_draft.py`, `voice_evaluation_*.py`, `evaluation_master.py`, `execution_scope.py`, `execution_admission.py`, `media/audio_importer.py` | drafts, grants, calls, recordings, files | request, prepare, send, import, check once, review, bind as Master, upload, revoke | `EvaluationVoice` |
| A video's clips and their index, `media/*.py`, `search/pipeline.py` | `clips`, index rows, suitability | cut, transcribe, describe, index, import results, assess | `ClipLibrary` |
| Drafts, planning, preferences, limits, `project_drafts.py`, `feedback_learning.py`, `source_use_constraints.py` | draft, profile revisions, preferences, limits, queued renders | save, plan, enable and disable, adopt and hold, queue and finish a render | `PlanningDesk` |
| Corrections of a rendered run, `presentation_repair.py` | observations, plans, confirmations, renders | observe, inspect, confirm, render, verify, recover, withdraw | `PresentationRepair` |
| Talking slice series, `talking/series_review.py`, `talking/runs.py` | child jobs, outputs, reviews, the assembled run | generate, check, replace a failed child, review, assemble, admit | `SliceSeries` |
| Slicing and reference choice, `talking/slices.py`, `reference_selection.py` | none (rules) | - | `TalkingSlices` |
| Assembly and rendering arithmetic, `assembly/video_spec.py`, `renderer/remotion.py` | none (rules) | - | `VideoTimeline` |
| Routing, `routing/asset_router.py` | none (rules) | - | `AssetRouting` |
| Narration, `narration_performance.py`, `voice_performance.py` | none (rules) | - | `NarrationDelivery` |
| Verdicts and alignment, `voice_qa.py`, `voice_boundary_alignment.py`, `voice_observation.py` | none (rules) | - | `VoiceEvidence` |
| Provider adapters, `providers/*.py` | none (rules) | - | `ProviderAnswers` |
| Run panel, `apps/web/src/Production*.tsx` | React state, requests under way | inspect, start, refresh, resume, cancel, repair, change of project | `RunPanel` |
| Maintained runtimes, workspace, backup, migrations, scripts, Remotion's drawing | - | - | not modelled |

How they interact:

- The API **inserts** jobs; workers **claim** them. `BEGIN IMMEDIATE`
  transactions are the only synchronisation.
- A handler **reserves** each provider call in the ledger before it sends it and
  **finishes** it afterwards; a job attempt and a ledger record are separate rows.
- A completed Voice or Talking job makes its worker **call back** into
  `ProductionRunService`, which queues the QA job; a callback that was lost is
  made good by a **sweep** at the next start of a worker.
- QA handlers, alignment handlers, clip handlers and the human review **read a row,
  work on a copy, and write back** - the whole row or the fields they own.
- The evaluation lanes **read every row their authority rests on** before they work,
  and compare it in the transaction that stores.
- A run **reads** the draft, the takes and the jobs at each request and refuses
  when they no longer fit; the draft in turn is of one profile revision.
- The browser **asks** and shows what is answered, whatever was clicked meanwhile.

What is hard: leases that expire under a handler that is still at work;
timestamps read before the wait for the write lock; reports, callbacks, answers and
copies that arrive after the world has moved on; a crash between any two
transactions; two idempotency keys for one request; milliseconds and frames that do
not divide each other; and documents (a human decision, a budget ceiling, "exactly
this take") that must survive all of it. `PROJECT.json` lists each of these hazards
at its line, with the properties that watch it.

## Modules

A module states its own properties; the queue's are in `JobStoreProps` and
`JobRunnerProps`, since their proofs are of both. `MC*` modules give instances.
Two of them host several small machines that never meet: `MCJobStore` runs the queue or
the run panel, `MCParts` the rules or one of four machines. A behaviour is of one of
them and the others rest, which costs one start-up instead of five; what a machine owes
(`LibraryHolds`, `RepairHolds`, `CollectionHolds`, `PageHolds`) is said of it while it
is the one that does not rest.

### JobStore, JobLifecycle

`JobStore` has the two tables as functions of the job and the resource, and one
action for each method, since each is one transaction: `Enqueue`, `ClaimJob` and
`ClaimNothing` (with the failing of exhausted jobs that a claim does on its
way), `Heartbeat`, `Complete`, `Fail`, `FailTerminal`, `RecoverExpired`, and the
two writers outside the store, `Cancel` (EvaluationTalkingService.cancel) and
`Reconcile` (EvaluationCompositionService.reconcile). Time is relative:
`left[j]` is how long job j's lease still has, and `Tick` shortens all of them,
so no clock grows. A method computes its timestamp before it waits for the
lock; each action therefore works with a timestamp up to `MaxLag` old. One consequence
is part of the model: a heartbeat that read its time before its lease ended and got the
lock after it renews a lease that had run out (`RenewedLate`), though another worker may
have taken the resource by then.

`JobLifecycle` is what the rest of the program needs to know: a job is granted
to one worker at a time, each grant is one try, and nobody takes it from a
holder whose lease is live. `Lifecycle` states that `JobStore` implements it.

### JobRunner

Extends `JobStore` with the processes: `Launch`, `Sweep`, `Recover`, `Claim`,
`Idle`, `HandlerReturns`, `ReportsOk`, `ReportsError`, `LosesLease`, `Notify`,
`Exit`, and per process a heartbeat thread (`Renew`, `HeartbeatFails`) which ends
at its first error or lost lease, without the handler noticing, as in
`_LeaseHeartbeat`. A process may crash at any point. `returned` and `followed`
are history variables: which attempts' handlers really returned without an
error, which completions reached ProductionRunService.

### ProviderLedger, ProviderExecution

One record per idempotency key, a saved policy per scope (each project and the
workspace). `Reserve` is guarded by both scopes' policies as `enforce_reservation`
computes them: active and closed calls count, cancelled ones do not.
`ProviderExecution` puts callers on top that may crash between reserving,
sending, persisting and finishing, and an operator who uses the provider-call
endpoints on the same records.

### VoiceTake

Extends `JobRunner` with one take and the copy of it each writer holds: the QA
handler reads before minutes of ASR and writes afterwards, the alignment handler
re-reads in its transaction but writes earlier metadata, the review endpoint
reads and writes in two transactions. Endpoints are `async def` without an await,
so at most one review is between its read and its write (`desk`).

### ProductionRun

A run's row, its (at most five) jobs, the project's takes and draft. Each request
is one action with all its guards, because each is one immediate transaction.
The completion callback is not: it reads, advances in one transaction, and notes
a refusal in another, so it is three actions (`CallReads`, `CallAdvances`,
`CallNotes`) between which anything may happen, and it may die (`CallDies`).
`Master` is `_approved_master`: the *first* approved take of the present copy in
table order. `PlanNow` is the fingerprint. A worker whose lease was lost may
still store its take (`late`).

A check and a review are as in `VoiceTake`: each reads the take and writes its whole
copy back later (`check`, `desk`), so that a late check may take a verdict and an
approval away again, also from a take whose render has been queued (`Verdict`, by
`QaWrites`, `HandWrites`, `LateAnswers`). The verdict and the end of the QA job are two
steps. A check by hand is a job outside any run; of each take one at a time is at work.
While a review is between its two transactions no other request runs, as the endpoints
have no await. A job follows `JobLifecycle`, not the lease columns.

### TalkingRun

A run that has its approved Master and waits for its Talking scenes. For each
scene the run's row holds a *binding* (`bind`): its source, and the generation,
output, QA job, preview and admission it has reached. The jobs of a scene belong to
its first generation or to the one that replaced it (`Gens`): `operation_key`
names each QA, collection and preview job after its repair. Videos are identified by
their bytes, as `assets.content_hash` is unique, so a provider that returns known
bytes overwrites the metadata of the row they have (`GenStores`).

What makes the lane hard is that nothing is believed twice. Every request
reopens what it rests on: `Consumable` (draft, consent, receipt), `Evidence`
(jobs, the one output, its check, the child's judgment), `Previewed`, `ReviewStands`,
`Clear` (concerns), and, before a scene is admitted, `Dispatchable`, which asks
whether a *fresh* plan would still wait for Talking (`StillPlanned`). `Candidate`
and `Eligible` are these conjunctions as `require_current_candidate` and
`talking_visual_blocker` have them. The requests are one action each. The handlers
are not: a check reads the video, works and writes if the metadata is unchanged; a
preview reads, encodes and writes if all is still current; a generation is admitted in
the transaction that reserves its call and stores without asking. Both review
policies are modelled; the older waits for a person to approve the child video and
knows no concerns.

The Master keeps its approval and files their bytes here, previews have their
scene's length, and a concern that was upheld is the last of its preview.

### EvaluationTalking

Receipts for scenes of an evaluation run, of which one trial may be started (`slot`),
replaced once while nothing was reserved (`heir`), and corrected once it failed.
`Facts` is every row a job's authority rests on: a handler carries the facts it saw
(`seen`) and `Guard` compares them, with its lease, in each storing transaction. A
generation is taken apart into `ready`, `reserved`, `cleared`, `launched`, `staged`,
`checked`, `stored` or `spoiled` and quarantined. `Clear` is the last look at the facts;
then runtime and models are hashed once more, and `Launch` asks for the lease alone
before it starts the child. `withdrawn` is what was revoked, `imports` the
unrelated rows others wrote that the facts include, `loose` the quarantined files no
restriction names yet.

### EvaluationVoice

Drafts under grants: a draft's one prepared call, its last look at grants and sources
(`Clear`) and, after another hashing of the runtime that looks at none of them, the
child (`Launch`), the import of its recording (the file placed, the row inserted, the
file removed again when the commit fails), the check that a once-only scope allows once,
its review, and its use as Master under a use admission. Grants and scopes can be
withdrawn at any step; recordings are named by their bytes, so that two drafts and a
user's upload may be one row, whose restriction must not be lost on the way. As a grant
once revoked stays so, comparing rows is asking whether what was live still is.

### ClipLibrary

One video. `clips` are rows with an interval, `index` their vectors, `suitable` their
assessments; an analysis computes its clips from the detector's cuts (`Merged`: the
first fragment below the minimum loses the cut it starts with, or the one it ends with
at the start of the video, again and again) and replaces the rows; a transcription, a
description and an index job read the clips, wait for a provider (`call`), and write the
fields they own, or refuse what changed. An import (`main.py`) may move intervals and
replaces every field; `moved` remembers which ids it touched. Two attempts of one index
job and two analyses overlap.

### PlanningDesk

The profile's revision, one presentation preference per rule, limits on uses of
retained material, the draft (its script, plan, routes, specification, spoken cues)
and the renders queued from it. A scene planner's call is out while others write; its
answer is compared with the present policy (`CheckPlan`) and then saved or shown
(`AcceptPlan`), which is not one transaction. A queued render keeps the context it was
queued under and is checked at its start and when its output is there (`MeasureRender`);
the runner completes its job afterwards (`FinishRender`). Scenes name the profile they
were made under, and what is derived from them the revision: `tab` is what an old browser
tab still shows of both, and may be saved at any time and again, with what `Kept` then
keeps or drops.

### PresentationRepair

A rendered run, shown in versions. A person's observation is bound to a version's
bytes; an inspection proposes the one field that would remove what was seen; a confirmed
revision gets one render job, with one provider call however often it is tried, whose
output is measured before the job completes. A lost attempt is recovered; a render nobody
has taken up yet can be cancelled with its run.

### SliceSeries

A Talking series of `Size` children: their jobs and handlers (several per child, after
lost leases), outputs and verdicts, the one replacement of a failed last child, the
continuity review, the assembly in its steps (asset, clip, run) and admission.

### RunPanel

The production panel and its two sections as React holds them: state (`panel`,
`section`), what effects still have to run, requests under way with what they were asked
about, and the bookmark of the last run. A section compares an answer with what it was
last rendered with; a narration section that is unmounted is not rendered again, and an
action it had begun answers to the page all the same (`Outlives`). `panel.of` remembers
with which draft the run on the page was asked for. The server is kept as far as the
browser can tell it apart.

### Rules: PureCall and its users

A rule keeps no state: it is asked once and answers (`PureCall`). What may be asked is in
`MCRules`, what the answer must be is beside the rule.

- `VideoTimeline`: a script, pictures and a recording become scenes in milliseconds and
  frames of a rational rate; what `remotion.py` refuses is stated independently
  (`MasterVideoSound`, `SceneVideoSound`).
- `TalkingSlices`: whole segments per slice, windows of a reference clip.
- `AssetRouting`: candidates, thresholds, fallbacks, stills, requests.
- `NarrationDelivery`, `VoiceEvidence`: cues suggested and compiled, units, composition;
  verdicts, silences, pauses located in a recording.
- `ProviderAnswers`: seven adapters, each way an exchange may end.

## What the runs check

| Run | Question | Instance | Result |
|---|---|---|---|
| `queue` | Do resource rows stay with their jobs but for a late renewal (`ResourceLocks`), do slices keep their order (`SeriesInOrder`), and is it a `JobLifecycle`? Beside it: does the page show and offer only what is of the present run and draft (`PageHolds`)? | 2 workers with different job types and limits 2 and 1, a 2-slice series, a stoppable job, a composition render, 1 GPU, lease 2 ticks, timestamps up to 1 tick old; a user of 3 clicks and one save, 2 runs, 2 requests at a time | holds |
| `workers` | Is every completion earned by the attempt that ran, each attempt by one process? Do handlers overlap only after a heartbeat was lost? Does every job end (`Settles`), and every completion reach its run (`CompletionFollowed`)? | 2 workers, 2 GPU jobs, one stoppable, lease 3 ticks, timestamps up to 1 tick old, 1 fault, heartbeats before the lease has run out, fairness below | holds |
| `provider_calls` | Is a request sent once per key (`SentOnce`), never blindly again (`NoBlindResend`), with one answer (`AnswersAgree`), and do `Ceilings` and `EvidenceKept` hold under it? | 2 callers, 2 keys, 2 identities, a policy of one call or of one unit set at any time in any scope | holds |
| `voice_take` | Does a decision stand on a verified take (`ReviewedTakeVerified`), and does it survive a QA and an alignment job that overlap it, unless the copy in somebody's hands is older (`DecisionKept`)? | 2 workers, a QA and an alignment job, 1 fault | holds |
| `overlapping_qa` | Is the decision final (`DecisionFinal`)? | 2 workers, 2 QA jobs, no fault | **violated** |
| `production_run` | Do row, jobs and takes of a run agree in any order of callback, retry, repair, review, cancel (`RunStands`); is the run's own take rendered, which was verified and approved when its render was queued (`RenderedMaster`); does an approved take stay bound (`ApprovedKept`)? | 2 runs, 1 repair, 1 attempt, 1 fault (a lost lease, a crash or a check by hand) | holds |
| `run_handoff` | Does a completed voice job always get its QA job or a visible reason (`Handoff`), through a save of the draft and a second attempt? | 1 run, 1 take from outside, 2 attempts, 2 versions, 1 fault, relaunched workers | holds |
| `talking_run` | Is what is bound of one generation (`SceneStands`), what is admitted reviewed (`AdmittedAsReviewed`), what is rendered admitted and still authorised (`RenderEarned`), and a judgment kept (`JudgmentKept`)? | 1 scene, 2 videos, 1 repair, 2 attempts, 1 fault or upset (lease, crash, save, revocation, consent, budget) | holds |
| `two_talking_scenes` | Can every scene whose preview was approved be admitted (`ReviewedAdmissible`)? | 2 scenes, 1 video, 1 attempt, no repair, no fault | **violated** |
| `evaluation_talking` | Is one child in all started (`OneChild`), is what is stored whole and in order (`StoredInOrder`), is cancellation final (`CancelIsFinal`), is everything stored with the authority of that moment (`StoredWithAuthority`)? | a trial and its correction on one granted scene, 2 attempts, 2 crashes or lapses, 1 withdrawal or import | holds |
| `evaluation_voice` | One call per draft (`OneVoiceCall`), recordings and calls that account for each other (`OutputsAccounted`), a Master that earned it (`MasterEarned`), no act without authority seen just before, none kept without it (`ActsAuthorised`)? | 3 drafts (two under one once-only grant), 1 recording's bytes, 2 uses, 2 attempts, 1 upload, 1 fault (crash, lapse, failed commit), 1 withdrawal | holds |
| `parts` | Do the rules lose nothing and keep within what their users need (`RulesSound`)? Do a library (`LibraryHolds`, `OthersKept`), a desk (`DeskSound`, `PolicyKept`), a line of corrections (`RepairHolds`) and a series (`CollectionHolds`) stay sound? | rules: bounded inputs of `MCRules`; a video of 4 units with every cut, three handlers at a time of two analyses, two attempts of an index job, a transcription and an assessment, one import; 2 observations, 1 limit, 1 render job, 5 edits; 2 corrections of 2 tries; 2 slices of 2 tries | holds |

Deadlock is checked in `queue`, `workers`, `provider_calls` and the two voice runs. The
others may come to their end: a project is finished when its runs have rendered or been
cancelled and nobody edits the draft, an evaluation when all is admitted or withdrawn,
a rule when it has answered.

Why the bounds are enough: each hazard needs two parties and one lapse. Two
workers let a lease be lost to another process; two ticks of lease separate
"renewed in time" from "one tick late"; two attempts distinguish the present
from a former owner; one fault loses a callback, a heartbeat or a commit. A second job on
the GPU and a second slice are the smallest rivals. In `ProductionRun` two
attempts give a voice job two outputs, a second run or one outside take gives the
project a second master, two checks of one take need a lost lease or one by hand, and
one save separates version from plan; the two passing
runs share these out, since each alone multiplies the states. In `TalkingRun` two
videos let a replacement differ from its predecessor or repeat it, two attempts
let a late handler meet the next one, and scenes meet only in the plan and in
the allowance, which the second run and the repairs spent at the start stand for.

`evaluation_talking` explores less than its module allows: `MCTheyMeet` has the trial
and the correction that may replace it only where it does, since trials meet nowhere
else; `MCFelt` lets an import happen only under a handler that still compares the facts
it changes, and withdraws only what is begun, or what all rest on; `MCView` keeps of the
facts a handler saw only whether they are still so. The proofs need none of the three.
In `parts` a behaviour has three of the six handlers, in every combination in which they
meet in what they write. A video of four units with cuts at every place has scenes below
and at the minimum, and one or two merges. `MaxClicks` counts everything a user does at
the page: three clicks are a start, a repair or refresh under way, and the change that
makes its answer late.

The rules are asked of every input of small sets rather than chosen cases: all times of
two phrases within six milliseconds at whole and broken rates, all sequences of up to
five marks, all ways an exchange may be lost, one flaw at most in what an adapter is
given. `Second` is ten milliseconds, so that rates which do not divide it appear at once.

Every property was seen to fail under a plausible bug of the code: `PROJECT.json`
names, for each, the definition and its mutated form (the operators commented
"Mutant" beside the definition they mutate).

### Fairness

`FairRunnerSpec` has weak fairness of time and of each process's own next step:
the operator relaunches a worker that exited (`scripts/start.ps1` is how the
program is run), a handler returns at some time (each provider call has a
timeout), and SQLite grants the lock in the end. There is none on the
heartbeat, on new requests, or on any fault; faults are bounded, as a worker
that crashes for ever does nothing. `FairRunSpec` has fairness of a callback
that was begun and of the relaunch that runs the sweep, and no fairness of any
owner, reviewer or handler: `Handoff` depends on nothing else.

## What the runs found

Two runs end in a counterexample; each is a finding in `PROJECT.json`, with the line
of the code and the sentence it contradicts:

1. Two overlapping QA jobs of a take: the later write erases a human decision.
2. Of two planned Talking scenes only one can be admitted: its video enters the plan,
   which then no longer counts as waiting for Talking, so every gate of the other
   scene refuses.

The properties that hold say where guarantees end by what they except; the sections
below add what was seen while the modules were written and no property speaks of.

## What is proved

TLAPS checks these for every value of the constants that satisfies the named
assumptions: any number of jobs, workers, slices, callers, runs, drafts, attempts and
faults, any lease length and lag (unless said). Each is an inductive invariant, first
checked by TLC on the run's instance, and the steps that keep it, one by one.

- `QueueProofs` (queue, workers and what they write to a voice take).
  - *Locks*: types, the resource row mirrors its job's lease, attempts within their
    limits, series in order, ended jobs stay ended, all for any lag. `LocksHold`
    (`ResourceLocks`): no step takes the lock from an unexpired lease; a job comes to work
    without one only by renewing its own lease after it had run out. Where that does not
    happen no resource is shared (`Exclusive`): a live job holds its row, and a row
    has one job. The invariant joins `LeaseColumns` (owner exactly while running) to these.
  - *Refinement* `ImplementsLifecycle`: every step of the tables is one of
    `JobLifecycle`'s or none, for any lag. A claim is the subtle one, as it may fail
    exhausted jobs on its way: the abstract queue ends them in the same step.
  - *Processes*: `EarnedCompletion`, `SoleAttempt`, and that `RunnerSpec` implements
    `Spec`, so that the queue's theorems hold of the running system. The invariant says of
    each process which attempt it has in hand and that no later one exists unless its
    lease was lost (`InHand`).
  - `BeatingExcludes` (`OverlapNeedsLostHeartbeat`): a job in the hand of a process whose
    thread beats is its own with the lease of its last renewal, or was cancelled under it
    with its resource still locked. So two that both beat never compete. Assumes what the
    run assumes: a beating thread renews before its lease has run out (`Prompt`), and no
    timestamp is as old as a lease is long (`MaxLag < Lease`).
  - *Voice takes*: `ReviewedTakeVerified` and `DecisionKept` for any number of jobs,
    processes and copies. A decided copy is a verified copy; a copy that disagrees with
    the row was read before the decision.
- `PaidCallsProofs`, first part (ledger and callers): a closed call is never rewritten, one
  running call an identity, `RequestsSentOnce`, `OneAnswer`, `NeverResentBlindly`,
  `BudgetsHold`. `ExecInv`: a key has one caller between its reservation and its end;
  nothing was sent before that caller sends; an open call has no result and no answers.
  Ceilings go by counting and by sums over finite sets of calls. The lemmas on sums are
  shown by a smallest counterexample, as an induction theorem cannot be cited.
- `ProductionRunProofs`: `RunStands` with its parts, `RenderedMaster`, `ApprovedKept`,
  types, with checks and reviews that overlap in any way. `RunInv` adds that links name
  the run's own jobs and QA follows a completed voice job (`RowLinks`), that a run
  without a row has no jobs (`NoStrayJobs`), that a decision stands on a verified take
  (`DecidedVerified`) and that attempts are counted (`JobCounts`). Actions are of two
  sorts: *quiet* ones, which leave links and ended jobs alone and every decision on a
  verified take (`QuietKeeps`), and requests, which change one row and its run's jobs
  and must leave that row sound (`RequestKeeps`).
- `PaidCallsProofs`, second part: every property of the run `talking_run`. `TalkingInv`
  works scene by scene (`Ties`): jobs a scene has not come to are absent (`Ordered`),
  bound parts are of one generation (`Bound`), jobs that are not bound are neither
  pending nor running (`Settled`). Worker steps touch only jobs that wait or run, so
  they keep `Ties` (`KeepsTies`); the four requests that queue a job are done one by
  one. That a repair leaves nothing behind is the subtle one: it asks for a faulted
  generation, whose check was then never queued, or for a current preview, whose jobs
  are all completed. Previews and reviews are written once (`PreviewSteps`,
  `ReviewSteps`), which keeps an admission true to its review; a decision at the desk is
  on a video nobody has decided on (`DeskFresh`).
- `EvaluationTalkingProofs`: all four properties of `evaluation_talking`, for any receipts,
  scenes and corrections and without that run's constraint and view. `EvaluationInv`: a
  trial is one operation's, and its ledger key is taken once; where the one handler that
  took it stands fixes what the call and the child processes are, and when the call is
  over no handler stands between its reservation and the result. `Settled`: a job that was
  cancelled is held by nobody, so that the lease, which is all a child's start asks for,
  is enough for `CancelIsFinal`. Authority follows from
  comparing the facts: what is withdrawn stays so, hence was not when they were read.
- `EvaluationVoiceProofs`: all four properties of `evaluation_voice`. `VoiceInv`: at
  most one handler of a job may send, and only one that looked (`cleared`); where it
  stands fixes call and launches; a row some draft made carries that draft's grant and
  no other, whatever was uploaded of the same bytes.
- `PartsProofs`: the machines of `parts`, each for any value of its constants, and that no
  machine's step disturbs another (`PartsInv`).
  - *Library*: `LibraryHolds`, `OthersKept`. `Merged` is a recursive function; that there
    is one is shown by the smallest number of cuts without, so that its values may be
    used at all. Since the last analysis without an import the rows are the cut's
    intervals, neither gap nor overlap, none too short that has a neighbour; and what a
    handler holds of a clip no import moved is of that id's interval.
  - *Desk*: `DeskSound`, `PolicyKept`. No limit in the context stored with a render meets
    its use, and the last look of a render compares the present context with that one.
    Every save of a draft is of something sent (`Sent`): what it keeps of that follows from
    `Kept` alone (`SavedStands`, `SavedReturns`), whoever sent it and how late.
  - *Corrections*: `RepairHolds`. A completed version is never touched again, its successor
    was made of it; the attempt that works on a version holds its one open call.
  - *Series*: `CollectionHolds`. Handlers and outputs are of present children; what was
    replaced left nothing behind; nothing is claimed behind a failed slice, so only
    the last can be replaced.
- `RulesProofs`: `RulesStand`, that is `RulesSound` for every series of slices, choice of a
  reference, route of a scene and exchange of an adapter, of any length and any times
  (`RuleQuestions`, which holds all of those that `MCRules` asks, and that many more).
  - *Slices*: that the recursion that cuts them has a value is shown for the last m
    segments, by the smallest m without (`CuttingExists`); any other cut must cut within
    each of its slices but the last (`CutWithin`), so none has fewer (`FewestSlices`).
  - *Routes*: a finite set ranked by a strict total order has each member once, in that
    order (`RankedIs`: as many are before the k-th as k - 1, so ranks are apart and all
    taken); that the order is total needs that a clip is known by its id. Hence no offer
    is there twice, and the best clip is the first of them (`ClipsAre`).
  - *Adapters*: one lemma each, of every way its exchange may end.
  - *The model on this machine*: words are flattened by a recursive function, shown to
    have a value like the slices' (`FlattenExists`); a segment spans its words that take
    time (`WordSpanIs`), and rounding outward keeps that (`OutwardCovers`).
- `RunPanelProofs`: `PageHolds`, for any number of clicks, requests, runs and files.
  `PanelInv`: whoever may still answer to a section that is there has that section's
  scope, and what a section holds is of its scope; so the run on the page was asked for
  with the draft on the page, or by a section that has gone; the panel is locked exactly
  while one answer to it is awaited, a section while one to it is, once its effects have
  run. No snapshot, scope or proposal is of a later run than the server has: clocks grow
  (`Goes`), so what was known stays known. A start's key is its plan, and each plan has
  one row.

Only model-checked:

- liveness, `Settles`, `CompletionFollowed`, `Handoff`: beyond the prover, like ENABLED;
- `RulesSound` of the other rules: a video's timeline, cues and their voice, verdicts and
  observed boundaries. They are recursive over texts, segments and cues, and an induction
  theorem cannot be cited here; TLC checks them over all inputs of the sets above.

The two properties that are violated have nothing to prove.

## What is not modelled

- Pure reports (preflight costs, coverage, feedback statistics), request parsing and
  serialisation, wording, operator scripts: no state of their own.
- Model runtimes and the bytes of media: opaque. A request returns some result or fails.
- SQLite itself: a transaction is atomic and durable. Schema migration and backup are run
  alone by an operator.
- Two processes with one `--worker-id`: the operator's choice. The API is one process
  (`scripts/start.ps1`), so uploads, derivations and requests never overlap one another.
- Checks on values outside a model's state (licence, consent, bytes on disk):
  they can only refuse a request, and refused requests change nothing.
- Scans, image import and vertical derivation; the composed evaluation video; voice
  recovery; the transition from the Voice lane to the Talking lane of one run
  (`_advance_master_to_talking`), which is `TalkingInit`; the Talking and evaluation
  panels and `App` of the web workspace.

Abstractions by module, where the module's comment does not say them:

- *EvaluationVoice*: facts compare equal exactly while the grants are live; files are
  looked at within the same action; all sources are one `Source`; a draft scope has one
  admission.
- *ClipLibrary*: per-keyframe calls are one vision call; used_count, embedding dimension
  and the ledger's details are left out; ids compare by a constant order (`IdOrder`).
- *SliceSeries*: no two slices share bytes; the lane of its children is switched on; a
  child's verdict comes from outside; the handler's check of the narration is merged
  with its claim.
- *RunPanel*: the page starts with a plan shown or opened on a run; the advance to QA is
  one with the dispatch; a request that fails for any other reason is `Lose`. React runs
  the effects of one render before the next, so an answer that would change the run while
  effects are due is taken after them (`Rendered`); two answers that it would batch into
  one render are two renders.
- *PlanningDesk*: a compare-and-swap that fails and a request repeated under its key change
  nothing and are no actions.

## Observations

Seen while modelling, beside what the properties say. None contradicts a sentence of the
repository strongly enough to be listed as a finding, or no property speaks of it.

Queue, voice and runs:

- A heartbeat that waited for the lock renews by a timestamp from before the wait
  (store.py:167), and may renew a lease that ran out meanwhile and whose resource another
  job has taken: two live leases on one resource, which `ResourceLocks` excepts and
  `Exclusive` rules out only where it does not happen. EXECUTION_COMPUTE.md:353 has "a
  bounded local lease so same-machine jobs do not silently compete". A heartbeat thread
  that meets one SQLite error ends while its handler goes on without a lease.
- A check that is late writes its older copy back also after the run's render was queued:
  the rendered take is pending again or without its approval, and a repair finds it so.
  `RenderedMaster` is therefore about the moment of queueing.
- An alignment job may write back metadata read before a human decision. A worker that
  dies between storing a verdict and completing its QA job (handlers.py:519) leaves a
  verified take whose QA job fails for good.
- A run waits in `approved_master_ready_to_resume` for a resume that is refused while an
  earlier take of the same copy is approved too. Two outputs of one generation job make
  every gate of the run refuse for ever (production_runs.py:838).
- Every operation compares draft.version (project_drafts.py:121), but the fingerprint is of
  the script revision and scenes (production_preflight.py:399): after a save of routes
  alone, resume and dispatch refuse and replanning returns the same row with its old
  version, which can only be cancelled.
- A running provider call that is cancelled in the ledger no longer counts in the budget,
  though its request was sent.
- In the Talking lane, a generation attempt that outlives its lease leaves a job with two
  outputs, and no operation settles which; one that returns known bytes erases their
  check and the decision on them, which is the loss `JudgmentKept` excepts; a replacement
  whose only request was sent by a lost attempt cannot be retried; a preview job whose
  attempts overlap fails although its preview is stored.

Evaluation lanes:

- Runtime and models are hashed again after the last look at grants, sources and facts
  (maintained_voice_execution.py:125, maintained_talking_execution.py): what is withdrawn
  in between does not stop the child. In the Talking lane the lease is asked for once
  more just before the process starts, so a cancellation does; in the Voice lanes nothing
  is. What the child makes is stored only if all is still granted.
- Any unrelated import or new scoped job while a generation runs changes the facts and
  voids it; a batch adoption voids older operations; a generation that fails before it
  reserves its call leaves the slot spent, as only a cancelled one can be replaced.
- Two overlapping failed preview attempts: the second quarantine record is refused, and
  its bytes' restrictions are put aside, as after a crash between link and transaction.
- Cancelling a running evaluation job leaves its row in local_resource_leases
  (evaluation_talking.py:818).
- The importers' clean-up races with one another (audio_importer.py:131-134, importer.py:112
  and 149): one commit fails after its file was placed, another waits, inserts the row and
  finds the file, and the first then removes it: a row without media.
- A second import of the same bytes under another grant is refused for ever; a user's row
  whose bytes a draft produces as well becomes restricted; a crash between an import and
  the end of its call leaves the call running for ever; bytes derived from a restricted
  recording carry no restriction.

Library, desk and corrections:

- A repeated analysis blanks the clips while old index rows stay (media/pipeline.py:1 calls
  itself idempotent); a transcript or an assessment leaves the index stale; a transcript
  that lands between vision and indexing, a crashed attempt's running call, or a
  suitability row of a clip that is to go make later jobs fail for good; the embedding
  call is never finished as completed; `assess_talking_reference` (main.py:2625) can lose
  an update.
- `update_asset_usage` (main.py:2752) reads outside its transaction and writes the whole
  row, and so does the handler at handlers.py:863: either may lose the other's mark. A
  crash between a scan's import and its enqueue leaves an asset that no later scan enqueues.
- A stale tab's repeated payload: main.py:1460-1462, project_drafts.py:1-7 and the page
  itself (main.tsx:1003) say it cannot bring a plan back after a profile revision or an
  edit. A PUT with the old scenes and unchanged script keeps the scenes, and the same
  payload sent once more stores the old routes, selections and specification too (a run
  is not made of them). `DeskSound` says that this is the only way back. An idle save
  after a change of evidence bumps draft.version, which stops a waiting run.
- The last looks are not in the transactions they are for: a profile revised between
  main.py:4494 and 4498 has a plan of the older one saved under it, and a limit adopted
  between handlers.py:204 and the end of the job is met by a completed render.
- A preference drawn from a finding is bound to its profile revision for ever; a failed
  final context check leaves the render's output file on disk.
- A replacement whose render times out is reported retryable, but its next attempt is
  always refused (`presentation_render_call_limit`, EXECUTION_COMPUTE.md:365), and the
  run can then neither be corrected nor cancelled. verify_output ignores the job's
  status. For ordinary renders all attempts share one output path, and a late failing
  attempt removes the file a later one completed with (handlers.py:206-221).
- In a slice series, a second output of a lost lease makes a child ambiguous for ever; a
  crash between assembly steps leaves an asset with admitted metadata and no run, and a
  retry makes a second clip (talking/runs.py:78); a late re-import resets the evidence of
  an admitted run; the assembly rechecks the Master's QA, not its human approval.

Rules and adapters:

- A narration bound to one scene is assembled for any duration, but the renderer refuses it
  unless it ends on a frame; clips without a whole frame pass the assembler's unaligned
  path and are refused by the renderer; a closing phrase shorter than `MinCut` falls to
  a later occurrence; a search gives up beyond `ScanSlack`.
- Without clips the first still is recommended even for creator_speaking; the first
  verified operating limit that passes is taken, failures are ignored
  (resolve_verified_operating_limit).
- Pauses at the opening, the closing and inside a span are planned, and no unit realises
  them; a cut that leaves a unit of blanks is refused for voice; a copy without comparison
  tokens verifies if nothing is heard.
- Only the scene planner tells a timeout while connecting from a lost connection; local
  recognition keeps words outside their segments; a closeout may be up to 79 ms short; a
  copy that fails half-way leaves a partial target.

Web workspace:

- An action of the narration's section answers to the page after the section has gone
  (ProductionVoicePanel.tsx:61-70, 153-191), whether the draft was saved, the run
  cancelled or another shown: the page then shows the run it was about.
  EXECUTION_COMPUTE.md:351 says "Draft/project changes discard in-flight display
  results"; `RunOfDraft` excepts this. A completed action of the panel writes its
  bookmark without asking whether it is still shown; a run may go back to an older
  snapshot when a refresh and an action answer out of order.
- `App` (main.tsx) sets state after awaits without comparing the project: `refreshProject`,
  `renderProject`, `planProject`, `persistDraft`; `restoreProjectRender` (main.tsx:301)
  compares the project but not the specification.

## Plan

What is left, in this order:

1. The rules of `VideoTimeline` and `VoiceEvidence`, for every input.
2. The transition from the Voice lane to the Talking lane of one run.
3. Scans, derivation and rendered output, with crashes between file and row.
4. The composed evaluation video, voice recovery and grant adoption.

## Running

    tlc -workers 2 -config MCJobStore.cfg MCJobStore
    tlapm QueueProofs.tla

and likewise for the other modules; `PROJECT.json` names every run with its
configuration, and maps each definition to the lines it models. `PartsProofs` takes
some ten minutes from nothing, `RulesProofs` and `PaidCallsProofs` about five, the other
proofs one to three.
