--------------------------- MODULE EvaluationVoice ---------------------------
(***************************************************************************)
(* The evaluation lane of Voice: drafts (voice_draft.py, the maintained    *)
(* voice job), the import of their recordings, the once-only check of a    *)
(* recording (voice_evaluation_qa.py), its human review and its binding as *)
(* the Master of an evaluation run (evaluation_master.py), under the       *)
(* grants (execution_admission.py) and scopes (execution_scope.py) that    *)
(* restrict all of them.                                                   *)
(*                                                                         *)
(* Each service reads the rows its authority rests on, observes files      *)
(* outside a transaction and compares the rows again inside the next one.  *)
(* A grant once revoked stays so, so the rows compare equal exactly when   *)
(* what was live still is: a guard asks that, and the request that reads   *)
(* and writes under it is one action.                                      *)
(***************************************************************************)
EXTENDS Integers, FiniteSets

CONSTANTS
    Drafts,       \* voice jobs of the lane
    Bytes,        \* contents a recording may have; its audio row is known by them
    GrantOf,      \* the use admission a draft is made under
    Once,         \* admissions for one generation, voice-calibration-v1
    QaGrantOf,    \* the admission for checking a recording
    Uses,         \* admissions for using a recording as Master
    UseFor,       \* the recording of each
    MaxAttempts,  \* of a job
    Faults,       \* which happen: "crash", "lapse" of a lease, "commit" that fails
    MaxFaults,    \* bounds them
    MaxUploads,   \* of a user at a time
    Source,       \* consent and reference recording all drafts rest on
    MaxWithdrawn, \* bounds withdrawals
    User, None

VARIABLES
    withdrawn,  \* grants revoked, and Source when its rows changed
    job,        \* jobs, with whether the lease of the running one is live
    call,       \* provider_calls of the jobs
    audio,      \* audio_assets: who made the row, its scope, the verdict of its QA
    file,       \* originals on disk
    review,     \* voice_evaluation_human_reviews
    use,        \* evaluation_master_use_admissions
    run,        \* the evaluation run a recording is bound to: its use, if cancelled
    work,       \* handlers and uploads: where they stand, the bytes in hand
    launches,   \* child processes started
    faults

vars == <<withdrawn, job, call, audio, file, review, use, run, work, launches, faults>>

\* The job that checks a recording is known by its bytes.
Jobs == Drafts \cup Bytes
Attempts == Jobs \X (1..MaxAttempts)
Uploads == {User} \X (1..MaxUploads)
Grants == {GrantOf[d] : d \in Drafts} \cup {QaGrantOf[b] : b \in Bytes}

ASSUME EvaluationVoiceAssumption ==
    /\ IsFiniteSet(Drafts) /\ IsFiniteSet(Bytes)
    /\ Drafts \cap Bytes = {} /\ User \notin Jobs
    /\ None \notin Jobs \cup Uses \cup {User} /\ Source \notin Grants
    /\ \A b, c \in Bytes : QaGrantOf[b] = QaGrantOf[c] => b = c
    /\ \A u \in Uses : UseFor[u] \in Bytes
    /\ MaxAttempts \in Nat \ {0} /\ MaxFaults \in Nat
    /\ MaxUploads \in Nat /\ MaxWithdrawn \in Nat

EvaluationVoiceInit ==
    /\ withdrawn = {}
    /\ job = [j \in Jobs |-> [status |-> "absent", attempt |-> 0, live |-> FALSE]]
    /\ call = [j \in Jobs |-> "none"]
    /\ audio = [b \in Bytes |-> [by |-> None, scope |-> {}, verdict |-> "none"]]
    /\ file = [b \in Bytes |-> FALSE]
    /\ review = [b \in Bytes |-> "none"]
    /\ use = [u \in Uses |-> "none"]
    /\ run = [b \in Bytes |-> [by |-> None, cancelled |-> FALSE]]
    /\ work = [w \in {} |-> <<>>]
    /\ launches = [j \in Jobs |-> 0]
    /\ faults = 0

-----------------------------------------------------------------------------
(* What a request or a handler finds                                       *)

Is(j, status) == job[j].status = status
Present(b) == audio[b].by # None

\* resolve_provider_use
Allowed(g) == g \notin withdrawn

\* require_current of a scope, with the sources it was made from.
Live(scope) == Source \notin withdrawn /\ \A g \in scope : Allowed(g)

\* The job is running and stands at the attempt of the handler.
Serves(w) == Is(w[1], "running") /\ job[w[1]].attempt = w[2]
Holds(w) == Serves(w) /\ job[w[1]].live

\* VoiceDraftService.require_job
DraftLive(d) == Live({GrantOf[d]})

\* What a recording carries may be heard: every grant is live, the bytes are there.
Audible(b) == Present(b) /\ Live(audio[b].scope) /\ file[b]

\* require_completed_review: what a once-only draft, now completed, made.
CompletedOnce(b) ==
    \E d \in Drafts :
        /\ audio[b].by = d /\ GrantOf[d] \in Once
        /\ Is(d, "completed") /\ call[d] = "completed"

\* The rows VoiceEvaluationQAService._facts compares.
Standing(b) ==
    CompletedOnce(b) /\ Live(audio[b].scope) /\ Allowed(QaGrantOf[b])

\* VoiceEvaluationQAService.require_job with _original_proof
QaLive(b) == Standing(b) /\ Audible(b)

\* require_completed_qa
Retained(b) == QaLive(b) /\ call[b] = "completed"

\* Mutant: a verdict is enough, whatever it says.
CheckedAtAll(b) ==
    Retained(b) /\ Is(b, "completed") /\ audio[b].verdict \in {"verified", "rejected"}

\* EvaluationVoiceReviewService._binding
Checked(b) == Retained(b) /\ Is(b, "completed") /\ audio[b].verdict = "verified"

\* EvaluationMasterService._context
Usable(b) == Checked(b) /\ review[b] = "approved"

At(w, place) == w \in DOMAIN work /\ work[w].at = place
Step(w, place) == work' = [work EXCEPT ![w].at = place]
End(w) == work' = [v \in DOMAIN work \ {w} |-> work[v]]
Begin(w, place, b) ==
    work' = [v \in DOMAIN work \cup {w} |->
               IF v = w THEN [at |-> place, bytes |-> b] ELSE work[v]]
SetCall(w, status) == call' = [call EXCEPT ![w[1]] = status]

Library == <<audio, file>>
Decisions == <<review, use, run>>

-----------------------------------------------------------------------------
(* Requests                                                                *)

Enqueue(j) ==
    job' = [job EXCEPT ![j] = [status |-> "pending", attempt |-> 0, live |-> FALSE]]

\* Mutant: a once-only grant is not claimed.
UnclaimedAny(d) == TRUE

\* voice_calibration_claims has one row a grant.
Unclaimed(d) ==
    GrantOf[d] \in Once => \A e \in Drafts : GrantOf[e] = GrantOf[d] => Is(e, "absent")

\* VoiceDraftService.enqueue
CreateDraft(d) ==
    /\ Is(d, "absent") /\ DraftLive(d) /\ Unclaimed(d)
    /\ Enqueue(d)
    /\ UNCHANGED <<withdrawn, call, Library, Decisions, work, launches, faults>>

\* VoiceEvaluationQAService.enqueue
CreateQa(b) ==
    /\ Is(b, "absent") /\ QaLive(b) /\ audio[b].verdict = "pending"
    /\ Enqueue(b)
    /\ UNCHANGED <<withdrawn, call, Library, Decisions, work, launches, faults>>

\* ProviderUseAdmissionService.revoke, or a change of what consent rests on.
Withdraw(g) ==
    /\ Cardinality(withdrawn) < MaxWithdrawn
    /\ withdrawn' = withdrawn \cup {g}
    /\ UNCHANGED <<job, call, Library, Decisions, work, launches, faults>>

\* EvaluationVoiceReviewService.record; a record is never replaced.
Review(b) ==
    /\ Checked(b) /\ review[b] = "none"
    /\ review' \in {[review EXCEPT ![b] = v] : v \in {"approved", "rejected"}}
    /\ UNCHANGED <<withdrawn, job, call, Library, use, run, work, launches, faults>>

AdoptUse(u) ==
    /\ Usable(UseFor[u]) /\ use[u] = "none"
    /\ use' = [use EXCEPT ![u] = "live"]
    /\ UNCHANGED <<withdrawn, job, call, Library, review, run, work, launches, faults>>

RevokeUse(u) ==
    /\ use[u] = "live"
    /\ use' = [use EXCEPT ![u] = "revoked"]
    /\ UNCHANGED <<withdrawn, job, call, Library, review, run, work, launches, faults>>

\* EvaluationMasterService.create: a request has one run, bound to one use.
Bind(u) ==
    LET b == UseFor[u] IN
    /\ Usable(b) /\ use[u] = "live" /\ run[b].by = None
    /\ run' = [run EXCEPT ![b].by = u]
    /\ UNCHANGED <<withdrawn, job, call, Library, review, use, work, launches, faults>>

CancelRun(b) ==
    /\ run[b].by # None /\ ~run[b].cancelled
    /\ run' = [run EXCEPT ![b].cancelled = TRUE]
    /\ UNCHANGED <<withdrawn, job, call, Library, review, use, work, launches, faults>>

Request ==
    \/ \E d \in Drafts : CreateDraft(d)
    \/ \E b \in Bytes : CreateQa(b) \/ Review(b) \/ CancelRun(b)
    \/ \E u \in Uses : AdoptUse(u) \/ RevokeUse(u) \/ Bind(u)
    \/ \E g \in Grants \cup {Source} : Withdraw(g)

-----------------------------------------------------------------------------
(* The queue and its faults                                                *)

Rest == <<withdrawn, call, Library, Decisions, launches>>

Claim(j) ==
    LET a == job[j].attempt + 1 IN
    /\ Is(j, "pending")
    /\ job' = [job EXCEPT ![j] = [status |-> "running", attempt |-> a, live |-> TRUE]]
    /\ Begin(<<j, a>>, "begun", None)
    /\ UNCHANGED <<Rest, faults>>

Lapse(j) ==
    /\ "lapse" \in Faults /\ faults < MaxFaults
    /\ Is(j, "running") /\ job[j].live
    /\ job' = [job EXCEPT ![j].live = FALSE]
    /\ faults' = faults + 1
    /\ UNCHANGED <<Rest, work>>

Recover(j) ==
    /\ Is(j, "running") /\ ~job[j].live
    /\ job' = [job EXCEPT ![j].status =
                 IF job[j].attempt < MaxAttempts THEN "pending" ELSE "failed"]
    /\ UNCHANGED <<Rest, work, faults>>

\* Of a handler, or of an upload; in the midst of an import the file is placed.
Crash(w) ==
    /\ "crash" \in Faults /\ faults < MaxFaults
    /\ faults' = faults + 1
    /\ file' \in {file} \cup {[file EXCEPT ![b] = TRUE] :
                                 b \in {c \in Bytes : At(w, "looked") /\ c = work[w].bytes}}
    /\ End(w)
    /\ UNCHANGED <<withdrawn, job, call, audio, Decisions, launches>>

\* Of an exception its handler does not name a draft gets another attempt.
Finish(w) ==
    LET j == w[1] IN
    /\ At(w, "stored") \/ At(w, "failing")
    /\ job' \in
         IF ~Holds(w) THEN {job}
         ELSE IF At(w, "stored") THEN {[job EXCEPT ![j].status = "completed"]}
         ELSE {[job EXCEPT ![j].status = s] :
                 s \in {"failed"} \cup (IF j \in Drafts /\ w[2] < MaxAttempts
                                    THEN {"pending"} ELSE {})}
    /\ End(w)
    /\ UNCHANGED <<Rest, faults>>

-----------------------------------------------------------------------------
(* Maintained calls.  Beside what is stated, files, evidence and budget    *)
(* may refuse any step.                                                    *)

\* What a handler demands before its call, and again around it.
Authority(w) == IF w[1] \in Drafts THEN DraftLive(w[1]) ELSE QaLive(w[1])

\* current() of both executions.
Current(w) == Serves(w) /\ Authority(w)

\* A completed call is answered with what it stored: the recording as it is.
Replayable(d) == call[d] = "completed" /\ \E b \in Bytes : audio[b].by = d /\ Audible(b)
Answerable(w) ==
    Current(w) /\ IF w[1] \in Drafts THEN Replayable(w[1]) ELSE Retained(w[1])

\* require_dispatch; a call reserved, running or failed is only reported.
Dispatch(w) ==
    /\ At(w, "begun")
    /\ \/ Answerable(w) /\ Step(w, "stored")
       \/ Current(w) /\ call[w[1]] = "none" /\ Step(w, "ready")
       \/ Step(w, "failing")
    /\ UNCHANGED <<Rest, job, faults>>

\* reservation_guard: of a draft the attempt is not looked at here.
Reserve(w) ==
    /\ At(w, "ready")
    /\ \/ /\ call[w[1]] = "none" /\ Authority(w) /\ (w[1] \in Drafts \/ Serves(w))
          /\ SetCall(w, "running") /\ Step(w, "reserved")
       \/ Answerable(w) /\ Step(w, "stored") /\ UNCHANGED call
       \/ Step(w, "failing") /\ UNCHANGED call
    /\ UNCHANGED <<withdrawn, job, Library, Decisions, launches, faults>>

Fail(w) == SetCall(w, "failed") /\ Step(w, "failing")

\* verify_before_launch and current(): the last look at grants, sources and job.
Clear(w) ==
    /\ At(w, "reserved")
    /\ \/ Current(w) /\ Step(w, "cleared") /\ UNCHANGED call
       \/ Fail(w)
    /\ UNCHANGED <<withdrawn, job, Library, Decisions, launches, faults>>

\* execute() hashes runtime and model once more and starts the child.
Launch(w) ==
    /\ At(w, "cleared")
    /\ \/ /\ launches' = [launches EXCEPT ![w[1]] = @ + 1]
          /\ Step(w, "launched") /\ UNCHANGED call
       \/ Fail(w) /\ UNCHANGED launches
    /\ UNCHANGED <<withdrawn, job, Library, Decisions, faults>>

\* The child returned; a draft's made some recording.
Return(w) ==
    /\ At(w, "launched")
    /\ \/ Current(w) /\ w[1] \in Drafts /\ (\E b \in Bytes : Begin(w, "returned", b))
          /\ UNCHANGED call
       \/ Current(w) /\ w[1] \in Bytes /\ Step(w, "checked") /\ UNCHANGED call
       \/ Fail(w)
    /\ UNCHANGED <<withdrawn, job, Library, Decisions, launches, faults>>

\* Mutant: a verdict is stored over what changed meanwhile.
StoreVerdictUnguarded(w) ==
    /\ At(w, "checked")
    /\ \E v \in {"verified", "rejected"} :
          audio' = [audio EXCEPT ![w[1]].verdict = v]
    /\ SetCall(w, "completed") /\ Step(w, "stored")
    /\ UNCHANGED <<withdrawn, job, file, Decisions, launches, faults>>

\* persist_result under guard(); refused, it leaves the call running.
StoreVerdict(w) ==
    /\ At(w, "checked")
    /\ \/ /\ Serves(w) /\ Standing(w[1])
          /\ \E v \in {"verified", "rejected"} :
                audio' = [audio EXCEPT ![w[1]].verdict = v]
          /\ SetCall(w, "completed") /\ Step(w, "stored")
       \/ Step(w, "failing") /\ UNCHANGED <<audio, call>>
    /\ UNCHANGED <<withdrawn, job, file, Decisions, launches, faults>>

-----------------------------------------------------------------------------
(* AudioImporter, for a draft or for a user                                *)

\* A handler ends its call; an upload has none.
Refuse(w) ==
    IF w[1] \in Drafts THEN Fail(w) ELSE End(w) /\ UNCHANGED call

Upload(w, b) ==
    /\ w \notin DOMAIN work
    /\ Begin(w, "returned", b)
    /\ UNCHANGED <<Rest, job, faults>>

\* No row yet: the copy is probed, and the row looked for again.
Look(w) ==
    /\ At(w, "returned") /\ ~Present(work[w].bytes)
    /\ Step(w, "looked")
    /\ UNCHANGED <<Rest, job, faults>>

\* register_generated_import_scope merges the grants of the bytes and of the
\* producer; the scope of a row, once pinned, is never another.
Merged(w) == audio[work[w].bytes].scope \cup {GrantOf[w[1]]}
Registrable(w) ==
    /\ Live(Merged(w))
    /\ audio[work[w].bytes].scope \in {{}, Merged(w)}

\* Mutant: the restriction is registered with a row of the draft's own only.
AdoptUnrestricted(w) ==
    LET b == work[w].bytes IN
    /\ At(w, "returned") \/ At(w, "looked")
    /\ Present(b) /\ file[b]
    /\ IF w[1] \in Drafts
       THEN UNCHANGED <<audio, call>> /\ Step(w, "imported")
       ELSE End(w) /\ UNCHANGED <<audio, call>>
    /\ UNCHANGED <<withdrawn, job, file, Decisions, launches, faults>>

\* The bytes are known: the draft's restriction is added to the row that has
\* them, and the row, made by another, is refused as the draft's recording.
Adopt(w) ==
    LET b == work[w].bytes IN
    /\ At(w, "returned") \/ At(w, "looked")
    /\ Present(b)
    /\ IF w[1] \in Drafts /\ Registrable(w) /\ file[b]
       THEN audio' = [audio EXCEPT ![b].scope = Merged(w)]
       ELSE UNCHANGED audio
    /\ Refuse(w)
    /\ UNCHANGED <<withdrawn, job, file, Decisions, launches, faults>>

\* Row, scope and file in one transaction; a file already there is kept.
Place(w) ==
    LET b == work[w].bytes
        own == w[1] \in Drafts IN
    /\ At(w, "looked") /\ ~Present(b)
    /\ \/ /\ own => Registrable(w)
          /\ audio' = [audio EXCEPT ![b] =
                [by |-> w[1], scope |-> IF own THEN Merged(w) ELSE {},
                 verdict |-> IF own THEN "pending" ELSE "none"]]
          /\ file' = [file EXCEPT ![b] = TRUE]
          /\ IF own THEN Step(w, "imported") ELSE End(w)
          /\ UNCHANGED <<call, faults>>
       \/ Refuse(w) /\ UNCHANGED <<Library, faults>>
       \/ /\ "commit" \in Faults /\ faults < MaxFaults /\ ~file[b]
          /\ faults' = faults + 1
          /\ file' = [file EXCEPT ![b] = TRUE]
          /\ Step(w, "rolled back") /\ UNCHANGED <<audio, call>>
    /\ UNCHANGED <<withdrawn, job, Decisions, launches>>

\* After a commit that failed the file placed is removed, outside any lock.
CleanUp(w) ==
    /\ At(w, "rolled back")
    /\ file' = [file EXCEPT ![work[w].bytes] = FALSE]
    /\ Refuse(w)
    /\ UNCHANGED <<withdrawn, job, audio, Decisions, launches, faults>>

\* The ledger takes the result of the call, whatever became of the job.
StoreRecording(w) ==
    /\ At(w, "imported")
    /\ SetCall(w, "completed") /\ Step(w, "stored")
    /\ UNCHANGED <<withdrawn, job, Library, Decisions, launches, faults>>

Handler(w) ==
    \/ Dispatch(w) \/ Reserve(w) \/ Clear(w) \/ Launch(w) \/ Return(w) \/ StoreVerdict(w)
    \/ Look(w) \/ Adopt(w) \/ Place(w) \/ CleanUp(w) \/ StoreRecording(w)
    \/ Finish(w)

EvaluationVoiceNext ==
    \/ Request
    \/ \E j \in Jobs : Claim(j) \/ Lapse(j) \/ Recover(j)
    \/ \E w \in Uploads, b \in Bytes : Upload(w, b)
    \/ \E w \in DOMAIN work : Handler(w) \/ Crash(w)

EvaluationVoiceSpec == EvaluationVoiceInit /\ [][EvaluationVoiceNext]_vars

-----------------------------------------------------------------------------
(***************************************************************************)
(* What the evaluation lane of Voice promises.                             *)
(***************************************************************************)
\* A job starts one child process at most, whatever workers took it up and
\* however often; and of the drafts made under one once-only admission one does.
OneVoiceCall ==
    /\ \A j \in Jobs : launches[j] <= 1
    /\ \A d, e \in Drafts :
          GrantOf[d] = GrantOf[e] /\ GrantOf[d] \in Once /\ launches[d] > 0 /\ launches[e] > 0
             => d = e

\* A completed call has its recording and a recording its call: one row a draft,
\* made by the child the call paid for, and restricted from the start by the
\* grant it was made under; a job completes only over a completed call.
OutputsAccounted ==
    /\ \A d \in Drafts :
          /\ call[d] = "completed" => \E b \in Bytes : audio[b].by = d
          /\ \A b, c \in Bytes : audio[b].by = d /\ audio[c].by = d => b = c
    /\ \A b \in Bytes : audio[b].by \in Drafts =>
          /\ audio[b].scope = {GrantOf[audio[b].by]}
          /\ launches[audio[b].by] = 1 /\ call[audio[b].by] \in {"running", "completed"}
    /\ \A j \in Jobs : Is(j, "completed") => call[j] = "completed"

\* What an evaluation run is bound to was earned step by step: a draft's one call
\* completed, its recording was checked once and verified, and somebody approved
\* it; none of that is undone later, whatever is revoked or imported.
MasterEarned ==
    \A b \in Bytes : run[b].by # None =>
        /\ use[run[b].by] # "none" /\ review[b] = "approved"
        /\ audio[b].verdict = "verified" /\ call[b] = "completed" /\ launches[b] = 1
        /\ \E d \in Drafts : audio[b].by = d /\ GrantOf[d] \in Once /\ call[d] = "completed"

\* A child is started only by a handler that saw every grant and source it rests
\* on live, at the attempt its job then stood at: what is withdrawn after that
\* look does not stop it, but what it makes is kept only while they are live still.
\* So is a verdict stored, a review recorded and a Master bound, and a Master under
\* a use that is not revoked; what is checked, reviewed or bound still has its
\* file, whatever other imports of its bytes cleaned up.
ActsAuthorised ==
    [][/\ \A w \in DOMAIN work' : work'[w].at = "cleared" /\ ~At(w, "cleared") =>
             /\ Serves(w)
             /\ IF w[1] \in Drafts THEN DraftLive(w[1])
                                   ELSE Audible(w[1]) /\ Allowed(QaGrantOf[w[1]])
       /\ \A j \in Jobs : launches'[j] # launches[j] =>
             \E w \in DOMAIN work : w[1] = j /\ At(w, "cleared")
       /\ \A b \in Bytes : audio'[b].by \in Drafts \ {audio[b].by} => DraftLive(audio'[b].by)
       /\ \A b \in Bytes : audio'[b].verdict \in {"verified", "rejected"} \ {audio[b].verdict} =>
             /\ \E w \in DOMAIN work : w[1] = b /\ Serves(w)
             /\ Live(audio[b].scope) /\ Allowed(QaGrantOf[b])
       /\ \A b \in Bytes : <<review'[b], run'[b].by>> # <<review[b], run[b].by>> =>
             Audible(b) /\ Allowed(QaGrantOf[b])
       /\ \A b \in Bytes : run'[b].by # run[b].by => use[run'[b].by] = "live"]_vars
=============================================================================
