------------------------- MODULE EvaluationTalking -------------------------
(***************************************************************************)
(* The evaluation lane of Talking (evaluation_talking*.py, its three job   *)
(* handlers, talking/evaluation_admission.py and the Talking slots of      *)
(* evaluation_composition.py).  A reviewed use admission lets one trial be *)
(* started: one child process at most makes its video, which is checked,   *)
(* previewed, reviewed and admitted, each step on a request of its own.    *)
(* A batch may grant one trial per scene; a granted trial cancelled before *)
(* it reserved its call may be replaced once.                              *)
(*                                                                         *)
(* _facts is every row a job's authority rests on.  It is read with the    *)
(* files, outside a transaction, and compared inside the next one.  So a   *)
(* request that reads, compares and writes is one action, and a handler    *)
(* carries the Facts it saw from step to step.                             *)
(***************************************************************************)
EXTENDS Integers, FiniteSets

CONSTANTS
    Receipts,     \* use admissions; an operation is known by its receipt
    SceneOf,      \* the scene of each
    TrialOf,      \* inference_sha256, and with it the ledger key, of each
    Corrects,     \* pairs <<p, r>>: r repeats p with another entry point
    Granted,      \* scenes of the batch
    MaxAttempts,  \* of a job
    Faults,       \* which happen: "crash" of a handler, "lapse" of a lease
    MaxFaults,    \* bounds them
    MaxUpsets,    \* bounds withdrawals and unrelated imports
    Plan, NoReceipt

VARIABLES
    withdrawn,  \* receipts revoked, and Plan when what they all rest on changed
    imports,    \* unrelated media imported meanwhile
    batch,      \* the composition batch is adopted
    slot,       \* evaluation_composition_slots, per scene
    heir,       \* evaluation_talking_recoveries, predecessor to successor
    job,        \* jobs, with whether the lease of the running one is live
    saved,      \* evaluation_talking_results, the roles stored
    passed,     \* operations whose technical QA verified the video
    reviewed,   \* the continuity review of each preview
    call,       \* provider_calls, per trial
    loose,      \* quarantined files no restriction names yet
    pins,       \* restrictions of quarantined files
    work,       \* handlers at work: where they stand and the Facts they saw
    launches,   \* child processes started
    faults

vars == <<withdrawn, imports, batch, slot, heir, job, saved, passed, reviewed,
          call, loose, pins, work, launches, faults>>

Roles == {"generation", "qa", "preview"}
Jobs == Receipts \X Roles
Runs == Jobs \X (1..MaxAttempts)

Statuses == {"absent", "pending", "running", "completed", "failed", "cancelled"}
Results == Roles \cup {"admission", "cancellation", "quarantine"}

ASSUME EvaluationAssumption ==
    /\ IsFiniteSet(Receipts) /\ NoReceipt \notin Receipts /\ Plan \notin Receipts
    /\ \A p, r \in Receipts : TrialOf[p] = TrialOf[r] => SceneOf[p] = SceneOf[r]
    /\ Corrects \subseteq Receipts \X Receipts
    /\ \A p, r \in Receipts :
          <<p, r>> \in Corrects => SceneOf[p] = SceneOf[r] /\ TrialOf[p] # TrialOf[r]
    /\ MaxAttempts \in Nat \ {0} /\ MaxFaults \in Nat /\ MaxUpsets \in Nat

Trials == {TrialOf[r] : r \in Receipts}
Made == {r \in Receipts : job[<<r, "generation">>].status # "absent"}

Facts ==
    [withdrawn |-> withdrawn, imports |-> imports, heir |-> heir, pins |-> pins,
     scoped |-> {j \in Jobs : job[j].status # "absent"},
     stored |-> [r \in Receipts |-> saved[r] \cap (Roles \cup {"admission"})]]

EvaluationInit ==
    /\ withdrawn = {} /\ imports = 0 /\ batch = FALSE
    /\ slot = [s \in Granted |-> NoReceipt]
    /\ heir = [r \in Receipts |-> NoReceipt]
    /\ job = [j \in Jobs |-> [status |-> "absent", attempt |-> 0, live |-> FALSE]]
    /\ saved = [r \in Receipts |-> {}]
    /\ passed = {} /\ reviewed = [r \in Receipts |-> "none"]
    /\ call = [t \in Trials |-> "none"]
    /\ loose = [r \in Receipts |-> 0] /\ pins = [r \in Receipts |-> 0]
    /\ work = [w \in {} |-> <<>>]
    /\ launches = [r \in Receipts |-> 0] /\ faults = 0

-----------------------------------------------------------------------------
(* What a request or a handler finds                                       *)

Is(r, role, status) == job[<<r, role>>].status = status
Cancelled(r) == "cancellation" \in saved[r]

\* Mutant: a trial is replaced although its call was reserved.
RootOfReserved(p) ==
    /\ batch /\ SceneOf[p] \in Granted /\ slot[SceneOf[p]] = p
    /\ \A q \in Receipts : heir[q] # p
    /\ Is(p, "generation", "cancelled") /\ saved[p] = {"cancellation"}

\* _root: a granted slot whose trial was cancelled before it reserved a call.
Root(p) ==
    /\ batch /\ SceneOf[p] \in Granted /\ slot[SceneOf[p]] = p
    /\ \A q \in Receipts : heir[q] # p
    /\ Is(p, "generation", "cancelled") /\ saved[p] = {"cancellation"}
    /\ call[TrialOf[p]] = "none"

Successor(r) == \E p \in Receipts : heir[p] = r /\ Root(p)

\* require_job_identity with require_talking_slot.
Owned(r) ==
    batch /\ SceneOf[r] \in Granted => slot[SceneOf[r]] = r \/ Successor(r)

\* require_current_operation and require_retained_operation.
Current(r) == r \in Made /\ ~Cancelled(r) /\ r \notin withdrawn /\ Plan \notin withdrawn

\* The attempt of a handler is the one the job stands at, lease.require.
Serves(w) == job[w[1]].status = "running" /\ job[w[1]].attempt = w[2]
Holds(w) == Serves(w) /\ job[w[1]].live

\* Mutant: the facts read are not compared.
GuardBlind(w) ==
    LET r == w[1][1] IN Serves(w) /\ Owned(r) /\ ~Cancelled(r)

\* generation_guard.
Guard(w) ==
    LET r == w[1][1] IN
    /\ Serves(w) /\ Owned(r) /\ ~Cancelled(r)
    /\ work[w].seen = Facts

At(w, place) == w \in DOMAIN work /\ work[w].at = place

\* A handler moves on; it ends when it leaves the table.
Step(w, place) == work' = [work EXCEPT ![w].at = place]
Observe(w, place) == work' = [work EXCEPT ![w] = [at |-> place, seen |-> Facts]]
End(w) == work' = [v \in DOMAIN work \ {w} |-> work[v]]

Save(r, role) == saved' = [saved EXCEPT ![r] = @ \cup {role}]

Rows == <<saved, passed, reviewed, call, loose, pins, launches>>
Authority == <<withdrawn, imports, batch, slot, heir>>

-----------------------------------------------------------------------------
(* Requests                                                                *)

Enqueue(r, role) ==
    job' = [job EXCEPT ![<<r, role>>] = [status |-> "pending", attempt |-> 0, live |-> FALSE]]

\* A duplicate of a trial already started returns the operation it has.
Startable(r) ==
    /\ r \notin withdrawn /\ Plan \notin withdrawn
    /\ \A p \in Made : TrialOf[p] # TrialOf[r]

\* create, claim_talking_slot
Start(r) ==
    /\ Startable(r)
    /\ batch => SceneOf[r] \in Granted /\ slot[SceneOf[r]] = NoReceipt
    /\ slot' = IF batch THEN [slot EXCEPT ![SceneOf[r]] = r] ELSE slot
    /\ Enqueue(r, "generation")
    /\ UNCHANGED <<withdrawn, imports, batch, heir, Rows, work, faults>>

\* TalkingRecoveryService.create, bind
Replace(p, r) ==
    /\ <<p, r>> \in Corrects
    /\ Startable(r) /\ Root(p) /\ heir[p] = NoReceipt
    /\ heir' = [heir EXCEPT ![p] = r]
    /\ Enqueue(r, "generation")
    /\ UNCHANGED <<withdrawn, imports, batch, slot, Rows, work, faults>>

Cancel(r) ==
    /\ r \in Made
    /\ Save(r, "cancellation")
    /\ job' = [j \in Jobs |->
         IF j[1] = r /\ job[j].status \in {"pending", "running"}
         THEN [job[j] EXCEPT !.status = "cancelled"] ELSE job[j]]
    /\ UNCHANGED <<Authority, passed, reviewed, call, loose, pins, work, launches, faults>>

CreateQa(r) ==
    /\ Current(r) /\ Owned(r)
    /\ "generation" \in saved[r] /\ Is(r, "generation", "completed")
    /\ Is(r, "qa", "absent")
    /\ Enqueue(r, "qa")
    /\ UNCHANGED <<Authority, Rows, work, faults>>

CreatePreview(r) ==
    /\ Current(r) /\ Owned(r)
    /\ "generation" \in saved[r] /\ Is(r, "qa", "completed") /\ r \in passed
    /\ Is(r, "preview", "absent")
    /\ Enqueue(r, "preview")
    /\ UNCHANGED <<Authority, Rows, work, faults>>

\* EvaluationTalkingAdmissionService._observe
Observable(r) ==
    /\ Current(r) /\ Owned(r) /\ {"generation", "preview"} \subseteq saved[r]
    /\ \A role \in Roles : Is(r, role, "completed")

Review(r) ==
    /\ Observable(r) /\ reviewed[r] = "none"
    /\ reviewed' \in {[reviewed EXCEPT ![r] = v] : v \in {"approved", "rejected"}}
    /\ UNCHANGED <<Authority, job, saved, passed, call, loose, pins, work, launches, faults>>

\* Mutant: any review will do.
AdmitReviewed(r) ==
    /\ Observable(r) /\ reviewed[r] # "none" /\ "admission" \notin saved[r]
    /\ Save(r, "admission")
    /\ UNCHANGED <<Authority, job, passed, reviewed, call, loose, pins, work, launches, faults>>

Admit(r) ==
    /\ Observable(r) /\ reviewed[r] = "approved" /\ "admission" \notin saved[r]
    /\ Save(r, "admission")
    /\ UNCHANGED <<Authority, job, passed, reviewed, call, loose, pins, work, launches, faults>>

Upsettable == imports + Cardinality(withdrawn) < MaxUpsets

\* revoke; a changed draft, Master, source, consent or execution admission
Withdraw(x) ==
    /\ Upsettable
    /\ withdrawn' = withdrawn \cup {x}
    /\ UNCHANGED <<imports, batch, slot, heir, job, Rows, work, faults>>

Import ==
    /\ Upsettable
    /\ imports' = imports + 1
    /\ UNCHANGED <<withdrawn, batch, slot, heir, job, Rows, work, faults>>

AdoptBatch ==
    /\ ~batch /\ Plan \notin withdrawn
    /\ batch' = TRUE
    /\ UNCHANGED <<withdrawn, imports, slot, heir, job, Rows, work, faults>>

-----------------------------------------------------------------------------
(* The queue and its faults                                                *)

Claim(j) ==
    LET a == job[j].attempt + 1 IN
    /\ job[j].status = "pending"
    /\ job' = [job EXCEPT ![j] = [status |-> "running", attempt |-> a, live |-> TRUE]]
    /\ work' = [w \in DOMAIN work \cup {<<j, a>>} |->
                  IF w = <<j, a>> THEN [at |-> "begun", seen |-> <<>>] ELSE work[w]]
    /\ UNCHANGED <<Authority, Rows, faults>>

Lapse(j) ==
    /\ "lapse" \in Faults /\ faults < MaxFaults
    /\ job[j].status = "running" /\ job[j].live
    /\ job' = [job EXCEPT ![j].live = FALSE]
    /\ faults' = faults + 1
    /\ UNCHANGED <<Authority, Rows, work>>

Recover(j) ==
    /\ job[j].status = "running" /\ ~job[j].live
    /\ job' = [job EXCEPT ![j].status =
                 IF job[j].attempt < MaxAttempts THEN "pending" ELSE "failed"]
    /\ UNCHANGED <<Authority, Rows, work, faults>>

Crash(w) ==
    /\ "crash" \in Faults /\ faults < MaxFaults
    /\ faults' = faults + 1
    /\ End(w)
    /\ UNCHANGED <<Authority, job, Rows>>

-----------------------------------------------------------------------------
(* MaintainedEvaluationTalkingHandler and execute_evaluation_talking.      *)
(* Beside what is stated, files, evidence and budget may refuse any step.  *)

\* require_dispatch: a completed call is authenticated, any other reported.
BeginGeneration(w) ==
    LET r == w[1][1]
        c == call[TrialOf[r]] IN
    /\ At(w, "begun") /\ w[1][2] = "generation"
    /\ \/ /\ Serves(w) /\ Owned(r) /\ Current(r)
          /\ \/ c = "completed" /\ "generation" \in saved[r] /\ Step(w, "stored")
             \/ c = "none" /\ Holds(w) /\ Observe(w, "ready")
       \/ Step(w, "failing")
    /\ UNCHANGED <<Authority, job, Rows, faults>>

Reserve(w) ==
    LET t == TrialOf[w[1][1]] IN
    /\ At(w, "ready") /\ w[1][2] = "generation"
    /\ \/ /\ Holds(w) /\ Guard(w) /\ call[t] = "none"
          /\ call' = [call EXCEPT ![t] = "running"] /\ Step(w, "reserved")
       \/ Step(w, "failing") /\ UNCHANGED call
    /\ UNCHANGED <<Authority, job, saved, passed, reviewed, loose, pins, launches, faults>>

\* current(), before the child is made ready and after it returned.
StillCurrent(w) == Holds(w) /\ Guard(w) /\ Current(w[1][1])

FailCall(w) == call' = [call EXCEPT ![TrialOf[w[1][1]]] = "failed"]

\* before_action.  Runtime and models are hashed again before the child starts.
Clear(w) ==
    /\ At(w, "reserved")
    /\ \/ StillCurrent(w) /\ Step(w, "cleared") /\ UNCHANGED call
       \/ FailCall(w) /\ Step(w, "failing")
    /\ UNCHANGED <<Authority, job, saved, passed, reviewed, loose, pins, launches, faults>>

\* Mutant: the lease is not asked for again.
LaunchUnheld(w) ==
    /\ At(w, "cleared")
    /\ \/ /\ launches' = [launches EXCEPT ![w[1][1]] = @ + 1]
          /\ Step(w, "launched") /\ UNCHANGED call
       \/ FailCall(w) /\ Step(w, "failing") /\ UNCHANGED launches
    /\ UNCHANGED <<Authority, job, saved, passed, reviewed, loose, pins, faults>>

\* execute_owned: of all that was looked at only the lease is asked for again.
Launch(w) ==
    /\ At(w, "cleared")
    /\ \/ /\ Holds(w)
          /\ launches' = [launches EXCEPT ![w[1][1]] = @ + 1]
          /\ Step(w, "launched") /\ UNCHANGED call
       \/ FailCall(w) /\ Step(w, "failing") /\ UNCHANGED launches
    /\ UNCHANGED <<Authority, job, saved, passed, reviewed, loose, pins, faults>>

\* The child left a video that could be staged, one that could not, or none.
Return(w) ==
    /\ At(w, "launched")
    /\ \/ Step(w, "staged") /\ UNCHANGED call
       \/ FailCall(w) /\ (Step(w, "spoiled") \/ Step(w, "failing"))
    /\ UNCHANGED <<Authority, job, saved, passed, reviewed, loose, pins, launches, faults>>

Check(w) ==
    /\ At(w, "staged") /\ w[1][2] = "generation"
    /\ \/ StillCurrent(w) /\ Step(w, "checked") /\ UNCHANGED call
       \/ FailCall(w) /\ Step(w, "spoiled")
    /\ UNCHANGED <<Authority, job, saved, passed, reviewed, loose, pins, launches, faults>>

\* The ledger's terminal transaction; when it is refused the call stays running.
PersistGeneration(w) ==
    LET r == w[1][1] IN
    /\ At(w, "checked")
    /\ \/ /\ Holds(w) /\ Guard(w)
          /\ Save(r, "generation")
          /\ call' = [call EXCEPT ![TrialOf[r]] = "completed"]
          /\ Step(w, "stored")
       \/ Step(w, "spoiled") /\ UNCHANGED <<saved, call>>
    /\ UNCHANGED <<Authority, job, passed, reviewed, loose, pins, launches, faults>>

\* The bytes are put aside, then their restrictions are pinned.
Keep(w) ==
    /\ At(w, "spoiled")
    /\ loose' = [loose EXCEPT ![w[1][1]] = @ + 1]
    /\ Step(w, "kept")
    /\ UNCHANGED <<Authority, job, saved, passed, reviewed, call, pins, launches, faults>>

\* save_result refuses a second, different record.
PinQuarantine(w) ==
    LET r == w[1][1] IN
    /\ At(w, "kept")
    /\ IF "quarantine" \in saved[r] THEN UNCHANGED <<saved, loose, pins>>
       ELSE /\ Save(r, "quarantine")
            /\ loose' = [loose EXCEPT ![r] = @ - 1]
            /\ pins' = [pins EXCEPT ![r] = @ + 1]
    /\ Step(w, "failing")
    /\ UNCHANGED <<Authority, job, passed, reviewed, call, launches, faults>>

-----------------------------------------------------------------------------
(* EvaluationTalkingQaHandler and EvaluationTalkingPreviewHandler          *)

\* require_dispatch of both: the video is stored and its job completed.
Checkable(w) ==
    LET r == w[1][1] IN
    /\ Serves(w) /\ Owned(r) /\ Current(r)
    /\ "generation" \in saved[r] /\ Is(r, "generation", "completed")

Previewable(w) == Checkable(w) /\ Is(w[1][1], "qa", "completed") /\ w[1][1] \in passed

BeginQa(w) ==
    LET r == w[1][1] IN
    /\ At(w, "begun") /\ w[1][2] = "qa"
    /\ \/ Checkable(w) /\ "qa" \in saved[r] /\ Step(w, "stored")
       \/ Checkable(w) /\ "qa" \notin saved[r] /\ Observe(w, "ready")
       \/ Step(w, "failing")
    /\ UNCHANGED <<Authority, job, Rows, faults>>

CommitQa(w) ==
    LET r == w[1][1] IN
    /\ At(w, "ready") /\ w[1][2] = "qa"
    /\ \/ /\ Guard(w) /\ Checkable(w) /\ "qa" \notin saved[r]
          /\ Save(r, "qa") /\ passed' \in {passed, passed \cup {r}}
          /\ Step(w, "stored")
       \/ Step(w, "failing") /\ UNCHANGED <<saved, passed>>
    /\ UNCHANGED <<Authority, job, reviewed, call, loose, pins, launches, faults>>

BeginPreview(w) ==
    LET r == w[1][1] IN
    /\ At(w, "begun") /\ w[1][2] = "preview"
    /\ \/ Previewable(w) /\ "preview" \in saved[r] /\ Step(w, "stored")
       \/ Previewable(w) /\ saved[r] \cap {"preview", "quarantine"} = {} /\ Observe(w, "ready")
       \/ Step(w, "failing")
    /\ UNCHANGED <<Authority, job, Rows, faults>>

\* A mux that failed is kept when it left bytes, and on record when not.
Mux(w) ==
    LET r == w[1][1] IN
    /\ At(w, "ready") /\ w[1][2] = "preview"
    /\ \/ (Step(w, "staged") \/ Step(w, "spoiled")) /\ UNCHANGED saved
       \/ Step(w, "failing") /\ Save(r, "quarantine")
    /\ UNCHANGED <<Authority, job, passed, reviewed, call, loose, pins, launches, faults>>

CommitPreview(w) ==
    LET r == w[1][1] IN
    /\ At(w, "staged") /\ w[1][2] = "preview"
    /\ \/ /\ Guard(w) /\ Previewable(w) /\ "preview" \notin saved[r]
          /\ Save(r, "preview") /\ Step(w, "stored")
       \/ Step(w, "spoiled") /\ UNCHANGED saved
    /\ UNCHANGED <<Authority, job, passed, reviewed, call, loose, pins, launches, faults>>

\* complete and fail of the queue do nothing for a lease that is not held.
Finish(w) ==
    LET r == w[1][1]
        good == At(w, "stored") /\ (w[1][2] = "qa" => r \in passed) IN
    /\ At(w, "stored") \/ At(w, "failing")
    /\ job' = IF Holds(w)
              THEN [job EXCEPT ![w[1]].status = IF good THEN "completed" ELSE "failed"]
              ELSE job
    /\ End(w)
    /\ UNCHANGED <<Authority, Rows, faults>>

Handler(w) ==
    \/ BeginGeneration(w) \/ Reserve(w) \/ Clear(w) \/ Launch(w) \/ Return(w)
    \/ Check(w) \/ PersistGeneration(w) \/ Keep(w) \/ PinQuarantine(w)
    \/ BeginQa(w) \/ CommitQa(w) \/ BeginPreview(w) \/ Mux(w) \/ CommitPreview(w)
    \/ Finish(w)

Request ==
    \/ \E r \in Receipts :
          \/ Start(r) \/ Cancel(r) \/ CreateQa(r) \/ CreatePreview(r)
          \/ Review(r) \/ Admit(r) \/ \E p \in Receipts : Replace(p, r)
    \/ \E x \in Receipts \cup {Plan} : Withdraw(x)
    \/ Import \/ AdoptBatch

EvaluationNext ==
    \/ Request
    \/ \E j \in Jobs : Claim(j) \/ Lapse(j) \/ Recover(j)
    \/ \E w \in DOMAIN work : Handler(w) \/ Crash(w)

EvaluationSpec == EvaluationInit /\ [][EvaluationNext]_vars

-----------------------------------------------------------------------------
(***************************************************************************)
(* What the evaluation lane of Talking promises.                           *)
(***************************************************************************)
\* Operations a granted scene's allowance was given to.
Allowed(s) == {r \in Receipts : slot[s] = r \/ (slot[s] # NoReceipt /\ heir[slot[s]] = r)}

\* A trial starts one child process at most, whatever workers took up its job,
\* and a scene of the batch one in all, its replacement included.
OneChild ==
    /\ \A r \in Receipts : launches[r] <= 1
    /\ \A s \in Granted : \A p, r \in Allowed(s) :
          launches[p] > 0 /\ launches[r] > 0 => p = r

\* What is stored of a trial is whole and in order: the video with its completed
\* call, the check of that video, the preview of a video that passed, and an
\* admission of a preview somebody approved.
StoredInOrder ==
    \A r \in Receipts :
        /\ "generation" \in saved[r] <=> r \in Made /\ call[TrialOf[r]] = "completed"
        /\ "generation" \in saved[r] => launches[r] = 1
        /\ "qa" \in saved[r] => "generation" \in saved[r]
        /\ "preview" \in saved[r] => r \in passed /\ "qa" \in saved[r]
        /\ "admission" \in saved[r] => "preview" \in saved[r] /\ reviewed[r] = "approved"

\* Of a cancelled trial nothing more is stored than bytes put under restriction,
\* whatever its handlers were doing; nor does it start a child.
CancelIsFinal ==
    [][\A r \in Receipts : Cancelled(r) =>
          saved'[r] \ saved[r] \subseteq {"quarantine"} /\ launches'[r] = launches[r]]_vars

\* A video, a check, a preview or an admission is stored only while nothing it
\* rests on is withdrawn, by the attempt its job stands at, and never for a
\* trial the batch gave no allowance.
StoredWithAuthority ==
    [][\A r \in Receipts : \A role \in saved'[r] \ saved[r] :
          role \notin {"cancellation", "quarantine"} =>
             /\ r \notin withdrawn /\ Plan \notin withdrawn /\ Owned(r)
             /\ role \in Roles => \E w \in DOMAIN work : w[1] = <<r, role>> /\ Serves(w)]_vars
=============================================================================
