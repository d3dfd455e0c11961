------------------------------ MODULE JobStore ------------------------------
(***************************************************************************)
(* The lease-based job queue of services/api/app/jobs/store.py: the tables *)
(* jobs and local_resource_leases, and one action per JobStore method.     *)
(* Every method is one BEGIN IMMEDIATE transaction, so one action.         *)
(*                                                                         *)
(* Time is relative: left[j] is lease_expires_at - now of job j's lease,   *)
(* rleft[r] the same for the resource row r.  A method reads its timestamp *)
(* BEFORE it waits for SQLite's write lock (busy_timeout 5 s), so each     *)
(* action works with a timestamp up to MaxLag old: at lag, a lease with    *)
(* `left <= -lag' has expired, and a new lease has Lease - lag left.       *)
(***************************************************************************)
EXTENDS Integers, FiniteSets

CONSTANTS
    Jobs,         \* job rows; a number is the rank of (created_at, id)
    Workers,      \* worker ids, one live process each
    Resources,    \* resource keys, e.g. "gpu:<hostname>"
    Series,       \* Talking slice series ids
    NoJob, NoWorker, NoResource, NoSeries,
    KeyOf,        \* resource_keys_by_type, per job
    SeriesOf, IndexOf,  \* payload.slice_series_id and slice_series_index
    CanRun,       \* allowed_types of each worker, as the set of its jobs
    MaxAttempts,  \* --max-attempts of each worker
    Stoppable,    \* jobs EvaluationTalkingService.cancel may stop running
    Reconcilable, \* composition renders, whose saved result may be adopted
    Lease,        \* lease_duration, in ticks
    MaxLag        \* ticks a writer may wait for the write lock

ASSUME JobStoreAssumption ==
    /\ Jobs \subseteq Nat /\ IsFiniteSet(Jobs) /\ NoJob \notin Jobs
    /\ NoWorker \notin Workers
    /\ NoResource \notin Resources
    /\ NoSeries \notin Series
    /\ KeyOf \in [Jobs -> Resources \cup {NoResource}]
    /\ SeriesOf \in [Jobs -> Series \cup {NoSeries}]
    /\ IndexOf \in [Jobs -> Nat]
    /\ CanRun \in [Workers -> SUBSET Jobs]
    /\ MaxAttempts \in [Workers -> Nat \ {0}]
    /\ Stoppable \subseteq Jobs /\ Reconcilable \subseteq Jobs
    /\ Lease \in Nat \ {0}
    /\ MaxLag \in Nat

VARIABLES
    status,   \* jobs.status, "absent" before the insert
    attempt,  \* jobs.attempt
    owner,    \* jobs.lease_owner
    left,     \* jobs.lease_expires_at - now; 0 when NULL
    rjob,     \* local_resource_leases.job_id, NoJob when there is no row
    rworker,  \* local_resource_leases.worker_id
    rleft     \* local_resource_leases.lease_expires_at - now

rows == <<status, attempt, owner, left>>
leases == <<rjob, rworker, rleft>>
vars == <<status, attempt, owner, left, rjob, rworker, rleft>>

Terminal == {"completed", "failed", "cancelled"}
Status == {"absent", "pending", "running"} \cup Terminal
Lags == 0..MaxLag
Left == (-MaxLag)..Lease

TypeOK ==
    /\ status \in [Jobs -> Status]
    /\ attempt \in [Jobs -> Nat]
    /\ owner \in [Jobs -> Workers \cup {NoWorker}]
    /\ left \in [Jobs -> Left]
    /\ rjob \in [Resources -> Jobs \cup {NoJob}]
    /\ rworker \in [Resources -> Workers \cup {NoWorker}]
    /\ rleft \in [Resources -> Left]

Init ==
    /\ status = [j \in Jobs |-> "absent"]
    /\ attempt = [j \in Jobs |-> 0]
    /\ owner = [j \in Jobs |-> NoWorker]
    /\ left = [j \in Jobs |-> 0]
    /\ rjob = [r \in Resources |-> NoJob]
    /\ rworker = [r \in Resources |-> NoWorker]
    /\ rleft = [r \in Resources |-> 0]

-----------------------------------------------------------------------------
(* Helpers.                                                                *)

\* Earlier slices of the same series.
Preceding(j) == {i \in Jobs : /\ SeriesOf[j] # NoSeries
                              /\ SeriesOf[i] = SeriesOf[j]
                              /\ IndexOf[i] < IndexOf[j]}

\* Mutant: a slice waits for pending and running slices only.
EligibleAfterFailure(j, lag) ==
    /\ status[j] = "pending" \/ (status[j] = "running" /\ left[j] <= -lag)
    /\ \A i \in Preceding(j) : status[i] \notin {"pending", "running"}

\* Mutant: a lease is taken over one tick before it expires.
EligibleEarly(j, lag) ==
    /\ status[j] = "pending" \/ (status[j] = "running" /\ left[j] - 1 <= -lag)
    /\ \A i \in Preceding(j) : status[i] \in {"absent", "completed"}

\* Mutant: expired leases are left to recover_expired.
EligiblePending(j, lag) ==
    /\ status[j] = "pending"
    /\ \A i \in Preceding(j) : status[i] \in {"absent", "completed"}

\* The WHERE clause of claim: pending or expired, and no earlier slice of its
\* series still short of completed.
Eligible(j, lag) ==
    /\ \/ status[j] = "pending"
       \/ status[j] = "running" /\ left[j] <= -lag
    /\ \A i \in Preceding(j) : status[i] \in {"absent", "completed"}

\* ORDER BY CASE status WHEN 'pending' THEN 0 ELSE 1 END, created_at, id.
Before(i, j) == \/ status[i] = "pending" /\ status[j] # "pending"
                \/ status[i] = status[j] /\ i < j

\* Mutant: whoever reports is taken for the owner.
OwnedByAnyone(j, w, lag) == status[j] = "running" /\ left[j] > -lag

Owned(j, w, lag) ==
    /\ status[j] = "running"
    /\ owner[j] = w
    /\ left[j] > -lag

\* The jobs of S take a new status and give up their lease columns.
Settle(S, outcome) ==
    /\ status' = [j \in Jobs |-> IF j \in S THEN outcome[j] ELSE status[j]]
    /\ owner' = [j \in Jobs |-> IF j \in S THEN NoWorker ELSE owner[j]]
    /\ left' = [j \in Jobs |-> IF j \in S THEN 0 ELSE left[j]]
    /\ UNCHANGED attempt

\* DELETE FROM local_resource_leases WHERE <the row is in D>.
DropRows(D) ==
    /\ rjob' = [r \in Resources |-> IF r \in D THEN NoJob ELSE rjob[r]]
    /\ rworker' = [r \in Resources |-> IF r \in D THEN NoWorker ELSE rworker[r]]
    /\ rleft' = [r \in Resources |-> IF r \in D THEN 0 ELSE rleft[r]]

RowsOf(S) == {r \in Resources : rjob[r] \in S}
HeldBy(j, w) == {r \in Resources : rjob[r] = j /\ rworker[r] = w}

-----------------------------------------------------------------------------
(* enqueue: INSERT ... ON CONFLICT(idempotency_key) DO NOTHING.  A repeated *)
(* key changes nothing.  A slice series is inserted in one transaction.     *)

Batches == {{j} : j \in {k \in Jobs : SeriesOf[k] = NoSeries}}
           \cup {{j \in Jobs : SeriesOf[j] = s} : s \in Series}

Enqueue(B) ==
    /\ \E j \in B : status[j] = "absent"
    /\ status' = [j \in Jobs |-> IF j \in B /\ status[j] = "absent"
                                 THEN "pending" ELSE status[j]]
    /\ UNCHANGED <<attempt, owner, left, leases>>

-----------------------------------------------------------------------------
(* claim(worker, allowed_types or job_id): the loop of one transaction.  It *)
(* walks the eligible jobs in order, fails the exhausted ones it meets,     *)
(* skips those whose resource is taken and claims the first that is left.   *)

Exhausted(w, S, lag) ==
    {j \in S : Eligible(j, lag) /\ attempt[j] >= MaxAttempts[w]}

\* Mutant: a worker may lock again whatever it holds, for any job.
CanLockOwn(w, S, j, lag) ==
    KeyOf[j] = NoResource \/ LET r == KeyOf[j] IN
       rjob[r] \in {NoJob} \cup {i \in Exhausted(w, S, lag) : Before(i, j)}
       \/ rworker[r] = w \/ rleft[r] <= -lag

\* _claim_resource, at j's turn: the exhausted jobs before j have released.
CanLock(w, S, j, lag) ==
    \/ KeyOf[j] = NoResource
    \/ LET r == KeyOf[j] IN
       \/ rjob[r] = NoJob
       \/ rjob[r] \in {i \in Exhausted(w, S, lag) : Before(i, j)}
       \/ rjob[r] = j /\ rworker[r] = w
       \/ rleft[r] <= -lag

Claimable(w, S, lag) ==
    {j \in S : /\ Eligible(j, lag)
               /\ attempt[j] < MaxAttempts[w]
               /\ CanLock(w, S, j, lag)}

ClaimJob(w, S, j, lag) ==
    /\ j \in Claimable(w, S, lag)
    /\ \A i \in Claimable(w, S, lag) : i = j \/ Before(j, i)
    /\ LET X == {i \in Exhausted(w, S, lag) : Before(i, j)} IN
       /\ status' = [i \in Jobs |-> IF i = j THEN "running"
                                    ELSE IF i \in X THEN "failed" ELSE status[i]]
       /\ attempt' = [attempt EXCEPT ![j] = @ + 1]
       /\ owner' = [i \in Jobs |-> IF i = j THEN w
                                   ELSE IF i \in X THEN NoWorker ELSE owner[i]]
       /\ left' = [i \in Jobs |-> IF i = j THEN Lease - lag
                                  ELSE IF i \in X THEN 0 ELSE left[i]]
       /\ rjob' = [r \in Resources |-> IF r = KeyOf[j] THEN j
                                       ELSE IF rjob[r] \in X THEN NoJob ELSE rjob[r]]
       /\ rworker' = [r \in Resources |-> IF r = KeyOf[j] THEN w
                                          ELSE IF rjob[r] \in X THEN NoWorker ELSE rworker[r]]
       /\ rleft' = [r \in Resources |-> IF r = KeyOf[j] THEN Lease - lag
                                        ELSE IF rjob[r] \in X THEN 0 ELSE rleft[r]]

\* No job is left to claim: the exhausted ones met on the way are failed.
ClaimNothing(w, S, lag) ==
    /\ Claimable(w, S, lag) = {}
    /\ Settle(Exhausted(w, S, lag), [j \in Jobs |-> "failed"])
    /\ DropRows(RowsOf(Exhausted(w, S, lag)))

\* A worker claims over its handler types, or one selected job.
Selections(w) == {CanRun[w]} \cup {{j} : j \in CanRun[w]}

-----------------------------------------------------------------------------
(* The lease holder's methods.                                             *)

\* Mutant: the resource row is not renewed with the job.
HeartbeatJobOnly(w, j, lag) ==
    /\ Owned(j, w, lag)
    /\ left' = [left EXCEPT ![j] = Lease - lag]
    /\ UNCHANGED <<status, attempt, owner, leases>>

\* heartbeat / renew_lease: the job's lease and the resource rows it still holds.
Heartbeat(w, j, lag) ==
    /\ Owned(j, w, lag)
    /\ left' = [left EXCEPT ![j] = Lease - lag]
    /\ rleft' = [r \in Resources |-> IF r \in HeldBy(j, w) /\ rleft[r] > -lag
                                     THEN Lease - lag ELSE rleft[r]]
    /\ UNCHANGED <<status, attempt, owner, rjob, rworker>>

Complete(w, j, lag) ==
    /\ Owned(j, w, lag)
    /\ Settle({j}, [i \in Jobs |-> "completed"])
    /\ DropRows(HeldBy(j, w))

\* fail: back to pending while attempts remain.
FailureStatus(w, j) == IF attempt[j] < MaxAttempts[w] THEN "pending" ELSE "failed"

Fail(w, j, lag) ==
    /\ Owned(j, w, lag)
    /\ Settle({j}, [i \in Jobs |-> FailureStatus(w, i)])
    /\ DropRows(HeldBy(j, w))

FailTerminal(w, j, lag) ==
    /\ Owned(j, w, lag)
    /\ Settle({j}, [i \in Jobs |-> "failed"])
    /\ DropRows(HeldBy(j, w))

-----------------------------------------------------------------------------
(* recover_expired, at a worker's start.                                   *)

Recoverable(w, lag) ==
    {j \in Jobs : \/ status[j] = "running" /\ left[j] <= -lag
                  \/ status[j] = "pending" /\ attempt[j] >= MaxAttempts[w]}

\* Mutant: an attempt that lost its lease is not counted.
RecoverExpiredRefunds(w, lag) ==
    LET S == Recoverable(w, lag) IN
    /\ status' = [j \in Jobs |-> IF j \in S THEN "pending" ELSE status[j]]
    /\ attempt' = [j \in Jobs |-> IF j \in S THEN attempt[j] - 1 ELSE attempt[j]]
    /\ owner' = [j \in Jobs |-> IF j \in S THEN NoWorker ELSE owner[j]]
    /\ left' = [j \in Jobs |-> IF j \in S THEN 0 ELSE left[j]]
    /\ DropRows(RowsOf(S))

RecoverExpired(w, lag) ==
    /\ Settle(Recoverable(w, lag), [j \in Jobs |-> FailureStatus(w, j)])
    /\ DropRows(RowsOf(Recoverable(w, lag)))

-----------------------------------------------------------------------------
(* JobRepository.update, as its callers use it.  It clears the lease columns *)
(* and leaves local_resource_leases alone.                                   *)

\* ProductionRunService.cancel (pending jobs only) and
\* EvaluationTalkingService.cancel (its own jobs, running ones too).
Cancel(j) ==
    /\ \/ status[j] = "pending"
       \/ status[j] = "running" /\ j \in Stoppable
    /\ Settle({j}, [i \in Jobs |-> "cancelled"])
    /\ UNCHANGED leases

\* EvaluationCompositionService.reconcile: a verified saved result completes
\* a job that ended as failed.
Reconcile(j) ==
    /\ j \in Reconcilable
    /\ status[j] = "failed"
    /\ Settle({j}, [i \in Jobs |-> "completed"])
    /\ UNCHANGED leases

-----------------------------------------------------------------------------
\* One tick of the clock.  A lease more than MaxLag past its expiry is
\* expired for every writer, so left stops there.
Older(n) == IF n > -MaxLag THEN n - 1 ELSE n

Tick ==
    /\ left' = [j \in Jobs |-> IF status[j] = "running" THEN Older(left[j]) ELSE left[j]]
    /\ rleft' = [r \in Resources |-> IF rjob[r] # NoJob THEN Older(rleft[r]) ELSE rleft[r]]
    /\ UNCHANGED <<status, attempt, owner, rjob, rworker>>

WorkerStep(w) ==
    \E lag \in Lags :
       \/ \E S \in Selections(w) : \/ \E j \in Jobs : ClaimJob(w, S, j, lag)
                                   \/ ClaimNothing(w, S, lag)
       \/ \E j \in Jobs : \/ Heartbeat(w, j, lag)
                          \/ Complete(w, j, lag)
                          \/ Fail(w, j, lag)
                          \/ FailTerminal(w, j, lag)
       \/ RecoverExpired(w, lag)

Next ==
    \/ \E B \in Batches : Enqueue(B)
    \/ \E w \in Workers : WorkerStep(w)
    \/ \E j \in Jobs : Cancel(j) \/ Reconcile(j)
    \/ Tick

Spec == Init /\ [][Next]_vars
=============================================================================
