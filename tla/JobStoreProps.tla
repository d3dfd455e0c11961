--------------------------- MODULE JobStoreProps ---------------------------
(***************************************************************************)
(* What makes JobStore correct: its safety properties, and the abstract    *)
(* queue it implements.                                                    *)
(***************************************************************************)
EXTENDS JobStore

Live(j) == status[j] = "running" /\ left[j] > 0

-----------------------------------------------------------------------------
\* A job has a lease owner exactly while it runs, and everything that ran was
\* claimed (claim and the release in complete, fail, recover_expired, update).
LeaseColumns ==
    \A j \in Jobs :
       /\ (status[j] = "running") <=> (owner[j] # NoWorker)
       /\ status[j] # "running" => left[j] = 0
       /\ status[j] \in {"absent"} => attempt[j] = 0
       /\ status[j] \in {"running", "completed", "failed"} => attempt[j] > 0

\* No resource is locked by a job that has ended or gone back to the queue:
\* each path out of running releases the row (_release_resources_for_job,
\* recover_expired, _fail_exhausted), except the cancelling of a running
\* job, whose row stays until its lease runs out.
NoLeakedResource ==
    \A r \in Resources :
       /\ (rjob[r] = NoJob) <=> (rworker[r] = NoWorker)
       /\ rjob[r] # NoJob =>
             /\ KeyOf[rjob[r]] = r
             /\ \/ /\ status[rjob[r]] = "running"
                   /\ rworker[r] = owner[rjob[r]]
                   /\ rleft[r] = left[rjob[r]]
                \/ status[rjob[r]] = "cancelled"

\* A job with an unexpired lease and without the lock of its resource.
HasLock(j) == KeyOf[j] = NoResource \/ rjob[KeyOf[j]] = j
Unlocked(j) == Live(j) /\ ~HasLock(j)

\* A lease that had run out is renewed: the heartbeat read its time before the
\* end of the lease and got the write lock after it.
RenewedLate(j) ==
    /\ status[j] = "running" /\ left[j] <= 0
    /\ status'[j] = "running" /\ left'[j] > 0
    /\ owner'[j] = owner[j] /\ attempt'[j] = attempt[j]

\* Two jobs with unexpired leases share a resource.
Sharing == \E i, j \in Jobs : i # j /\ Live(i) /\ Live(j) /\ KeyOf[i] # NoResource /\ KeyOf[i] = KeyOf[j]

\* A lock never outlives the work it was taken for, and no claim, report,
\* recovery or tick takes it from an unexpired lease, however long a writer
\* waited for the database.  Only a job that renews its own lease too late works
\* on without its lock, which another may have by then: "same-machine jobs do not
\* silently compete" (EXECUTION_COMPUTE.md) holds but for that.
ResourceLocks ==
    []NoLeakedResource /\ [][\A j \in Jobs : Unlocked(j)' => Unlocked(j) \/ RenewedLate(j)]_vars

\* No worker runs a job past its own attempt limit, and no job is tried more
\* often than the most generous worker allows, whatever mixture of claims,
\* lapses, failures and recoveries by differently configured workers occurs.
AttemptBudget ==
    \A j \in Jobs :
       /\ status[j] = "running" => attempt[j] <= MaxAttempts[owner[j]]
       /\ attempt[j] > 0 => \E w \in Workers : attempt[j] <= MaxAttempts[w]

\* A slice is first claimed after every earlier slice of its series completed
\* (the NOT EXISTS clause of claim, with the atomic insert of a series).
SeriesInOrder ==
    \A j \in Jobs : \A i \in Preceding(j) :
       /\ status[j] # "absent" => status[i] # "absent"
       /\ attempt[j] > 0 => status[i] = "completed"

-----------------------------------------------------------------------------
\* What has ended stays ended: completed and cancelled for good, failed but
\* for the adoption of a saved composition result.  A late heartbeat, report,
\* recovery or cancel of an earlier owner changes none of it.
EndedStays ==
    [][\A j \in Jobs :
          /\ status[j] \in {"completed", "cancelled"} => status'[j] = status[j]
          /\ status[j] = "failed" =>
                \/ status'[j] = "failed"
                \/ status'[j] = "completed" /\ j \in Reconcilable]_vars

-----------------------------------------------------------------------------
\* The queue's promise, with the lease live while it is unexpired.
Q == INSTANCE JobLifecycle WITH
        phase <- status, tries <- attempt, holder <- owner,
        live <- [j \in Jobs |-> Live(j)]

\* JobStore implements the abstract queue.
Lifecycle == Q!Spec
=============================================================================
