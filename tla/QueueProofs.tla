----------------------------- MODULE QueueProofs -----------------------------
(***************************************************************************)
(* Proofs about the queue, for every set of jobs, workers, resources and   *)
(* every lag, and about the processes that work on it, for any faults: the *)
(* locks hold, the queue implements JobLifecycle, a completion is earned,  *)
(* an attempt runs once, handlers overlap only where a heartbeat was lost, *)
(* and a human decision on a voice take stands on a verified take.         *)
(***************************************************************************)
EXTENDS VoiceTake, JobRunnerProps, JobStoreProps, TLAPS

-----------------------------------------------------------------------------
(* Lemmas about the helpers.                                               *)

\* A new lease is within the range of leases.
LEMMA NewLease == \A lag \in Lags : Lease - lag \in Left
  BY JobStoreAssumption DEF Lags, Left

LEMMA OlderLease == \A n \in Left : Older(n) \in Left
  BY JobStoreAssumption DEF Older, Left

LEMMA FailureStatusType ==
  ASSUME NEW w \in Workers, NEW j \in Jobs
  PROVE  FailureStatus(w, j) \in Status
  BY DEF FailureStatus, Status, Terminal

\* Ending a set of jobs keeps the types of their columns.
LEMMA SettleType ==
  ASSUME TypeOK, NEW S, NEW given,
         \A j \in Jobs : given[j] \in Status,
         Settle(S, given)
  PROVE  /\ status' \in [Jobs -> Status]
         /\ attempt' \in [Jobs -> Nat]
         /\ owner' \in [Jobs -> Workers \cup {NoWorker}]
         /\ left' \in [Jobs -> Left]
  BY JobStoreAssumption DEF TypeOK, Settle, Left

LEMMA DropRowsType ==
  ASSUME TypeOK, NEW D, DropRows(D)
  PROVE  /\ rjob' \in [Resources -> Jobs \cup {NoJob}]
         /\ rworker' \in [Resources -> Workers \cup {NoWorker}]
         /\ rleft' \in [Resources -> Left]
  BY JobStoreAssumption DEF TypeOK, DropRows, Left

-----------------------------------------------------------------------------
\* Every column keeps its type.
LEMMA TypeStep == TypeOK /\ [Next]_vars => TypeOK'
<1> SUFFICES ASSUME TypeOK, [Next]_vars PROVE TypeOK'
  OBVIOUS
<1>1. ASSUME NEW B \in Batches, Enqueue(B) PROVE TypeOK'
  BY <1>1 DEF TypeOK, Enqueue, leases, Status, Terminal
<1>2. ASSUME NEW w \in Workers, NEW lag \in Lags, NEW S \in Selections(w), NEW j \in Jobs,
             ClaimJob(w, S, j, lag)
      PROVE TypeOK'
  <2>1. Lease - lag \in Left /\ 0 \in Left
    BY NewLease, JobStoreAssumption DEF Left
  <2>2. status' \in [Jobs -> Status] /\ attempt' \in [Jobs -> Nat]
    BY <1>2 DEF TypeOK, ClaimJob, Status, Terminal
  <2>3. owner' \in [Jobs -> Workers \cup {NoWorker}] /\ left' \in [Jobs -> Left]
    BY <1>2, <2>1 DEF TypeOK, ClaimJob
  <2>4. /\ rjob' \in [Resources -> Jobs \cup {NoJob}]
        /\ rworker' \in [Resources -> Workers \cup {NoWorker}]
        /\ rleft' \in [Resources -> Left]
    BY <1>2, <2>1 DEF TypeOK, ClaimJob
  <2> QED
    BY <2>2, <2>3, <2>4 DEF TypeOK
<1>3. ASSUME NEW w \in Workers, NEW lag \in Lags, NEW S \in Selections(w),
             ClaimNothing(w, S, lag)
      PROVE TypeOK'
  <2>1. \A j \in Jobs : [k \in Jobs |-> "failed"][j] \in Status
    BY DEF Status, Terminal
  <2> QED
    BY <1>3, <2>1, SettleType, DropRowsType DEF ClaimNothing, TypeOK
<1>4. ASSUME NEW w \in Workers, NEW lag \in Lags, NEW j \in Jobs, Heartbeat(w, j, lag)
      PROVE TypeOK'
  BY <1>4, NewLease DEF TypeOK, Heartbeat
<1>5. ASSUME NEW w \in Workers, NEW lag \in Lags, NEW j \in Jobs, Complete(w, j, lag)
      PROVE TypeOK'
  <2>1. \A i \in Jobs : [k \in Jobs |-> "completed"][i] \in Status
    BY DEF Status, Terminal
  <2> QED
    BY <1>5, <2>1, SettleType, DropRowsType DEF Complete, TypeOK
<1>6. ASSUME NEW w \in Workers, NEW lag \in Lags, NEW j \in Jobs, Fail(w, j, lag)
      PROVE TypeOK'
  <2>1. \A i \in Jobs : [k \in Jobs |-> FailureStatus(w, k)][i] \in Status
    BY FailureStatusType
  <2> QED
    BY <1>6, <2>1, SettleType, DropRowsType DEF Fail, TypeOK
<1>7. ASSUME NEW w \in Workers, NEW lag \in Lags, NEW j \in Jobs, FailTerminal(w, j, lag)
      PROVE TypeOK'
  <2>1. \A i \in Jobs : [k \in Jobs |-> "failed"][i] \in Status
    BY DEF Status, Terminal
  <2> QED
    BY <1>7, <2>1, SettleType, DropRowsType DEF FailTerminal, TypeOK
<1>8. ASSUME NEW w \in Workers, NEW lag \in Lags, RecoverExpired(w, lag)
      PROVE TypeOK'
  <2>1. \A i \in Jobs : [k \in Jobs |-> FailureStatus(w, k)][i] \in Status
    BY FailureStatusType
  <2> QED
    BY <1>8, <2>1, SettleType, DropRowsType DEF RecoverExpired, TypeOK
<1>9. ASSUME NEW j \in Jobs, Cancel(j) PROVE TypeOK'
  <2>1. \A i \in Jobs : [k \in Jobs |-> "cancelled"][i] \in Status
    BY DEF Status, Terminal
  <2> QED
    BY <1>9, <2>1, SettleType DEF Cancel, TypeOK, leases
<1>10. ASSUME NEW j \in Jobs, Reconcile(j) PROVE TypeOK'
  <2>1. \A i \in Jobs : [k \in Jobs |-> "completed"][i] \in Status
    BY DEF Status, Terminal
  <2> QED
    BY <1>10, <2>1, SettleType DEF Reconcile, TypeOK, leases
<1>11. ASSUME Tick PROVE TypeOK'
  BY <1>11, OlderLease DEF TypeOK, Tick
<1>12. ASSUME UNCHANGED vars PROVE TypeOK'
  BY <1>12 DEF TypeOK, vars
<1> QED
  BY <1>1, <1>2, <1>3, <1>4, <1>5, <1>6, <1>7, <1>8, <1>9, <1>10, <1>11, <1>12
  DEF Next, WorkerStep

\* The columns of jobs and local_resource_leases always hold values of their
\* types: statuses of the enumeration, leases within one lease duration.
THEOREM TypeCorrect == Spec => []TypeOK
<1>1. Init => TypeOK
  BY JobStoreAssumption DEF Init, TypeOK, Status, Left
<1> QED
  BY <1>1, TypeStep, PTL DEF Spec

-----------------------------------------------------------------------------
(* The inductive invariant: no lag is excluded.                            *)

Inv == LeaseColumns /\ NoLeakedResource /\ AttemptBudget /\ SeriesInOrder

\* What a transition out of the queue or out of running must respect.
Legal(S, given) ==
    /\ S \subseteq Jobs
    /\ \A j \in S :
          /\ status[j] \notin {"absent", "completed"}
          /\ given[j] \in {"pending", "completed", "failed", "cancelled"}
          /\ given[j] \in {"completed", "failed"} => attempt[j] > 0

\* Ending legal jobs keeps the job columns, the budgets and the series order.
LEMMA SettleColumns ==
  ASSUME TypeOK, Inv, NEW S, NEW given, Legal(S, given), Settle(S, given)
  PROVE  LeaseColumns' /\ AttemptBudget' /\ SeriesInOrder'
<1>1. LeaseColumns'
  BY DEF TypeOK, Inv, LeaseColumns, Legal, Settle
<1>2. AttemptBudget'
  BY DEF TypeOK, Inv, AttemptBudget, Legal, Settle
<1>3. SeriesInOrder'
  <2> SUFFICES ASSUME NEW j \in Jobs, NEW i \in Preceding(j)
               PROVE  /\ status'[j] # "absent" => status'[i] # "absent"
                      /\ attempt'[j] > 0 => status'[i] = "completed"
    BY DEF SeriesInOrder, Preceding
  <2>1. i \in Jobs
    BY DEF Preceding
  <2>2. status[j] # "absent" => status[i] # "absent"
    BY DEF Inv, SeriesInOrder
  <2>3. attempt[j] > 0 => status[i] = "completed"
    BY DEF Inv, SeriesInOrder
  <2> QED
    BY <2>1, <2>2, <2>3 DEF Legal, Settle
<1> QED
  BY <1>1, <1>2, <1>3

\* Ending jobs together with all their resource rows leaks none.
LEMMA SettleRows ==
  ASSUME TypeOK, Inv, NEW S, NEW given, Legal(S, given), Settle(S, given),
         NEW D, D = RowsOf(S), DropRows(D)
  PROVE  NoLeakedResource'
  BY JobStoreAssumption
  DEF TypeOK, Inv, NoLeakedResource, Legal, Settle, DropRows, RowsOf

\* The rows a running job's owner deletes are all the rows of that job.
LEMMA OwnerHoldsRows ==
  ASSUME TypeOK, Inv, NEW w \in Workers, NEW j \in Jobs, NEW lag \in Lags, Owned(j, w, lag)
  PROVE  HeldBy(j, w) = RowsOf({j})
  BY JobStoreAssumption DEF Inv, NoLeakedResource, Owned, HeldBy, RowsOf

LEMMA ReleaseKeepsInv ==
  ASSUME TypeOK, Inv, NEW S, NEW given, Legal(S, given), Settle(S, given),
         DropRows(RowsOf(S))
  PROVE  Inv'
  BY SettleColumns, SettleRows DEF Inv

\* A claim: every job it fails was exhausted, and the claimed one takes its row.
LEMMA ClaimKeepsInv ==
  ASSUME TypeOK, Inv, NEW w \in Workers, NEW lag \in Lags, NEW S \in Selections(w),
         NEW j \in Jobs, ClaimJob(w, S, j, lag)
  PROVE  Inv'
<1> DEFINE X == {i \in Exhausted(w, S, lag) : Before(i, j)}
<1>1. S \subseteq Jobs
  BY JobStoreAssumption DEF Selections
<1>2. /\ Eligible(j, lag)
      /\ attempt[j] < MaxAttempts[w]
      /\ CanLock(w, S, j, lag)
  BY DEF ClaimJob, Claimable
<1>3. X \subseteq Jobs /\ j \notin X
  <2>1. X \subseteq Jobs
    BY <1>1 DEF Exhausted
  <2>2. attempt[j] \in Nat /\ MaxAttempts[w] \in Nat
    BY JobStoreAssumption DEF TypeOK
  <2>3. j \in X => attempt[j] >= MaxAttempts[w]
    BY DEF Exhausted
  <2> QED
    BY <2>1, <2>2, <2>3, <1>2
<1>4. \A i \in X : status[i] \in {"pending", "running"} /\ attempt[i] > 0
  BY <1>1, JobStoreAssumption DEF Exhausted, Eligible, TypeOK
<1>5. LeaseColumns'
  BY <1>3, <1>4, JobStoreAssumption DEF ClaimJob, TypeOK, Inv, LeaseColumns
<1>6. AttemptBudget'
  BY <1>3, <1>2, JobStoreAssumption DEF ClaimJob, TypeOK, Inv, AttemptBudget, LeaseColumns
<1>7. SeriesInOrder'
  <2> SUFFICES ASSUME NEW k \in Jobs, NEW i \in Preceding(k)
               PROVE  /\ status'[k] # "absent" => status'[i] # "absent"
                      /\ attempt'[k] > 0 => status'[i] = "completed"
    BY DEF SeriesInOrder, Preceding
  <2>1. i \in Jobs
    BY DEF Preceding
  <2>2. /\ status[k] # "absent" => status[i] # "absent"
        /\ attempt[k] > 0 => status[i] = "completed"
    BY DEF Inv, SeriesInOrder
  <2>3. status[j] \in {"pending", "running"}
    BY <1>2 DEF Eligible
  <2>4. k = j => status[i] = "completed"
    BY <1>2, <2>2, <2>3 DEF Eligible
  <2>5. status[i] = "completed" => status'[i] = "completed"
    BY <1>4, <2>1, <2>3 DEF ClaimJob, TypeOK
  <2>6. status[i] # "absent" => status'[i] # "absent"
    BY <2>1 DEF ClaimJob, TypeOK
  <2>7. attempt'[k] > 0 => attempt[k] > 0 \/ k = j
    BY DEF ClaimJob, TypeOK
  <2>8. status'[k] # "absent" => status[k] # "absent"
    BY <1>4, <2>3 DEF ClaimJob, TypeOK
  <2> QED
    BY <2>2, <2>4, <2>5, <2>6, <2>7, <2>8
<1>8. NoLeakedResource'
  <2> SUFFICES ASSUME NEW r \in Resources
               PROVE  /\ (rjob'[r] = NoJob) <=> (rworker'[r] = NoWorker)
                      /\ rjob'[r] # NoJob =>
                            /\ KeyOf[rjob'[r]] = r
                            /\ \/ /\ status'[rjob'[r]] = "running"
                                  /\ rworker'[r] = owner'[rjob'[r]]
                                  /\ rleft'[r] = left'[rjob'[r]]
                               \/ status'[rjob'[r]] = "cancelled"
    BY DEF NoLeakedResource
  <2>1. CASE r = KeyOf[j]
    BY <2>1, JobStoreAssumption DEF ClaimJob, TypeOK
  <2>2. CASE r # KeyOf[j] /\ rjob[r] \in X
    BY <2>2, <1>3, JobStoreAssumption DEF ClaimJob, TypeOK
  <2>3. CASE r # KeyOf[j] /\ rjob[r] \notin X
    <3>1. rjob'[r] = rjob[r] /\ rworker'[r] = rworker[r] /\ rleft'[r] = rleft[r]
      BY <2>3 DEF ClaimJob
    <3>2. /\ (rjob[r] = NoJob) <=> (rworker[r] = NoWorker)
          /\ rjob[r] # NoJob =>
                /\ KeyOf[rjob[r]] = r
                /\ \/ /\ status[rjob[r]] = "running"
                      /\ rworker[r] = owner[rjob[r]]
                      /\ rleft[r] = left[rjob[r]]
                   \/ status[rjob[r]] = "cancelled"
      BY DEF Inv, NoLeakedResource
    <3>3. rjob[r] # NoJob => rjob[r] \in Jobs /\ rjob[r] # j
      BY <2>3, <3>2 DEF TypeOK
    <3>4. rjob[r] # NoJob => /\ status'[rjob[r]] = status[rjob[r]]
                             /\ owner'[rjob[r]] = owner[rjob[r]]
                             /\ left'[rjob[r]] = left[rjob[r]]
      BY <2>3, <3>3 DEF ClaimJob
    <3> QED
      BY <3>1, <3>2, <3>4
  <2> QED
    BY <2>1, <2>2, <2>3
<1> QED
  BY <1>5, <1>6, <1>7, <1>8 DEF Inv

LEMMA InvStep == TypeOK /\ Inv /\ [Next]_vars => Inv'
<1> SUFFICES ASSUME TypeOK, Inv, [Next]_vars PROVE Inv'
  OBVIOUS
<1>1. ASSUME NEW B \in Batches, Enqueue(B) PROVE Inv'
  <2>1. LeaseColumns' /\ AttemptBudget'
    BY <1>1 DEF Enqueue, TypeOK, Inv, LeaseColumns, AttemptBudget
  <2>3. NoLeakedResource'
    <3>1. \A j \in Jobs : status[j] # "absent" => status'[j] = status[j]
      BY <1>1 DEF Enqueue
    <3>2. UNCHANGED <<owner, left, rjob, rworker, rleft>>
      BY <1>1 DEF Enqueue, leases
    <3>3. \A r \in Resources : rjob[r] # NoJob => rjob[r] \in Jobs
      BY DEF TypeOK
    <3> QED
      BY <3>1, <3>2, <3>3 DEF Inv, NoLeakedResource
  <2>2. SeriesInOrder'
    <3> SUFFICES ASSUME NEW j \in Jobs, NEW i \in Preceding(j)
                 PROVE  /\ status'[j] # "absent" => status'[i] # "absent"
                        /\ attempt'[j] > 0 => status'[i] = "completed"
      BY DEF SeriesInOrder, Preceding
    <3>1. i \in Jobs /\ SeriesOf[i] = SeriesOf[j] /\ SeriesOf[j] # NoSeries
      BY DEF Preceding
    <3>2. j \in B => i \in B
      BY <3>1 DEF Batches
    <3>3. /\ status[j] # "absent" => status[i] # "absent"
          /\ attempt[j] > 0 => status[i] = "completed"
      BY DEF Inv, SeriesInOrder
    <3> QED
      BY <1>1, <3>1, <3>2, <3>3 DEF Enqueue
  <2> QED
    BY <2>1, <2>2, <2>3 DEF Inv
<1>2. ASSUME NEW w \in Workers, NEW lag \in Lags, NEW S \in Selections(w), NEW j \in Jobs,
             ClaimJob(w, S, j, lag)
      PROVE Inv'
  BY <1>2, ClaimKeepsInv
<1>3. ASSUME NEW w \in Workers, NEW lag \in Lags, NEW S \in Selections(w),
             ClaimNothing(w, S, lag)
      PROVE Inv'
  <2>1. S \subseteq Jobs
    BY JobStoreAssumption DEF Selections
  <2>2. \A k \in Exhausted(w, S, lag) :
           k \in Jobs /\ status[k] \in {"pending", "running"} /\ attempt[k] > 0
    BY <2>1, JobStoreAssumption DEF Exhausted, Eligible, TypeOK
  <2>3. Legal(Exhausted(w, S, lag), [k \in Jobs |-> "failed"])
    BY <2>2 DEF Legal
  <2> QED
    BY <1>3, <2>3, ReleaseKeepsInv DEF ClaimNothing
<1>4. ASSUME NEW w \in Workers, NEW lag \in Lags, NEW j \in Jobs, Heartbeat(w, j, lag)
      PROVE Inv'
  <2>1. status[j] = "running" /\ owner[j] = w /\ left[j] > -lag
    BY <1>4 DEF Heartbeat, Owned
  <2>2. LeaseColumns' /\ AttemptBudget' /\ SeriesInOrder'
    BY <1>4, <2>1
    DEF Heartbeat, TypeOK, Inv, LeaseColumns, AttemptBudget, SeriesInOrder, Preceding
  <2>3. NoLeakedResource'
    BY <1>4, <2>1, JobStoreAssumption DEF Heartbeat, HeldBy, TypeOK, Inv, NoLeakedResource
  <2> QED
    BY <2>2, <2>3 DEF Inv
<1>5. ASSUME NEW w \in Workers, NEW lag \in Lags, NEW j \in Jobs, Complete(w, j, lag)
      PROVE Inv'
  <2>1. Legal({j}, [k \in Jobs |-> "completed"])
    BY <1>5 DEF Complete, Owned, Legal, Inv, LeaseColumns
  <2> QED
    BY <1>5, <2>1, OwnerHoldsRows, ReleaseKeepsInv DEF Complete
<1>6. ASSUME NEW w \in Workers, NEW lag \in Lags, NEW j \in Jobs, Fail(w, j, lag)
      PROVE Inv'
  <2>1. Legal({j}, [k \in Jobs |-> FailureStatus(w, k)])
    BY <1>6 DEF Fail, Owned, Legal, Inv, LeaseColumns, FailureStatus
  <2> QED
    BY <1>6, <2>1, OwnerHoldsRows, ReleaseKeepsInv DEF Fail
<1>7. ASSUME NEW w \in Workers, NEW lag \in Lags, NEW j \in Jobs, FailTerminal(w, j, lag)
      PROVE Inv'
  <2>1. Legal({j}, [k \in Jobs |-> "failed"])
    BY <1>7 DEF FailTerminal, Owned, Legal, Inv, LeaseColumns
  <2> QED
    BY <1>7, <2>1, OwnerHoldsRows, ReleaseKeepsInv DEF FailTerminal
<1>8. ASSUME NEW w \in Workers, NEW lag \in Lags, RecoverExpired(w, lag)
      PROVE Inv'
  <2>1. Legal(Recoverable(w, lag), [k \in Jobs |-> FailureStatus(w, k)])
    BY JobStoreAssumption DEF Recoverable, Legal, FailureStatus, TypeOK, Inv, LeaseColumns
  <2> QED
    BY <1>8, <2>1, ReleaseKeepsInv DEF RecoverExpired
<1>9. ASSUME NEW j \in Jobs, Cancel(j) PROVE Inv'
  <2>1. Legal({j}, [k \in Jobs |-> "cancelled"])
    BY <1>9 DEF Cancel, Legal
  <2>2. NoLeakedResource'
    BY <1>9, JobStoreAssumption DEF Cancel, Settle, leases, TypeOK, Inv, NoLeakedResource
  <2> QED
    BY <1>9, <2>1, <2>2, SettleColumns DEF Cancel, Inv
<1>10. ASSUME NEW j \in Jobs, Reconcile(j) PROVE Inv'
  <2>1. Legal({j}, [k \in Jobs |-> "completed"])
    BY <1>10 DEF Reconcile, Legal, Inv, LeaseColumns
  <2>2. NoLeakedResource'
    BY <1>10, JobStoreAssumption DEF Reconcile, Settle, leases, TypeOK, Inv, NoLeakedResource
  <2> QED
    BY <1>10, <2>1, <2>2, SettleColumns DEF Reconcile, Inv
<1>11. ASSUME Tick PROVE Inv'
  <2>1. LeaseColumns' /\ AttemptBudget' /\ SeriesInOrder'
    BY <1>11 DEF Tick, TypeOK, Inv, LeaseColumns, AttemptBudget, SeriesInOrder, Preceding
  <2>2. NoLeakedResource'
    BY <1>11, JobStoreAssumption DEF Tick, TypeOK, Inv, NoLeakedResource
  <2> QED
    BY <2>1, <2>2 DEF Inv
<1>12. ASSUME UNCHANGED vars PROVE Inv'
  BY <1>12
  DEF vars, Inv, LeaseColumns, NoLeakedResource, AttemptBudget, SeriesInOrder, Preceding
<1> QED
  BY <1>1, <1>2, <1>3, <1>4, <1>5, <1>6, <1>7, <1>8, <1>9, <1>10, <1>11, <1>12
  DEF Next, WorkerStep

LEMMA InitInv == Init => TypeOK /\ Inv
  BY JobStoreAssumption
  DEF Init, TypeOK, Status, Left, Inv, LeaseColumns, NoLeakedResource, AttemptBudget,
      SeriesInOrder, Preceding

LEMMA AlwaysInv == Spec => [](TypeOK /\ Inv)
  BY InitInv, TypeStep, InvStep, PTL DEF Spec

\* Whatever the lag: only running jobs have leases, no resource is locked for a
\* job that has left running other than by cancellation.
THEOREM NoLeak == Spec => []NoLeakedResource
<1>1. Inv => NoLeakedResource
  BY DEF Inv
<1> QED
  BY <1>1, AlwaysInv, PTL

\* No job runs past its worker's attempt limit.
THEOREM BoundedAttempts == Spec => []AttemptBudget
<1>1. Inv => AttemptBudget
  BY DEF Inv
<1> QED
  BY <1>1, AlwaysInv, PTL

\* Slices of a series run in order.
THEOREM SlicesInOrder == Spec => []SeriesInOrder
<1>1. Inv => SeriesInOrder
  BY DEF Inv
<1> QED
  BY <1>1, AlwaysInv, PTL

-----------------------------------------------------------------------------
(* Resource locks.  No assumption on the lag: a writer that takes a row     *)
(* sees its lease run out at its own, earlier time, so it is really out.    *)

LEMMA LockStep ==
  ASSUME TypeOK, Inv, [Next]_vars, NEW k \in Jobs, Unlocked(k)'
  PROVE  Unlocked(k) \/ RenewedLate(k)
<1> USE JobStoreAssumption
<1> SUFFICES ASSUME ~Unlocked(k) PROVE RenewedLate(k)
  OBVIOUS
<1>k. /\ KeyOf[k] \in Resources /\ KeyOf[k] # NoResource
      /\ rjob'[KeyOf[k]] # k /\ status'[k] = "running" /\ left'[k] > 0
  BY DEF Unlocked, HasLock, Live
<1>t. left[k] \in Int /\ rleft[KeyOf[k]] \in Int
  BY <1>k DEF TypeOK, Left
<1>l. ASSUME status[k] = "running", left[k] > 0
      PROVE  rjob[KeyOf[k]] = k /\ rleft[KeyOf[k]] = left[k]
  <2>1. rjob[KeyOf[k]] = k
    BY <1>l DEF Unlocked, HasLock, Live
  <2> QED
    BY <1>l, <1>k, <2>1 DEF Inv, NoLeakedResource
<1>1. ASSUME NEW B \in Batches, Enqueue(B) PROVE FALSE
  <2>1. status[k] = "running" /\ left[k] > 0 /\ rjob' = rjob
    BY <1>1, <1>k DEF Enqueue, leases, TypeOK
  <2> QED
    BY <1>l, <1>k, <2>1
<1>2. ASSUME NEW w \in Workers, NEW S \in Selections(w), NEW j \in Jobs,
             NEW lag \in Lags, ClaimJob(w, S, j, lag)
      PROVE FALSE
  <2> DEFINE X == {i \in Exhausted(w, S, lag) : Before(i, j)}
  <2>0. lag \in Nat
    BY DEF Lags
  <2>1. k # j
    BY <1>2, <1>k DEF ClaimJob
  <2>2. k \notin X /\ status[k] = "running" /\ left[k] > 0
    BY <1>2, <1>k, <2>1 DEF ClaimJob, TypeOK
  <2>3. rjob[KeyOf[k]] = k /\ rleft[KeyOf[k]] > 0
    BY <1>l, <2>2
  <2>4. CanLock(w, S, j, lag)
    BY <1>2 DEF ClaimJob, Claimable
  <2>5. KeyOf[k] # KeyOf[j]
    BY <1>k, <1>t, <2>0, <2>1, <2>2, <2>3, <2>4 DEF CanLock
  <2> QED
    BY <1>2, <1>k, <2>2, <2>3, <2>5 DEF ClaimJob
\* Ending jobs with their rows: a live job that stays keeps its row.
<1>3. ASSUME NEW S \in SUBSET Jobs, NEW given, Settle(S, given),
             \A i \in S : given[i] # "running",
             DropRows(RowsOf(S)) \/ UNCHANGED leases
      PROVE FALSE
  <2>1. k \notin S /\ status[k] = "running" /\ left[k] > 0
    BY <1>3, <1>k DEF Settle
  <2>2. rjob[KeyOf[k]] = k
    BY <1>l, <2>1
  <2> QED
    BY <1>3, <1>k, <2>1, <2>2 DEF DropRows, RowsOf, leases
<1>4. ASSUME NEW w \in Workers, NEW j \in Jobs, NEW lag \in Lags, Heartbeat(w, j, lag)
      PROVE RenewedLate(k)
  <2>1. rjob' = rjob /\ status' = status /\ owner' = owner /\ attempt' = attempt
    BY <1>4 DEF Heartbeat
  <2>2. ~(left[k] > 0)
    BY <1>l, <1>k, <2>1
  <2> QED
    BY <1>k, <1>t, <2>1, <2>2 DEF RenewedLate
<1>5. ASSUME NEW w \in Workers, NEW S \in Selections(w), NEW lag \in Lags,
             ClaimNothing(w, S, lag)
      PROVE FALSE
  <2>1. Exhausted(w, S, lag) \in SUBSET Jobs
    BY DEF Selections, Exhausted
  <2> QED
    BY <1>3, <1>5, <2>1 DEF ClaimNothing
<1>6. ASSUME NEW w \in Workers, NEW j \in Jobs, NEW lag \in Lags, Complete(w, j, lag)
      PROVE FALSE
  <2>1. HeldBy(j, w) = RowsOf({j})
    BY <1>6, OwnerHoldsRows DEF Complete
  <2> QED
    BY <1>3, <1>6, <2>1 DEF Complete
<1>7. ASSUME NEW w \in Workers, NEW j \in Jobs, NEW lag \in Lags, Fail(w, j, lag)
      PROVE FALSE
  <2>1. HeldBy(j, w) = RowsOf({j})
    BY <1>7, OwnerHoldsRows DEF Fail
  <2>2. \A i \in {j} : [n \in Jobs |-> FailureStatus(w, n)][i] # "running"
    BY DEF FailureStatus
  <2> QED
    BY <1>3, <1>7, <2>1, <2>2 DEF Fail
<1>8. ASSUME NEW w \in Workers, NEW j \in Jobs, NEW lag \in Lags, FailTerminal(w, j, lag)
      PROVE FALSE
  <2>1. HeldBy(j, w) = RowsOf({j})
    BY <1>8, OwnerHoldsRows DEF FailTerminal
  <2> QED
    BY <1>3, <1>8, <2>1 DEF FailTerminal
<1>9. ASSUME NEW w \in Workers, NEW lag \in Lags, RecoverExpired(w, lag) PROVE FALSE
  <2>1. \A i \in Jobs : [n \in Jobs |-> FailureStatus(w, n)][i] # "running"
    BY DEF FailureStatus
  <2>2. Recoverable(w, lag) \in SUBSET Jobs
    BY DEF Recoverable
  <2> QED
    BY <1>3, <1>9, <2>1, <2>2 DEF RecoverExpired
<1>10. ASSUME NEW j \in Jobs, Cancel(j) \/ Reconcile(j) PROVE FALSE
  <2>1. CASE Cancel(j)
    BY <1>3, <2>1 DEF Cancel
  <2>2. CASE Reconcile(j)
    BY <1>3, <2>2 DEF Reconcile
  <2> QED
    BY <1>10, <2>1, <2>2
<1>11. ASSUME Tick PROVE FALSE
  <2>1. status[k] = "running" /\ left[k] > 0 /\ rjob' = rjob
    BY <1>11, <1>k, <1>t DEF Tick, Older
  <2> QED
    BY <1>l, <1>k, <2>1
<1>12. ASSUME UNCHANGED vars PROVE FALSE
  BY <1>12, <1>l, <1>k DEF vars
<1> QED
  BY <1>1, <1>2, <1>4, <1>5, <1>6, <1>7, <1>8, <1>9, <1>10, <1>11, <1>12
  DEF Next, WorkerStep

\* However long writers wait: rows follow the jobs they were taken for, and only
\* a job that renews its own lease too late works on without its lock.
THEOREM LocksHold == Spec => ResourceLocks
<1>1. TypeOK /\ Inv /\ [Next]_vars => \A j \in Jobs : Unlocked(j)' => Unlocked(j) \/ RenewedLate(j)
  BY LockStep
<1>2. TypeOK /\ Inv /\ [Next]_vars => [\A j \in Jobs : Unlocked(j)' => Unlocked(j) \/ RenewedLate(j)]_vars
  BY <1>1
<1> QED
  BY <1>2, AlwaysInv, NoLeak, PTL DEF Spec, ResourceLocks

\* Every job with an unexpired lease has its lock.
LockedWhileLive == \A j \in Jobs : ~Unlocked(j)

LEMMA LockedApart == LockedWhileLive => ~Sharing
BY JobStoreAssumption DEF LockedWhileLive, Unlocked, HasLock, Sharing

\* As long as no lease is renewed after it ran out, no two jobs with unexpired
\* leases share a resource, whatever their number, the workers and the lag.
THEOREM Exclusive == Spec /\ [][\A j \in Jobs : ~RenewedLate(j)]_vars => []~Sharing
<1>1. Init => LockedWhileLive
  BY DEF Init, LockedWhileLive, Unlocked, Live
<1>2. LockedWhileLive /\ TypeOK /\ Inv /\ [Next]_vars /\ [\A j \in Jobs : ~RenewedLate(j)]_vars
      => LockedWhileLive'
  <2> SUFFICES ASSUME LockedWhileLive, TypeOK, Inv, [Next]_vars,
                      [\A j \in Jobs : ~RenewedLate(j)]_vars, NEW k \in Jobs, Unlocked(k)'
               PROVE FALSE
    BY DEF LockedWhileLive
  <2>1. CASE UNCHANGED vars
    BY <2>1 DEF LockedWhileLive, Unlocked, HasLock, Live, vars
  <2>2. CASE \A j \in Jobs : ~RenewedLate(j)
    BY <2>2, LockStep DEF LockedWhileLive
  <2> QED
    BY <2>1, <2>2
<1> QED
  BY <1>1, <1>2, AlwaysInv, LockedApart, PTL DEF Spec

-----------------------------------------------------------------------------
\* What has ended stays ended.
LEMMA EndedStep ==
  ASSUME TypeOK, Next
  PROVE  \A j \in Jobs :
            /\ status[j] \in {"completed", "cancelled"} => status'[j] = status[j]
            /\ status[j] = "failed" => \/ status'[j] = "failed"
                                       \/ status'[j] = "completed" /\ j \in Reconcilable
<1> USE JobStoreAssumption
<1> DEFINE Stays(j) ==
      /\ status[j] \in {"completed", "cancelled"} => status'[j] = status[j]
      /\ status[j] = "failed" => \/ status'[j] = "failed"
                                 \/ status'[j] = "completed" /\ j \in Reconcilable
<1>1. ASSUME NEW S, NEW given, Settle(S, given), NEW j \in Jobs,
             j \in S => status[j] \in {"pending", "running"}
      PROVE Stays(j)
  BY <1>1 DEF Settle
<1> SUFFICES ASSUME NEW j \in Jobs PROVE Stays(j)
  OBVIOUS
<1>2. ASSUME NEW B \in Batches, Enqueue(B) PROVE Stays(j)
  BY <1>2 DEF Enqueue
<1>3. ASSUME NEW w \in Workers, WorkerStep(w) PROVE Stays(j)
  <2>1. PICK lag \in Lags :
           \/ \E S \in Selections(w) : \/ \E i \in Jobs : ClaimJob(w, S, i, lag)
                                       \/ ClaimNothing(w, S, lag)
           \/ \E i \in Jobs : \/ Heartbeat(w, i, lag)
                              \/ Complete(w, i, lag)
                              \/ Fail(w, i, lag)
                              \/ FailTerminal(w, i, lag)
           \/ RecoverExpired(w, lag)
    BY <1>3 DEF WorkerStep
  <2>2. ASSUME NEW S \in Selections(w), NEW i \in Jobs, ClaimJob(w, S, i, lag)
        PROVE  Stays(j)
    <3>1. \A k \in Exhausted(w, S, lag) \cup {i} : status[k] \in {"pending", "running"}
      BY <2>2 DEF ClaimJob, Claimable, Exhausted, Eligible
    <3> QED
      BY <2>2, <3>1 DEF ClaimJob
  <2>3. ASSUME NEW S \in Selections(w), ClaimNothing(w, S, lag) PROVE Stays(j)
    <3>1. \A k \in Exhausted(w, S, lag) : status[k] \in {"pending", "running"}
      BY DEF Exhausted, Eligible
    <3> QED
      BY <1>1, <2>3, <3>1 DEF ClaimNothing
  <2>4. ASSUME NEW i \in Jobs,
               \/ Heartbeat(w, i, lag) \/ Complete(w, i, lag)
               \/ Fail(w, i, lag) \/ FailTerminal(w, i, lag)
        PROVE  Stays(j)
    <3>1. status[i] = "running"
      BY <2>4 DEF Heartbeat, Complete, Fail, FailTerminal, Owned
    <3>2. CASE Heartbeat(w, i, lag)
      BY <3>2, <3>1 DEF Heartbeat
    <3>3. CASE Complete(w, i, lag)
      BY <3>3, <3>1, <1>1 DEF Complete
    <3>4. CASE Fail(w, i, lag)
      BY <3>4, <3>1, <1>1 DEF Fail
    <3>5. CASE FailTerminal(w, i, lag)
      BY <3>5, <3>1, <1>1 DEF FailTerminal
    <3> QED
      BY <2>4, <3>2, <3>3, <3>4, <3>5
  <2>5. ASSUME RecoverExpired(w, lag) PROVE Stays(j)
    <3>1. \A k \in Recoverable(w, lag) : status[k] \in {"pending", "running"}
      BY DEF Recoverable
    <3> QED
      BY <1>1, <2>5, <3>1 DEF RecoverExpired
  <2> QED
    BY <2>1, <2>2, <2>3, <2>4, <2>5
<1>4. ASSUME NEW i \in Jobs, Cancel(i) PROVE Stays(j)
  BY <1>1, <1>4 DEF Cancel
<1>5. ASSUME NEW i \in Jobs, Reconcile(i) PROVE Stays(j)
  BY <1>5 DEF Reconcile, Settle
<1>6. ASSUME Tick PROVE Stays(j)
  BY <1>6 DEF Tick
<1> QED
  BY <1>2, <1>3, <1>4, <1>5, <1>6 DEF Next

\* Completed and cancelled are final, failed all but final.
THEOREM FinalStates == Spec => EndedStays
<1>1. TypeOK /\ [Next]_vars =>
        [\A j \in Jobs :
            /\ status[j] \in {"completed", "cancelled"} => status'[j] = status[j]
            /\ status[j] = "failed" => \/ status'[j] = "failed"
                                       \/ status'[j] = "completed" /\ j \in Reconcilable]_vars
  BY EndedStep
<1> QED
  BY <1>1, TypeCorrect, PTL DEF Spec, EndedStays
-----------------------------------------------------------------------------
(* The abstract queue.  What each method does to a job is one step of it;   *)
(* a job the method leaves alone stays the same.  No lag is excluded: a     *)
(* lease that is expired at an old timestamp is expired now.                *)

\* A job outside S, and with it its lease, is left alone.
LEMMA LeftAlone ==
  ASSUME NEW j \in Jobs, status'[j] = status[j], attempt'[j] = attempt[j],
         owner'[j] = owner[j], left'[j] = left[j]
  PROVE  Q!Same(j)
BY DEF Q!Same, Live

\* How a job may leave the queue or its worker.
Releases(j, to) ==
    \/ status[j] = "running" /\ to \in {"pending", "completed"}
    \/ status[j] \in {"pending", "running"} /\ to = "failed" /\ attempt[j] > 0
    \/ status[j] \in {"pending", "running"} /\ to = "cancelled"
    \/ status[j] = "failed" /\ to = "completed"

LEMMA ReleaseIsStep ==
  ASSUME NEW j \in Jobs, Releases(j, status'[j]), attempt'[j] = attempt[j],
         owner'[j] = NoWorker, left'[j] = 0
  PROVE  Q!JobStep(j)
<1>1. Q!Unheld(j)
  <2>1. ~Live(j)'
    BY DEF Live
  <2>2. ~[k \in Jobs |-> Live(k)]'[j]
    BY <2>1
  <2> QED
    BY <2>2 DEF Q!Unheld
<1>2. CASE status[j] = "running" /\ status'[j] \in {"pending", "completed"}
  <2>1. Q!Release(j)
    BY <1>1, <1>2 DEF Q!Release, Q!Moves
  <2> QED
    BY <2>1 DEF Q!JobStep
<1>3. CASE status[j] \in {"pending", "running"} /\ status'[j] = "failed" /\ attempt[j] > 0
  <2>1. Q!Release(j)
    BY <1>1, <1>3 DEF Q!Release, Q!Moves
  <2> QED
    BY <2>1 DEF Q!JobStep
<1>4. CASE status[j] \in {"pending", "running"} /\ status'[j] = "cancelled"
  <2>1. Q!Withdraw(j)
    BY <1>1, <1>4 DEF Q!Withdraw, Q!Moves
  <2> QED
    BY <2>1 DEF Q!JobStep
<1>5. CASE status[j] = "failed" /\ status'[j] = "completed"
  <2>1. Q!Adopt(j)
    BY <1>1, <1>5 DEF Q!Adopt, Q!Moves
  <2> QED
    BY <2>1 DEF Q!JobStep
<1> QED
  BY <1>2, <1>3, <1>4, <1>5 DEF Releases

\* A step of the queue that tries nothing again.
LEMMA SettleIsStep ==
  ASSUME TypeOK, NEW S, NEW given, Settle(S, given),
         \A j \in S : j \in Jobs /\ Releases(j, given[j])
  PROVE  Q!Next
<1>1. ASSUME NEW j \in Jobs PROVE Q!JobStep(j)
  <2>1. CASE j \in S
    <3>1. /\ status'[j] = given[j] /\ attempt'[j] = attempt[j]
          /\ owner'[j] = NoWorker /\ left'[j] = 0
      BY <2>1 DEF Settle
    <3> QED
      BY <2>1, <3>1, ReleaseIsStep
  <2>2. CASE j \notin S
    <3>1. /\ status'[j] = status[j] /\ attempt'[j] = attempt[j]
          /\ owner'[j] = owner[j] /\ left'[j] = left[j]
      BY <2>2 DEF Settle
    <3> QED
      BY <3>1, LeftAlone DEF Q!JobStep
  <2> QED
    BY <2>1, <2>2
<1> QED
  BY <1>1 DEF Q!Next, Settle

LEMMA ClaimIsStep ==
  ASSUME TypeOK, Inv, NEW w \in Workers, NEW lag \in Lags, NEW S \in Selections(w),
         NEW j \in Jobs, ClaimJob(w, S, j, lag)
  PROVE  Q!Next
<1> DEFINE X == {i \in Exhausted(w, S, lag) : Before(i, j)}
<1>1. S \subseteq Jobs
  BY JobStoreAssumption DEF Selections
<1>2. Eligible(j, lag) /\ attempt[j] < MaxAttempts[w]
  BY DEF ClaimJob, Claimable
<1>3. j \notin X
  BY <1>2, JobStoreAssumption DEF Exhausted, TypeOK
<1>4. \A i \in X : i \in Jobs /\ status[i] \in {"pending", "running"} /\ attempt[i] > 0
  BY <1>1, JobStoreAssumption DEF Exhausted, Eligible, TypeOK
<1>5. Q!Grant(j)
  <2>1. status[j] \in {"pending", "running"} /\ status'[j] = "running"
    BY <1>2 DEF Eligible, ClaimJob
  <2>2. ~Live(j)
    BY <1>2, JobStoreAssumption DEF Eligible, Live, Lags, TypeOK, Left
  <2>3. attempt'[j] = attempt[j] + 1 /\ owner'[j] \in Workers
    BY DEF ClaimJob, TypeOK
  <2> QED
    BY <2>1, <2>2, <2>3 DEF Q!Grant, Q!Moves
<1>6. ASSUME NEW i \in Jobs, i # j PROVE Q!JobStep(i) /\ attempt'[i] = attempt[i]
  <2>1. attempt'[i] = attempt[i]
    BY <1>6 DEF ClaimJob, TypeOK
  <2>2. CASE i \in X
    <3>1. status'[i] = "failed" /\ owner'[i] = NoWorker /\ left'[i] = 0
      BY <1>6, <2>2 DEF ClaimJob
    <3>2. Releases(i, status'[i])
      BY <1>4, <2>2, <3>1 DEF Releases
    <3> QED
      BY <2>1, <3>1, <3>2, ReleaseIsStep
  <2>3. CASE i \notin X
    <3>1. status'[i] = status[i] /\ owner'[i] = owner[i] /\ left'[i] = left[i]
      BY <1>6, <2>3 DEF ClaimJob
    <3> QED
      BY <2>1, <3>1, LeftAlone DEF Q!JobStep
  <2> QED
    BY <2>2, <2>3
<1> QED
  BY <1>5, <1>6 DEF Q!Next, Q!JobStep

LEMMA LifecycleStep == TypeOK /\ Inv /\ [Next]_vars => [Q!Next]_(Q!vars)
<1> SUFFICES ASSUME TypeOK, Inv, [Next]_vars PROVE Q!Next \/ UNCHANGED Q!vars
  OBVIOUS
<1>1. ASSUME NEW B \in Batches, Enqueue(B) PROVE Q!Next
  <2>1. ASSUME NEW j \in Jobs PROVE Q!JobStep(j)
    <3>1. attempt'[j] = attempt[j] /\ owner'[j] = owner[j] /\ left'[j] = left[j]
      BY <1>1 DEF Enqueue
    <3>2. CASE j \in B /\ status[j] = "absent"
      <4>1. status'[j] = "pending" /\ owner[j] = NoWorker
        BY <1>1, <3>2 DEF Enqueue, Inv, LeaseColumns
      <4>2. Q!Submit(j)
        BY <3>1, <3>2, <4>1 DEF Q!Submit, Q!Moves, Q!Unheld, Live
      <4> QED
        BY <4>2 DEF Q!JobStep
    <3>3. CASE ~(j \in B /\ status[j] = "absent")
      BY <1>1, <3>1, <3>3, LeftAlone DEF Enqueue, Q!JobStep
    <3> QED
      BY <3>2, <3>3
  <2> QED
    BY <1>1, <2>1 DEF Q!Next, Enqueue
<1>2. ASSUME NEW w \in Workers, NEW lag \in Lags, NEW S \in Selections(w), NEW j \in Jobs,
             ClaimJob(w, S, j, lag)
      PROVE  Q!Next
  BY <1>2, ClaimIsStep
<1>3. ASSUME NEW w \in Workers, NEW lag \in Lags, NEW S \in Selections(w),
             ClaimNothing(w, S, lag)
      PROVE  Q!Next
  <2>1. S \subseteq Jobs
    BY JobStoreAssumption DEF Selections
  <2>2. \A j \in Exhausted(w, S, lag) : j \in Jobs /\ Releases(j, [k \in Jobs |-> "failed"][j])
    BY <2>1, JobStoreAssumption DEF Exhausted, Eligible, Releases, TypeOK
  <2> QED
    BY <1>3, <2>2, SettleIsStep DEF ClaimNothing
<1>4. ASSUME NEW w \in Workers, NEW lag \in Lags, NEW j \in Jobs, Heartbeat(w, j, lag)
      PROVE  Q!Next
  <2>1. ASSUME NEW i \in Jobs PROVE Q!JobStep(i)
    <3>1. UNCHANGED <<status, attempt, owner>> /\ (i # j => left'[i] = left[i])
      BY <1>4 DEF Heartbeat, TypeOK
    <3>2. status[j] = "running"
      BY <1>4 DEF Heartbeat, Owned
    <3>3. CASE i = j
      BY <3>1, <3>2, <3>3 DEF Q!JobStep, Q!Keep, Q!Moves
    <3>4. CASE i # j
      BY <3>1, <3>4, LeftAlone DEF Q!JobStep
    <3> QED
      BY <3>3, <3>4
  <2> QED
    BY <1>4, <2>1 DEF Q!Next, Heartbeat
<1>5. ASSUME NEW w \in Workers, NEW lag \in Lags, NEW j \in Jobs, Complete(w, j, lag)
      PROVE  Q!Next
  <2>1. \A i \in {j} : i \in Jobs /\ Releases(i, [k \in Jobs |-> "completed"][i])
    BY <1>5 DEF Complete, Owned, Releases
  <2> QED
    BY <1>5, <2>1, SettleIsStep DEF Complete
<1>6. ASSUME NEW w \in Workers, NEW lag \in Lags, NEW j \in Jobs, Fail(w, j, lag)
      PROVE  Q!Next
  <2>1. \A i \in {j} : i \in Jobs /\ Releases(i, [k \in Jobs |-> FailureStatus(w, k)][i])
    BY <1>6 DEF Fail, Owned, Releases, FailureStatus, Inv, LeaseColumns
  <2> QED
    BY <1>6, <2>1, SettleIsStep DEF Fail
<1>7. ASSUME NEW w \in Workers, NEW lag \in Lags, NEW j \in Jobs, FailTerminal(w, j, lag)
      PROVE  Q!Next
  <2>1. \A i \in {j} : i \in Jobs /\ Releases(i, [k \in Jobs |-> "failed"][i])
    BY <1>7 DEF FailTerminal, Owned, Releases, Inv, LeaseColumns
  <2> QED
    BY <1>7, <2>1, SettleIsStep DEF FailTerminal
<1>8. ASSUME NEW w \in Workers, NEW lag \in Lags, RecoverExpired(w, lag) PROVE Q!Next
  <2>1. \A i \in Recoverable(w, lag) :
           i \in Jobs /\ Releases(i, [k \in Jobs |-> FailureStatus(w, k)][i])
    BY JobStoreAssumption
    DEF Recoverable, Releases, FailureStatus, TypeOK, Inv, LeaseColumns
  <2> QED
    BY <1>8, <2>1, SettleIsStep DEF RecoverExpired
<1>9. ASSUME NEW j \in Jobs, Cancel(j) PROVE Q!Next
  <2>1. \A i \in {j} : i \in Jobs /\ Releases(i, [k \in Jobs |-> "cancelled"][i])
    BY <1>9 DEF Cancel, Releases
  <2> QED
    BY <1>9, <2>1, SettleIsStep DEF Cancel
<1>10. ASSUME NEW j \in Jobs, Reconcile(j) PROVE Q!Next
  <2>1. \A i \in {j} : i \in Jobs /\ Releases(i, [k \in Jobs |-> "completed"][i])
    BY <1>10 DEF Reconcile, Releases
  <2> QED
    BY <1>10, <2>1, SettleIsStep DEF Reconcile
<1>11. ASSUME Tick PROVE Q!Next
  <2>1. ASSUME NEW j \in Jobs PROVE Q!JobStep(j)
    <3>1. UNCHANGED <<status, attempt, owner>> /\ (status[j] # "running" => left'[j] = left[j])
      BY <1>11 DEF Tick
    <3>2. CASE status[j] = "running"
      BY <3>1, <3>2 DEF Q!JobStep, Q!Keep, Q!Moves
    <3>3. CASE status[j] # "running"
      BY <3>1, <3>3, LeftAlone DEF Q!JobStep
    <3> QED
      BY <3>2, <3>3
  <2> QED
    BY <1>11, <2>1 DEF Q!Next, Tick
<1>12. ASSUME UNCHANGED vars PROVE UNCHANGED Q!vars
  BY <1>12 DEF vars, Q!vars, Live
<1> QED
  BY <1>1, <1>2, <1>3, <1>4, <1>5, <1>6, <1>7, <1>8, <1>9, <1>10, <1>11, <1>12
  DEF Next, WorkerStep

\* The tables, clocks, lags and resource rows implement the abstract queue.
THEOREM ImplementsLifecycle == Spec => Lifecycle
<1>1. Init => Q!Init
  BY DEF Init, Q!Init, Live
<1> QED
  BY <1>1, LifecycleStep, AlwaysInv, PTL DEF Spec, Lifecycle, Q!Spec

-----------------------------------------------------------------------------
(* What a transaction of the queue does to a job it neither claims nor     *)
(* completes: it starts no run, keeps the attempt and the owner of a run,  *)
(* and completes nothing but a reconciled render.                          *)

Quiet(j) ==
    /\ attempt'[j] = attempt[j]
    /\ status'[j] = "running" => status[j] = "running" /\ owner'[j] = owner[j]
    /\ status'[j] = "completed" => status[j] = "completed" \/ j \in Reconcilable

LEMMA SettleQuiet ==
  ASSUME NEW S, NEW new, Settle(S, new), NEW j \in Jobs,
         j \in S => /\ new[j] # "running"
                    /\ new[j] = "completed" => j \in Reconcilable
  PROVE  Quiet(j)
  BY DEF Settle, Quiet

LEMMA WorkerQuiet ==
  ASSUME NEW w \in Workers, NEW lag \in Lags, NEW i \in Jobs, NEW j \in Jobs,
         \/ RecoverExpired(w, lag) \/ ClaimNothing(w, CanRun[w], lag)
         \/ Heartbeat(w, i, lag) \/ Fail(w, i, lag) \/ FailTerminal(w, i, lag)
  PROVE  Quiet(j)
<1>1. CASE RecoverExpired(w, lag)
  BY <1>1, SettleQuiet DEF RecoverExpired, FailureStatus
<1>2. CASE ClaimNothing(w, CanRun[w], lag)
  BY <1>2, SettleQuiet DEF ClaimNothing
<1>3. CASE Heartbeat(w, i, lag)
  BY <1>3 DEF Heartbeat, Quiet
<1>4. CASE Fail(w, i, lag)
  BY <1>4, SettleQuiet DEF Fail, FailureStatus
<1>5. CASE FailTerminal(w, i, lag)
  BY <1>5, SettleQuiet DEF FailTerminal
<1> QED
  BY <1>1, <1>2, <1>3, <1>4, <1>5

LEMMA OtherQuiet ==
  ASSUME NEW j \in Jobs,
         \/ \E B \in Batches : Enqueue(B)
         \/ \E i \in Jobs : Cancel(i) \/ Reconcile(i)
         \/ Tick
         \/ UNCHANGED vars
  PROVE  Quiet(j)
<1>1. ASSUME NEW B \in Batches, Enqueue(B) PROVE Quiet(j)
  BY <1>1 DEF Enqueue, Quiet
<1>2. ASSUME NEW i \in Jobs, Cancel(i) PROVE Quiet(j)
  BY <1>2, SettleQuiet DEF Cancel
<1>3. ASSUME NEW i \in Jobs, Reconcile(i) PROVE Quiet(j)
  BY <1>3, SettleQuiet DEF Reconcile
<1>4. CASE Tick
  BY <1>4 DEF Tick, Quiet
<1>5. CASE UNCHANGED vars
  BY <1>5 DEF vars, Quiet
<1> QED
  BY <1>1, <1>2, <1>3, <1>4, <1>5

LEMMA ClaimOthersQuiet ==
  ASSUME NEW w \in Workers, NEW S, NEW lag \in Lags, NEW i \in Jobs, ClaimJob(w, S, i, lag),
         NEW j \in Jobs, j # i
  PROVE  Quiet(j)
  BY DEF ClaimJob, Quiet

-----------------------------------------------------------------------------
(* The inductive invariant.                                                *)

\* What each busy process holds in hand.
InHand(w) ==
    Busy(w) =>
       /\ cur[w] \in Jobs /\ tryNo[w] \in Nat
       /\ tryNo[w] <= attempt[cur[w]]
       /\ status[cur[w]] = "running" /\ owner[cur[w]] = w => tryNo[w] = attempt[cur[w]]
       /\ At(w, "report") /\ outcome[w] = "ok" => <<cur[w], tryNo[w]>> \in returned

ProcTypes ==
    /\ attempt \in [Jobs -> Nat]
    /\ pc \in [Workers -> {"down", "sweep", "recover", "poll", "handle", "report", "notify"}]
    /\ cur \in [Workers -> Jobs \cup {NoJob}]
    /\ tryNo \in [Workers -> Nat]
    /\ beat \in [Workers -> {"off", "on", "lost", "failed"}]
    /\ outcome \in [Workers -> Outcomes \cup {"none"}]

RunnerInv ==
    /\ ProcTypes
    /\ \A w \in Workers : InHand(w)
    /\ AttemptRunsOnce
    /\ CompletionEarned

\* A step in which every job is quiet and no process picks up another job:
\* those that were busy and still are hold what they held.
Holds(w) ==
    \/ pc'[w] \notin {"handle", "report"}
    \/ /\ Busy(w) /\ cur'[w] = cur[w] /\ tryNo'[w] = tryNo[w]
       /\ pc'[w] = "report" /\ outcome'[w] = "ok" =>
             \/ <<cur[w], tryNo[w]>> \in returned'
             \/ pc[w] = "report" /\ outcome[w] = "ok"

LEMMA QuietStep ==
  ASSUME RunnerInv, ProcTypes', returned \subseteq returned',
         \A j \in Jobs : Quiet(j), \A w \in Workers : Holds(w)
  PROVE  RunnerInv'
<1>1. ASSUME NEW w \in Workers PROVE InHand(w)'
  <2> SUFFICES ASSUME Busy(w)'
               PROVE  /\ cur'[w] \in Jobs /\ tryNo'[w] \in Nat
                      /\ tryNo'[w] <= attempt'[cur'[w]]
                      /\ status'[cur'[w]] = "running" /\ owner'[cur'[w]] = w =>
                            tryNo'[w] = attempt'[cur'[w]]
                      /\ pc'[w] = "report" /\ outcome'[w] = "ok" =>
                            <<cur'[w], tryNo'[w]>> \in returned'
    BY DEF InHand, At
  <2>1. Holds(w) /\ InHand(w)
    BY DEF RunnerInv
  <2>2. Busy(w) /\ cur'[w] = cur[w] /\ tryNo'[w] = tryNo[w]
    BY <2>1 DEF Holds, Busy
  <2>3. cur[w] \in Jobs /\ Quiet(cur[w])
    BY <2>1, <2>2 DEF InHand
  <2> QED
    BY <2>1, <2>2, <2>3 DEF Holds, InHand, Quiet, Busy, At
<1>2. AttemptRunsOnce'
  <2>1. \A w \in Workers : Busy(w)' => Busy(w) /\ cur'[w] = cur[w] /\ tryNo'[w] = tryNo[w]
    BY DEF Holds, Busy
  <2>2. \A w \in Workers : Busy(w)' => cur[w] \in Jobs /\ attempt'[cur[w]] = attempt[cur[w]]
    BY <2>1 DEF RunnerInv, InHand, Quiet
  <2> QED
    BY <2>1, <2>2 DEF RunnerInv, AttemptRunsOnce
<1>3. CompletionEarned'
  BY DEF RunnerInv, CompletionEarned, Quiet
<1> QED
  BY <1>1, <1>2, <1>3 DEF RunnerInv

LEMMA ClaimStep ==
  ASSUME RunnerInv, ProcTypes', NEW w \in Workers, Claim(w)
  PROVE  RunnerInv'
<1>1. PICK lag \in Lags, j \in Jobs :
         /\ ClaimJob(w, CanRun[w], j, lag)
         /\ cur' = [cur EXCEPT ![w] = j]
         /\ tryNo' = [tryNo EXCEPT ![w] = attempt[j] + 1]
  BY DEF Claim
<1>2. /\ attempt' = [attempt EXCEPT ![j] = @ + 1]
      /\ status'[j] = "running" /\ owner'[j] = w
  BY <1>1 DEF ClaimJob
<1>3. \A i \in Jobs : i # j => Quiet(i)
  BY <1>1, ClaimOthersQuiet
<1>4. /\ pc' = [pc EXCEPT ![w] = "handle"] /\ pc[w] = "poll"
      /\ UNCHANGED <<outcome, returned>>
  BY DEF Claim, history, At
<1>5. attempt'[j] = attempt[j] + 1 /\ attempt[j] \in Nat
  BY <1>2 DEF RunnerInv, ProcTypes
<1>6. \A v \in Workers : v # w => /\ pc'[v] = pc[v] /\ cur'[v] = cur[v]
                                  /\ tryNo'[v] = tryNo[v]
  BY <1>1, <1>4 DEF RunnerInv, ProcTypes
<1>7. cur'[w] = j /\ tryNo'[w] = attempt[j] + 1 /\ pc'[w] = "handle"
  BY <1>1, <1>4 DEF RunnerInv, ProcTypes
<1>8. ASSUME NEW v \in Workers PROVE InHand(v)'
  <2>1. CASE v = w
    BY <1>2, <1>5, <1>7, <2>1 DEF InHand, At
  <2>2. CASE v # w /\ Busy(v)
    <3>1. InHand(v) /\ cur[v] \in Jobs /\ tryNo[v] \in Nat
      BY <2>2 DEF RunnerInv, InHand
    <3>2. CASE cur[v] = j
      <4>1. tryNo[v] <= attempt'[j]
        BY <1>5, <3>1, <3>2, <2>2 DEF InHand
      <4>2. owner'[j] # v
        BY <1>2, <2>2
      <4> QED
        BY <1>4, <1>6, <2>2, <3>1, <3>2, <4>1, <4>2 DEF InHand, At
    <3>3. CASE cur[v] # j
      <4>1. Quiet(cur[v])
        BY <1>3, <3>1, <3>3
      <4> QED
        BY <1>4, <1>6, <2>2, <3>1, <4>1 DEF InHand, Quiet, At
    <3> QED
      BY <3>2, <3>3
  <2>3. CASE v # w /\ ~Busy(v)
    BY <1>6, <2>3 DEF InHand, Busy
  <2> QED
    BY <2>1, <2>2, <2>3
<1>9. AttemptRunsOnce'
  <2>1. \A v \in Workers : v # w /\ Busy(v)' /\ cur'[v] = j => tryNo'[v] # attempt[j] + 1
    <3> SUFFICES ASSUME NEW v \in Workers, v # w, Busy(v)', cur'[v] = j
                 PROVE  tryNo'[v] # attempt[j] + 1
      OBVIOUS
    <3>1. Busy(v) /\ cur[v] = j /\ tryNo'[v] = tryNo[v]
      BY <1>6 DEF Busy
    <3>2. tryNo[v] <= attempt[j] /\ tryNo[v] \in Nat
      BY <3>1 DEF RunnerInv, InHand
    <3> QED
      BY <1>5, <3>1, <3>2
  <2>2. \A v \in Workers : Busy(v)' => tryNo'[v] <= attempt'[cur'[v]]
    BY <1>8 DEF InHand
  <2>3. \A v \in Workers : v # w /\ Busy(v)' => Busy(v)
    BY <1>6 DEF Busy
  <2>4. ASSUME NEW u \in Workers, NEW v \in Workers, Busy(u)', Busy(v)',
               cur'[u] = cur'[v], tryNo'[u] = tryNo'[v]
        PROVE  u = v
    <3>1. CASE u = w
      BY <1>7, <2>1, <2>4, <3>1
    <3>2. CASE v = w
      BY <1>7, <2>1, <2>4, <3>2
    <3>3. CASE u # w /\ v # w
      BY <1>6, <2>3, <2>4, <3>3 DEF RunnerInv, AttemptRunsOnce
    <3> QED
      BY <3>1, <3>2, <3>3
  <2> QED
    BY <2>2, <2>4 DEF AttemptRunsOnce
<1>10. CompletionEarned'
  <2> SUFFICES ASSUME NEW i \in Jobs \ Reconcilable, status'[i] = "completed"
               PROVE  <<i, attempt'[i]>> \in returned'
    BY DEF CompletionEarned
  <2>1. i # j
    BY <1>2
  <2>2. status[i] = "completed" /\ attempt'[i] = attempt[i]
    BY <1>3, <2>1 DEF Quiet
  <2> QED
    BY <1>4, <2>2 DEF RunnerInv, CompletionEarned
<1> QED
  BY <1>8, <1>9, <1>10 DEF RunnerInv

LEMMA CompleteStep ==
  ASSUME RunnerInv, ProcTypes', NEW w \in Workers, ReportsOk(w)
  PROVE  RunnerInv'
<1>1. PICK lag \in Lags : Complete(w, cur[w], lag)
  BY DEF ReportsOk
<1> DEFINE j == cur[w]
<1>2. /\ Busy(w) /\ j \in Jobs /\ tryNo[w] = attempt[j]
      /\ <<j, attempt[j]>> \in returned
  <2>1. Busy(w) /\ pc[w] = "report" /\ outcome[w] = "ok"
    BY DEF ReportsOk, At, Busy
  <2>2. InHand(w)
    BY DEF RunnerInv
  <2>3. status[j] = "running" /\ owner[j] = w
    BY <1>1 DEF Complete, Owned
  <2> QED
    BY <2>1, <2>2, <2>3 DEF InHand, At
<1>3. /\ \A i \in Jobs : i # j => Quiet(i)
      /\ attempt' = attempt
      /\ status'[j] = "completed"
  BY <1>1, <1>2 DEF Complete, Settle, Quiet
<1>4. /\ pc' = [pc EXCEPT ![w] = "notify"]
      /\ UNCHANGED <<cur, tryNo, outcome, returned>>
  BY DEF ReportsOk, history
<1>5. \A v \in Workers : Busy(v)' => Busy(v) /\ v # w /\ pc'[v] = pc[v]
  BY <1>4 DEF Busy, RunnerInv, ProcTypes
<1>6. ASSUME NEW v \in Workers PROVE InHand(v)'
  <2> SUFFICES ASSUME Busy(v)' PROVE InHand(v)'
    BY DEF InHand
  <2>1. InHand(v) /\ Busy(v) /\ cur[v] \in Jobs
    BY <1>5 DEF RunnerInv, InHand
  <2>2. CASE cur[v] = j
    BY <1>3, <1>4, <1>5, <2>1, <2>2 DEF InHand, At
  <2>3. CASE cur[v] # j
    BY <1>3, <1>4, <1>5, <2>1, <2>3 DEF InHand, Quiet, At
  <2> QED
    BY <2>2, <2>3
<1>7. AttemptRunsOnce'
  BY <1>3, <1>4, <1>5 DEF RunnerInv, AttemptRunsOnce
<1>8. CompletionEarned'
  BY <1>2, <1>3, <1>4 DEF RunnerInv, CompletionEarned, Quiet
<1> QED
  BY <1>6, <1>7, <1>8 DEF RunnerInv

LEMMA RunnerStep ==
  ASSUME RunnerInv, RunnerTypeOK, RunnerTypeOK', [RunnerNext]_allVars
  PROVE  RunnerInv'
<1>0. ProcTypes'
  BY DEF RunnerTypeOK, TypeOK, ProcTypes
<1>1. ASSUME NEW w \in Workers, Claim(w) PROVE RunnerInv'
  BY <1>0, <1>1, ClaimStep
<1>2. ASSUME NEW w \in Workers, ReportsOk(w) PROVE RunnerInv'
  BY <1>0, <1>2, CompleteStep
\* A process puts down what it had.
<1>3. ASSUME NEW w \in Workers, NEW next \in {"down", "sweep", "recover", "poll"},
             Rest(w, next), returned' = returned, \A j \in Jobs : Quiet(j)
      PROVE  RunnerInv'
  <2>1. \A v \in Workers : Holds(v)
    BY <1>3 DEF Rest, Holds, Busy, RunnerInv, ProcTypes
  <2> QED
    BY <1>0, <1>3, <2>1, QuietStep
\* No process moves.
<1>4. ASSUME UNCHANGED <<pc, cur, tryNo, outcome, returned>>, \A j \in Jobs : Quiet(j)
      PROVE  RunnerInv'
  <2>1. \A v \in Workers : Holds(v)
    BY <1>4 DEF Holds, Busy
  <2> QED
    BY <1>0, <1>4, <2>1, QuietStep
<1>5. UNCHANGED vars => \A j \in Jobs : Quiet(j)
  BY OtherQuiet
<1>6. ASSUME NEW w \in Workers, Launch(w) \/ LosesLease(w) \/ Sweep(w) \/ Notify(w) \/ Exit(w)
      PROVE  RunnerInv'
  BY <1>3, <1>5, <1>6 DEF Launch, LosesLease, Sweep, Notify, Exit, history
<1>7. ASSUME NEW w \in Workers, Recover(w) PROVE RunnerInv'
  <2>1. Jobs # {} => \A j \in Jobs : Quiet(j)
    BY <1>7, WorkerQuiet DEF Recover
  <2> QED
    BY <1>3, <1>7, <2>1 DEF Recover, history
<1>8. ASSUME NEW w \in Workers, Idle(w) PROVE RunnerInv'
  <2>1. \A j \in Jobs : Quiet(j)
    BY <1>8, WorkerQuiet DEF Idle
  <2> QED
    BY <1>4, <1>8, <2>1 DEF Idle, procs, history
<1>9. ASSUME NEW w \in Workers, ReportsError(w) PROVE RunnerInv'
  <2>1. cur[w] \in Jobs
    BY <1>9 DEF ReportsError, At, Busy, RunnerInv, InHand
  <2>2. \A j \in Jobs : Quiet(j)
    BY <1>9, <2>1, WorkerQuiet DEF ReportsError
  <2> QED
    BY <1>3, <1>9, <2>2 DEF ReportsError, history
<1>10. ASSUME NEW w \in Workers, Renew(w) PROVE RunnerInv'
  <2>1. cur[w] \in Jobs
    BY <1>10 DEF Renew, At, Busy, RunnerInv, InHand
  <2>2. \A j \in Jobs : Quiet(j)
    BY <1>5, <1>10, <2>1, WorkerQuiet DEF Renew
  <2> QED
    BY <1>4, <1>10, <2>2 DEF Renew, history
<1>11. ASSUME NEW w \in Workers, HandlerReturns(w) PROVE RunnerInv'
  <2>1. PICK o \in Outcomes :
           /\ outcome' = [outcome EXCEPT ![w] = o]
           /\ returned' = IF o = "ok" THEN returned \cup {<<cur[w], tryNo[w]>>} ELSE returned
    BY <1>11 DEF HandlerReturns
  <2>2. /\ pc[w] = "handle" /\ pc' = [pc EXCEPT ![w] = "report"]
        /\ UNCHANGED <<vars, cur, tryNo>>
    BY <1>11 DEF HandlerReturns, At
  <2>3. \A v \in Workers : Holds(v)
    BY <2>1, <2>2 DEF Holds, Busy, RunnerInv, ProcTypes
  <2> QED
    BY <1>0, <1>5, <2>1, <2>2, <2>3, QuietStep
<1>12. ASSUME NEW w \in Workers, HeartbeatFails(w) PROVE RunnerInv'
  BY <1>4, <1>5, <1>12 DEF HeartbeatFails
<1>13. CASE Time
  BY <1>4, <1>13, OtherQuiet DEF Time, history
<1>14. CASE Request
  BY <1>4, <1>14, OtherQuiet DEF Request, procs, history
<1>15. CASE UNCHANGED allVars
  BY <1>4, <1>5, <1>15 DEF allVars, procs, history
<1> QED
  BY <1>1, <1>2, <1>6, <1>7, <1>8, <1>9, <1>10, <1>11, <1>12, <1>13, <1>14, <1>15
  DEF RunnerNext, Advance

-----------------------------------------------------------------------------
(* The processes use the queue by its methods only.                        *)

LEMMA QueueStep == RunnerInv /\ [RunnerNext]_allVars => [Next]_vars
<1> SUFFICES ASSUME RunnerInv, RunnerNext PROVE [Next]_vars
  BY DEF allVars
<1>1. \A w \in Workers : Busy(w) => cur[w] \in Jobs
  BY DEF RunnerInv, InHand
<1>2. ASSUME NEW w \in Workers, Recover(w) \/ Claim(w) \/ Idle(w) PROVE Next
  BY <1>2 DEF Recover, Claim, Idle, Next, WorkerStep, Selections
<1>3. ASSUME NEW w \in Workers, Renew(w) \/ ReportsOk(w) \/ ReportsError(w)
      PROVE  Next \/ UNCHANGED vars
  <2>1. cur[w] \in Jobs
    BY <1>1, <1>3 DEF Renew, ReportsOk, ReportsError, At, Busy
  <2> QED
    BY <1>3, <2>1 DEF Renew, ReportsOk, ReportsError, Next, WorkerStep
<1>4. ASSUME NEW w \in Workers,
             \/ Launch(w) \/ Sweep(w) \/ HandlerReturns(w) \/ LosesLease(w)
             \/ Notify(w) \/ Exit(w) \/ HeartbeatFails(w)
      PROVE  UNCHANGED vars
  BY <1>4 DEF Launch, Sweep, HandlerReturns, LosesLease, Notify, Exit, HeartbeatFails
<1>5. CASE Request
  BY <1>5 DEF Request, Next
<1>6. CASE Time
  BY <1>6 DEF Time, Next
<1> QED
  BY <1>2, <1>3, <1>4, <1>5, <1>6 DEF RunnerNext, Advance

\* The columns and the state of the processes keep their types.
LEMMA RestType ==
  ASSUME RunnerTypeOK, NEW w \in Workers,
         NEW next \in {"down", "sweep", "recover", "poll", "handle", "report", "notify"},
         Rest(w, next)
  PROVE  /\ pc' \in [Workers -> {"down", "sweep", "recover", "poll", "handle", "report", "notify"}]
         /\ cur' \in [Workers -> Jobs \cup {NoJob}]
         /\ tryNo' \in [Workers -> Nat]
         /\ beat' \in [Workers -> {"off", "on", "lost", "failed"}]
         /\ age' \in [Workers -> 0..Lease]
         /\ outcome' \in [Workers -> Outcomes \cup {"none"}]
  BY JobStoreAssumption DEF RunnerTypeOK, Rest

LEMMA RunnerTypeStep ==
  ASSUME RunnerTypeOK, RunnerInv, [RunnerNext]_allVars
  PROVE  RunnerTypeOK'
<1>1. TypeOK'
  BY QueueStep, TypeStep DEF RunnerTypeOK
<1>2. ASSUME NEW w \in Workers, Launch(w) \/ LosesLease(w) \/ Recover(w) \/ ReportsError(w)
      PROVE  RunnerTypeOK'
  BY <1>1, <1>2, RestType DEF Launch, LosesLease, Recover, ReportsError, RunnerTypeOK, history
<1>3. ASSUME NEW w \in Workers, Sweep(w) \/ Notify(w)
      PROVE  RunnerTypeOK'
  BY <1>1, <1>3, RestType DEF Sweep, Notify, RunnerTypeOK
<1>4. ASSUME NEW w \in Workers, Exit(w) PROVE RunnerTypeOK'
  <2>1. faults' \in 0..MaxFaults
    BY <1>4, JobRunnerAssumption DEF Exit, Fault, RunnerTypeOK
  <2> QED
    BY <1>1, <1>4, <2>1, RestType DEF Exit, RunnerTypeOK
<1>5. ASSUME NEW w \in Workers, Claim(w) PROVE RunnerTypeOK'
  <2>1. PICK j \in Jobs : /\ cur' = [cur EXCEPT ![w] = j]
                          /\ tryNo' = [tryNo EXCEPT ![w] = attempt[j] + 1]
    BY <1>5 DEF Claim
  <2>2. attempt[j] + 1 \in Nat
    BY DEF RunnerTypeOK, TypeOK
  <2> QED
    BY <1>1, <1>5, <2>1, <2>2 DEF Claim, RunnerTypeOK, history
<1>6. ASSUME NEW w \in Workers, Idle(w) PROVE RunnerTypeOK'
  BY <1>1, <1>6 DEF Idle, RunnerTypeOK, procs, history
<1>7. ASSUME NEW w \in Workers, Renew(w) PROVE RunnerTypeOK'
  BY <1>1, <1>7, JobStoreAssumption DEF Renew, RunnerTypeOK, history
<1>8. ASSUME NEW w \in Workers, HandlerReturns(w) PROVE RunnerTypeOK'
  <2>1. cur[w] \in Jobs /\ tryNo[w] \in Nat
    BY <1>8 DEF HandlerReturns, RunnerInv, InHand, Busy, At
  <2> QED
    BY <1>1, <1>8, <2>1 DEF HandlerReturns, RunnerTypeOK
<1>9. ASSUME NEW w \in Workers, ReportsOk(w) PROVE RunnerTypeOK'
  BY <1>1, <1>9 DEF ReportsOk, RunnerTypeOK, history
<1>10. ASSUME NEW w \in Workers, HeartbeatFails(w) PROVE RunnerTypeOK'
  <2>1. faults' \in 0..MaxFaults
    BY <1>10, JobRunnerAssumption DEF HeartbeatFails, Fault, RunnerTypeOK
  <2> QED
    BY <1>1, <1>10, <2>1 DEF HeartbeatFails, RunnerTypeOK
<1>11. CASE Time
  BY <1>1, <1>11, JobStoreAssumption DEF Time, RunnerTypeOK, history
<1>12. CASE Request
  BY <1>1, <1>12 DEF Request, RunnerTypeOK, procs, history
<1>13. CASE UNCHANGED allVars
  BY <1>1, <1>13 DEF allVars, procs, history, RunnerTypeOK
<1> QED
  BY <1>2, <1>3, <1>4, <1>5, <1>6, <1>7, <1>8, <1>9, <1>10, <1>11, <1>12, <1>13
  DEF RunnerNext, Advance

-----------------------------------------------------------------------------
LEMMA InitRunner == RunnerInit => RunnerTypeOK /\ RunnerInv
<1> SUFFICES ASSUME RunnerInit PROVE RunnerTypeOK /\ RunnerInv
  OBVIOUS
<1>1. TypeOK
  BY JobStoreAssumption DEF RunnerInit, Init, TypeOK, Status, Left
<1>2. RunnerTypeOK
  BY <1>1, JobStoreAssumption, JobRunnerAssumption DEF RunnerInit, RunnerTypeOK
<1>3. ProcTypes
  BY <1>1, <1>2 DEF RunnerTypeOK, TypeOK, ProcTypes
<1>4. \A w \in Workers : ~Busy(w)
  BY DEF RunnerInit, Busy
<1>5. \A j \in Jobs : status[j] # "completed"
  BY DEF RunnerInit, Init
<1> QED
  BY <1>2, <1>3, <1>4, <1>5 DEF RunnerInv, InHand, AttemptRunsOnce, CompletionEarned

LEMMA AlwaysRunner == RunnerSpec => [](RunnerTypeOK /\ RunnerInv)
<1>1. RunnerTypeOK /\ RunnerInv /\ [RunnerNext]_allVars => (RunnerTypeOK /\ RunnerInv)'
  BY RunnerTypeStep, RunnerStep
<1> QED
  BY <1>1, InitRunner, PTL DEF RunnerSpec

\* The process state of the workers is always well typed: none works on a job
\* that is not there.
THEOREM RunnerTypeCorrect == RunnerSpec => []RunnerTypeOK
  BY AlwaysRunner, PTL

\* A completed job was completed by an attempt whose own handler returned ok,
\* for any number of crashes, lost heartbeats and stale timestamps.
THEOREM EarnedCompletion == RunnerSpec => []CompletionEarned
<1>1. RunnerInv => CompletionEarned
  BY DEF RunnerInv
<1> QED
  BY <1>1, AlwaysRunner, PTL

\* No two processes ever work on the same attempt of a job.
THEOREM SoleAttempt == RunnerSpec => []AttemptRunsOnce
<1>1. RunnerInv => AttemptRunsOnce
  BY DEF RunnerInv
<1> QED
  BY <1>1, AlwaysRunner, PTL

\* Whatever the processes do, crashes included, is a behaviour of the queue
\* alone: each theorem about JobStore's Spec holds of the running system.
THEOREM RunnersUseQueue == RunnerSpec => Spec
<1>1. RunnerInit => Init
  BY DEF RunnerInit
<1> QED
  BY <1>1, QueueStep, AlwaysRunner, PTL DEF RunnerSpec, Spec
-----------------------------------------------------------------------------
(* Overlapping handlers, when threads renew in time.  While a process beats *)
(* the job in its hand is its own, with at least the lease a renewal that   *)
(* waited longest left, and with its resource row; or the job was cancelled *)
(* under it, and the row still keeps everybody else out.                    *)

Guarded(j, w, n) ==
    /\ \/ status[j] = "running" /\ owner[j] = w /\ left[j] >= n
       \/ status[j] = "cancelled"
    /\ KeyOf[j] # NoResource => rjob[KeyOf[j]] = j /\ rleft[KeyOf[j]] >= n

Protected(w) ==
    /\ Beating(w) =>
          /\ tryNo[w] = attempt[cur[w]]
          /\ age[w] < Lease - MaxLag
          /\ Guarded(cur[w], w, Lease - MaxLag - age[w])
    /\ pc[w] \notin {"handle", "report", "notify"} => age[w] = 0

\* A transaction that ends jobs not guarded, with their rows or without.
LEMMA SettleGuarded ==
  ASSUME TypeOK, NEW S \in SUBSET Jobs, NEW new, Settle(S, new),
         DropRows(RowsOf(S)) \/ UNCHANGED leases,
         NEW j \in Jobs, NEW w \in Workers, NEW n, Guarded(j, w, n), j \notin S
  PROVE  attempt'[j] = attempt[j] /\ Guarded(j, w, n)'
<1>1. /\ attempt'[j] = attempt[j] /\ status'[j] = status[j]
      /\ owner'[j] = owner[j] /\ left'[j] = left[j]
  BY DEF Settle
<1>2. ASSUME KeyOf[j] # NoResource, rjob[KeyOf[j]] = j
      PROVE  rjob'[KeyOf[j]] = j /\ rleft'[KeyOf[j]] = rleft[KeyOf[j]]
  BY <1>2, JobStoreAssumption DEF DropRows, RowsOf, leases
<1> QED
  BY <1>1, <1>2 DEF Guarded

\* Nobody else's transaction takes a guarded job or its row.
LEMMA WorkerGuards ==
  ASSUME TypeOK, Inv, NEW v \in Workers, WorkerStep(v),
         NEW j \in Jobs, NEW w \in Workers, v # w, NEW n \in Nat \ {0}, Guarded(j, w, n)
  PROVE  attempt'[j] = attempt[j] /\ Guarded(j, w, n)'
<1> USE JobStoreAssumption
<1>1. /\ status[j] \in {"running", "cancelled"}
      /\ status[j] = "running" => owner[j] = w /\ left[j] >= n
      /\ left[j] \in Int
  BY DEF Guarded, TypeOK, Left
<1>2. ASSUME NEW lag \in Lags
      PROVE  ~Eligible(j, lag) /\ ~Owned(j, v, lag) /\ j \notin Recoverable(v, lag)
  <2>1. lag \in Nat /\ ~(status[j] = "running" /\ left[j] <= -lag)
    BY <1>1 DEF Lags
  <2> QED
    BY <1>1, <2>1 DEF Eligible, Owned, Recoverable
<1>3. ASSUME NEW lag \in Lags, NEW S \in Selections(v), NEW i \in Jobs, ClaimJob(v, S, i, lag)
      PROVE  attempt'[j] = attempt[j] /\ Guarded(j, w, n)'
  <2> DEFINE X == {k \in Exhausted(v, S, lag) : Before(k, i)}
  <2>1. i # j /\ CanLock(v, S, i, lag)
    BY <1>2, <1>3 DEF ClaimJob, Claimable
  <2>2. j \notin X /\ X \subseteq {k \in Jobs : Eligible(k, lag)}
    BY <1>2 DEF Exhausted, Selections
  <2>3. /\ attempt'[j] = attempt[j] /\ status'[j] = status[j]
        /\ owner'[j] = owner[j] /\ left'[j] = left[j]
    BY <1>3, <2>1, <2>2 DEF ClaimJob, TypeOK
  <2>4. ASSUME KeyOf[j] # NoResource, rjob[KeyOf[j]] = j, rleft[KeyOf[j]] >= n
        PROVE  rjob'[KeyOf[j]] = j /\ rleft'[KeyOf[j]] >= n
    <3>1. KeyOf[j] \in Resources
      BY <2>4
    <3>2. lag \in Nat /\ rleft[KeyOf[j]] \in Int
      BY <3>1 DEF Lags, TypeOK, Left
    <3>3. ~(rleft[KeyOf[j]] <= -lag)
      BY <2>4, <3>2
    <3>4. KeyOf[i] # KeyOf[j]
      BY <2>1, <2>2, <2>4, <3>3 DEF CanLock
    <3> QED
      BY <1>3, <2>2, <2>4, <3>1, <3>4 DEF ClaimJob
  <2> QED
    BY <2>3, <2>4 DEF Guarded
<1>4. ASSUME NEW lag \in Lags, NEW S \in Selections(v), ClaimNothing(v, S, lag)
      PROVE  attempt'[j] = attempt[j] /\ Guarded(j, w, n)'
  <2>1. Exhausted(v, S, lag) \in SUBSET Jobs /\ j \notin Exhausted(v, S, lag)
    BY <1>2 DEF Selections, Exhausted
  <2> QED
    BY <1>4, <2>1, SettleGuarded DEF ClaimNothing
<1>5. ASSUME NEW lag \in Lags, NEW i \in Jobs, Heartbeat(v, i, lag)
      PROVE  attempt'[j] = attempt[j] /\ Guarded(j, w, n)'
  <2>1. i # j
    BY <1>2, <1>5 DEF Heartbeat
  <2>2. left'[j] = left[j] /\ UNCHANGED <<status, attempt, owner, rjob>>
    BY <1>5, <2>1 DEF Heartbeat, TypeOK
  <2>3. ASSUME KeyOf[j] # NoResource, rjob[KeyOf[j]] = j
        PROVE  rleft'[KeyOf[j]] = rleft[KeyOf[j]]
    BY <1>5, <2>1, <2>3 DEF Heartbeat, HeldBy
  <2> QED
    BY <2>2, <2>3 DEF Guarded
<1>6. ASSUME NEW lag \in Lags, NEW i \in Jobs,
             Complete(v, i, lag) \/ Fail(v, i, lag) \/ FailTerminal(v, i, lag)
      PROVE  attempt'[j] = attempt[j] /\ Guarded(j, w, n)'
  <2>1. Owned(i, v, lag)
    BY <1>6 DEF Complete, Fail, FailTerminal
  <2>2. HeldBy(i, v) = RowsOf({i})
    BY <2>1, OwnerHoldsRows
  <2>3. j \notin {i} /\ {i} \in SUBSET Jobs
    BY <1>2, <2>1
  <2>4. CASE Complete(v, i, lag)
    BY <2>2, <2>3, <2>4, SettleGuarded DEF Complete
  <2>5. CASE Fail(v, i, lag)
    BY <2>2, <2>3, <2>5, SettleGuarded DEF Fail
  <2>6. CASE FailTerminal(v, i, lag)
    BY <2>2, <2>3, <2>6, SettleGuarded DEF FailTerminal
  <2> QED
    BY <1>6, <2>4, <2>5, <2>6
<1>7. ASSUME NEW lag \in Lags, RecoverExpired(v, lag)
      PROVE attempt'[j] = attempt[j] /\ Guarded(j, w, n)'
  <2>1. Recoverable(v, lag) \in SUBSET Jobs
    BY DEF Recoverable
  <2> QED
    BY <1>2, <1>7, <2>1, SettleGuarded DEF RecoverExpired
<1> QED
  BY <1>3, <1>4, <1>5, <1>6, <1>7 DEF WorkerStep

\* Nor does the API, but for a cancelling, which leaves the row.
LEMMA RequestGuards ==
  ASSUME TypeOK, Request, NEW j \in Jobs, NEW w \in Workers,
         NEW n \in Nat \ {0}, Guarded(j, w, n)
  PROVE  attempt'[j] = attempt[j] /\ Guarded(j, w, n)'
<1>1. ASSUME NEW B \in Batches, Enqueue(B) PROVE attempt'[j] = attempt[j] /\ Guarded(j, w, n)'
  BY <1>1 DEF Enqueue, leases, Guarded
<1>2. ASSUME NEW i \in Jobs, Reconcile(i)
      PROVE  attempt'[j] = attempt[j] /\ Guarded(j, w, n)'
  <2>1. j \notin {i} /\ {i} \in SUBSET Jobs
    BY <1>2 DEF Reconcile, Guarded
  <2> QED
    BY <1>2, <2>1, SettleGuarded DEF Reconcile
<1>3. ASSUME NEW i \in Jobs, i # j, Cancel(i)
      PROVE  attempt'[j] = attempt[j] /\ Guarded(j, w, n)'
  <2>1. j \notin {i} /\ {i} \in SUBSET Jobs
    BY <1>3
  <2> QED
    BY <1>3, <2>1, SettleGuarded DEF Cancel
<1>4. ASSUME Cancel(j) PROVE attempt'[j] = attempt[j] /\ Guarded(j, w, n)'
  <2>1. status'[j] = "cancelled" /\ attempt'[j] = attempt[j] /\ UNCHANGED leases
    BY <1>4 DEF Cancel, Settle
  <2> QED
    BY <2>1 DEF Guarded, leases
<1> QED
  BY <1>1, <1>2, <1>3, <1>4 DEF Request

\* Time shortens the lease and the row alike.
LEMMA TimeGuards ==
  ASSUME TypeOK, Tick, NEW j \in Jobs, NEW w \in Workers, NEW n \in Nat \ {0}, Guarded(j, w, n)
  PROVE  attempt'[j] = attempt[j] /\ Guarded(j, w, n - 1)'
<1>1. ASSUME NEW m \in Int, m >= n PROVE Older(m) >= n - 1
  BY <1>1, JobStoreAssumption DEF Older
<1>2. left[j] \in Int /\ attempt' = attempt /\ owner' = owner /\ status' = status /\ rjob' = rjob
  BY DEF TypeOK, Left, Tick
<1>3. status[j] = "running" => left'[j] = Older(left[j])
  BY DEF Tick
<1>4. ASSUME KeyOf[j] # NoResource
      PROVE  rjob'[KeyOf[j]] = j /\ rleft'[KeyOf[j]] >= n - 1
  <2>1. KeyOf[j] \in Resources /\ rjob[KeyOf[j]] = j /\ j # NoJob /\ rleft[KeyOf[j]] >= n
    BY <1>4, JobStoreAssumption DEF Guarded
  <2>2. rleft'[KeyOf[j]] = Older(rleft[KeyOf[j]]) /\ rleft[KeyOf[j]] \in Int
    BY <2>1 DEF Tick, TypeOK, Left
  <2> QED
    BY <1>1, <1>2, <2>1, <2>2
<1>5. status[j] = "running" => left[j] >= n /\ owner[j] = w
  BY DEF Guarded
<1>6. status[j] = "running" => left'[j] >= n - 1
  BY <1>1, <1>2, <1>3, <1>5
<1>7. status[j] = "running" \/ status[j] = "cancelled"
  BY DEF Guarded
<1> QED
  BY <1>2, <1>4, <1>5, <1>6, <1>7 DEF Guarded

\* What a process does to itself keeps it protected.
LEMMA ActorProtected ==
  ASSUME MaxLag < Lease, RunnerTypeOK, RunnerInv, Inv, NEW w \in Workers, Protected(w),
         Advance(w) \/ Renew(w) \/ Exit(w) \/ HeartbeatFails(w)
  PROVE  Protected(w)'
<1> USE JobStoreAssumption
<1>0. \A lag \in Lags : lag \in Nat /\ Lease - lag >= Lease - MaxLag - 0 /\ Lease - MaxLag - 0 \in Nat \ {0}
  BY DEF Lags
<1>1. ASSUME NEW next \in {"down", "sweep", "recover", "poll"}, Rest(w, next)
      PROVE  Protected(w)'
  BY <1>1 DEF Rest, RunnerTypeOK, Protected, Beating, At
<1>2. CASE Launch(w) \/ LosesLease(w) \/ Sweep(w) \/ Notify(w) \/ Exit(w)
           \/ Recover(w) \/ ReportsError(w)
  BY <1>1, <1>2 DEF Launch, LosesLease, Sweep, Notify, Exit, Recover, ReportsError
<1>3. CASE Claim(w)
  <2>1. PICK lag \in Lags, j \in Jobs : /\ ClaimJob(w, CanRun[w], j, lag)
                          /\ cur' = [cur EXCEPT ![w] = j]
                          /\ tryNo' = [tryNo EXCEPT ![w] = attempt[j] + 1]
    BY <1>3 DEF Claim
  <2>2. /\ pc' = [pc EXCEPT ![w] = "handle"] /\ UNCHANGED age
        /\ pc[w] = "poll"
    BY <1>3 DEF Claim, At
  <2>3. age'[w] = 0 /\ cur'[w] = j /\ tryNo'[w] = attempt'[j]
    BY <2>1, <2>2 DEF Protected, ClaimJob, RunnerTypeOK, TypeOK
  <2>4. /\ status'[j] = "running" /\ owner'[j] = w /\ left'[j] = Lease - lag
        /\ KeyOf[j] # NoResource => rjob'[KeyOf[j]] = j /\ rleft'[KeyOf[j]] = Lease - lag
    BY <2>1 DEF ClaimJob
  <2>5. Guarded(j, w, Lease - MaxLag - 0)'
    BY <1>0, <2>4 DEF Guarded
  <2>6. Guarded(cur[w], w, Lease - MaxLag - age[w])'
    BY <2>3, <2>5 DEF Guarded
  <2>7. age'[w] < Lease - MaxLag
    BY <1>0, <2>3
  <2> QED
    BY <2>2, <2>3, <2>6, <2>7 DEF Protected, RunnerTypeOK
<1>4. CASE Idle(w)
  BY <1>4 DEF Idle, procs, Protected, Beating, At
<1>5. CASE Renew(w)
  <2>1. /\ pc[w] = "handle" /\ beat[w] = "on" /\ UNCHANGED <<pc, cur, tryNo>>
        /\ Beating(w)
    BY <1>5 DEF Renew, At, Beating
  <2>2. ASSUME NEW lag \in Lags, Heartbeat(w, cur[w], lag), age' = [age EXCEPT ![w] = 0],
               UNCHANGED beat
        PROVE  Protected(w)'
    <3> DEFINE r == KeyOf[cur[w]]
    <3>1. /\ status[cur[w]] = "running" /\ owner[cur[w]] = w /\ cur[w] \in Jobs
          /\ UNCHANGED <<status, attempt, owner, rjob>>
      BY <2>1, <2>2 DEF Heartbeat, Owned, RunnerInv, InHand, Busy
    <3>2. left'[cur[w]] = Lease - lag
      BY <2>2, <3>1 DEF Heartbeat, RunnerTypeOK, TypeOK
    <3>3. age'[w] = 0
      BY <2>2 DEF RunnerTypeOK
    <3>4. ASSUME r # NoResource PROVE rjob'[r] = cur[w] /\ rleft'[r] = Lease - lag
      <4>1. r \in Resources
        BY <3>1, <3>4
      <4>2. /\ Guarded(cur[w], w, Lease - MaxLag - age[w])
            /\ age[w] \in Nat /\ age[w] < Lease - MaxLag
        BY <2>1 DEF Protected, RunnerTypeOK
      <4>3. rjob[r] = cur[w] /\ rleft[r] >= Lease - MaxLag - age[w]
        BY <3>4, <4>2 DEF Guarded
      <4>4. rworker[r] = w
        BY <3>1, <4>1, <4>3 DEF Inv, NoLeakedResource
      <4>5. rleft[r] > -lag
        <5>1. rleft[r] \in Int
          BY <4>1 DEF RunnerTypeOK, TypeOK, Left
        <5> QED
          BY <1>0, <4>2, <4>3, <5>1
      <4>6. r \in HeldBy(cur[w], w)
        BY <4>1, <4>3, <4>4 DEF HeldBy
      <4>7. rleft'[r] = Lease - lag
        BY <2>2, <4>1, <4>5, <4>6 DEF Heartbeat
      <4> QED
        BY <3>1, <4>3, <4>7
    <3>5. Guarded(cur[w], w, Lease - MaxLag - 0)'
      BY <1>0, <2>1, <3>1, <3>2, <3>4 DEF Guarded
    <3>6. Guarded(cur[w], w, Lease - MaxLag - age[w])'
      BY <3>3, <3>5 DEF Guarded
    <3>7. tryNo'[w] = attempt'[cur'[w]] /\ age'[w] < Lease - MaxLag /\ pc'[w] = "handle"
      BY <1>0, <2>1, <3>1, <3>3 DEF Protected
    <3> QED
      BY <3>6, <3>7 DEF Protected
  <2>3. CASE beat' = [beat EXCEPT ![w] = "lost"]
    BY <2>1, <2>3 DEF Protected, Beating, At, RunnerTypeOK
  <2> QED
    BY <1>5, <2>2, <2>3 DEF Renew
<1>6. CASE HandlerReturns(w)
  BY <1>6 DEF HandlerReturns, Protected, Beating, At, RunnerTypeOK
<1>7. CASE ReportsOk(w)
  BY <1>7 DEF ReportsOk, Protected, Beating, At, RunnerTypeOK
<1>8. CASE HeartbeatFails(w)
  BY <1>8 DEF HeartbeatFails, Protected, Beating, At, RunnerTypeOK
<1> QED
  BY <1>2, <1>3, <1>4, <1>5, <1>6, <1>7, <1>8 DEF Advance

\* What another process does leaves a process and what protects it alone.
LEMMA OthersProtected ==
  ASSUME RunnerTypeOK, RunnerInv, Inv, NEW v \in Workers,
         Advance(v) \/ Renew(v) \/ Exit(v) \/ HeartbeatFails(v),
         NEW w \in Workers, v # w, Protected(w)
  PROVE  Protected(w)'
<1>1. /\ pc'[w] = pc[w] /\ cur'[w] = cur[w] /\ tryNo'[w] = tryNo[w]
      /\ beat'[w] = beat[w] /\ age'[w] = age[w]
  <2>1. ASSUME NEW next, Rest(v, next)
        PROVE  /\ pc'[w] = pc[w] /\ cur'[w] = cur[w] /\ tryNo'[w] = tryNo[w]
               /\ beat'[w] = beat[w] /\ age'[w] = age[w]
    BY <2>1 DEF Rest, RunnerTypeOK
  <2>2. CASE Launch(v) \/ LosesLease(v) \/ Sweep(v) \/ Notify(v) \/ Exit(v)
             \/ Recover(v) \/ ReportsError(v)
    BY <2>1, <2>2 DEF Launch, LosesLease, Sweep, Notify, Exit, Recover, ReportsError
  <2>3. CASE Claim(v) \/ Idle(v) \/ Renew(v)
    BY <2>3 DEF Claim, Idle, Renew, procs, RunnerTypeOK
  <2>4. CASE HandlerReturns(v) \/ ReportsOk(v) \/ HeartbeatFails(v)
    BY <2>4 DEF HandlerReturns, ReportsOk, HeartbeatFails, RunnerTypeOK
  <2> QED
    BY <2>2, <2>3, <2>4 DEF Advance
<1>2. WorkerStep(v) \/ UNCHANGED vars
  <2>1. Busy(v) => cur[v] \in Jobs
    BY DEF RunnerInv, InHand
  <2>2. CASE Recover(v) \/ Claim(v) \/ Idle(v)
    BY <2>2 DEF Recover, Claim, Idle, WorkerStep, Selections
  <2>3. CASE Renew(v) \/ ReportsOk(v) \/ ReportsError(v)
    BY <2>1, <2>3 DEF Renew, ReportsOk, ReportsError, WorkerStep, At, Busy
  <2>4. CASE Launch(v) \/ Sweep(v) \/ HandlerReturns(v) \/ LosesLease(v)
             \/ Notify(v) \/ Exit(v) \/ HeartbeatFails(v)
    BY <2>4 DEF Launch, Sweep, HandlerReturns, LosesLease, Notify, Exit, HeartbeatFails
  <2> QED
    BY <2>2, <2>3, <2>4 DEF Advance
<1>3. CASE ~Beating(w)
  BY <1>1, <1>3 DEF Protected, Beating, At
<1>4. CASE Beating(w)
  <2>1. cur[w] \in Jobs /\ Lease - MaxLag - age[w] \in Nat \ {0}
    <3>1. cur[w] \in Jobs
      BY <1>4 DEF RunnerInv, InHand, Busy, Beating, At
    <3>2. age[w] \in 0..Lease /\ age[w] < Lease - MaxLag
      BY <1>4 DEF Protected, RunnerTypeOK
    <3> QED
      BY <3>1, <3>2, JobStoreAssumption
  <2>2. PICK j \in Jobs, n \in Nat \ {0} : j = cur[w] /\ n = Lease - MaxLag - age[w]
    BY <2>1
  <2>3. tryNo[w] = attempt[j] /\ age[w] < Lease - MaxLag /\ Guarded(j, w, n)
    BY <1>4, <2>2 DEF Protected
  <2>4. attempt'[j] = attempt[j] /\ Guarded(j, w, n)'
    <3>1. CASE WorkerStep(v)
      BY <2>3, <3>1, WorkerGuards DEF RunnerTypeOK
    <3>2. CASE UNCHANGED vars
      BY <2>3, <3>2 DEF vars, Guarded
    <3> QED
      BY <1>2, <3>1, <3>2
  <2>5. /\ tryNo'[w] = attempt'[cur'[w]] /\ age'[w] < Lease - MaxLag
        /\ Guarded(cur[w], w, Lease - MaxLag - age[w])'
    BY <1>1, <2>2, <2>3, <2>4 DEF Guarded
  <2>6. pc'[w] = "handle"
    BY <1>1, <1>4 DEF Beating, At
  <2> QED
    BY <2>5, <2>6 DEF Protected
<1> QED
  BY <1>3, <1>4

LEMMA ProtectedStep ==
  ASSUME MaxLag < Lease, Prompt, RunnerTypeOK, RunnerInv, Inv,
         \A w \in Workers : Protected(w), [RunnerNext]_allVars
  PROVE  \A w \in Workers : Protected(w)'
<1> SUFFICES ASSUME NEW w \in Workers PROVE Protected(w)'
  OBVIOUS
<1>1. ASSUME NEW v \in Workers, Advance(v) \/ Renew(v) \/ Exit(v) \/ HeartbeatFails(v)
      PROVE  Protected(w)'
  BY <1>1, ActorProtected, OthersProtected
<1>2. CASE ~Beating(w) /\ (Request \/ UNCHANGED allVars)
  BY <1>2 DEF Request, procs, allVars, Protected, Beating, At
<1>3. CASE ~Beating(w) /\ Time
  BY <1>3 DEF Time, Protected, Beating, At, RunnerTypeOK
<1>4. CASE Beating(w) /\ (Request \/ Time \/ UNCHANGED allVars)
  <2>1. cur[w] \in Jobs /\ Lease - MaxLag - age[w] \in Nat \ {0}
    <3>1. cur[w] \in Jobs
      BY <1>4 DEF RunnerInv, InHand, Busy, Beating, At
    <3>2. age[w] \in 0..Lease /\ age[w] < Lease - MaxLag
      BY <1>4 DEF Protected, RunnerTypeOK
    <3> QED
      BY <3>1, <3>2, JobStoreAssumption
  <2>2. PICK j \in Jobs, n \in Nat \ {0} : j = cur[w] /\ n = Lease - MaxLag - age[w]
    BY <2>1
  <2>3. tryNo[w] = attempt[j] /\ age[w] < Lease - MaxLag /\ Guarded(j, w, n)
    BY <1>4, <2>2 DEF Protected
  <2>4. UNCHANGED <<pc, cur, tryNo, beat>>
    BY <1>4 DEF Request, Time, allVars, procs
  <2>5. /\ attempt'[j] = attempt[j] /\ age'[w] < Lease - MaxLag
        /\ \E m \in Nat : m = Lease - MaxLag - age'[w] /\ Guarded(j, w, m)'
    <3>1. CASE Request
      <4>1. age' = age
        BY <3>1 DEF Request, procs
      <4> QED
        BY <2>2, <2>3, <3>1, <4>1, RequestGuards DEF RunnerTypeOK
    <3>2. CASE Time
      <4>1. age'[w] = age[w] + 1 /\ age[w] < Lease - MaxLag - 1 /\ Tick
        BY <1>4, <2>3, <3>2, JobStoreAssumption DEF Time, RunnerTypeOK
      <4>2. n - 1 \in Nat /\ n - 1 = Lease - MaxLag - age'[w] /\ age'[w] < Lease - MaxLag
        BY <2>2, <4>1, JobStoreAssumption DEF RunnerTypeOK
      <4>3. attempt'[j] = attempt[j] /\ Guarded(j, w, n - 1)'
        BY <2>3, <4>1, TimeGuards DEF RunnerTypeOK
      <4> QED
        BY <4>2, <4>3
    <3>3. CASE UNCHANGED allVars
      BY <2>2, <2>3, <3>3 DEF allVars, vars, procs, Guarded
    <3> QED
      BY <1>4, <3>1, <3>2, <3>3
  <2>6. Guarded(cur[w], w, Lease - MaxLag - age[w])'
    BY <2>2, <2>4, <2>5 DEF Guarded
  <2>7. tryNo'[w] = attempt'[cur'[w]] /\ pc'[w] = "handle"
    BY <1>4, <2>2, <2>3, <2>4, <2>5 DEF Beating, At
  <2> QED
    BY <2>5, <2>6, <2>7 DEF Protected
<1> QED
  BY <1>1, <1>2, <1>3, <1>4 DEF RunnerNext

\* Two protected processes at work have different jobs and different resources.
LEMMA ProtectedApart ==
  ASSUME RunnerTypeOK, RunnerInv, \A w \in Workers : Protected(w)
  PROVE  OverlapNeedsLostHeartbeat
<1> SUFFICES ASSUME NEW v \in Workers, NEW w \in Workers, v # w, Compete(v, w),
                    Beating(v), Beating(w)
             PROVE  FALSE
  BY DEF OverlapNeedsLostHeartbeat
<1>1. /\ cur[v] \in Jobs /\ tryNo[v] = attempt[cur[v]] /\ Guarded(cur[v], v, Lease - MaxLag - age[v])
      /\ cur[w] \in Jobs /\ tryNo[w] = attempt[cur[w]] /\ Guarded(cur[w], w, Lease - MaxLag - age[w])
  BY DEF Protected, RunnerInv, InHand, Busy, Beating, At
<1>2. Busy(v) /\ Busy(w)
  BY DEF Busy, Beating, At
<1>3. cur[v] # cur[w]
  BY <1>1, <1>2 DEF RunnerInv, AttemptRunsOnce
<1>4. /\ KeyOf[cur[v]] # NoResource => rjob[KeyOf[cur[v]]] = cur[v]
      /\ KeyOf[cur[w]] # NoResource => rjob[KeyOf[cur[w]]] = cur[w]
  BY <1>1 DEF Guarded
<1> QED
  BY <1>3, <1>4 DEF Compete

\* While heartbeat threads renew in time, no two handlers ever work on the same
\* job or on the same resource, even when one's job was cancelled under it and
\* however long, short of a lease, each writer waits for the database.
THEOREM BeatingExcludes ==
  ASSUME MaxLag < Lease, Prompt
  PROVE  RunnerSpec => []OverlapNeedsLostHeartbeat
<1>1. RunnerInit => \A w \in Workers : Protected(w)
  BY DEF RunnerInit, Protected, Beating, At
<1>2. /\ RunnerTypeOK /\ RunnerInv /\ Inv
      /\ (\A w \in Workers : Protected(w)) /\ [RunnerNext]_allVars
      => (\A w \in Workers : Protected(w))'
  BY ProtectedStep
<1>3. RunnerTypeOK /\ RunnerInv /\ (\A w \in Workers : Protected(w))
      => OverlapNeedsLostHeartbeat
  BY ProtectedApart
<1>4. RunnerSpec => [](TypeOK /\ Inv)
  BY RunnersUseQueue, AlwaysInv, PTL
<1> QED
  BY <1>1, <1>2, <1>3, <1>4, AlwaysRunner, PTL DEF RunnerSpec

-----------------------------------------------------------------------------
(* Voice takes: a human decision always stands on a verified take, and the *)
(* writers of a take use the worker processes.                             *)

Reviewed(t) == t.review \in Decisions => t.qa = "verified"

\* Every copy still to be written back: a QA copy is of an unverified take, an
\* alignment copy of any take the row has held, a review copy of a verified one.
CopiesSound ==
    /\ \A w \in Workers :
          /\ seen[w] # NoTake => At(w, "handle") /\ seen[w] \in Takes /\ Reviewed(seen[w])
          /\ In(w, "write", QaJobs) => seen[w] # NoTake /\ seen[w].qa # "verified"
          /\ In(w, "write", AlignJobs) => seen[w] # NoTake
          /\ ~At(w, "handle") => step[w] = "start"
    /\ desk # NoTake => desk \in Takes /\ desk.qa = "verified"

CopyTypes ==
    /\ ProcTypes
    /\ take \in Takes
    /\ step \in [Workers -> {"start", "asr", "write"}]
    /\ seen \in [Workers -> Takes \cup {NoTake}]

TakeInv == CopyTypes /\ CopiesSound /\ ReviewedTakeVerified

-----------------------------------------------------------------------------
\* A process in its handler that stays there keeps its job.
KeepsJob(w) == pc[w] = "handle" /\ pc'[w] = "handle" => cur'[w] = cur[w]

LEMMA AdvanceKeepsJob ==
  ASSUME ProcTypes, NEW v \in Workers,
         \/ Advance(v) \/ Renew(v) \/ Exit(v) \/ HeartbeatFails(v)
  PROVE  \A w \in Workers : /\ KeepsJob(w)
                            /\ pc'[w] = "handle" => pc[w] = "handle" \/ ~At(v, "handle")
<1> DEFINE Goal == \A w \in Workers : /\ KeepsJob(w)
                                      /\ pc'[w] = "handle" => pc[w] = "handle" \/ ~At(v, "handle")
<1>1. CASE Launch(v)
  BY <1>1 DEF Launch, Rest, At, KeepsJob, ProcTypes
<1>2. CASE Sweep(v)
  BY <1>2 DEF Sweep, Rest, At, KeepsJob, ProcTypes
<1>3. CASE Recover(v)
  BY <1>3 DEF Recover, Rest, At, KeepsJob, ProcTypes
<1>4. CASE Claim(v)
  <2>1. /\ pc[v] = "poll"
        /\ \A w \in Workers : w # v => cur'[w] = cur[w] /\ pc'[w] = pc[w]
    BY <1>4 DEF Claim, At, ProcTypes
  <2> QED
    BY <2>1 DEF KeepsJob, At
<1>5. CASE Idle(v)
  BY <1>5 DEF Idle, procs, KeepsJob
<1>6. CASE HandlerReturns(v)
  BY <1>6 DEF HandlerReturns, At, KeepsJob, ProcTypes
<1>7. CASE LosesLease(v)
  BY <1>7 DEF LosesLease, Rest, At, KeepsJob, ProcTypes
<1>8. CASE ReportsOk(v)
  BY <1>8 DEF ReportsOk, At, KeepsJob, ProcTypes
<1>9. CASE ReportsError(v)
  BY <1>9 DEF ReportsError, Rest, At, KeepsJob, ProcTypes
<1>10. CASE Notify(v)
  BY <1>10 DEF Notify, Rest, At, KeepsJob, ProcTypes
<1>11. CASE Renew(v)
  BY <1>11 DEF Renew, KeepsJob
<1>12. CASE Exit(v)
  BY <1>12 DEF Exit, Rest, At, KeepsJob, ProcTypes
<1>13. CASE HeartbeatFails(v)
  BY <1>13 DEF HeartbeatFails, KeepsJob
<1> QED
  BY <1>1, <1>2, <1>3, <1>4, <1>5, <1>6, <1>7, <1>8, <1>9, <1>10, <1>11, <1>12, <1>13
     DEF Advance

LEMMA HandleUsesRunner ==
  ASSUME NEW w \in Workers, Handle(w)
  PROVE  HandlerReturns(w) \/ UNCHANGED allVars
BY DEF Handle, QaReads, QaRefuses, QaWrites, AsrFails, AlignStarts, AlignReads,
       AlignWrites, AlignRefuses, Goes, Ends

LEMMA StepUsesRunner == [VoiceNext]_voiceVars => [RunnerNext]_allVars
<1> SUFFICES ASSUME VoiceNext PROVE RunnerNext \/ UNCHANGED allVars
  BY DEF voiceVars
<1>1. ASSUME NEW w \in Workers, Handle(w) PROVE RunnerNext \/ UNCHANGED allVars
  BY <1>1, HandleUsesRunner DEF RunnerNext, Advance
<1>2. ASSUME NEW w \in Workers, Around(w) PROVE RunnerNext
  BY <1>2 DEF Around, RunnerNext
<1>3. CASE Time /\ UNCHANGED voice
  BY <1>3 DEF RunnerNext
<1>4. CASE DeskReads \/ DeskWrites
  BY <1>4 DEF DeskReads, DeskWrites
<1>5. CASE DeskQueues
  <2>1. \A j \in Jobs : {j} \in Batches
    BY VoiceTakeAssumption DEF Batches
  <2>2. Request
    BY <1>5, <2>1 DEF DeskQueues, Request
  <2> QED
    BY <2>2 DEF RunnerNext
<1> QED
  BY <1>1, <1>2, <1>3, <1>4, <1>5 DEF VoiceNext

\* The writers of a take are worker processes and requests as JobRunner has
\* them, so all that is proved of the queue and its processes holds here.
THEOREM TakesUseRunners == VoiceSpec => RunnerSpec
<1>1. VoiceInit => RunnerInit
  BY DEF VoiceInit
<1> QED
  BY <1>1, StepUsesRunner, PTL DEF VoiceSpec, RunnerSpec

-----------------------------------------------------------------------------
(* Preservation, one lemma per kind of step.                               *)

\* A handler that goes on reads or changes only its own copy and place.
LEMMA HandlerGoesOn ==
  ASSUME TakeInv, NEW w \in Workers, QaReads(w) \/ AlignStarts(w) \/ AlignReads(w)
  PROVE  TakeInv'
<1>1. UNCHANGED <<pc, cur, take, desk>> /\ UNCHANGED <<attempt, procs>>
  BY DEF QaReads, AlignStarts, AlignReads, Goes, allVars, procs, vars
<1>2. ProcTypes'
  BY <1>1 DEF TakeInv, CopyTypes, ProcTypes, procs
<1>3. CASE QaReads(w)
  BY <1>1, <1>2, <1>3, VoiceTakeAssumption
     DEF QaReads, TakeInv, CopyTypes, CopiesSound, ReviewedTakeVerified, Reviewed, In, At, Goes
<1>4. CASE AlignStarts(w)
  BY <1>1, <1>2, <1>4, VoiceTakeAssumption
     DEF AlignStarts, TakeInv, CopyTypes, CopiesSound, ReviewedTakeVerified, Reviewed, In, At, Goes
<1>5. CASE AlignReads(w)
  BY <1>1, <1>2, <1>5, VoiceTakeAssumption
     DEF AlignReads, TakeInv, CopyTypes, CopiesSound, ReviewedTakeVerified, Reviewed, In, At, Goes
<1> QED
  BY <1>3, <1>4, <1>5

Fresh(w) == seen[w] = NoTake /\ step[w] = "start"

\* Copies go with their handlers; the others are as they were.
LEMMA CopiesKept ==
  ASSUME TakeInv, ProcTypes', Keep, UNCHANGED desk, \A w \in Workers : KeepsJob(w),
         \A w \in Workers : pc'[w] = "handle" => pc[w] = "handle" \/ Fresh(w),
         take' \in Takes, Reviewed(take')
  PROVE  TakeInv'
<1>1. CopyTypes'
  BY DEF TakeInv, CopyTypes, Keep
<1>2. CopiesSound'
  BY VoiceTakeAssumption DEF TakeInv, CopyTypes, CopiesSound, Keep, KeepsJob, Fresh, In, At, Reviewed
<1> QED
  BY <1>1, <1>2 DEF TakeInv, ReviewedTakeVerified, Reviewed

LEMMA HandlerEnds ==
  ASSUME TakeInv, ProcTypes', NEW w \in Workers, HandlerReturns(w), Keep, UNCHANGED desk,
         take' \in Takes, Reviewed(take')
  PROVE  TakeInv'
<1>1. \A v \in Workers : KeepsJob(v) /\ (pc'[v] = "handle" => pc[v] = "handle" \/ ~At(w, "handle"))
  BY AdvanceKeepsJob DEF Advance, TakeInv, CopyTypes
<1>2. At(w, "handle")
  BY DEF HandlerReturns
<1>3. /\ \A v \in Workers : KeepsJob(v)
      /\ \A v \in Workers : pc'[v] = "handle" => pc[v] = "handle" \/ Fresh(v)
  BY <1>1, <1>2
<1> QED
  BY <1>3, CopiesKept

LEMMA TakeStep ==
  ASSUME TakeInv, ProcTypes', [VoiceNext]_voiceVars
  PROVE  TakeInv'
<1>1. ASSUME NEW w \in Workers, Handle(w) PROVE TakeInv'
  <2>1. CASE QaReads(w) \/ AlignStarts(w) \/ AlignReads(w)
    BY <2>1, HandlerGoesOn
  <2>2. CASE QaRefuses(w) \/ AsrFails(w) \/ AlignRefuses(w)
    BY <2>2, HandlerEnds
       DEF QaRefuses, AsrFails, AlignRefuses, Ends, TakeInv, CopyTypes, Reviewed, ReviewedTakeVerified
  <2>3. CASE QaWrites(w)
    <3>1. seen[w] \in Takes /\ seen[w].qa # "verified" /\ Reviewed(seen[w])
      BY <2>3 DEF QaWrites, TakeInv, CopiesSound
    <3>2. HandlerReturns(w) /\ Keep /\ UNCHANGED desk
      BY <2>3 DEF QaWrites, Ends
    <3>3. PICK verified \in BOOLEAN, timed \in BOOLEAN :
             take' = [qa |-> IF verified THEN "verified" ELSE "failed",
                      review |-> IF verified THEN "pending" ELSE seen[w].review,
                      words |-> seen[w].words \/ timed]
      BY <2>3 DEF QaWrites
    <3>4. take' \in Takes /\ Reviewed(take')
      BY <3>1, <3>3 DEF Takes, Reviewed, Decisions
    <3> QED
      BY <3>2, <3>4, HandlerEnds
  <2>4. CASE AlignWrites(w)
    <3>1. seen[w] \in Takes /\ Reviewed(seen[w])
      BY <2>4 DEF AlignWrites, TakeInv, CopiesSound
    <3>2. take' = [seen[w] EXCEPT !.words = TRUE] /\ HandlerReturns(w) /\ Keep /\ UNCHANGED desk
      BY <2>4 DEF AlignWrites, Ends
    <3>3. take' \in Takes /\ Reviewed(take')
      BY <3>1, <3>2 DEF Takes, Reviewed
    <3> QED
      BY <3>2, <3>3, HandlerEnds
  <2> QED
    BY <1>1, <2>1, <2>2, <2>3, <2>4 DEF Handle
<1>2. ASSUME NEW w \in Workers, Around(w) PROVE TakeInv'
  <2>1. \A v \in Workers : KeepsJob(v) /\ (pc'[v] = "handle" => pc[v] = "handle" \/ ~At(w, "handle"))
    BY <1>2, AdvanceKeepsJob DEF Around, TakeInv, CopyTypes
  <2>2. \A v \in Workers : pc'[v] = "handle" => pc[v] = "handle" \/ Fresh(v)
    BY DEF TakeInv, CopiesSound, At, Fresh
  <2>3. Keep /\ UNCHANGED <<take, desk>>
    BY <1>2 DEF Around
  <2>4. take' \in Takes /\ Reviewed(take')
    BY <2>3 DEF TakeInv, CopyTypes, ReviewedTakeVerified, Reviewed
  <2> QED
    BY <2>1, <2>2, <2>3, <2>4, CopiesKept
<1>3. CASE (Time /\ UNCHANGED voice) \/ DeskQueues \/ UNCHANGED voiceVars
  <2>1. UNCHANGED <<pc, cur, take, step, seen, desk>>
    BY <1>3 DEF Time, DeskQueues, procs, voice, voiceVars, allVars
  <2> QED
    BY <2>1 DEF TakeInv, CopyTypes, CopiesSound, ReviewedTakeVerified, Reviewed, In, At
<1>4. CASE DeskReads
  <2>1. UNCHANGED <<pc, cur, take, step, seen>> /\ desk' = take /\ take.qa = "verified"
    BY <1>4 DEF DeskReads, procs, allVars
  <2> QED
    BY <2>1 DEF TakeInv, CopyTypes, CopiesSound, ReviewedTakeVerified, Reviewed, In, At
<1>5. CASE DeskWrites
  <2>1. /\ UNCHANGED <<pc, cur, step, seen>> /\ desk' = NoTake
        /\ desk \in Takes /\ desk.qa = "verified"
    BY <1>5 DEF DeskWrites, procs, allVars, TakeInv, CopiesSound
  <2>2. take' \in Takes /\ take'.qa = "verified"
    BY <1>5, <2>1 DEF DeskWrites, Takes, Decisions
  <2> QED
    BY <2>1, <2>2 DEF TakeInv, CopyTypes, CopiesSound, ReviewedTakeVerified, Reviewed, In, At
<1> QED
  BY <1>1, <1>2, <1>3, <1>4, <1>5 DEF VoiceNext

LEMMA AlwaysTakeInv == VoiceSpec => [](ProcTypes /\ TakeInv)
<1>1. VoiceInit /\ ProcTypes => TakeInv
  BY VoiceTakeAssumption
     DEF VoiceInit, RunnerInit, TakeInv, CopyTypes, CopiesSound, ReviewedTakeVerified,
         Takes, Decisions, In, At
<1>2. TakeInv /\ ProcTypes' /\ [VoiceNext]_voiceVars => TakeInv'
  BY TakeStep
<1>3. RunnerSpec => []ProcTypes
  <2>1. RunnerTypeOK => ProcTypes
    BY DEF RunnerTypeOK, TypeOK, ProcTypes
  <2> QED
    BY <2>1, RunnerTypeCorrect, PTL
<1> QED
  BY <1>1, <1>2, <1>3, TakesUseRunners, PTL DEF VoiceSpec

\* In every run of the system, with any number of QA and alignment jobs in any
\* number of processes, a decided take is a verified one.
THEOREM DecisionsOnVerified == VoiceSpec => []ReviewedTakeVerified
<1>1. TakeInv => ReviewedTakeVerified
  BY DEF TakeInv
<1> QED
  BY <1>1, AlwaysTakeInv, PTL

-----------------------------------------------------------------------------
(* What a decision survives.                                               *)

\* The reviewer's copy is of an undecided take.
DeskOpen == desk # NoTake => desk.review \notin Decisions

LEMMA DeskStep == DeskOpen /\ [VoiceNext]_voiceVars => DeskOpen'
<1> SUFFICES ASSUME DeskOpen, [VoiceNext]_voiceVars PROVE DeskOpen'
  OBVIOUS
<1>1. CASE UNCHANGED desk
  BY <1>1 DEF DeskOpen
<1>2. ASSUME NEW w \in Workers, Handle(w) \/ Around(w) PROVE UNCHANGED desk
  BY <1>2 DEF Handle, QaReads, QaRefuses, QaWrites, AsrFails, AlignStarts, AlignReads,
              AlignWrites, AlignRefuses, Goes, Around
<1>3. CASE (Time /\ UNCHANGED voice) \/ DeskQueues \/ UNCHANGED voiceVars
  BY <1>1, <1>3 DEF DeskQueues, voice, voiceVars
<1>4. CASE DeskReads
  BY <1>4 DEF DeskReads, DeskOpen
<1>5. CASE DeskWrites
  BY <1>5 DEF DeskWrites, DeskOpen
<1> QED
  BY <1>1, <1>2, <1>3, <1>4, <1>5 DEF VoiceNext

LEMMA DecisionStep ==
  ASSUME TakeInv, DeskOpen, VoiceNext, take.review \in Decisions
  PROVE  \/ take'.review = take.review
         \/ \E c \in Copies \ {NoTake} : c.review # take.review
<1>1. CASE UNCHANGED take
  BY <1>1
<1>2. ASSUME NEW w \in Workers, QaWrites(w)
      PROVE  \E c \in Copies \ {NoTake} : c.review # take.review
  <2>1. seen[w] # NoTake /\ seen[w].review \notin Decisions
    BY <1>2 DEF QaWrites, TakeInv, CopiesSound, Reviewed
  <2> QED
    BY <2>1 DEF Copies
<1>3. ASSUME NEW w \in Workers, AlignWrites(w), take'.review # take.review
      PROVE  \E c \in Copies \ {NoTake} : c.review # take.review
  <2>1. seen[w] # NoTake /\ seen[w] \in Takes
    BY <1>3 DEF AlignWrites, TakeInv, CopiesSound
  <2>2. take'.review = seen[w].review
    BY <1>3, <2>1 DEF AlignWrites, Takes
  <2> QED
    BY <1>3, <2>1, <2>2 DEF Copies
<1>4. CASE DeskWrites
  <2>1. desk # NoTake /\ desk.review # take.review
    BY <1>4 DEF DeskWrites, DeskOpen
  <2> QED
    BY <2>1 DEF Copies
<1>5. ASSUME NEW w \in Workers, Handle(w) \/ Around(w), ~QaWrites(w), ~AlignWrites(w)
      PROVE  UNCHANGED take
  BY <1>5 DEF Handle, QaReads, QaRefuses, AsrFails, AlignStarts, AlignReads, AlignRefuses,
              Around
<1>6. CASE (Time /\ UNCHANGED voice) \/ DeskReads \/ DeskQueues
  BY <1>6 DEF DeskReads, DeskQueues, voice
<1> QED
  BY <1>1, <1>2, <1>3, <1>4, <1>5, <1>6 DEF VoiceNext

\* A decision is erased or replaced only by somebody who read the take before
\* it was made, however many jobs, lapses and retries follow it.
THEOREM DecisionsKept == VoiceSpec => DecisionKept
<1>1. VoiceInit => DeskOpen
  BY DEF VoiceInit, DeskOpen
<1>2. TakeInv /\ DeskOpen /\ [VoiceNext]_voiceVars =>
        [take.review \in Decisions =>
            \/ take'.review = take.review
            \/ \E c \in Copies \ {NoTake} : c.review # take.review]_voiceVars
  BY DecisionStep
<1> QED
  BY <1>1, <1>2, DeskStep, AlwaysTakeInv, PTL DEF VoiceSpec, DecisionKept
=============================================================================
