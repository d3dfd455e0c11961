--------------------------- MODULE JobRunnerProps ---------------------------
(***************************************************************************)
(* What the worker processes promise over the queue: safety across crashes *)
(* and lost leases, and that the work gets done.                           *)
(***************************************************************************)
EXTENDS JobRunner

Busy(w) == pc[w] \in {"handle", "report"}
Ended(j) == status[j] \in Terminal

\* A completed job was completed by an attempt whose own handler returned
\* without an error, never by a late report of an earlier attempt or of a
\* process that has since been replaced (run_once, _owned_running_job).
CompletionEarned ==
    \A j \in Jobs \ Reconcilable :
       status[j] = "completed" => <<j, attempt[j]>> \in returned

\* One attempt is worked on by one process: whoever else still runs a handler
\* of the same job does so for an older attempt and finds its lease lost.
AttemptRunsOnce ==
    /\ \A v, w \in Workers :
          Busy(v) /\ Busy(w) /\ cur[v] = cur[w] /\ tryNo[v] = tryNo[w] => v = w
    /\ \A w \in Workers : Busy(w) => tryNo[w] <= attempt[cur[w]]

\* Handlers of one job, or on one resource, overlap only after a heartbeat
\* thread has ended; while both threads renew in time the leases exclude it.
Compete(v, w) ==
    /\ At(v, "handle") /\ At(w, "handle")
    /\ \/ cur[v] = cur[w]
       \/ KeyOf[cur[v]] = KeyOf[cur[w]] /\ KeyOf[cur[v]] # NoResource

OverlapNeedsLostHeartbeat ==
    \A v, w \in Workers : v # w /\ Compete(v, w) => ~Beating(v) \/ ~Beating(w)

-----------------------------------------------------------------------------
\* Every submitted job without earlier slices ends, in spite of the faults:
\* expired leases and resource rows are taken over, attempts run out.
Settles ==
    \A j \in Jobs : Preceding(j) = {} => (status[j] = "pending" ~> Ended(j))

\* The completion of a Voice or Talking job reaches its ProductionRun: at once,
\* or by the sweep of the next start when the callback was lost.
CompletionFollowed ==
    \A j \in FollowUp : status[j] = "completed" ~> j \in followed
=============================================================================
