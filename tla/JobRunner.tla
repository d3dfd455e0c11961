----------------------------- MODULE JobRunner -----------------------------
(***************************************************************************)
(* The worker processes of services/api/app/jobs/{runner,worker}.py and    *)
(* worker_cli.py over the queue of JobStore: each process sweeps and       *)
(* recovers at its start, then claims one job at a time, runs its handler  *)
(* under a heartbeat thread, and reports.  Any process may crash anywhere. *)
(*                                                                         *)
(* Handlers are opaque: one returns with "ok", a retryable or a terminal   *)
(* error.  The run_forever loop claims over its own handler types, so      *)
(* NoHandler (reached by scripts only) is left out.                        *)
(***************************************************************************)
EXTENDS JobStore

CONSTANTS
    FollowUp,   \* Voice and Talking jobs a ProductionRun waits for
    QaReady,    \* workers whose job types include the QA of those jobs
    Prompt,     \* heartbeat threads renew before the lease runs out
    MaxFaults   \* crashes, stops and heartbeat or callback errors, together

ASSUME JobRunnerAssumption ==
    /\ FollowUp \subseteq Jobs /\ QaReady \subseteq Workers
    /\ Prompt \in BOOLEAN
    /\ MaxFaults \in Nat

VARIABLES
    pc,        \* where each worker process is
    cur,       \* job of the current run_once
    tryNo,     \* that job's attempt, as claimed
    beat,      \* _LeaseHeartbeat: "off", "on", "lost" or "failed"
    age,       \* ticks since that thread last renewed, at most Lease
    outcome,   \* what the handler returned
    followed,  \* jobs whose completion reached ProductionRunService
    returned,  \* history: attempts whose handler returned without an error
    faults     \* history: faults so far

procs == <<pc, cur, tryNo, beat, age, outcome>>
history == <<followed, returned, faults>>
allVars == <<vars, procs, history>>

Outcomes == {"ok", "retryable", "terminal"}

RunnerTypeOK ==
    /\ TypeOK
    /\ pc \in [Workers -> {"down", "sweep", "recover", "poll", "handle", "report", "notify"}]
    /\ cur \in [Workers -> Jobs \cup {NoJob}]
    /\ tryNo \in [Workers -> Nat]
    /\ beat \in [Workers -> {"off", "on", "lost", "failed"}]
    /\ age \in [Workers -> 0..Lease]
    /\ outcome \in [Workers -> Outcomes \cup {"none"}]
    /\ followed \subseteq FollowUp
    /\ returned \subseteq Jobs \X Nat
    /\ faults \in 0..MaxFaults

RunnerInit ==
    /\ Init
    /\ pc = [w \in Workers |-> "down"]
    /\ cur = [w \in Workers |-> NoJob]
    /\ tryNo = [w \in Workers |-> 0]
    /\ beat = [w \in Workers |-> "off"]
    /\ age = [w \in Workers |-> 0]
    /\ outcome = [w \in Workers |-> "none"]
    /\ followed = {} /\ returned = {} /\ faults = 0

-----------------------------------------------------------------------------
(* The process is left with nothing in hand at pc = next.                  *)
Rest(w, next) ==
    /\ pc' = [pc EXCEPT ![w] = next]
    /\ cur' = [cur EXCEPT ![w] = NoJob]
    /\ tryNo' = [tryNo EXCEPT ![w] = 0]
    /\ beat' = [beat EXCEPT ![w] = "off"]
    /\ age' = [age EXCEPT ![w] = 0]
    /\ outcome' = [outcome EXCEPT ![w] = "none"]

At(w, here) == pc[w] = here

Launch(w) == At(w, "down") /\ Rest(w, "sweep") /\ UNCHANGED <<vars, history>>

\* Mutant: no sweep at the start.
SweepNothing(w) ==
    At(w, "sweep") /\ Rest(w, "recover") /\ UNCHANGED <<vars, history>>

\* reconcile_completed_voice_jobs_once / _talking_jobs_once: without QA in its
\* job types the worker only records why nothing was handed on.
Sweep(w) ==
    /\ At(w, "sweep")
    /\ followed' = IF w \in QaReady
                   THEN followed \cup {j \in FollowUp : status[j] = "completed"}
                   ELSE followed
    /\ Rest(w, "recover")
    /\ UNCHANGED <<vars, returned, faults>>

Recover(w) ==
    /\ At(w, "recover")
    /\ \E lag \in Lags : RecoverExpired(w, lag)
    /\ Rest(w, "poll")
    /\ UNCHANGED history

\* run_once, up to the start of the heartbeat thread.
Claim(w) ==
    /\ At(w, "poll")
    /\ \E lag \in Lags, j \in Jobs :
          /\ ClaimJob(w, CanRun[w], j, lag)
          /\ cur' = [cur EXCEPT ![w] = j]
          /\ tryNo' = [tryNo EXCEPT ![w] = attempt[j] + 1]
    /\ pc' = [pc EXCEPT ![w] = "handle"]
    /\ beat' = [beat EXCEPT ![w] = "on"]
    /\ UNCHANGED <<age, outcome, history>>

\* claim returned None: wait for idle_interval and poll again.
Idle(w) ==
    /\ At(w, "poll")
    /\ \E lag \in Lags : ClaimNothing(w, CanRun[w], lag)
    /\ UNCHANGED <<procs, history>>

\* _LeaseHeartbeat._run, until it is told to stop; it never stops the handler.
Renew(w) ==
    /\ At(w, "handle") /\ beat[w] = "on"
    /\ \E lag \in Lags :
          \/ /\ Heartbeat(w, cur[w], lag)
             /\ age' = [age EXCEPT ![w] = 0]
             /\ UNCHANGED beat
          \/ /\ ~Owned(cur[w], w, lag)
             /\ beat' = [beat EXCEPT ![w] = "lost"]
             /\ UNCHANGED <<vars, age>>
    /\ UNCHANGED <<pc, cur, tryNo, outcome, history>>

\* The handler ends, and the heartbeat thread is stopped and joined.
HandlerReturns(w) ==
    /\ At(w, "handle")
    /\ \E o \in Outcomes :
          /\ outcome' = [outcome EXCEPT ![w] = o]
          /\ returned' = IF o = "ok" THEN returned \cup {<<cur[w], tryNo[w]>>} ELSE returned
    /\ pc' = [pc EXCEPT ![w] = "report"]
    /\ UNCHANGED <<vars, cur, tryNo, beat, age, followed, faults>>

\* ensure_healthy, or complete/fail returning None: LeaseLost leaves run_once,
\* run_forever and the process; nothing of the job is written.
LosesLease(w) ==
    /\ At(w, "report")
    /\ \/ beat[w] # "on"
       \/ \E lag \in Lags : ~Owned(cur[w], w, lag)
    /\ Rest(w, "down")
    /\ UNCHANGED <<vars, history>>

ReportsOk(w) ==
    /\ At(w, "report") /\ beat[w] = "on" /\ outcome[w] = "ok"
    /\ \E lag \in Lags : Complete(w, cur[w], lag)
    /\ pc' = [pc EXCEPT ![w] = "notify"]
    /\ UNCHANGED <<cur, tryNo, beat, age, outcome, history>>

\* _record_failure.
ReportsError(w) ==
    /\ At(w, "report") /\ beat[w] = "on"
    /\ \E lag \in Lags : \/ outcome[w] = "retryable" /\ Fail(w, cur[w], lag)
                         \/ outcome[w] = "terminal" /\ FailTerminal(w, cur[w], lag)
    /\ Rest(w, "poll")
    /\ UNCHANGED history

\* on_completed, in transactions of its own.
Notify(w) ==
    /\ At(w, "notify")
    /\ followed' = IF w \in QaReady THEN followed \cup ({cur[w]} \cap FollowUp) ELSE followed
    /\ Rest(w, "poll")
    /\ UNCHANGED <<vars, returned, faults>>

-----------------------------------------------------------------------------
(* Faults.                                                                 *)

Fault == faults < MaxFaults /\ faults' = faults + 1

\* A crash, an on_completed error or, at pc = "poll", the stop event: the
\* process ends and leaves the tables as they are.
Exit(w) ==
    /\ Fault
    /\ pc[w] # "down"
    /\ Rest(w, "down")
    /\ UNCHANGED <<vars, followed, returned>>

\* An SQLite error (a lock held past busy_timeout) ends the heartbeat thread.
HeartbeatFails(w) ==
    /\ Fault
    /\ At(w, "handle") /\ beat[w] = "on"
    /\ beat' = [beat EXCEPT ![w] = "failed"]
    /\ UNCHANGED <<vars, pc, cur, tryNo, age, outcome, followed, returned>>

-----------------------------------------------------------------------------
Beating(w) == At(w, "handle") /\ beat[w] = "on"

\* heartbeat_interval < lease_duration: a prompt thread renews in time, although
\* the last renewal and the next one each may wait for the write lock.
Time ==
    /\ Prompt => \A w \in Workers : Beating(w) => age[w] < Lease - MaxLag - 1
    /\ Tick
    /\ age' = [w \in Workers |-> IF Beating(w) /\ age[w] < Lease THEN age[w] + 1 ELSE age[w]]
    /\ UNCHANGED <<pc, cur, tryNo, beat, outcome, history>>

\* The API process.
Request ==
    /\ \/ \E B \in Batches : Enqueue(B)
       \/ \E j \in Jobs : Cancel(j) \/ Reconcile(j)
    /\ UNCHANGED <<procs, history>>

Advance(w) ==
    \/ Launch(w) \/ Sweep(w) \/ Recover(w) \/ Claim(w) \/ Idle(w)
    \/ HandlerReturns(w) \/ LosesLease(w) \/ ReportsOk(w) \/ ReportsError(w) \/ Notify(w)

RunnerNext ==
    \/ \E w \in Workers : Advance(w) \/ Renew(w) \/ Exit(w) \/ HeartbeatFails(w)
    \/ Request
    \/ Time

RunnerSpec == RunnerInit /\ [][RunnerNext]_allVars

\* A handler returns, a process goes on and is launched again, time passes.
Fairness == WF_allVars(Time) /\ \A w \in Workers : WF_allVars(Advance(w))

FairRunnerSpec == RunnerSpec /\ Fairness
=============================================================================
