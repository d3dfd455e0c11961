---------------------------- MODULE JobLifecycle ----------------------------
(***************************************************************************)
(* What the job queue promises, without tables, clocks or resources: a job *)
(* is submitted once, granted to one worker at a time, each grant is one   *)
(* try, and nobody takes a job from a holder whose lease is live.  JobStore *)
(* implements it (JobStoreProps!Lifecycle).                                 *)
(***************************************************************************)
EXTENDS Naturals

CONSTANTS Jobs, Workers, NoWorker

VARIABLES
    phase,   \* "absent", "pending", "running" or how the job ended
    tries,   \* grants so far
    holder,  \* the worker of the last grant while the job runs
    live     \* is the holder's lease unexpired?

vars == <<phase, tries, holder, live>>

Init ==
    /\ phase = [j \in Jobs |-> "absent"]
    /\ tries = [j \in Jobs |-> 0]
    /\ holder = [j \in Jobs |-> NoWorker]
    /\ live = [j \in Jobs |-> FALSE]

Moves(j, from, to) == phase[j] \in from /\ phase'[j] = to

Unheld(j) == holder'[j] = NoWorker /\ ~live'[j] /\ tries'[j] = tries[j]

Submit(j) == Moves(j, {"absent"}, "pending") /\ Unheld(j)

\* Only a job nobody holds, or whose holder's lease has run out.
Grant(j) ==
    /\ Moves(j, {"pending", "running"}, "running")
    /\ ~live[j]
    /\ tries'[j] = tries[j] + 1
    /\ holder'[j] \in Workers

\* The lease runs out or is renewed.
Keep(j) ==
    /\ Moves(j, {"running"}, "running")
    /\ tries'[j] = tries[j] /\ holder'[j] = holder[j]

\* The holder's report, or a lease that ran out: another try or the end.
Release(j) ==
    /\ \/ Moves(j, {"running"}, "pending")
       \/ Moves(j, {"running"}, "completed")
       \/ Moves(j, {"pending", "running"}, "failed") /\ tries[j] > 0
    /\ Unheld(j)

Withdraw(j) == Moves(j, {"pending", "running"}, "cancelled") /\ Unheld(j)

\* A saved result completes a job that ended as failed.
Adopt(j) == Moves(j, {"failed"}, "completed") /\ Unheld(j)

Same(j) ==
    /\ phase'[j] = phase[j] /\ tries'[j] = tries[j]
    /\ holder'[j] = holder[j] /\ live'[j] = live[j]

JobStep(j) ==
    \/ Submit(j) \/ Grant(j) \/ Keep(j) \/ Release(j)
    \/ Withdraw(j) \/ Adopt(j) \/ Same(j)

\* One transaction may move several jobs but grants at most one.
Next ==
    /\ \A j \in Jobs : JobStep(j)
    /\ \A i, j \in Jobs : tries'[i] # tries[i] /\ tries'[j] # tries[j] => i = j

Spec == Init /\ [][Next]_vars
=============================================================================
