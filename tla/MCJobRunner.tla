---------------------------- MODULE MCJobRunner ----------------------------
(***************************************************************************)
(* Small instances of JobRunner.  Job 1 is a Talking job a ProductionRun    *)
(* waits for, job 2 an evaluation job that may be cancelled while it runs;  *)
(* both need the GPU.                                                       *)
(***************************************************************************)
EXTENDS JobRunnerProps

CONSTANTS w1, w2, gpu

MCJobs == 1..2
MCKeyOf == [j \in Jobs |-> gpu]
Single == [j \in Jobs |-> NoSeries]
MCIndexOf == [j \in Jobs |-> j]
MCCanRun == [w \in Workers |-> Jobs]
\* The second worker serves Talking jobs only.
LiveCanRun == [w \in Workers |-> IF w = w1 THEN Jobs ELSE {1}]
MCMaxAttempts == [w \in Workers |-> IF w = w1 THEN 1 ELSE 2]
=============================================================================
