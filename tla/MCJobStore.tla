----------------------------- MODULE MCJobStore -----------------------------
(***************************************************************************)
(* Small instances of JobStore.  Jobs 1 and 2 are the slices of one Talking *)
(* series, job 3 is a Talking evaluation job that may be stopped while it   *)
(* runs, job 4 a composition render; 1, 2 and 3 need the GPU.               *)
(***************************************************************************)
EXTENDS JobStoreProps, RunPanel

CONSTANTS w1, w2, gpu, s

MCJobs == 1..4
MCKeyOf == [j \in Jobs |-> IF j = 4 THEN NoResource ELSE gpu]
MCSeriesOf == [j \in Jobs |-> IF j \in {1, 2} THEN s ELSE NoSeries]
\* The later slice sorts first: all slices of a series have one created_at,
\* and their ids are random.
MCIndexOf == [j \in Jobs |-> IF j = 1 THEN 1 ELSE 0]
MCCanRun == [w \in Workers |-> IF w = w1 THEN Jobs ELSE Jobs \ {4}]
MCMaxAttempts == [w \in Workers |-> IF w = w1 THEN 2 ELSE 1]

-----------------------------------------------------------------------------
(* Small machines that do not touch the queue are checked beside it: a     *)
(* behaviour is of the queue or of one of them.  Of the others each rests. *)
VARIABLE machine

AtRest == "rests"

PageRests ==
    /\ saved = AtRest /\ page = AtRest /\ panel = AtRest /\ section = AtRest
    /\ bookmark = AtRest /\ runs = AtRest /\ requests = AtRest /\ clicks = AtRest

\* What the page shows and lets be clicked is of the run and the draft shown (RunPanel).
PageHolds == machine = "page" => PanelSound

QueueInit ==
    /\ Init
    /\ \/ machine = "queue" /\ PageRests
       \/ machine = "page" /\ PanelInit

\* A machine may come to its end; the queue may not.
QueueNext ==
    /\ UNCHANGED machine
    /\ \/ machine = "queue" /\ Next /\ UNCHANGED panelVars
       \/ machine = "page" /\ PanelNext /\ UNCHANGED vars
       \/ machine # "queue" /\ UNCHANGED <<vars, panelVars>>

QueueSpec == QueueInit /\ [][QueueNext]_<<vars, machine, panelVars>>
=============================================================================
