---------------------------- MODULE MCVoiceTake ----------------------------
(***************************************************************************)
(* Two jobs on one take: two QA jobs (a run's own and one requested by     *)
(* hand), or one QA and one alignment job.  None of them needs a resource. *)
(***************************************************************************)
EXTENDS VoiceTake, TLC

MCJobs == QaJobs \cup AlignJobs
MCKeyOf == [j \in Jobs |-> NoResource]
MCSeriesOf == [j \in Jobs |-> NoSeries]
MCIndexOf == [j \in Jobs |-> j]
MCCanRun == [w \in Workers |-> Jobs]
MCMaxAttempts == [w \in Workers |-> 2]
MCSymmetry == Permutations(Workers)
=============================================================================
