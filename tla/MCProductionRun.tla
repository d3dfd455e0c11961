-------------------------- MODULE MCProductionRun --------------------------
(***************************************************************************)
(* Runs of one project that share its takes and its draft.                 *)
(***************************************************************************)
EXTENDS ProductionRun, TLC

MCSymmetry == Permutations(Runs)
=============================================================================
