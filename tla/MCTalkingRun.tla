---------------------------- MODULE MCTalkingRun ----------------------------
(***************************************************************************)
(* The Talking lane of one run.                                            *)
(***************************************************************************)
EXTENDS TalkingRun, TLC

MCSymmetry == Permutations(Scenes) \cup Permutations(Contents)
=============================================================================
