------------------------ MODULE MCEvaluationTalking ------------------------
(***************************************************************************)
(* One granted scene: a trial and its correction.                          *)
(***************************************************************************)
EXTENDS EvaluationTalking, TLC

CONSTANTS first, corrected, scene

MCReceipts == {first, corrected}
MCSceneOf == [r \in MCReceipts |-> scene]
MCTrialOf == [r \in MCReceipts |-> IF r = corrected THEN "t2" ELSE "t1"]
MCCorrects == {<<first, corrected>>}
MCGranted == {scene}

\* Trials meet only where one replaces the other: of others one is enough.
MCTheyMeet == corrected \in Made => heir[first] = corrected

\* Where a handler's Facts are still asked for.
MCLooking(w) == work[w].at \in {"ready", "reserved", "cleared", "launched", "staged", "checked"}

\* An import matters only to a handler whose Facts it changes, and a withdrawal
\* before its trial is begun is like a trial never begun, or like an import.
MCFelt ==
    /\ imports' # imports => \E w \in DOMAIN work : MCLooking(w) /\ work[w].seen = Facts
    /\ withdrawn' # withdrawn => withdrawn' \subseteq Made \cup {Plan}

\* Facts only grow, so of what a handler saw it matters only whether it is
\* still so, and only while a guard may ask.  Nothing asks for loose.
MCView ==
    <<withdrawn, imports, batch, slot, heir, job, saved, passed, reviewed, call,
      pins, launches, faults,
      [w \in DOMAIN work |-> <<work[w].at, MCLooking(w) /\ work[w].seen = Facts>>]>>
=============================================================================
