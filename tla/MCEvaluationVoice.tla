------------------------- MODULE MCEvaluationVoice -------------------------
(***************************************************************************)
(* Two drafts for one once-only admission and one of an ordinary one, that *)
(* may all come out as the same bytes, beside a user's upload of them.     *)
(***************************************************************************)
EXTENDS EvaluationVoice, TLC

CONSTANTS first, again, other, take, once, plain, qa, useA, useB

MCDrafts == {first, again, other}
MCBytes == {take}
MCGrantOf == [d \in MCDrafts |-> IF d = other THEN plain ELSE once]
MCOnce == {once}
MCQaGrantOf == [b \in MCBytes |-> qa]
MCUses == {useA, useB}
MCUseFor == [u \in MCUses |-> take]
MCSymmetry == Permutations({first, again}) \cup Permutations({useA, useB})
=============================================================================
