------------------------------ MODULE PureCall ------------------------------
(***************************************************************************)
(* A rule of the program that keeps no state: it is asked once, and its    *)
(* answer is looked at. The modules of rules say what may be asked.        *)
(***************************************************************************)
EXTENDS Naturals, Sequences, FiniteSets

VARIABLES
    asked,   \* the input
    answer   \* what the rule makes of it

callVars == <<asked, answer>>

Nothing == [kind |-> "nothing"]
Refused == [kind |-> "refused"]

Ask(question) == asked = question /\ answer = Nothing

\* The one of the results, or a refusal where there is none.
AnswersOneOf(results) ==
    /\ \/ answer' \in results
       \/ results = {} /\ answer' = Refused
    /\ UNCHANGED asked

-----------------------------------------------------------------------------
\* The members of a finite set, each behind those that are before it.
Ranked(S, before(_, _)) ==
    [k \in 1..Cardinality(S) |->
        CHOOSE o \in S : Cardinality({p \in S : before(p, o)}) = k - 1]

Earlier(i, j) == i < j

\* What a sequence has at some of its places, in order.
Chosen(sequence, places) ==
    LET place == Ranked(places, Earlier)
    IN  [k \in 1..Cardinality(places) |-> sequence[place[k]]]
=============================================================================
