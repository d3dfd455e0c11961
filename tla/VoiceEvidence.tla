--------------------------- MODULE VoiceEvidence ---------------------------
(***************************************************************************)
(* What is known of a recording: the automatic check of its words against   *)
(* the copy, and where the pauses of the copy are in it: voice_qa.py,       *)
(* voice_boundary_alignment.py and voice_observation.py.                    *)
(***************************************************************************)
EXTENDS NarrationDelivery

CONSTANTS
    Tolerance,    \* of so many words one may be heard as another one (20)
    MaxLeading,   \* before the first sound (500 ms)
    MaxSilence,   \* anywhere (2000 ms)
    MinQuiet      \* that counts as a pause (30 ms)

ASSUME EvidenceAssumption ==
    {Tolerance, MaxLeading, MaxSilence, MinQuiet} \subseteq Nat \ {0}

\* comparison_tokens: the marks that are heard, in order.
Tokens(copy) == SelectSeq(copy, LAMBDA m : m \notin {",", ".", " "})

-----------------------------------------------------------------------------
(***************************************************************************)
(* _alignment_counts: the longest block common to both, the earliest of     *)
(* them, then what is before and after it in the same way.                  *)
(***************************************************************************)
\* Mutant: what stands for fewer words than it replaces loses none of them.
GapAnyLength(m, n) ==
    [missing |-> IF n = 0 THEN m ELSE 0, extra |-> IF m = 0 THEN n ELSE 0, changed |-> Min({m, n})]

\* m words of the copy stand where n are heard.
Gap(m, n) ==
    LET both == Min({m, n}) IN [missing |-> m - both, extra |-> n - both, changed |-> both]

Plus(g, h) ==
    [missing |-> g.missing + h.missing, extra |-> g.extra + h.extra, changed |-> g.changed + h.changed]

Differences(target, heard) ==
    LET Common(a, b, c, d) ==   \* blocks of target in a + 1..b and of heard in c + 1..d
            {x \in ((a + 1)..b) \X ((c + 1)..d) \X (1..Len(target)) :
                /\ x[1] + x[3] - 1 =< b /\ x[2] + x[3] - 1 =< d
                /\ \A k \in 0..(x[3] - 1) : target[x[1] + k] = heard[x[2] + k]}
        Better(x, y) ==
            \/ x[3] > y[3]
            \/ x[3] = y[3] /\ (x[1] < y[1] \/ (x[1] = y[1] /\ x[2] =< y[2]))
        Block(s) == CHOOSE x \in s : \A y \in s : Better(x, y)
        count[a, b \in 0..Len(target), c, d \in 0..Len(heard)] ==
            IF Common(a, b, c, d) = {} THEN Gap(b - a, d - c)
            ELSE LET x == Block(Common(a, b, c, d))
                 IN  Plus(count[a, x[1] - 1, c, x[2] - 1],
                          count[x[1] + x[3] - 1, b, x[2] + x[3] - 1, d])
    IN  count[0, Len(target), 0, Len(heard)]

\* What the recogniser timed within the recording, earliest first.
Timed(segments, duration) ==
    SetToSortSeq({s \in segments : 0 =< s.start /\ s.start < s.end /\ s.end =< duration},
                 LAMBDA s, t : s.start < t.start \/ (s.start = t.start /\ s.end < t.end))

\* Mutant: what is quiet after the last words is not looked at.
WithoutTail(timed, duration) ==
    IF timed = <<>> THEN duration
    ELSE Max({timed[1].start} \cup {timed[k + 1].start - timed[k].end : k \in 1..(Len(timed) - 1)})

LongestSilence(timed, duration) ==
    IF timed = <<>> THEN duration
    ELSE Max({timed[1].start, duration - timed[Len(timed)].end}
             \cup {timed[k + 1].start - timed[k].end : k \in 1..(Len(timed) - 1)})

\* The sound of a WAV says when it begins; of other files the recogniser does.
Leading(q, timed) ==
    IF q.wave THEN q.onset ELSE IF timed = <<>> THEN q.duration ELSE timed[1].start

Verdict(q) ==
    LET target == Tokens(q.copy)
        d == Differences(target, q.heard)
        timed == Timed(q.segments, q.duration)
    IN  /\ q.playable /\ timed # <<>>
        /\ d.missing = 0 /\ d.extra = 0 /\ Tolerance * d.changed =< Len(target)
        /\ Leading(q, timed) =< MaxLeading
        /\ LongestSilence(timed, q.duration) =< MaxSilence

\* verify_generated_voice, for a recording and what was recognised in it.
Verify ==
    /\ answer = Nothing /\ asked.rule = "verify"
    /\ AnswersOneOf({[kind |-> "verdict", verified |-> Verdict(q)] : q \in {asked}})

-----------------------------------------------------------------------------
(***************************************************************************)
(* align_voice_boundaries and _boundary_observation: a place of the copy    *)
(* is between two timed words, or segments, or it is not timed at all.      *)
(***************************************************************************)
\* Tokens, or segments of words, one after the other within the recording.
InOrder(timed, duration) ==
    /\ timed # <<>>
    /\ \A k \in DOMAIN timed :
        /\ 0 =< timed[k].start /\ timed[k].start < timed[k].end /\ timed[k].end =< duration
        /\ timed[k].words # <<>>
        /\ k > 1 => timed[k - 1].end =< timed[k].start

Spoken(timed) == FlattenSeq([k \in DOMAIN timed |-> timed[k].words])

Aligned(q) ==
    /\ InOrder(q.timed, q.duration)
    /\ Spoken(q.timed) = Tokens(q.copy)

\* After so many words of the copy, which two timed parts are around.
After(timed, position) ==
    {k \in 1..(Len(timed) - 1) : Len(Spoken(SubSeq(timed, 1, k))) = position}

\* Mutant: quiet that goes on under a word counts too.
Overlapping(quiet, start, end) == {z \in quiet : z.start < end /\ z.end > start}

\* What is quiet in the gap, if none of it goes on under a word.
Definite(quiet, start, end) ==
    LET meeting == {z \in quiet : z.start < end /\ z.end > start}
    IN  IF \A z \in meeting : start =< z.start /\ z.end =< end THEN meeting ELSE {}

Boundary(q, k) ==
    LET gaps == After(q.timed, Len(Tokens(SubSeq(q.copy, 1, k))))
    IN  [at |-> k, kind |-> BoundaryKind(q.copy, k), timed |-> gaps # {},
         quiet |-> UNION {LET start == q.timed[g].end
                              end == q.timed[g + 1].start
                          IN  IF end - start >= MinQuiet THEN Definite(q.quiet, start, end) ELSE {}
                          : g \in gaps}]

Length(quiet) == FoldSet(LAMBDA z, sum : sum + z.end - z.start, 0, quiet)

\* A clause rests longer than a sentence, where both were measured.
Hierarchy(boundaries) ==
    \E b, c \in boundaries :
        /\ b.kind = "continuing" /\ c.kind = "terminal" /\ b.quiet # {} /\ c.quiet # {}
        /\ Length(b.quiet) > Length(c.quiet)

\* An interval of the copy that begins and ends between timed parts.
Paced(q, r) ==
    LET from == Len(Tokens(SubSeq(q.copy, 1, r.start)))
        to == Len(Tokens(SubSeq(q.copy, 1, r.end)))
        starts == IF from = 0 THEN {q.timed[1].start} ELSE {q.timed[g + 1].start : g \in After(q.timed, from)}
        ends == IF to = Len(Tokens(q.copy)) THEN {q.timed[Len(q.timed)].end}
                ELSE {q.timed[g].end : g \in After(q.timed, to)}
    IN  {[words |-> to - from, start |-> s, end |-> e] : s \in starts, e \in {x \in ends : to > from}}

Observed(q) ==
    LET boundaries == {Boundary(q, k) : k \in {n \in DOMAIN q.copy : BoundaryKind(q.copy, n) # "no_break"}}
    IN  [kind |-> "observed", boundaries |-> boundaries, review |-> Hierarchy(boundaries),
         sentences |-> UNION {Paced(q, Sentences(q.copy)[n]) : n \in DOMAIN Sentences(q.copy)}]

Observe ==
    /\ answer = Nothing /\ asked.rule = "observe"
    /\ AnswersOneOf({Observed(q) : q \in {r \in {asked} : Aligned(r)}})

-----------------------------------------------------------------------------
(***************************************************************************)
(* What may be concluded from what is known of a recording.                *)
(***************************************************************************)
\* A verified recording says the copy word for word: as many words, each in its
\* place but for a few the recogniser took for another, and no stretch of it is
\* left longer than allowed without recognised words.
SaysCopy(q) ==
    LET target == Tokens(q.copy)
        wrong == {k \in DOMAIN target : k \in DOMAIN q.heard /\ q.heard[k] # target[k]}
        covered == {t \in 0..(q.duration - 1) : \E s \in q.segments : s.start =< t /\ t < s.end}
    IN  /\ Len(q.heard) = Len(target) /\ Tolerance * Cardinality(wrong) =< Len(target)
        /\ \A t \in 0..(q.duration - MaxSilence - 1) : (t..(t + MaxSilence)) \cap covered # {}

\* The exact copy, heard in good time, is never refused.
Fair(q) ==
    /\ q.playable /\ q.heard = Tokens(q.copy)
    /\ q.segments = {[start |-> 0, end |-> q.duration]} /\ q.onset = 0
    => answer.verified

\* What is quiet at a boundary is quiet between its words: no timed word is
\* heard in it, those before the boundary are over and the others to come.
QuietBetween(q, b) ==
    LET before == Len(Tokens(SubSeq(q.copy, 1, b.at)))
    IN  \A z \in b.quiet :
            /\ z \in q.quiet
            /\ \A k \in DOMAIN q.timed :
                IF Len(Spoken(SubSeq(q.timed, 1, k))) =< before
                THEN q.timed[k].end =< z.start ELSE z.end =< q.timed[k].start

\* No two sentences are timed over the same moment, and each has words.
Apart(sentences) ==
    /\ \A s \in sentences : s.words > 0 /\ s.start < s.end
    /\ \A s, t \in sentences : s # t => s.end =< t.start \/ t.end =< s.start

\* "Never turn arbitrary ASR disagreement into a pass", and "only PCM quiet wholly
\* inside an exact-copy word gap is definite boundary quiet".
EvidenceSound ==
    /\ answer.kind = "verdict" => Fair(asked) /\ (answer.verified => SaysCopy(asked))
    /\ answer.kind = "observed" =>
        /\ \A b \in answer.boundaries : QuietBetween(asked, b) /\ (b.quiet # {} => b.timed)
        /\ Apart(answer.sentences)
        /\ Spoken(asked.timed) = Tokens(asked.copy)

\* From the suggestion to what is concluded from the recording.
NarrationSound == DeliverySound /\ EvidenceSound
=============================================================================
