------------------------- MODULE NarrationDelivery -------------------------
(***************************************************************************)
(* How a narration is to be spoken: the assistant's suggestion, the plan    *)
(* compiled into segments of the exact copy, the units and spans a voice    *)
(* provider is asked for, and the takes put together again:                 *)
(* narration_performance.py and voice_performance.py.                       *)
(*                                                                         *)
(* A copy is a sequence of marks: "." closes a sentence, "," a clause, " "  *)
(* is blank, and of the words "t" turns, "a" asserts, "e" lists, "n" denies *)
(* something and "w" does nothing of these. Position k is after mark k.     *)
(***************************************************************************)
EXTENDS PureCall, Integers, Sequences, SequencesExt, FiniteSetsExt

\* How many marks what is denied may have, of 24.
CONSTANT MaxConcept

ASSUME DeliveryAssumption == MaxConcept \in Nat \ {0}

Silent(copy, s, e) == \A k \in (s + 1)..e : copy[k] = " "

Marks(copy, s, e) == {copy[k] : k \in (s + 1)..e}

Between(cuts) == [k \in 1..(Len(cuts) - 1) |-> [start |-> cuts[k], end |-> cuts[k + 1]]]

Ascending(positions) == SetToSortSeq(positions, <)

-----------------------------------------------------------------------------
(***************************************************************************)
(* A plan: cues of four kinds, at exact places of the copy.                 *)
(***************************************************************************)
Cue(kind, s, e, value) == [kind |-> kind, start |-> s, end |-> e, value |-> value]

Meet(c, d) == c.start < d.end /\ d.start < c.end

OneInstruction(c) == IF c.kind = "pause" THEN c.start = c.end ELSE c.start < c.end

\* Mutant: only one and the same range is taken for a conflict.
SameRange(cues) ==
    \A c, d \in cues : c.kind = d.kind /\ c # d => <<c.start, c.end>> # <<d.start, d.end>>

Unambiguous(cues) ==
    \A c, d \in cues : c.kind = d.kind /\ c # d =>
        IF c.kind = "pause" THEN c.start # d.start ELSE ~Meet(c, d)

Anchored(copy, c) == c.end =< Len(copy) /\ (c.kind = "pause" \/ ~Silent(copy, c.start, c.end))

Valid(copy, cues) ==
    /\ ~Silent(copy, 0, Len(copy)) /\ cues # {}
    /\ \A c \in cues : OneInstruction(c) /\ Anchored(copy, c)
    /\ Unambiguous(cues)

-----------------------------------------------------------------------------
(***************************************************************************)
(* suggest_narration_performance: what the look of the copy suggests.       *)
(***************************************************************************)
Sentences(copy) ==
    LET ends == {k \in DOMAIN copy : copy[k] = "." /\ (k = Len(copy) \/ copy[k + 1] # ".")}
    IN  SelectSeq(Between(Ascending({0, Len(copy)} \cup ends)),
                  LAMBDA r : ~Silent(copy, r.start, r.end))

\* What is denied in a sentence, from left to right, without outer blanks.
Concepts(copy, s, e) ==
    LET Extent(p) == Max({q \in p..Min({e, p + MaxConcept}) :
                             \A k \in (p + 1)..q : copy[k] \notin {",", "."}})
        Said(p) == {k \in (p + 1)..Extent(p) : copy[k] # " "}
        from[p \in (s + 1)..(e + 1)] ==
            IF p > e THEN {}
            ELSE IF copy[p] # "n" \/ Extent(p) = p THEN from[p + 1]
            ELSE {<<Min(Said(p)) - 1, Max(Said(p))>> : n \in {k \in {0} : Said(p) # {}}}
                 \cup from[Extent(p) + 1]
    IN  from[s + 1]

Rhythm(index, count, marks) ==
    CASE index = 1 /\ count > 1 -> "setup"
      [] index = count -> "land"
      [] index # count /\ index > 1 -> IF "t" \in marks THEN "turn" ELSE "build"

Rest(concepts, marks) ==
    IF Cardinality(concepts) >= 2 \/ marks \cap {"a", "n"} # {} THEN "beat"
    ELSE IF "t" \in marks THEN "brief" ELSE "none"

Suggested(copy) ==
    LET sentences == Sentences(copy)
        Listed(r) == {k \in (r.start + 1)..r.end : copy[k] = "e"}
        Cues(n) ==
            LET r == sentences[n]
                marks == Marks(copy, r.start, r.end)
                denied == Concepts(copy, r.start, r.end)
                rest == Rest(denied, marks)
            IN  {Cue("rhythm", r.start, r.end, Rhythm(n, Len(sentences), marks))}
                \cup (IF Cardinality(denied) < 2 THEN {}
                      ELSE {Cue("emphasis", c[1], c[2], "strong") : c \in denied})
                \cup (IF Cardinality(Listed(r)) < 2 THEN {}
                      ELSE {Cue("pace", Min(Listed(r)) - 1, r.end, "driven")})
                \cup (IF rest = "none" THEN {} ELSE {Cue("pause", r.end, r.end, rest)})
    IN  UNION {Cues(n) : n \in DOMAIN sentences}

-----------------------------------------------------------------------------
(***************************************************************************)
(* compile_narration_delivery_plan: the copy cut where a cue begins or ends.*)
(***************************************************************************)
Active(cues, r) == {c \in cues : c.kind # "pause" /\ Meet(c, r)}

\* No segment splits a cue, or is under two cues of a kind.
Compiles(cues, ranges) ==
    \A k \in DOMAIN ranges : \A c \in Active(cues, ranges[k]) :
        /\ c.start =< ranges[k].start /\ ranges[k].end =< c.end
        /\ \A d \in Active(cues, ranges[k]) : d.kind = c.kind => d = c

PauseAt(cues, k) ==
    LET here == {c \in cues : c.kind = "pause" /\ c.start = k}
    IN  IF here = {} THEN "none" ELSE (CHOOSE c \in here : TRUE).value

\* Mutant: the copy is cut where a cue begins only.
StartsOnly(copy, cues) == Between(Ascending({0, Len(copy)} \cup {c.start : c \in cues}))

Ranges(copy, cues) ==
    Between(Ascending({0, Len(copy)} \cup {c.start : c \in cues} \cup {c.end : c \in cues}))

Segments(copy, cues) ==
    LET ranges == Ranges(copy, cues)
        Told(r, kind, default) ==
            LET told == {c \in Active(cues, r) : c.kind = kind}
            IN  IF told = {} THEN default ELSE (CHOOSE c \in told : TRUE).value
    IN  [k \in DOMAIN ranges |->
            LET r == ranges[k] IN
            [start |-> r.start, end |-> r.end,
             pace |-> Told(r, "pace", "conversational"),
             emphasis |-> Told(r, "emphasis", "none"),
             rhythm |-> Told(r, "rhythm", "none"),
             pause |-> IF r.end = Len(copy) THEN "none" ELSE PauseAt(cues, r.end)]]

Delivery(copy, cues) ==
    [kind |-> "delivery", opening |-> PauseAt(cues, 0), closing |-> PauseAt(cues, Len(copy)),
     segments |-> Segments(copy, cues)]

-----------------------------------------------------------------------------
(***************************************************************************)
(* plan_voice_performance_units and plan_voice_generation_spans: what one   *)
(* call of a voice provider speaks.                                         *)
(***************************************************************************)
SentenceEnd(copy, r) ==
    \E k \in (r.start + 1)..r.end : copy[k] = "." /\ Silent(copy, k, r.end)

Units(copy, segments) ==
    LET ends == {segments[k].end : k \in {n \in DOMAIN segments :
                    segments[n].pause # "none" \/ SentenceEnd(copy, segments[n])}}
    IN  Between(Ascending({0, Len(copy)} \cup ends))

Speakable(copy, units) == \A k \in DOMAIN units : ~Silent(copy, units[k].start, units[k].end)

Spans(units, adjacent) ==
    LET count == (Len(units) + adjacent - 1) \div adjacent
    IN  [k \in 1..count |->
            [start |-> units[adjacent * (k - 1) + 1].start,
             end |-> units[Min({adjacent * k, Len(units)})].end]]

-----------------------------------------------------------------------------
(***************************************************************************)
(* VoicePerformanceComposer.compose: one take a span, with the pauses that  *)
(* the takes do not bring themselves where sentences close.                 *)
(***************************************************************************)
\* derive_narration_boundary_map: a turn before a comma binds both forward.
BoundaryKind(copy, k) ==
    IF k = 0 THEN "no_break"
    ELSE IF copy[k] = "," THEN IF k > 1 /\ copy[k - 1] = "t" THEN "forward" ELSE "continuing"
    ELSE IF copy[k] = "t" /\ k < Len(copy) /\ copy[k + 1] = "," THEN "forward"
    ELSE IF copy[k] = "." THEN "terminal" ELSE "no_break"

\* pause_duration_ms: 0, 180, 420 and 700 ms, in steps.
PauseLength(pause) == CASE pause = "none" -> 0 [] pause = "brief" -> 1
                     [] pause = "beat" -> 2 [] pause = "long" -> 3

\* Mutant: what the takes bring themselves comes on top of the pause.
PauseOnTop(q, spans, k) ==
    IF k = Len(spans) THEN 0 ELSE PauseLength(PauseAt(q.cues, spans[k].end))

Inserted(q, spans, k) ==
    IF k = Len(spans) THEN 0
    ELSE LET wanted == PauseLength(PauseAt(q.cues, spans[k].end))
         IN  IF ~q.mapped THEN wanted
             ELSE Max({0, wanted - q.takes[k].trail - q.takes[k + 1].lead})

SeamsClose(q, spans) ==
    q.mapped => \A k \in 1..(Len(spans) - 1) : BoundaryKind(q.copy, spans[k].end) = "terminal"

\* When the words of each take are heard in the whole.
Composed(q, spans) ==
    LET offset[k \in 1..(Len(spans) + 1)] ==
            IF k = 1 THEN 0 ELSE offset[k - 1] + q.takes[k - 1].duration + Inserted(q, spans, k - 1)
    IN  [kind |-> "voice", spans |-> spans, expected |-> offset[Len(spans) + 1],
         heard |-> [k \in DOMAIN spans |->
             [start |-> offset[k] + q.takes[k].lead,
              end |-> offset[k] + q.takes[k].duration - q.takes[k].trail]]]

-----------------------------------------------------------------------------
\* The assistant's cues are bound to the copy like anybody's.
Suggest ==
    /\ answer = Nothing /\ asked.rule = "suggest"
    /\ AnswersOneOf({[kind |-> "suggested", cues |-> Suggested(c)] :
                        c \in {d \in {asked.copy} : Valid(d, Suggested(d))}})

Deliver ==
    /\ answer = Nothing /\ asked.rule = "deliver"
    /\ AnswersOneOf({Delivery(q.copy, q.cues) : q \in {r \in {asked} :
            Valid(r.copy, r.cues) /\ Compiles(r.cues, Ranges(r.copy, r.cues))}})

\* A failed check of a take, or a seam within a sentence, composes nothing.
Compose ==
    /\ answer = Nothing /\ asked.rule = "voice"
    /\ LET units == Units(asked.copy, Segments(asked.copy, asked.cues))
           spans == Spans(units, asked.adjacent)
       IN  AnswersOneOf({Composed(q, spans) : q \in {r \in {asked} :
                /\ Valid(r.copy, r.cues) /\ Speakable(r.copy, units) /\ SeamsClose(r, spans)
                /\ \A k \in DOMAIN spans : r.takes[k].verified}})

-----------------------------------------------------------------------------
(***************************************************************************)
(* What a plan of how to speak owes to the copy it was made for.           *)
(***************************************************************************)
Follow(parts, copy) ==
    /\ parts[1].start = 0 /\ parts[Len(parts)].end = Len(copy)
    /\ \A k \in 1..(Len(parts) - 1) : parts[k + 1].start = parts[k].end
    /\ \A k \in DOMAIN parts : parts[k].start < parts[k].end

\* The cue a segment is told by a value, if there is one, holds of all of it.
SpokenAs(cues, segment, kind, value, default) ==
    LET told == {c \in cues : c.kind = kind /\ Meet(c, segment)}
    IN  \/ told = {} /\ value = default
        \/ \E c \in told : /\ told = {c} /\ c.value = value
                           /\ c.start =< segment.start /\ segment.end =< c.end

\* Every valid plan compiles; its segments are the copy, in order and without a
\* gap; each is spoken as the cues over it say, and each pause is made once.
Delivered ==
    LET s == answer.segments IN
    /\ Follow(s, asked.copy)
    /\ \A k \in DOMAIN s :
        /\ SpokenAs(asked.cues, s[k], "pace", s[k].pace, "conversational")
        /\ SpokenAs(asked.cues, s[k], "emphasis", s[k].emphasis, "none")
        /\ SpokenAs(asked.cues, s[k], "rhythm", s[k].rhythm, "none")
    /\ \A c \in asked.cues : c.kind = "pause" =>
        Cardinality({k \in DOMAIN s : s[k].end = c.start /\ s[k].pause = c.value}
                    \cup {0 : x \in {y \in {0} : c.start = 0 /\ answer.opening = c.value}}
                    \cup {-1 : x \in {y \in {0} : c.start = Len(asked.copy) /\ answer.closing = c.value}})
        = 1

\* What the assistant suggests needs no repair: it is valid, gives every sentence
\* one rhythm, pauses after sentences only, and a voice can be asked for it.
Useful ==
    LET cues == answer.cues
        sentences == Sentences(asked.copy)
        units == Units(asked.copy, Segments(asked.copy, cues))
    IN  /\ Compiles(cues, Ranges(asked.copy, cues)) /\ Speakable(asked.copy, units)
        /\ \A n \in DOMAIN sentences :
            /\ \E k \in DOMAIN units : units[k].end = sentences[n].end
            /\ Cardinality({c \in cues : c.kind = "rhythm" /\ Meet(c, sentences[n])}) = 1
        /\ \A c \in cues : c.kind = "pause" => \E n \in DOMAIN sentences : sentences[n].end = c.start

\* The takes speak the whole copy, one after the other, and between two of them
\* it is quiet for as long as the plan says, or as the takes themselves are.
InTime ==
    LET h == answer.heard IN
    /\ Follow(answer.spans, asked.copy)
    /\ h[Len(h)].end + asked.takes[Len(h)].trail = answer.expected
    /\ \A k \in 1..(Len(h) - 1) :
        LET quiet == asked.takes[k].trail + asked.takes[k + 1].lead
            wanted == PauseLength(PauseAt(asked.cues, answer.spans[k].end))
        IN  h[k + 1].start - h[k].end = IF asked.mapped THEN Max({quiet, wanted}) ELSE quiet + wanted

\* "Binds semantic cues to exact copy": nothing of the copy is lost, spoken twice
\* or spoken another way than its cues say, from the suggestion to the recording.
DeliverySound ==
    /\ answer.kind = "delivery" => Delivered
    /\ answer.kind = "suggested" => Useful
    /\ answer.kind = "voice" => InTime
    /\ answer = Refused /\ asked.rule \in {"deliver", "suggest"} =>
        Silent(asked.copy, 0, Len(asked.copy)) \/ (asked.rule = "deliver" /\ ~Valid(asked.copy, asked.cues))
=============================================================================
