--------------------------- MODULE TalkingSlices ---------------------------
(***************************************************************************)
(* A recording cut into slices a Talking provider can take, the windows of *)
(* a reference clip they are spoken over, and the choice of that clip:     *)
(* talking/slices.py and talking/reference_selection.py.                   *)
(***************************************************************************)
EXTENDS VideoTimeline

\* The score a clip must reach to show a face and a mouth, of 10.
CONSTANT Visible

ASSUME SlicesAssumption == Visible \in Nat

-----------------------------------------------------------------------------
(***************************************************************************)
(* plan_talking_audio_slice_series: whole segments, as many as fit.        *)
(***************************************************************************)
Slice(segments, i, j) ==
    [first |-> i, last |-> j, start |-> segments[i].start, end |-> segments[j].end]

Fits(segments, i, j, limit) == segments[j].end - segments[i].start =< limit


Slices(segments, limit) ==
    LET Furthest(i) == Max({j \in i..Len(segments) :
                               \A k \in i..j : Fits(segments, i, k, limit)})
        from[i \in 1..Len(segments)] ==
            LET j == Furthest(i)
            IN  <<Slice(segments, i, j)>> \o (IF j = Len(segments) THEN <<>> ELSE from[j + 1])
    IN  from[1]

Sliceable(q) ==
    /\ q.audio.approved /\ q.audio.segments # <<>>   \* its check passed, its words are timed
    /\ Ordered(q.audio.segments, q.audio.duration)
    /\ \A i \in DOMAIN q.audio.segments : Fits(q.audio.segments, i, i, q.limit)

\* extract_talking_audio_slice: the words of a slice, at their time in it.
Rebased(segments, slice) ==
    [k \in 1..(slice.last - slice.first + 1) |->
        LET s == segments[slice.first + k - 1]
        IN  [s EXCEPT !.start = @ - slice.start, !.end = @ - slice.start]]

\* Mutant: every window starts at the first frame of the clip.
Restarting(clip, slices, slice, context) ==
    [start |-> clip.start, end |-> clip.start + slice.end - slice.start + context]

\* plan_source_forward_reference_windows: one offset in recording and clip.
Window(clip, slices, slice, context) ==
    LET start == clip.start + slice.start - slices[1].start
    IN  [start |-> start, end |-> start + slice.end - slice.start + context]

Series(q) ==
    LET slices == Slices(q.audio.segments, q.limit)
    IN  [kind |-> "series",
         parts |-> [k \in DOMAIN slices |->
                       [slice |-> slices[k],
                        said |-> Rebased(q.audio.segments, slices[k]),
                        window |-> Window(q.clip, slices, slices[k], q.context)]]]

\* Refused where a segment is too long for the provider, or the clip too short.
PlanSeries ==
    /\ answer = Nothing /\ asked.rule = "series"
    /\ AnswersOneOf({v \in {Series(q) : q \in {r \in {asked} : Sliceable(r)}} :
                        \A k \in DOMAIN v.parts : v.parts[k].window.end =< asked.clip.end})

-----------------------------------------------------------------------------
(***************************************************************************)
(* select_talking_reference: the best clip with evidence for everything    *)
(* that is asked of it, or a request to record one.                        *)
(***************************************************************************)
\* What is not known of a clip is no evidence: 0 for a score, "any" for a gaze.
Suits(clip, wish) ==
    /\ clip.candidate
    /\ clip.end - clip.start >= wish.least
    /\ clip.face >= Visible /\ clip.mouth >= Visible
    /\ clip.assessed
    /\ wish.starts \in {"any", clip.starts} /\ wish.ends \in {"any", clip.ends}
    /\ wish.clean => clip.clean
    /\ wish.moods \subseteq clip.moods

\* In hundredths, where a quality that is not known counts as half.
ScoreOf(clip) == 40 * clip.quality + 30 * clip.face + 30 * clip.mouth

Selected(clips, wish) ==
    {c \in clips : /\ Suits(c, wish)
                   /\ \A d \in clips : Suits(d, wish) =>
                        ScoreOf(d) < ScoreOf(c) \/ (ScoreOf(d) = ScoreOf(c) /\ d.id =< c.id)}

SelectReference ==
    /\ answer = Nothing /\ asked.rule = "reference"
    /\ AnswersOneOf({[kind |-> "reference", id |-> c.id] : c \in Selected(asked.clips, asked.wish)})

-----------------------------------------------------------------------------
(***************************************************************************)
(* What a series of Talking slices owes to its recording and its clip.     *)
(***************************************************************************)
\* Some way to cut the segments into parts a provider can take, after each of
\* these segments.
CutsWell(segments, cuts, limit) ==
    \A i, j \in DOMAIN segments :
        /\ i = 1 \/ i - 1 \in cuts
        /\ j = Len(segments) \/ j \in cuts
        /\ i =< j /\ \A k \in i..(j - 1) : k \notin cuts
        => Fits(segments, i, j, limit)

\* Every segment is in one slice, in order, none is cut, each slice fits, and
\* no other way to cut takes fewer inferences.
SlicesWell(q, parts) ==
    LET segments == q.audio.segments
    IN  /\ parts[1].slice.first = 1 /\ parts[Len(parts)].slice.last = Len(segments)
        /\ \A k \in 1..(Len(parts) - 1) : parts[k + 1].slice.first = parts[k].slice.last + 1
        /\ \A k \in DOMAIN parts :
            /\ parts[k].slice.end - parts[k].slice.start =< q.limit
            /\ Ordered(parts[k].said, parts[k].slice.end - parts[k].slice.start)
        /\ \A cuts \in SUBSET (1..(Len(segments) - 1)) :
            CutsWell(segments, cuts, q.limit) => Len(parts) =< Cardinality(cuts) + 1

\* A word is spoken over the moment of the clip that is as far from the clip's
\* start as the word is from the first one, whichever slice it is in.
MovesForward(q, parts) ==
    \A k \in DOMAIN parts :
        /\ parts[k].window.start >= q.clip.start /\ parts[k].window.end =< q.clip.end
        /\ \A n \in DOMAIN parts[k].said :
            parts[k].window.start + parts[k].said[n].start - q.clip.start
                = q.audio.segments[parts[k].slice.first + n - 1].start - q.audio.segments[1].start

\* plan_talking_audio_slice_series and its windows: whole sentences, as few
\* inferences as the provider's limit allows, and one forward run of the clip.
\* A series is refused only where some sentence or the clip is too long or short.
SeriesSound ==
    /\ answer.kind = "series" =>
        SlicesWell(asked, answer.parts) /\ MovesForward(asked, answer.parts)
    /\ asked.rule = "series" /\ answer = Refused /\ Sliceable(asked) =>
        asked.audio.segments[Len(asked.audio.segments)].end - asked.audio.segments[1].start
            + asked.context > asked.clip.end - asked.clip.start
    /\ answer.kind = "reference" =>
        \E c \in asked.clips : c.id = answer.id /\ Selected({c}, asked.wish) = {c}
=============================================================================
