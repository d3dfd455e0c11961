--------------------------- MODULE VideoTimeline ---------------------------
(***************************************************************************)
(* From a script, its pictures and a recording to frames:                  *)
(* assembly/video_spec.py with talking/closeout.py, the contracts of its   *)
(* result in domain/models.py and what renderer/remotion.py asks of it.    *)
(*                                                                         *)
(* A text is a sequence of characters, as comparison_tokens leaves it.     *)
(* Times are milliseconds, Second of them in a second; a frame rate is     *)
(* num / den frames in a second. What an assembled scene shows is its      *)
(* footage, an interval of the picked clip, a still, or words.             *)
(***************************************************************************)
EXTENDS PureCall, Integers, Sequences, SequencesExt

CONSTANTS
    Second,     \* 1000 milliseconds
    ScanSlack,  \* 1000 characters that a search reads beyond a phrase
    MinCut,     \* 250 ms, the shortest cut by words
    MaxGap,     \* 5000 ms, the longest silence within a phrase
    Pause,      \* 80 ms, a real one
    TailMax     \* 4000 ms, the longest tail of a closing scene

ASSUME TimelineAssumption ==
    /\ Second \in Nat \ {0}
    /\ {ScanSlack, MinCut, MaxGap, Pause, TailMax} \subseteq Nat

Unbound == [duration |-> 0]

-----------------------------------------------------------------------------
(***************************************************************************)
(* What may be assembled.                                                  *)
(***************************************************************************)
Segment == {s \in [start : Nat, end : Nat, text : Seq(Nat), stop : BOOLEAN] : s.start < s.end}

Recording ==
    [duration : Nat \ {0}, segments : Seq(Segment), approved : BOOLEAN]

Picture ==
    {v \in [kind : {"footage", "still", "words", "capture"}, start : Nat, end : Nat] :
        v.kind = "footage" => v.start < v.end}

Scene ==
    [copy : Seq(Nat), picture : Picture, graphics : {"any", "none", "unsupported"},
     chosen : BOOLEAN,   \* recommended, or listed as an explicit choice
     usable : BOOLEAN,   \* stored, identified, authorised, admitted
     evidence : BOOLEAN, \* must show a person speaking, or the deed
     voice : Recording \cup {Unbound}, spoken : Seq(Segment),
     closing : BOOLEAN, target : Nat \ {0}]

Brief ==
    [rule : {"assemble"}, master : Recording \cup {Unbound}, scenes : Seq(Scene) \ {<<>>},
     fps : [num : Nat \ {0}, den : Nat \ {0}], terminal : BOOLEAN, required : BOOLEAN]

-----------------------------------------------------------------------------
(***************************************************************************)
(* Milliseconds and frames, in integers.                                   *)
(***************************************************************************)
Unit(fps) == Second * fps.den

Ceil(ms, fps) == (ms * fps.num + Unit(fps) - 1) \div Unit(fps)

Floor(ms, fps) == (ms * fps.num) \div Unit(fps)

\* Complete frames of an interval of a clip.
WholeFrames(start, end, fps) == Floor(end, fps) - Ceil(start, fps)

\* The millisecond of a frame boundary, strictly between two others.
TimeOfFrame(frame, fps, lower, upper) ==
    LET ms == (frame * Unit(fps) + fps.num - 1) \div fps.num
    IN  Min({upper - 1, Max({lower + 1, ms})})

-----------------------------------------------------------------------------
(***************************************************************************)
(* Words and the recording they are heard in.                              *)
(***************************************************************************)
Heard(segments, i, j) ==
    FlattenSeq([k \in 1..(j - i + 1) |-> segments[i + k - 1].text])

FoundAt(text, copy) ==
    {k \in 1..(Len(text) - Len(copy) + 1) : SubSeq(text, k, k + Len(copy) - 1) = copy}

Says(text, copy) == FoundAt(text, copy) # {}

\* Where a search from segment i ends: the phrase is heard, and the search did
\* not give up before.
EndsFrom(segments, copy, i) ==
    {j \in i..Len(segments) :
        /\ Says(Heard(segments, i, j), copy)
        /\ \A k \in i..(j - 1) : Len(Heard(segments, i, k)) =< Len(copy) + ScanSlack}

IsSpanEnd(segments, copy, from, j) ==
    \E i \in from..Len(segments) :
        /\ \A h \in from..(i - 1) : EndsFrom(segments, copy, h) = {}
        /\ j \in EndsFrom(segments, copy, i)
        /\ \A k \in EndsFrom(segments, copy, i) : j =< k

\* The scenes are heard one after the other, each in segments of its own.
Matched(segments, scenes, ends) ==
    \A n \in DOMAIN scenes :
        /\ scenes[n].copy # <<>>
        /\ IsSpanEnd(segments, scenes[n].copy, IF n = 1 THEN 1 ELSE ends[n - 1] + 1, ends[n])

\* A scene lasts from the end of the one before to the end of its own words.
Interval(segments, scenes, ends, end, n) ==
    [from |-> IF n = 1 THEN 0 ELSE segments[ends[n - 1]].end,
     upto |-> IF n = Len(scenes) THEN end ELSE segments[ends[n]].end]

Ordered(segments, end) ==
    \A i \in DOMAIN segments :
        /\ segments[i].start >= IF i = 1 THEN 0 ELSE segments[i - 1].end
        /\ segments[i].end =< end

LastWord(audio) == Max({audio.segments[i].end : i \in DOMAIN audio.segments})

\* The last word, if a frame ends there; else the whole recording, on request.
MasterEnds(audio, fps, terminal) ==
    IF ~terminal THEN {audio.duration}
    ELSE {end \in {LastWord(audio)} :
             end =< audio.duration /\ (end * fps.num) % Unit(fps) = 0}

\* The words spoken within an interval, at their time in it.
CaptionsIn(segments, from, upto) ==
    {[start |-> Max({segments[i].start, from}) - from,
      end |-> Min({segments[i].end, upto}) - from, text |-> segments[i].text] :
        i \in {k \in DOMAIN segments :
                  Min({segments[k].end, upto}) > Max({segments[k].start, from})}}

-----------------------------------------------------------------------------
(***************************************************************************)
(* What every scene must pass, however it is timed: its candidate and the  *)
(* preflight of the default EditPlan.                                      *)
(***************************************************************************)
Admissible(scene) ==
    /\ scene.picture.kind # "capture"
    /\ scene.chosen
    /\ scene.usable
    /\ scene.graphics # "unsupported"
    /\ scene.picture.kind = "words" => scene.graphics # "none" /\ ~scene.evidence

Words == [kind |-> "words", start |-> 0, end |-> 0]

IsFootage(picture) == picture.kind = "footage"

Voices(p) == {p.scenes[n].voice : n \in DOMAIN p.scenes}

\* One recording for all: named as such, or bound to each of several scenes.
UnderMaster(p) ==
    \/ p.master # Unbound
    \/ Len(p.scenes) > 1 /\ Unbound \notin Voices(p) /\ Cardinality(Voices(p)) = 1

MasterOf(p) == IF p.master # Unbound THEN p.master ELSE p.scenes[1].voice

-----------------------------------------------------------------------------
(***************************************************************************)
(* _assemble_master_narration: the recording sets the time of all scenes.  *)
(***************************************************************************)
Fragment(p, n, part, first, frames, shows, from, upto) ==
    [id |-> <<n, part>>, first |-> first, frames |-> frames, shows |-> shows,
     from |-> from, upto |-> upto, captions |-> CaptionsIn(MasterOf(p).segments, from, upto)]

FramesOf(p, from, upto) == Ceil(upto, p.fps) - Ceil(from, p.fps)

\* How many frames a picture lasts.
Lasts(p, n, from, upto) ==
    LET picture == p.scenes[n].picture
    IN  IF IsFootage(picture) THEN WholeFrames(picture.start, picture.end, p.fps)
        ELSE FramesOf(p, from, upto)

Coverable(p, n, from, upto) ==
    /\ from < upto
    /\ FramesOf(p, from, upto) > 0
    /\ Lasts(p, n, from, upto) > 0
    /\ p.scenes[n].graphics = "none" => Lasts(p, n, from, upto) >= FramesOf(p, from, upto)

\* Mutant: footage that runs out is held to the end of its scene.
Held(p, n, from, upto) ==
    {Fragment(p, n, 1, Ceil(from, p.fps), FramesOf(p, from, upto), p.scenes[n].picture, from, upto)}

\* The picture of a scene, with words from where it runs out.
Cover(p, n, from, upto) ==
    LET picture == p.scenes[n].picture
        first == Ceil(from, p.fps)
        frames == FramesOf(p, from, upto)
        lasts == Lasts(p, n, from, upto)
        cut == TimeOfFrame(first + lasts, p.fps, from, upto)
    IN  IF lasts >= frames
        THEN {Fragment(p, n, 1, first, frames, picture, from, upto)}
        ELSE {Fragment(p, n, 1, first, lasts, picture, from, cut),
              Fragment(p, n, 2, first + lasts, frames - lasts, Words, cut, upto)}

\* Where the words of the scenes end, and the end of the track.
Timings(p) ==
    {t \in [ends : [DOMAIN p.scenes -> DOMAIN MasterOf(p).segments],
            end : MasterEnds(MasterOf(p), p.fps, p.terminal)] :
        /\ Ordered(MasterOf(p).segments, t.end)
        /\ Matched(MasterOf(p).segments, p.scenes, t.ends)}

SpanOf(p, t, n) == Interval(MasterOf(p).segments, p.scenes, t.ends, t.end, n)

CoverableAll(p, t) ==
    \A n \in DOMAIN p.scenes : Coverable(p, n, SpanOf(p, t, n).from, SpanOf(p, t, n).upto)

MasterVideo(p, t) ==
    [kind |-> "master video", end |-> t.end,
     fragments |-> UNION {Cover(p, n, SpanOf(p, t, n).from, SpanOf(p, t, n).upto) :
                              n \in DOMAIN p.scenes}]

MasterVideos(p) ==
    IF /\ Voices(p) \subseteq {Unbound, MasterOf(p)}
       /\ MasterOf(p).approved
       /\ MasterOf(p).segments # <<>>
       /\ \A n \in DOMAIN p.scenes : Admissible(p.scenes[n])
    THEN {MasterVideo(p, t) : t \in {u \in Timings(p) : CoverableAll(p, u)}}
    ELSE {}

AssembleMaster ==
    /\ UnderMaster(asked)
    /\ AnswersOneOf(MasterVideos(asked))

-----------------------------------------------------------------------------
(***************************************************************************)
(* assemble without a master: each scene has the time of its own           *)
(* recording, of its sentence in the source, or of the script.             *)
(***************************************************************************)
Within(clip, segments) ==
    SelectSeq(segments, LAMBDA s : s.end > clip.start /\ s.start < clip.end)

\* The phrase begun at segment i ends at j: no long silence, no giving up.
IsPhrase(segments, copy, i, j) ==
    /\ Says(Heard(segments, i, j), copy)
    /\ \A k \in (i + 1)..j : segments[k].start - segments[k - 1].end =< MaxGap
    /\ \A k \in i..(j - 1) :
        Len(Heard(segments, i, k)) =< Len(copy) /\ ~Says(Heard(segments, i, k), copy)

\* The segment of the phrase's first character.
StartOf(segments, copy, i, j) ==
    Min({k \in i..j : Len(Heard(segments, i, k)) >= Min(FoundAt(Heard(segments, i, j), copy))})

\* What a closing scene keeps hearing: up to a stop, a pause, or TailMax.
TailOf(clip, segments, j) ==
    LET Upto(k) == Min({clip.end, segments[k].end})
    IN  {k \in (j + 1)..Len(segments) :
            \A m \in (j + 1)..k :
                /\ segments[m].start - Upto(m - 1) =< Pause
                /\ Upto(m) > Upto(m - 1) /\ Upto(m) - Upto(j) =< TailMax
                /\ m < k => ~segments[m].stop}

CutBetween(clip, segments, i, j) ==
    [start |-> Max({clip.start, segments[i].start}), end |-> Min({clip.end, segments[j].end})]

LongEnough(cut) == cut.end - cut.start >= MinCut

PhraseCut(scene, segments, i, j) ==
    CutBetween(scene.picture, segments, StartOf(segments, scene.copy, i, j),
               IF scene.closing THEN Max({j} \cup TailOf(scene.picture, segments, j)) ELSE j)

PhraseCuts(scene, segments) ==
    LET Cuts(i) == {c \in {PhraseCut(scene, segments, i, j) :
                              j \in {k \in i..Len(segments) : IsPhrase(segments, scene.copy, i, k)}} :
                       LongEnough(c)}
        starts == {i \in DOMAIN segments : Cuts(i) # {}}
    IN  IF starts = {} THEN {} ELSE Cuts(Min(starts))

\* Segments that share half of the copy's words, or contain it.
Alike(segments, copy) ==
    {k \in DOMAIN segments :
        \/ 2 * Cardinality(ToSet(segments[k].text) \cap ToSet(copy)) >= Cardinality(ToSet(copy))
        \/ Says(segments[k].text, copy)}

AlikeCuts(scene, segments) ==
    LET alike == Alike(segments, scene.copy)
    IN  IF alike = {} THEN {}
        ELSE {c \in {CutBetween(scene.picture, segments, Min(alike), Max(alike))} : LongEnough(c)}

\* _source_sentence_interval: the cut by words, if there is one.
SentenceCuts(scene) ==
    LET segments == Within(scene.picture, scene.spoken)
    IN  IF scene.copy = <<>> THEN {}
        ELSE IF PhraseCuts(scene, segments) # {} THEN PhraseCuts(scene, segments)
        ELSE AlikeCuts(scene, segments)

Shot(shows, frames, captions) == [shows |-> shows, frames |-> frames, captions |-> captions]

Footage(start, end) == [kind |-> "footage", start |-> start, end |-> end]

NarratedShot(scene, fps) ==
    Shot(Footage(scene.picture.start, scene.picture.start + scene.voice.duration),
         Ceil(scene.voice.duration, fps), CaptionsIn(scene.voice.segments, 0, scene.voice.duration))

\* New words over footage: as long as the recording, within the clip.
NarratedShots(scene, fps) ==
    {s \in {NarratedShot(scene, fps)} :
        /\ s.shows.end =< scene.picture.end
        /\ WholeFrames(s.shows.start, s.shows.end, fps) >= s.frames}

\* Footage with its own sound, cut by its words.
SourceShots(scene, fps) ==
    {Shot(Footage(c.start, c.end), WholeFrames(c.start, c.end, fps),
          CaptionsIn(scene.spoken, c.start, c.end)) :
        c \in {d \in SentenceCuts(scene) : WholeFrames(d.start, d.end, fps) > 0}}

\* The clip as it is, for as long as the script says.
PlannedShots(scene, fps, captions) ==
    {s \in {Shot(scene.picture, Ceil(scene.target, fps), captions)} :
        scene.target =< scene.picture.end - scene.picture.start}

Shots(p, scene) ==
    CASE ~IsFootage(scene.picture) ->
            {Shot(scene.picture,
                  Ceil(IF p.required THEN scene.voice.duration ELSE scene.target, p.fps), {})}
      [] IsFootage(scene.picture) /\ p.required -> NarratedShots(scene, p.fps)
      [] IsFootage(scene.picture) /\ ~p.required /\ scene.voice # Unbound ->
            PlannedShots(scene, p.fps, CaptionsIn(scene.voice.segments, 0, scene.target))
      [] IsFootage(scene.picture) /\ ~p.required /\ scene.voice = Unbound ->
            IF SentenceCuts(scene) # {} THEN SourceShots(scene, p.fps)
            ELSE PlannedShots(scene, p.fps,
                     CaptionsIn(scene.spoken, scene.picture.start, scene.picture.end))

\* The shots one after the other.
SceneVideo(p, shots) ==
    LET first[n \in DOMAIN p.scenes] ==
            IF n = 1 THEN 0 ELSE first[n - 1] + shots[n - 1].frames
    IN  [kind |-> "scene video",
         shots |-> [n \in DOMAIN p.scenes |-> [first |-> first[n]] @@ shots[n]]]

SceneVideos(p) ==
    IF /\ \A n \in DOMAIN p.scenes : Admissible(p.scenes[n])
       /\ p.required => Unbound \notin Voices(p)
       /\ \A voice \in Voices(p) \ {Unbound} : voice.approved
    THEN {SceneVideo(p, shots) :
            shots \in {f \in [DOMAIN p.scenes -> UNION {Shots(p, p.scenes[n]) : n \in DOMAIN p.scenes}] :
                          \A n \in DOMAIN p.scenes : f[n] \in Shots(p, p.scenes[n])}}
    ELSE {}

AssembleScenes ==
    /\ ~UnderMaster(asked)
    /\ AnswersOneOf(SceneVideos(asked))

Assemble ==
    /\ answer = Nothing /\ asked.rule = "assemble"
    /\ AssembleMaster \/ AssembleScenes

TimelineSpec == (\E p \in Brief : Ask(p)) /\ [][Assemble]_callVars

-----------------------------------------------------------------------------
(***************************************************************************)
(* renderer/remotion.py.                                                   *)
(***************************************************************************)
\* _validate_scene: the trimmed clip, and the last frame begins within it.
FootageRenders(shows, frames, fps) ==
    IsFootage(shows) =>
        /\ WholeFrames(shows.start, shows.end, fps) > 0
        /\ (frames - 1) * Unit(fps) =< (shows.end - shows.start) * fps.num

\* _validate_narration: a recording of a scene lasts as long as its frames.
NarrationRenders(duration, frames, fps) == frames * Unit(fps) =< duration * fps.num

-----------------------------------------------------------------------------
(***************************************************************************)
(* What an assembled video owes to its recording, its footage and its      *)
(* renderer.                                                               *)
(***************************************************************************)
\* The contract allows rates of more than a frame in a millisecond; a scene of
\* one millisecond could then not be split between footage and words.
Ordinary(fps) == fps.num =< Unit(fps)

-----------------------------------------------------------------------------
(***************************************************************************)
(* Under a master.                                                         *)
(***************************************************************************)
\* The validators of VideoSpec and VideoScene: fragments follow one another
\* without gap or overlap, in frames and in the recording, to the end of both.
Contiguous(p, v) ==
    /\ \E f \in v.fragments : f.first = 0 /\ f.from = 0
    /\ \A f \in v.fragments :
        /\ f.frames > 0 /\ f.from < f.upto
        /\ \/ f.upto = v.end /\ f.first + f.frames >= Ceil(v.end, p.fps)
           \/ \E g \in v.fragments : g.first = f.first + f.frames /\ g.from = f.upto
        /\ \A g \in v.fragments \ {f} :
            f.first + f.frames =< g.first \/ g.first + g.frames =< f.first

\* A fragment begins less than a frame away from its words.
InStep(p, v) ==
    \A f \in v.fragments :
        /\ f.from * p.fps.num - f.first * Unit(p.fps) < Unit(p.fps)
        /\ f.first * Unit(p.fps) - f.from * p.fps.num < Unit(p.fps)

\* Footage is what was picked for the scene, has a frame of the clip for each of
\* its own, and gives way to words only where words are allowed.
OnlyWhatWasPicked(p, v) ==
    \A f \in v.fragments :
        LET scene == p.scenes[f.id[1]]
        IN  /\ FootageRenders(f.shows, f.frames, p.fps)
            /\ IsFootage(f.shows) =>
                  f.frames =< WholeFrames(scene.picture.start, scene.picture.end, p.fps)
            /\ \/ f.shows = scene.picture
               \/ IsFootage(scene.picture) /\ f.shows = Words /\ scene.graphics # "none"

\* The words of a scene are heard while it is seen.
HeardWhileSeen(p, v) ==
    \A n \in DOMAIN p.scenes :
        LET own == {f \in v.fragments : f.id[1] = n}
            segments == SelectSeq(MasterOf(p).segments,
                            LAMBDA s : /\ \E f \in own : f.from =< s.start
                                       /\ \E f \in own : s.end =< f.upto)
        IN  Says(Heard(segments, 1, Len(segments)), p.scenes[n].copy)

\* Every millisecond of speech is captioned once, and no other.
CaptionedOnce(p, v) ==
    LET At(f, c) == (f.from + c.start)..(f.from + c.end - 1)
        Shown(ms, text) == {x \in v.fragments \X UNION {g.captions : g \in v.fragments} :
                               x[2] \in x[1].captions /\ x[2].text = text /\ ms \in At(x[1], x[2])}
    IN  /\ \A i \in DOMAIN MasterOf(p).segments :
            LET s == MasterOf(p).segments[i]
            IN  \A ms \in s.start..(Min({s.end, v.end}) - 1) : Cardinality(Shown(ms, s.text)) = 1
        /\ \A f \in v.fragments : \A c \in f.captions :
            \A ms \in At(f, c) : \E i \in DOMAIN MasterOf(p).segments :
                LET s == MasterOf(p).segments[i]
                IN  ms \in s.start..(s.end - 1) /\ s.text = c.text /\ ms \in f.from..(f.upto - 1)

\* Whatever VideoSpecAssembler makes of a master passes the contract of
\* VideoSpec and the checks of the renderer, keeps pictures in step with words,
\* shows no footage beyond the authorised clip and captions all that is said.
MasterVideoSound ==
    answer.kind = "master video" /\ Ordinary(asked.fps) =>
        /\ answer.end =< MasterOf(asked).duration
        /\ Contiguous(asked, answer)
        /\ InStep(asked, answer)
        /\ OnlyWhatWasPicked(asked, answer)
        /\ HeardWhileSeen(asked, answer)
        /\ CaptionedOnce(asked, answer)

-----------------------------------------------------------------------------
(***************************************************************************)
(* Without.                                                                *)
(***************************************************************************)
\* A word of the source is heard whole or not at all, but at the clip's ends.
WordsWhole(scene, shows) ==
    \A i \in DOMAIN scene.spoken :
        LET s == scene.spoken[i]
        IN  s.end > shows.start /\ s.start < shows.end =>
                /\ s.start >= shows.start \/ shows.start = scene.picture.start
                /\ s.end =< shows.end \/ shows.end = scene.picture.end

\* The copy is heard, and after it no more than a closing scene's short tail
\* without a pause; or the cut begins and ends with words like it.
AsScripted(scene, shows) ==
    LET heard == Within(shows, scene.spoken)
    IN  \/ \E j \in DOMAIN heard :
              /\ Says(Heard(heard, 1, j), scene.copy)
              /\ shows.end - heard[j].end =< IF scene.closing THEN TailMax ELSE 0
              /\ \A k \in (j + 1)..Len(heard) : heard[k].start - heard[k - 1].end =< Pause
        \/ {1, Len(heard)} \subseteq Alike(heard, scene.copy)

\* A scene shows its clip and nothing around it; a source cut by its words
\* is at least MinCut long, cuts no word in two, and a closing scene's tail is short.
\* The renderer refuses it only where the code leaves that to it: a clip
\* without a whole frame, a recording that ends within its last frame.
SceneVideoSound ==
    answer.kind = "scene video" =>
        \A n \in DOMAIN asked.scenes :
            LET scene == asked.scenes[n]
                shot == answer.shots[n]
                cut == IsFootage(scene.picture) /\ scene.voice = Unbound /\ SentenceCuts(scene) # {}
            IN  /\ shot.frames > 0
                /\ n > 1 => shot.first = answer.shots[n - 1].first + answer.shots[n - 1].frames
                /\ IsFootage(shot.shows) =>
                    /\ shot.shows.start >= scene.picture.start
                    /\ shot.shows.end =< scene.picture.end
                    /\ \/ FootageRenders(shot.shows, shot.frames, asked.fps)
                       \/ ~asked.required /\ ~cut
                          /\ WholeFrames(scene.picture.start, scene.picture.end, asked.fps) =< 0
                    /\ \A c \in shot.captions : c.start >= 0 /\ c.end =< shot.shows.end - shot.shows.start
                /\ cut =>
                    /\ WordsWhole(scene, shot.shows)
                    /\ shot.shows.end - shot.shows.start >= MinCut
                    /\ AsScripted(scene, shot.shows)
                /\ asked.required =>
                    NarrationRenders(scene.voice.duration, shot.frames - 1, asked.fps)

\* VideoSpecAssembler.assemble, in either of its ways.
VideoSound == MasterVideoSound /\ SceneVideoSound
=============================================================================
