------------------------------- MODULE MCRules -------------------------------
(***************************************************************************)
(* Small inputs for the rules. A second has ten milliseconds here.         *)
(***************************************************************************)
EXTENDS VideoTimeline, TalkingSlices, AssetRouting, VoiceEvidence, ProviderAnswers

Rates == {[num |-> 3, den |-> 1], [num |-> 20, den |-> 3], [num |-> 10, den |-> 1]}

-----------------------------------------------------------------------------
(* Recordings of two phrases, at any time within six milliseconds. *)
Spoke(start, end, text) == [start |-> start, end |-> end, text |-> text, stop |-> FALSE]

Taken(duration, segments) ==
    [duration |-> duration, segments |-> segments, approved |-> TRUE]

Texts == {<<<<1>>, <<2>>>>, <<<<1, 2>>, <<2>>>>, <<<<1>>, <<1, 2>>>>}

Times == {t \in (0..6) \X (0..6) \X (0..6) \X (0..6) : t[1] < t[2] /\ t[2] =< t[3] /\ t[3] < t[4]}

Takes ==
    {Taken(6, <<Spoke(t[1], t[2], x[1]), Spoke(t[3], t[4], x[2])>>) : t \in Times, x \in Texts}

Clip(start, end) == [kind |-> "footage", start |-> start, end |-> end]
Still == [kind |-> "still", start |-> 0, end |-> 0]
Capture == [kind |-> "capture", start |-> 0, end |-> 0]

Shown(copy, picture) ==
    [copy |-> copy, picture |-> picture, graphics |-> "any",
     chosen |-> TRUE, usable |-> TRUE, evidence |-> FALSE,
     voice |-> Unbound, spoken |-> <<>>, closing |-> FALSE, target |-> 2]

ToAssemble(master, scenes, fps, terminal, required) ==
    [rule |-> "assemble", master |-> master, scenes |-> scenes, fps |-> fps,
     terminal |-> terminal, required |-> required]

AskMaster ==
    \E r \in Takes, a \in {Clip(0, 2), Clip(1, 4), Clip(0, 6), Words, Still},
       g \in {"any", "none"}, b \in {Words, Clip(1, 4)}, fps \in Rates, terminal \in BOOLEAN :
        Ask(ToAssemble(r, <<[Shown(<<1>>, a) EXCEPT !.graphics = g], Shown(<<2>>, b)>>,
                       fps, terminal, TRUE))

\* Footage with up to three phrases of its own, and a scene after it.
AskSource ==
    \E copy \in {<<1>>, <<2>>, <<1, 2>>, <<4>>}, clip \in {Clip(0, 9), Clip(1, 7), Clip(2, 4)},
       a \in {1, 3}, b \in {0, 1, 3}, c \in 0..2, x \in Texts, stop \in BOOLEAN,
       closing \in BOOLEAN, fps \in Rates \ {[num |-> 10, den |-> 1]}, next \in {Words, Clip(1, 4)} :
        LET spoken == <<[Spoke(0, a, x[1]) EXCEPT !.stop = stop],
                        Spoke(a + b, a + b + 2, x[2]),
                        [Spoke(a + b + 2 + c, a + b + 3 + c, <<3>>) EXCEPT !.stop = stop],
                        Spoke(a + b + 3 + c, a + b + 4 + c, <<3>>)>>
        IN  Ask(ToAssemble(Unbound,
                <<[Shown(copy, clip) EXCEPT !.spoken = spoken, !.closing = closing],
                  Shown(<<2>>, next)>>, fps, FALSE, FALSE))

\* New or kept words over one scene, of a recording of its own.
AskNarrated ==
    \E d \in 2..7, picture \in {Clip(a, b) : a \in 0..4, b \in 5..9} \cup {Words, Still},
       fps \in Rates, required \in BOOLEAN :
        Ask(ToAssemble(Unbound,
            <<[Shown(<<1>>, picture) EXCEPT !.voice = Taken(d, <<Spoke(0, 2, <<1>>)>>)]>>,
            fps, FALSE, required))

\* What is refused, each for one reason.
AskRefused ==
    LET r == Taken(6, <<Spoke(0, 2, <<1>>), Spoke(2, 5, <<2>>)>>)
        good == Shown(<<1>>, Words)
    IN  \E s \in {[good EXCEPT !.chosen = FALSE], [good EXCEPT !.usable = FALSE],
                  [good EXCEPT !.evidence = TRUE], [good EXCEPT !.graphics = "none"],
                  [good EXCEPT !.graphics = "unsupported"], [good EXCEPT !.copy = <<>>],
                  [good EXCEPT !.picture = Capture],
                  [good EXCEPT !.voice = [r EXCEPT !.duration = 7]]},
            fps \in Rates, master \in {r, [r EXCEPT !.approved = FALSE], Unbound} :
            Ask(ToAssemble(master, <<s, good>>, fps, FALSE, FALSE))

AskToAssemble == AskMaster \/ AskSource \/ AskNarrated \/ AskRefused

-----------------------------------------------------------------------------
(* Recordings of three phrases to be spoken over a clip, in slices. *)
AskSeries ==
    \E a \in 1..3, b \in 0..2, c \in 1..3, d \in 0..2, e \in 1..2, start \in 0..1,
       limit \in {1, 2, 3, 5, 7}, length \in {5, 7, 9, 12}, context \in 0..1, approved \in BOOLEAN :
        LET at(k) == start + CASE k = 1 -> 0 [] k = 2 -> a + b [] k = 3 -> a + b + c + d
            segments == <<Spoke(at(1), at(1) + a, <<1>>), Spoke(at(2), at(2) + c, <<2>>),
                          Spoke(at(3), at(3) + e, <<3>>)>>
        IN  Ask([rule |-> "series", limit |-> limit, context |-> context,
                 audio |-> [Taken(12, segments) EXCEPT !.approved = approved],
                 clip |-> [start |-> 3, end |-> 3 + length]])

Reference(id, end, face, quality, starts, moods) ==
    [id |-> id, start |-> 0, end |-> end, candidate |-> TRUE, face |-> face, mouth |-> 7,
     assessed |-> TRUE, starts |-> starts, ends |-> "camera", clean |-> quality > 5,
     moods |-> moods, quality |-> quality]

AskReference ==
    \E one \in [1..2 -> (2..3) \X {5, 6, 9} \X {5, 8} \X {"camera", "away", "any"}],
       clean \in BOOLEAN, starts \in {"any", "camera"}, moods \in {{}, {"calm"}} :
        Ask([rule |-> "reference",
             clips |-> {Reference(n, one[n][1], one[n][2], one[n][3], one[n][4], {"calm"}) : n \in 1..2},
             wish |-> [least |-> 3, starts |-> starts, ends |-> "any", clean |-> clean, moods |-> moods]])

-----------------------------------------------------------------------------
(* Scenes, with clips below and above the threshold, and runs. *)
Hit(id, kind, match, length) ==
    [id |-> id, kind |-> kind, match |-> match, quality |-> 5, suits |-> 5, fresh |-> 10, worn |-> 0,
     length |-> length, restricted |-> FALSE, usage |-> "none", admitted |-> kind # "talking",
     badCrop |-> FALSE]

Spoilt(clip) ==
    {clip, [clip EXCEPT !.restricted = TRUE], [clip EXCEPT !.usage = "production"],
     [clip EXCEPT !.usage = "evaluation"], [clip EXCEPT !.badCrop = TRUE],
     [clip EXCEPT !.admitted = TRUE]}

Image(id, kind, restricted) == [id |-> id, kind |-> kind, restricted |-> restricted]

AskRoute ==
    \E preferred \in {{"user"}, {"talking", "user"}, {"words"}, {"historical", "screenshot"}},
       fallback \in {{}, {"words", "screenshot", "user"}},
       requires \in {"explanatory", "creator_speaking", "none"},
       a \in UNION {Spoilt(Hit(1, kind, m, l)) : kind \in {"user", "talking"}, m \in {0, 4, 9}, l \in {1, 2}},
       others \in {{}, {Hit(2, "historical", 9, 2)}, {Hit(2, "user", 4, 2), Hit(3, "user", 4, 3)}},
       run \in {{}} \cup {{r} : r \in {x \in Spoilt(Hit(4, "talking", 9, 2)) : ~x.badCrop /\ x.usage # "production"}},
       images \in {<<>>, <<Image(8, "screenshot", TRUE), Image(9, "screenshot", FALSE)>>} :
        Ask([rule |-> "route", hits |-> {a} \cup others, runs |-> run, images |-> images,
             scene |-> [preferred |-> preferred, fallback |-> fallback, requires |-> requires, target |-> 2]])

-----------------------------------------------------------------------------
(* Copies of a few marks, what is suggested of them, plans for them, takes. *)
\* Copies as a draft keeps them: without blanks around.
Copies(marks, lengths) ==
    {c \in UNION {[1..n -> marks] : n \in lengths} : c[1] # " " /\ c[Len(c)] # " "}

AskSuggestion ==
    \E copy \in Copies({"w", "t", "n", "e", ",", ".", " "}, 1..5) \cup Copies({"a", "n", ",", "."}, 6..6) :
        Ask([rule |-> "suggest", copy |-> copy])

\* Two or three cues anywhere in a copy, and beyond it.
SomeCues(kinds, places, values) ==
    {Cue(k, s, e, v) : k \in kinds, s \in places, e \in places, v \in values}

AskDelivery ==
    \E copy \in {<<"w", " ", "w", ".">>, <<"w", ".", " ", "w">>, <<" ", " ">>},
       a, b \in SomeCues({"pause", "rhythm", "pace"}, {0, 1, 2, 4, 5}, {"x"}),
       c \in {Cue("pace", 0, 3, "y"), Cue("pause", 2, 2, "y")} :
        Ask([rule |-> "deliver", copy |-> copy, cues |-> {a, b, c}])

Take(duration, lead, trail, verified) ==
    [duration |-> duration, lead |-> lead, trail |-> trail, verified |-> verified]

AskVoice ==
    \E copy \in {<<"w", ".", "w", ".", "w">>, <<"w", ",", "w", ".", " ", "w">>, <<"t", ",", "w", ".">>},
       p, r \in {Cue("pause", k, k, v) : k \in 0..5, v \in {"brief", "long"}},
       adjacent \in 1..2, mapped \in BOOLEAN, a, b \in {Take(3, 0, 1, TRUE), Take(4, 1, 1, TRUE)},
       c \in {Take(3, 2, 0, TRUE), Take(3, 2, 0, FALSE)} :
        Ask([rule |-> "voice", copy |-> copy, cues |-> {p, r, Cue("rhythm", 0, 2, "build")},
             adjacent |-> adjacent, mapped |-> mapped, takes |-> <<a, b, c, a, b>>])

-----------------------------------------------------------------------------
(* What is heard in a recording, and when. *)
Piece(start, end) == [start |-> start, end |-> end]
Pieces == {Piece(s, e) : s \in 0..5, e \in {1, 3, 4, 6, 7}}
ToCheck(copy, heard, segments, duration, wave, onset, playable) ==
    [rule |-> "verify", copy |-> copy, heard |-> heard, segments |-> segments, duration |-> duration,
     wave |-> wave, onset |-> onset, playable |-> playable]
\* What is heard of a copy, and when something is.
AskVerdict ==
    \/ \E copy \in {<<"w", "t", "w", "a", ".">>, <<"w", ",", "w", "w", ".", "t">>},
         heard \in UNION {[1..n -> {"w", "t", "a"}] : n \in 3..5}, duration \in {4, 7} :
        Ask(ToCheck(copy, heard, {Piece(0, duration)}, duration, FALSE, 0, TRUE))
    \/ \E a \in {Piece(0, 2), Piece(1, 3), Piece(2, 6)}, b, c \in Pieces,
         wave, playable \in BOOLEAN, onset \in 0..2 :
        Ask(ToCheck(<<"w", "t">>, <<"w", "t">>, {a, b, c}, 6, wave, onset, playable))

Part(start, end, words) == [start |-> start, end |-> end, words |-> words]
Groups == {<<<<"w">>, <<"t">>, <<"w", "w">>>>, <<<<"w", "t">>, <<"w">>, <<"w">>>>,
           <<<<"w">>, <<>>, <<"t", "w", "w">>>>}
Starts == {x \in {0} \X (1..3) \X (2..5) \X (3..6) \X (5..8) \X {8, 10} :
               x[1] < x[2] /\ x[3] < x[4] /\ x[5] < x[6]}
Quiets == {{}, {Piece(1, 3), Piece(4, 5)}, {Piece(2, 4)}, {Piece(1, 2), Piece(5, 8)},
           {Piece(4, 6), Piece(7, 9)}}
AskObserved ==
    \E copy \in {<<"w", ".", "t", ",", "w", "w", ".">>, <<"w", ",", "t", ".", " ", "w", "w">>},
       g \in Groups, t \in Starts, quiet \in Quiets :
        Ask([rule |-> "observe", copy |-> copy, duration |-> 9, quiet |-> quiet,
             timed |-> <<Part(t[1], t[2], g[1]), Part(t[3], t[4], g[2]), Part(t[5], t[6], g[3])>>])

-----------------------------------------------------------------------------
(* Requests with one flaw at most, however they end, and answers to sound ones. *)
UpToOne(flaws) == {{}} \cup {{x} : x \in flaws}
Sound == [flaws |-> {}, url |-> "https"]
Lost == {[lost |-> l, status |-> 0] : l \in {"silent", "slow", "refused", "broken"}}
Nets == Lost \cup {[lost |-> "no", status |-> c] : c \in {0, 101, 200, 204, 302, 400, 401, 403, 429, 500, 999}}
Fine == [lost |-> "no", status |-> 200]

Requests(rule, settings, input) ==
    [rule : {rule}, settings : {[flaws |-> {}, url |-> u] : u \in {"https", "loopback", "plain"}},
     input : {{}}, net : Nets]
    \cup [rule : {rule}, settings : {[flaws |-> x, url |-> "https"] : x \in UpToOne(settings)},
          input : UpToOne(input), net : {Fine}]
ToSend(rule) == [rule |-> rule, settings |-> Sound, input |-> {}, net |-> Fine]

Told(text, start, end) == [text |-> text, start |-> start, end |-> end]
WithWords(start, end, words) == [text |-> TRUE, start |-> start, end |-> end, words |-> words]

AskSegments ==
    \/ \E q \in Requests("transcribe", AsrSettings, AsrInput) :
        Ask(q @@ [document |-> [text |-> TRUE, segments |-> <<Told(TRUE, 1, 4)>>]])
    \/ \E text \in BOOLEAN, a \in {Told(x, s, e) : x \in BOOLEAN, s \in {NoTime, -1, 0, 3}, e \in {NoTime, 2, 5}},
         b \in {Told(TRUE, 5, 7), Told(TRUE, 5, 5)} :
        Ask(ToSend("transcribe") @@ [document |-> [text |-> text, segments |-> <<a, b>>]])

\* The model on this machine, which tells words as well: of one or two segments.
AskListen ==
    LET q == [rule |-> "listen", strict |-> FALSE, stamps |-> TRUE, settings |-> {}, input |-> {},
              model |-> "loads", heard |-> <<WithWords(1, 4, <<>>)>>]
        times == {<<NoTime, 3>>, <<-1, 3>>, <<1, 3>>, <<1, 6>>, <<3, 3>>, <<3, NoTime>>}
    IN  \/ \E strict \in BOOLEAN, x \in UpToOne(LocalSettings(TRUE)), i \in UpToOne(LocalInput(TRUE)),
             how \in {"loads", "missing", "breaks"} :
            Ask([q EXCEPT !.strict = strict, !.settings = x, !.input = i, !.model = how])
        \/ \E strict, stamps, text, worded \in BOOLEAN, w, v \in times, s, e \in {-1, 0, 2, 5},
             more \in {<<>>, <<Told(TRUE, 8, 9)>>} :
            Ask([q EXCEPT !.strict = strict, !.stamps = stamps,
                 !.heard = <<WithWords(s, e, <<Told(worded, w[1], w[2]), Told(TRUE, v[1], v[2])>>),
                             [WithWords(7, 9, more) EXCEPT !.text = text]>>])

AskDescription ==
    \/ \E q \in Requests("describe", VisionSettings, VisionInput) :
        Ask(q @@ [document |-> [texts |-> 1, fields |-> "exact", scores |-> {5}]])
    \/ \E n \in 0..2, fields \in {"exact", "more", "fewer"}, x \in {NoScore, 0, 10, 11, -2} :
        Ask(ToSend("describe") @@ [document |-> [texts |-> n, fields |-> fields, scores |-> {x}]])

\* The vector of an item is of the text that the item names.
Item(i, size, finite) == [index |-> i, size |-> size, finite |-> finite, vector |-> i + 1]

AskBatch ==
    \/ \E q \in Requests("embed", EmbeddingSettings, EmbeddingInput) :
        Ask(q @@ [count |-> 1, dimension |-> 0, document |-> <<Item(0, 1, TRUE)>>])
    \/ \E count \in 1..3, n \in 0..3 : \E i \in [1..n -> 0..2], size \in 0..2, first \in 0..2,
         finite \in BOOLEAN, d \in 0..2 :
        Ask(ToSend("embed") @@ [count |-> count, dimension |-> d,
             document |-> [k \in 1..n |-> IF k = 1 THEN Item(i[1], first, finite) ELSE Item(i[k], size, TRUE)]])

\* Plans of one scene, and of two in any order.
Proposed == [id |-> 1, order |-> 0, fields |-> TRUE, values |-> TRUE, requires |-> "unknown", reason |-> FALSE,
             graphic |-> "card", preferred |-> <<"user">>, fallback |-> {}, says |-> {}]
PlanOf(q, proposed) ==
    q @@ [ruled |-> TRUE, tutorial |-> FALSE, asksFor |-> {},
          document |-> [finished |-> TRUE, texts |-> 1, fence |-> "none", json |-> TRUE, scenes |-> proposed]]
Origins == {"user", "historical", "words", "generated", "talking"}

AskPlan ==
    \/ \E q \in Requests("plan", PlannerSettings, PlannerInput) : Ask(PlanOf(q, <<Proposed>>))
    \/ \E p \in UNION {[1..n -> Origins] : n \in 1..3}, others \in {{}, {"user"}, {"historical", "words"}},
         r \in {"unknown", "explanatory"}, why \in BOOLEAN, g \in {"absent", "null", "card"} :
        Ask(PlanOf(ToSend("plan"), <<[Proposed EXCEPT !.preferred = p, !.fallback = others, !.requires = r,
                                                    !.reason = why, !.graphic = g]>>))
    \/ \E finished, json, values, fields \in BOOLEAN, n \in 0..2, fence \in {"none", "closed", "open"} :
        Ask([PlanOf(ToSend("plan"), <<[Proposed EXCEPT !.values = values, !.fields = fields]>>)
             EXCEPT !.document.finished = finished, !.document.texts = n,
                    !.document.fence = fence, !.document.json = json])
    \/ \E first, second \in 0..2, id \in 1..2 :
        Ask(PlanOf(ToSend("plan"), <<[Proposed EXCEPT !.order = first], [Proposed EXCEPT !.order = second, !.id = id]>>))
    \/ \E ruled, tutorial \in BOOLEAN, asks, says \in {{}, {"workflow"}} :
        Ask([PlanOf(ToSend("plan"), <<[Proposed EXCEPT !.says = says]>>)
             EXCEPT !.ruled = ruled, !.tutorial = tutorial, !.asksFor = asks])

AskSpeech ==
    \E reference \in BOOLEAN, i \in UpToOne({"consent", "text", "target", "language"}),
       missing \in SUBSET {"reference", "synthesizer"}, l \in {"no", "timeout", "system", "other"},
       file \in {"sound", "empty", "none"} :
        Ask([rule |-> "synthesize", reference |-> reference, input |-> i, missing |-> missing,
             lost |-> l, file |-> file])

AskTalk ==
    LET q == [rule |-> "talk", settings |-> {}, input |-> {}, closeout |-> TRUE, narration |-> 7, last |-> 5,
              trail |-> 2, reference |-> 12, raw |-> 12, breaks |-> "nothing", how |-> "exit"]
    IN  \/ \E x \in UpToOne(TalkingSettings), i \in UpToOne(TalkingInput) :
            Ask([q EXCEPT !.settings = x, !.input = i])
        \/ \E where \in {"stage", "audio", "model", "probe", "deliver", "copy"},
             how \in {"exit", "timeout", "missing", "empty"} :
            Ask([q EXCEPT !.breaks = where, !.how = how])
        \/ \E closeout \in BOOLEAN, n \in {4, 7, 9}, last \in 0..9, trail \in {0, 1, 3, 4},
             reference \in {8, 12, 16}, raw \in 0..17 :
            Ask([q EXCEPT !.closeout = closeout, !.narration = n, !.last = last, !.trail = trail,
                          !.reference = reference, !.raw = raw])

AskAdapter ==
    \/ AskSegments \/ AskListen \/ AskDescription \/ AskBatch
    \/ AskPlan \/ AskSpeech \/ AskTalk

-----------------------------------------------------------------------------
AskRule ==
    \/ AskToAssemble \/ AskSeries \/ AskReference \/ AskRoute \/ AskAdapter
    \/ AskSuggestion \/ AskDelivery \/ AskVoice \/ AskVerdict \/ AskObserved

Answer ==
    \/ Assemble \/ PlanSeries \/ SelectReference \/ Route
    \/ Suggest \/ Deliver \/ Compose \/ Verify \/ Observe
    \/ TranscribeSpeech \/ Listen \/ DescribeFrame \/ Embed \/ PlanScenes \/ Synthesize \/ Talk

\* What the rules promise of every answer: the video is covered and captioned as
\* recorded, slices and windows go forward within the limit, one scene gets the asset
\* its own facts allow, copies are cut, spoken, heard and timed without a loss, and of
\* a provider's answer is kept what was asked for.
RulesSound == VideoSound /\ SeriesSound /\ RoutingSound /\ NarrationSound /\ AnswersSound

RulesSpec == AskRule /\ [][Answer]_callVars
=============================================================================
