-------------------------- MODULE ProviderAnswers --------------------------
(***************************************************************************)
(* What the adapters of providers send, and what they keep of an answer:   *)
(* providers/asr.py, vision.py, embedding.py, scene_planner.py, voice.py   *)
(* and latentsync.py. A setting or an input that is refused is the name of *)
(* what is wrong with it; bytes, prompts and headers are left out.         *)
(***************************************************************************)
EXTENDS Integers, Sequences, FiniteSets, SequencesExt, PureCall

CONSTANTS
    Tick,        \* what an answer's clock counts within a millisecond
    Frame,       \* milliseconds of a frame of the Talking model
    ModelWindow,      \* frames the model makes at a time
    Lead,        \* silence before a closeout's words, for the model only
    MaxTrail,    \* the longest silence after them
    Short        \* how much shorter than its words a raw video may be

ASSUME AnswersAssumption ==
    /\ {Tick, Frame, ModelWindow, MaxTrail} \subseteq Nat \ {0}
    /\ {Lead, Short} \subseteq Nat

RoundedUp(n, by) == -((-n) \div by)

Failed(error, sent) == [kind |-> "failed", error |-> error, sent |-> sent]

-----------------------------------------------------------------------------
(***************************************************************************)
(* One request over the network. A redirect is an answer like any other.   *)
(***************************************************************************)
\* What each adapter refuses to be built with, and what it refuses to send.
AsrSettings == {"key", "url", "model", "timeout"}
AsrInput == {"file", "extension", "language", "prompt", "name"}
VisionSettings == {"key", "url", "model", "timeout", "detail"}
VisionInput == {"file", "extension", "bytes"}
EmbeddingSettings == {"key", "url", "model", "timeout", "dimensions"}
EmbeddingInput == {"count", "text"}
PlannerSettings == {"key", "url", "model", "timeout", "protocol", "effort", "tokens"}
PlannerInput == {"project", "script", "topic"}

\* An address of plain http must be this machine, and no address names a user,
\* a query or a fragment.
Wrong(settings) ==
    settings.flaws \cup (IF settings.url \in {"https", "loopback"} THEN {} ELSE {"url"})

\* The error for a request that was not answered. Only the planner tells a
\* connection that took too long from one that was refused.
Unanswered(lost) == IF lost = "silent" THEN "timeout" ELSE "connection"
PlanUnanswered(lost) == IF lost \in {"silent", "slow"} THEN "timeout" ELSE "connection"

\* _raise_for_status: the error for an answer's status, if it is one.
StatusError(status) ==
    CASE status \notin 100..599   -> "response"
      [] status \in {401, 403}    -> "authentication"
      [] status = 429             -> "rate"
      [] status \in 200..299      -> "none"
      [] OTHER                    -> "http"

\* Sent and answered with success, or the error that is raised. "net" is what
\* comes of the request: a status, or how it was lost.
Posted(q, settings, input, unanswered) ==
    IF Wrong(q.settings) \cap settings # {} THEN Failed("configuration", FALSE)
    ELSE IF q.input \cap input # {} THEN Failed("input", FALSE)
    ELSE IF q.net.lost # "no" THEN Failed(unanswered, TRUE)
    ELSE IF StatusError(q.net.status) # "none" THEN Failed(StatusError(q.net.status), TRUE)
    ELSE [kind |-> "answered"]

Exchange(q, settings, input, unanswered, kept) ==
    LET posted == Posted(q, settings, input, unanswered)
    IN  IF posted.kind = "answered" THEN kept ELSE posted

Malformed == Failed("response", TRUE)

-----------------------------------------------------------------------------
(***************************************************************************)
(* Transcripts. A time is in ticks; -1 is a negative one and None is no    *)
(* number at all. A text the code refuses, blank or none, is FALSE.        *)
(***************************************************************************)
NoTime == -2
Measured(time) == time >= 0

\* _start_ms and _end_ms: outward, to whole milliseconds.
Outward(start, end) == [start |-> start \div Tick, end |-> RoundedUp(end, Tick)]

LastsIn(span) == span.end > span.start

\* _parse_verbose_json: one malformed segment, and nothing is kept.
Transcript(document) ==
    IF /\ document.text
       /\ \A s \in Range(document.segments) :
            /\ s.text /\ Measured(s.start) /\ Measured(s.end)
            /\ LastsIn(Outward(s.start, s.end))
    THEN [kind |-> "transcript", words |-> <<>>,
          segments |-> [k \in DOMAIN document.segments |->
              LET s == document.segments[k] IN Outward(s.start, s.end)]]
    ELSE Malformed

TranscribeSpeech ==
    /\ answer = Nothing /\ asked.rule = "transcribe"
    /\ answer' = Exchange(asked, AsrSettings, AsrInput, Unanswered(asked.net.lost),
                          Transcript(asked.document))
    /\ UNCHANGED asked

-----------------------------------------------------------------------------
(* The model on this machine, which hears segments and perhaps their words. *)
LocalSettings(strict) ==
    {"model", "device", "compute", "filter", "stamps", "directory"}
    \cup (IF strict THEN {"cpu", "assets", "features"} ELSE {})

LocalInput(strict) ==
    {"file", "extension", "language", "prompt"} \cup (IF strict THEN {"any prompt"} ELSE {})

\* Mutant: a segment is where the model puts it, whatever it says of its words.
AsPlaced(segment) == [start |-> segment.start, end |-> segment.end]

\* _word_span: a segment is where its words are, if any of them takes time.
WordSpan(segment) ==
    LET timed == {w \in Range(segment.words) :
                      w.start # NoTime /\ w.end # NoTime /\ w.end > w.start}
    IN  IF timed = {} THEN [start |-> segment.start, end |-> segment.end]
        ELSE [start |-> Min({w.start : w \in timed}), end |-> Max({w.end : w \in timed})]

WordStands(w) ==
    w.text /\ Measured(w.start) /\ Measured(w.end) /\ LastsIn(Outward(w.start, w.end))

\* The segments with a text.
Texted(q) == Chosen(q.heard, {k \in DOMAIN q.heard : q.heard[k].text})

\* Words are kept all or not at all; the strict lane takes no answer without
\* them, and none with a segment that takes no time, which others leave out.
HeardLocally(q) ==
    LET told == Texted(q)
        words == IF q.stamps THEN FlattenSeq([k \in DOMAIN told |-> told[k].words]) ELSE <<>>
        sound == \A w \in Range(words) : WordStands(w)
        span == [k \in DOMAIN told |-> IF q.stamps THEN WordSpan(told[k]) ELSE AsPlaced(told[k])]
        placed == [k \in DOMAIN told |-> Outward(span[k].start, span[k].end)]
    IN  IF \/ \E k \in DOMAIN told : ~Measured(span[k].start) \/ ~Measured(span[k].end)
           \/ q.strict /\ (~sound \/ \E k \in DOMAIN told : ~LastsIn(placed[k]))
        THEN Malformed
        ELSE [kind |-> "transcript", segments |-> Chosen(placed, {k \in DOMAIN placed : LastsIn(placed[k])}),
              words |-> IF sound THEN [k \in DOMAIN words |-> Outward(words[k].start, words[k].end)]
                        ELSE <<>>]

\* The model is loaded when it is first needed.
LocallyHeard(q) ==
    IF q.settings \cap LocalSettings(q.strict) # {} THEN Failed("configuration", FALSE)
    ELSE IF q.input \cap LocalInput(q.strict) # {} THEN Failed("input", FALSE)
    ELSE IF q.model = "missing" THEN Failed("configuration", FALSE)
    ELSE IF q.model = "breaks" THEN Failed("connection", TRUE)
    ELSE HeardLocally(q)

Listen ==
    /\ answer = Nothing /\ asked.rule = "listen"
    /\ answer' = LocallyHeard(asked)
    /\ UNCHANGED asked

-----------------------------------------------------------------------------
(***************************************************************************)
(* Descriptions and vectors.                                               *)
(***************************************************************************)
NoScore == -1

\* One text of one object with exactly these fields, each in its range.
Described(document) ==
    IF document.texts = 1 /\ document.fields = "exact"
       /\ \A s \in document.scores : s \in {NoScore} \cup 0..10
    THEN [kind |-> "description", scores |-> document.scores]
    ELSE Malformed

DescribeFrame ==
    /\ answer = Nothing /\ asked.rule = "describe"
    /\ answer' = Exchange(asked, VisionSettings, VisionInput, Unanswered(asked.net.lost),
                          Described(asked.document))
    /\ UNCHANGED asked

\* Mutant: the vectors are taken in the order of the answer.
AsAnswered(items) == [k \in DOMAIN items |-> items[k].vector]

\* _parse_response: a vector belongs to the text its item names.
ByIndex(items) ==
    [k \in DOMAIN items |-> (CHOOSE i \in Range(items) : i.index = k - 1).vector]

Vectors(items, count, dimension) ==
    IF /\ Len(items) = count
       /\ {i.index : i \in Range(items)} = 0..(count - 1)
       /\ \A i \in Range(items) : i.finite /\ i.size > 0
       /\ \A i, j \in Range(items) : i.size = j.size
       /\ dimension # 0 => \A i \in Range(items) : i.size = dimension
    THEN [kind |-> "vectors", vectors |-> ByIndex(items)]
    ELSE Malformed

Embed ==
    /\ answer = Nothing /\ asked.rule = "embed"
    /\ answer' = Exchange(asked, EmbeddingSettings, EmbeddingInput, Unanswered(asked.net.lost),
                          Vectors(asked.document, asked.count, asked.dimension))
    /\ UNCHANGED asked

-----------------------------------------------------------------------------
(***************************************************************************)
(* Scene plans.                                                            *)
(***************************************************************************)
\* One whole answer: an answer that was cut off is not read, nor one of several
\* texts, or in a fence that does not close.
WholeAnswer(document) ==
    document.finished /\ document.texts = 1 /\ document.fence # "open" /\ document.json

\* A scene's fields and their values, by the schema that was sent and ScenePlan.
SceneStands(scene) ==
    /\ scene.fields /\ scene.values
    /\ scene.requires # "unknown" => scene.reason
    /\ scene.graphic = "null" => "words" \notin Range(scene.preferred) \cup scene.fallback

Real == {"user", "historical"}

\* Mutant: real material may come after other kinds.
RealOrElse(scene) ==
    \/ scene.fallback \cap Real = {} \/ Range(scene.preferred) \cap Real # {}
    \/ scene.requires = "explanatory" /\ scene.preferred[1] = "words"

\* _validate_real_asset_priority: real material before other kinds, and never as a
\* fallback only, unless words explain the scene.
RealFirst(scene) ==
    /\ \A i, j \in DOMAIN scene.preferred :
          scene.preferred[i] \notin Real /\ scene.preferred[j] \in Real => j < i
    /\ \/ scene.fallback \cap Real = {} \/ Range(scene.preferred) \cap Real # {}
       \/ /\ scene.requires = "explanatory" /\ scene.reason
          /\ scene.preferred[1] = "words"
          /\ Range(scene.preferred) \cap {"generated", "talking"} = {}

\* ScenePlanResult: numbered from zero without a gap, and named apart.
InOneOrder(scenes) ==
    /\ scenes # <<>> /\ \A k \in DOMAIN scenes : scenes[k].order = k - 1
    /\ IsInjective([k \in DOMAIN scenes |-> scenes[k].id])

\* audience_control_leak_field: phrases of our own workflow in what an audience
\* hears or reads, while the rule they come from is sent along.
Leaks(q, scene) == q.ruled /\ ~q.tutorial /\ ~(scene.says \subseteq q.asksFor)

Planned(q) ==
    IF /\ WholeAnswer(q.document)
       /\ \A s \in Range(q.document.scenes) : SceneStands(s) /\ RealFirst(s) /\ ~Leaks(q, s)
       /\ InOneOrder(q.document.scenes)
    THEN [kind |-> "plan", scenes |-> q.document.scenes]
    ELSE Malformed

PlanScenes ==
    /\ answer = Nothing /\ asked.rule = "plan"
    /\ answer' = Exchange(asked, PlannerSettings, PlannerInput, PlanUnanswered(asked.net.lost),
                          Planned(asked))
    /\ UNCHANGED asked

-----------------------------------------------------------------------------
(***************************************************************************)
(* A voice on this machine.                                                *)
(***************************************************************************)
\* The adapter asks whether it may and can before the callable is called, once.
Voiced(q) ==
    IF q.reference /\ "reference" \in q.missing THEN Failed("configuration", FALSE)
    ELSE IF q.input \cap {"consent", "text", "target", "language"} # {} THEN Failed("input", FALSE)
    ELSE IF "synthesizer" \in q.missing THEN Failed("configuration", FALSE)
    ELSE IF q.lost = "timeout" THEN Failed("timeout", TRUE)
    ELSE IF q.lost = "system" THEN Failed("connection", TRUE)
    ELSE IF q.lost = "other" \/ q.file # "sound" THEN Failed("response", TRUE)
    ELSE [kind |-> "spoken"]

Synthesize ==
    /\ answer = Nothing /\ asked.rule = "synthesize"
    /\ answer' = Voiced(asked)
    /\ UNCHANGED asked

-----------------------------------------------------------------------------
(***************************************************************************)
(* A Talking video made by the model on this machine: a reference, a       *)
(* recording padded to whole windows of the model, and a raw video of both,*)
(* of which the part of the words is delivered with the recording itself.  *)
(***************************************************************************)
TalkingSettings == {"model", "command", "repository", "files", "steps", "seed", "guidance", "timeout"}
TalkingInput == {"consent", "narration", "reference", "target"}

\* _model_duration_ms: whole windows.
ModelLength(length) == RoundedUp(RoundedUp(length, Frame), ModelWindow) * ModelWindow * Frame

\* _terminal_closeout_context: the words end before the recording does, and the
\* model is given silence on both sides of them.
ContextStands(q) ==
    q.closeout => q.last \in 1..q.narration /\ q.trail \in 1..MaxTrail

ModelContext(q) ==
    IF q.closeout THEN [delivery |-> q.last, lead |-> Lead, trail |-> q.trail]
    ELSE [delivery |-> q.narration, lead |-> 0, trail |-> 0]

\* What drives the model: silence, the words from that moment on, silence.
Driven(q) == LET c == ModelContext(q) IN ModelLength(c.lead + c.delivery + c.trail)

\* _stage_reference: no more of the clip than the model needs.
Staged(q) == Min({q.reference, Driven(q)})

\* Mutant: the words alone must be covered, as without silence before them.
CoversWords(q) == q.raw + Short >= ModelContext(q).delivery

\* _require_raw_output_covers_narration, before a last frame is held.
CoversInput(q) == q.raw + Short >= (IF q.closeout THEN Driven(q) ELSE q.narration)

\* _normalize_output: the part of the words; without a closeout the last frame is
\* held to the end of the recording.
DeliveredPart(q) ==
    LET c == ModelContext(q)
        seen == Min({c.delivery, q.raw - c.lead})
    IN  [from |-> c.lead, shown |-> seen, held |-> IF q.closeout THEN 0 ELSE c.delivery - seen]

\* _execute: the error of a command, and of a file it did not leave.
CommandError(how) ==
    CASE how = "timeout" -> "timeout" [] how = "missing" -> "configuration" [] OTHER -> "response"

\* The file of an earlier attempt is removed before anything is made, and the new
\* one is written last.
Talked(q) ==
    LET stop(error, sent, file) == [kind |-> "failed", error |-> error, sent |-> sent, file |-> file]
    IN  IF q.settings \cap TalkingSettings # {} THEN stop("configuration", FALSE, "earlier")
        ELSE IF q.input \cap TalkingInput # {} THEN stop("input", FALSE, "earlier")
        ELSE IF ~ContextStands(q) THEN stop("input", FALSE, "none")
        ELSE IF q.closeout /\ q.reference < Driven(q) THEN stop("input", FALSE, "none")
        ELSE IF q.breaks \in {"stage", "audio"} THEN stop(CommandError(q.how), FALSE, "none")
        ELSE IF q.breaks \in {"model", "probe"} THEN stop(CommandError(q.how), TRUE, "none")
        ELSE IF ~CoversInput(q) THEN stop("response", TRUE, "none")
        ELSE IF q.breaks = "deliver" THEN stop(CommandError(q.how), TRUE, "none")
        ELSE IF q.breaks = "copy" THEN stop("unexpected", TRUE, "partial")
        ELSE [kind |-> "talking", file |-> "new", staged |-> Staged(q),
              picture |-> DeliveredPart(q), sound |-> ModelContext(q).delivery]

Talk ==
    /\ answer = Nothing /\ asked.rule = "talk"
    /\ answer' = Talked(asked)
    /\ UNCHANGED asked

-----------------------------------------------------------------------------
(***************************************************************************)
(* What is kept of an answer is what was asked for, all of it.             *)
(***************************************************************************)
Answered == answer # Nothing
KeptAnswer == Answered /\ answer.kind # "failed"

\* An error says truly whether anything was sent, refused or answered, so that a
\* request whose outcome is unknown is never taken for one that was turned down.
TruthTold ==
    Answered /\ answer.kind = "failed" =>
        /\ answer.error = "input" => ~answer.sent
        /\ "net" \in DOMAIN asked =>
            /\ answer.sent <=> answer.error \notin {"configuration", "input"}
            /\ answer.sent /\ asked.net.lost # "no" => answer.error \in {"timeout", "connection"}
            /\ answer.error \in {"authentication", "rate", "http"} =>
                asked.net.status \in (100..599) \ (200..299)

\* A kept segment covers the time its words, or the model, say it takes, and a word
\* that takes time lies in one; words are all there, or none.
SpeechKept ==
    KeptAnswer /\ answer.kind = "transcript" /\ asked.rule = "listen" =>
        LET told == Texted(asked)
            words == FlattenSeq([k \in DOMAIN told |-> told[k].words])
        IN  /\ answer.words # <<>> =>
                /\ Len(answer.words) = Len(words)
                /\ \A k \in DOMAIN words : LastsIn(words[k]) =>
                      \E s \in Range(answer.segments) :
                          s.start =< answer.words[k].start /\ answer.words[k].end =< s.end
            /\ \A k \in DOMAIN told : LastsIn(told[k]) /\ told[k].words = <<>> =>
                  \E s \in Range(answer.segments) :
                      s.start * Tick =< told[k].start /\ told[k].end =< s.end * Tick
            /\ asked.strict => Len(answer.segments) = Len(told)

\* Each text gets the vector that was made of it, all of one size.
VectorsKept ==
    KeptAnswer /\ answer.kind = "vectors" =>
        /\ Len(answer.vectors) = asked.count
        /\ \A k \in DOMAIN answer.vectors : answer.vectors[k] = k

\* A plan that is kept tries the creator's own material first wherever it allows
\* it, or words where they explain; it is whole, and shows nobody our workflow.
PlanKept ==
    KeptAnswer /\ answer.kind = "plan" =>
        /\ asked.document.finished
        /\ \A k \in DOMAIN answer.scenes :
            LET scene == answer.scenes[k]
            IN  /\ scene.order = k - 1
                /\ (Range(scene.preferred) \cup scene.fallback) \cap Real # {} =>
                      \/ scene.preferred[1] \in Real
                      \/ scene.requires = "explanatory" /\ scene.preferred[1] = "words"
                /\ "workflow" \in scene.says => "workflow" \in asked.asksFor \/ asked.tutorial \/ ~asked.ruled

\* The picture is of the words from the first to the last, but for what a raw video
\* may be short of; a closeout has moving frames of an unbroken reference only. A
\* video that failed leaves no file that passes for one.
TalkingKept ==
    Answered /\ asked.rule = "talk" =>
        IF answer.kind = "failed" THEN answer.file # "new" /\ (answer.sent => answer.file # "earlier")
        ELSE LET p == answer.picture
             IN  /\ p.from = (IF asked.closeout THEN Lead ELSE 0)
                 /\ p.shown + Short >= answer.sound /\ p.held =< Short
                 /\ p.from + p.shown =< asked.raw
                 /\ asked.closeout => p.held = 0 /\ answer.staged = Driven(asked)

AnswersSound == TruthTold /\ SpeechKept /\ VectorsKept /\ PlanKept /\ TalkingKept
=============================================================================
