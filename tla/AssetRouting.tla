---------------------------- MODULE AssetRouting ----------------------------
(***************************************************************************)
(* What a scene is offered to show: routing/asset_router.py. Candidates    *)
(* are the clips the search found and the assembled Talking runs of the    *)
(* project; then, where no clip is good enough, stills, words, and a       *)
(* request to record one. Features of a clip are tenths, a score is        *)
(* thousandths.                                                            *)
(***************************************************************************)
EXTENDS PureCall, Integers, Sequences, SequencesExt

CONSTANTS
    MaxCandidates,   \* clips offered
    MaxStills        \* 3

ASSUME RoutingAssumption == {MaxCandidates, MaxStills} \subseteq Nat \ {0}

Threshold == 450     \* capture_gap_threshold

Admitted == 700      \* the score of an assembled run

ClipKinds == {"user", "historical", "talking"}   \* allowed_source_kinds

Requested(scene) == scene.preferred \cup scene.fallback

\* typography_preserves_declared_intent.
WordsWillDo(scene) ==
    /\ "talking" \notin scene.preferred
    /\ scene.requires \notin {"creator_speaking", "action_evidence"}
    /\ \/ "words" \in scene.preferred
       \/ scene.requires = "explanatory" /\ "words" \in scene.fallback

-----------------------------------------------------------------------------
(* Clips. *)
Bonus(kind) == CASE kind = "user" -> 50 [] kind = "historical" -> 20 [] OTHER -> 0

\* How well a found clip matches, is made, suits the shot, and is not worn.
Score(hit) ==
    Max({0, Min({1000, 55 * hit.match + 15 * hit.quality + 10 * hit.suits
                         + 10 * hit.fresh - 15 * hit.worn + Bonus(hit.kind)})})

\* What must hold of any clip, found or assembled: nothing restricts its bytes,
\* it is long enough, and a Talking take is reviewed for these very words.
Eligible(scene, clip) ==
    /\ ~clip.restricted
    /\ clip.kind \in ClipKinds \cap Requested(scene)
    /\ clip.usage \in {"none", "production"}
    /\ clip.length >= scene.target
    /\ clip.kind = "talking" => clip.admitted
    /\ ~clip.badCrop

Offer(kind, id, score) == [kind |-> kind, id |-> id, score |-> score]

Found(q) == {Offer(h.kind, h.id, Score(h)) : h \in {k \in q.hits : Eligible(q.scene, k)}}

Assembled(q) ==
    {Offer("talking", r.id, Admitted) :
        r \in {k \in q.runs : Eligible(q.scene, k) /\ \A o \in Found(q) : o.id # k.id}}

Rank(kind) == CASE kind = "user" -> 0 [] kind = "historical" -> 1 [] OTHER -> 2

Before(a, b) ==
    \/ a.score > b.score
    \/ a.score = b.score /\ Rank(a.kind) < Rank(b.kind)
    \/ a.score = b.score /\ Rank(a.kind) = Rank(b.kind) /\ a.id < b.id

FirstOf(sequence, n) == SubSeq(sequence, 1, Min({n, Len(sequence)}))

Clips(q) == FirstOf(Ranked(Found(q) \cup Assembled(q), Before), MaxCandidates)

NeedsCapture(clips) == clips = <<>> \/ clips[1].score < Threshold

-----------------------------------------------------------------------------
(* What is offered where no clip is good enough. *)
Stills(q) ==
    LET fit == {k \in DOMAIN q.images : /\ q.images[k].kind \in Requested(q.scene)
                                         /\ ~q.images[k].restricted}
        images == Chosen(q.images, fit)
    IN  FirstOf([k \in DOMAIN images |-> Offer(images[k].kind, images[k].id, 0)], MaxStills)

WordsFor(scene) == IF "words" \in Requested(scene) THEN <<Offer("words", 0, 0)>> ELSE <<>>

Offers(q) ==
    IF NeedsCapture(Clips(q))
    THEN Clips(q) \o Stills(q) \o WordsFor(q.scene) \o <<Offer("capture", 0, 0)>>
    ELSE Clips(q)

\* Mutant: where the words would not do, the first offer is recommended.
TheFirst(q) ==
    LET offers == Offers(q)
        words == {k \in DOMAIN offers : offers[k].kind = "words"}
    IN  IF NeedsCapture(Clips(q)) /\ words # {} /\ WordsWillDo(q.scene) THEN Max(words) ELSE 1

\* A good clip; else words that keep the intent; else, with no clip at all,
\* the first still; else the request to record one.
Recommended(q) ==
    LET offers == Offers(q)
        words == {k \in DOMAIN offers : offers[k].kind = "words"}
    IN  CASE ~NeedsCapture(Clips(q)) -> 1
          [] NeedsCapture(Clips(q)) /\ words # {} /\ WordsWillDo(q.scene) -> Max(words)
          [] NeedsCapture(Clips(q)) /\ ~(words # {} /\ WordsWillDo(q.scene)) ->
                IF Clips(q) = <<>> /\ Stills(q) # <<>> THEN 1 ELSE Len(offers)

Route ==
    /\ answer = Nothing /\ asked.rule = "route"
    /\ AnswersOneOf({[kind |-> "route", offers |-> Offers(asked), recommended |-> Recommended(asked)]})

-----------------------------------------------------------------------------
(***************************************************************************)
(* What the offers of a scene owe to its request.                          *)
(***************************************************************************)
\* The clips and runs that stand for an offer.
Source(q, offer) == {c \in q.hits \cup q.runs : c.id = offer.id}

\* Nothing is offered that the video could not use: restricted bytes, a clip
\* shorter than the scene, a Talking take not reviewed for these words.
OffersUsable(q, offers) ==
    /\ \A n \in DOMAIN offers :
        /\ offers[n].kind \in ClipKinds =>
            \A c \in Source(q, offers[n]) :
                ~c.restricted /\ c.length >= q.scene.target /\ (c.kind = "talking" => c.admitted)
        /\ offers[n].kind \in {"screenshot", "chart"} =>
            \E k \in DOMAIN q.images : q.images[k].id = offers[n].id /\ ~q.images[k].restricted
        /\ offers[n].kind # "capture" => offers[n].kind \in Requested(q.scene)
    /\ \A m, n \in DOMAIN offers : offers[m] = offers[n] => m = n

\* The best clip is recommended if it is good enough, and if so nothing else is
\* asked of the creator; if not, to record one is always among the offers. Words
\* are recommended only where they keep what was planned, and never where a
\* person speaking or a deed must be seen.
RecommendedWell(q, offers, n) ==
    LET good == {o \in Found(q) \cup Assembled(q) : o.score >= Threshold}
    IN  /\ good # {} =>
            /\ offers[n] \in good /\ \A o \in good : o.score =< offers[n].score
            /\ \A k \in DOMAIN offers : offers[k].kind \in ClipKinds
        /\ good = {} =>
            /\ Last(offers).kind = "capture"
            /\ offers[n].kind \notin ClipKinds
            /\ offers[n].kind \in {"screenshot", "chart"} => Found(q) \cup Assembled(q) = {}
        /\ offers[n].kind = "words" =>
            /\ q.scene.requires \notin {"creator_speaking", "action_evidence"}
            /\ "words" \in q.scene.preferred \/ q.scene.requires = "explanatory"

\* AssetRouter.route: of every scene exactly one offer is recommended, none is
\* unusable, and a gap is shown as a gap rather than filled with a weak clip.
RoutingSound ==
    answer.kind = "route" =>
        /\ OffersUsable(asked, answer.offers)
        /\ answer.recommended \in DOMAIN answer.offers
        /\ RecommendedWell(asked, answer.offers, answer.recommended)
=============================================================================
