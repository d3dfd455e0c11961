------------------------- MODULE PresentationRepair -------------------------
(***************************************************************************)
(* Presentation corrections of a rendered run: what a person saw in a video *)
(* is bound to its bytes, a correction is planned and confirmed, and its    *)
(* one local render is measured: presentation_repair.py with the render     *)
(* handler of jobs/handlers.py. Version 0 is the run's first render, and    *)
(* version k the replacement made by its k-th repair.                       *)
(***************************************************************************)
EXTENDS Naturals, Sequences, FiniteSets

CONSTANTS
    Revisions,   \* the run's repair allowance
    Tries,       \* attempts of a job
    MaxSeen,     \* bound: observations
    MaxFacts     \* bound: changes of what the plans rest on

ASSUME RepairAssumption == {Revisions, Tries, MaxSeen, MaxFacts} \subseteq Nat \ {0}

Versions == 0..Revisions
Replacements == 1..Revisions

VARIABLES
    shown,       \* production_runs.render_job_id
    rendition,     \* render jobs with the scene of their VideoSpec
    video,       \* the bytes of their files
    observed,    \* presentation_observations
    inspected,   \* the plan a person has before them
    revised,     \* presentation_repairs
    rendering,   \* where an attempt of a replacement stands, what it measured
    renderCall,  \* the provider calls of a replacement
    facts        \* draft, sources and approvals, and whether budgets allow

repairVars == <<shown, rendition, video, observed, inspected, revised, rendering, renderCall, facts>>

NoPlan == [action |-> "none"]
NoVersion == [status |-> "none"]
Unmeasured == "none"

-----------------------------------------------------------------------------
(* A scene as the plan and the spec agree on it, with the captions heard    *)
(* under it. Text may be the whole caption ("caption") or a short phrase.   *)
Scenes ==
    [role : {"talking", "footage", "graphic"}, text : {"none", "short", "caption"},
     subtitles : {"timed", "none"}, burned : {"unknown", "present", "absent"},
     contained : BOOLEAN, panel : BOOLEAN, card : BOOLEAN, phrase : BOOLEAN]

\* The contracts of EditPlanScene and the preflight of the plan.
Presentable(s) ==
    /\ s.panel => s.role = "talking" /\ s.contained
    /\ s.role = "graphic" => s.text # "none"
    /\ ~(s.burned = "present" /\ s.subtitles = "timed")

Findings == {"duplicate_text", "known_subtitle_conflict", "text_overlay", "source_change"}

\* The corrections a finding supports; phrase: the draft has another short text.
Corrections(s, finding) ==
    CASE finding = "duplicate_text" ->
            IF s.subtitles # "timed" \/ s.text # "caption" THEN {}
            ELSE IF s.role # "graphic" THEN {[s EXCEPT !.text = "none"]}
            ELSE {[t EXCEPT !.text = "short"] : t \in {u \in {s} : u.phrase}}
      [] finding = "known_subtitle_conflict" ->
            {[t EXCEPT !.subtitles = "none"] :
                t \in {u \in {s} : u.burned = "present" /\ u.subtitles = "timed"}}
      [] finding = "text_overlay" ->
            {[t EXCEPT !.panel = TRUE] :
                t \in {u \in {s} : /\ u.role = "talking" /\ u.contained /\ u.burned # "unknown"
                                   /\ ~u.panel /\ u.text # "none"}}
      [] finding = "source_change" -> {}

\* Checked again as a whole: the points of a card may not be changed.
Adoptable(s, t) == Presentable(t) /\ (s.card => t.text = s.text)

-----------------------------------------------------------------------------
Completed(k) == rendition[k].status = "completed"

Left == Revisions - Len(revised)

\* _current, and the observation is of these very bytes.
Observable(o) == Completed(shown) /\ o.job = shown /\ o.bytes = video[shown] /\ video[shown] # Unmeasured

Plan(o) ==
    LET corrected == Corrections(rendition[shown].scene, o.finding)
        sound == {t \in corrected : Adoptable(rendition[shown].scene, t)}
        action == IF Left = 0 \/ sound # corrected THEN "stop"
                  ELSE IF corrected = {} THEN "replan"
                  ELSE IF facts.blocked THEN "stop" ELSE "render_revision"
    IN  [action |-> action, seen |-> o, left |-> Left, predecessor |-> rendition[shown],
         candidate |-> sound, inputs |-> facts.inputs, blocked |-> facts.blocked]

RequireCurrent(k) ==
    LET plan == revised[k].plan IN
    /\ shown = k
    /\ rendition[plan.seen.job] = plan.predecessor
    /\ video[plan.seen.job] = plan.seen.bytes
    /\ facts.inputs = plan.inputs

-----------------------------------------------------------------------------
NoteFinding ==
    /\ Cardinality(observed) < MaxSeen
    /\ \E finding \in Findings :
        LET o == [job |-> shown, bytes |-> video[shown], finding |-> finding] IN
        /\ Observable(o)
        /\ observed' = observed \cup {o}
    /\ UNCHANGED <<shown, rendition, video, inspected, revised, rendering, renderCall, facts>>

Inspect ==
    /\ \E o \in observed : Observable(o) /\ inspected' = Plan(o)
    /\ UNCHANGED <<shown, rendition, video, observed, revised, rendering, renderCall, facts>>

\* What was inspected, or nothing: one transaction over plan, job and run.
Confirm ==
    /\ inspected.action = "render_revision"
    /\ Observable(inspected.seen) /\ Plan(inspected.seen) = inspected
    /\ \E scene \in inspected.candidate :
        LET k == Len(revised) + 1 IN
        /\ revised' = Append(revised, [plan |-> inspected, qa |-> Unmeasured])
        /\ rendition' = [rendition EXCEPT ![k] = [status |-> "pending", attempt |-> 0, scene |-> scene]]
        /\ shown' = k
    /\ UNCHANGED <<video, observed, inspected, rendering, renderCall, facts>>

\* ProductionRunService.cancel of a render stage.
Withdraw ==
    /\ rendition[shown].status = "pending"
    /\ rendition' = [rendition EXCEPT ![shown].status = "cancelled"]
    /\ UNCHANGED <<shown, video, observed, inspected, revised, rendering, renderCall, facts>>

-----------------------------------------------------------------------------
TakeUp(k) ==
    LET a == rendition[k].attempt + 1 IN
    /\ rendition[k].status \in {"pending", "running"} /\ a =< Tries
    /\ rendition' = [rendition EXCEPT ![k].status = "running", ![k].attempt = a]
    /\ rendering' = [rendering EXCEPT ![k][a].at = "claimed"]
    /\ UNCHANGED <<shown, video, observed, inspected, revised, renderCall, facts>>

\* recover_expired: a lost lease goes back to the queue, or ends it.
Recover(k) ==
    /\ rendition[k].status = "running"
    /\ rendition' = [rendition EXCEPT ![k].status = IF @ = "running" /\ rendition[k].attempt < Tries
                                                THEN "pending" ELSE "failed"]
    /\ UNCHANGED <<shown, video, observed, inspected, revised, rendering, renderCall, facts>>

IsOwner(k, a) == rendition[k].status = "running" /\ rendition[k].attempt = a

\* What the store makes of an attempt's report.
Ended(k, a, status) ==
    IF IsOwner(k, a) THEN [rendition EXCEPT ![k].status = status] ELSE rendition

StandsAt(k, a, step) == rendering' = [rendering EXCEPT ![k][a].at = step]

\* Mutant: those of this attempt only, as the idempotency key alone would have it.
OwnCalls(k, a) == {n \in DOMAIN renderCall[k] : renderCall[k][n].attempt = a}

\* The calls whose existence refuses another render, whatever their attempt.
PriorCalls(k, a) == DOMAIN renderCall[k]

ReserveRender(k, a) ==
    /\ rendering[k][a].at = "claimed"
    /\ IF RequireCurrent(k) /\ PriorCalls(k, a) = {} /\ ~facts.blocked
       THEN /\ renderCall' = [renderCall EXCEPT ![k] =
                                  Append(@, [attempt |-> a, status |-> "running"])]
            /\ StandsAt(k, a, "rendering")
            /\ UNCHANGED rendition
       ELSE /\ rendition' = Ended(k, a, "failed") /\ StandsAt(k, a, "gone")
            /\ UNCHANGED renderCall
    /\ UNCHANGED <<shown, video, observed, inspected, revised, facts>>

\* finish changes nothing of a call that an operator or another has closed.
Closed(k, a, status) ==
    [renderCall EXCEPT ![k] = [n \in DOMAIN @ |->
        IF @[n].attempt = a /\ @[n].status = "running" THEN [@[n] EXCEPT !.status = status] ELSE @[n]]]

Render(k, a) ==
    /\ rendering[k][a].at = "rendering"
    /\ video' = [video EXCEPT ![k] = "made"] /\ StandsAt(k, a, "rendered")
    /\ UNCHANGED <<shown, rendition, observed, inspected, revised, renderCall, facts>>

\* A timeout, a failed process or refused input: the output is removed.
RenderFails(k, a) ==
    /\ rendering[k][a].at = "rendering"
    /\ \E again \in BOOLEAN :
        rendition' = Ended(k, a, IF again /\ a < Tries THEN "pending" ELSE "failed")
    /\ video' = [video EXCEPT ![k] = Unmeasured]
    /\ renderCall' = Closed(k, a, "failed") /\ StandsAt(k, a, "gone")
    /\ UNCHANGED <<shown, observed, inspected, revised, facts>>

Measure(k, a) ==
    /\ rendering[k][a].at = "rendered" /\ video[k] # Unmeasured
    /\ rendering' = [rendering EXCEPT ![k][a] = [at |-> "measured", bytes |-> video[k]]]
    /\ UNCHANGED <<shown, rendition, video, observed, inspected, revised, renderCall, facts>>

\* verify_output: evidence is stored once, while the revision stands.
VerifyOutput(k, a) ==
    /\ rendering[k][a].at = "measured" /\ RequireCurrent(k)
    /\ revised' = [revised EXCEPT ![k].qa = IF @ = Unmeasured THEN rendering[k][a].bytes ELSE @]
    /\ StandsAt(k, a, "verified")
    /\ UNCHANGED <<shown, rendition, video, observed, inspected, renderCall, facts>>

\* Failed measures, stale revisions: the output is kept for diagnosis.
VerifyOutputFails(k, a) ==
    /\ \/ rendering[k][a].at = "rendered"
       \/ rendering[k][a].at = "measured" /\ ~RequireCurrent(k)
    /\ rendition' = Ended(k, a, "failed")
    /\ renderCall' = Closed(k, a, "failed") /\ StandsAt(k, a, "gone")
    /\ UNCHANGED <<shown, video, observed, inspected, revised, facts>>

CloseCall(k, a) ==
    /\ rendering[k][a].at = "verified"
    /\ renderCall' = Closed(k, a, "completed") /\ StandsAt(k, a, "closed")
    /\ UNCHANGED <<shown, rendition, video, observed, inspected, revised, facts>>

Complete(k, a) ==
    /\ rendering[k][a].at = "closed"
    /\ rendition' = Ended(k, a, "completed") /\ StandsAt(k, a, "gone")
    /\ UNCHANGED <<shown, video, observed, inspected, revised, renderCall, facts>>

Die(k, a) ==
    /\ rendering[k][a].at \notin {"waiting", "gone"} /\ StandsAt(k, a, "gone")
    /\ UNCHANGED <<shown, rendition, video, observed, inspected, revised, renderCall, facts>>

-----------------------------------------------------------------------------
\* The draft, a source, an approval or a budget changes.
FactsChange ==
    /\ facts.inputs + facts.flips < MaxFacts
    /\ \/ facts' = [facts EXCEPT !.inputs = @ + 1]
       \/ facts' = [facts EXCEPT !.blocked = ~@, !.flips = @ + 1]
    /\ UNCHANGED <<shown, rendition, video, observed, inspected, revised, rendering, renderCall>>

\* Somebody writes over a rendered file.
Overwrite(k) ==
    /\ video[k] = "made" /\ video' = [video EXCEPT ![k] = "other"]
    /\ UNCHANGED <<shown, rendition, observed, inspected, revised, rendering, renderCall, facts>>

\* The run's first render stands, of a scene its plan and preflight allow.
RepairStart(s) ==
    /\ shown = 0
    /\ rendition = [k \in Versions |->
                       IF k = 0 THEN [status |-> "completed", attempt |-> 1, scene |-> s]
                       ELSE NoVersion]
    /\ video = [k \in Versions |-> IF k = 0 THEN "made" ELSE Unmeasured]
    /\ observed = {} /\ inspected = NoPlan /\ revised = <<>>
    /\ rendering = [k \in Replacements |->
                       [a \in 1..Tries |-> [at |-> "waiting", bytes |-> Unmeasured]]]
    /\ renderCall = [k \in Replacements |-> <<>>]
    /\ facts = [inputs |-> 0, blocked |-> FALSE, flips |-> 0]

RepairInit == \E s \in {t \in Scenes : Presentable(t)} : RepairStart(s)

RepairNext ==
    \/ NoteFinding \/ Inspect \/ Confirm \/ Withdraw \/ FactsChange
    \/ \E k \in Versions : Overwrite(k)
    \/ \E k \in 1..Len(revised) : TakeUp(k) \/ Recover(k)
    \/ \E k \in Replacements, a \in 1..Tries :
        \/ ReserveRender(k, a) \/ Render(k, a) \/ RenderFails(k, a) \/ Measure(k, a)
        \/ VerifyOutput(k, a) \/ VerifyOutputFails(k, a) \/ CloseCall(k, a) \/ Complete(k, a) \/ Die(k, a)

RepairSpec == RepairInit /\ [][RepairNext]_repairVars

-----------------------------------------------------------------------------
(***************************************************************************)
(* What a run owes to the person who had its video corrected.              *)
(***************************************************************************)
Calls(k, status) == {n \in DOMAIN renderCall[k] : renderCall[k][n].status = status}

\* Each version was made from the one before it, once that was complete and as
\* a person had seen it, and the run shows the last of them.
OneLine ==
    /\ shown = Len(revised) /\ shown =< Revisions
    /\ \A k \in DOMAIN revised :
        /\ revised[k].plan.seen.job = k - 1 /\ revised[k].plan.seen \in observed
        /\ rendition[k - 1].status = "completed" /\ rendition[k - 1] = revised[k].plan.predecessor

\* The correction removes what was seen and changes no more than that; what is
\* rendered is what the person confirmed.
Corrected(k) ==
    LET s == rendition[k - 1].scene
        t == rendition[k].scene
        changed == {field \in DOMAIN s : s[field] # t[field]}
    IN  /\ Presentable(t) /\ Cardinality(changed) = 1
        /\ revised[k].plan.seen.finding = "duplicate_text"
              => ~(t.subtitles = "timed" /\ t.text = "caption")
        /\ revised[k].plan.seen.finding = "text_overlay" => t.panel

\* A version that completed was rendered by the one call of its revision, whose
\* technical evidence was stored while the revision stood; there is no second
\* render of a revision over all attempts, lost leases, crashes and failures.
RenderedOnce(k) ==
    /\ Len(renderCall[k]) =< 1
    /\ revised[k].qa # Unmeasured => Calls(k, "failed") = {} /\ renderCall[k] # <<>>
    /\ rendition[k].status = "completed" => revised[k].qa # Unmeasured /\ Calls(k, "completed") # {}

\* "Each revision at most one local render", and never of a version nobody saw.
RepairSound == OneLine /\ \A k \in DOMAIN revised : Corrected(k) /\ RenderedOnce(k)
=============================================================================
