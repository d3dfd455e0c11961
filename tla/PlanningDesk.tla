---------------------------- MODULE PlanningDesk ----------------------------
(***************************************************************************)
(* What a project is planned under, and what stands on it: the revisions   *)
(* of the creator's profile, presentation preferences, limits on the use   *)
(* of retained material, the draft with its scene plan, and the renders    *)
(* queued from it (project_drafts.py, feedback_learning.py,                *)
(* source_use_constraints.py, and their handlers in main.py).              *)
(*                                                                         *)
(* One API process serves the requests, and a handler runs to its end      *)
(* before the next begins; only the scene planner's call, the check of its *)
(* answer and the save of it are steps of their own, since other           *)
(* connections may write between them.  Files lie outside the database and *)
(* change under everyone.  An idempotent request that is repeated answers  *)
(* what was saved and is not an action; one that names another version     *)
(* than the row's is refused and is none either.                           *)
(*                                                                         *)
(* A preference has one rule, as in the code.  A use of material is a      *)
(* source interval with a look.  Scenes name the profile they were made    *)
(* under.  Routes, selections and the render specification are one thing   *)
(* derived, and name the revision they were derived under: a browser tab   *)
(* keeps both and may send them late, and again.                           *)
(***************************************************************************)
EXTENDS Integers, FiniteSets

CONSTANTS
    Observations,   \* findings on a finished render, each a possible preference
    Limits,         \* retained rejections, each a possible limit
    Uses,           \* uses of material: [source, look]
    RenderJobs,     \* render jobs of the project
    Scripts,        \* texts a script may have
    MaxProfile,     \* bound: revisions of the profile
    MaxEdits        \* bound: requests and changed files in a behaviour

VARIABLES
    profile,        \* the newest revision of the creator's profile
    intact,         \* the files whose bytes are those recorded
    prefs,          \* planning_preferences
    limits,         \* source_use_constraints
    draft,          \* project_drafts: the project's row
    tab,            \* what a browser tab still shows of a draft
    planning,       \* the scene planner's call, or its answer not yet saved
    renders,        \* render jobs with their context snapshot
    edits           \* requests and file changes so far

deskVars == <<profile, intact, prefs, limits, draft, tab, planning, renders, edits>>

-----------------------------------------------------------------------------
Absent == [version |-> 0]
NoScenes == [copy |-> "none", under |-> 0, refs |-> {}]
NoDraft == [version |-> 0, revision |-> 0, script |-> "none", scenes |-> NoScenes, derived |-> 0,
            performance |-> "none", profile |-> 0, refs |-> {}]
NoTab == [scenes |-> NoScenes, derived |-> 0, revision |-> 0]
Idle == [stage |-> "idle", profile |-> 0, refs |-> {}]
NoRender == [status |-> "none"]

\* The creator's own selection, beside the preferences drawn from findings.
OwnSelection == "selected"
Preferences == {OwnSelection} \cup Observations

Files == {"render", "retained"}

(* One more request or changed file, within the bound. *)
Edit == edits < MaxEdits /\ edits' = edits + 1

-----------------------------------------------------------------------------
(* Why a preference is out of force, and those in force. *)
PrefHeld(p) ==
    \/ prefs[p].stops
    \/ prefs[p].profile # profile
    \/ p \in Observations /\ "render" \notin intact

InForce(p) == prefs[p] # Absent /\ prefs[p].state = "enabled" /\ ~PrefHeld(p)

(* Why a limit is held; a disabled one is not looked at. *)
LimitReasons(l) ==
    IF limits[l].state = "disabled" THEN {}
    ELSE (IF limits[l].profile # profile THEN {"profile"} ELSE {})
         \cup (IF "retained" \notin intact THEN {"evidence"} ELSE {})

Recorded == {l \in Limits : limits[l] # Absent}

(* The limit meets the use: that very look of the source, and any look of  *)
(* it where the limit is held or the look cannot be told.                  *)
Meets(l, u) ==
    /\ limits[l].state = "enabled"
    /\ \E v \in limits[l].scope :
          /\ v.source = u.source
          /\ LimitReasons(l) # {} \/ u.look = "unknown" \/ v.look = u.look

(* Every limit as a render depends on it, the disabled and held included. *)
Context == {<<l, limits[l], LimitReasons(l)>> : l \in Recorded}

(* The traceable references a scene plan is made under. *)
PlanningRefs ==
    {<<"profile", profile>>}
    \cup {<<p, prefs[p].version>> : p \in {q \in Preferences : InForce(q)}}
    \cup {<<l, limits[l].version, limits[l].state, LimitReasons(l)>> : l \in Recorded}

-----------------------------------------------------------------------------
(* save_project_draft: what is kept of what was sent, under a profile; and *)
(* it is stored only if it differs.                                        *)
Kept(given, accept, current) ==
    LET scriptChanged == draft = NoDraft \/ draft.script # given.script
        profileChanged == draft # NoDraft /\ draft.profile # current
        upstream == scriptChanged \/ profileChanged \/ draft.scenes # given.scenes
        invalid == draft # NoDraft /\ upstream
        revision == IF upstream THEN draft.revision + 1 ELSE draft.revision
    IN [version |-> draft.version,
        revision |-> revision,
        script |-> given.script,
        scenes |-> IF invalid /\ (scriptChanged \/ profileChanged) /\ ~accept
                   THEN NoScenes ELSE given.scenes,
        derived |-> IF invalid THEN 0 ELSE given.derived,
        performance |-> IF given.performance # "kept" THEN given.performance
                        ELSE IF scriptChanged THEN "none" ELSE draft.performance,
        profile |-> current,
        refs |-> given.refs]

Saved(given, accept, current) ==
    LET value == Kept(given, accept, current)
    IN IF value = draft THEN draft ELSE [value EXCEPT !.version = @ + 1]

(* The draft sent back as it is, with one field changed. *)
Resent(field, value) ==
    LET same == [script |-> draft.script, scenes |-> draft.scenes, derived |-> draft.derived,
                 performance |-> "kept", refs |-> draft.refs]
    IN [same EXCEPT ![field] = value]

(* PUT /ip-profile: a changed profile, and the draft saved again under it. *)
ReviseProfile ==
    /\ Edit
    /\ profile < MaxProfile
    /\ profile' = profile + 1
    /\ UNCHANGED <<intact, prefs, limits, tab, planning, renders>>
    /\ draft' = IF draft = NoDraft THEN NoDraft
                ELSE Saved(Resent("refs", PlanningRefs'), FALSE, profile + 1)

(* What a tab may send: what it shows, what it derives anew from that, or  *)
(* scenes written anew, at first with what is derived from them.           *)
Displayed(value) == [scenes |-> value.scenes, derived |-> value.derived, revision |-> value.revision]

Sendable ==
    LET written == [copy |-> "written", under |-> profile, refs |-> {}]
    IN {<<NoScenes, 0>>, <<written, 0>>, <<tab.scenes, tab.derived>>}
       \cup (IF tab.scenes # NoScenes THEN {<<tab.scenes, tab.revision>>} ELSE {})
       \cup (IF draft = NoDraft THEN {<<written, 1>>} ELSE {})

(* PUT /projects/{id}/draft *)
SaveDraft ==
    /\ Edit
    /\ \E script \in Scripts, sent \in Sendable :
          draft' = Saved([script |-> script, scenes |-> sent[1], derived |-> sent[2],
                          performance |-> "kept", refs |-> PlanningRefs], FALSE, profile)
    /\ UNCHANGED <<profile, intact, prefs, limits, tab, planning, renders>>

(* The tab takes over an answer; one that is lost leaves it as it was. *)
LoadTab ==
    /\ tab # Displayed(draft)
    /\ tab' = Displayed(draft)
    /\ UNCHANGED <<profile, intact, prefs, limits, draft, planning, renders, edits>>

(* PUT and DELETE narration-performance-plan. *)
DirectNarration ==
    /\ Edit
    /\ draft # NoDraft
    /\ \E directions \in {draft.script, "none"} :
          draft' = Saved(Resent("performance", directions), FALSE, profile)
    /\ UNCHANGED <<profile, intact, prefs, limits, tab, planning, renders>>

-----------------------------------------------------------------------------
(* POST /projects/{id}/scene-plan, up to the planner's call. *)
AskPlanner ==
    /\ Edit
    /\ planning = Idle
    /\ planning' = [stage |-> "asked", profile |-> profile, refs |-> PlanningRefs]
    /\ UNCHANGED <<profile, intact, prefs, limits, draft, tab, renders>>

(* Its answer, unless what it was asked under has changed. *)
CheckPlan ==
    /\ planning.stage = "asked"
    /\ planning.refs = PlanningRefs
    /\ planning' = [planning EXCEPT !.stage = "checked"]
    /\ UNCHANGED <<profile, intact, prefs, limits, draft, tab, renders, edits>>

(* It is saved, or only shown, without another look. *)
AcceptPlan ==
    /\ planning.stage = "checked"
    /\ LET scenes == [copy |-> "planned", under |-> planning.profile, refs |-> planning.refs]
       IN \/ /\ draft' = draft
             /\ tab' = [scenes |-> scenes, derived |-> 0,
                        revision |-> IF draft = NoDraft THEN 1 ELSE draft.revision]
          \/ /\ \E script \in Scripts :
                   draft' = Saved([script |-> script, scenes |-> scenes, derived |-> 0,
                                   performance |-> "kept", refs |-> planning.refs], TRUE, profile)
             /\ tab' = Displayed(draft')
    /\ planning' = Idle
    /\ UNCHANGED <<profile, intact, prefs, limits, renders, edits>>

(* No answer, one that leaks controls, planning_context_changed_replan, or *)
(* one that could not be saved.                                            *)
RefusePlan ==
    /\ planning # Idle
    /\ planning' = Idle
    /\ UNCHANGED <<profile, intact, prefs, limits, draft, tab, renders, edits>>

-----------------------------------------------------------------------------
Candidate(version, stops) ==
    [version |-> version, state |-> "candidate", profile |-> profile, stops |-> stops]

(* select: the creator names the rule under the present profile. *)
SelectPreference ==
    /\ Edit
    /\ prefs[OwnSelection] # Absent => prefs[OwnSelection].profile # profile
    /\ prefs' = [prefs EXCEPT ![OwnSelection] = Candidate(@.version + 1, FALSE)]
    /\ UNCHANGED <<profile, intact, limits, draft, tab, planning, renders>>

(* candidate: a finding becomes a preference that may yet be unfit.        *)
DrawPreference(o) ==
    /\ Edit
    /\ prefs[o] = Absent
    /\ "render" \in intact
    /\ \E stops \in BOOLEAN : prefs' = [prefs EXCEPT ![o] = Candidate(1, stops)]
    /\ UNCHANGED <<profile, intact, limits, draft, tab, planning, renders>>

Turned(row, state) == [row EXCEPT !.state = state, !.version = @ + 1]

\* Mutant: only a preference in force is superseded.
SupersedeInForce(p) ==
    /\ Edit
    /\ prefs[p] # Absent
    /\ ~PrefHeld(p)
    /\ p # OwnSelection => ~InForce(OwnSelection)
    /\ prefs' = [q \in Preferences |->
                    IF q = p THEN Turned(prefs[q], "enabled")
                    ELSE IF InForce(q) THEN Turned(prefs[q], "disabled") ELSE prefs[q]]
    /\ UNCHANGED <<profile, intact, limits, draft, tab, planning, renders>>

EnablePreference(p) ==
    /\ Edit
    /\ prefs[p] # Absent
    /\ ~PrefHeld(p)
    /\ p # OwnSelection => ~InForce(OwnSelection)
    /\ prefs' = [q \in Preferences |->
                    IF q = p THEN Turned(prefs[q], "enabled")
                    ELSE IF prefs[q] # Absent /\ prefs[q].state = "enabled"
                    THEN Turned(prefs[q], "disabled")
                    ELSE prefs[q]]
    /\ UNCHANGED <<profile, intact, limits, draft, tab, planning, renders>>

DisablePreference(p) ==
    /\ Edit
    /\ prefs[p] # Absent
    /\ prefs' = [prefs EXCEPT ![p] = Turned(@, "disabled")]
    /\ UNCHANGED <<profile, intact, limits, draft, tab, planning, renders>>

-----------------------------------------------------------------------------
(* intake: a retained rejection becomes a possible limit. *)
RecordLimit(l) ==
    /\ Edit
    /\ limits[l] = Absent
    /\ "retained" \in intact
    /\ limits' = [limits EXCEPT ![l] =
                     [version |-> 1, state |-> "candidate", profile |-> profile, scope |-> {}]]
    /\ UNCHANGED <<profile, intact, prefs, draft, tab, planning, renders>>

(* state: adopt it for named uses whose look is known, ... *)
EnableLimit(l) ==
    /\ Edit
    /\ limits[l] # Absent
    /\ "retained" \in intact /\ limits[l].profile = profile
    /\ \E scope \in (SUBSET {u \in Uses : u.look # "unknown"}) \ {{}} :
          limits' = [limits EXCEPT ![l] = [Turned(@, "enabled") EXCEPT !.scope = scope]]
    /\ UNCHANGED <<profile, intact, prefs, draft, tab, planning, renders>>

(* ... or lay it aside. *)
DisableLimit(l) ==
    /\ Edit
    /\ limits[l] # Absent
    /\ limits' = [limits EXCEPT ![l] = Turned(@, "disabled")]
    /\ UNCHANGED <<profile, intact, prefs, draft, tab, planning, renders>>

(* A file outside the database loses the recorded bytes or has them back. *)
ChangeFile(f) ==
    /\ Edit
    /\ intact' = IF f \in intact THEN intact \ {f} ELSE intact \cup {f}
    /\ UNCHANGED <<profile, prefs, limits, draft, tab, planning, renders>>

-----------------------------------------------------------------------------
(* A run queues its render: a use no limit meets, and the context it was   *)
(* chosen under.                                                           *)
QueueRender(j) ==
    /\ Edit
    /\ renders[j] = NoRender
    /\ draft.scenes # NoScenes
    /\ \E u \in Uses :
          /\ ~\E l \in Recorded : Meets(l, u)
          /\ renders' = [renders EXCEPT ![j] = [status |-> "queued", use |-> u, context |-> Context]]
    /\ UNCHANGED <<profile, intact, prefs, limits, draft, tab, planning>>

(* require_render_snapshot before the renderer starts, ... *)
StartRender(j) ==
    /\ renders[j].status = "queued"
    /\ renders' = [renders EXCEPT ![j].status =
                      IF renders[j].context = Context THEN "rendering" ELSE "failed"]
    /\ UNCHANGED <<profile, intact, prefs, limits, draft, tab, planning, edits>>

\* Mutant: the context is not looked at again when the output is there.
CheckOnce(j) ==
    /\ renders[j].status = "rendering"
    /\ \E status \in {"queued", "checked", "failed"} :
          renders' = [renders EXCEPT ![j].status = status]
    /\ UNCHANGED <<profile, intact, prefs, limits, draft, tab, planning, edits>>

(* ... and once more when its output is there; a failure may be retried. *)
MeasureRender(j) ==
    /\ renders[j].status = "rendering"
    /\ \/ renders' = [renders EXCEPT ![j].status =
                         IF renders[j].context = Context THEN "checked" ELSE "failed"]
       \/ \E status \in {"queued", "failed"} : renders' = [renders EXCEPT ![j].status = status]
    /\ UNCHANGED <<profile, intact, prefs, limits, draft, tab, planning, edits>>

(* The runner ends the job in a transaction of its own, if the output of a *)
(* repair is verified and its lease is held.                               *)
FinishRender(j) ==
    /\ renders[j].status = "checked"
    /\ \E status \in {"done", "queued", "failed"} : renders' = [renders EXCEPT ![j].status = status]
    /\ UNCHANGED <<profile, intact, prefs, limits, draft, tab, planning, edits>>

-----------------------------------------------------------------------------
DeskInit ==
    /\ profile = 1
    /\ intact = Files
    /\ prefs = [p \in Preferences |-> Absent]
    /\ limits = [l \in Limits |-> Absent]
    /\ draft = NoDraft
    /\ tab = NoTab
    /\ planning = Idle
    /\ renders = [j \in RenderJobs |-> NoRender]
    /\ edits = 0

DeskNext ==
    \/ ReviseProfile \/ SaveDraft \/ LoadTab \/ DirectNarration
    \/ AskPlanner \/ CheckPlan \/ AcceptPlan \/ RefusePlan
    \/ SelectPreference
    \/ \E o \in Observations : DrawPreference(o)
    \/ \E p \in Preferences : EnablePreference(p) \/ DisablePreference(p)
    \/ \E l \in Limits : RecordLimit(l) \/ EnableLimit(l) \/ DisableLimit(l)
    \/ \E f \in Files : ChangeFile(f)
    \/ \E j \in RenderJobs : QueueRender(j) \/ StartRender(j) \/ MeasureRender(j) \/ FinishRender(j)

DeskSpec == DeskInit /\ [][DeskNext]_deskVars

-----------------------------------------------------------------------------
(***************************************************************************)
(* What must hold of the planning desk.                                    *)
(***************************************************************************)
(***************************************************************************)
(* The policy has one voice and the draft one base: whatever is selected,  *)
(* drawn from findings, superseded, revised or tampered with, at most one  *)
(* preference of the rule is enabled (feedback_learning.py:209).  The      *)
(* draft always stands under the newest profile, nothing derived is kept   *)
(* without scenes, and spoken directions are those of the present script.  *)
(* What was derived under an older revision comes back only into a draft   *)
(* that already has the script, scenes and profile it is sent with; scenes *)
(* made under an older profile only with the script it has, or as a plan   *)
(* checked before the profile was revised.  So no save of the server's own *)
(* revives either, and a tab must send stale scenes once and what was      *)
(* derived from them twice (project_drafts.py:92).                         *)
(***************************************************************************)
AtMostOneEnabled ==
    \A p, q \in Preferences :
        (prefs[p] # Absent /\ prefs[q] # Absent /\ prefs[p].state = "enabled" /\ prefs[q].state = "enabled")
            => p = q

DraftStandsOnPresent ==
    draft # NoDraft =>
        /\ draft.profile = profile
        /\ draft.derived # 0 => draft.scenes # NoScenes
        /\ draft.performance \in {"none", draft.script}

StaleReturns ==
    draft # NoDraft /\ draft' # draft =>
        /\ draft'.derived \notin {0, draft'.revision} =>
              /\ draft'.script = draft.script /\ draft'.scenes = draft.scenes
              /\ draft'.profile = draft.profile
        /\ draft'.scenes # NoScenes /\ draft'.scenes.under # draft'.profile =>
              \/ draft'.script = draft.script /\ draft'.profile = draft.profile
              \/ planning.stage = "checked" /\ planning.profile = draft'.scenes.under

DeskSound ==
    /\ [](AtMostOneEnabled /\ DraftStandsOnPresent)
    /\ [][StaleReturns]_deskVars

(***************************************************************************)
(* A plan is saved only after it was found to be made under the policy of  *)
(* that moment, and names that policy, although preferences, limits, the   *)
(* profile and files change while the planner is out; and a render is      *)
(* finished only after no adopted limit was found to meet its use.  What   *)
(* meets a finished render is a limit adopted, widened or held since that  *)
(* last look, never one it was queued under (main.py:4494, handlers.py:204).*)
(***************************************************************************)
PlanOfPolicy ==
    /\ planning.stage = "asked" /\ planning'.stage = "checked" => planning.refs = PlanningRefs
    /\ (draft' # draft /\ draft'.scenes.copy = "planned" /\ draft'.scenes \notin {draft.scenes, tab.scenes})
          => planning.stage = "checked" /\ draft'.scenes.refs = planning.refs /\ draft'.refs = planning.refs

LimitsRespected ==
    \A j \in RenderJobs :
        /\ (renders[j].status = "rendering" /\ renders'[j].status = "checked")
              => ~\E l \in Recorded : Meets(l, renders[j].use)
        /\ (renders[j].status # "done" /\ renders'[j].status = "done") => renders[j].status = "checked"

MetOnlySince ==
    \A j \in RenderJobs, l \in Recorded :
        renders[j].status \in {"checked", "done"} /\ Meets(l, renders[j].use)
            => <<l, limits[l], LimitReasons(l)>> \notin renders[j].context

PolicyKept == []MetOnlySince /\ [][PlanOfPolicy /\ LimitsRespected]_deskVars
=============================================================================
