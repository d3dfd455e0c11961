------------------------------- MODULE MCParts -------------------------------
(***************************************************************************)
(* The rules of MCRules, and small machines that meet neither them nor one *)
(* another: a behaviour is of one of them, and the others rest. What a     *)
(* machine owes holds while it does not rest.                              *)
(***************************************************************************)
EXTENDS MCRules, ClipLibrary, PlanningDesk, PresentationRepair, SliceSeries

CONSTANTS a1, a2, t1, v1, v2, s1, f1

AtRest == "rests"

-----------------------------------------------------------------------------
(* A video of four units, cut in its middle or near an end; two handlers of *)
(* its analysis, two of one index job, a transcription and an assessment.   *)
LibraryJobs == (a1 :> a1) @@ (a2 :> a2) @@ (t1 :> t1) @@ (v1 :> v1) @@ (v2 :> v1) @@ (s1 :> s1)
LibraryKinds == (a1 :> "analyze") @@ (a2 :> "analyze") @@ (t1 :> "transcribe")
                @@ (v1 :> "index") @@ (v2 :> "index") @@ (s1 :> "assess")
SceneCuts == {{1}, {2}}
Speech == {{<<0, 2>>}}
Analysed == {<<0, 3>>}
IdsOrdered == [i \in Ids |-> IF i \in Foreign THEN 99 ELSE 10 * i[1] + i[2]]

LibraryRests ==
    /\ clips = AtRest /\ index = AtRest /\ suitable = AtRest /\ moved = AtRest
    /\ imported = AtRest /\ at = AtRest /\ held = AtRest /\ call = AtRest

AskLibrary ==
    /\ Ask([rule |-> "library"])
    /\ \E others \in {{a2, v1}, {v1, v2}, {t1, v1}, {t1, s1}, {v1, s1}} :
        at = [a \in Attempts |-> IF a \in {a1} \cup others THEN "waiting" ELSE "gone"]
    /\ LibraryInit

\* The library's rows agree with the video, the index and one another (ClipLibrary).
LibraryHolds == asked.rule = "library" => LibrarySound

\* A handler's late result leaves what others wrote to a clip meanwhile (ClipLibrary).
OthersKept == [][asked.rule = "library" => KeepsOthers]_libraryVars

-----------------------------------------------------------------------------
\* Two findings besides the creator's own selection, one limit, one render.
Looks == {[source |-> "a", look |-> look] : look \in {"plain", "bold", "unknown"}}

DeskRests == DeskInit

AskDesk == Ask([rule |-> "desk"]) /\ DeskInit

-----------------------------------------------------------------------------
\* Scenes a correction can be of: their caption is shown twice, with another short
\* phrase at hand.
Correctable ==
    {s \in Scenes : /\ Presentable(s) /\ s.contained /\ s.phrase /\ ~s.panel
                    /\ s.role # "footage" /\ s.text = "caption" /\ s.subtitles = "timed"}

RepairRests ==
    /\ shown = AtRest /\ rendition = AtRest /\ video = AtRest /\ observed = AtRest /\ inspected = AtRest
    /\ revised = AtRest /\ rendering = AtRest /\ renderCall = AtRest /\ facts = AtRest

AskRepair == Ask([rule |-> "repair"]) /\ \E s \in Correctable : RepairStart(s)

\* A correction is one line of renders that are what was confirmed (PresentationRepair).
RepairHolds == asked.rule = "repair" => RepairSound

-----------------------------------------------------------------------------
SeriesRests ==
    /\ narration = AtRest /\ recovery = AtRest /\ sliceJobs = AtRest /\ generating = AtRest
    /\ outputs = AtRest /\ opened = AtRest /\ continuity = AtRest /\ assembling = AtRest
    /\ assembled = AtRest /\ admitted = AtRest

AskCollection == Ask([rule |-> "collection"]) /\ SeriesInit

\* An assembled run is what was reviewed of its slices (SliceSeries).
CollectionHolds == asked.rule = "collection" => CollectionSound

-----------------------------------------------------------------------------
Machines == {"library", "desk", "repair", "collection"}

PartsInit ==
    \/ AskRule /\ asked.rule \notin Machines
       /\ LibraryRests /\ DeskRests /\ RepairRests /\ SeriesRests
    \/ AskLibrary /\ DeskRests /\ RepairRests /\ SeriesRests
    \/ AskDesk /\ LibraryRests /\ RepairRests /\ SeriesRests
    \/ AskRepair /\ LibraryRests /\ DeskRests /\ SeriesRests
    \/ AskCollection /\ LibraryRests /\ DeskRests /\ RepairRests

PartsNext ==
    \/ Answer /\ UNCHANGED <<libraryVars, deskVars, repairVars, seriesVars>>
    \/ asked.rule = "library" /\ LibraryNext /\ UNCHANGED <<callVars, deskVars, repairVars, seriesVars>>
    \/ asked.rule = "desk" /\ DeskNext /\ UNCHANGED <<callVars, libraryVars, repairVars, seriesVars>>
    \/ asked.rule = "repair" /\ RepairNext /\ UNCHANGED <<callVars, libraryVars, deskVars, seriesVars>>
    \/ asked.rule = "collection" /\ SeriesNext /\ UNCHANGED <<callVars, libraryVars, deskVars, repairVars>>

PartsSpec == PartsInit /\ [][PartsNext]_<<callVars, libraryVars, deskVars, repairVars, seriesVars>>
=============================================================================
