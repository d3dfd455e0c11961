----------------------------- MODULE ClipLibrary -----------------------------
(***************************************************************************)
(* The clips of one imported video and their search index: the jobs that   *)
(* cut it (media/pipeline.py), transcribe it (media/transcripts.py),       *)
(* describe and index it (media/vision_pipeline.py, search/pipeline.py),   *)
(* their handlers (jobs/handlers.py), and what people import or record     *)
(* about a clip meanwhile (main.py). Every job reads, works or waits for a *)
(* provider without a lock, and writes in one transaction; several attempts*)
(* of a job may be at work, since a lost lease does not stop a handler.    *)
(***************************************************************************)
EXTENDS Integers, FiniteSets, FiniteSetsExt

CONSTANTS
    Duration,      \* of the video
    MinClip,       \* min_clip_duration_ms
    Boundaries,    \* what the scene detector may report: sets of times
    Readings,      \* what may be heard in it: sets of intervals of time
    Attempts,      \* handlers that may run, each once
    JobOf,         \* the job an attempt is of
    KindOf,        \* "analyze", "transcribe", "index"; or "assess", a request
    Foreign,       \* ids of clips only an imported analysis brings
    IdOrder,       \* how ids compare
    Brought,       \* the intervals it gives
    None

Intervals == {i \in (0..Duration) \X (0..Duration) : i[1] < i[2]}

\* A clip the pipeline cuts is named by its interval (uuid5 of asset, start, end).
Ids == Intervals \cup Foreign

\* A row: its words, what was seen in it and when, an assessment, whether it is indexed.
ClipRows == [interval : Intervals, script : {None} \cup SUBSET Intervals,
          look : {None} \cup [by : Attempts \cup {"import"}, of : Intervals],
          assessed : {None} \cup Attempts, ref : BOOLEAN]

ASSUME LibraryAssumption ==
    /\ Duration \in Nat \ {0} /\ MinClip \in Nat \ {0}
    /\ Boundaries \subseteq SUBSET (0..Duration)
    /\ Readings \subseteq SUBSET Intervals /\ Brought \subseteq Intervals
    /\ KindOf \in [Attempts -> {"analyze", "transcribe", "index", "assess"}]
    /\ JobOf \in [Attempts -> Attempts]
    /\ IdOrder \in [Ids -> Nat] /\ \A i, j \in Ids : IdOrder[i] = IdOrder[j] => i = j
    /\ None \notin Ids \cup ClipRows

VARIABLES
    clips,         \* the rows: id -> clip, None where there is none
    index,         \* clip_search_index: id -> [text, vector]
    suitable,      \* clips with a talking_source_suitability row
    moved,         \* ghost: clips whose interval an import has changed
    imported,      \* ghost: clips an import wrote since the video was cut last
    at,            \* where an attempt stands
    held,          \* what it has read or been answered
    call           \* its provider call: operation and status

libraryVars == <<clips, index, suitable, moved, imported, at, held, call>>

Blank(interval) ==
    [interval |-> interval, script |-> None, look |-> None, assessed |-> None, ref |-> FALSE]

NoCall == [operation |-> "none", status |-> "none"]

\* Some of the attempts are never made.
LibraryInit ==
    /\ clips = [i \in Ids |-> None]
    /\ index = [i \in Ids |-> None]
    /\ suitable = {} /\ moved = {} /\ imported = {}
    /\ at \in [Attempts -> {"waiting", "gone"}]
    /\ held = [a \in Attempts |-> None]
    /\ call = [a \in Attempts |-> NoCall]

Stored == {i \in Ids : clips[i] # None}

\* ClipRepository.list_by_asset: the rows as they are, ordered by start, end, id.
Copy == [i \in Stored |-> clips[i]]

Precedes(list, i, j) ==
    LET s == list[i].interval
        t == list[j].interval
    IN  \/ s[1] < t[1]
        \/ s[1] = t[1] /\ s[2] < t[2]
        \/ s = t /\ IdOrder[i] < IdOrder[j]

\* The ids are still these, in this order.
Listed(list) ==
    /\ DOMAIN list = Stored
    /\ \A i, j \in Stored : Precedes(list, i, j) <=> Precedes(clips, i, j)

-----------------------------------------------------------------------------
(* Provider calls of a job. *)

\* A call of the job with this operation is still open, of this or another attempt.
Outstanding(a, operation) ==
    \E b \in Attempts : JobOf[b] = JobOf[a]
                        /\ call[b] = [operation |-> operation, status |-> "running"]

Reserve(a, operation) ==
    /\ ~Outstanding(a, operation)
    /\ call' = [call EXCEPT ![a] = [operation |-> operation, status |-> "running"]]

Finish(a, status) == call' = [call EXCEPT ![a].status = status]

Goes(a, where) == at' = [at EXCEPT ![a] = where]
Keeps(a, what) == held' = [held EXCEPT ![a] = what]

\* Whatever a handler meets before it has opened a call, and a process that dies
\* anywhere: nothing is written, and a call under way stays open.
Stop(a) ==
    /\ at[a] \notin {"gone", "done"}
    /\ Goes(a, "gone")
    /\ Keeps(a, None)
    /\ UNCHANGED <<clips, index, suitable, moved, imported, call>>

-----------------------------------------------------------------------------
(* Cutting: segmentation.continuous_clips and MediaAnalysisPipeline. *)

\* Where a video may be cut: its ends are always.
Cuts == {c \in SUBSET (0..Duration) : {0, Duration} \subseteq c}

NextCut(cuts, c) == Min({d \in cuts : d > c})

TooShort(cuts) == {c \in cuts \ {Duration} : NextCut(cuts, c) - c < MinClip}

\* The cut that starts the first short fragment, or where that is the start of the
\* video, the next.
Dropped(cuts) == IF Min(TooShort(cuts)) = 0 THEN NextCut(cuts, 0) ELSE Min(TooShort(cuts))

\* Cuts are removed, from the front, until no fragment is too short.
Merged[cuts \in Cuts] ==
    IF Cardinality(cuts) =< 2 \/ TooShort(cuts) = {} THEN cuts ELSE Merged[cuts \ {Dropped(cuts)}]

Cut(boundaries) ==
    LET cuts == Merged[boundaries \cup {0, Duration}]
    IN  {i \in cuts \X cuts : i[1] < i[2] /\ \A c \in cuts : c =< i[1] \/ c >= i[2]}

\* AssetAnalysisJobHandler: the detector runs, audio and keyframes are extracted.
Analyze(a) ==
    /\ KindOf[a] = "analyze" /\ at[a] = "waiting"
    /\ \E b \in Boundaries : Keeps(a, Cut(b))
    /\ Goes(a, "cut")
    /\ UNCHANGED <<clips, index, suitable, moved, imported, call>>

\* _replace_clip_set: every clip of the new cut is written blank, also where a clip
\* of its id had words, a description and an assessment; the others go, and their
\* index rows with them, unless one is referred to.
Replace(a) ==
    /\ at[a] = "cut"
    /\ (Stored \ held[a]) \cap suitable = {}
    /\ clips' = [i \in Ids |-> IF i \in held[a] THEN Blank(i) ELSE None]
    /\ index' = [i \in Ids |-> IF i \in held[a] THEN index[i] ELSE None]
    /\ imported' = {}
    /\ Goes(a, "done") /\ Keeps(a, None)
    /\ UNCHANGED <<suitable, moved, call>>

-----------------------------------------------------------------------------
(* Words: AssetTranscriptionJobHandler and an imported transcript. *)
AskTranscript(a) ==
    /\ KindOf[a] = "transcribe" /\ at[a] = "waiting"
    /\ Reserve(a, "asr")
    /\ Goes(a, "hearing")
    /\ UNCHANGED <<clips, index, suitable, moved, imported, held>>

Transcribed(a) ==
    /\ at[a] = "hearing"
    /\ \/ /\ \E r \in Readings : Keeps(a, r)
          /\ Finish(a, "completed") /\ Goes(a, "heard")
       \/ /\ Finish(a, "failed") /\ Goes(a, "gone")
          /\ UNCHANGED held
    /\ UNCHANGED <<clips, index, suitable, moved, imported>>

\* map_transcript_to_clips: each clip gets the segments that overlap it.
SpokenIn(reading, interval) ==
    LET segments == {s \in reading : s[2] > interval[1] /\ s[1] < interval[2]}
    IN  IF segments = {} THEN None ELSE segments

\* ClipTranscriptPersistence.apply: over the clips as they are now.
Transcribe(reading) ==
    /\ Stored # {}
    /\ clips' = [i \in Ids |->
                    IF clips[i] = None THEN None
                    ELSE [clips[i] EXCEPT !.script = SpokenIn(reading, clips[i].interval)]]

Apply(a) ==
    /\ at[a] = "heard"
    /\ Transcribe(held[a])
    /\ Goes(a, "done") /\ Keeps(a, None)
    /\ UNCHANGED <<index, suitable, moved, imported, call>>

ImportTranscript ==
    /\ \E r \in Readings : Transcribe(r)
    /\ UNCHANGED <<index, suitable, moved, imported, at, held, call>>

-----------------------------------------------------------------------------
(* Pictures and index: AssetVisionJobHandler. *)
\* The clips are listed and a keyframe of each is extracted.
List(a) ==
    /\ KindOf[a] = "index" /\ at[a] = "waiting"
    /\ Stored # {}
    /\ Keeps(a, Copy) /\ Goes(a, "frames")
    /\ UNCHANGED <<clips, index, suitable, moved, imported, call>>

\* MediaVisionPipeline: they are listed again, and must be the clips the keyframes
\* are of; then the provider is asked, a call for each keyframe.
AskLooks(a) ==
    /\ at[a] = "frames"
    /\ Listed(held[a])
    /\ \A i \in Stored : held[a][i].interval = clips[i].interval
    /\ Reserve(a, "vision")
    /\ Keeps(a, Copy) /\ Goes(a, "looking")
    /\ UNCHANGED <<clips, index, suitable, moved, imported>>

\* Mutant: the clips that were read are written back with what was seen in them.
WriteBack(a) ==
    /\ at[a] = "looking"
    /\ Listed(held[a])
    /\ clips' = [i \in Ids |->
                    IF clips[i] = None THEN None
                    ELSE [held[a][i] EXCEPT !.look = [by |-> a, of |-> held[a][i].interval]]]
    /\ Finish(a, "completed")
    /\ Goes(a, "described")
    /\ UNCHANGED <<index, suitable, moved, imported, held>>

\* ClipVisualMetadataPersistence.apply: the ids must still be these, and only what
\* was seen is written, into the clips as they are now. What they became is kept
\* for the index.
Describe(a) ==
    /\ at[a] = "looking"
    /\ Listed(held[a])
    /\ clips' = [i \in Ids |->
                    IF clips[i] = None THEN None
                    ELSE [clips[i] EXCEPT !.look = [by |-> a, of |-> held[a][i].interval]]]
    /\ Keeps(a, [i \in Stored |-> clips'[i]])
    /\ Finish(a, "completed")
    /\ Goes(a, "described")
    /\ UNCHANGED <<index, suitable, moved, imported>>

\* The provider fails, or answers and what it saw no longer fits the clips.
LooksLost(a) ==
    /\ at[a] = "looking"
    /\ \/ Finish(a, "failed")
       \/ ~Listed(held[a]) /\ Finish(a, "completed")
    /\ Goes(a, "gone") /\ Keeps(a, None)
    /\ UNCHANGED <<clips, index, suitable, moved, imported>>

AskVectors(a) ==
    /\ at[a] = "described"
    /\ Reserve(a, "embedding")
    /\ Goes(a, "embedding")
    /\ UNCHANGED <<clips, index, suitable, moved, imported, held>>

\* compose_clip_text: what of a clip can be searched for.
TextOf(clip) == [script |-> clip.script, look |-> clip.look]

\* Mutant: the clip need only exist still.
Exists(i, clip) == clips[i] # None

Unchanged(i, clip) ==
    /\ clips[i] # None
    /\ [clips[i] EXCEPT !.ref = FALSE] = [clip EXCEPT !.ref = FALSE]

\* ClipIndexRepository.upsert_many: all the clips are as they were embedded, or none
\* is indexed. The call is not finished.
Index(a) ==
    /\ at[a] = "embedding"
    /\ \A i \in DOMAIN held[a] : Unchanged(i, held[a][i])
    /\ index' = [i \in Ids |->
                    IF i \notin DOMAIN held[a] THEN index[i]
                    ELSE [text |-> TextOf(clips[i]), vector |-> TextOf(held[a][i])]]
    /\ clips' = [i \in Ids |-> IF i \in DOMAIN held[a] THEN [clips[i] EXCEPT !.ref = TRUE] ELSE clips[i]]
    /\ Goes(a, "done") /\ Keeps(a, None)
    /\ UNCHANGED <<suitable, moved, imported, call>>

VectorsLost(a) ==
    /\ at[a] = "embedding"
    /\ Finish(a, "failed")
    /\ Goes(a, "gone") /\ Keeps(a, None)
    /\ UNCHANGED <<clips, index, suitable, moved, imported>>

-----------------------------------------------------------------------------
(* People. *)

\* assess_talking_reference: the clip is read, and written back with the assessment.
ReadClip(a) ==
    /\ KindOf[a] = "assess" /\ at[a] = "waiting"
    /\ \E i \in Stored : Keeps(a, [id |-> i, clip |-> [clips[i] EXCEPT !.assessed = a]])
    /\ Goes(a, "writing")
    /\ UNCHANGED <<clips, index, suitable, moved, imported, call>>

WriteClip(a) ==
    /\ at[a] = "writing"
    /\ clips[held[a].id] # None
    /\ clips' = [clips EXCEPT ![held[a].id] = held[a].clip]
    /\ imported' = IF held[a].clip.interval = held[a].id THEN imported ELSE imported \cup {held[a].id}
    /\ Goes(a, "done") /\ Keeps(a, None)
    /\ UNCHANGED <<index, suitable, moved, call>>

\* import_analysis_results: a clip of any id and interval is written whole; an index
\* row it had stays.
ImportAnalysis ==
    /\ \E i \in Ids, interval \in Brought, r \in Readings :
        /\ imported = {} /\ (i \in Foreign \/ i \in Stored)
        /\ clips' = [clips EXCEPT ![i] = [Blank(interval) EXCEPT
                        !.script = SpokenIn(r, interval), !.look = [by |-> "import", of |-> interval]]]
        /\ imported' = {i}
        /\ moved' = IF interval = i THEN moved ELSE moved \cup {i}
    /\ UNCHANGED <<index, suitable, at, held, call>>

\* A suitability claim of a person about a clip, exactly as it is cut.
ClaimSuitable ==
    /\ \E i \in Stored : suitable' = suitable \cup {i}
    /\ UNCHANGED <<clips, index, moved, imported, at, held, call>>

-----------------------------------------------------------------------------
LibraryNext ==
    \/ \E a \in Attempts :
        \/ Stop(a) \/ Analyze(a) \/ Replace(a)
        \/ AskTranscript(a) \/ Transcribed(a) \/ Apply(a)
        \/ List(a) \/ AskLooks(a) \/ Describe(a) \/ LooksLost(a)
        \/ AskVectors(a) \/ Index(a) \/ VectorsLost(a)
        \/ ReadClip(a) \/ WriteClip(a)
    \/ ImportTranscript \/ ImportAnalysis \/ ClaimSuitable

LibrarySpec == LibraryInit /\ [][LibraryNext]_libraryVars

-----------------------------------------------------------------------------
(***************************************************************************)
(* What the clips of a video and their index owe to one another.           *)
(***************************************************************************)
LibraryTypeOK ==
    /\ \A i \in Ids : clips[i] # None => clips[i].interval \in Intervals
    /\ suitable \subseteq Stored

\* After a cut the clips cover the video without gap or overlap, and none is too
\* short where it could be joined to a neighbour - whatever cuts overlapped.
Partitioned ==
    imported = {} /\ Stored # {} =>
        LET cut == {clips[i].interval : i \in Stored}
        IN  /\ \A t \in 0..(Duration - 1) : Cardinality({i \in cut : i[1] =< t /\ t < i[2]}) = 1
            /\ cut # {<<0, Duration>>} => \A i \in cut : i[2] - i[1] >= MinClip

\* An index row is of a clip that exists, and its vector is of the text it holds.
RowsAgree ==
    \A i \in Ids : index[i] # None => clips[i] # None /\ index[i].vector = index[i].text

\* What was seen in a clip was seen in a frame of its interval, unless an import has
\* given the clip of that id another interval.
LooksTrue ==
    \A i \in Stored \ moved : clips[i].look # None => clips[i].look.of = clips[i].interval

LibrarySound == LibraryTypeOK /\ Partitioned /\ RowsAgree /\ LooksTrue

\* However long a provider was waited for, storing what it saw leaves the words and
\* assessments others wrote meanwhile, storing what it heard leaves looks and
\* assessments, and indexing leaves all of them.
KeepsOthers ==
    \A a \in Attempts : at'[a] # at[a] /\ KindOf[a] \in {"index", "transcribe"} =>
       \A i \in Stored : clips'[i] # None /\ clips'[i].interval = clips[i].interval
          /\ clips'[i].assessed = clips[i].assessed
          /\ (KindOf[a] = "index" => clips'[i].script = clips[i].script)
          /\ (at[a] # "looking" => clips'[i].look = clips[i].look)
=============================================================================
