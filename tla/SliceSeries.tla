----------------------------- MODULE SliceSeries -----------------------------
(***************************************************************************)
(* A series of short Talking videos over one recording: its child jobs,    *)
(* their outputs and judgments, the one replacement of a failed child, the *)
(* continuity review and the assembly into a run (main.py, the generation  *)
(* handler, talking/series_review.py and talking/runs.py). The API answers *)
(* one request at a time; worker processes run beside it.                  *)
(***************************************************************************)
EXTENDS Naturals, FiniteSets

CONSTANTS
    Size,         \* the number of slices
    SliceTries    \* attempts of a job

ASSUME SeriesAssumption == Size \in Nat \ {0} /\ SliceTries \in Nat \ {0}

Indexes == 1..Size
\* The child of an index, and the replacement it may get.
Children == Indexes \X {"first", "second"}
\* The files a provider may make for an index; no two indexes share one.
Outputs == Indexes \X {"a", "b"}

VARIABLES
    narration,    \* the recording: "approved", "verified" or "pending"
    recovery,     \* the index of the replaced child, or 0
    sliceJobs,       \* the jobs
    generating,   \* handlers at work, of attempts whose lease may be lost
    outputs,      \* talking_generation of the stored videos
    opened,       \* the video row a review request has read
    continuity,   \* the continuity review; seen: what was stored at its time
    assembling,   \* the assembler at work
    assembled,    \* run_id in the metadata of the assembled asset
    admitted      \* the TalkingRun

seriesVars == <<narration, recovery, sliceJobs, generating, outputs, opened, continuity,
                assembling, assembled, admitted>>

NoChild == [status |-> "absent", attempt |-> 0, error |-> "none"]
Queued == [NoChild EXCEPT !.status = "pending"]
NoVideo == [job |-> <<0, "first">>, qa |-> "none", human |-> "none"]
Unset == [at |-> "none"]

Present == [i \in Indexes |-> <<i, IF recovery = i THEN "second" ELSE "first">>]

-----------------------------------------------------------------------------
\* Mutant: any sibling, as before slices had an order.
Unordered(c) == sliceJobs[c].status # "absent"

\* The claim's NOT EXISTS: every job of an earlier slice, the replaced included.
InTurn(c) ==
    \A d \in Children :
        d[1] < c[1] /\ sliceJobs[d].status # "absent" => sliceJobs[d].status = "completed"

\* Claimed, or taken over after its lease ran out; the handler looks at the narration first.
TakeSlice(c) ==
    LET a == sliceJobs[c].attempt + 1 IN
    /\ sliceJobs[c].status \in {"pending", "running"} /\ a =< SliceTries /\ InTurn(c)
    /\ IF narration = "approved"
         THEN /\ sliceJobs' = [sliceJobs EXCEPT ![c] = [status |-> "running", attempt |-> a, error |-> "none"]]
              /\ generating' = generating \cup {[job |-> c, attempt |-> a, stored |-> FALSE]}
         ELSE /\ sliceJobs' = [sliceJobs EXCEPT ![c] = [status |-> "failed", attempt |-> a, error |-> "other"]]
              /\ UNCHANGED generating
    /\ UNCHANGED <<narration, recovery, outputs, opened, continuity, assembling, assembled, admitted>>

\* recover_expired, with no attempt left.
ExpireSlice(c) ==
    /\ sliceJobs[c].status = "running" /\ sliceJobs[c].attempt = SliceTries
    /\ sliceJobs' = [sliceJobs EXCEPT ![c].status = "failed", ![c].error = "other"]
    /\ UNCHANGED <<narration, recovery, generating, outputs, opened, continuity, assembling, assembled, admitted>>

Owns(h) == sliceJobs[h.job].status = "running" /\ sliceJobs[h.job].attempt = h.attempt

Report(h, status, error) ==
    /\ generating' = generating \ {h}
    /\ sliceJobs' = IF Owns(h) THEN [sliceJobs EXCEPT ![h.job].status = status, ![h.job].error = error]
                            ELSE sliceJobs
    /\ UNCHANGED <<narration, recovery, outputs, opened, continuity, assembling, assembled, admitted>>

SliceFails(h) ==
    /\ ~h.stored
    /\ \/ Report(h, "failed", "invalid")
       \/ Report(h, "failed", "other")
       \/ Report(h, IF h.attempt < SliceTries THEN "pending" ELSE "failed", "other")

\* The import and the metadata; known bytes are described anew.
StoreSlice(h) ==
    /\ ~h.stored
    /\ \E v \in Outputs :
        /\ v[1] = h.job[1]
        /\ outputs' = [outputs EXCEPT ![v] = [job |-> h.job, qa |-> "pending", human |-> "none"]]
    /\ generating' = (generating \ {h}) \cup {[h EXCEPT !.stored = TRUE]}
    /\ UNCHANGED <<narration, recovery, sliceJobs, opened, continuity, assembling, assembled, admitted>>

FinishSlice(h) == h.stored /\ Report(h, "completed", "none")

SliceDies(h) ==
    /\ generating' = generating \ {h}
    /\ UNCHANGED <<narration, recovery, sliceJobs, outputs, opened, continuity, assembling, assembled, admitted>>

-----------------------------------------------------------------------------
\* The verdict of an evaluation script (external to the lane).
CheckOutput(v) ==
    /\ outputs[v].qa = "pending"
    /\ \E verdict \in {"verified", "failed"} : outputs' = [outputs EXCEPT ![v].qa = verdict]
    /\ UNCHANGED <<narration, recovery, sliceJobs, generating, opened, continuity, assembling, assembled, admitted>>

\* The recording is checked or reviewed anew.
NarrationMoves ==
    /\ narration' \in {"approved", "verified", "pending"} \ {narration}
    /\ UNCHANGED <<recovery, sliceJobs, generating, outputs, opened, continuity, assembling, assembled, admitted>>

ApiFree == opened = Unset /\ assembling = Unset

\* record_talking_human_review reads the row, and writes it back as a whole.
OpenReview(v) ==
    /\ ApiFree
    /\ outputs[v].qa = "verified" /\ outputs[v].human = "none"
    /\ sliceJobs[outputs[v].job].status = "completed"
    /\ opened' = [at |-> "row", video |-> v, row |-> outputs[v]]
    /\ UNCHANGED <<narration, recovery, sliceJobs, generating, outputs, continuity, assembling, assembled, admitted>>

DecideReview ==
    /\ opened # Unset
    /\ \E decision \in {"approved", "rejected"} :
        outputs' = [outputs EXCEPT ![opened.video] = [opened.row EXCEPT !.human = decision]]
    /\ opened' = Unset
    /\ UNCHANGED <<narration, recovery, sliceJobs, generating, continuity, assembling, assembled, admitted>>

-----------------------------------------------------------------------------
Of(c) == {v \in Outputs : outputs[v].job = c}

\* Mutant: the first of several, instead of none.
SomeOutput(c) == Of(c) # {}

OneOutput(c) == Cardinality(Of(c)) = 1

\* assess_talking_slice_series: what a child still lacks.
Lacks(i) ==
    LET c == Present[i] IN
    IF sliceJobs[c].status = "failed" THEN "job_failed"
    ELSE IF sliceJobs[c].status # "completed" THEN "job_not_completed"
    ELSE IF Of(c) = {} THEN "output_missing"
    ELSE IF ~OneOutput(c) THEN "output_ambiguous"
    ELSE IF \E v \in Of(c) : outputs[v].qa # "verified" THEN "automated"
    ELSE IF \E v \in Of(c) : outputs[v].human # "approved" THEN "human"
    ELSE "nothing"

Readiness ==
    LET lacks == {Lacks(i) : i \in Indexes} IN
    IF lacks = {"nothing"} THEN "ready"
    ELSE IF lacks \cap {"job_failed", "output_ambiguous"} # {} THEN "blocked"
    ELSE IF "job_not_completed" \in lacks THEN "waiting_for_jobs"
    ELSE IF "output_missing" \in lacks THEN "waiting_for_outputs"
    ELSE IF "automated" \in lacks THEN "waiting_for_qa"
    ELSE "waiting_for_review"

Ready == Readiness = "ready"

Evidence == [i \in Indexes |-> CHOOSE v \in Outputs : v \in Of(Present[i])]

\* Mutant: a failure of any attempt.
AnyFailure(c) == sliceJobs[c].status = "failed" /\ sliceJobs[c].error = "invalid"

Replaceable(c) == sliceJobs[c].status = "failed" /\ sliceJobs[c].attempt = 1 /\ sliceJobs[c].error = "invalid"

\* recover_talking_slice_series_child, one transaction.
RecoverChild(i) ==
    /\ ApiFree /\ recovery = 0 /\ continuity = Unset /\ admitted = Unset
    /\ Replaceable(<<i, "first">>)
    /\ \A j \in Indexes \ {i} :
        /\ sliceJobs[Present[j]].status = "completed"
        /\ OneOutput(Present[j])
        /\ \A v \in Of(Present[j]) : outputs[v].qa = "verified"
    /\ narration = "approved"
    /\ recovery' = i
    /\ sliceJobs' = [sliceJobs EXCEPT ![<<i, "second">>] = Queued]
    /\ UNCHANGED <<narration, generating, outputs, opened, continuity, assembling, assembled, admitted>>

\* submit_talking_slice_series_continuity_review: immutable.
ReviewSeries ==
    /\ ApiFree /\ continuity = Unset /\ Ready
    /\ \E approved \in BOOLEAN :
        continuity' = [at |-> "reviewed", approved |-> approved, children |-> Present, seen |-> Evidence]
    /\ UNCHANGED <<narration, recovery, sliceJobs, generating, outputs, opened, assembling, assembled, admitted>>

-----------------------------------------------------------------------------
(* TalkingRunAssembler: the checks, the assembled asset, its run's name on  *)
(* it and the run are separate writes.                                      *)
Reviewed == continuity # Unset /\ continuity.approved /\ continuity.children = Present

\* Mutant: assembled again, as if the run were not looked for.
Again == TRUE

Unassembled == admitted = Unset

BeginAssembly ==
    /\ ApiFree /\ Unassembled /\ Reviewed /\ Ready /\ narration # "pending"
    /\ assembling' = [at |-> "checked", children |-> Present, videos |-> Evidence]
    /\ UNCHANGED <<narration, recovery, sliceJobs, generating, outputs, opened, continuity, assembled, admitted>>

StoreAssembled ==
    /\ assembling.at = "checked"
    /\ assembling' = [assembling EXCEPT !.at = "stored"]
    /\ assembled' = "unnamed"
    /\ UNCHANGED <<narration, recovery, sliceJobs, generating, outputs, opened, continuity, admitted>>

NameAssembled ==
    /\ assembling.at = "stored"
    /\ assembling' = [assembling EXCEPT !.at = "named"]
    /\ assembled' = IF admitted = Unset THEN "run" ELSE "another"
    /\ UNCHANGED <<narration, recovery, sliceJobs, generating, outputs, opened, continuity, admitted>>

AdmitAssembled ==
    /\ assembling.at = "named"
    /\ assembling' = Unset
    /\ admitted' = IF admitted # Unset THEN admitted
                   ELSE [at |-> "admitted", children |-> assembling.children, videos |-> assembling.videos]
    /\ UNCHANGED <<narration, recovery, sliceJobs, generating, outputs, opened, continuity, assembled>>

\* The files fail, or the process dies; a request read is answered or lost.
ApiFails ==
    /\ ~ApiFree
    /\ opened' = Unset /\ assembling' = Unset
    /\ UNCHANGED <<narration, recovery, sliceJobs, generating, outputs, continuity, assembled, admitted>>

-----------------------------------------------------------------------------
\* enqueue_talking_slice_series: the parent and its jobs in one transaction.
SeriesInit ==
    /\ narration = "approved" /\ recovery = 0
    /\ sliceJobs = [c \in Children |-> IF c[2] = "first" THEN Queued ELSE NoChild]
    /\ generating = {} /\ outputs = [v \in Outputs |-> NoVideo]
    /\ opened = Unset /\ continuity = Unset
    /\ assembling = Unset /\ assembled = "none" /\ admitted = Unset

SeriesNext ==
    \/ \E c \in Children : TakeSlice(c) \/ ExpireSlice(c)
    \/ \E h \in generating : SliceFails(h) \/ StoreSlice(h) \/ FinishSlice(h) \/ SliceDies(h)
    \/ \E v \in Outputs : CheckOutput(v) \/ OpenReview(v)
    \/ NarrationMoves \/ DecideReview
    \/ \E i \in Indexes : RecoverChild(i)
    \/ ReviewSeries
    \/ BeginAssembly \/ StoreAssembled \/ NameAssembled \/ AdmitAssembled \/ ApiFails

SeriesSpec == SeriesInit /\ [][SeriesNext]_seriesVars

-----------------------------------------------------------------------------
\* What was reviewed is the present series, and the run is of the very videos that
\* were stored, and each the only one of its child, when the series was reviewed.
RunOfReview ==
    /\ continuity # Unset => continuity.children = Present
    /\ admitted # Unset =>
        /\ continuity # Unset /\ continuity.approved
        /\ admitted.children = continuity.children /\ admitted.videos = continuity.seen

\* A replaced job left no video that could be taken for its successor's.
ReplacedLeftNoVideo == recovery # 0 => Of(<<recovery, "first">>) = {}

\* A replacement can be of the last slice only: behind an earlier failure
\* nothing is ever claimed again.
LastReplaced == recovery \in {0, Size}

\* The asset of a run carries the name of this run.
AssetNamesRun == admitted # Unset => assembled = "run"

\* What main.py:4163 and talking/runs.py:37 promise of a series, its jobs,
\* videos, judgments and run.
CollectionSound == RunOfReview /\ ReplacedLeftNoVideo /\ LastReplaced /\ AssetNamesRun
=============================================================================
