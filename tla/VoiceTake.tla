----------------------------- MODULE VoiceTake -----------------------------
(***************************************************************************)
(* One generated narration take (an audio_assets row) and what is written  *)
(* beside it: VoiceQaJobHandler and VoiceBoundaryAlignmentJobHandler       *)
(* (jobs/handlers.py) in the worker processes of JobRunner, and the human  *)
(* review endpoint of the API process (main.py, voice_qa.py).  Each writer *)
(* reads the row, works on that copy, and later writes the whole row back. *)
(*                                                                         *)
(* The API process runs its endpoints one after the other (async def       *)
(* without an await), so one review at most is between read and write.     *)
(***************************************************************************)
EXTENDS JobRunner

CONSTANTS
    QaJobs,      \* verify_voice jobs of the take
    AlignJobs,   \* align_voice_boundaries jobs of the take
    NoTake

VARIABLES
    take,   \* the row's metadata
    step,   \* where each worker's handler is
    seen,   \* the copy of the row it works on, NoTake before it has one
    desk    \* the copy the review endpoint works on

voice == <<take, step, seen, desk>>
voiceVars == <<allVars, voice>>

Decisions == {"approved", "rejected"}

\* voice_generation.qa_state and human_review_state ("pending" until a
\* decision), and whether voice_word_timing is present.
Takes == [qa : {"pending", "verified", "failed"},
          review : {"pending"} \cup Decisions,
          words : BOOLEAN]

ASSUME VoiceTakeAssumption ==
    /\ QaJobs \cup AlignJobs = Jobs /\ QaJobs \cap AlignJobs = {}
    /\ SeriesOf = [j \in Jobs |-> NoSeries]
    /\ NoTake \notin Takes

TakeTypeOK ==
    /\ RunnerTypeOK
    /\ take \in Takes
    /\ step \in [Workers -> {"start", "asr", "write"}]
    /\ seen \in [Workers -> Takes \cup {NoTake}]
    /\ desk \in Takes \cup {NoTake}
    /\ \A w \in Workers : At(w, "handle") \/ (step[w] = "start" /\ seen[w] = NoTake)

\* VoiceGenerationJobHandler has stored the take.
VoiceInit ==
    /\ RunnerInit
    /\ take = [qa |-> "pending", review |-> "pending", words |-> FALSE]
    /\ step = [w \in Workers |-> "start"]
    /\ seen = [w \in Workers |-> NoTake]
    /\ desk = NoTake

-----------------------------------------------------------------------------

\* A handler's place and copy go when it ends.
Keep ==
    /\ step' = [w \in Workers |-> IF pc'[w] = "handle" THEN step[w] ELSE "start"]
    /\ seen' = [w \in Workers |-> IF pc'[w] = "handle" THEN seen[w] ELSE NoTake]

\* The handler of w's job is at s, and ends with o or goes on to t.
In(w, s, K) == At(w, "handle") /\ cur[w] \in K /\ step[w] = s
Ends(w, o) == HandlerReturns(w) /\ outcome'[w] = o /\ Keep
Goes(w, t) == step' = [step EXCEPT ![w] = t] /\ UNCHANGED <<allVars, desk>>

-----------------------------------------------------------------------------
(* VoiceQaJobHandler.__call__                                              *)

\* Mutant: a verified take is verified again.
QaReadsAgain(w) ==
    /\ In(w, "start", QaJobs)
    /\ seen' = [seen EXCEPT ![w] = take]
    /\ Goes(w, "write")
    /\ UNCHANGED take

QaReads(w) ==
    /\ In(w, "start", QaJobs)
    /\ take.qa # "verified"
    /\ seen' = [seen EXCEPT ![w] = take]
    /\ Goes(w, "write")
    /\ UNCHANGED take

\* voice_qa_already_verified.
QaRefuses(w) ==
    /\ In(w, "start", QaJobs)
    /\ take.qa = "verified"
    /\ Ends(w, "terminal")
    /\ UNCHANGED <<take, desk>>

\* The call is refused by the budget, or the ASR fails.
AsrFails(w) ==
    /\ In(w, "write", QaJobs) \/ In(w, "asr", AlignJobs)
    /\ Ends(w, "retryable") \/ Ends(w, "terminal")
    /\ UNCHANGED <<take, desk>>

\* apply_voice_qa on the copy read before the ASR ran, and the update.
QaWrites(w) ==
    /\ In(w, "write", QaJobs)
    /\ \E verified, timed \in BOOLEAN :
          /\ take' = [qa |-> IF verified THEN "verified" ELSE "failed",
                      review |-> IF verified THEN "pending" ELSE seen[w].review,
                      words |-> seen[w].words \/ timed]
          /\ Ends(w, IF verified THEN "ok" ELSE "terminal")
    /\ UNCHANGED desk

-----------------------------------------------------------------------------
(* VoiceBoundaryAlignmentJobHandler.__call__                               *)

Alignable == take.qa = "verified" /\ ~take.words

AlignStarts(w) ==
    In(w, "start", AlignJobs) /\ Alignable /\ Goes(w, "asr") /\ UNCHANGED <<take, seen>>

\* latest, once the words are there.
AlignReads(w) ==
    /\ In(w, "asr", AlignJobs)
    /\ ~take.words
    /\ seen' = [seen EXCEPT ![w] = take]
    /\ Goes(w, "write")
    /\ UNCHANGED take

\* The transaction looks at current for word timing only, and writes the
\* metadata of latest.
AlignWrites(w) ==
    /\ In(w, "write", AlignJobs)
    /\ ~take.words
    /\ take' = [seen[w] EXCEPT !.words = TRUE]
    /\ Ends(w, "ok")
    /\ UNCHANGED desk

\* voice_boundary_evidence_exists, _preflight_failed, _asset_changed.
AlignRefuses(w) ==
    /\ \/ In(w, "start", AlignJobs) /\ ~Alignable
       \/ (In(w, "asr", AlignJobs) \/ In(w, "write", AlignJobs)) /\ take.words
    /\ Ends(w, "terminal")
    /\ UNCHANGED <<take, desk>>

-----------------------------------------------------------------------------
(* record_voice_human_review: read and check, then write.                  *)

\* Mutant: the automated verdict is not asked for.
DeskReadsAny ==
    /\ desk = NoTake
    /\ take.review \notin Decisions
    /\ desk' = take
    /\ UNCHANGED <<allVars, take, step, seen>>

DeskReads ==
    /\ desk = NoTake
    /\ take.qa = "verified" /\ take.review \notin Decisions
    /\ desk' = take
    /\ UNCHANGED <<allVars, take, step, seen>>

DeskWrites ==
    /\ desk # NoTake
    /\ \E d \in Decisions : take' = [desk EXCEPT !.review = d]
    /\ desk' = NoTake
    /\ UNCHANGED <<allVars, step, seen>>

\* enqueue_voice_qa, advance_voice_qa and enqueue_voice_boundary_alignment,
\* and the cancellation of a pending job with its ProductionRun.
DeskQueues ==
    /\ desk = NoTake
    /\ \E j \in Jobs : \/ Cancel(j)
                       \/ j \in QaJobs /\ take.qa # "verified" /\ Enqueue({j})
                       \/ j \in AlignJobs /\ Alignable /\ Enqueue({j})
    /\ UNCHANGED <<procs, history, voice>>

-----------------------------------------------------------------------------
Handle(w) ==
    \/ QaReads(w) \/ QaRefuses(w) \/ QaWrites(w) \/ AsrFails(w)
    \/ AlignStarts(w) \/ AlignReads(w) \/ AlignWrites(w) \/ AlignRefuses(w)

\* What the processes do around their handlers.
Around(w) ==
    /\ \/ ~At(w, "handle") /\ Advance(w)
       \/ Renew(w) \/ Exit(w) \/ HeartbeatFails(w)
    /\ Keep /\ UNCHANGED <<take, desk>>

VoiceNext ==
    \/ \E w \in Workers : Handle(w) \/ Around(w)
    \/ Time /\ UNCHANGED voice
    \/ DeskReads \/ DeskWrites \/ DeskQueues

VoiceSpec == VoiceInit /\ [][VoiceNext]_voiceVars

-----------------------------------------------------------------------------
(***************************************************************************)
(* What the evidence beside a take must keep, whoever writes it.           *)
(***************************************************************************)
\* A human decision stands on a passed automated check: no order of QA
\* verdicts, reviews and alignments leaves a decided take unverified
\* (voice_human_review_status reads both).
ReviewedTakeVerified == take.review \in Decisions => take.qa = "verified"

\* U-Voice is immutable: a decision on this very take is never erased or
\* replaced (apply_voice_human_review; DECISIONS.md, D016).
DecisionFinal == [][take.review \in Decisions => take'.review = take.review]_voiceVars

\* What may break it at all: somebody who read the take before this decision and
\* writes that copy back.  Every job and review that reads after the decision
\* keeps it, through lapses, retries and crashes.
Copies == {seen[w] : w \in Workers} \cup {desk}

DecisionKept ==
    [][take.review \in Decisions =>
          \/ take'.review = take.review
          \/ \E c \in Copies \ {NoTake} : c.review # take.review]_voiceVars
=============================================================================
