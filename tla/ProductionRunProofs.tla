------------------------ MODULE ProductionRunProofs ------------------------
(***************************************************************************)
(* Proofs, for any number of runs, takes, attempts, faults and saves of    *)
(* the draft, of what ties a run's row to its jobs and takes.              *)
(***************************************************************************)
EXTENDS ProductionRun, FiniteSetTheorems, TLAPS

\* What the types leave open: versions only grow with saves, a job that waits
\* has an attempt left, and one that runs was given its attempt.
DraftCounts == draft.plan <= draft.version /\ draft.script <= draft.version

JobCounts ==
    \A j \in Jobs :
        /\ jobs[j].status = "pending" => jobs[j].attempt < MaxAttempts
        /\ jobs[j].status = "running" => jobs[j].attempt > 0
        /\ j \in QaJobs /\ jobs[j].status # "absent" => jobs[j].take # NoTake

\* A run's links name its own jobs, and QA follows a completed voice job.
RowLinks ==
    \A r \in Runs : Exists(r) =>
        /\ rows[r].voice \in {NoJob, <<r, "voice">>, <<r, "revoice">>}
        /\ rows[r].stage = "awaiting_master" => rows[r].voice = NoJob
        /\ rows[r].stage = "voice" => rows[r].voice # NoJob
        /\ rows[r].qa # NoJob => Is(rows[r].voice, {"completed"})

\* A run that was not started has no jobs, and nobody works on them.
NoStrayJobs ==
    /\ \A j \in Jobs : ~Exists(j[1]) => jobs[j].status = "absent"
    /\ \A t \in late : Exists(t[1][1])

\* A human decision stands on a verified take (VoiceTake!ReviewedTakeVerified).
DecidedVerified ==
    \A t \in Takes : takes[t].review # "pending" => takes[t].qa = "verified"

OwnMaster == \A r \in Runs : RendersOwn(r)

RunInv ==
    /\ RunTypeOK /\ DraftCounts /\ JobCounts
    /\ LinksAgree /\ RowLinks
    /\ OwnMaster /\ DecidedVerified
    /\ OneRunPerPlan
    /\ NothingLeftBehind /\ NoStrayJobs

-----------------------------------------------------------------------------
(* Names of jobs and takes, and the plan's master                          *)

\* A run's jobs, and what their names say.
LEMMA JobNames ==
  /\ \A r \in Runs : /\ <<r, "voice">> \in VoiceJobs /\ <<r, "revoice">> \in VoiceJobs
                     /\ <<r, "qa">> \in QaJobs /\ <<r, "reqa">> \in QaJobs
                     /\ RenderOf(r) \in RenderJobs
  /\ \A j \in VoiceJobs : j[1] \in Runs /\ j = <<j[1], j[2]>> /\ j[2] \in {"voice", "revoice"}
  /\ \A j \in VoiceJobs : QaOf(j) \in QaJobs /\ QaOf(j)[1] = j[1]
  /\ VoiceJobs \subseteq Jobs /\ QaJobs \subseteq Jobs /\ RenderJobs \subseteq Jobs
  /\ VoiceJobs \cap QaJobs = {} /\ VoiceJobs \cap RenderJobs = {} /\ QaJobs \cap RenderJobs = {}
  BY DEF Jobs, VoiceJobs, QaJobs, RenderJobs, QaOf, RenderOf

\* A run's two voice jobs have QA jobs of their own.
LEMMA QaNames ==
  \A r \in Runs : QaOf(<<r, "voice">>) = <<r, "qa">> /\ QaOf(<<r, "revoice">>) = <<r, "reqa">>
  BY DEF QaOf

\* There are finitely many takes.
LEMMA FiniteTakes == IsFiniteSet(Takes)
<1>1. IsFiniteSet(1..MaxAttempts)
  BY RunAssumption, FS_Interval
<1>2. IsFiniteSet({"voice", "revoice"})
  <2>1. {"voice", "revoice"} = {"voice"} \cup {"revoice"}
    OBVIOUS
  <2>2. IsFiniteSet({"voice"})
    BY FS_Singleton
  <2> QED
    BY <2>1, <2>2, FS_AddElement
<1>3. IsFiniteSet(VoiceJobs)
  BY <1>2, RunAssumption, FS_Product DEF VoiceJobs
<1>4. IsFiniteSet(JobTakes)
  BY <1>1, <1>3, FS_Product DEF JobTakes, Attempts
<1> QED
  BY <1>4, RunAssumption, FS_Union DEF Takes

\* _approved_master returns an approved take of the present script.
LEMMA MasterReusable ==
  /\ Master \in Takes \cup {NoTake}
  /\ Master # NoTake => Master \in Takes /\ Reusable(Master)
<1>1. CASE \E t \in Takes : First(t)
  BY <1>1 DEF Master, First
<1>2. CASE ~\E t \in Takes : First(t)
  BY <1>2 DEF Master
<1> QED
  BY <1>1, <1>2

-----------------------------------------------------------------------------
(* Types                                                                   *)

\* A take that is stored comes last in the table.
LEMMA StoreTakeTypes ==
  ASSUME RunTypeOK, NEW t \in Takes, NEW script \in 0..MaxVersion, StoreTake(t, script)
  PROVE  takes' \in [Takes -> TakeRows]
<1> DEFINE Before == {u \in Takes : Stored(u)}
<1>1. IsFiniteSet(Before) /\ Cardinality(Before) \in Nat
  BY FiniteTakes, FS_Subset, FS_CardinalityType
<1>2. t \notin Before /\ Before \cup {t} \subseteq Takes
  BY DEF StoreTake
<1>3. Cardinality(Before \cup {t}) = Cardinality(Before) + 1
  BY <1>1, <1>2, FS_AddElement
<1>4. Cardinality(Before) + 1 \in 0..Cardinality(Takes)
  BY <1>1, <1>2, <1>3, FiniteTakes, FS_Subset, FS_CardinalityType
<1> QED
  BY <1>4 DEF StoreTake, RunTypeOK, TakeRows

\* What the constants and the types say of numbers.
LEMMA Bounds ==
  /\ MaxAttempts \in Nat \ {0} /\ MaxVersion \in Nat \ {0} /\ MaxFaults \in Nat
  /\ NoTake \notin Takes /\ NoJob \notin Jobs /\ NoRow \notin Rows
  /\ JobTakes \subseteq Takes
  BY RunAssumption DEF Takes

\* The attempt of a running job names a take.
LEMMA ThisTake ==
  ASSUME RunTypeOK, JobCounts, NEW j \in VoiceJobs, Is(j, {"running"})
  PROVE  This(j) \in JobTakes /\ This(j) \in Takes
<1>1. jobs[j].attempt \in 1..MaxAttempts
  BY JobNames, Bounds DEF RunTypeOK, JobRows, JobCounts, Is
<1> QED
  BY <1>1 DEF This, JobTakes, Attempts, Takes

-----------------------------------------------------------------------------
(* What workers, callbacks and people may change of a run: the stop reason *)
(* of its row, the state of a job that has not ended, and what is said of  *)
(* takes                                                                   *)

QuietRows ==
    /\ rows' \in [Runs -> Rows \cup {NoRow}]
    /\ \A r \in Runs :
          /\ rows[r] = NoRow <=> rows'[r] = NoRow
          /\ rows[r] # NoRow => \E b \in BOOLEAN : rows'[r] = [rows[r] EXCEPT !.stopped = b]

QuietJobs ==
    /\ jobs' \in [Jobs -> JobRows]
    /\ \A j \in Jobs :
          /\ jobs'[j].take = jobs[j].take
          /\ jobs[j].status \notin {"pending", "running"} => jobs'[j].status = jobs[j].status
    /\ JobCounts'

QuietTakes ==
    /\ takes' \in [Takes -> TakeRows]
    /\ DecidedVerified'

\* A running job ends, or is given back for another attempt.
LEMMA EndsQuiet ==
  ASSUME RunTypeOK, JobCounts, NEW j \in Jobs, jobs[j].status = "running",
         NEW s \in {"completed", "failed", "faulted"},
         Ends(j, s) \/ Retry(j, s)
  PROVE  QuietJobs
<1>1. PICK new \in Statuses : /\ jobs' = [jobs EXCEPT ![j].status = new]
                              /\ new \in {"completed", "failed", "faulted", "pending"}
                              /\ new = "pending" => jobs[j].attempt < MaxAttempts
  BY DEF Ends, Retry, Statuses
<1>2. jobs \in [Jobs -> JobRows]
  BY DEF RunTypeOK
<1>3. jobs[j].attempt \in 0..MaxAttempts
  BY <1>2 DEF JobRows
<1>4. jobs' \in [Jobs -> JobRows]
  BY <1>1, <1>2 DEF JobRows
<1>5. \A i \in Jobs : i # j => jobs'[i] = jobs[i]
  BY <1>1, <1>2
<1>6. /\ jobs'[j].status = new /\ jobs'[j].attempt = jobs[j].attempt
      /\ jobs'[j].take = jobs[j].take
  BY <1>1, <1>2 DEF JobRows
<1> QED
  BY <1>1, <1>4, <1>5, <1>6 DEF QuietJobs, JobCounts

\* A verdict leaves no decision behind.
LEMMA VerdictQuiet ==
  ASSUME RunTypeOK, DecidedVerified, NEW t, NEW v \in Verdicts, Verdict(t, v)
  PROVE  QuietTakes
<1>1. takes \in [Takes -> TakeRows]
  BY DEF RunTypeOK
<1>2. takes' \in [Takes -> TakeRows]
  BY <1>1 DEF Verdict, Verdicts, TakeRows
<1> QED
  BY <1>1, <1>2 DEF Verdict, Verdicts, QuietTakes, DecidedVerified, TakeRows

\* Nothing is said yet of a take that is being stored.
LEMMA StoreQuiet ==
  ASSUME RunTypeOK, DecidedVerified, NEW t \in Takes, NEW script \in 0..MaxVersion,
         StoreTake(t, script)
  PROVE  QuietTakes
<1>1. takes \in [Takes -> TakeRows]
  BY DEF RunTypeOK
<1>2. takes' \in [Takes -> TakeRows]
  BY StoreTakeTypes
<1>3. \A u \in Takes : takes'[u].qa = takes[u].qa /\ takes'[u].review = takes[u].review
  BY <1>1 DEF StoreTake, TakeRows
<1> QED
  BY <1>2, <1>3 DEF QuietTakes, DecidedVerified

QuietChecks ==
    /\ check' \in [Checks -> {"none", "copy"} \cup Verdicts]
    /\ desk' \in Takes \cup {NoTake}

QuietRest ==
    /\ draft' \in Drafts /\ DraftCounts'
    /\ late' \subseteq JobTakes \cup QaAttempts /\ \A t \in late' : rows[t[1][1]] # NoRow
    /\ QuietChecks
    /\ calls' \in [VoiceJobs -> {"none", "owed", "read", "refused"}]
    /\ down' \in BOOLEAN
    /\ faults' \in 0..MaxFaults

Quiet == QuietRows /\ QuietJobs /\ QuietTakes /\ QuietRest

\* What is not touched is quiet.
LEMMA UntouchedQuiet ==
  ASSUME RunInv
  PROVE  /\ UNCHANGED rows => QuietRows
         /\ UNCHANGED jobs => QuietJobs
         /\ UNCHANGED takes => QuietTakes
         /\ UNCHANGED <<draft, late, check, desk, calls, down, faults>> => QuietRest
<1>1. UNCHANGED rows => QuietRows
  <2> SUFFICES ASSUME UNCHANGED rows, NEW r \in Runs, rows[r] # NoRow
               PROVE  \E b \in BOOLEAN : rows'[r] = [rows[r] EXCEPT !.stopped = b]
    BY DEF QuietRows, RunInv, RunTypeOK
  <2>1. rows[r] \in Rows
    BY DEF RunInv, RunTypeOK
  <2>2. rows[r] = [rows[r] EXCEPT !.stopped = rows[r].stopped] /\ rows[r].stopped \in BOOLEAN
    BY <2>1 DEF Rows
  <2> QED
    BY <2>2
<1>2. UNCHANGED jobs => QuietJobs
  BY DEF QuietJobs, RunInv, RunTypeOK, JobCounts
<1>3. UNCHANGED takes => QuietTakes
  BY DEF QuietTakes, RunInv, RunTypeOK, DecidedVerified
<1>4. UNCHANGED <<draft, late, check, desk, calls, down, faults>> => QuietRest
  BY DEF QuietRest, QuietChecks, RunInv, RunTypeOK, DraftCounts, NoStrayJobs, Exists
<1> QED
  BY <1>1, <1>2, <1>3, <1>4

\* A job at work is a job of a run, whose copy is what a take is made of.
LEMMA WorkingRun ==
  ASSUME RunInv, NEW j \in VoiceJobs
  PROVE  /\ j[1] \in Runs
         /\ Is(j, {"running"}) => Exists(j[1])
         /\ Exists(j[1]) => rows[j[1]].script \in 0..MaxVersion
<1>1. j[1] \in Runs
  BY JobNames
<1>2. Exists(j[1]) => rows[j[1]] \in Rows
  BY <1>1 DEF Exists, RunInv, RunTypeOK
<1> QED
  BY <1>1, <1>2, JobNames, Bounds DEF RunInv, NoStrayJobs, Is, Rows

\* A check that is a take's or an attempt's, at one of its places.
LEMMA ThisCheck ==
  ASSUME RunTypeOK, JobCounts, NEW j \in QaJobs, Is(j, {"running"})
  PROVE  This(j) \in QaAttempts
<1>1. jobs[j].attempt \in 1..MaxAttempts
  BY JobNames, Bounds DEF RunTypeOK, JobRows, JobCounts, Is
<1> QED
  BY <1>1 DEF This, QaAttempts, Attempts

LEMMA CheckTypes ==
  ASSUME RunTypeOK, NEW c, NEW s \in {"none", "copy"} \cup Verdicts, Checking(c, s)
  PROVE  check' \in [Checks -> {"none", "copy"} \cup Verdicts]
BY DEF Checking, RunTypeOK

\* Nothing but a check or a desk moves.
LEMMA KeptRest ==
  ASSUME RunInv, UNCHANGED <<draft, late, calls, down, faults>>, QuietChecks
  PROVE  QuietRest
BY DEF QuietRest, RunInv, RunTypeOK, DraftCounts, NoStrayJobs, Exists

\* Workers are quiet.
LEMMA WorkQuiet ==
  ASSUME RunInv, NEW j \in Jobs, Work(j)
  PROVE  Quiet
<1> USE UntouchedQuiet DEF Quiet
<1>0. RunTypeOK /\ JobCounts /\ DecidedVerified
  BY DEF RunInv
<1>1. CASE Claim(j)
  <2>1. jobs \in [Jobs -> JobRows] /\ jobs[j].attempt \in 0..MaxAttempts /\ jobs[j].attempt < MaxAttempts
    BY <1>0, <1>1 DEF Claim, Is, RunTypeOK, JobRows, JobCounts
  <2>2. jobs' \in [Jobs -> JobRows]
    BY <1>1, <2>1, Bounds DEF Claim, JobRows, Statuses
  <2>3. \A i \in Jobs : i # j => jobs'[i] = jobs[i]
    BY <1>1, <2>1 DEF Claim
  <2>4. /\ jobs'[j].status = "running" /\ jobs'[j].attempt = jobs[j].attempt + 1
        /\ jobs'[j].take = jobs[j].take
    BY <1>1, <2>1 DEF Claim, JobRows
  <2>5. QuietJobs
    BY <1>0, <1>1, <2>1, <2>2, <2>3, <2>4 DEF QuietJobs, JobCounts, Claim, Is
  <2> QED
    BY <1>1, <2>5 DEF Claim
<1>2. CASE j \in VoiceJobs /\ VoiceStores(j)
  BY <1>0, <1>2, WorkingRun, ThisTake, StoreQuiet DEF VoiceStores
<1>3. CASE j \in VoiceJobs /\ VoiceEnds(j)
  <2>1. QuietJobs
    BY <1>0, <1>3, EndsQuiet DEF VoiceEnds, Is
  <2>2. calls' \in [VoiceJobs -> {"none", "owed", "read", "refused"}]
    BY <1>0, <1>3 DEF VoiceEnds, RunTypeOK
  <2> QED
    BY <1>0, <1>3, <2>1, <2>2
       DEF VoiceEnds, QuietRest, QuietChecks, RunInv, RunTypeOK, DraftCounts, NoStrayJobs, Exists
<1>4. CASE j \in QaJobs /\ (QaReads(j) \/ QaWrites(j))
  <2>1. QuietTakes
    BY <1>0, <1>4, VerdictQuiet DEF QaReads, QaWrites
  <2>2. QuietChecks
    BY <1>0, <1>4, CheckTypes DEF QaReads, QaWrites, Reads, QuietChecks, RunTypeOK
  <2>3. UNCHANGED <<draft, rows, jobs, late, calls, down, faults>>
    BY <1>4 DEF QaReads, QaWrites
  <2> QED
    BY <1>0, <2>1, <2>2, <2>3, KeptRest
<1>7. CASE j \in QaJobs /\ (QaEnds(j) \/ QaFails(j))
  <2>1. QuietJobs
    BY <1>0, <1>7, EndsQuiet DEF QaEnds, QaFails, Is
  <2>2. QuietChecks
    BY <1>0, <1>7, CheckTypes DEF QaEnds, QaFails, QuietChecks, RunTypeOK
  <2>3. UNCHANGED <<draft, rows, takes, late, calls, down, faults>>
    BY <1>7 DEF QaEnds, QaFails
  <2> QED
    BY <1>0, <2>1, <2>2, <2>3, KeptRest
<1>5. CASE j \in RenderJobs /\ RenderEnds(j)
  BY <1>0, <1>5, EndsQuiet DEF RenderEnds, Is
<1>6. CASE LoseLease(j)
  <2>1. QuietJobs
    BY <1>0, <1>6, EndsQuiet DEF LoseLease, Is
  <2>2. QuietChecks
    BY <1>0, <1>6, CheckTypes DEF LoseLease, Dies, WorksOn, QuietChecks, RunTypeOK
  <2>3. QuietRest
    <3>1. /\ late' \subseteq JobTakes \cup QaAttempts
          /\ \A t \in late' : rows[t[1][1]] # NoRow
      <4>1. /\ late \subseteq JobTakes \cup QaAttempts
            /\ \A t \in late : rows[t[1][1]] # NoRow
        BY DEF RunInv, RunTypeOK, NoStrayJobs, Exists
      <4>2. CASE j \in VoiceJobs \cup QaJobs /\ late' = late \cup {This(j)}
        <5>1. This(j) \in JobTakes \cup QaAttempts
          BY <1>0, <1>6, <4>2, ThisTake, ThisCheck DEF LoseLease
        <5>2. Exists(j[1])
          BY <1>0, <1>6 DEF LoseLease, Is, RunInv, NoStrayJobs
        <5> QED
          BY <4>1, <4>2, <5>1, <5>2 DEF This, Exists
      <4> QED
        BY <1>6, <4>1, <4>2 DEF LoseLease, Dies, WorksOn
    <3>2. down' \in BOOLEAN
      BY <1>0, <1>6, Zenon DEF LoseLease, Dies, WorksOn, RunTypeOK
    <3>3. faults \in 0..MaxFaults /\ faults < MaxFaults /\ faults' = faults + 1
      BY <1>0, <1>6 DEF LoseLease, RunTypeOK
    <3>4. faults' \in 0..MaxFaults
      BY <3>3, Bounds
    <3> QED
      BY <1>0, <1>6, <2>2, <3>1, <3>2, <3>4
         DEF LoseLease, QuietRest, RunInv, RunTypeOK, DraftCounts
  <2> QED
    BY <1>6, <2>1, <2>3 DEF LoseLease
<1> QED
  BY <1>1, <1>2, <1>3, <1>4, <1>5, <1>6, <1>7 DEF Work

\* A draft that is saved, a take from elsewhere, a check by hand and a review
\* are quiet.
LEMMA AroundQuiet ==
  ASSUME RunInv,
         \/ \E t \in JobTakes : LateStores(t)
         \/ \E c \in QaAttempts : LateReads(c) \/ LateAnswers(c)
         \/ \E t \in Takes : OtherTake(t) \/ HandReads(t) \/ HandWrites(t) \/ ReviewReads(t)
         \/ ReviewWrites \/ SaveDraft \/ Relaunch
  PROVE  Quiet
<1> USE UntouchedQuiet DEF Quiet
<1>0. RunTypeOK /\ DecidedVerified /\ DraftCounts
  BY DEF RunInv
<1>1. ASSUME NEW t \in JobTakes, LateStores(t) PROVE Quiet
  <2>1. t \in Takes /\ t[1] \in VoiceJobs
    BY Bounds DEF JobTakes
  <2>2. rows[t[1][1]].script \in 0..MaxVersion
    BY <1>1, <2>1, WorkingRun DEF LateStores, RunInv, NoStrayJobs
  <2>3. QuietTakes
    BY <1>0, <1>1, <2>1, <2>2, StoreQuiet DEF LateStores
  <2> QED
    BY <1>0, <1>1, <2>3 DEF LateStores, QuietRest, QuietChecks, RunInv, RunTypeOK, DraftCounts, NoStrayJobs, Exists
<1>2. ASSUME NEW t \in Takes, OtherTake(t) PROVE Quiet
  <2>1. draft.script \in 0..MaxVersion
    BY <1>0, Bounds DEF RunTypeOK, Drafts
  <2> QED
    BY <1>0, <1>2, <2>1, StoreQuiet DEF OtherTake
<1>3. ASSUME NEW t \in Takes, HandReads(t) PROVE Quiet
  <2>1. QuietChecks
    BY <1>0, <1>3, CheckTypes DEF HandReads, Reads, QuietChecks, RunTypeOK
  <2>2. faults' \in 0..MaxFaults
    BY <1>0, <1>3, Bounds DEF HandReads, RunTypeOK
  <2>3. UNCHANGED <<draft, rows, jobs, takes, late, calls, down>>
    BY <1>3 DEF HandReads
  <2> QED
    BY <1>0, <2>1, <2>2, <2>3 DEF QuietRest, RunInv, RunTypeOK, DraftCounts, NoStrayJobs, Exists
<1>4. ASSUME NEW t \in Takes, HandWrites(t) PROVE Quiet
  <2>1. QuietChecks
    BY <1>0, <1>4, CheckTypes DEF HandWrites, QuietChecks, RunTypeOK
  <2>2. QuietTakes
    BY <1>0, <1>4, VerdictQuiet DEF HandWrites, Answers
  <2>3. UNCHANGED <<draft, rows, jobs, late, calls, down, faults>>
    BY <1>4 DEF HandWrites
  <2> QED
    BY <1>0, <2>1, <2>2, <2>3, KeptRest
<1>7. ASSUME NEW c \in QaAttempts, LateReads(c) PROVE Quiet
  <2>1. QuietChecks
    BY <1>0, <1>7, CheckTypes DEF LateReads, Reads, QuietChecks, RunTypeOK
  <2>2. UNCHANGED <<draft, rows, jobs, takes, late, calls, down, faults>>
    BY <1>7 DEF LateReads
  <2> QED
    BY <1>0, <2>1, <2>2, KeptRest
<1>8. ASSUME NEW c \in QaAttempts, LateAnswers(c) PROVE Quiet
  <2>1. QuietChecks
    BY <1>0, <1>8, CheckTypes DEF LateAnswers, QuietChecks, RunTypeOK
  <2>2. QuietTakes
    BY <1>0, <1>8, VerdictQuiet DEF LateAnswers, Answers
  <2>3. UNCHANGED <<draft, rows, jobs, calls, down, faults>> /\ late' = late \ {c}
    BY <1>8 DEF LateAnswers
  <2> QED
    BY <1>0, <2>1, <2>2, <2>3 DEF QuietRest, RunInv, RunTypeOK, DraftCounts, NoStrayJobs, Exists
<1>9. ASSUME NEW t \in Takes, ReviewReads(t) PROVE Quiet
  <2>1. QuietChecks /\ UNCHANGED <<draft, rows, jobs, takes, late, calls, down, faults>>
    BY <1>0, <1>9 DEF ReviewReads, QuietChecks, RunTypeOK
  <2> QED
    BY <1>0, <2>1, KeptRest
<1>10. CASE ReviewWrites
  <2>1. PICK d \in {"approved", "rejected"} :
           takes' = [takes EXCEPT ![desk].qa = "verified", ![desk].review = d]
    BY <1>10 DEF ReviewWrites
  <2>2. takes \in [Takes -> TakeRows]
    BY <1>0 DEF RunTypeOK
  <2>3. takes' \in [Takes -> TakeRows]
    BY <2>1, <2>2 DEF TakeRows
  <2>4. QuietTakes
    BY <1>0, <2>1, <2>2, <2>3 DEF QuietTakes, DecidedVerified, TakeRows
  <2>5. QuietChecks /\ UNCHANGED <<draft, rows, jobs, late, calls, down, faults>>
    BY <1>0, <1>10 DEF ReviewWrites, QuietChecks, RunTypeOK
  <2> QED
    BY <1>0, <2>4, <2>5, KeptRest
<1>5. CASE SaveDraft
  <2>1. PICK p, s \in {0, 1} :
           draft' = [version |-> draft.version + 1, plan |-> draft.plan + p, script |-> draft.script + s]
    BY <1>5 DEF SaveDraft
  <2>2. /\ draft.version \in 1..MaxVersion /\ draft.plan \in 1..MaxVersion
        /\ draft.script \in 1..MaxVersion /\ draft.version < MaxVersion
    BY <1>0, <1>5 DEF RunTypeOK, Drafts, SaveDraft
  <2>3. draft' \in Drafts /\ DraftCounts'
    BY <1>0, <2>1, <2>2, Bounds DEF Drafts, DraftCounts
  <2> QED
    BY <1>0, <1>5, <2>3 DEF SaveDraft, QuietRest, QuietChecks, RunInv, RunTypeOK, NoStrayJobs, Exists
<1>6. CASE Relaunch
  <2>1. calls' \in [VoiceJobs -> {"none", "owed", "read", "refused"}]
    BY <1>0, <1>6 DEF Relaunch, RunTypeOK
  <2> QED
    BY <1>0, <1>6, <2>1 DEF Relaunch, QuietRest, QuietChecks, RunInv, RunTypeOK, DraftCounts, NoStrayJobs, Exists
<1> QED
  BY <1>1, <1>2, <1>3, <1>4, <1>5, <1>6, <1>7, <1>8, <1>9, <1>10

\* A callback that binds nothing is quiet.
LEMMA CallQuiet ==
  ASSUME RunInv, NEW j \in VoiceJobs, Call(j) \/ CallDies(j)
  PROVE  \/ Quiet
         \/ /\ CanAdvance(j[1]) /\ BindQa(j[1]) /\ Goes(j, "none")
            /\ UNCHANGED <<draft, takes, late, check, desk, down, faults>>
<1> USE UntouchedQuiet DEF Quiet
<1>0. RunTypeOK /\ DraftCounts
  BY DEF RunInv
<1>1. CASE CallReads(j)
  <2>1. calls' \in [VoiceJobs -> {"none", "owed", "read", "refused"}]
    BY <1>0, <1>1 DEF CallReads, Goes, RunTypeOK
  <2> QED
    BY <1>0, <1>1, <2>1 DEF CallReads, QuietRest, QuietChecks, RunInv, RunTypeOK, DraftCounts, NoStrayJobs, Exists
<1>2. CASE CallAdvances(j)
  <2>1. CASE UNCHANGED <<rows, jobs>>
    <3>1. calls' \in [VoiceJobs -> {"none", "owed", "read", "refused"}]
      BY <1>0, <1>2 DEF CallAdvances, Goes, RunTypeOK
    <3> QED
      BY <1>0, <1>2, <2>1, <3>1 DEF CallAdvances, QuietRest, QuietChecks, RunInv, RunTypeOK, DraftCounts, NoStrayJobs, Exists
  <2> QED
    BY <1>2, <2>1 DEF CallAdvances
<1>3. CASE CallNotes(j)
  <2>1. calls' \in [VoiceJobs -> {"none", "owed", "read", "refused"}]
    BY <1>0, <1>3 DEF CallNotes, Goes, RunTypeOK
  <2>2. QuietRest
    BY <1>0, <1>3, <2>1 DEF CallNotes, QuietRest, QuietChecks, RunInv, RunTypeOK, DraftCounts, NoStrayJobs, Exists
  <2>3. QuietRows
    <3>1. CASE UNCHANGED rows
      BY <3>1
    <3>2. CASE In(j[1], {"voice"}) /\ rows' = [rows EXCEPT ![j[1]].stopped = TRUE]
      <4>1. rows \in [Runs -> Rows \cup {NoRow}] /\ rows[j[1]] \in Rows /\ j[1] \in Runs
        BY <1>0, <3>2, JobNames DEF RunTypeOK, In, Exists
      <4>2. rows'[j[1]] = [rows[j[1]] EXCEPT !.stopped = TRUE] /\ rows'[j[1]] \in Rows
        BY <3>2, <4>1 DEF Rows
      <4>3. ASSUME NEW r \in Runs
            PROVE  /\ rows'[r] \in Rows \cup {NoRow}
                   /\ rows[r] = NoRow <=> rows'[r] = NoRow
                   /\ rows[r] # NoRow => \E b \in BOOLEAN : rows'[r] = [rows[r] EXCEPT !.stopped = b]
        <5>1. CASE r = j[1]
          BY <4>1, <4>2, <5>1, Bounds
        <5>2. CASE r # j[1]
          <6>1. rows'[r] = rows[r]
            BY <3>2, <4>1, <5>2
          <6>2. rows[r] # NoRow => rows[r].stopped \in BOOLEAN
                   /\ rows[r] = [rows[r] EXCEPT !.stopped = rows[r].stopped]
            BY <4>1 DEF Rows
          <6> QED
            BY <4>1, <6>1, <6>2
        <5> QED
          BY <5>1, <5>2
      <4>4. rows' = [r \in Runs |-> rows'[r]]
        BY <3>2, <4>1
      <4> QED
        BY <4>3, <4>4 DEF QuietRows
    <3> QED
      BY <1>3, <3>1, <3>2 DEF CallNotes
  <2> QED
    BY <1>3, <2>2, <2>3 DEF CallNotes
<1>4. CASE CallDies(j)
  <2>1. calls' \in [VoiceJobs -> {"none", "owed", "read", "refused"}]
    BY <1>0, <1>4 DEF CallDies, Goes, RunTypeOK
  <2>2. faults' \in 0..MaxFaults
    BY <1>0, <1>4, Bounds DEF CallDies, RunTypeOK
  <2> QED
    BY <1>0, <1>4, <2>1, <2>2 DEF CallDies, QuietRest, QuietChecks, RunInv, RunTypeOK, DraftCounts, NoStrayJobs, Exists
<1> QED
  BY <1>1, <1>2, <1>3, <1>4 DEF Call

\* The fields of a row that a quiet step keeps.
LEMMA QuietFields ==
  ASSUME RunInv, QuietRows, NEW r \in Runs
  PROVE  /\ Exists(r)' <=> Exists(r)
         /\ Exists(r) => /\ rows'[r].stage = rows[r].stage /\ rows'[r].plan = rows[r].plan
                         /\ rows'[r].voice = rows[r].voice /\ rows'[r].audio = rows[r].audio
                         /\ rows'[r].qa = rows[r].qa /\ rows'[r].script = rows[r].script
         /\ Linked(r) = {rows[r].voice, rows[r].qa} \ {NoJob}
         /\ Exists(r) => Linked(r)' = Linked(r)
<1>1. Exists(r)' <=> Exists(r)
  BY DEF QuietRows, Exists
<1>2. ASSUME Exists(r)
      PROVE  /\ rows'[r].stage = rows[r].stage /\ rows'[r].plan = rows[r].plan
             /\ rows'[r].voice = rows[r].voice /\ rows'[r].audio = rows[r].audio
             /\ rows'[r].qa = rows[r].qa /\ rows'[r].script = rows[r].script
  <2>1. rows[r] \in Rows
    BY <1>2 DEF RunInv, RunTypeOK, Exists
  <2>2. PICK b \in BOOLEAN : rows'[r] = [rows[r] EXCEPT !.stopped = b]
    BY <1>2 DEF QuietRows, Exists
  <2> QED
    BY <2>1, <2>2 DEF Rows
<1> QED
  BY <1>1, <1>2 DEF Linked

\* An attempt is one of a run's job.
LEMMA LateRuns == \A t \in JobTakes \cup QaAttempts : t[1][1] \in Runs
<1>1. \A t \in JobTakes \cup QaAttempts : t[1] \in VoiceJobs \cup QaJobs
  BY DEF JobTakes, QaAttempts
<1>2. \A j \in VoiceJobs \cup QaJobs : j[1] \in Runs
  BY DEF VoiceJobs, QaJobs
<1> QED
  BY <1>1, <1>2

\* Quiet steps keep the invariant.
LEMMA QuietKeeps ==
  ASSUME RunInv, Quiet
  PROVE  RunInv'
<1>0. RunTypeOK
  BY DEF RunInv
<1>1. RunTypeOK'
  BY DEF Quiet, QuietRows, QuietJobs, QuietTakes, QuietRest, QuietChecks, RunTypeOK
<1>2. DraftCounts' /\ JobCounts' /\ DecidedVerified'
  BY DEF Quiet, QuietRest, QuietJobs, QuietTakes
<1>3. \A r \in Runs : Exists(r) => rows[r] \in Rows
  BY <1>0 DEF RunTypeOK, Exists
<1>4. LinksAgree'
  <2> SUFFICES ASSUME NEW r \in Runs, Exists(r)
               PROVE  /\ rows[r].audio = NoTake <=> rows[r].qa = NoJob
                      /\ rows[r].qa # NoJob =>
                            /\ rows[r].qa = QaOf(rows[r].voice)
                            /\ Made(rows[r].audio, rows[r].voice)
                            /\ jobs'[rows[r].qa].take = rows[r].audio
    BY QuietFields DEF LinksAgree, Quiet, Made, QaOf
  <2>1. rows[r].qa # NoJob => rows[r].qa \in Jobs
    BY <1>3, JobNames DEF Rows
  <2> QED
    BY <2>1 DEF RunInv, LinksAgree, Quiet, QuietJobs
<1>5. RowLinks'
  <2> SUFFICES ASSUME NEW r \in Runs, Exists(r)
               PROVE  /\ rows[r].voice \in {NoJob, <<r, "voice">>, <<r, "revoice">>}
                      /\ rows[r].stage = "awaiting_master" => rows[r].voice = NoJob
                      /\ rows[r].stage = "voice" => rows[r].voice # NoJob
                      /\ rows[r].qa # NoJob => Is(rows[r].voice, {"completed"})'
    BY QuietFields DEF RowLinks, Quiet, Is
  <2>1. rows[r].voice # NoJob => rows[r].voice \in Jobs
    BY <1>3, JobNames DEF Rows
  <2> QED
    BY <2>1, QuietFields DEF RunInv, RowLinks, Quiet, QuietJobs, Is
<1>6. OwnMaster'
  <2>1. ASSUME NEW r \in Runs, In(r, {"render"})'
        PROVE  /\ jobs'[RenderOf(r)].take # NoTake
               /\ rows'[r].plan[2] = jobs'[RenderOf(r)].take
               /\ rows'[r].voice # NoJob => /\ Made(jobs'[RenderOf(r)].take, rows'[r].voice)
                                            /\ rows'[r].audio \in {NoTake, jobs'[RenderOf(r)].take}
    <3>1. In(r, {"render"}) /\ Exists(r)
      BY <2>1, QuietFields DEF Quiet, In
    <3>2. RenderOf(r) \in Jobs /\ jobs[RenderOf(r)].take \in Takes \cup {NoTake}
      BY <1>0, JobNames DEF RunTypeOK, JobRows
    <3>3. jobs'[RenderOf(r)].take = jobs[RenderOf(r)].take
      BY <3>2 DEF Quiet, QuietJobs
    <3> QED
      BY <3>1, <3>2, <3>3, QuietFields DEF RunInv, OwnMaster, RendersOwn, Quiet, QuietTakes
  <2> QED
    BY <2>1 DEF OwnMaster, RendersOwn, RenderOf, Made
<1>7. OneRunPerPlan'
  BY QuietFields DEF RunInv, OneRunPerPlan, Quiet
<1>8. NothingLeftBehind'
  <2> SUFFICES ASSUME NEW r \in Runs, Exists(r), NEW k \in {"voice", "revoice", "qa", "reqa"},
                      rows[r].stage \in {"cancelled", "render"} \/ <<r, k>> \notin Linked(r)
               PROVE  jobs'[<<r, k>>].status \notin {"pending", "running"}
    BY QuietFields DEF NothingLeftBehind, Quiet
  <2>1. <<r, k>> \in Jobs /\ jobs[<<r, k>>].status \notin {"pending", "running"}
    BY JobNames DEF RunInv, NothingLeftBehind
  <2> QED
    BY <2>1 DEF Quiet, QuietJobs
<1>9. NoStrayJobs'
  <2>1. \A j \in Jobs : j[1] \in Runs
    BY DEF Jobs, VoiceJobs, QaJobs, RenderJobs
  <2>2. \A j \in Jobs : ~Exists(j[1])' => jobs'[j].status = "absent"
    BY <2>1, QuietFields DEF RunInv, NoStrayJobs, Quiet, QuietJobs
  <2>3. \A t \in late' : Exists(t[1][1])'
    <3>1. \A t \in late' : t[1][1] \in Runs
      BY LateRuns DEF Quiet, QuietRest
    <3> QED
      BY <3>1, QuietFields DEF Quiet, QuietRest, Exists
  <2> QED
    BY <2>2, <2>3 DEF NoStrayJobs
<1> QED
  BY <1>1, <1>2, <1>4, <1>5, <1>6, <1>7, <1>8, <1>9 DEF RunInv

-----------------------------------------------------------------------------
(* Requests: one row and its run's jobs change                             *)

Kinds == {"voice", "revoice", "qa", "reqa"}

\* What the invariant says of one run, given its row.
RowSound(r, row) ==
    /\ row.audio = NoTake <=> row.qa = NoJob
    /\ row.qa # NoJob =>
          /\ row.qa = QaOf(row.voice)
          /\ Made(row.audio, row.voice)
          /\ jobs[row.qa].take = row.audio
          /\ Is(row.voice, {"completed"})
    /\ row.voice \in {NoJob, <<r, "voice">>, <<r, "revoice">>}
    /\ row.stage = "awaiting_master" => row.voice = NoJob
    /\ row.stage = "voice" => row.voice # NoJob
    /\ row.stage = "render" =>
          /\ jobs[RenderOf(r)].take # NoTake
          /\ row.plan[2] = jobs[RenderOf(r)].take
          /\ row.voice # NoJob => /\ Made(jobs[RenderOf(r)].take, row.voice)
                                  /\ row.audio \in {NoTake, jobs[RenderOf(r)].take}
    /\ \A k \in Kinds :
          row.stage \in {"cancelled", "render"} \/ <<r, k>> \notin {row.voice, row.qa} \ {NoJob}
             => jobs[<<r, k>>].status \notin {"pending", "running"}

\* The invariant is what holds of every row.
LEMMA SoundRows ==
  LinksAgree /\ RowLinks /\ OwnMaster /\ NothingLeftBehind
     <=> \A r \in Runs : Exists(r) => RowSound(r, rows[r])
  BY DEF LinksAgree, RowLinks, OwnMaster, RendersOwn, NothingLeftBehind, RowSound, In, Linked, Kinds

\* A request that leaves its own row sound, and its plan unique, keeps the
\* invariant.
LEMMA RequestKeeps ==
  ASSUME RunInv, NEW r \in Runs, NEW row \in Rows,
         rows' = [rows EXCEPT ![r] = row],
         jobs' \in [Jobs -> JobRows], JobCounts',
         \A j \in Jobs : j[1] # r => jobs'[j] = jobs[j],
         UNCHANGED <<draft, takes, late, check, desk, down, faults>>,
         calls' \in [VoiceJobs -> {"none", "owed", "read", "refused"}],
         \A q \in Runs \ {r} : Exists(q) => rows[q].plan # row.plan,
         RowSound(r, rows[r])'
  PROVE  RunInv'
<1>0. RunTypeOK
  BY DEF RunInv
<1>1. /\ rows'[r] = row /\ row # NoRow
      /\ \A q \in Runs : q # r => rows'[q] = rows[q]
      /\ rows' \in [Runs -> Rows \cup {NoRow}]
  BY <1>0, Bounds DEF RunTypeOK
<1>2. RunTypeOK'
  BY <1>0, <1>1 DEF RunTypeOK
<1>3. DraftCounts' /\ DecidedVerified'
  BY DEF RunInv, DraftCounts, DecidedVerified
<1>4. (LinksAgree /\ RowLinks /\ OwnMaster /\ NothingLeftBehind)'
  <2>1. ASSUME NEW q \in Runs, q # r, Exists(q)
        PROVE  RowSound(q, rows[q])'
    <3>1. rows'[q] = rows[q] /\ rows[q] \in Rows
      BY <1>0, <1>1, <2>1 DEF RunTypeOK, Exists
    <3>2. RowSound(q, rows[q])
      BY <2>1, SoundRows DEF RunInv
    <3>3. \A k \in Kinds : jobs'[<<q, k>>] = jobs[<<q, k>>]
      BY <2>1, JobNames DEF Kinds
    <3>4. jobs'[RenderOf(q)] = jobs[RenderOf(q)]
      BY <2>1, JobNames DEF RenderOf
    <3>5. /\ rows[q].voice # NoJob => jobs'[rows[q].voice] = jobs[rows[q].voice]
          /\ rows[q].qa # NoJob => jobs'[rows[q].qa] = jobs[rows[q].qa]
      <4>1. rows[q].voice \in {NoJob, <<q, "voice">>, <<q, "revoice">>}
        BY <3>2 DEF RowSound
      <4>2. rows[q].qa # NoJob => rows[q].qa \in {<<q, "qa">>, <<q, "reqa">>}
        BY <3>2, <4>1, QaNames, Bounds DEF RowSound, Is
      <4> QED
        BY <3>3, <4>1, <4>2 DEF Kinds
    <3> QED
      BY <3>1, <3>2, <3>3, <3>4, <3>5 DEF RowSound, Is, Made, QaOf, RenderOf
  <2>2. \A q \in Runs : Exists(q)' => RowSound(q, rows[q])'
    BY <1>1, <2>1 DEF Exists
  <2> QED
    BY <2>2 DEF LinksAgree, RowLinks, OwnMaster, RendersOwn, NothingLeftBehind, RowSound, In, Linked, Kinds,
                Exists
<1>5. OneRunPerPlan'
  BY <1>1 DEF RunInv, OneRunPerPlan, Exists
<1>6. NoStrayJobs'
  <2>1. \A j \in Jobs : j[1] \in Runs
    BY DEF Jobs, VoiceJobs, QaJobs, RenderJobs
  <2>2. \A t \in late : t[1][1] \in Runs
    BY <1>0, LateRuns DEF RunTypeOK
  <2> QED
    BY <1>1, <2>1, <2>2 DEF RunInv, NoStrayJobs, Exists
<1> QED
  BY <1>2, <1>3, <1>4, <1>5, <1>6 DEF RunInv

\* A job is put into the queue.
LEMMA QueuedKeeps ==
  ASSUME RunTypeOK, JobCounts, NEW j \in Jobs, NEW t \in Takes \cup {NoTake},
         j \in QaJobs => t # NoTake,
         jobs' = [jobs EXCEPT ![j] = Queued(t)]
  PROVE  /\ jobs' \in [Jobs -> JobRows] /\ JobCounts'
         /\ \A i \in Jobs : i # j => jobs'[i] = jobs[i]
         /\ jobs'[j].status = "pending" /\ jobs'[j].take = t
<1>1. Queued(t) \in JobRows /\ Queued(t).attempt < MaxAttempts
  BY Bounds DEF Queued, JobRows, Statuses
<1>2. jobs \in [Jobs -> JobRows]
  BY DEF RunTypeOK
<1>3. jobs' \in [Jobs -> JobRows] /\ jobs'[j] = Queued(t) /\ \A i \in Jobs : i # j => jobs'[i] = jobs[i]
  BY <1>1, <1>2
<1>4. jobs'[j].status = "pending" /\ jobs'[j].take = t
  BY <1>3 DEF Queued
<1> QED
  BY <1>1, <1>3, <1>4 DEF JobCounts

\* A start leaves a sound row.
LEMMA StartKeeps ==
  ASSUME RunInv, NEW r \in Runs, Start(r)
  PROVE  RunInv'
<1>0. RunTypeOK /\ JobCounts /\ DecidedVerified
  BY DEF RunInv
<1> DEFINE row == [stage |-> IF Master = NoTake THEN "awaiting_master" ELSE "render",
                   plan |-> PlanNow, version |-> draft.version, script |-> draft.script,
                   voice |-> NoJob, audio |-> NoTake, qa |-> NoJob,
                   stopped |-> FALSE, repairs |-> 0]
<1>1. row \in Rows
  BY <1>0, MasterReusable DEF Rows, PlanNow, RunTypeOK, Drafts
<1>2. rows' = [rows EXCEPT ![r] = row] /\ rows'[r] = row
  BY <1>0 DEF Start, RunTypeOK
<1>3. row.plan = <<draft.plan, Master>>
  BY DEF PlanNow
<1>4. \A k \in Kinds : <<r, k>> \in Jobs /\ jobs[<<r, k>>].status = "absent" /\ <<r, k>> # RenderOf(r)
  BY JobNames DEF RunInv, NoStrayJobs, Start, Kinds, RenderOf
<1>5. \A q \in Runs \ {r} : Exists(q) => rows[q].plan # row.plan
  BY DEF Start, PlanFree
<1>6. /\ UNCHANGED <<draft, takes, late, check, desk, down, faults>>
      /\ calls' \in [VoiceJobs -> {"none", "owed", "read", "refused"}]
  BY <1>0 DEF Start, RunTypeOK
<1>7. CASE Master = NoTake
  <2>1. jobs' = jobs
    BY <1>7 DEF Start
  <2>2. RowSound(r, rows[r])'
    BY <1>2, <1>4, <1>7, <2>1 DEF RowSound
  <2>3. jobs' \in [Jobs -> JobRows] /\ JobCounts'
    BY <1>0, <2>1 DEF RunTypeOK, JobCounts
  <2> HIDE DEF row
  <2> QED
    BY <1>1, <1>2, <1>5, <1>6, <2>1, <2>2, <2>3, RequestKeeps
<1>8. CASE Master # NoTake
  <2>1. RenderOf(r) \in Jobs /\ RenderOf(r) \notin QaJobs /\ Master \in Takes /\ Reusable(Master)
    BY <1>8, JobNames, MasterReusable
  <2>2. jobs' = [jobs EXCEPT ![RenderOf(r)] = Queued(Master)]
    BY <1>8 DEF Start
  <2>3. /\ jobs' \in [Jobs -> JobRows] /\ JobCounts'
        /\ \A i \in Jobs : i # RenderOf(r) => jobs'[i] = jobs[i]
        /\ jobs'[RenderOf(r)].take = Master
    BY <1>0, <2>1, <2>2, QueuedKeeps
  <2>5. RowSound(r, rows[r])'
    BY <1>2, <1>3, <1>4, <1>8, <2>3 DEF RowSound, RenderOf
  <2>6. \A i \in Jobs : i[1] # r => jobs'[i] = jobs[i]
    BY <2>3 DEF RenderOf
  <2> HIDE DEF row
  <2> QED
    BY <1>1, <1>2, <1>5, <1>6, <2>3, <2>5, <2>6, RequestKeeps
<1> QED
  BY <1>7, <1>8

\* What the invariant says of a run that has a row.
LEMMA OwnRow ==
  ASSUME RunInv, NEW r \in Runs, Exists(r)
  PROVE  /\ rows[r] \in Rows /\ RowSound(r, rows[r])
         /\ \A q \in Runs \ {r} : Exists(q) => rows[q].plan # rows[r].plan
         /\ rows[r].voice # NoJob => rows[r].voice \in VoiceJobs
         /\ rows[r].qa # NoJob => rows[r].qa \in QaJobs
  BY SoundRows DEF RunInv, RunTypeOK, Exists, OneRunPerPlan, Rows

\* Dispatching the voice job keeps the invariant.
LEMMA DispatchKeeps ==
  ASSUME RunInv, NEW r \in Runs, DispatchVoice(r)
  PROVE  RunInv'
<1> DEFINE j == <<r, "voice">>
           row == [rows[r] EXCEPT !.stage = "voice", !.voice = j]
<1>0. RunTypeOK /\ JobCounts /\ Exists(r) /\ rows[r].stage = "awaiting_master"
  BY DEF RunInv, DispatchVoice, In
<1>1. rows[r] \in Rows /\ RowSound(r, rows[r]) /\ j \in VoiceJobs /\ j \in Jobs /\ j \notin QaJobs /\ j[1] = r
  BY <1>0, OwnRow, JobNames
<1>2. rows[r].voice = NoJob /\ rows[r].qa = NoJob /\ rows[r].audio = NoTake
  BY <1>0, <1>1 DEF RowSound, Is
<1>3. /\ row \in Rows /\ row.stage = "voice" /\ row.voice = j /\ row.qa = NoJob /\ row.audio = NoTake
      /\ row.plan = rows[r].plan
  BY <1>1, <1>2 DEF Rows
<1>4. rows' = [rows EXCEPT ![r] = row] /\ rows'[r] = row
  BY <1>0 DEF DispatchVoice, RunTypeOK
<1>5. /\ jobs' \in [Jobs -> JobRows] /\ JobCounts'
      /\ \A i \in Jobs : i # j => jobs'[i] = jobs[i]
  BY <1>0, <1>1, QueuedKeeps DEF DispatchVoice
<1>6. j # NoJob /\ \A k \in Kinds : <<r, k>> \in Jobs
  BY <1>1, JobNames, Bounds DEF Kinds
<1>7. RowSound(r, rows[r])'
  BY <1>0, <1>1, <1>2, <1>3, <1>4, <1>5, <1>6 DEF RowSound, Kinds
<1>8. /\ UNCHANGED <<draft, takes, late, check, desk, down, faults>>
      /\ calls' \in [VoiceJobs -> {"none", "owed", "read", "refused"}]
  BY <1>0 DEF DispatchVoice, RunTypeOK
<1>9. \A q \in Runs \ {r} : Exists(q) => rows[q].plan # row.plan
  BY <1>0, <1>3, OwnRow
<1>10. \A i \in Jobs : i[1] # r => jobs'[i] = jobs[i]
  BY <1>1, <1>5
<1> HIDE DEF row, j
<1> QED
  BY <1>3, <1>4, <1>5, <1>7, <1>8, <1>9, <1>10, RequestKeeps

\* Binding the QA job of the only output of the run's voice job keeps the
\* invariant, by retry or by callback.
LEMMA BindKeeps ==
  ASSUME RunInv, NEW r \in Runs, CanAdvance(r), BindQa(r),
         UNCHANGED <<draft, takes, late, check, desk, down, faults>>,
         calls' \in [VoiceJobs -> {"none", "owed", "read", "refused"}]
  PROVE  RunInv'
<1> DEFINE v == rows[r].voice
           t == CHOOSE u \in Takes : u \in Outputs(v)
           q == QaOf(v)
           row == [rows[r] EXCEPT !.audio = t, !.qa = q, !.stopped = FALSE]
<1>0. /\ RunTypeOK /\ JobCounts /\ Exists(r)
      /\ rows[r].stage = "voice" /\ rows[r].qa = NoJob /\ v # NoJob /\ jobs[v].status = "completed"
  BY DEF RunInv, CanAdvance, In, Is
<1>1. rows[r] \in Rows /\ RowSound(r, rows[r]) /\ v \in VoiceJobs /\ v \in {<<r, "voice">>, <<r, "revoice">>}
  BY <1>0, OwnRow DEF RowSound
<1>2. t \in Takes /\ Made(t, v) /\ t # NoTake
  <2>1. \E u \in Takes : u \in Outputs(v)
    BY DEF CanAdvance, Outputs
  <2>2. t \in Takes /\ t \in Outputs(v)
    BY <2>1
  <2> QED
    BY <2>2, Bounds DEF Outputs
<1>3. q \in QaJobs /\ q \in Jobs /\ q[1] = r /\ q # NoJob /\ q # v /\ q \in {<<r, "qa">>, <<r, "reqa">>}
  BY <1>1, JobNames, QaNames, Bounds
<1>4. /\ row \in Rows /\ row.stage = "voice" /\ row.voice = v /\ row.qa = q /\ row.audio = t
      /\ row.plan = rows[r].plan
  BY <1>0, <1>1, <1>2, <1>3 DEF Rows
<1>5. rows' = [rows EXCEPT ![r] = row] /\ rows'[r] = row
  <2>1. rows' = [rows EXCEPT ![r].audio = t, ![r].qa = q, ![r].stopped = FALSE]
    BY DEF BindQa
  <2> HIDE DEF t, q
  <2> QED
    BY <1>0, <2>1 DEF RunTypeOK
<1>6. jobs' = [jobs EXCEPT ![q] = Queued(t)]
  BY DEF BindQa
<1> HIDE DEF row, t, q, v
<1>7. /\ jobs' \in [Jobs -> JobRows] /\ JobCounts'
      /\ \A i \in Jobs : i # q => jobs'[i] = jobs[i]
      /\ jobs'[q].take = t
  BY <1>0, <1>2, <1>3, <1>6, QueuedKeeps
<1>8. \A k \in Kinds : <<r, k>> \in Jobs
  BY JobNames DEF Kinds
<1>9. /\ jobs'[v].status = "completed"
      /\ \A k \in Kinds : <<r, k>> \notin {v, q} => jobs'[<<r, k>>] = jobs[<<r, k>>]
  BY <1>0, <1>1, <1>3, <1>7, <1>8, JobNames
<1>10. \A k \in Kinds : <<r, k>> # v => jobs[<<r, k>>].status \notin {"pending", "running"}
  BY <1>0, <1>1 DEF RowSound, v
<1>11. rows'[r].stage = "voice" /\ rows'[r].voice = v /\ rows'[r].qa = q /\ rows'[r].audio = t
  BY <1>4, <1>5
<1>12. RowSound(r, rows[r])'
  <2>1. q = <<v[1], IF v[2] = "voice" THEN "qa" ELSE "reqa">>
    BY DEF q, QaOf
  <2> QED
    BY <1>0, <1>1, <1>2, <1>3, <1>7, <1>9, <1>10, <1>11, <2>1 DEF RowSound, Made, QaOf, Is
<1>13. \A p \in Runs \ {r} : Exists(p) => rows[p].plan # row.plan
  BY <1>0, <1>4, OwnRow
<1>14. \A i \in Jobs : i[1] # r => jobs'[i] = jobs[i]
  BY <1>3, <1>7
<1> QED
  BY <1>4, <1>5, <1>7, <1>12, <1>13, <1>14, RequestKeeps

\* Resuming keeps the invariant.
LEMMA ResumeKeeps ==
  ASSUME RunInv, NEW r \in Runs, Resume(r)
  PROVE  RunInv'
<1> DEFINE row == [rows[r] EXCEPT !.stage = "render", !.plan = PlanNow]
<1>0. RunTypeOK /\ JobCounts /\ DecidedVerified /\ Exists(r) /\ rows[r].stage \in {"awaiting_master", "voice"}
  BY DEF RunInv, Resume, CanResume, In
<1>1. rows[r] \in Rows /\ RowSound(r, rows[r])
  BY <1>0, OwnRow
<1>2. Master \in Takes /\ Reusable(Master) /\ PlanNow = <<draft.plan, Master>> /\ Master # NoTake
  BY MasterReusable DEF Resume, CanResume, PlanNow
<1>3. PlanNow \in (1..MaxVersion) \X (Takes \cup {NoTake})
  BY <1>0, <1>2 DEF RunTypeOK, Drafts
<1>4. /\ row \in Rows /\ row.stage = "render" /\ row.voice = rows[r].voice /\ row.qa = rows[r].qa
      /\ row.audio = rows[r].audio /\ row.plan = PlanNow
  BY <1>1, <1>3 DEF Rows
<1>5. rows' = [rows EXCEPT ![r] = row] /\ rows'[r] = row
  <2>1. rows' = [rows EXCEPT ![r].stage = "render", ![r].plan = PlanNow]
    BY DEF Resume
  <2> QED
    BY <1>0, <2>1 DEF RunTypeOK
<1> HIDE DEF row
<1>6. RenderOf(r) \in Jobs /\ RenderOf(r) \notin QaJobs /\ \A k \in Kinds : <<r, k>> \in Jobs /\ <<r, k>> # RenderOf(r)
  BY JobNames DEF Kinds, RenderOf
<1>7. /\ jobs' \in [Jobs -> JobRows] /\ JobCounts'
      /\ \A i \in Jobs : i # RenderOf(r) => jobs'[i] = jobs[i]
      /\ jobs'[RenderOf(r)].take = Master
  BY <1>0, <1>2, <1>6, QueuedKeeps DEF Resume
<1>8. \A k \in Kinds : jobs[<<r, k>>].status \notin {"pending", "running"}
  <2>1. rows[r].voice # NoJob => jobs[rows[r].voice].status = "completed"
    BY <1>0, <1>1 DEF Resume, CanResume, RowSound, Is
  <2>2. rows[r].qa # NoJob => jobs[rows[r].qa].status = "completed"
    BY <1>0, <1>1 DEF Resume, CanResume, RowSound, Is
  <2> QED
    BY <1>0, <1>1, <2>1, <2>2 DEF RowSound
<1>9. rows[r].voice # NoJob => Made(Master, rows[r].voice) /\ rows[r].audio \in {NoTake, Master}
  BY <1>0, <1>1 DEF Resume, CanResume, MasterIsOwn, RowSound
<1>11. /\ rows[r].voice # NoJob => rows[r].voice \in Jobs /\ rows[r].voice # RenderOf(r)
       /\ rows[r].qa # NoJob => rows[r].qa \in Jobs /\ rows[r].qa # RenderOf(r)
  BY <1>0, OwnRow, JobNames
<1>12. /\ rows'[r].stage = "render" /\ rows'[r].voice = rows[r].voice /\ rows'[r].qa = rows[r].qa
       /\ rows'[r].audio = rows[r].audio /\ rows'[r].plan[2] = Master
  BY <1>2, <1>4, <1>5
<1>13. RowSound(r, rows[r])'
  BY <1>1, <1>2, <1>6, <1>7, <1>8, <1>9, <1>11, <1>12 DEF RowSound, Made, QaOf, Is, RenderOf
<1>14. \A q \in Runs \ {r} : Exists(q) => rows[q].plan # row.plan
  BY <1>4 DEF Resume, CanResume, PlanFree
<1>15. \A i \in Jobs : i[1] # r => jobs'[i] = jobs[i]
  BY <1>7 DEF RenderOf
<1>16. /\ UNCHANGED <<draft, takes, late, check, desk, down, faults>>
       /\ calls' \in [VoiceJobs -> {"none", "owed", "read", "refused"}]
  BY <1>0 DEF Resume, RunTypeOK
<1> QED
  BY <1>4, <1>5, <1>7, <1>13, <1>14, <1>15, <1>16, RequestKeeps

\* Pending jobs are withdrawn.
LEMMA WithdrawnKeeps ==
  ASSUME RunTypeOK, JobCounts, NEW S, jobs' = Withdrawn(S)
  PROVE  /\ jobs' \in [Jobs -> JobRows] /\ JobCounts'
         /\ \A i \in Jobs : i \notin S => jobs'[i] = jobs[i]
         /\ \A i \in Jobs : jobs'[i].take = jobs[i].take
         /\ \A i \in Jobs : jobs'[i].status = IF i \in S /\ jobs[i].status = "pending"
                                              THEN "cancelled" ELSE jobs[i].status
<1>1. jobs \in [Jobs -> JobRows]
  BY DEF RunTypeOK
<1>2. \A i \in Jobs : jobs'[i] = IF i \in S /\ jobs[i].status = "pending"
                                 THEN [jobs[i] EXCEPT !.status = "cancelled"] ELSE jobs[i]
  BY DEF Withdrawn
<1>3. \A i \in Jobs : /\ jobs'[i] \in JobRows /\ jobs'[i].take = jobs[i].take
                      /\ jobs'[i].status = IF i \in S /\ jobs[i].status = "pending"
                                           THEN "cancelled" ELSE jobs[i].status
                      /\ jobs'[i].attempt = jobs[i].attempt
  BY <1>1, <1>2 DEF JobRows, Statuses
<1>4. jobs' \in [Jobs -> JobRows]
  BY <1>1, <1>3 DEF Withdrawn
<1> QED
  BY <1>2, <1>3, <1>4 DEF JobCounts

\* Cancelling keeps the invariant.
LEMMA CancelKeeps ==
  ASSUME RunInv, NEW r \in Runs, Cancel(r)
  PROVE  RunInv'
<1>0. RunTypeOK /\ JobCounts /\ Exists(r)
  BY DEF RunInv, Cancel, In
<1>1. /\ rows[r] \in Rows /\ RowSound(r, rows[r])
      /\ rows[r].voice # NoJob => rows[r].voice \in Jobs
      /\ rows[r].qa # NoJob => rows[r].qa \in Jobs
      /\ \A k \in Kinds : <<r, k>> \in Jobs /\ <<r, k>> # RenderOf(r)
      /\ RenderOf(r) \in Jobs
  BY <1>0, OwnRow, JobNames DEF Kinds, RenderOf
<1>2. \A j \in Linked(r) : j \in Jobs /\ j[1] = r
  <2>1. rows[r].voice # NoJob => rows[r].voice[1] = r
    BY <1>1 DEF RowSound
  <2>2. rows[r].qa # NoJob => rows[r].qa[1] = r
    <3> HAVE rows[r].qa # NoJob
    <3>1. rows[r].qa = QaOf(rows[r].voice) /\ rows[r].voice # NoJob
      BY <1>1 DEF RowSound, Is
    <3> QED
      BY <2>1, <3>1 DEF QaOf
  <2> QED
    BY <1>1, <2>1, <2>2 DEF Linked
<1>3. /\ UNCHANGED <<draft, takes, late, check, desk, down, faults>>
      /\ calls' \in [VoiceJobs -> {"none", "owed", "read", "refused"}]
  BY <1>0 DEF Cancel, RunTypeOK
<1>4. CASE /\ rows[r].stage \in {"awaiting_master", "voice"}
           /\ ~\E j \in Linked(r) : Is(j, {"running"})
           /\ rows' = [rows EXCEPT ![r].stage = "cancelled"]
           /\ jobs' = Withdrawn(Linked(r))
  <2> DEFINE row == [rows[r] EXCEPT !.stage = "cancelled"]
  <2>1. /\ row \in Rows /\ row.stage = "cancelled" /\ row.voice = rows[r].voice /\ row.qa = rows[r].qa
        /\ row.audio = rows[r].audio /\ row.plan = rows[r].plan
    BY <1>1 DEF Rows
  <2>2. rows' = [rows EXCEPT ![r] = row] /\ rows'[r] = row
    BY <1>0, <1>4 DEF RunTypeOK
  <2> HIDE DEF row
  <2>3. /\ jobs' \in [Jobs -> JobRows] /\ JobCounts'
        /\ \A i \in Jobs : i \notin Linked(r) => jobs'[i] = jobs[i]
        /\ \A i \in Jobs : jobs'[i].take = jobs[i].take
        /\ \A i \in Jobs : jobs'[i].status = IF i \in Linked(r) /\ jobs[i].status = "pending"
                                             THEN "cancelled" ELSE jobs[i].status
    BY <1>0, <1>4, WithdrawnKeeps
  <2>4. \A k \in Kinds : jobs'[<<r, k>>].status \notin {"pending", "running"}
    <3>1. \A k \in Kinds : <<r, k>> \notin Linked(r) => jobs[<<r, k>>].status \notin {"pending", "running"}
      BY <1>1 DEF RowSound, Linked
    <3>2. \A j \in Linked(r) : jobs[j].status # "running"
      BY <1>4 DEF Linked, Is
    <3> QED
      BY <1>1, <2>3, <3>1, <3>2
  <2>5. /\ rows'[r].stage = "cancelled" /\ rows'[r].voice = rows[r].voice /\ rows'[r].qa = rows[r].qa
        /\ rows'[r].audio = rows[r].audio
    BY <2>1, <2>2
  <2>6. RowSound(r, rows[r])'
    BY <1>1, <2>3, <2>4, <2>5 DEF RowSound, Made, QaOf, Is
  <2>7. \A q \in Runs \ {r} : Exists(q) => rows[q].plan # row.plan
    BY <1>0, <2>1, OwnRow
  <2>8. \A i \in Jobs : i[1] # r => jobs'[i] = jobs[i]
    BY <1>2, <2>3
  <2> QED
    BY <1>3, <2>1, <2>2, <2>3, <2>6, <2>7, <2>8, RequestKeeps
<1>5. CASE /\ rows[r].stage = "render" /\ Is(RenderOf(r), {"pending"})
           /\ jobs' = Withdrawn({RenderOf(r)})
           /\ UNCHANGED rows
  <2>1. /\ jobs' \in [Jobs -> JobRows] /\ JobCounts'
        /\ \A i \in Jobs : i # RenderOf(r) => jobs'[i] = jobs[i]
        /\ \A i \in Jobs : jobs'[i].take = jobs[i].take
        /\ \A i \in Jobs : jobs'[i].status = IF i = RenderOf(r) /\ jobs[i].status = "pending"
                                             THEN "cancelled" ELSE jobs[i].status
    <3>1. \A i : i \in {RenderOf(r)} <=> i = RenderOf(r)
      OBVIOUS
    <3> QED
      BY <1>0, <1>5, <3>1, WithdrawnKeeps
  <2>2. RowSound(r, rows[r])'
    BY <1>1, <1>3, <1>5, <2>1 DEF RowSound, Made, QaOf, Is, RenderOf
  <2>3. rows' = [rows EXCEPT ![r] = rows[r]]
    BY <1>0, <1>5 DEF RunTypeOK
  <2>4. \A q \in Runs \ {r} : Exists(q) => rows[q].plan # rows[r].plan
    BY <1>0, OwnRow
  <2>5. \A i \in Jobs : i[1] # r => jobs'[i] = jobs[i]
    BY <2>1 DEF RenderOf
  <2> QED
    BY <1>1, <1>3, <2>1, <2>2, <2>3, <2>4, <2>5, RequestKeeps
<1> QED
  BY <1>4, <1>5 DEF Cancel, In

\* Repairing keeps the invariant.
LEMMA RepairKeeps ==
  ASSUME RunInv, NEW r \in Runs, Repair(r)
  PROVE  RunInv'
<1> DEFINE j == <<r, "revoice">>
           row == [rows[r] EXCEPT !.voice = j, !.audio = NoTake, !.qa = NoJob,
                                  !.stopped = FALSE, !.repairs = 1]
<1>0. RunTypeOK /\ JobCounts /\ Exists(r) /\ rows[r].stage = "voice"
  BY DEF RunInv, Repair, In
<1>1. /\ rows[r] \in Rows /\ RowSound(r, rows[r])
      /\ j \in VoiceJobs /\ j \in Jobs /\ j \notin QaJobs /\ j[1] = r
      /\ \A k \in Kinds : <<r, k>> \in Jobs
  BY <1>0, OwnRow, JobNames DEF Kinds
<1>2. /\ row \in Rows /\ row.stage = "voice" /\ row.voice = j /\ row.qa = NoJob /\ row.audio = NoTake
      /\ row.plan = rows[r].plan
  <2> HIDE DEF j
  <2> DEFINE early == [rows[r] EXCEPT !.voice = j, !.audio = NoTake, !.qa = NoJob]
  <2>1. /\ early \in Rows /\ early.stage = "voice" /\ early.voice = j /\ early.qa = NoJob
        /\ early.audio = NoTake /\ early.plan = rows[r].plan
    BY <1>0, <1>1 DEF Rows
  <2>2. row = [early EXCEPT !.repairs = 1, !.stopped = FALSE]
    BY <1>1 DEF Rows
  <2> HIDE DEF row, early
  <2> DEFINE mid == [early EXCEPT !.repairs = 1]
  <2>3. /\ mid \in Rows /\ mid.stage = "voice" /\ mid.voice = j /\ mid.qa = NoJob
        /\ mid.audio = NoTake /\ mid.plan = rows[r].plan
    BY <2>1, 1 \in 0..1 DEF Rows
  <2>4. row = [mid EXCEPT !.stopped = FALSE]
    BY <2>1, <2>2 DEF Rows
  <2> HIDE DEF mid
  <2> QED
    BY <2>3, <2>4 DEF Rows
<1>3. rows' = [rows EXCEPT ![r] = row] /\ rows'[r] = row
  <2>1. rows' = [rows EXCEPT ![r].voice = j, ![r].audio = NoTake, ![r].qa = NoJob,
                             ![r].stopped = FALSE, ![r].repairs = 1]
    BY DEF Repair
  <2> QED
    BY <1>0, <2>1 DEF RunTypeOK
<1> HIDE DEF row
<1>4. /\ jobs' \in [Jobs -> JobRows] /\ JobCounts'
      /\ \A i \in Jobs : i # j => jobs'[i] = jobs[i]
  BY <1>0, <1>1, QueuedKeeps DEF Repair
<1>5. \A k \in Kinds : <<r, k>> # j => jobs[<<r, k>>].status \notin {"pending", "running"}
  <2>1. jobs[rows[r].voice].status \in {"faulted", "completed"}
    BY DEF Repair, Repairable, Is
  <2>2. rows[r].qa # NoJob => jobs[rows[r].qa].status = "faulted"
    BY <1>1 DEF Repair, Repairable, RowSound, Is
  <2> QED
    BY <1>0, <1>1, <2>1, <2>2 DEF RowSound
<1>6. rows'[r].stage = "voice" /\ rows'[r].voice = j /\ rows'[r].qa = NoJob /\ rows'[r].audio = NoTake
  BY <1>2, <1>3
<1>7. j # NoJob
  BY <1>1, Bounds
<1>8. RowSound(r, rows[r])'
  BY <1>1, <1>4, <1>5, <1>6, <1>7 DEF RowSound, Kinds
<1>9. \A q \in Runs \ {r} : Exists(q) => rows[q].plan # row.plan
  BY <1>0, <1>2, OwnRow
<1>10. \A i \in Jobs : i[1] # r => jobs'[i] = jobs[i]
  BY <1>1, <1>4
<1>11. /\ UNCHANGED <<draft, takes, late, check, desk, down, faults>>
       /\ calls' \in [VoiceJobs -> {"none", "owed", "read", "refused"}]
  BY <1>0 DEF Repair, RunTypeOK
<1> HIDE DEF j
<1> QED
  BY <1>2, <1>3, <1>4, <1>8, <1>9, <1>10, <1>11, RequestKeeps

-----------------------------------------------------------------------------
(* The theorems                                                            *)

\* Before the first run there is nothing to agree on.
LEMMA InitInv == RunInit => RunInv
<1> SUFFICES ASSUME RunInit PROVE RunInv
  OBVIOUS
<1> USE Bounds, JobNames DEF RunInit
<1>1. Cardinality(Takes) \in Nat
  BY FiniteTakes, FS_CardinalityType
<1>2. RunTypeOK
  <2>1. draft \in Drafts
    BY DEF Drafts
  <2>2. jobs \in [Jobs -> JobRows] /\ takes \in [Takes -> TakeRows]
    BY <1>1 DEF JobRows, TakeRows, Statuses
  <2>3. rows \in [Runs -> Rows \cup {NoRow}]
    OBVIOUS
  <2>4. late \subseteq JobTakes \cup QaAttempts /\ calls \in [VoiceJobs -> {"none", "owed", "read", "refused"}]
    OBVIOUS
  <2>5. down \in BOOLEAN
    BY Zenon
  <2>6. faults \in 0..MaxFaults
    OBVIOUS
  <2> QED
    BY <2>1, <2>2, <2>3, <2>4, <2>5, <2>6 DEF RunTypeOK
<1>3. DraftCounts /\ JobCounts /\ DecidedVerified
  BY DEF DraftCounts, JobCounts, DecidedVerified
<1>4. \A r \in Runs : ~Exists(r)
  BY DEF Exists
<1>5. LinksAgree /\ RowLinks /\ OwnMaster /\ OneRunPerPlan /\ NothingLeftBehind
  BY <1>4 DEF LinksAgree, RowLinks, OwnMaster, RendersOwn, OneRunPerPlan, NothingLeftBehind, In
<1>6. NoStrayJobs
  BY DEF NoStrayJobs
<1> QED
  BY <1>2, <1>3, <1>5, <1>6 DEF RunInv

\* Every step keeps the invariant.
LEMMA StepInv == RunInv /\ [RunNext]_vars => RunInv'
<1> SUFFICES ASSUME RunInv, [RunNext]_vars PROVE RunInv'
  OBVIOUS
<1>0. RunTypeOK
  BY DEF RunInv
<1>1. ASSUME NEW r \in Runs, Requests(r) PROVE RunInv'
  <2>1. CASE AdvanceVoiceQa(r)
    BY <1>0, <2>1, BindKeeps DEF AdvanceVoiceQa, RunTypeOK
  <2> QED
    BY <1>1, <2>1, StartKeeps, DispatchKeeps, ResumeKeeps, CancelKeeps, RepairKeeps DEF Requests
<1>2. ASSUME NEW j \in Jobs, Work(j) PROVE RunInv'
  BY <1>2, WorkQuiet, QuietKeeps
<1>3. ASSUME NEW j \in VoiceJobs, Call(j) \/ CallDies(j) PROVE RunInv'
  <2>1. CASE /\ CanAdvance(j[1]) /\ BindQa(j[1]) /\ Goes(j, "none")
             /\ UNCHANGED <<draft, takes, late, check, desk, down, faults>>
    <3>1. calls' \in [VoiceJobs -> {"none", "owed", "read", "refused"}]
      BY <1>0, <2>1 DEF Goes, RunTypeOK
    <3> QED
      BY <2>1, <3>1, JobNames, BindKeeps
  <2> QED
    BY <1>3, <2>1, CallQuiet, QuietKeeps
<1>4. CASE \/ \E t \in JobTakes : LateStores(t)
           \/ \E c \in QaAttempts : LateReads(c) \/ LateAnswers(c)
           \/ \E t \in Takes : OtherTake(t) \/ HandReads(t) \/ HandWrites(t) \/ ReviewReads(t)
           \/ ReviewWrites \/ SaveDraft \/ Relaunch
  BY <1>4, AroundQuiet, QuietKeeps
<1>5. CASE UNCHANGED vars
  BY <1>5, UntouchedQuiet, QuietKeeps DEF Quiet, vars
<1> QED
  BY <1>1, <1>2, <1>3, <1>4, <1>5 DEF RunNext

\* The invariant holds of every behaviour.
THEOREM RunInvariant == RunSpec => []RunInv
  BY InitInv, StepInv, PTL DEF RunSpec

\* The tables keep their types: versions, attempts and the order of takes stay
\* within their bounds.
THEOREM RunTypes == RunSpec => []RunTypeOK
<1>1. RunInv => RunTypeOK
  BY DEF RunInv
<1> QED
  BY <1>1, RunInvariant, PTL

\* A run is never linked to the take or the QA job of a voice job that a repair
\* replaced, whatever callback or retry comes late.
THEOREM LinksStayCurrent == RunSpec => []LinksAgree
<1>1. RunInv => LinksAgree
  BY DEF RunInv
<1> QED
  BY <1>1, RunInvariant, PTL

\* A render reads the take of its plan, the run's own, which was verified and
\* approved when the run was admitted, whatever old copies are written back.
THEOREM RendersReviewedMaster == RunSpec => RenderedMaster
<1>1. RunInv => \A r \in Runs : RendersOwn(r)
  BY DEF RunInv, OwnMaster
<1>2. ASSUME RunInv, [RunNext]_vars, NEW r \in Runs, Admitted(r)
      PROVE  /\ takes[jobs'[RenderOf(r)].take].qa = "verified"
             /\ takes[jobs'[RenderOf(r)].take].review = "approved"
  <2>0. RunTypeOK /\ DecidedVerified
    BY <1>2 DEF RunInv
  <2>1. ~Quiet
    BY <1>2, QuietFields DEF Quiet, Admitted, In
  <2>2. ASSUME NEW q \in Runs, Requests(q) \/ (CanAdvance(q) /\ BindQa(q))
        PROVE  q = r /\ (Start(r) \/ Resume(r)) /\ Master # NoTake
    <3>1. CASE CanAdvance(q) /\ BindQa(q)
      <4> DEFINE t == CHOOSE u \in Takes : u \in Outputs(rows[q].voice)
                 k == QaOf(rows[q].voice)
      <4>1. rows' = [rows EXCEPT ![q].audio = t, ![q].qa = k, ![q].stopped = FALSE]
        BY <3>1 DEF BindQa
      <4>2. rows[q] \in Rows
        BY <2>0, <3>1 DEF CanAdvance, In, Exists, RunTypeOK
      <4> HIDE DEF t, k
      <4>3. rows'[r] = rows[r] \/ rows'[r].stage = rows[r].stage
        BY <2>0, <4>1, <4>2 DEF RunTypeOK, Rows
      <4>4. Exists(r)
        BY <1>2, <2>0, <3>1, <4>1 DEF CanAdvance, In, Exists, Admitted, RunTypeOK
      <4> QED
        BY <1>2, <4>3, <4>4 DEF Admitted, In, Exists
    <3>2. CASE DispatchVoice(q) \/ Cancel(q) \/ Repair(q)
      BY <1>2, <2>0, <3>2 DEF DispatchVoice, Cancel, Repair, Admitted, In, Exists, RunTypeOK, Rows
    <3>3. CASE Start(q)
      BY <1>2, <2>0, <3>3 DEF Start, Admitted, In, Exists, RunTypeOK
    <3>4. CASE Resume(q)
      BY <1>2, <2>0, <3>4 DEF Resume, CanResume, Admitted, In, Exists, RunTypeOK, Rows
    <3> QED
      BY <2>2, <3>1, <3>2, <3>3, <3>4 DEF Requests, AdvanceVoiceQa
  <2>3. ASSUME NEW j \in VoiceJobs, Call(j) \/ CallDies(j) PROVE FALSE
    <3>1. CanAdvance(j[1]) /\ BindQa(j[1]) /\ j[1] \in Runs
      BY <1>2, <2>1, <2>3, CallQuiet, JobNames
    <3> QED
      BY <2>2, <3>1 DEF CanAdvance, BindQa, Start, Resume, CanResume, In, Exists
  <2>4. (Start(r) \/ Resume(r)) /\ Master # NoTake
    BY <1>2, <2>1, <2>2, <2>3, WorkQuiet, AroundQuiet, UntouchedQuiet DEF RunNext, Quiet, vars
  <2>5. Master \in Takes /\ Reusable(Master)
    BY <2>4, MasterReusable
  <2>6. jobs'[RenderOf(r)].take = Master
    <3>1. jobs' = [jobs EXCEPT ![RenderOf(r)] = Queued(Master)]
      BY <2>4 DEF Start, Resume
    <3> QED
      BY <2>0, <3>1, JobNames DEF RunTypeOK, Queued
  <2> QED
    BY <2>0, <2>5, <2>6 DEF Reusable, DecidedVerified
<1>3. RunInv /\ [RunNext]_vars =>
         [\A r \in Runs : Admitted(r) =>
             LET t == jobs'[RenderOf(r)].take IN
             takes[t].qa = "verified" /\ takes[t].review = "approved"]_vars
  BY <1>2
<1> QED
  BY <1>1, <1>3, RunInvariant, PTL DEF RunSpec, RenderedMaster

\* Two runs never hold one plan.
THEOREM PlansAreUnique == RunSpec => []OneRunPerPlan
<1>1. RunInv => OneRunPerPlan
  BY DEF RunInv
<1> QED
  BY <1>1, RunInvariant, PTL

\* Cancelling, resuming and repairing leave no job of the run to a worker.
THEOREM NoOrphanJobs == RunSpec => []NothingLeftBehind
<1>1. RunInv => NothingLeftBehind
  BY DEF RunInv
<1> QED
  BY <1>1, RunInvariant, PTL

\* Rows, jobs and takes of any number of runs stay together.
THEOREM RunsStand == RunSpec => []RunStands
<1>1. RunInv => RunStands
  BY DEF RunInv, RunStands
<1> QED
  BY <1>1, RunInvariant, PTL

\* An approved take stays bound, whatever request or callback comes next.
THEOREM ApprovedStaysBound == RunSpec => ApprovedKept
<1>1. ASSUME RunInv, [RunNext]_vars, NEW r \in Runs,
             Exists(r), rows[r].audio # NoTake, Reusable(rows[r].audio)
      PROVE  rows'[r].audio = rows[r].audio
  <2>0. RunTypeOK /\ rows[r] \in Rows /\ RowSound(r, rows[r])
    BY <1>1, OwnRow DEF RunInv
  <2>1. /\ rows[r].qa # NoJob /\ Is(rows[r].voice, {"completed"}) /\ rows[r].audio \in Takes
        /\ takes[rows[r].audio].qa = "verified"
    BY <1>1, <2>0 DEF RowSound, Rows, Reusable, RunInv, DecidedVerified
  <2>2. CASE Quiet
    BY <1>1, <2>2, QuietFields DEF Quiet
  <2>3. ASSUME NEW q \in Runs, Requests(q) \/ (CanAdvance(q) /\ BindQa(q))
        PROVE  rows'[r].audio = rows[r].audio
    <3>1. CASE CanAdvance(q) /\ BindQa(q)
      <4>1. q # r
        BY <2>1, <3>1 DEF CanAdvance
      <4> QED
        BY <2>0, <3>1, <4>1 DEF BindQa, RunTypeOK
    <3>2. CASE Repair(q)
      <4>1. q # r
        BY <1>1, <2>1, <3>2 DEF Repair, Repairable, Unreviewed, Is, Reusable
      <4> QED
        BY <2>0, <3>2, <4>1 DEF Repair, RunTypeOK
    <3>3. CASE Start(q)
      BY <1>1, <2>0, <3>3 DEF Start, RunTypeOK
    <3>4. CASE DispatchVoice(q) \/ Resume(q) \/ Cancel(q)
      BY <2>0, <3>4 DEF DispatchVoice, Resume, Cancel, RunTypeOK, Rows
    <3> QED
      BY <2>3, <3>1, <3>2, <3>3, <3>4 DEF Requests, AdvanceVoiceQa
  <2>4. ASSUME NEW j \in VoiceJobs, Call(j) \/ CallDies(j)
        PROVE  rows'[r].audio = rows[r].audio
    BY <1>1, <2>2, <2>3, <2>4, CallQuiet, JobNames
  <2> QED
    BY <1>1, <2>2, <2>3, <2>4, WorkQuiet, AroundQuiet, UntouchedQuiet DEF RunNext, Quiet, vars
<1>2. RunInv /\ [RunNext]_vars =>
         [\A r \in Runs : Exists(r) /\ rows[r].audio # NoTake /\ Reusable(rows[r].audio)
             => rows'[r].audio = rows[r].audio]_vars
  BY <1>1
<1> QED
  BY <1>2, RunInvariant, PTL DEF RunSpec, ApprovedKept
=============================================================================
