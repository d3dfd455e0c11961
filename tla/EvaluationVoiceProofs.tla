----------------------- MODULE EvaluationVoiceProofs -----------------------
(***************************************************************************)
(* Proofs, for any drafts, contents, admissions, attempts and faults, that *)
(* a job starts one child, that calls and recordings account for each      *)
(* other and that a bound Master was earned.                               *)
(***************************************************************************)
EXTENDS EvaluationVoice, TLAPS

JobStatuses == {"absent", "pending", "running", "completed", "failed"}
CallStates == {"none", "running", "completed", "failed"}
Verdicts == {"none", "pending", "verified", "rejected"}
Places == {"begun", "ready", "reserved", "cleared", "launched", "checked", "returned", "looked",
           "rolled back", "imported", "stored", "failing"}

\* Where the call of a job is on its way.
Sending == {"reserved", "cleared", "launched", "checked", "returned", "looked", "rolled back", "imported"}
Importing == {"returned", "looked", "rolled back", "imported"}

Types ==
    /\ job \in [Jobs -> [status : JobStatuses, attempt : 0..MaxAttempts, live : BOOLEAN]]
    /\ call \in [Jobs -> CallStates]
    /\ launches \in [Jobs -> Nat]
    /\ audio \in [Bytes -> [by : Drafts \cup {User, None}, scope : SUBSET Grants, verdict : Verdicts]]
    /\ file \in [Bytes -> BOOLEAN]
    /\ review \in [Bytes -> {"none", "approved", "rejected"}]
    /\ use \in [Uses -> {"none", "live", "revoked"}]
    /\ run \in [Bytes -> [by : Uses \cup {None}, cancelled : BOOLEAN]]
    /\ DOMAIN work \subseteq Attempts \cup Uploads
    /\ work \in [DOMAIN work -> [at : Places, bytes : Bytes \cup {None}]]

\* A handler on its way has the running call of its job, launched once it passed
\* the launch, and its recording's row is not there before it is imported.
Placed(w) ==
    /\ work[w].at \notin Importing => w[1] \in Jobs
    /\ work[w].at \in Importing => work[w].bytes \in Bytes /\ w[1] \notin Bytes
    /\ work[w].at = "checked" => w[1] \in Bytes
    /\ work[w].at = "imported" => w[1] \in Drafts /\ audio[work[w].bytes].by = w[1]
    /\ work[w].at = "stored" => call[w[1]] = "completed"
    /\ w[1] \in Jobs => job[w[1]].status # "absent"
    /\ w[1] \in Jobs /\ work[w].at \in Sending =>
          /\ call[w[1]] = "running"
          /\ launches[w[1]] = IF work[w].at \in {"reserved", "cleared"} THEN 0 ELSE 1
          /\ work[w].at # "imported" => \A b \in Bytes : audio[b].by # w[1]

AllPlaced == \A w \in DOMAIN work : Placed(w)

OneSender ==
    \A v, w \in DOMAIN work :
        v[1] = w[1] /\ v[1] \in Jobs /\ work[v].at \in Sending /\ work[w].at \in Sending => v = w

\* A job, its call and its child agree.
Agrees(j) ==
    /\ launches[j] \in {0, 1}
    /\ call[j] = "none" => launches[j] = 0
    /\ call[j] = "completed" => launches[j] = 1
    /\ call[j] # "none" => job[j].status # "absent"
    /\ job[j].status = "completed" => call[j] = "completed"
    /\ job[j].status = "pending" => job[j].attempt < MaxAttempts

AllAgree == \A j \in Jobs : Agrees(j)

OnceClaimed ==
    \A d, e \in Drafts :
        /\ GrantOf[d] = GrantOf[e] /\ GrantOf[d] \in Once
        /\ job[d].status # "absent" /\ job[e].status # "absent"
        => d = e

Row(b) ==
    /\ audio[b].by = None => audio[b].scope = {}
    /\ audio[b].by \in Drafts =>
          /\ audio[b].scope = {GrantOf[audio[b].by]}
          /\ launches[audio[b].by] = 1 /\ call[audio[b].by] \in {"running", "completed"}
    /\ audio[b].verdict \in {"verified", "rejected"} => call[b] = "completed"

AllRows == \A b \in Bytes : Row(b)

Outputs ==
    \A d \in Drafts :
        /\ call[d] = "completed" => \E b \in Bytes : audio[b].by = d
        /\ \A b, c \in Bytes : audio[b].by = d /\ audio[c].by = d => b = c

MadeOnce(b) == \E d \in Drafts : audio[b].by = d /\ GrantOf[d] \in Once /\ call[d] = "completed"

Earned ==
    \A b \in Bytes :
        /\ review[b] # "none" => audio[b].verdict = "verified" /\ call[b] = "completed" /\ MadeOnce(b)
        /\ run[b].by # None => run[b].by \in Uses /\ use[run[b].by] # "none" /\ review[b] = "approved"

VoiceInv ==
    /\ Types /\ AllPlaced /\ OneSender /\ AllAgree /\ OnceClaimed
    /\ AllRows /\ Outputs /\ Earned

-----------------------------------------------------------------------------
LEMMA Kinds ==
  /\ \A d \in Drafts : d \in Jobs /\ d \notin Bytes /\ d # User /\ d # None
  /\ \A b \in Bytes : b \in Jobs /\ b \notin Drafts /\ b # User /\ b # None
  /\ User \notin Jobs /\ User # None /\ None \notin Uses
  /\ \A d \in Drafts : GrantOf[d] \in Grants
  /\ \A w \in Attempts : w[1] \in Jobs /\ w[2] \in 1..MaxAttempts
  /\ \A w \in Uploads : w[1] = User
BY EvaluationVoiceAssumption DEF Jobs, Grants, Attempts, Uploads

\* A step of a handler leaves the others where they are.
LEMMA StepMoves ==
  ASSUME Types, NEW w \in DOMAIN work, NEW place \in Places, Step(w, place)
  PROVE  /\ DOMAIN work' = DOMAIN work
         /\ work' \in [DOMAIN work' -> [at : Places, bytes : Bytes \cup {None}]]
         /\ work'[w].at = place /\ work'[w].bytes = work[w].bytes
         /\ \A v \in DOMAIN work : v # w => work'[v] = work[v]
BY DEF Types, Step

LEMMA EndMoves ==
  ASSUME Types, NEW w \in DOMAIN work, End(w)
  PROVE  /\ DOMAIN work' = DOMAIN work \ {w}
         /\ work' \in [DOMAIN work' -> [at : Places, bytes : Bytes \cup {None}]]
         /\ \A v \in DOMAIN work' : v \in DOMAIN work /\ v # w /\ work'[v] = work[v]
BY DEF Types, End

LEMMA BeginMoves ==
  ASSUME Types, NEW w, NEW place \in Places, NEW b \in Bytes \cup {None}, Begin(w, place, b)
  PROVE  /\ DOMAIN work' = DOMAIN work \cup {w}
         /\ work' \in [DOMAIN work' -> [at : Places, bytes : Bytes \cup {None}]]
         /\ work'[w].at = place /\ work'[w].bytes = b
         /\ \A v \in DOMAIN work' : v # w => v \in DOMAIN work /\ work'[v] = work[v]
BY DEF Types, Begin

LEMMA CallSet ==
  ASSUME Types, NEW w, w[1] \in Jobs, NEW status \in CallStates, SetCall(w, status)
  PROVE  /\ call' \in [Jobs -> CallStates]
         /\ call'[w[1]] = status
         /\ \A j \in Jobs : j # w[1] => call'[j] = call[j]
BY DEF Types, SetCall


LEMMA LaunchSet ==
  ASSUME Types, NEW j \in Jobs, launches[j] = 0,
         launches' = [launches EXCEPT ![j] = @ + 1]
  PROVE  /\ launches' \in [Jobs -> Nat] /\ launches'[j] = 1
         /\ \A i \in Jobs : i # j => launches'[i] = launches[i]
BY DEF Types

-----------------------------------------------------------------------------
(* Handlers that do not move                                               *)

\* Nobody starts to send.
NoNewSender ==
    \A v \in DOMAIN work' :
        v[1] \in Jobs /\ work'[v].at \in Sending => v \in DOMAIN work /\ work[v].at \in Sending

LEMMA SendersStay ==
  ASSUME OneSender, NoNewSender
  PROVE  OneSender'
BY DEF OneSender, NoNewSender

\* Rows keep their maker; a new one is made by whoever.
RowsStay(who) ==
    \A b \in Bytes : audio'[b].by = audio[b].by \/ (audio[b].by = None /\ audio'[b].by = who)

LEMMA PlacedStays ==
  ASSUME AllPlaced, Types, NEW v \in DOMAIN work, v \in DOMAIN work', work'[v] = work[v],
         NEW who, RowsStay(who),
         v[1] \in Jobs => who # v[1] \/ work[v].at \notin Sending,
         v[1] \in Jobs => (job[v[1]].status # "absent" => job'[v[1]].status # "absent"),
         v[1] \in Jobs => call'[v[1]] = call[v[1]]
                          \/ work[v].at \notin Sending \cup {"stored"},
         v[1] \in Jobs => launches'[v[1]] = launches[v[1]] \/ work[v].at \notin Sending
  PROVE  Placed(v)'
<1>1. Placed(v)
  BY DEF AllPlaced
<1>2. work[v].at = "imported" => work[v].bytes \in Bytes /\ audio'[work[v].bytes].by = v[1]
  BY <1>1, Kinds DEF Placed, RowsStay, Importing
<1>3. ASSUME NEW b \in Bytes, audio[b].by # v[1], v[1] \in Jobs, work[v].at \in Sending
      PROVE  audio'[b].by # v[1]
  BY <1>3 DEF RowsStay
<1>4. v[1] \in Jobs /\ work[v].at \in Sending =>
          /\ call'[v[1]] = "running"
          /\ launches'[v[1]] = IF work[v].at \in {"reserved", "cleared"} THEN 0 ELSE 1
          /\ work[v].at # "imported" => \A b \in Bytes : audio'[b].by # v[1]
  BY <1>1, <1>3 DEF Placed
<1>5. work[v].at = "stored" => v[1] \in Jobs /\ call'[v[1]] = "completed"
  BY <1>1 DEF Placed, Importing, Sending
<1> QED
  BY <1>1, <1>2, <1>4, <1>5 DEF Placed

\* Of the handlers of a job only the sender is past its call while that runs.
LEMMA Alone ==
  ASSUME VoiceInv, NEW w \in DOMAIN work, w[1] \in Jobs, work[w].at \in Sending,
         NEW v \in DOMAIN work, v # w, v[1] = w[1]
  PROVE  work[v].at \notin Sending \cup {"stored"}
<1>1. work[v].at \notin Sending
  BY DEF VoiceInv, OneSender
<1>2. call[w[1]] = "running" /\ (work[v].at = "stored" => call[v[1]] = "completed")
  BY DEF VoiceInv, AllPlaced, Placed
<1> QED
  BY <1>1, <1>2

-----------------------------------------------------------------------------
(* Steps that change jobs and handlers, not calls or recordings            *)

LEMMA CalmKeeps ==
  ASSUME VoiceInv, UNCHANGED <<call, audio, Decisions, launches>>,
         job' \in [Jobs -> [status : JobStatuses, attempt : 0..MaxAttempts, live : BOOLEAN]],
         file' \in [Bytes -> BOOLEAN],
         DOMAIN work' \subseteq Attempts \cup Uploads,
         work' \in [DOMAIN work' -> [at : Places, bytes : Bytes \cup {None}]],
         AllPlaced', NoNewSender, OnceClaimed',
         \A j \in Jobs : /\ job[j].status # "absent" => job'[j].status # "absent"
                         /\ job'[j].status = "completed" => call[j] = "completed"
                         /\ job'[j].status = "pending" => job'[j].attempt < MaxAttempts
  PROVE  VoiceInv'
<1>1. Types'
  BY DEF VoiceInv, Types, Decisions
<1>2. OneSender'
  BY SendersStay DEF VoiceInv
<1>3. AllAgree'
  BY DEF VoiceInv, AllAgree, Agrees
<1>4. AllRows' /\ Outputs' /\ Earned'
  BY DEF VoiceInv, AllRows, Row, Outputs, Earned, MadeOnce, Decisions
<1> QED
  BY <1>1, <1>2, <1>3, <1>4 DEF VoiceInv

\* A handler that does not move, of a job whose call and child do not.
LEMMA Unmoved ==
  ASSUME VoiceInv, UNCHANGED <<call, audio, launches>>,
         NEW v \in DOMAIN work, v \in DOMAIN work', work'[v] = work[v],
         \A j \in Jobs : job[j].status # "absent" => job'[j].status # "absent"
  PROVE  Placed(v)'
<1>1. RowsStay(None)
  BY DEF RowsStay
<1>2. None # v[1]
  BY EvaluationVoiceAssumption DEF VoiceInv, Types, Attempts, Uploads
<1> QED
  BY <1>1, <1>2, PlacedStays DEF VoiceInv

\* The handlers stay and a job is enqueued, or changes its status.
LEMMA JobStepKeeps ==
  ASSUME VoiceInv, UNCHANGED <<call, audio, file, Decisions, work, launches>>,
         job' \in [Jobs -> [status : JobStatuses, attempt : 0..MaxAttempts, live : BOOLEAN]],
         OnceClaimed',
         \A j \in Jobs : /\ job[j].status # "absent" => job'[j].status # "absent"
                         /\ job'[j].status = "completed" => call[j] = "completed"
                         /\ job'[j].status = "pending" => job'[j].attempt < MaxAttempts
  PROVE  VoiceInv'
<1>1. AllPlaced'
  <2> SUFFICES ASSUME NEW v \in DOMAIN work' PROVE Placed(v)'
    BY DEF AllPlaced
  <2> QED
    BY Unmoved
<1>2. NoNewSender
  BY DEF NoNewSender
<1> QED
  BY <1>1, <1>2, CalmKeeps DEF VoiceInv, Types

LEMMA ClaimedStays ==
  ASSUME OnceClaimed, \A d \in Drafts : job[d].status = "absent" <=> job'[d].status = "absent"
  PROVE  OnceClaimed'
BY DEF OnceClaimed

LEMMA EnqueueKeeps ==
  ASSUME VoiceInv, NEW j \in Jobs, Is(j, "absent"), Enqueue(j), OnceClaimed',
         UNCHANGED <<call, audio, file, Decisions, work, launches>>
  PROVE  VoiceInv'
<1>1. /\ job' \in [Jobs -> [status : JobStatuses, attempt : 0..MaxAttempts, live : BOOLEAN]]
      /\ job'[j].status = "pending" /\ job'[j].attempt < MaxAttempts
      /\ \A i \in Jobs : i # j => job'[i] = job[i]
  BY EvaluationVoiceAssumption DEF VoiceInv, Types, Enqueue, JobStatuses
<1>2. \A i \in Jobs : /\ job[i].status = "completed" => call[i] = "completed"
                      /\ job[i].status = "pending" => job[i].attempt < MaxAttempts
  BY DEF VoiceInv, AllAgree, Agrees
<1> QED
  BY <1>1, <1>2, JobStepKeeps

LEMMA CreateDraftKeeps ==
  ASSUME VoiceInv, NEW d \in Drafts, CreateDraft(d)
  PROVE  VoiceInv'
<1>1. d \in Jobs /\ Is(d, "absent") /\ Enqueue(d)
  BY Kinds DEF CreateDraft
<1>2. \A i \in Jobs : i # d => job'[i] = job[i]
  BY <1>1 DEF Enqueue, VoiceInv, Types
<1>3. OnceClaimed'
  <2>1. \A e \in Drafts : GrantOf[e] = GrantOf[d] /\ GrantOf[d] \in Once => job[e].status = "absent"
    BY DEF CreateDraft, Unclaimed, Is
  <2> QED
    BY <2>1, <1>2, Kinds DEF OnceClaimed, VoiceInv
<1> QED
  BY <1>1, <1>3, EnqueueKeeps DEF CreateDraft, Library

LEMMA CreateQaKeeps ==
  ASSUME VoiceInv, NEW b \in Bytes, CreateQa(b)
  PROVE  VoiceInv'
<1>1. b \in Jobs /\ Is(b, "absent") /\ Enqueue(b)
  BY Kinds DEF CreateQa
<1>2. \A i \in Jobs : i # b => job'[i] = job[i]
  BY <1>1 DEF Enqueue, VoiceInv, Types
<1>3. OnceClaimed'
  BY <1>2, Kinds, ClaimedStays DEF VoiceInv
<1> QED
  BY <1>1, <1>3, EnqueueKeeps DEF CreateQa, Library


LEMMA QuietKeeps ==
  ASSUME VoiceInv, UNCHANGED <<job, call, audio, file, Decisions, work, launches>>
  PROVE  VoiceInv'
<1>1. \A j \in Jobs : /\ job[j].status = "completed" => call[j] = "completed"
                      /\ job[j].status = "pending" => job[j].attempt < MaxAttempts
  BY DEF VoiceInv, AllAgree, Agrees
<1>2. OnceClaimed'
  BY DEF VoiceInv, OnceClaimed
<1> QED
  BY <1>1, <1>2, JobStepKeeps DEF VoiceInv, Types

\* Reviews, uses and runs are built on what is never undone.
LEMMA DecisionKeeps ==
  ASSUME VoiceInv, UNCHANGED <<withdrawn, job, call, audio, file, work, launches, faults>>,
         review' \in [Bytes -> {"none", "approved", "rejected"}],
         use' \in [Uses -> {"none", "live", "revoked"}],
         run' \in [Bytes -> [by : Uses \cup {None}, cancelled : BOOLEAN]],
         Earned'
  PROVE  VoiceInv'
<1>1. Types'
  BY DEF VoiceInv, Types
<1>2. AllPlaced'
  <2> SUFFICES ASSUME NEW v \in DOMAIN work' PROVE Placed(v)'
    BY DEF AllPlaced
  <2> QED
    BY Unmoved
<1>3. OneSender' /\ AllAgree' /\ OnceClaimed' /\ AllRows' /\ Outputs'
  BY DEF VoiceInv, OneSender, AllAgree, Agrees, OnceClaimed, AllRows, Row, Outputs
<1> QED
  BY <1>1, <1>2, <1>3 DEF VoiceInv

LEMMA ReviewKeeps ==
  ASSUME VoiceInv, NEW b \in Bytes, Review(b)
  PROVE  VoiceInv'
<1>1. PICK v \in {"approved", "rejected"} : review' = [review EXCEPT ![b] = v]
  BY DEF Review
<1>2. UNCHANGED <<withdrawn, job, call, audio, file, use, run, work, launches, faults>>
  BY DEF Review, Library
<1>3. review' \in [Bytes -> {"none", "approved", "rejected"}] /\ review[b] = "none"
  BY <1>1 DEF VoiceInv, Types, Review
<1>4. audio[b].verdict = "verified" /\ call[b] = "completed" /\ MadeOnce(b)
  BY DEF Review, Checked, Retained, QaLive, Standing, CompletedOnce, MadeOnce
<1>5. Earned'
  BY <1>1, <1>2, <1>3, <1>4 DEF VoiceInv, Earned, MadeOnce, Types
<1> QED
  BY <1>2, <1>3, <1>5, DecisionKeeps DEF VoiceInv, Types

LEMMA UseKeeps ==
  ASSUME VoiceInv, NEW u \in Uses, AdoptUse(u) \/ RevokeUse(u)
  PROVE  VoiceInv'
<1>1. PICK s \in {"live", "revoked"} : use' = [use EXCEPT ![u] = s]
  BY DEF AdoptUse, RevokeUse
<1>2. UNCHANGED <<withdrawn, job, call, audio, file, review, run, work, launches, faults>>
  BY DEF AdoptUse, RevokeUse, Library
<1>3. use' \in [Uses -> {"none", "live", "revoked"}] /\ \A v \in Uses : use[v] # "none" => use'[v] # "none"
  BY <1>1 DEF VoiceInv, Types
<1>4. Earned'
  BY <1>2, <1>3 DEF VoiceInv, Earned, MadeOnce
<1> QED
  BY <1>2, <1>3, <1>4, DecisionKeeps DEF VoiceInv, Types

LEMMA BindKeeps ==
  ASSUME VoiceInv, NEW u \in Uses, Bind(u)
  PROVE  VoiceInv'
<1> DEFINE b == UseFor[u]
<1>1. b \in Bytes
  BY EvaluationVoiceAssumption
<1>2. run' = [run EXCEPT ![b].by = u] /\ use[u] = "live" /\ review[b] = "approved"
  BY DEF Bind, Usable
<1>3. UNCHANGED <<withdrawn, job, call, audio, file, review, use, work, launches, faults>>
  BY DEF Bind, Library
<1>4. /\ run' \in [Bytes -> [by : Uses \cup {None}, cancelled : BOOLEAN]]
      /\ run'[b].by = u /\ \A c \in Bytes : c # b => run'[c] = run[c]
  <2>1. run[b] \in [by : Uses \cup {None}, cancelled : BOOLEAN]
    BY <1>1 DEF VoiceInv, Types
  <2>2. [run[b] EXCEPT !.by = u] \in [by : Uses \cup {None}, cancelled : BOOLEAN]
    BY <2>1
  <2>3. [run[b] EXCEPT !.by = u].by = u
    BY <2>1
  <2> HIDE DEF b
  <2> QED
    BY <1>1, <1>2, <2>2, <2>3 DEF VoiceInv, Types
<1>5. Earned'
  <2> HIDE DEF b
  <2> QED
    BY <1>1, <1>2, <1>3, <1>4 DEF VoiceInv, Earned, MadeOnce
<1> QED
  BY <1>3, <1>4, <1>5, DecisionKeeps DEF VoiceInv, Types

LEMMA CancelRunKeeps ==
  ASSUME VoiceInv, NEW b \in Bytes, CancelRun(b)
  PROVE  VoiceInv'
<1>1. run' = [run EXCEPT ![b].cancelled = TRUE]
  BY DEF CancelRun
<1>2. UNCHANGED <<withdrawn, job, call, audio, file, review, use, work, launches, faults>>
  BY DEF CancelRun, Library
<1>3. /\ run' \in [Bytes -> [by : Uses \cup {None}, cancelled : BOOLEAN]]
      /\ \A c \in Bytes : run'[c].by = run[c].by
  BY <1>1 DEF VoiceInv, Types
<1>4. Earned'
  BY <1>2, <1>3 DEF VoiceInv, Earned, MadeOnce
<1> QED
  BY <1>2, <1>3, <1>4, DecisionKeeps DEF VoiceInv, Types

LEMMA RequestKeeps ==
  ASSUME VoiceInv, Request
  PROVE  VoiceInv'
<1>1. ASSUME NEW g, Withdraw(g) PROVE VoiceInv'
  BY <1>1, QuietKeeps DEF Withdraw, Library
<1> QED
  BY <1>1, CreateDraftKeeps, CreateQaKeeps, ReviewKeeps, UseKeeps, BindKeeps, CancelRunKeeps
  DEF Request


-----------------------------------------------------------------------------
(* The queue, and the steps of handlers that change neither calls nor rows *)

LEMMA LapseKeeps ==
  ASSUME VoiceInv, NEW j \in Jobs, Lapse(j)
  PROVE  VoiceInv'
<1>1. job' = [job EXCEPT ![j].live = FALSE]
  BY DEF Lapse
<1>2. /\ job' \in [Jobs -> [status : JobStatuses, attempt : 0..MaxAttempts, live : BOOLEAN]]
      /\ \A i \in Jobs : job'[i].status = job[i].status /\ job'[i].attempt = job[i].attempt
  <2> DEFINE Rec == [status : JobStatuses, attempt : 0..MaxAttempts, live : BOOLEAN]
             new == [job[j] EXCEPT !.live = FALSE]
  <2>1. job \in [Jobs -> Rec]
    BY DEF VoiceInv, Types
  <2>2. new \in Rec /\ new.status = job[j].status /\ new.attempt = job[j].attempt
    BY <2>1
  <2>3. job' = [job EXCEPT ![j] = new]
    BY <1>1
  <2> HIDE DEF new, Rec
  <2> QED
    BY <2>1, <2>2, <2>3 DEF Rec
<1>3. OnceClaimed'
  <2>1. \A d \in Drafts : job[d].status = "absent" <=> job'[d].status = "absent"
    BY <1>2, Kinds
  <2> QED
    BY <2>1, ClaimedStays DEF VoiceInv
<1>4. UNCHANGED <<call, audio, file, Decisions, work, launches>>
  BY DEF Lapse, Rest, Library
<1>5. \A i \in Jobs : /\ job[i].status = "completed" => call[i] = "completed"
                      /\ job[i].status = "pending" => job[i].attempt < MaxAttempts
  BY DEF VoiceInv, AllAgree, Agrees
<1> QED
  BY <1>2, <1>3, <1>4, <1>5, JobStepKeeps

LEMMA RecoverKeeps ==
  ASSUME VoiceInv, NEW j \in Jobs, Recover(j)
  PROVE  VoiceInv'
<1>1. PICK s \in {"pending", "failed"} :
        /\ job' = [job EXCEPT ![j].status = s]
        /\ s = "pending" => job[j].attempt < MaxAttempts
  BY DEF Recover
<1>2. /\ job' \in [Jobs -> [status : JobStatuses, attempt : 0..MaxAttempts, live : BOOLEAN]]
      /\ \A i \in Jobs : i # j => job'[i] = job[i]
      /\ job'[j].status = s /\ job'[j].attempt = job[j].attempt
  BY <1>1 DEF VoiceInv, Types, JobStatuses
<1>3. job[j].status = "running"
  BY DEF Recover, Is
<1>4. OnceClaimed'
  <2>1. \A d \in Drafts : job[d].status = "absent" <=> job'[d].status = "absent"
    BY <1>2, <1>3, Kinds
  <2> QED
    BY <2>1, ClaimedStays DEF VoiceInv
<1>5. UNCHANGED <<call, audio, file, Decisions, work, launches>>
  BY DEF Recover, Rest, Library
<1>6. \A i \in Jobs : /\ job[i].status = "completed" => call[i] = "completed"
                      /\ job[i].status = "pending" => job[i].attempt < MaxAttempts
  BY DEF VoiceInv, AllAgree, Agrees
<1> QED
  BY <1>1, <1>2, <1>4, <1>5, <1>6, JobStepKeeps

LEMMA ClaimKeeps ==
  ASSUME VoiceInv, NEW j \in Jobs, Claim(j)
  PROVE  VoiceInv'
<1> DEFINE a == job[j].attempt + 1
           w == <<j, a>>
<1>1. job' = [job EXCEPT ![j] = [status |-> "running", attempt |-> a, live |-> TRUE]]
  BY DEF Claim
<1>2. a \in 1..MaxAttempts
  <2>1. job[j].attempt \in Nat
    BY EvaluationVoiceAssumption DEF VoiceInv, Types
  <2>2. job[j].attempt < MaxAttempts
    BY DEF Claim, Is, VoiceInv, AllAgree, Agrees
  <2> QED
    BY <2>1, <2>2, EvaluationVoiceAssumption
<1>3. /\ job' \in [Jobs -> [status : JobStatuses, attempt : 0..MaxAttempts, live : BOOLEAN]]
      /\ job'[j].status = "running" /\ \A i \in Jobs : i # j => job'[i] = job[i]
  <2>1. [status |-> "running", attempt |-> a, live |-> TRUE]
          \in [status : JobStatuses, attempt : 0..MaxAttempts, live : BOOLEAN]
    BY <1>2, EvaluationVoiceAssumption DEF JobStatuses
  <2> HIDE DEF a
  <2> QED
    BY <1>1, <2>1 DEF VoiceInv, Types
<1>4. w \in Attempts /\ w[1] = j
  BY <1>2 DEF Attempts
<1>5. /\ Begin(w, "begun", None) /\ UNCHANGED <<call, audio, file, Decisions, launches>>
      /\ job[j].status = "pending"
  BY DEF Claim, Rest, Library, Is
<1> HIDE DEF a, w
<1>6. /\ DOMAIN work' = DOMAIN work \cup {w}
      /\ work' \in [DOMAIN work' -> [at : Places, bytes : Bytes \cup {None}]]
      /\ work'[w].at = "begun"
      /\ \A v \in DOMAIN work' : v # w => v \in DOMAIN work /\ work'[v] = work[v]
  BY <1>5, BeginMoves DEF Places, VoiceInv
<1>7. \A i \in Jobs : job[i].status # "absent" => job'[i].status # "absent"
  BY <1>3
<1>8. AllPlaced'
  <2> SUFFICES ASSUME NEW v \in DOMAIN work' PROVE Placed(v)'
    BY DEF AllPlaced
  <2>1. CASE v # w
    BY <2>1, <1>5, <1>6, <1>7, Unmoved
  <2>2. CASE v = w
    BY <2>2, <1>3, <1>4, <1>6 DEF Placed, Sending, Importing
  <2> QED
    BY <2>1, <2>2
<1>9. NoNewSender
  BY <1>6 DEF NoNewSender, Sending
<1>10. OnceClaimed'
  <2>1. \A d \in Drafts : job[d].status = "absent" <=> job'[d].status = "absent"
    BY <1>3, <1>5, Kinds
  <2> QED
    BY <2>1, ClaimedStays DEF VoiceInv
<1>11. \A i \in Jobs : /\ job'[i].status = "completed" => call[i] = "completed"
                       /\ job'[i].status = "pending" => job'[i].attempt < MaxAttempts
  BY <1>3 DEF VoiceInv, AllAgree, Agrees
<1>12. DOMAIN work' \subseteq Attempts \cup Uploads /\ file' \in [Bytes -> BOOLEAN]
  BY <1>4, <1>5, <1>6 DEF VoiceInv, Types
<1> QED
  BY <1>3, <1>5, <1>6, <1>7, <1>8, <1>9, <1>10, <1>11, <1>12, CalmKeeps

\* A handler is gone, and with it possibly its job or a file.
LEMMA EndKeeps ==
  ASSUME VoiceInv, NEW w \in DOMAIN work, End(w),
         UNCHANGED <<call, audio, Decisions, launches>>,
         job' \in [Jobs -> [status : JobStatuses, attempt : 0..MaxAttempts, live : BOOLEAN]],
         file' \in [Bytes -> BOOLEAN],
         \A j \in Jobs : /\ job[j].status = "absent" <=> job'[j].status = "absent"
                         /\ job'[j].status = "completed" => call[j] = "completed"
                         /\ job'[j].status = "pending" => job'[j].attempt < MaxAttempts
  PROVE  VoiceInv'
<1>1. /\ DOMAIN work' = DOMAIN work \ {w}
      /\ work' \in [DOMAIN work' -> [at : Places, bytes : Bytes \cup {None}]]
      /\ \A v \in DOMAIN work' : v \in DOMAIN work /\ v # w /\ work'[v] = work[v]
  BY EndMoves DEF VoiceInv
<1>2. AllPlaced'
  <2> SUFFICES ASSUME NEW v \in DOMAIN work' PROVE Placed(v)'
    BY DEF AllPlaced
  <2> QED
    BY <1>1, Unmoved
<1>3. NoNewSender
  BY <1>1 DEF NoNewSender
<1>4. OnceClaimed'
  BY ClaimedStays, Kinds DEF VoiceInv
<1>5. DOMAIN work' \subseteq Attempts \cup Uploads
  BY <1>1 DEF VoiceInv, Types
<1> QED
  BY <1>1, <1>2, <1>3, <1>4, <1>5, CalmKeeps

LEMMA CrashKeeps ==
  ASSUME VoiceInv, NEW w \in DOMAIN work, Crash(w)
  PROVE  VoiceInv'
<1>1. file' \in [Bytes -> BOOLEAN]
  BY DEF Crash, VoiceInv, Types
<1>2. End(w) /\ UNCHANGED <<job, call, audio, Decisions, launches>>
  BY DEF Crash
<1>3. \A j \in Jobs : /\ job[j].status = "completed" => call[j] = "completed"
                      /\ job[j].status = "pending" => job[j].attempt < MaxAttempts
  BY DEF VoiceInv, AllAgree, Agrees
<1> QED
  BY <1>1, <1>2, <1>3, EndKeeps DEF VoiceInv, Types

LEMMA FinishKeeps ==
  ASSUME VoiceInv, NEW w \in DOMAIN work, Finish(w)
  PROVE  VoiceInv'
<1>1. End(w) /\ UNCHANGED <<call, audio, file, Decisions, launches>>
  BY DEF Finish, Rest, Library
<1>2. \A j \in Jobs : /\ job[j].status = "completed" => call[j] = "completed"
                      /\ job[j].status = "pending" => job[j].attempt < MaxAttempts
  BY DEF VoiceInv, AllAgree, Agrees
<1>3. CASE job' = job
  BY <1>1, <1>2, <1>3, EndKeeps DEF VoiceInv, Types
<1>4. CASE job' # job
  <2>1. w[1] \in Jobs /\ (work[w].at = "stored" => call[w[1]] = "completed")
    <3>1. Placed(w) /\ work[w].at \notin Importing
      BY DEF VoiceInv, AllPlaced, Finish, At, Importing
    <3> QED
      BY <3>1 DEF Placed
  <2>2. Holds(w)
    BY <1>4 DEF Finish
  <2>3. PICK s \in {"completed", "failed", "pending"} :
          /\ job' = [job EXCEPT ![w[1]].status = s]
          /\ s = "completed" => work[w].at = "stored"
          /\ s = "pending" => w[2] < MaxAttempts
    BY <2>2 DEF Finish, At
  <2>4. /\ job' \in [Jobs -> [status : JobStatuses, attempt : 0..MaxAttempts, live : BOOLEAN]]
        /\ \A i \in Jobs : i # w[1] => job'[i] = job[i]
        /\ job'[w[1]].status = s /\ job'[w[1]].attempt = job[w[1]].attempt
    BY <2>1, <2>3 DEF VoiceInv, Types, JobStatuses
  <2>5. job[w[1]].status = "running" /\ job[w[1]].attempt = w[2]
    BY <2>2 DEF Holds, Serves, Is
  <2>6. ASSUME NEW j \in Jobs
        PROVE  /\ job[j].status = "absent" <=> job'[j].status = "absent"
               /\ job'[j].status = "completed" => call[j] = "completed"
               /\ job'[j].status = "pending" => job'[j].attempt < MaxAttempts
    BY <1>2, <2>1, <2>3, <2>4, <2>5
  <2> QED
    BY <1>1, <2>4, <2>6, EndKeeps DEF VoiceInv, Types
<1> QED
  BY <1>3, <1>4


\* A handler moves on its own.
LEMMA MoveKeeps ==
  ASSUME VoiceInv, NEW w \in DOMAIN work, NEW place \in Places, Step(w, place),
         UNCHANGED <<job, call, audio, Decisions, launches>>, file' \in [Bytes -> BOOLEAN],
         \/ place \in {"ready", "stored", "failing"} /\ w[1] \in Jobs
         \/ At(w, "returned") /\ place = "looked"
         \/ At(w, "looked") /\ place = "rolled back",
         place = "stored" => call[w[1]] = "completed"
  PROVE  VoiceInv'
<1>1. /\ DOMAIN work' = DOMAIN work
      /\ work' \in [DOMAIN work' -> [at : Places, bytes : Bytes \cup {None}]]
      /\ work'[w].at = place /\ work'[w].bytes = work[w].bytes
      /\ \A v \in DOMAIN work : v # w => work'[v] = work[v]
  BY StepMoves DEF VoiceInv
<1>2. Placed(w)
  BY DEF VoiceInv, AllPlaced
<1>3. Placed(w)'
  BY <1>1, <1>2 DEF Placed, Sending, Importing, At
<1>4. AllPlaced'
  <2> SUFFICES ASSUME NEW v \in DOMAIN work' PROVE Placed(v)'
    BY DEF AllPlaced
  <2>1. CASE v # w
    BY <2>1, <1>1, Unmoved
  <2> QED
    BY <2>1, <1>3
<1>5. NoNewSender
  BY <1>1 DEF NoNewSender, Sending, At
<1>6. OnceClaimed'
  BY DEF VoiceInv, OnceClaimed
<1>7. \A j \in Jobs : /\ job[j].status = "completed" => call[j] = "completed"
                      /\ job[j].status = "pending" => job[j].attempt < MaxAttempts
  BY DEF VoiceInv, AllAgree, Agrees
<1> QED
  BY <1>1, <1>4, <1>5, <1>6, <1>7, CalmKeeps DEF VoiceInv, Types

\* Who is answered has a completed call.
LEMMA AnswerCompleted ==
  ASSUME NEW w, Answerable(w)
  PROVE  call[w[1]] = "completed"
BY DEF Answerable, Replayable, Retained

LEMMA DispatchKeeps ==
  ASSUME VoiceInv, NEW w \in DOMAIN work, Dispatch(w)
  PROVE  VoiceInv'
<1>1. w[1] \in Jobs
  BY DEF VoiceInv, AllPlaced, Placed, Dispatch, At, Importing
<1>2. UNCHANGED <<job, call, audio, file, Decisions, launches>>
  BY DEF Dispatch, Rest, Library
<1> QED
  BY <1>1, <1>2, MoveKeeps, AnswerCompleted DEF Dispatch, Places, VoiceInv, Types

LEMMA LookKeeps ==
  ASSUME VoiceInv, NEW w \in DOMAIN work, Look(w)
  PROVE  VoiceInv'
<1>1. UNCHANGED <<job, call, audio, file, Decisions, launches>>
  BY DEF Look, Rest, Library
<1> QED
  BY <1>1, MoveKeeps DEF Look, Places, VoiceInv, Types

LEMMA UploadKeeps ==
  ASSUME VoiceInv, NEW w \in Uploads, NEW b \in Bytes, Upload(w, b)
  PROVE  VoiceInv'
<1>1. /\ Begin(w, "returned", b) /\ UNCHANGED <<job, call, audio, file, Decisions, launches>>
      /\ w[1] = User /\ w \notin DOMAIN work
  BY Kinds DEF Upload, Rest, Library
<1>2. /\ DOMAIN work' = DOMAIN work \cup {w}
      /\ work' \in [DOMAIN work' -> [at : Places, bytes : Bytes \cup {None}]]
      /\ work'[w].at = "returned" /\ work'[w].bytes = b
      /\ \A v \in DOMAIN work' : v # w => v \in DOMAIN work /\ work'[v] = work[v]
  BY <1>1, BeginMoves DEF Places, VoiceInv
<1>3. Placed(w)'
  BY <1>1, <1>2, Kinds DEF Placed, Importing, Sending
<1>4. AllPlaced'
  <2> SUFFICES ASSUME NEW v \in DOMAIN work' PROVE Placed(v)'
    BY DEF AllPlaced
  <2>1. CASE v # w
    BY <2>1, <1>1, <1>2, Unmoved
  <2> QED
    BY <2>1, <1>3
<1>5. NoNewSender
  BY <1>1, <1>2, Kinds DEF NoNewSender
<1>6. OnceClaimed'
  BY <1>1 DEF VoiceInv, OnceClaimed
<1>7. \A j \in Jobs : /\ job[j].status = "completed" => call[j] = "completed"
                      /\ job[j].status = "pending" => job[j].attempt < MaxAttempts
  BY DEF VoiceInv, AllAgree, Agrees
<1> QED
  BY <1>1, <1>2, <1>4, <1>5, <1>6, <1>7, CalmKeeps DEF VoiceInv, Types

-----------------------------------------------------------------------------
(* Steps of the sender of a job                                            *)

\* The other handlers are not disturbed by the sender's own call, child and row.
LEMMA OthersPlaced ==
  ASSUME VoiceInv, NEW w \in DOMAIN work, w[1] \in Jobs, work[w].at \in Sending, job' = job,
         \A j \in Jobs : j # w[1] => call'[j] = call[j] /\ launches'[j] = launches[j],
         RowsStay(w[1]),
         NEW v \in DOMAIN work, v \in DOMAIN work', v # w, work'[v] = work[v]
  PROVE  Placed(v)'
<1>1. CASE v[1] = w[1]
  BY <1>1, Alone, PlacedStays DEF VoiceInv
<1>2. CASE v[1] # w[1]
  BY <1>2, PlacedStays DEF VoiceInv
<1> QED
  BY <1>1, <1>2

\* A sender still on its way, or one that ends, is the only one.
LEMMA NoNewSenderStep ==
  ASSUME NEW w \in DOMAIN work, work[w].at \in Sending, DOMAIN work' \subseteq DOMAIN work,
         \A v \in DOMAIN work' : v # w => work'[v] = work[v]
  PROVE  NoNewSender
BY DEF NoNewSender

\* Only scopes of rows that are no draft's change.
ScopesOnly ==
    /\ audio' \in [Bytes -> [by : Drafts \cup {User, None}, scope : SUBSET Grants, verdict : Verdicts]]
    /\ \A b \in Bytes :
          /\ audio'[b].by = audio[b].by /\ audio'[b].verdict = audio[b].verdict
          /\ audio[b].by # User => audio'[b].scope = audio[b].scope

LEMMA ScopesSame ==
  ASSUME VoiceInv, audio' = audio
  PROVE  ScopesOnly
BY DEF ScopesOnly, VoiceInv, Types

LEMMA FailKeeps ==
  ASSUME VoiceInv, NEW w \in DOMAIN work, w[1] \in Jobs,
         work[w].at \in Sending \ {"imported"}, Fail(w), ScopesOnly,
         UNCHANGED <<job, Decisions, launches>>, file' \in [Bytes -> BOOLEAN]
  PROVE  VoiceInv'
<1>1. /\ DOMAIN work' = DOMAIN work
      /\ work' \in [DOMAIN work' -> [at : Places, bytes : Bytes \cup {None}]]
      /\ work'[w].at = "failing" /\ work'[w].bytes = work[w].bytes
      /\ \A v \in DOMAIN work : v # w => work'[v] = work[v]
  BY StepMoves DEF VoiceInv, Fail, Places
<1>2. /\ call' \in [Jobs -> CallStates] /\ call'[w[1]] = "failed"
      /\ \A j \in Jobs : j # w[1] => call'[j] = call[j]
  BY CallSet DEF VoiceInv, Fail, CallStates
<1>3. Placed(w) /\ call[w[1]] = "running" /\ \A b \in Bytes : audio[b].by # w[1]
  BY DEF VoiceInv, AllPlaced, Placed
<1>4. AllPlaced'
  <2> SUFFICES ASSUME NEW v \in DOMAIN work' PROVE Placed(v)'
    BY DEF AllPlaced
  <2>1. CASE v # w
    <3>1. RowsStay(w[1])
      BY DEF RowsStay, ScopesOnly
    <3> QED
      BY <2>1, <3>1, <1>1, <1>2, OthersPlaced
  <2>2. CASE v = w
    BY <2>2, <1>1, <1>3 DEF Placed, Sending, Importing
  <2> QED
    BY <2>1, <2>2
<1>5. OneSender'
  BY <1>1, NoNewSenderStep, SendersStay DEF VoiceInv
<1>6. AllAgree'
  BY <1>2, <1>3 DEF VoiceInv, AllAgree, Agrees
<1>7. OnceClaimed'
  BY DEF VoiceInv, OnceClaimed
<1>8. AllRows'
  BY <1>2, <1>3, Kinds DEF VoiceInv, AllRows, Row, ScopesOnly
<1>9. Outputs'
  BY <1>2, Kinds DEF VoiceInv, Outputs, ScopesOnly
<1>10. Earned'
  BY <1>2, <1>3, Kinds DEF VoiceInv, Earned, MadeOnce, ScopesOnly, Decisions
<1>11. Types'
  BY <1>1, <1>2 DEF VoiceInv, Types, ScopesOnly, Decisions
<1> QED
  BY <1>4, <1>5, <1>6, <1>7, <1>8, <1>9, <1>10, <1>11 DEF VoiceInv


LEMMA ReserveKeeps ==
  ASSUME VoiceInv, NEW w \in DOMAIN work, Reserve(w)
  PROVE  VoiceInv'
<1>1. w[1] \in Jobs /\ job[w[1]].status # "absent" /\ work[w].at = "ready"
  BY DEF VoiceInv, AllPlaced, Placed, Reserve, At, Importing
<1>2. UNCHANGED <<job, audio, file, Decisions, launches>>
  BY DEF Reserve, Library
<1>3. CASE call[w[1]] = "none" /\ SetCall(w, "running") /\ Step(w, "reserved")
  <2>1. /\ DOMAIN work' = DOMAIN work
        /\ work' \in [DOMAIN work' -> [at : Places, bytes : Bytes \cup {None}]]
        /\ work'[w].at = "reserved" /\ work'[w].bytes = work[w].bytes
        /\ \A v \in DOMAIN work : v # w => work'[v] = work[v]
    BY <1>3, StepMoves DEF VoiceInv, Places
  <2>2. /\ call' \in [Jobs -> CallStates] /\ call'[w[1]] = "running"
        /\ \A j \in Jobs : j # w[1] => call'[j] = call[j]
    BY <1>1, <1>3, CallSet DEF VoiceInv, CallStates
  <2>3. launches[w[1]] = 0 /\ \A b \in Bytes : audio[b].by # w[1]
    <3>1. launches[w[1]] = 0
      BY <1>1, <1>3 DEF VoiceInv, AllAgree, Agrees
    <3>2. \A b \in Bytes : audio[b].by \in Drafts \cup {User, None}
      BY DEF VoiceInv, Types
    <3>3. \A b \in Bytes : audio[b].by \in Drafts => launches[audio[b].by] = 1
      BY DEF VoiceInv, AllRows, Row
    <3> QED
      BY <1>1, <3>1, <3>2, <3>3, EvaluationVoiceAssumption
  <2>4. ASSUME NEW v \in DOMAIN work, v[1] = w[1]
        PROVE  work[v].at \notin Sending \cup {"stored"}
    <3>1. work[v].at \in Sending => call[v[1]] = "running"
      BY <1>1, <2>4 DEF VoiceInv, AllPlaced, Placed
    <3>2. work[v].at = "stored" => call[v[1]] = "completed"
      BY DEF VoiceInv, AllPlaced, Placed
    <3> QED
      BY <1>3, <2>4, <3>1, <3>2
  <2>5. AllPlaced'
    <3> SUFFICES ASSUME NEW v \in DOMAIN work' PROVE Placed(v)'
      BY DEF AllPlaced
    <3>1. RowsStay(w[1])
      BY <1>2 DEF RowsStay
    <3>2. CASE v # w /\ v[1] = w[1]
      BY <1>2, <2>1, <2>4, <3>1, <3>2, PlacedStays DEF VoiceInv
    <3>3. CASE v[1] # w[1]
      BY <1>2, <2>1, <2>2, <3>1, <3>3, PlacedStays DEF VoiceInv
    <3>4. CASE v = w
      BY <1>1, <1>2, <2>1, <2>2, <2>3, <3>4 DEF Placed, Sending, Importing
    <3> QED
      BY <3>2, <3>3, <3>4
  <2>6. OneSender'
    <3> SUFFICES ASSUME NEW u \in DOMAIN work', NEW v \in DOMAIN work', v[1] = u[1], v[1] \in Jobs,
                        work'[u].at \in Sending, work'[v].at \in Sending
                 PROVE  u = v
      BY DEF OneSender
    <3>1. CASE u = w \/ v = w
      BY <2>1, <2>4, <3>1
    <3>2. CASE u # w /\ v # w
      BY <2>1, <3>2 DEF VoiceInv, OneSender
    <3> QED
      BY <3>1, <3>2
  <2>7. AllAgree'
    BY <1>1, <1>2, <2>2, <2>3 DEF VoiceInv, AllAgree, Agrees
  <2>8. OnceClaimed'
    BY <1>2 DEF VoiceInv, OnceClaimed
  <2>9. AllRows' /\ Outputs' /\ Earned'
    BY <1>2, <1>3, <2>2, <2>3, Kinds
    DEF VoiceInv, AllRows, Row, Outputs, Earned, MadeOnce, Decisions
  <2>10. Types'
    BY <1>2, <2>1, <2>2 DEF VoiceInv, Types, Decisions
  <2> QED
    BY <2>5, <2>6, <2>7, <2>8, <2>9, <2>10 DEF VoiceInv
<1>4. CASE Answerable(w) /\ Step(w, "stored") /\ UNCHANGED call
  BY <1>1, <1>2, <1>4, AnswerCompleted, MoveKeeps DEF Places, VoiceInv, Types
<1>5. CASE Step(w, "failing") /\ UNCHANGED call
  BY <1>1, <1>2, <1>5, MoveKeeps DEF Places, VoiceInv, Types
<1> QED
  BY <1>3, <1>4, <1>5 DEF Reserve

LEMMA LaunchKeeps ==
  ASSUME VoiceInv, NEW w \in DOMAIN work, Launch(w)
  PROVE  VoiceInv'
<1>1. w[1] \in Jobs /\ work[w].at = "cleared" /\ work[w].at \in Sending \ {"imported"}
  BY DEF VoiceInv, AllPlaced, Placed, Launch, At, Importing, Sending
<1>2. UNCHANGED <<job, audio, file, Decisions>>
  BY DEF Launch, Library
<1>3. /\ call[w[1]] = "running" /\ launches[w[1]] = 0
      /\ \A b \in Bytes : audio[b].by # w[1]
  BY <1>1 DEF VoiceInv, AllPlaced, Placed
<1>4. CASE launches' = [launches EXCEPT ![w[1]] = @ + 1] /\ Step(w, "launched") /\ UNCHANGED call
  <2>1. /\ DOMAIN work' = DOMAIN work
        /\ work' \in [DOMAIN work' -> [at : Places, bytes : Bytes \cup {None}]]
        /\ work'[w].at = "launched" /\ work'[w].bytes = work[w].bytes
        /\ \A v \in DOMAIN work : v # w => work'[v] = work[v]
    BY <1>4, StepMoves DEF VoiceInv, Places
  <2>2. /\ launches' \in [Jobs -> Nat] /\ launches'[w[1]] = 1
        /\ \A i \in Jobs : i # w[1] => launches'[i] = launches[i]
    BY <1>1, <1>3, <1>4, LaunchSet DEF VoiceInv
  <2>3. Placed(w)'
    <3>1. job[w[1]].status # "absent"
      BY <1>1 DEF VoiceInv, AllPlaced, Placed
    <3> QED
      BY <1>1, <1>2, <1>3, <1>4, <2>1, <2>2, <3>1 DEF Placed, Sending, Importing
  <2>4. AllPlaced'
    <3> SUFFICES ASSUME NEW v \in DOMAIN work' PROVE Placed(v)'
      BY DEF AllPlaced
    <3>1. RowsStay(w[1])
      BY <1>2 DEF RowsStay
    <3>2. CASE v # w
      BY <1>1, <1>2, <1>4, <2>1, <2>2, <3>1, <3>2, OthersPlaced
    <3> QED
      BY <3>2, <2>3
  <2>5. OneSender'
    BY <1>1, <2>1, NoNewSenderStep, SendersStay DEF VoiceInv
  <2>6. AllAgree'
    BY <1>2, <1>3, <1>4, <2>2 DEF VoiceInv, AllAgree, Agrees
  <2>7. OnceClaimed' /\ Outputs' /\ Earned'
    BY <1>2, <1>4 DEF VoiceInv, OnceClaimed, Outputs, Earned, MadeOnce, Decisions
  <2>8. AllRows'
    BY <1>2, <1>4, <2>2, Kinds DEF VoiceInv, AllRows, Row
  <2>9. Types'
    BY <1>2, <1>4, <2>1, <2>2 DEF VoiceInv, Types, Decisions
  <2> QED
    BY <2>4, <2>5, <2>6, <2>7, <2>8, <2>9 DEF VoiceInv
<1>5. CASE Fail(w) /\ UNCHANGED launches
  BY <1>1, <1>2, <1>5, FailKeeps, ScopesSame DEF VoiceInv, Types
<1> QED
  BY <1>4, <1>5 DEF Launch

\* The sender moves on, its call as before.
LEMMA SenderMoves ==
  ASSUME VoiceInv, NEW w \in DOMAIN work, w[1] \in Jobs, work[w].at \in Sending,
         UNCHANGED <<job, call, audio, file, Decisions, launches>>,
         DOMAIN work' = DOMAIN work, work' \in [DOMAIN work' -> [at : Places, bytes : Bytes \cup {None}]],
         \A v \in DOMAIN work : v # w => work'[v] = work[v],
         Placed(w)'
  PROVE  VoiceInv'
<1>1. AllPlaced'
  <2> SUFFICES ASSUME NEW v \in DOMAIN work' PROVE Placed(v)'
    BY DEF AllPlaced
  <2>1. CASE v # w
    BY <2>1, Unmoved
  <2> QED
    BY <2>1
<1>2. NoNewSender
  BY NoNewSenderStep
<1>3. OnceClaimed'
  BY DEF VoiceInv, OnceClaimed
<1>4. \A j \in Jobs : /\ job[j].status = "completed" => call[j] = "completed"
                      /\ job[j].status = "pending" => job[j].attempt < MaxAttempts
  BY DEF VoiceInv, AllAgree, Agrees
<1> QED
  BY <1>1, <1>2, <1>3, <1>4, CalmKeeps DEF VoiceInv, Types

\* The last look lets the sender on, or ends its call.
LEMMA ClearKeeps ==
  ASSUME VoiceInv, NEW w \in DOMAIN work, Clear(w)
  PROVE  VoiceInv'
<1>1. Placed(w) /\ w[1] \in Jobs /\ work[w].at = "reserved" /\ work[w].at \in Sending \ {"imported"}
  BY DEF VoiceInv, AllPlaced, Placed, Clear, At, Importing, Sending
<1>2. UNCHANGED <<job, audio, file, Decisions, launches>>
  BY DEF Clear, Library
<1>3. CASE Step(w, "cleared") /\ UNCHANGED call
  <2>1. /\ DOMAIN work' = DOMAIN work
        /\ work' \in [DOMAIN work' -> [at : Places, bytes : Bytes \cup {None}]]
        /\ work'[w].at = "cleared"
        /\ \A v \in DOMAIN work : v # w => work'[v] = work[v]
    BY <1>3, StepMoves DEF VoiceInv, Places
  <2>2. Placed(w)'
    BY <1>1, <1>2, <1>3, <2>1 DEF Placed, Sending, Importing
  <2> QED
    BY <1>1, <1>2, <1>3, <2>1, <2>2, SenderMoves
<1>4. CASE Fail(w)
  BY <1>1, <1>2, <1>4, FailKeeps, ScopesSame DEF VoiceInv, Types
<1> QED
  BY <1>3, <1>4 DEF Clear

LEMMA ReturnKeeps ==
  ASSUME VoiceInv, NEW w \in DOMAIN work, Return(w)
  PROVE  VoiceInv'
<1>1. Placed(w) /\ w[1] \in Jobs /\ work[w].at = "launched"
  BY DEF VoiceInv, AllPlaced, Placed, Return, At, Importing
<1>2. UNCHANGED <<job, audio, file, Decisions, launches>>
  BY DEF Return, Library
<1>3. work[w].at \in Sending \ {"imported"}
  BY <1>1 DEF Sending
<1>4. ASSUME w[1] \in Drafts, NEW b \in Bytes, Begin(w, "returned", b), UNCHANGED call
      PROVE  VoiceInv'
  <2>1. /\ DOMAIN work' = DOMAIN work
        /\ work' \in [DOMAIN work' -> [at : Places, bytes : Bytes \cup {None}]]
        /\ work'[w].at = "returned" /\ work'[w].bytes = b
        /\ \A v \in DOMAIN work : v # w => work'[v] = work[v]
    <3>1. "returned" \in Places /\ b \in Bytes \cup {None} /\ Types
      BY DEF VoiceInv, Places
    <3>2. /\ DOMAIN work' = DOMAIN work \cup {w}
          /\ work' \in [DOMAIN work' -> [at : Places, bytes : Bytes \cup {None}]]
          /\ work'[w].at = "returned" /\ work'[w].bytes = b
          /\ \A v \in DOMAIN work' : v # w => v \in DOMAIN work /\ work'[v] = work[v]
      BY <1>4, <3>1, BeginMoves
    <3>3. DOMAIN work \cup {w} = DOMAIN work
      OBVIOUS
    <3> QED
      BY <3>2, <3>3
  <2>2. Placed(w)'
    <3>1. /\ call[w[1]] = "running" /\ launches[w[1]] = 1 /\ job[w[1]].status # "absent"
          /\ \A c \in Bytes : audio[c].by # w[1]
      BY <1>1, <1>3 DEF Placed
    <3>2. w[1] \notin Bytes
      BY <1>4, Kinds
    <3> QED
      BY <1>1, <1>2, <1>4, <2>1, <3>1, <3>2 DEF Placed, Importing
  <2> QED
    BY <1>1, <1>2, <1>3, <1>4, <2>1, <2>2, SenderMoves
<1>5. CASE w[1] \in Bytes /\ Step(w, "checked") /\ UNCHANGED call
  <2>1. /\ DOMAIN work' = DOMAIN work
        /\ work' \in [DOMAIN work' -> [at : Places, bytes : Bytes \cup {None}]]
        /\ work'[w].at = "checked"
        /\ \A v \in DOMAIN work : v # w => work'[v] = work[v]
    BY <1>5, StepMoves DEF VoiceInv, Places
  <2>2. Placed(w)'
    BY <1>1, <1>2, <1>5, <2>1 DEF Placed, Sending, Importing
  <2> QED
    BY <1>1, <1>2, <1>3, <1>5, <2>1, <2>2, SenderMoves
<1>6. CASE Fail(w)
  BY <1>1, <1>2, <1>3, <1>6, FailKeeps, ScopesSame DEF VoiceInv, Types
<1> QED
  BY <1>4, <1>5, <1>6 DEF Return


LEMMA StoreVerdictKeeps ==
  ASSUME VoiceInv, NEW w \in DOMAIN work, StoreVerdict(w)
  PROVE  VoiceInv'
<1>1. /\ Placed(w) /\ w[1] \in Bytes /\ w[1] \in Jobs /\ work[w].at = "checked"
      /\ work[w].at \in Sending
  BY Kinds DEF VoiceInv, AllPlaced, Placed, StoreVerdict, At, Sending
<1>2. UNCHANGED <<job, file, Decisions, launches>>
  BY DEF StoreVerdict
<1>3. CASE Step(w, "failing") /\ UNCHANGED <<audio, call>>
  BY <1>1, <1>2, <1>3, MoveKeeps DEF Places, VoiceInv, Types
<1>4. ASSUME NEW v \in {"verified", "rejected"}, audio' = [audio EXCEPT ![w[1]].verdict = v],
             SetCall(w, "completed"), Step(w, "stored")
      PROVE  VoiceInv'
  <2>1. /\ DOMAIN work' = DOMAIN work
        /\ work' \in [DOMAIN work' -> [at : Places, bytes : Bytes \cup {None}]]
        /\ work'[w].at = "stored" /\ work'[w].bytes = work[w].bytes
        /\ \A u \in DOMAIN work : u # w => work'[u] = work[u]
    BY <1>4, StepMoves DEF VoiceInv, Places
  <2>2. /\ call' \in [Jobs -> CallStates] /\ call'[w[1]] = "completed"
        /\ \A j \in Jobs : j # w[1] => call'[j] = call[j]
    BY <1>1, <1>4, CallSet DEF VoiceInv, CallStates
  <2>3. call[w[1]] = "running" /\ launches[w[1]] = 1 /\ job[w[1]].status # "absent"
    BY <1>1 DEF Placed
  <2>4. /\ audio' \in [Bytes -> [by : Drafts \cup {User, None}, scope : SUBSET Grants, verdict : Verdicts]]
        /\ \A b \in Bytes : audio'[b].by = audio[b].by /\ audio'[b].scope = audio[b].scope
        /\ \A b \in Bytes : b # w[1] => audio'[b].verdict = audio[b].verdict
    <3> DEFINE Rec == [by : Drafts \cup {User, None}, scope : SUBSET Grants, verdict : Verdicts]
               row == audio[w[1]]
               new == [row EXCEPT !.verdict = v]
    <3>1. audio \in [Bytes -> Rec] /\ row \in Rec
      BY <1>1 DEF VoiceInv, Types
    <3>2. v \in Verdicts
      BY DEF Verdicts
    <3>3. new \in Rec /\ new.by = row.by /\ new.scope = row.scope
      <4> HIDE DEF row
      <4> QED
        BY <3>1, <3>2
    <3>4. audio' = [audio EXCEPT ![w[1]] = new]
      BY <1>4
    <3> HIDE DEF new, Rec
    <3> QED
      BY <1>1, <3>1, <3>3, <3>4 DEF Rec
  <2>5. Placed(w)'
    BY <1>1, <1>2, <2>1, <2>2, <2>3 DEF Placed, Sending, Importing
  <2>6. AllPlaced'
    <3> SUFFICES ASSUME NEW u \in DOMAIN work' PROVE Placed(u)'
      BY DEF AllPlaced
    <3>1. RowsStay(w[1])
      BY <2>4 DEF RowsStay
    <3>2. CASE u # w
      BY <1>1, <1>2, <2>1, <2>2, <3>1, <3>2, OthersPlaced
    <3> QED
      BY <3>2, <2>5
  <2>7. OneSender'
    BY <1>1, <2>1, NoNewSenderStep, SendersStay DEF VoiceInv
  <2>8. AllAgree'
    BY <1>2, <2>2, <2>3 DEF VoiceInv, AllAgree, Agrees
  <2>9. OnceClaimed'
    BY <1>2 DEF VoiceInv, OnceClaimed
  <2>10. AllRows'
    BY <1>1, <1>2, <2>2, <2>4, Kinds DEF VoiceInv, AllRows, Row
  <2>11. Outputs'
    BY <1>1, <2>2, <2>4, Kinds DEF VoiceInv, Outputs
  <2>12. Earned'
    BY <1>1, <1>2, <2>2, <2>3, <2>4, Kinds DEF VoiceInv, Earned, MadeOnce, Decisions
  <2>13. Types'
    BY <1>2, <2>1, <2>2, <2>4 DEF VoiceInv, Types, Decisions
  <2> QED
    BY <2>6, <2>7, <2>8, <2>9, <2>10, <2>11, <2>12, <2>13 DEF VoiceInv
<1> QED
  BY <1>3, <1>4 DEF StoreVerdict

LEMMA StoreRecordingKeeps ==
  ASSUME VoiceInv, NEW w \in DOMAIN work, StoreRecording(w)
  PROVE  VoiceInv'
<1>1. /\ Placed(w) /\ w[1] \in Drafts /\ w[1] \in Jobs /\ work[w].at = "imported"
      /\ work[w].at \in Sending /\ work[w].bytes \in Bytes /\ audio[work[w].bytes].by = w[1]
  BY Kinds DEF VoiceInv, AllPlaced, Placed, StoreRecording, At, Sending, Importing
<1>2. UNCHANGED <<job, audio, file, Decisions, launches>>
  BY DEF StoreRecording, Library
<1>3. /\ DOMAIN work' = DOMAIN work
      /\ work' \in [DOMAIN work' -> [at : Places, bytes : Bytes \cup {None}]]
      /\ work'[w].at = "stored" /\ work'[w].bytes = work[w].bytes
      /\ \A u \in DOMAIN work : u # w => work'[u] = work[u]
  BY StepMoves DEF VoiceInv, Places, StoreRecording
<1>4. /\ call' \in [Jobs -> CallStates] /\ call'[w[1]] = "completed"
      /\ \A j \in Jobs : j # w[1] => call'[j] = call[j]
  BY <1>1, CallSet DEF VoiceInv, CallStates, StoreRecording
<1>5. call[w[1]] = "running" /\ launches[w[1]] = 1 /\ job[w[1]].status # "absent"
  BY <1>1 DEF Placed
<1>6. AllPlaced'
  <2> SUFFICES ASSUME NEW u \in DOMAIN work' PROVE Placed(u)'
    BY DEF AllPlaced
  <2>1. RowsStay(w[1])
    BY <1>2 DEF RowsStay
  <2>2. CASE u # w
    BY <1>1, <1>2, <1>3, <1>4, <2>1, <2>2, OthersPlaced
  <2>3. CASE u = w
    BY <2>3, <1>1, <1>2, <1>3, <1>4, <1>5 DEF Placed, Sending, Importing
  <2> QED
    BY <2>2, <2>3
<1>7. OneSender'
  BY <1>1, <1>3, NoNewSenderStep, SendersStay DEF VoiceInv
<1>8. AllAgree'
  BY <1>2, <1>4, <1>5 DEF VoiceInv, AllAgree, Agrees
<1>9. OnceClaimed'
  BY <1>2 DEF VoiceInv, OnceClaimed
<1>10. AllRows'
  BY <1>1, <1>2, <1>4, Kinds DEF VoiceInv, AllRows, Row
<1>11. Outputs'
  BY <1>1, <1>2, <1>4, Kinds DEF VoiceInv, Outputs
<1>12. Earned'
  BY <1>1, <1>2, <1>4, <1>5, Kinds DEF VoiceInv, Earned, MadeOnce, Decisions
<1>13. Types'
  BY <1>2, <1>3, <1>4 DEF VoiceInv, Types, Decisions
<1> QED
  BY <1>6, <1>7, <1>8, <1>9, <1>10, <1>11, <1>12, <1>13 DEF VoiceInv


-----------------------------------------------------------------------------
(* Imports, of a draft or of a user                                        *)

\* An import that ends without a row ends its call, if it is a draft's.
LEMMA RefuseKeeps ==
  ASSUME VoiceInv, NEW w \in DOMAIN work, work[w].at \in Importing \ {"imported"}, Refuse(w),
         ScopesOnly, w[1] \notin Drafts => audio' = audio,
         UNCHANGED <<job, Decisions, launches>>, file' \in [Bytes -> BOOLEAN]
  PROVE  VoiceInv'
<1>1. CASE w[1] \in Drafts
  <2>1. w[1] \in Jobs /\ work[w].at \in Sending \ {"imported"}
    BY <1>1, Kinds DEF Sending, Importing
  <2> QED
    BY <1>1, <2>1, FailKeeps DEF Refuse
<1>2. CASE w[1] \notin Drafts
  <2>1. \A j \in Jobs : /\ job[j].status = "completed" => call[j] = "completed"
                        /\ job[j].status = "pending" => job[j].attempt < MaxAttempts
    BY DEF VoiceInv, AllAgree, Agrees
  <2>2. End(w) /\ UNCHANGED call
    BY <1>2 DEF Refuse
  <2> QED
    BY <1>2, <2>1, <2>2, EndKeeps DEF VoiceInv, Types
<1> QED
  BY <1>1, <1>2

LEMMA AdoptKeeps ==
  ASSUME VoiceInv, NEW w \in DOMAIN work, Adopt(w)
  PROVE  VoiceInv'
<1> DEFINE b == work[w].bytes
<1>1. work[w].at \in Importing \ {"imported"} /\ Placed(w) /\ b \in Bytes
  BY DEF VoiceInv, AllPlaced, Placed, Adopt, At, Importing
<1>2. UNCHANGED <<job, file, Decisions, launches>> /\ Refuse(w)
  BY DEF Adopt
<1>3. w[1] \notin Drafts => audio' = audio
  BY DEF Adopt
<1>4. ASSUME w[1] \in Drafts, Registrable(w), audio' = [audio EXCEPT ![b].scope = Merged(w)]
      PROVE  ScopesOnly
  <2>1. audio[b].by # None /\ audio[b].by \in Drafts \cup {User} /\ audio[b].scope \in SUBSET Grants
    BY <1>1 DEF Adopt, Present, VoiceInv, Types
  <2>2. Merged(w) \in SUBSET Grants
    BY <1>4, <2>1, Kinds DEF Merged
  <2>3. audio[b].by \in Drafts => audio[b].scope = Merged(w)
    <3>1. audio[b].by \in Drafts => audio[b].scope = {GrantOf[audio[b].by]}
      BY <1>1 DEF VoiceInv, AllRows, Row
    <3> QED
      BY <1>4, <3>1 DEF Registrable
  <2> DEFINE Rec == [by : Drafts \cup {User, None}, scope : SUBSET Grants, verdict : Verdicts]
             row == audio[b]
             new == [row EXCEPT !.scope = Merged(w)]
  <2>4. audio \in [Bytes -> Rec] /\ row \in Rec
    BY <1>1 DEF VoiceInv, Types
  <2>5. new \in Rec /\ new.by = row.by /\ new.verdict = row.verdict /\ new.scope = Merged(w)
    <3> HIDE DEF row
    <3> QED
      BY <2>2, <2>4
  <2>6. audio' = [audio EXCEPT ![b] = new]
    BY <1>4
  <2>7. row = audio[b]
    OBVIOUS
  <2> HIDE DEF new, Rec, b, row
  <2>8. audio' \in [Bytes -> Rec] /\ audio'[b] = new /\ \A c \in Bytes : c # b => audio'[c] = audio[c]
    BY <1>1, <2>4, <2>5, <2>6
  <2> QED
    BY <1>1, <2>1, <2>3, <2>5, <2>7, <2>8 DEF ScopesOnly, Rec
<1>5. ScopesOnly
  BY <1>4, ScopesSame DEF Adopt
<1> QED
  BY <1>1, <1>2, <1>3, <1>5, RefuseKeeps DEF VoiceInv, Types

LEMMA CleanUpKeeps ==
  ASSUME VoiceInv, NEW w \in DOMAIN work, CleanUp(w)
  PROVE  VoiceInv'
<1>1. work[w].at \in Importing \ {"imported"} /\ Refuse(w)
  BY DEF CleanUp, At, Importing
<1>2. UNCHANGED <<job, audio, Decisions, launches>>
  BY DEF CleanUp
<1>3. file' \in [Bytes -> BOOLEAN]
  BY DEF CleanUp, VoiceInv, Types
<1> QED
  BY <1>1, <1>2, <1>3, ScopesSame, RefuseKeeps

\* What an import adds to the library.
NewRow(who, scope, verdict) == [by |-> who, scope |-> scope, verdict |-> verdict]

LEMMA RowAdded ==
  ASSUME VoiceInv, NEW b \in Bytes, NEW row,
         row \in [by : Drafts \cup {User, None}, scope : SUBSET Grants, verdict : Verdicts],
         audio' = [audio EXCEPT ![b] = row]
  PROVE  /\ audio' \in [Bytes -> [by : Drafts \cup {User, None}, scope : SUBSET Grants, verdict : Verdicts]]
         /\ audio'[b] = row /\ \A c \in Bytes : c # b => audio'[c] = audio[c]
BY DEF VoiceInv, Types

\* A row that is nobody's yet is no reviewed one.
LEMMA NewUnreviewed ==
  ASSUME VoiceInv, NEW b \in Bytes, audio[b].by = None
  PROVE  review[b] = "none" /\ run[b].by = None
<1>1. ~MadeOnce(b)
  BY Kinds DEF MadeOnce
<1>2. review[b] = "none"
  BY <1>1 DEF VoiceInv, Earned
<1> QED
  BY <1>2 DEF VoiceInv, Earned

LEMMA PlaceOwn ==
  ASSUME VoiceInv, NEW w \in DOMAIN work, w[1] \in Drafts, work[w].at = "looked",
         NEW b \in Bytes, b = work[w].bytes, audio[b].by = None,
         audio' = [audio EXCEPT ![b] = NewRow(w[1], {GrantOf[w[1]]}, "pending")],
         file' \in [Bytes -> BOOLEAN], Step(w, "imported"), UNCHANGED <<job, call, Decisions, launches>>
  PROVE  VoiceInv'
<1>1. /\ w[1] \in Jobs /\ work[w].at \in Sending /\ Placed(w)
  BY Kinds DEF Sending, VoiceInv, AllPlaced
<1>2. /\ DOMAIN work' = DOMAIN work
      /\ work' \in [DOMAIN work' -> [at : Places, bytes : Bytes \cup {None}]]
      /\ work'[w].at = "imported" /\ work'[w].bytes = b
      /\ \A v \in DOMAIN work : v # w => work'[v] = work[v]
  BY StepMoves DEF VoiceInv, Places
<1>3. /\ audio' \in [Bytes -> [by : Drafts \cup {User, None}, scope : SUBSET Grants, verdict : Verdicts]]
      /\ audio'[b].by = w[1] /\ audio'[b].scope = {GrantOf[w[1]]} /\ audio'[b].verdict = "pending"
      /\ \A c \in Bytes : c # b => audio'[c] = audio[c]
  <2>1. NewRow(w[1], {GrantOf[w[1]]}, "pending")
          \in [by : Drafts \cup {User, None}, scope : SUBSET Grants, verdict : Verdicts]
    BY Kinds DEF NewRow, Verdicts
  <2> QED
    BY <2>1, RowAdded DEF NewRow
<1>4. /\ call[w[1]] = "running" /\ launches[w[1]] = 1 /\ job[w[1]].status # "absent"
      /\ \A c \in Bytes : audio[c].by # w[1]
  BY <1>1 DEF Placed
<1>5. AllPlaced'
  <2> SUFFICES ASSUME NEW v \in DOMAIN work' PROVE Placed(v)'
    BY DEF AllPlaced
  <2>1. RowsStay(w[1])
    BY <1>3 DEF RowsStay
  <2>2. CASE v # w
    BY <1>1, <1>2, <2>1, <2>2, OthersPlaced
  <2>3. CASE v = w
    BY <2>3, <1>1, <1>2, <1>3, <1>4, Kinds DEF Placed, Importing
  <2> QED
    BY <2>2, <2>3
<1>6. OneSender'
  BY <1>1, <1>2, NoNewSenderStep, SendersStay DEF VoiceInv
<1>7. AllAgree' /\ OnceClaimed'
  BY DEF VoiceInv, AllAgree, Agrees, OnceClaimed
<1>8. AllRows'
  BY <1>3, <1>4, Kinds DEF VoiceInv, AllRows, Row
<1>9. Outputs'
  <2>1. \A d \in Drafts : call'[d] = "completed" => \E c \in Bytes : audio'[c].by = d
    <3> SUFFICES ASSUME NEW d \in Drafts, call[d] = "completed"
                 PROVE  \E c \in Bytes : audio'[c].by = d
      OBVIOUS
    <3>1. PICK c \in Bytes : audio[c].by = d
      BY DEF VoiceInv, Outputs
    <3>2. c # b
      BY <3>1, Kinds
    <3> QED
      BY <1>3, <3>1, <3>2
  <2>2. ASSUME NEW d \in Drafts, NEW c \in Bytes, NEW e \in Bytes, audio'[c].by = d, audio'[e].by = d
        PROVE  c = e
    <3>1. CASE d = w[1]
      BY <1>3, <1>4, <2>2, <3>1
    <3>2. CASE d # w[1]
      <4>1. c # b /\ e # b
        BY <1>3, <2>2, <3>2
      <4>2. audio[c].by = d /\ audio[e].by = d
        BY <1>3, <2>2, <4>1
      <4> QED
        BY <4>2 DEF VoiceInv, Outputs
    <3> QED
      BY <3>1, <3>2
  <2> QED
    BY <2>1, <2>2 DEF Outputs
<1>10. Earned'
  BY <1>3, NewUnreviewed DEF VoiceInv, Earned, MadeOnce, Decisions
<1>11. Types'
  BY <1>2, <1>3 DEF VoiceInv, Types, Decisions
<1> QED
  BY <1>5, <1>6, <1>7, <1>8, <1>9, <1>10, <1>11 DEF VoiceInv

LEMMA PlaceUsers ==
  ASSUME VoiceInv, NEW w \in DOMAIN work, w[1] = User,
         NEW b \in Bytes, audio[b].by = None,
         audio' = [audio EXCEPT ![b] = NewRow(User, {}, "none")],
         file' \in [Bytes -> BOOLEAN], End(w), UNCHANGED <<job, call, Decisions, launches>>
  PROVE  VoiceInv'
<1>1. /\ DOMAIN work' = DOMAIN work \ {w}
      /\ work' \in [DOMAIN work' -> [at : Places, bytes : Bytes \cup {None}]]
      /\ \A v \in DOMAIN work' : v \in DOMAIN work /\ v # w /\ work'[v] = work[v]
  BY EndMoves DEF VoiceInv
<1>2. /\ audio' \in [Bytes -> [by : Drafts \cup {User, None}, scope : SUBSET Grants, verdict : Verdicts]]
      /\ audio'[b].by = User /\ audio'[b].verdict = "none"
      /\ \A c \in Bytes : c # b => audio'[c] = audio[c]
  <2>1. NewRow(User, {}, "none")
          \in [by : Drafts \cup {User, None}, scope : SUBSET Grants, verdict : Verdicts]
    BY DEF NewRow, Verdicts
  <2> QED
    BY <2>1, RowAdded DEF NewRow
<1>3. AllPlaced'
  <2> SUFFICES ASSUME NEW v \in DOMAIN work' PROVE Placed(v)'
    BY DEF AllPlaced
  <2>1. RowsStay(User)
    BY <1>2 DEF RowsStay
  <2>2. User \notin Jobs
    BY Kinds
  <2> QED
    BY <1>1, <2>1, <2>2, PlacedStays DEF VoiceInv
<1>4. NoNewSender
  BY <1>1 DEF NoNewSender
<1>5. OneSender'
  BY <1>4, SendersStay DEF VoiceInv
<1>6. AllAgree' /\ OnceClaimed'
  BY DEF VoiceInv, AllAgree, Agrees, OnceClaimed
<1>7. AllRows'
  BY <1>2, Kinds DEF VoiceInv, AllRows, Row
<1>8. Outputs'
  <2>1. \A c \in Bytes, d \in Drafts : audio'[c].by = d <=> audio[c].by = d
    BY <1>2, Kinds
  <2> QED
    BY <2>1 DEF VoiceInv, Outputs
<1>9. Earned'
  BY <1>2, NewUnreviewed DEF VoiceInv, Earned, MadeOnce, Decisions
<1>10. Types'
  BY <1>1, <1>2 DEF VoiceInv, Types, Decisions
<1> QED
  BY <1>3, <1>5, <1>6, <1>7, <1>8, <1>9, <1>10 DEF VoiceInv

LEMMA PlaceKeeps ==
  ASSUME VoiceInv, NEW w \in DOMAIN work, Place(w)
  PROVE  VoiceInv'
<1> DEFINE b == work[w].bytes
           own == w[1] \in Drafts
<1>1. /\ work[w].at = "looked" /\ work[w].at \in Importing \ {"imported"} /\ Placed(w)
      /\ b \in Bytes /\ w[1] \notin Bytes
  BY DEF VoiceInv, AllPlaced, Placed, Place, At, Importing
<1>2. audio[b].by = None /\ UNCHANGED <<job, Decisions, launches>>
  BY DEF Place, Present
<1>3. own \/ w[1] = User
  <2>1. w \in Attempts \cup Uploads
    BY DEF VoiceInv, Types
  <2> QED
    BY <1>1, <2>1, Kinds DEF Jobs
<1>4. file' \in [Bytes -> BOOLEAN]
  BY DEF Place, Library, VoiceInv, Types
<1>5. ASSUME own => Registrable(w),
             audio' = [audio EXCEPT ![b] =
                [by |-> w[1], scope |-> IF own THEN Merged(w) ELSE {},
                 verdict |-> IF own THEN "pending" ELSE "none"]],
             IF own THEN Step(w, "imported") ELSE End(w), UNCHANGED call
      PROVE  VoiceInv'
  <2>1. CASE own
    <3>1. Merged(w) = {GrantOf[w[1]]}
      <4>1. audio[b].scope = {}
        BY <1>1, <1>2 DEF VoiceInv, AllRows, Row
      <4> QED
        BY <4>1 DEF Merged
    <3>2. audio' = [audio EXCEPT ![b] = NewRow(w[1], {GrantOf[w[1]]}, "pending")]
      BY <1>5, <2>1, <3>1 DEF NewRow
    <3> HIDE DEF b
    <3>3. b = work[w].bytes
      BY DEF b
    <3> QED
      BY <1>1, <1>2, <1>4, <1>5, <2>1, <3>2, <3>3, PlaceOwn
  <2>2. CASE ~own
    <3>1. w[1] = User /\ audio' = [audio EXCEPT ![b] = NewRow(User, {}, "none")] /\ End(w)
      BY <1>3, <1>5, <2>2 DEF NewRow
    <3> HIDE DEF b
    <3> QED
      BY <1>1, <1>2, <1>4, <1>5, <3>1, PlaceUsers
  <2> QED
    BY <2>1, <2>2
<1>6. CASE Refuse(w) /\ UNCHANGED Library
  BY <1>1, <1>2, <1>4, <1>6, ScopesSame, RefuseKeeps DEF Library
<1>7. CASE Step(w, "rolled back") /\ UNCHANGED <<audio, call>>
  BY <1>1, <1>2, <1>4, <1>7, MoveKeeps DEF At, Places
<1> QED
  BY <1>5, <1>6, <1>7 DEF Place

-----------------------------------------------------------------------------
LEMMA VoiceInvInit ==
  EvaluationVoiceInit => VoiceInv
<1> SUFFICES ASSUME EvaluationVoiceInit PROVE VoiceInv
  OBVIOUS
<1>1. DOMAIN work = {}
  BY DEF EvaluationVoiceInit
<1>2. Types
  BY <1>1, EvaluationVoiceAssumption
  DEF EvaluationVoiceInit, Types, JobStatuses, CallStates, Verdicts
<1>3. AllPlaced /\ OneSender
  BY <1>1 DEF AllPlaced, OneSender
<1>4. AllAgree /\ OnceClaimed
  BY EvaluationVoiceAssumption, Kinds DEF EvaluationVoiceInit, AllAgree, Agrees, OnceClaimed
<1>5. AllRows /\ Outputs /\ Earned
  BY Kinds DEF EvaluationVoiceInit, AllRows, Row, Outputs, Earned
<1> QED
  BY <1>2, <1>3, <1>4, <1>5 DEF VoiceInv

LEMMA VoiceInvNext ==
  VoiceInv /\ [EvaluationVoiceNext]_vars => VoiceInv'
<1> SUFFICES ASSUME VoiceInv, [EvaluationVoiceNext]_vars PROVE VoiceInv'
  OBVIOUS
<1>1. CASE Request
  BY <1>1, RequestKeeps
<1>2. ASSUME NEW j \in Jobs, Claim(j) \/ Lapse(j) \/ Recover(j) PROVE VoiceInv'
  BY <1>2, ClaimKeeps, LapseKeeps, RecoverKeeps
<1>3. ASSUME NEW w \in Uploads, NEW b \in Bytes, Upload(w, b) PROVE VoiceInv'
  BY <1>3, UploadKeeps
<1>4. ASSUME NEW w \in DOMAIN work, Handler(w) \/ Crash(w) PROVE VoiceInv'
  BY <1>4, CrashKeeps, FinishKeeps, DispatchKeeps, ReserveKeeps, ClearKeeps, LaunchKeeps, ReturnKeeps,
     StoreVerdictKeeps, LookKeeps, AdoptKeeps, PlaceKeeps, CleanUpKeeps, StoreRecordingKeeps
  DEF Handler
<1>5. CASE UNCHANGED vars
  BY <1>5, QuietKeeps DEF vars, Decisions
<1> QED
  BY <1>1, <1>2, <1>3, <1>4, <1>5 DEF EvaluationVoiceNext

\* What the lane's services keep true between them, whoever fails where.
THEOREM VoiceInvariant == EvaluationVoiceSpec => []VoiceInv
<1>1. EvaluationVoiceInit => VoiceInv
  BY VoiceInvInit
<1>2. VoiceInv /\ [EvaluationVoiceNext]_vars => VoiceInv'
  BY VoiceInvNext
<1> QED
  BY <1>1, <1>2, PTL DEF EvaluationVoiceSpec

\* One child a job and a once-only admission: a call reserved is never reserved
\* again and its child starts only from the reservation.
THEOREM VoiceCalledOnce == EvaluationVoiceSpec => []OneVoiceCall
<1>1. VoiceInv => OneVoiceCall
  <2> SUFFICES ASSUME VoiceInv PROVE OneVoiceCall
    OBVIOUS
  <2>1. \A j \in Jobs : launches[j] \in {0, 1} /\ (launches[j] > 0 => job[j].status # "absent")
    <3> SUFFICES ASSUME NEW j \in Jobs
                 PROVE  launches[j] \in {0, 1} /\ (launches[j] > 0 => job[j].status # "absent")
      OBVIOUS
    <3>1. Agrees(j)
      BY DEF VoiceInv, AllAgree
    <3> QED
      BY <3>1 DEF Agrees
  <2>2. \A j \in Jobs : launches[j] <= 1
    BY <2>1
  <2>3. ASSUME NEW d \in Drafts, NEW e \in Drafts, GrantOf[d] = GrantOf[e], GrantOf[d] \in Once,
               launches[d] > 0, launches[e] > 0
        PROVE  d = e
    BY <2>1, <2>3, Kinds DEF VoiceInv, OnceClaimed
  <2> QED
    BY <2>2, <2>3 DEF OneVoiceCall
<1> QED
  BY <1>1, VoiceInvariant, PTL

\* Calls and recordings account for each other, from the one sender of a call to
\* the transaction that makes row and scope.
THEOREM VoiceOutputsAccounted == EvaluationVoiceSpec => []OutputsAccounted
<1>1. VoiceInv => OutputsAccounted
  <2> SUFFICES ASSUME VoiceInv PROVE OutputsAccounted
    OBVIOUS
  <2>1. \A b \in Bytes : audio[b].by \in Drafts =>
          /\ audio[b].scope = {GrantOf[audio[b].by]}
          /\ launches[audio[b].by] = 1 /\ call[audio[b].by] \in {"running", "completed"}
    BY DEF VoiceInv, AllRows, Row
  <2>2. \A j \in Jobs : Is(j, "completed") => call[j] = "completed"
    BY DEF VoiceInv, AllAgree, Agrees, Is
  <2> QED
    BY <2>1, <2>2 DEF OutputsAccounted, VoiceInv, Outputs
<1> QED
  BY <1>1, VoiceInvariant, PTL

\* A bound Master was generated, checked and approved, and stays so.
THEOREM VoiceMasterEarned == EvaluationVoiceSpec => []MasterEarned
<1>1. VoiceInv => MasterEarned
  <2> SUFFICES ASSUME VoiceInv, NEW b \in Bytes, run[b].by # None
               PROVE  /\ use[run[b].by] # "none" /\ review[b] = "approved"
                      /\ audio[b].verdict = "verified" /\ call[b] = "completed" /\ launches[b] = 1
                      /\ MadeOnce(b)
    BY DEF MasterEarned, MadeOnce
  <2>1. use[run[b].by] # "none" /\ review[b] = "approved"
    BY DEF VoiceInv, Earned
  <2>2. audio[b].verdict = "verified" /\ call[b] = "completed" /\ MadeOnce(b)
    BY <2>1 DEF VoiceInv, Earned
  <2>3. launches[b] = 1
    BY <2>2, Kinds DEF VoiceInv, AllAgree, Agrees
  <2> QED
    BY <2>1, <2>2, <2>3
<1> QED
  BY <1>1, VoiceInvariant, PTL


-----------------------------------------------------------------------------
(* What a step does, it had the authority for                              *)

Cleared ==
    \A w \in DOMAIN work' : work'[w].at = "cleared" /\ ~At(w, "cleared") =>
       /\ Serves(w)
       /\ IF w[1] \in Drafts THEN DraftLive(w[1])
                             ELSE Audible(w[1]) /\ Allowed(QaGrantOf[w[1]])

Launched ==
    \A j \in Jobs : launches'[j] # launches[j] =>
       \E w \in DOMAIN work : w[1] = j /\ At(w, "cleared")

Recorded ==
    \A b \in Bytes : audio'[b].by \in Drafts \ {audio[b].by} => DraftLive(audio'[b].by)

Judged ==
    \A b \in Bytes : audio'[b].verdict \in {"verified", "rejected"} \ {audio[b].verdict} =>
       /\ \E w \in DOMAIN work : w[1] = b /\ Serves(w)
       /\ Live(audio[b].scope) /\ Allowed(QaGrantOf[b])

Decided ==
    /\ \A b \in Bytes : <<review'[b], run'[b].by>> # <<review[b], run[b].by>> =>
          Audible(b) /\ Allowed(QaGrantOf[b])
    /\ \A b \in Bytes : run'[b].by # run[b].by => use[run'[b].by] = "live"

LEMMA LaunchedOnlyBy ==
  ASSUME VoiceInv, NEW w \in DOMAIN work, Launch(w)
  PROVE  Launched
<1>1. w[1] \in Jobs /\ At(w, "cleared")
  BY DEF VoiceInv, AllPlaced, Placed, Launch, At, Importing
<1>2. CASE UNCHANGED launches
  BY <1>2 DEF Launched
<1>3. CASE launches' = [launches EXCEPT ![w[1]] = @ + 1]
  <2>1. \A j \in Jobs : j # w[1] => launches'[j] = launches[j]
    BY <1>3 DEF VoiceInv, Types
  <2> QED
    BY <1>1, <2>1 DEF Launched
<1> QED
  BY <1>2, <1>3 DEF Launch

\* Whoever goes somewhere else, begins or ends is not cleared by that.
NoneCleared == \A v \in DOMAIN work' : work'[v].at = "cleared" => At(v, "cleared")

LEMMA Elsewhere ==
  ASSUME Types
  PROVE  /\ UNCHANGED work => NoneCleared
         /\ \A w \in DOMAIN work : \A place \in Places \ {"cleared"} : Step(w, place) => NoneCleared
         /\ \A w \in DOMAIN work : End(w) => NoneCleared
         /\ \A w : \A place \in Places \ {"cleared"} : \A b \in Bytes \cup {None} :
               Begin(w, place, b) => NoneCleared
<1>1. ASSUME NEW w \in DOMAIN work, NEW place \in Places \ {"cleared"}, Step(w, place)
      PROVE  NoneCleared
  BY <1>1, StepMoves DEF NoneCleared, At
<1>2. ASSUME NEW w \in DOMAIN work, End(w)
      PROVE  NoneCleared
  BY <1>2, EndMoves DEF NoneCleared, At
<1>3. ASSUME NEW w, NEW place \in Places \ {"cleared"}, NEW b \in Bytes \cup {None}, Begin(w, place, b)
      PROVE  NoneCleared
  BY <1>3, BeginMoves DEF NoneCleared, At
<1>4. UNCHANGED work => NoneCleared
  BY DEF NoneCleared, At
<1> QED
  BY <1>1, <1>2, <1>3, <1>4

LEMMA ClearedOnlyBy ==
  ASSUME VoiceInv, [EvaluationVoiceNext]_vars
  PROVE  Cleared
<1>0. Types
  BY DEF VoiceInv
<1>1. {"begun", "ready", "reserved", "launched", "checked", "returned", "looked",
       "rolled back", "imported", "stored", "failing"} \subseteq Places \ {"cleared"}
  BY DEF Places
<1>2. NoneCleared => Cleared
  BY DEF NoneCleared, Cleared
<1>3. ASSUME NEW w \in DOMAIN work, Clear(w)
      PROVE  Cleared
  <2>1. CASE Fail(w)
    BY <1>0, <1>1, <1>2, <2>1, Elsewhere DEF Fail
  <2>2. CASE Current(w) /\ Step(w, "cleared")
    <3>1. /\ DOMAIN work' = DOMAIN work
          /\ \A v \in DOMAIN work : v # w => work'[v] = work[v]
      BY <1>0, <2>2, StepMoves DEF Places
    <3>2. Serves(w) /\ Authority(w)
      BY <2>2 DEF Current
    <3>3. IF w[1] \in Drafts THEN DraftLive(w[1]) ELSE Audible(w[1]) /\ Allowed(QaGrantOf[w[1]])
      BY <3>2 DEF Authority, QaLive, Standing
    <3> QED
      BY <3>1, <3>2, <3>3 DEF Cleared, At
  <2> QED
    BY <1>3, <2>1, <2>2 DEF Clear
<1>4. CASE UNCHANGED work
  BY <1>0, <1>2, <1>4, Elsewhere
<1>5. ASSUME NEW j \in Jobs, Claim(j)
      PROVE  Cleared
  BY <1>0, <1>1, <1>2, <1>5, Elsewhere DEF Claim
<1>6. ASSUME NEW w \in Uploads, NEW b \in Bytes, Upload(w, b)
      PROVE  Cleared
  BY <1>0, <1>1, <1>2, <1>6, Elsewhere DEF Upload
<1>7. ASSUME NEW w \in DOMAIN work, Dispatch(w) \/ Reserve(w) \/ Launch(w)
      PROVE  Cleared
  BY <1>0, <1>1, <1>2, <1>7, Elsewhere DEF Dispatch, Reserve, Launch, Fail
<1>8. ASSUME NEW w \in DOMAIN work, Return(w) \/ StoreVerdict(w) \/ Look(w) \/ StoreRecording(w)
      PROVE  Cleared
  BY <1>0, <1>1, <1>2, <1>8, Elsewhere DEF Return, StoreVerdict, Look, StoreRecording, Fail
<1>9. ASSUME NEW w \in DOMAIN work, Adopt(w) \/ Place(w) \/ CleanUp(w) \/ Finish(w) \/ Crash(w)
      PROVE  Cleared
  BY <1>0, <1>1, <1>2, <1>9, Elsewhere DEF Adopt, Place, CleanUp, Finish, Crash, Refuse, Fail
<1>10. CASE Request
  <2>1. UNCHANGED work
    BY <1>10 DEF Request, CreateDraft, CreateQa, AdoptUse, RevokeUse, Withdraw, Review, Bind, CancelRun
  <2> QED
    BY <1>4, <2>1
<1>11. ASSUME NEW j \in Jobs, Lapse(j) \/ Recover(j)
       PROVE  Cleared
  BY <1>4, <1>11 DEF Lapse, Recover
<1> QED
  BY <1>3, <1>4, <1>5, <1>6, <1>7, <1>8, <1>9, <1>10, <1>11 DEF EvaluationVoiceNext, Handler, vars

\* What is kept of a child is kept under its grant.
LEMMA RecordedOnlyBy ==
  ASSUME VoiceInv, [EvaluationVoiceNext]_vars
  PROVE  Recorded
<1>1. CASE UNCHANGED audio
  BY <1>1 DEF Recorded
<1>2. ASSUME NEW w \in DOMAIN work, StoreVerdict(w) \/ Adopt(w)
      PROVE  Recorded
  <2>1. ASSUME NEW v, audio' = [audio EXCEPT ![w[1]].verdict = v]
        PROVE  \A b \in Bytes : audio'[b].by = audio[b].by
    BY <2>1 DEF VoiceInv, Types
  <2>2. ASSUME NEW scope, audio' = [audio EXCEPT ![work[w].bytes].scope = scope]
        PROVE  \A b \in Bytes : audio'[b].by = audio[b].by
    BY <2>2 DEF VoiceInv, Types
  <2>3. CASE StoreVerdict(w)
    <3>1. UNCHANGED audio \/ \E v \in {"verified", "rejected"} : audio' = [audio EXCEPT ![w[1]].verdict = v]
      BY <2>3 DEF StoreVerdict
    <3> QED
      BY <1>1, <2>1, <3>1 DEF Recorded
  <2>4. CASE Adopt(w)
    <3>1. UNCHANGED audio \/ audio' = [audio EXCEPT ![work[w].bytes].scope = Merged(w)]
      BY <2>4 DEF Adopt
    <3> QED
      BY <1>1, <2>2, <3>1 DEF Recorded
  <2> QED
    BY <1>2, <2>3, <2>4
<1>3. ASSUME NEW w \in DOMAIN work, Place(w)
      PROVE  Recorded
  <2> DEFINE b == work[w].bytes
             new == [by |-> w[1], scope |-> IF w[1] \in Drafts THEN Merged(w) ELSE {},
                     verdict |-> IF w[1] \in Drafts THEN "pending" ELSE "none"]
  <2>1. b \in Bytes /\ new.by = w[1]
    BY <1>3 DEF VoiceInv, AllPlaced, Placed, Place, At, Importing
  <2>2. \/ UNCHANGED audio
        \/ (w[1] \in Drafts => Registrable(w)) /\ audio' = [audio EXCEPT ![b] = new]
    BY <1>3 DEF Place, Library
  <2> HIDE DEF b, new
  <2>3. CASE (w[1] \in Drafts => Registrable(w)) /\ audio' = [audio EXCEPT ![b] = new]
    <3>1. w[1] \in Drafts => DraftLive(w[1])
      BY <2>3 DEF Registrable, Merged, Live, DraftLive
    <3>2. \A c \in Bytes : audio'[c].by = IF c = b THEN w[1] ELSE audio[c].by
      BY <2>1, <2>3 DEF VoiceInv, Types
    <3> QED
      BY <3>1, <3>2 DEF Recorded
  <2> QED
    BY <1>1, <2>2, <2>3
<1>4. CASE ~\E w \in DOMAIN work : StoreVerdict(w) \/ Adopt(w) \/ Place(w)
  <2>1. UNCHANGED audio
    BY <1>4 DEF EvaluationVoiceNext, Handler, Crash, Claim, Lapse, Recover, Upload, Dispatch, Reserve,
       Clear, Launch, Return, Look, CleanUp, StoreRecording, Finish, Rest, vars, Library, Request,
       CreateDraft, CreateQa, AdoptUse, RevokeUse, Withdraw, Review, Bind, CancelRun
  <2> QED
    BY <1>1, <2>1
<1> QED
  BY <1>2, <1>3, <1>4

LEMMA JudgedOnlyBy ==
  ASSUME VoiceInv, NEW w \in DOMAIN work, StoreVerdict(w)
  PROVE  Judged
<1>1. w[1] \in Bytes
  BY DEF VoiceInv, AllPlaced, Placed, StoreVerdict, At
<1>2. CASE UNCHANGED audio
  BY <1>2 DEF Judged
<1>3. ASSUME Serves(w), Standing(w[1]),
             NEW v \in {"verified", "rejected"}, audio' = [audio EXCEPT ![w[1]].verdict = v]
      PROVE  Judged
  <2>1. \A b \in Bytes : b # w[1] => audio'[b] = audio[b]
    BY <1>3 DEF VoiceInv, Types
  <2>2. Live(audio[w[1]].scope) /\ Allowed(QaGrantOf[w[1]])
    BY <1>3 DEF Standing
  <2> QED
    BY <1>3, <2>1, <2>2 DEF Judged
<1> QED
  BY <1>2, <1>3 DEF StoreVerdict

\* Imports bring no verdict.
LEMMA ImportsUnjudged ==
  ASSUME VoiceInv, NEW w \in DOMAIN work, Adopt(w) \/ Place(w)
  PROVE  Judged
<1> DEFINE b == work[w].bytes
<1>1. b \in Bytes
  BY DEF VoiceInv, AllPlaced, Placed, Adopt, Place, At, Importing
<1>2. CASE audio' = audio
  BY <1>2 DEF Judged
<1>3. ASSUME NEW scope, audio' = [audio EXCEPT ![b].scope = scope]
      PROVE  Judged
  <2>1. \A c \in Bytes : audio'[c].verdict = audio[c].verdict
    BY <1>3 DEF VoiceInv, Types
  <2> QED
    BY <2>1 DEF Judged
<1>4. ASSUME NEW who, NEW scope, NEW verdict \in {"pending", "none"},
             audio' = [audio EXCEPT ![b] = NewRow(who, scope, verdict)]
      PROVE  Judged
  <2>1. \A c \in Bytes : audio'[c].verdict = audio[c].verdict
                         \/ audio'[c].verdict \notin {"verified", "rejected"}
    <3> HIDE DEF b
    <3>1. NewRow(who, scope, verdict).verdict = verdict
      BY DEF NewRow
    <3> QED
      BY <1>1, <1>4, <3>1 DEF VoiceInv, Types
  <2> QED
    BY <2>1 DEF Judged
<1> QED
  BY <1>2, <1>3, <1>4 DEF Adopt, Place, Library, NewRow

LEMMA DecidedOnlyBy ==
  ASSUME VoiceInv, Request
  PROVE  Decided
<1>1. CASE UNCHANGED <<review, run>>
  BY <1>1 DEF Decided
<1>2. ASSUME NEW b \in Bytes, Review(b)
      PROVE  Decided
  <2>1. Audible(b) /\ Allowed(QaGrantOf[b]) /\ run' = run
    BY <1>2 DEF Review, Checked, Retained, QaLive, Standing
  <2>2. \A c \in Bytes : c # b => review'[c] = review[c]
    BY <1>2 DEF Review, VoiceInv, Types
  <2> QED
    BY <2>1, <2>2 DEF Decided
<1>3. ASSUME NEW u \in Uses, Bind(u)
      PROVE  Decided
  <2> DEFINE b == UseFor[u]
  <2>1. b \in Bytes
    BY EvaluationVoiceAssumption
  <2>2. /\ Audible(b) /\ Allowed(QaGrantOf[b]) /\ review' = review
        /\ use[u] = "live" /\ run' = [run EXCEPT ![b].by = u]
    BY <1>3 DEF Bind, Usable, Checked, Retained, QaLive, Standing
  <2> HIDE DEF b
  <2>3. \A c \in Bytes : c # b => run'[c] = run[c]
    BY <2>2 DEF VoiceInv, Types
  <2>4. run'[b].by = u
    BY <2>1, <2>2 DEF VoiceInv, Types
  <2> QED
    BY <2>2, <2>3, <2>4 DEF Decided
<1>4. ASSUME NEW b \in Bytes, CancelRun(b)
      PROVE  Decided
  <2>1. review' = review /\ \A c \in Bytes : run'[c].by = run[c].by
    BY <1>4 DEF CancelRun, VoiceInv, Types
  <2> QED
    BY <2>1 DEF Decided
<1> QED
  BY <1>1, <1>2, <1>3, <1>4
  DEF Request, CreateDraft, CreateQa, AdoptUse, RevokeUse, Withdraw, Decisions

LEMMA StepAuthorised ==
  ASSUME VoiceInv, [EvaluationVoiceNext]_vars
  PROVE  Cleared /\ Launched /\ Recorded /\ Judged /\ Decided
<1> SUFFICES Launched /\ Judged /\ Decided
  BY ClearedOnlyBy, RecordedOnlyBy
<1>1. CASE Request
  <2>1. UNCHANGED <<launches, audio>>
    BY <1>1 DEF Request, CreateDraft, CreateQa, AdoptUse, RevokeUse, Withdraw, Review, Bind,
       CancelRun, Library
  <2>2. Launched /\ Judged
    BY <2>1 DEF Launched, Judged
  <2> QED
    BY <1>1, <2>2, DecidedOnlyBy
<1>2. CASE ~Request
  <2>1. UNCHANGED Decisions
    BY <1>2 DEF EvaluationVoiceNext, Handler, Crash, Claim, Lapse, Recover, Upload, Dispatch, Reserve,
       Clear, Launch, Return, StoreVerdict, Look, Adopt, Place, CleanUp, StoreRecording, Finish, Rest, vars,
       Decisions
  <2>2. Decided
    BY <2>1 DEF Decided, Decisions
  <2>3. CASE \E w \in DOMAIN work : Launch(w)
    <3>1. UNCHANGED audio
      BY <2>3 DEF Launch, Library
    <3> QED
      BY <2>2, <2>3, <3>1, LaunchedOnlyBy DEF Judged
  <2>4. CASE ~\E w \in DOMAIN work : Launch(w)
    <3>1. UNCHANGED launches
      BY <1>2, <2>4 DEF EvaluationVoiceNext, Handler, Crash, Claim, Lapse, Recover, Upload, Dispatch,
         Reserve, Clear, Return, StoreVerdict, Look, Adopt, Place, CleanUp, StoreRecording, Finish, Rest, vars
    <3>2. Launched
      BY <3>1 DEF Launched
    <3>3. Judged
      <4>1. CASE \E w \in DOMAIN work : StoreVerdict(w) \/ Adopt(w) \/ Place(w)
        BY <4>1, JudgedOnlyBy, ImportsUnjudged
      <4>2. CASE ~\E w \in DOMAIN work : StoreVerdict(w) \/ Adopt(w) \/ Place(w)
        <5>1. UNCHANGED audio
          BY <1>2, <2>4, <4>2 DEF EvaluationVoiceNext, Handler, Crash, Claim, Lapse, Recover, Upload,
             Dispatch, Reserve, Clear, Return, Look, CleanUp, StoreRecording, Finish, Rest, vars, Library
        <5> QED
          BY <5>1 DEF Judged
      <4> QED
        BY <4>1, <4>2
    <3> QED
      BY <2>2, <3>2, <3>3
  <2> QED
    BY <2>3, <2>4
<1> QED
  BY <1>1, <1>2

\* A child starts only after a last look at what it rests on, and what it makes, a
\* verdict, a review and a binding are stored only while that is live.
THEOREM VoiceActsAuthorised == EvaluationVoiceSpec => ActsAuthorised
<1>1. VoiceInv /\ [EvaluationVoiceNext]_vars => [Cleared /\ Launched /\ Recorded /\ Judged /\ Decided]_vars
  BY StepAuthorised
<1>2. [Cleared /\ Launched /\ Recorded /\ Judged /\ Decided]_vars =>
        [/\ \A w \in DOMAIN work' : work'[w].at = "cleared" /\ ~At(w, "cleared") =>
               /\ Serves(w)
               /\ IF w[1] \in Drafts THEN DraftLive(w[1])
                                     ELSE Audible(w[1]) /\ Allowed(QaGrantOf[w[1]])
         /\ \A j \in Jobs : launches'[j] # launches[j] =>
               \E w \in DOMAIN work : w[1] = j /\ At(w, "cleared")
         /\ \A b \in Bytes : audio'[b].by \in Drafts \ {audio[b].by} => DraftLive(audio'[b].by)
         /\ \A b \in Bytes : audio'[b].verdict \in {"verified", "rejected"} \ {audio[b].verdict} =>
               /\ \E w \in DOMAIN work : w[1] = b /\ Serves(w)
               /\ Live(audio[b].scope) /\ Allowed(QaGrantOf[b])
         /\ \A b \in Bytes : <<review'[b], run'[b].by>> # <<review[b], run[b].by>> =>
               Audible(b) /\ Allowed(QaGrantOf[b])
         /\ \A b \in Bytes : run'[b].by # run[b].by => use[run'[b].by] = "live"]_vars
  BY DEF Cleared, Launched, Recorded, Judged, Decided
<1> QED
  BY <1>1, <1>2, VoiceInvariant, PTL DEF EvaluationVoiceSpec, ActsAuthorised

=============================================================================
