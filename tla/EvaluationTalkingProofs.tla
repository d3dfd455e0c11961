---------------------- MODULE EvaluationTalkingProofs ----------------------
(***************************************************************************)
(* Proofs, for any receipts, scenes, corrections, faults and bounds, that  *)
(* a trial starts one child at most, that what is stored of it is whole    *)
(* and in order, that a cancellation is final, and that nothing is stored  *)
(* without the authority of that moment.                                   *)
(*                                                                         *)
(* The argument: a trial is one operation's, and its ledger key is taken   *)
(* once.  Where the one handler that took it stands fixes what the call    *)
(* and the child processes are; when the call is over, no handler stands   *)
(* between the reservation and the result any more.                        *)
(***************************************************************************)
EXTENDS EvaluationTalking, TLAPS

Places == {"begun", "ready", "reserved", "cleared", "launched", "staged", "checked", "stored",
           "spoiled", "kept", "failing"}

RowTypes ==
    /\ slot \in [Granted -> Receipts \cup {NoReceipt}]
    /\ heir \in [Receipts -> Receipts \cup {NoReceipt}]
    /\ job \in [Jobs -> [status : Statuses, attempt : Nat, live : BOOLEAN]]
    /\ saved \in [Receipts -> SUBSET Results]
    /\ passed \subseteq Receipts
    /\ reviewed \in [Receipts -> {"none", "approved", "rejected"}]
    /\ call \in [Trials -> {"none", "running", "failed", "completed"}]
    /\ launches \in [Receipts -> Nat]

WorkTypes ==
    /\ DOMAIN work \subseteq Jobs \X Nat
    /\ work = [w \in DOMAIN work |-> work[w]]
    /\ \A w \in DOMAIN work : work[w] = [at |-> work[w].at, seen |-> work[w].seen]
                              /\ work[w].at \in Places

\* Between the reservation of the call and its end.
Engaged(w) ==
    w[1][2] = "generation" /\ work[w].at \in {"reserved", "cleared", "launched", "staged", "checked"}

\* It goes on only with what it saw when it began.
Carrying(w) == Engaged(w) \/ (w[1][2] = "generation" /\ work[w].at = "ready")

\* A handler serves an attempt that its job was once claimed for, and only a
\* generation stands where calls are reserved and children started.
Handlers ==
    \A w \in DOMAIN work :
        /\ job[w[1]].status # "absent" /\ w[2] <= job[w[1]].attempt
        /\ work[w].at \in {"reserved", "cleared", "launched", "checked"} => w[1][2] = "generation"
        /\ Carrying(w) => w[1][1] \notin work[w].seen.withdrawn /\ Plan \notin work[w].seen.withdrawn

\* A trial is one operation's; another role's job follows the generation's.
OneOperation ==
    /\ \A p, r \in Made : TrialOf[p] = TrialOf[r] => p = r
    /\ \A r \in Receipts \ Made :
          /\ \A role \in Roles : job[<<r, role>>].status = "absent"
          /\ saved[r] = {} /\ launches[r] = 0
    /\ \A t \in Trials : call[t] # "none" => \E r \in Made : TrialOf[r] = t

\* The call and the children of a trial are where its one engaged handler stands.
OneCall ==
    /\ \A w \in DOMAIN work : Engaged(w) =>
          /\ call[TrialOf[w[1][1]]] = "running"
          /\ launches[w[1][1]] = IF work[w].at \in {"reserved", "cleared"} THEN 0 ELSE 1
    /\ \A v, w \in DOMAIN work : Engaged(v) /\ Engaged(w) /\ v[1][1] = w[1][1] => v = w
    /\ \A r \in Receipts : launches[r] <= 1 /\ (call[TrialOf[r]] = "none" => launches[r] = 0)

\* A trial that was replaced is cancelled and never started a child.
Replaced ==
    \A p \in Receipts : heir[p] # NoReceipt => Cancelled(p) /\ launches[p] = 0

\* The jobs of a cancelled trial are over.
Settled ==
    \A r \in Receipts, role \in Roles :
        Cancelled(r) => job[<<r, role>>].status \notin {"pending", "running"}

Checked == \A r \in passed : "qa" \in saved[r]

EvaluationInv ==
    /\ RowTypes /\ WorkTypes /\ Handlers /\ OneOperation /\ OneCall
    /\ Replaced /\ Checked /\ StoredInOrder

-----------------------------------------------------------------------------
(* What a step does to the handlers at work and to the operations made.    *)

LEMMA JobTypes ==
  /\ \A j \in Jobs : j[1] \in Receipts /\ j[2] \in Roles /\ j = <<j[1], j[2]>>
  /\ \A r \in Receipts, role \in Roles : <<r, role>> \in Jobs
  /\ \A r \in Receipts : TrialOf[r] \in Trials /\ <<r, "generation">> \in Jobs
  BY DEF Jobs, Trials, Roles

LEMMA RunTypes ==
  ASSUME WorkTypes, NEW w \in DOMAIN work
  PROVE  /\ w[1] \in Jobs /\ w[2] \in Nat
         /\ w[1][1] \in Receipts /\ w[1][2] \in Roles /\ TrialOf[w[1][1]] \in Trials
  BY JobTypes DEF WorkTypes

\* Handler w comes to stand at a place; all others stay where they are.
Goes(w, place) ==
    /\ DOMAIN work' = DOMAIN work
    /\ work'[w].at = place
    /\ \A v \in DOMAIN work \ {w} : work'[v] = work[v]

LEMMA StepGoes ==
  ASSUME WorkTypes, NEW w \in DOMAIN work, NEW place \in Places, Step(w, place)
  PROVE  WorkTypes' /\ Goes(w, place) /\ work'[w].seen = work[w].seen
<1>1. DOMAIN work' = DOMAIN work /\ work' = [v \in DOMAIN work' |-> work'[v]]
  BY DEF WorkTypes, Step
<1>2. work'[w] = [at |-> place, seen |-> work[w].seen]
  <2>1. work'[w] = [work[w] EXCEPT !.at = place]
    BY DEF WorkTypes, Step
  <2>2. work[w] = [at |-> work[w].at, seen |-> work[w].seen]
    BY DEF WorkTypes
  <2>3. \A at, seen : [[at |-> at, seen |-> seen] EXCEPT !.at = place] = [at |-> place, seen |-> seen]
    OBVIOUS
  <2> QED
    BY <2>1, <2>2, <2>3
<1>3. \A v \in DOMAIN work \ {w} : work'[v] = work[v]
  BY DEF WorkTypes, Step
<1> QED
  BY <1>1, <1>2, <1>3 DEF WorkTypes, Goes

LEMMA ObserveGoes ==
  ASSUME WorkTypes, NEW w \in DOMAIN work, NEW place \in Places, Observe(w, place)
  PROVE  WorkTypes' /\ Goes(w, place) /\ work'[w].seen = Facts
  BY DEF WorkTypes, Observe, Goes

LEMMA MadeKept == UNCHANGED job => Made' = Made
  BY DEF Made

LEMMA MadeIs == \A r \in Receipts : r \in Made <=> job[<<r, "generation">>].status # "absent"
  BY DEF Made

LEMMA EnqueueMakes ==
  ASSUME RowTypes, NEW r \in Receipts, NEW role \in Roles, Enqueue(r, role)
  PROVE  /\ job' \in [Jobs -> [status : Statuses, attempt : Nat, live : BOOLEAN]]
         /\ \A j \in Jobs \ {<<r, role>>} : job'[j] = job[j]
         /\ job'[<<r, role>>].status = "pending" /\ job'[<<r, role>>].attempt = 0
         /\ Made' = IF role = "generation" THEN Made \cup {r} ELSE Made
<1>1. job' \in [Jobs -> [status : Statuses, attempt : Nat, live : BOOLEAN]]
  BY JobTypes DEF RowTypes, Enqueue, Statuses
<1>2. \A j \in Jobs \ {<<r, role>>} : job'[j] = job[j]
  BY JobTypes DEF RowTypes, Enqueue
<1>3. job'[<<r, role>>].status = "pending" /\ job'[<<r, role>>].attempt = 0
  BY JobTypes DEF RowTypes, Enqueue
<1>4. Made' = IF role = "generation" THEN Made \cup {r} ELSE Made
  BY <1>2, <1>3, JobTypes DEF Made
<1> QED
  BY <1>1, <1>2, <1>3, <1>4

-----------------------------------------------------------------------------
(* Requests, the queue and its faults.                                     *)

\* A step that stores, starts and adds nothing.
LEMMA Quiet ==
  ASSUME EvaluationInv, RowTypes', WorkTypes',
         UNCHANGED <<saved, passed, reviewed, call, launches, heir>>,
         \A j \in Jobs : /\ job'[j].status = "absent" <=> job[j].status = "absent"
                         /\ job'[j].attempt = job[j].attempt,
         DOMAIN work' \subseteq DOMAIN work, \A v \in DOMAIN work' : work'[v] = work[v]
  PROVE  EvaluationInv'
<1> USE DEF EvaluationInv
<1>1. Made' = Made
  BY JobTypes DEF Made
<1>2. Handlers'
  BY RunTypes DEF Handlers, Carrying, Engaged
<1>3. OneOperation'
  BY <1>1, JobTypes DEF OneOperation
<1>4. OneCall'
  BY DEF OneCall, Engaged
<1>5. Replaced' /\ Checked' /\ StoredInOrder'
  BY <1>1 DEF Replaced, Checked, StoredInOrder, Cancelled
<1> QED
  BY <1>2, <1>3, <1>4, <1>5

LEMMA QuietSteps ==
  ASSUME EvaluationInv,
         \/ \E x \in Receipts \cup {Plan} : Withdraw(x)
         \/ Import \/ AdoptBatch
         \/ \E j \in Jobs : Lapse(j) \/ Recover(j)
         \/ \E w \in DOMAIN work : Crash(w) \/ Finish(w)
         \/ UNCHANGED vars
  PROVE  EvaluationInv'
<1> USE DEF EvaluationInv
<1>1. UNCHANGED <<saved, passed, reviewed, call, launches, heir, slot>>
  BY DEF Withdraw, Import, AdoptBatch, Lapse, Recover, Crash, Finish, Rows, Authority, vars
<1>2. /\ job' \in [Jobs -> [status : Statuses, attempt : Nat, live : BOOLEAN]]
      /\ \A j \in Jobs : /\ job'[j].status = "absent" <=> job[j].status = "absent"
                         /\ job'[j].attempt = job[j].attempt
  <2>1. CASE UNCHANGED job
    BY <2>1 DEF RowTypes
  <2>2. ASSUME NEW j \in Jobs, Lapse(j) PROVE <1>2
    BY <2>2 DEF Lapse, RowTypes
  <2>3. ASSUME NEW j \in Jobs, Recover(j) PROVE <1>2
    BY <2>3 DEF Recover, RowTypes, Statuses
  <2>4. ASSUME NEW w \in DOMAIN work, Finish(w), job' # job PROVE <1>2
    BY <2>4, RunTypes DEF Finish, RowTypes, Statuses, Holds, Serves
  <2> QED
    BY <2>1, <2>2, <2>3, <2>4 DEF Withdraw, Import, AdoptBatch, Crash, vars, Authority
<1>3. /\ DOMAIN work' \subseteq DOMAIN work /\ WorkTypes'
      /\ \A v \in DOMAIN work' : work'[v] = work[v]
  <2>1. CASE UNCHANGED work
    BY <2>1 DEF WorkTypes
  <2>2. ASSUME NEW w \in DOMAIN work, End(w) PROVE <1>3
    BY <2>2 DEF End, WorkTypes
  <2> QED
    BY <2>1, <2>2 DEF Withdraw, Import, AdoptBatch, Lapse, Recover, Crash, Finish, Rows, Authority, vars
<1>4. RowTypes'
  BY <1>1, <1>2 DEF RowTypes
<1> QED
  BY <1>1, <1>2, <1>3, <1>4, Quiet

\* A trial starts as an operation of its own, with nothing done of it yet.
LEMMA Starts ==
  ASSUME EvaluationInv, NEW r \in Receipts, Startable(r), Enqueue(r, "generation"),
         UNCHANGED <<saved, passed, reviewed, call, launches, work>>,
         slot' \in [Granted -> Receipts \cup {NoReceipt}],
         heir' \in [Receipts -> Receipts \cup {NoReceipt}],
         \A p \in Receipts : heir'[p] # heir[p] => Cancelled(p) /\ call[TrialOf[p]] = "none"
  PROVE  EvaluationInv'
<1> USE DEF EvaluationInv
<1>1. /\ job' \in [Jobs -> [status : Statuses, attempt : Nat, live : BOOLEAN]]
      /\ \A j \in Jobs \ {<<r, "generation">>} : job'[j] = job[j]
      /\ job'[<<r, "generation">>].status = "pending"
      /\ Made' = Made \cup {r}
  BY EnqueueMakes DEF Roles
<1>2. r \notin Made /\ job[<<r, "generation">>].status = "absent"
  BY MadeIs DEF Startable
<1>3. call[TrialOf[r]] = "none"
  BY JobTypes DEF Startable, OneOperation
<1>4. RowTypes' /\ WorkTypes'
  BY <1>1 DEF RowTypes, WorkTypes
<1>5. Handlers'
  BY <1>1, <1>2, RunTypes DEF Handlers, Carrying, Engaged
<1>6. OneOperation'
  <2>1. \A p, q \in Made' : TrialOf[p] = TrialOf[q] => p = q
    BY <1>1 DEF OneOperation, Startable
  <2>2. \A q \in Receipts \ Made' :
          /\ \A role \in Roles : job'[<<q, role>>].status = "absent"
          /\ saved'[q] = {} /\ launches'[q] = 0
    BY <1>1, JobTypes DEF OneOperation
  <2>3. \A t \in Trials : call'[t] # "none" => \E q \in Made' : TrialOf[q] = t
    BY <1>1 DEF OneOperation
  <2> QED
    BY <2>1, <2>2, <2>3 DEF OneOperation
<1>7. OneCall' /\ Checked'
  BY DEF OneCall, Engaged, Checked
<1>8. Replaced'
  BY DEF Replaced, Cancelled, OneCall
<1>9. StoredInOrder'
  BY <1>1, <1>2, <1>3 DEF StoredInOrder
<1> QED
  BY <1>4, <1>5, <1>6, <1>7, <1>8, <1>9

LEMMA StartSteps ==
  ASSUME EvaluationInv, NEW r \in Receipts, Start(r) \/ \E p \in Receipts : Replace(p, r)
  PROVE  EvaluationInv'
<1> USE DEF EvaluationInv
<1>1. CASE Start(r)
  <2>1. slot' \in [Granted -> Receipts \cup {NoReceipt}]
    BY <1>1 DEF Start, RowTypes
  <2> QED
    BY <1>1, <2>1, Starts DEF Start, Rows, RowTypes
<1>2. ASSUME NEW p \in Receipts, Replace(p, r) PROVE EvaluationInv'
  <2>1. heir' \in [Receipts -> Receipts \cup {NoReceipt}] /\ heir'[p] = r
        /\ \A q \in Receipts \ {p} : heir'[q] = heir[q]
    BY <1>2 DEF Replace, RowTypes
  <2>2. Cancelled(p) /\ call[TrialOf[p]] = "none"
    BY <1>2 DEF Replace, Root, Cancelled
  <2>3. /\ Startable(r) /\ Enqueue(r, "generation")
        /\ UNCHANGED <<saved, passed, reviewed, call, launches, work, slot>>
    BY <1>2 DEF Replace, Rows
  <2>4. slot' \in [Granted -> Receipts \cup {NoReceipt}]
    BY <2>3 DEF RowTypes
  <2>5. \A q \in Receipts : heir'[q] # heir[q] => Cancelled(q) /\ call[TrialOf[q]] = "none"
    BY <2>1, <2>2
  <2> QED
    BY <2>1, <2>3, <2>4, <2>5, Starts
<1> QED
  BY <1>1, <1>2

LEMMA CheckSteps ==
  ASSUME EvaluationInv, NEW r \in Receipts, CreateQa(r) \/ CreatePreview(r)
  PROVE  EvaluationInv'
<1> USE DEF EvaluationInv
<1>1. PICK role \in {"qa", "preview"} :
          /\ Enqueue(r, role) /\ job[<<r, role>>].status = "absent" /\ r \in Made
          /\ UNCHANGED <<saved, passed, reviewed, call, launches, heir, slot, work>>
  BY DEF CreateQa, CreatePreview, Current, Is, Authority, Rows
<1>2. /\ job' \in [Jobs -> [status : Statuses, attempt : Nat, live : BOOLEAN]]
      /\ \A j \in Jobs \ {<<r, role>>} : job'[j] = job[j]
      /\ Made' = Made
  BY <1>1, EnqueueMakes DEF Roles
<1>3. RowTypes' /\ WorkTypes'
  BY <1>1, <1>2 DEF RowTypes, WorkTypes
<1>4. Handlers'
  BY <1>1, <1>2, RunTypes DEF Handlers, Carrying, Engaged
<1>5. OneOperation'
  BY <1>1, <1>2, JobTypes DEF OneOperation
<1>6. OneCall' /\ Replaced' /\ Checked' /\ StoredInOrder'
  BY <1>1, <1>2 DEF OneCall, Engaged, Replaced, Checked, StoredInOrder, Cancelled
<1> QED
  BY <1>3, <1>4, <1>5, <1>6

LEMMA DecisionSteps ==
  ASSUME EvaluationInv, NEW r \in Receipts, Cancel(r) \/ Review(r) \/ Admit(r)
  PROVE  EvaluationInv'
<1> USE DEF EvaluationInv
<1>1. /\ UNCHANGED <<passed, call, launches, heir, slot, work>>
      /\ r \in Made
  BY DEF Cancel, Review, Admit, Authority, Observable, Current
<1>2. /\ saved' \in [Receipts -> SUBSET Results]
      /\ \A q \in Receipts \ {r} : saved'[q] = saved[q]
      /\ saved[r] \subseteq saved'[r]
      /\ saved'[r] \ saved[r] \subseteq {"cancellation", "admission"}
  BY DEF Cancel, Review, Admit, Save, RowTypes, Results
<1>3. /\ reviewed' \in [Receipts -> {"none", "approved", "rejected"}]
      /\ \A q \in Receipts : reviewed[q] = "approved" => reviewed'[q] = "approved"
  BY DEF Cancel, Review, Admit, RowTypes
<1>4. /\ job' \in [Jobs -> [status : Statuses, attempt : Nat, live : BOOLEAN]]
      /\ \A j \in Jobs : /\ job'[j].status = "absent" <=> job[j].status = "absent"
                         /\ job'[j].attempt = job[j].attempt
  <2>1. CASE UNCHANGED job
    BY <2>1 DEF RowTypes
  <2>2. CASE Cancel(r)
    <3>1. \A j \in Jobs : job'[j] \in {job[j], [job[j] EXCEPT !.status = "cancelled"]}
                          /\ (job'[j] # job[j] => job[j].status # "absent")
      BY <2>2 DEF Cancel
    <3>2. \A j \in Jobs : job'[j] \in [status : Statuses, attempt : Nat, live : BOOLEAN]
      BY <3>1 DEF RowTypes, Statuses
    <3>3. job' = [j \in Jobs |-> job'[j]]
      BY <2>2 DEF Cancel
    <3> QED
      BY <3>1, <3>2, <3>3 DEF RowTypes
  <2> QED
    BY <2>1, <2>2 DEF Review, Admit
<1>5. Made' = Made
  BY <1>4, JobTypes DEF Made
<1>6. RowTypes' /\ WorkTypes'
  BY <1>1, <1>2, <1>3, <1>4 DEF RowTypes, WorkTypes
<1>7. Handlers'
  BY <1>1, <1>4, RunTypes DEF Handlers, Carrying, Engaged
<1>8. OneOperation'
  BY <1>1, <1>2, <1>4, <1>5, JobTypes DEF OneOperation
<1>9. OneCall' /\ Replaced' /\ Checked'
  <2>1. OneCall'
    BY <1>1 DEF OneCall, Engaged
  <2>2. \A q \in Receipts : saved[q] \subseteq saved'[q]
    BY <1>2
  <2>3. Replaced' /\ Checked'
    BY <1>1, <2>2 DEF Replaced, Checked, Cancelled, RowTypes
  <2> QED
    BY <2>1, <2>3
<1>10. "admission" \in saved'[r] \ saved[r] => "preview" \in saved[r] /\ reviewed'[r] = "approved"
  BY DEF Cancel, Review, Admit, Save, RowTypes, Observable
<1>11. StoredInOrder'
  BY <1>1, <1>2, <1>3, <1>5, <1>10 DEF StoredInOrder
<1> QED
  BY <1>6, <1>7, <1>8, <1>9, <1>11

\* A new handler is the only one of its attempt, and has yet seen nothing.
LEMMA ClaimStep ==
  ASSUME EvaluationInv, NEW j \in Jobs, Claim(j)
  PROVE  EvaluationInv'
<1> USE DEF EvaluationInv
<1> DEFINE n == job[j].attempt + 1
<1>1. UNCHANGED <<saved, passed, reviewed, call, launches, heir, slot>> /\ job[j].status = "pending"
  BY DEF Claim, Authority, Rows
<1>2. /\ job' \in [Jobs -> [status : Statuses, attempt : Nat, live : BOOLEAN]]
      /\ job'[j].status = "running" /\ job'[j].attempt = n /\ n \in Nat
      /\ \A i \in Jobs \ {j} : job'[i] = job[i]
  BY DEF Claim, RowTypes, Statuses
<1>3. /\ DOMAIN work' = DOMAIN work \cup {<<j, n>>}
      /\ work' = [w \in DOMAIN work' |-> work'[w]]
      /\ work'[<<j, n>>] = [at |-> "begun", seen |-> <<>>]
      /\ \A w \in DOMAIN work \ {<<j, n>>} : work'[w] = work[w]
  BY DEF Claim
<1>4. <<j, n>> \notin DOMAIN work
  BY DEF Handlers, RowTypes
<1>5. RowTypes' /\ WorkTypes'
  <2>1. RowTypes'
    BY <1>1, <1>2 DEF RowTypes
  <2>2. DOMAIN work' \subseteq Jobs \X Nat
    BY <1>2, <1>3 DEF WorkTypes
  <2>3. work'[<<j, n>>] = [at |-> work'[<<j, n>>].at, seen |-> work'[<<j, n>>].seen]
        /\ work'[<<j, n>>].at \in Places
    BY <1>3 DEF Places
  <2> QED
    BY <1>3, <2>1, <2>2, <2>3 DEF WorkTypes
<1>6. Made' = Made
  BY <1>1, <1>2, JobTypes DEF Made
<1> HIDE DEF n
<1>7. Handlers'
  <2>1. ASSUME NEW w \in DOMAIN work'
        PROVE  /\ job'[w[1]].status # "absent" /\ w[2] <= job'[w[1]].attempt
               /\ work'[w].at \in {"reserved", "cleared", "launched", "checked"} => w[1][2] = "generation"
               /\ Carrying(w)' => w[1][1] \notin work'[w].seen.withdrawn
                                  /\ Plan \notin work'[w].seen.withdrawn
    <3>1. CASE w = <<j, n>>
      BY <3>1, <1>2, <1>3 DEF Carrying, Engaged
    <3>2. CASE w \in DOMAIN work
      <4>1. job[w[1]].attempt <= job'[w[1]].attempt /\ w[2] <= job'[w[1]].attempt
        <5>1. job[w[1]].attempt \in Nat /\ w[2] \in Nat /\ w[2] <= job[w[1]].attempt
          BY <3>2, RunTypes DEF Handlers, RowTypes
        <5>2. job'[w[1]].attempt = job[w[1]].attempt
              \/ (w[1] = j /\ job'[w[1]].attempt = job[w[1]].attempt + 1)
          BY <3>2, <1>2, RunTypes DEF n
        <5> QED
          BY <5>1, <5>2
      <4>2. job'[w[1]].status # "absent" /\ work'[w] = work[w]
        BY <3>2, <1>2, <1>3, <1>4, RunTypes DEF Handlers
      <4> QED
        BY <3>2, <4>1, <4>2 DEF Handlers, Carrying, Engaged
    <3> QED
      BY <3>1, <3>2, <1>3
  <2> QED
    BY <2>1 DEF Handlers
<1>8. OneOperation'
  BY <1>1, <1>2, <1>6, JobTypes DEF OneOperation
<1>9. \A w \in DOMAIN work' : Engaged(w)' => w \in DOMAIN work /\ Engaged(w) /\ work'[w] = work[w]
  BY <1>3, <1>4 DEF Engaged
<1>10. OneCall'
  BY <1>1, <1>9 DEF OneCall
<1>11. Replaced' /\ Checked' /\ StoredInOrder'
  BY <1>1, <1>6 DEF Replaced, Checked, StoredInOrder, Cancelled
<1> QED
  BY <1>5, <1>7, <1>8, <1>10, <1>11

-----------------------------------------------------------------------------
(* Handlers.                                                               *)

\* What a handler's step leaves as it was, and its own operation.
LEMMA OfHandler ==
  ASSUME EvaluationInv, NEW w \in DOMAIN work
  PROVE  /\ w[1][1] \in Made /\ TrialOf[w[1][1]] \in Trials
         /\ \A r \in Made : TrialOf[r] = TrialOf[w[1][1]] => r = w[1][1]
         /\ \A v \in DOMAIN work : Engaged(v) /\ TrialOf[v[1][1]] = TrialOf[w[1][1]] => v[1][1] = w[1][1]
<1> USE DEF EvaluationInv
<1>1. \A v \in DOMAIN work : v[1][1] \in Made
  BY RunTypes, JobTypes DEF OneOperation, Handlers
<1> QED
  BY <1>1, RunTypes DEF OneOperation

\* The rest of the invariant follows when a handler has moved.
LEMMA Moved ==
  ASSUME EvaluationInv, NEW w \in DOMAIN work, NEW place \in Places,
         Goes(w, place), WorkTypes', RowTypes',
         UNCHANGED <<job, slot, heir, reviewed>>,
         place \in {"reserved", "cleared", "launched", "checked"} => w[1][2] = "generation",
         Carrying(w)' => w[1][1] \notin work'[w].seen.withdrawn /\ Plan \notin work'[w].seen.withdrawn,
         \A r \in Receipts : saved[r] \subseteq saved'[r] /\ (r # w[1][1] => saved'[r] = saved[r]),
         \A r \in Receipts \ {w[1][1]} : launches'[r] = launches[r],
         \A t \in Trials : call[t] # "none" \/ t = TrialOf[w[1][1]] \/ call'[t] = call[t],
         \A r \in Receipts : Cancelled(r) => launches'[r] = launches[r],
         \A r \in passed' \ passed : "qa" \in saved'[r]
  PROVE  Handlers' /\ OneOperation' /\ Replaced' /\ Checked'
<1> USE DEF EvaluationInv
<1>1. Made' = Made
  BY MadeKept
<1>2. Handlers'
  BY DEF Handlers, Goes, Carrying, Engaged
<1>3. OneOperation'
  BY <1>1, OfHandler, JobTypes DEF OneOperation
<1>4. Replaced'
  BY DEF Replaced, Cancelled
<1>5. Checked'
  BY DEF Checked, RowTypes
<1> QED
  BY <1>2, <1>3, <1>4, <1>5

\* A handler gives up or is done; a call it was engaged in may fail with it.
LEMMA Retires ==
  ASSUME EvaluationInv, NEW w \in DOMAIN work,
         NEW place \in {"stored", "spoiled", "kept", "failing"}, Step(w, place),
         UNCHANGED <<job, slot, heir, passed, reviewed, launches>>,
         saved' = saved \/ Save(w[1][1], "quarantine"),
         call' = call \/ (Engaged(w) /\ FailCall(w))
  PROVE  EvaluationInv'
<1> USE DEF EvaluationInv
<1>1. Goes(w, place) /\ WorkTypes' /\ place \in Places
  BY StepGoes DEF Places
<1>2. /\ saved' \in [Receipts -> SUBSET Results]
      /\ \A r \in Receipts : saved[r] \subseteq saved'[r] /\ saved'[r] \ saved[r] \subseteq {"quarantine"}
      /\ \A r \in Receipts : r # w[1][1] => saved'[r] = saved[r]
  BY RunTypes DEF Save, RowTypes, Results
<1>3. /\ call' \in [Trials -> {"none", "running", "failed", "completed"}]
      /\ \A t \in Trials : call'[t] = call[t] \/ (t = TrialOf[w[1][1]] /\ call[t] = "running" /\ call'[t] = "failed" /\ Engaged(w))
  BY RunTypes DEF FailCall, RowTypes, OneCall
<1>4. RowTypes'
  BY <1>2, <1>3 DEF RowTypes
<1>5. ~Carrying(w)'
  BY <1>1 DEF Carrying, Engaged, Goes
<1>6. Handlers' /\ OneOperation' /\ Replaced' /\ Checked'
  BY <1>1, <1>2, <1>3, <1>4, <1>5, Moved
<1>7. OneCall'
  <2>1. \A v \in DOMAIN work' : Engaged(v)' => v \in DOMAIN work \ {w} /\ Engaged(v) /\ work'[v] = work[v]
    BY <1>1, <1>5 DEF Engaged, Carrying, Goes
  <2>2. \A v \in DOMAIN work \ {w} : Engaged(v) => call'[TrialOf[v[1][1]]] = call[TrialOf[v[1][1]]]
    BY <1>3, OfHandler, RunTypes DEF OneCall
  <2>3. \A v \in DOMAIN work' : Engaged(v)' =>
          /\ call'[TrialOf[v[1][1]]] = "running"
          /\ launches'[v[1][1]] = IF work'[v].at \in {"reserved", "cleared"} THEN 0 ELSE 1
    BY <2>1, <2>2 DEF OneCall
  <2>4. \A r \in Receipts : call'[TrialOf[r]] = "none" => call[TrialOf[r]] = "none"
    BY <1>3, JobTypes
  <2>5. \A u, v \in DOMAIN work' : Engaged(u)' /\ Engaged(v)' /\ u[1][1] = v[1][1] => u = v
    BY <2>1 DEF OneCall
  <2> QED
    BY <2>3, <2>4, <2>5 DEF OneCall
<1>8. StoredInOrder'
  <2>1. \A r \in Receipts : call'[TrialOf[r]] = "completed" <=> call[TrialOf[r]] = "completed"
    BY <1>3, JobTypes
  <2>2. Made' = Made
    BY MadeKept
  <2>3. \A r \in Receipts, role \in Results \ {"quarantine"} : role \in saved'[r] <=> role \in saved[r]
    BY <1>2
  <2> QED
    BY <2>1, <2>2, <2>3 DEF StoredInOrder, Results, Roles
<1> QED
  BY <1>1, <1>4, <1>6, <1>7, <1>8

\* It begins: what it saw is what was so, and its authority was good.
LEMMA Readies ==
  ASSUME EvaluationInv, NEW w \in DOMAIN work, Observe(w, "ready"), Current(w[1][1]),
         UNCHANGED <<job, slot, heir, passed, reviewed, launches, saved, call>>
  PROVE  EvaluationInv'
<1> USE DEF EvaluationInv
<1>1. Goes(w, "ready") /\ WorkTypes' /\ work'[w].seen = Facts
  BY ObserveGoes DEF Places
<1>2. RowTypes'
  BY DEF RowTypes
<1>3. w[1][1] \notin work'[w].seen.withdrawn /\ Plan \notin work'[w].seen.withdrawn
  BY <1>1 DEF Facts, Current
<1>4. "ready" \in Places
  BY DEF Places
<1>5. Handlers' /\ OneOperation' /\ Replaced' /\ Checked'
  BY <1>1, <1>2, <1>3, <1>4, Moved
<1>6. OneCall'
  BY <1>1 DEF OneCall, Engaged, Goes
<1>7. StoredInOrder'
  BY MadeKept DEF StoredInOrder
<1> QED
  BY <1>1, <1>2, <1>5, <1>6, <1>7

\* An engaged generation goes on, or one becomes engaged by taking the call.
LEMMA Proceeds ==
  ASSUME EvaluationInv, NEW w \in DOMAIN work, NEW place \in {"reserved", "cleared", "launched", "staged", "checked"},
         Step(w, place), w[1][2] = "generation", Carrying(w),
         UNCHANGED <<job, slot, heir, passed, reviewed, saved>>,
         \/ Engaged(w) /\ UNCHANGED call
         \/ call[TrialOf[w[1][1]]] = "none" /\ call' = [call EXCEPT ![TrialOf[w[1][1]]] = "running"],
         \/ /\ UNCHANGED launches /\ (place = "reserved" <=> ~Engaged(w))
            /\ Engaged(w) => (place = "cleared" <=> work[w].at = "reserved") /\ work[w].at # "cleared"
         \/ /\ work[w].at = "cleared" /\ place = "launched" /\ ~Cancelled(w[1][1])
            /\ launches' = [launches EXCEPT ![w[1][1]] = @ + 1]
  PROVE  EvaluationInv'
<1> USE DEF EvaluationInv
<1> DEFINE o == w[1][1]
<1>1. Goes(w, place) /\ WorkTypes' /\ place \in Places /\ work'[w].seen = work[w].seen
  BY StepGoes DEF Places
<1>2. /\ launches' \in [Receipts -> Nat]
      /\ \A r \in Receipts \ {o} : launches'[r] = launches[r]
      /\ launches'[o] = IF place \in {"reserved", "cleared"} THEN 0 ELSE 1
  BY RunTypes DEF RowTypes, OneCall, Engaged
<1>3. /\ call' \in [Trials -> {"none", "running", "failed", "completed"}]
      /\ \A t \in Trials \ {TrialOf[o]} : call'[t] = call[t]
      /\ call'[TrialOf[o]] = "running" /\ call[TrialOf[o]] # "completed"
  BY RunTypes DEF RowTypes, OneCall
<1>4. RowTypes'
  BY <1>2, <1>3 DEF RowTypes
<1>5. o \notin work'[w].seen.withdrawn /\ Plan \notin work'[w].seen.withdrawn
  BY <1>1 DEF Handlers
<1>6. \A r \in Receipts : Cancelled(r) => launches'[r] = launches[r]
  BY <1>2
<1>7. Handlers' /\ OneOperation' /\ Replaced' /\ Checked'
  BY <1>1, <1>2, <1>3, <1>4, <1>5, <1>6, Moved
<1>8. OneCall'
  <2>1. \A v \in DOMAIN work \ {w} : Engaged(v) =>
          v[1][1] # o /\ TrialOf[v[1][1]] # TrialOf[o] /\ Engaged(v)'
    BY <1>1, OfHandler, RunTypes DEF OneCall, Engaged, Goes
  <2>2. \A v \in DOMAIN work' \ {w} : Engaged(v)' => Engaged(v) /\ work'[v] = work[v]
    BY <1>1 DEF Engaged, Goes
  <2>3. \A v \in DOMAIN work' : Engaged(v)' =>
          /\ call'[TrialOf[v[1][1]]] = "running"
          /\ launches'[v[1][1]] = IF work'[v].at \in {"reserved", "cleared"} THEN 0 ELSE 1
    BY <1>1, <1>2, <1>3, <2>1, <2>2, RunTypes DEF OneCall, Goes
  <2>4. \A u, v \in DOMAIN work' : Engaged(u)' /\ Engaged(v)' /\ u[1][1] = v[1][1] => u = v
    BY <1>1, <2>1, <2>2 DEF OneCall, Goes
  <2>5. \A r \in Receipts : launches'[r] <= 1 /\ (call'[TrialOf[r]] = "none" => launches'[r] = 0)
    <3>1. launches'[o] <= 1 /\ call'[TrialOf[o]] # "none"
      BY <1>2, <1>3
    <3>2. ASSUME NEW r \in Receipts \ {o}, call'[TrialOf[r]] = "none" PROVE call[TrialOf[r]] = "none"
      BY <3>2, <1>3, JobTypes
    <3> QED
      BY <3>1, <3>2, <1>2 DEF OneCall
  <2> QED
    BY <2>3, <2>4, <2>5 DEF OneCall
<1>9. StoredInOrder'
  <2>1. \A r \in Made : call'[TrialOf[r]] = "completed" <=> call[TrialOf[r]] = "completed"
    BY <1>3, JobTypes DEF Made
  <2>2. \A r \in Receipts : "generation" \in saved[r] => launches'[r] = launches[r]
    BY <1>2, <1>3 DEF StoredInOrder
  <2> QED
    BY <2>1, <2>2, MadeKept DEF StoredInOrder
<1> QED
  BY <1>1, <1>4, <1>7, <1>8, <1>9

\* The video is stored with its completed call, in one transaction.
LEMMA PersistsVideo ==
  ASSUME EvaluationInv, NEW w \in DOMAIN work, At(w, "checked"), Step(w, "stored"),
         Save(w[1][1], "generation"), call' = [call EXCEPT ![TrialOf[w[1][1]]] = "completed"],
         UNCHANGED <<job, slot, heir, passed, reviewed, launches>>
  PROVE  EvaluationInv'
<1> USE DEF EvaluationInv
<1> DEFINE o == w[1][1]
<1>1. Goes(w, "stored") /\ WorkTypes' /\ "stored" \in Places
  BY StepGoes DEF Places
<1>2. /\ saved' \in [Receipts -> SUBSET Results]
      /\ saved'[o] = saved[o] \cup {"generation"}
      /\ \A r \in Receipts : r # o => saved'[r] = saved[r]
  BY RunTypes DEF Save, RowTypes, Results, Roles
<1>3. /\ call' \in [Trials -> {"none", "running", "failed", "completed"}]
      /\ \A t \in Trials \ {TrialOf[o]} : call'[t] = call[t]
      /\ call'[TrialOf[o]] = "completed"
  BY RunTypes DEF RowTypes
<1>4. RowTypes'
  BY <1>2, <1>3 DEF RowTypes
<1>5. Engaged(w) /\ call[TrialOf[o]] = "running" /\ launches[o] = 1
  BY DEF At, Handlers, Engaged, OneCall
<1>6. ~Carrying(w)' /\ ~Engaged(w)'
  BY <1>1 DEF Carrying, Engaged, Goes
<1>7. Handlers' /\ OneOperation' /\ Replaced' /\ Checked'
  BY <1>1, <1>2, <1>3, <1>4, <1>5, <1>6, Moved
<1>8. OneCall'
  <2>1. \A v \in DOMAIN work' : Engaged(v)' =>
          v \in DOMAIN work \ {w} /\ Engaged(v) /\ work'[v] = work[v] /\ TrialOf[v[1][1]] # TrialOf[o]
    BY <1>1, <1>5, <1>6, OfHandler DEF Engaged, Goes, OneCall
  <2>2. \A v \in DOMAIN work' : Engaged(v)' => call'[TrialOf[v[1][1]]] = call[TrialOf[v[1][1]]]
    BY <2>1, <1>3, RunTypes
  <2>3. \A r \in Receipts : call'[TrialOf[r]] = "none" => call[TrialOf[r]] = "none"
    BY <1>3, JobTypes
  <2>4. \A v \in DOMAIN work' : Engaged(v)' =>
          /\ call'[TrialOf[v[1][1]]] = "running"
          /\ launches'[v[1][1]] = IF work'[v].at \in {"reserved", "cleared"} THEN 0 ELSE 1
    BY <2>1, <2>2 DEF OneCall
  <2>5. \A u, v \in DOMAIN work' : Engaged(u)' /\ Engaged(v)' /\ u[1][1] = v[1][1] => u = v
    BY <2>1 DEF OneCall
  <2> QED
    BY <2>3, <2>4, <2>5 DEF OneCall
<1>9. StoredInOrder'
  <2>1. o \in Made' /\ Made' = Made
    BY MadeKept, OfHandler
  <2>2. \A r \in Made \ {o} : call'[TrialOf[r]] = call[TrialOf[r]]
    BY <1>3, OfHandler, JobTypes DEF Made
  <2>3. \A r \in Receipts \ {o} : "generation" \in saved'[r] <=> r \in Made' /\ call'[TrialOf[r]] = "completed"
    BY <2>1, <2>2, <1>2 DEF StoredInOrder
  <2> QED
    BY <2>1, <2>3, <1>2, <1>3, <1>5 DEF StoredInOrder
<1> QED
  BY <1>1, <1>4, <1>7, <1>8, <1>9

\* A check or a preview is stored after what it is of.
LEMMA PersistsOf ==
  ASSUME EvaluationInv, NEW w \in DOMAIN work, Step(w, "stored"),
         NEW role \in {"qa", "preview"}, Save(w[1][1], role), w[1][2] = role, "generation" \in saved[w[1][1]],
         UNCHANGED <<job, slot, heir, reviewed, launches, call>>,
         \/ role = "qa" /\ passed' \in {passed, passed \cup {w[1][1]}}
         \/ role = "preview" /\ w[1][1] \in passed /\ UNCHANGED passed
  PROVE  EvaluationInv'
<1> USE DEF EvaluationInv
<1> DEFINE o == w[1][1]
<1>1. Goes(w, "stored") /\ WorkTypes' /\ "stored" \in Places
  BY StepGoes DEF Places
<1>2. /\ saved' \in [Receipts -> SUBSET Results]
      /\ saved'[o] = saved[o] \cup {role}
      /\ \A r \in Receipts : r # o => saved'[r] = saved[r]
  BY RunTypes DEF Save, RowTypes, Results, Roles
<1>3. passed \subseteq passed' /\ passed' \subseteq Receipts /\ (role = "qa" => passed' \ passed \subseteq {o})
      /\ (role # "qa" => passed' = passed)
  BY RunTypes DEF RowTypes
<1>4. RowTypes'
  BY <1>2, <1>3 DEF RowTypes
<1>5. ~Carrying(w)' /\ ~Engaged(w)' /\ ~Engaged(w)
  BY <1>1 DEF Carrying, Engaged, Goes
<1>6. Handlers' /\ OneOperation' /\ Replaced' /\ Checked'
  BY <1>1, <1>2, <1>3, <1>4, <1>5, Moved
<1>7. OneCall'
  BY <1>1, <1>5 DEF OneCall, Engaged, Goes
<1>8. StoredInOrder'
  BY <1>2, <1>3, MadeKept DEF StoredInOrder, Checked
<1> QED
  BY <1>1, <1>4, <1>6, <1>7, <1>8

\* A cancellation ends the jobs, so no handler of the trial holds its lease.
LEMMA HoldsUncancelled ==
  ASSUME WorkTypes, Settled, NEW w \in DOMAIN work, Holds(w)
  PROVE  ~Cancelled(w[1][1])
  BY RunTypes, JobTypes DEF Settled, Holds, Serves

LEMMA GenerationSteps ==
  ASSUME EvaluationInv, Settled, NEW w \in DOMAIN work,
         \/ BeginGeneration(w) \/ Reserve(w) \/ Clear(w) \/ Launch(w) \/ Return(w) \/ Check(w)
         \/ PersistGeneration(w)
  PROVE  EvaluationInv'
<1> USE DEF At
<1>1. \A place : place \in {"stored", "spoiled", "kept", "failing"} /\ Step(w, place)
          /\ UNCHANGED <<job, slot, heir, passed, reviewed, launches, saved>>
          /\ (call' = call \/ (Engaged(w) /\ FailCall(w)))
        => EvaluationInv'
  BY Retires
<1>2. work[w].at \in {"reserved", "cleared", "launched", "checked"} => w[1][2] = "generation" /\ Engaged(w)
  BY DEF EvaluationInv, Handlers, Engaged
<1>3. CASE BeginGeneration(w)
  BY <1>3, <1>1, Readies DEF BeginGeneration, Authority, Rows
<1>4. CASE Reserve(w)
  <2>1. CASE Step(w, "failing") /\ UNCHANGED call
    BY <1>4, <2>1, <1>1 DEF Reserve, Authority
  <2>2. CASE Step(w, "reserved") /\ Guard(w) /\ call[TrialOf[w[1][1]]] = "none"
             /\ call' = [call EXCEPT ![TrialOf[w[1][1]]] = "running"]
    <3>1. Carrying(w) /\ ~Engaged(w)
      BY <1>4 DEF Reserve, Carrying, Engaged
    <3> QED
      BY <1>4, <2>2, <3>1, Proceeds DEF Reserve, Authority
  <2> QED
    BY <1>4, <2>1, <2>2 DEF Reserve
<1>5. CASE Launch(w)
  <2>1. CASE Step(w, "failing") /\ FailCall(w) /\ UNCHANGED launches
    BY <1>5, <2>1, <1>1, <1>2 DEF Launch, Authority
  <2>2. CASE /\ Step(w, "launched") /\ Holds(w) /\ UNCHANGED call
             /\ launches' = [launches EXCEPT ![w[1][1]] = @ + 1]
    <3>1. ~Cancelled(w[1][1])
      BY <2>2, HoldsUncancelled DEF EvaluationInv
    <3>2. /\ work[w].at = "cleared" /\ UNCHANGED <<job, slot, heir, passed, reviewed, saved>>
          /\ w[1][2] = "generation" /\ Engaged(w) /\ Carrying(w)
      BY <1>5, <1>2 DEF Launch, Authority, Carrying
    <3> QED
      BY <2>2, <3>1, <3>2, Proceeds
  <2> QED
    BY <1>5, <2>1, <2>2 DEF Launch
<1>9. CASE Clear(w)
  <2>1. CASE Step(w, "failing") /\ FailCall(w)
    BY <1>9, <2>1, <1>1, <1>2 DEF Clear, Authority
  <2>2. CASE Step(w, "cleared") /\ UNCHANGED call
    BY <1>9, <2>2, <1>2, Proceeds DEF Clear, Authority, Carrying
  <2> QED
    BY <1>9, <2>1, <2>2 DEF Clear
<1>6. CASE Return(w)
  <2>1. CASE FailCall(w) /\ (Step(w, "spoiled") \/ Step(w, "failing"))
    BY <1>6, <2>1, <1>1, <1>2 DEF Return, Authority
  <2>2. CASE Step(w, "staged") /\ UNCHANGED call
    BY <1>6, <2>2, <1>2, Proceeds DEF Return, Authority, Carrying
  <2> QED
    BY <1>6, <2>1, <2>2 DEF Return
<1>7. CASE Check(w)
  <2>1. Engaged(w)
    BY <1>7 DEF Check, Engaged
  <2>2. CASE FailCall(w) /\ Step(w, "spoiled")
    BY <1>7, <2>1, <2>2, <1>1 DEF Check, Authority
  <2>3. CASE Step(w, "checked") /\ UNCHANGED call
    BY <1>7, <2>1, <2>3, Proceeds DEF Check, Authority, Carrying
  <2> QED
    BY <1>7, <2>2, <2>3 DEF Check
<1>8. CASE PersistGeneration(w)
  BY <1>8, <1>1, PersistsVideo DEF PersistGeneration, Authority
<1> QED
  BY <1>3, <1>4, <1>5, <1>6, <1>7, <1>8, <1>9

\* A preview stands staged without being engaged in the call.
LEMMA Stages ==
  ASSUME EvaluationInv, NEW w \in DOMAIN work, Step(w, "staged"), w[1][2] = "preview",
         UNCHANGED <<job, slot, heir, passed, reviewed, launches, saved, call>>
  PROVE  EvaluationInv'
<1> USE DEF EvaluationInv
<1>1. Goes(w, "staged") /\ WorkTypes' /\ "staged" \in Places
  BY StepGoes DEF Places
<1>2. ~Carrying(w)' /\ ~Engaged(w)'
  BY DEF Carrying, Engaged
<1>3. RowTypes'
  BY DEF RowTypes
<1>4. Handlers' /\ OneOperation' /\ Replaced' /\ Checked'
  BY <1>1, <1>2, <1>3, Moved
<1>5. OneCall'
  BY <1>1, <1>2 DEF OneCall, Engaged, Goes
<1>6. StoredInOrder'
  BY MadeKept DEF StoredInOrder
<1> QED
  BY <1>1, <1>3, <1>4, <1>5, <1>6

LEMMA OtherSteps ==
  ASSUME EvaluationInv, NEW w \in DOMAIN work,
         \/ Keep(w) \/ PinQuarantine(w) \/ BeginQa(w) \/ CommitQa(w)
         \/ BeginPreview(w) \/ Mux(w) \/ CommitPreview(w)
  PROVE  EvaluationInv'
<1> USE DEF At
<1>1. \A place : place \in {"stored", "spoiled", "kept", "failing"} /\ Step(w, place)
          /\ UNCHANGED <<job, slot, heir, passed, reviewed, launches, call>>
          /\ (saved' = saved \/ Save(w[1][1], "quarantine"))
        => EvaluationInv'
  BY Retires
<1>2. CASE Keep(w)
  BY <1>2, <1>1 DEF Keep, Authority
<1>3. CASE PinQuarantine(w)
  BY <1>3, <1>1 DEF PinQuarantine, Authority
<1>4. CASE BeginQa(w)
  BY <1>4, <1>1, Readies DEF BeginQa, Authority, Rows, Checkable
<1>5. CASE CommitQa(w)
  BY <1>5, <1>1, PersistsOf DEF CommitQa, Authority, Checkable
<1>6. CASE BeginPreview(w)
  BY <1>6, <1>1, Readies DEF BeginPreview, Authority, Rows, Previewable, Checkable
<1>7. CASE Mux(w)
  BY <1>7, <1>1, Stages DEF Mux, Authority
<1>8. CASE CommitPreview(w)
  BY <1>8, <1>1, PersistsOf DEF CommitPreview, Authority, Previewable, Checkable
<1> QED
  BY <1>2, <1>3, <1>4, <1>5, <1>6, <1>7, <1>8

-----------------------------------------------------------------------------
LEMMA EvaluationStep == EvaluationInv /\ Settled /\ [EvaluationNext]_vars => EvaluationInv'
<1> SUFFICES ASSUME EvaluationInv, Settled, [EvaluationNext]_vars PROVE EvaluationInv'
  OBVIOUS
<1>1. CASE Request
  BY <1>1, StartSteps, DecisionSteps, CheckSteps, QuietSteps DEF Request
<1>2. ASSUME NEW j \in Jobs, Claim(j) \/ Lapse(j) \/ Recover(j) PROVE EvaluationInv'
  BY <1>2, ClaimStep, QuietSteps
<1>3. ASSUME NEW w \in DOMAIN work, Handler(w) \/ Crash(w) PROVE EvaluationInv'
  BY <1>3, GenerationSteps, OtherSteps, QuietSteps DEF Handler
<1>4. CASE UNCHANGED vars
  BY <1>4, QuietSteps
<1> QED
  BY <1>1, <1>2, <1>3, <1>4 DEF EvaluationNext

\* A job is put into the queue for a trial that was not cancelled before.
LEMMA SettledStep == EvaluationInv /\ Settled /\ [EvaluationNext]_vars => Settled'
<1> SUFFICES ASSUME EvaluationInv, Settled, [EvaluationNext]_vars PROVE Settled'
  OBVIOUS
<1> USE DEF EvaluationInv
<1>1. ASSUME NEW r \in Receipts, NEW role \in Roles, Enqueue(r, role), ~Cancelled(r), UNCHANGED saved
      PROVE  Settled'
  <2>1. \A j \in Jobs \ {<<r, role>>} : job'[j] = job[j]
    BY <1>1, EnqueueMakes
  <2>2. ASSUME NEW q \in Receipts, NEW part \in Roles, Cancelled(q)
        PROVE  job'[<<q, part>>] = job[<<q, part>>]
    BY <1>1, <2>1, <2>2, JobTypes
  <2> QED
    BY <1>1, <2>2 DEF Settled, Cancelled
<1>2. ASSUME NEW r \in Receipts, Start(r) \/ (\E p \in Receipts : Replace(p, r)) \/ CreateQa(r) \/ CreatePreview(r)
      PROVE  Settled'
  <2>1. ~Cancelled(r) /\ UNCHANGED saved
    BY <1>2, MadeIs DEF Start, Replace, CreateQa, CreatePreview, Current, Rows, Startable, OneOperation, Cancelled
  <2> QED
    BY <1>1, <1>2, <2>1 DEF Start, Replace, CreateQa, CreatePreview, Roles
<1>3. ASSUME NEW r \in Receipts, Cancel(r)
      PROVE  Settled'
  <2>1. /\ \A q \in Receipts \ {r} : saved'[q] = saved[q]
        /\ \A j \in Jobs : job'[j].status \notin {"pending", "running"}
                            \/ (j[1] # r /\ job'[j] = job[j])
    BY <1>3, JobTypes DEF Cancel, Save, RowTypes
  <2> QED
    BY <2>1, JobTypes DEF Settled, Cancelled
<1>4. ASSUME UNCHANGED job, \A r \in Receipts : saved'[r] \ saved[r] \subseteq Results \ {"cancellation"}
      PROVE  Settled'
  BY <1>4 DEF Settled, Cancelled
<1>5. ASSUME UNCHANGED saved, \A j \in Jobs : job'[j].status \in {"pending", "running"}
                                            => job[j].status \in {"pending", "running"}
      PROVE  Settled'
  BY <1>5, JobTypes DEF Settled, Cancelled
<1>6. ASSUME NEW j \in Jobs, Claim(j) \/ Lapse(j) \/ Recover(j)
      PROVE  Settled'
  <2>1. UNCHANGED saved /\ \A i \in Jobs : job'[i].status \in {"pending", "running"}
                                        => job[i].status \in {"pending", "running"}
    BY <1>6, JobTypes DEF Claim, Lapse, Recover, Rows, RowTypes
  <2> QED
    BY <1>5, <2>1
<1>7. ASSUME NEW w \in DOMAIN work, Finish(w) \/ Crash(w)
      PROVE  Settled'
  <2>1. UNCHANGED saved /\ \A i \in Jobs : job'[i].status \in {"pending", "running"}
                                        => job[i].status \in {"pending", "running"}
    BY <1>7, RunTypes, JobTypes DEF Finish, Crash, Rows, RowTypes
  <2> QED
    BY <1>5, <2>1
<1>8. ASSUME NEW w \in DOMAIN work, Handler(w), ~Finish(w)
      PROVE  Settled'
  <2>1. UNCHANGED job
    BY <1>8 DEF Handler, BeginGeneration, Reserve, Clear, Launch, Return, Check, PersistGeneration, Keep,
       PinQuarantine, BeginQa, CommitQa, BeginPreview, Mux, CommitPreview
  <2>2. UNCHANGED saved \/ \E role \in Results \ {"cancellation"} : Save(w[1][1], role)
    BY <1>8 DEF Handler, BeginGeneration, Reserve, Clear, Launch, Return, Check, PersistGeneration, Keep,
       PinQuarantine, BeginQa, CommitQa, BeginPreview, Mux, CommitPreview, Finish, Rows, Results, Roles
  <2>3. \A r \in Receipts : saved'[r] \ saved[r] \subseteq Results \ {"cancellation"}
    BY <2>2, RunTypes DEF Save, RowTypes
  <2> QED
    BY <1>4, <2>1, <2>3
<1>9. ASSUME NEW r \in Receipts, Review(r) \/ Admit(r)
      PROVE  Settled'
  <2>1. UNCHANGED job /\ \A q \in Receipts : saved'[q] \ saved[q] \subseteq Results \ {"cancellation"}
    BY <1>9 DEF Review, Admit, Save, RowTypes, Results
  <2> QED
    BY <1>4, <2>1
<1>10. CASE Import \/ AdoptBatch \/ UNCHANGED vars \/ \E x \in Receipts \cup {Plan} : Withdraw(x)
  <2>1. UNCHANGED <<saved, job>>
    BY <1>10 DEF Import, AdoptBatch, Withdraw, vars, Rows
  <2> QED
    BY <1>4, <2>1
<1> QED
  BY <1>2, <1>3, <1>6, <1>7, <1>8, <1>9, <1>10 DEF EvaluationNext, Request

LEMMA EvaluationStarts == EvaluationInit => EvaluationInv /\ Settled
<1> SUFFICES ASSUME EvaluationInit PROVE EvaluationInv /\ Settled
  OBVIOUS
<1> USE DEF EvaluationInit
<1>1. RowTypes
  BY DEF RowTypes, Statuses
<1>2. WorkTypes /\ Handlers
  BY DEF WorkTypes, Handlers
<1>3. Made = {}
  BY JobTypes DEF Made
<1>4. OneOperation
  BY <1>3, JobTypes DEF OneOperation
<1>5. OneCall /\ Replaced /\ Checked /\ StoredInOrder
  BY <1>3, JobTypes DEF OneCall, Replaced, Checked, StoredInOrder
<1>6. Settled
  BY DEF Settled, Cancelled
<1> QED
  BY <1>1, <1>2, <1>4, <1>5, <1>6 DEF EvaluationInv

LEMMA AlwaysEvaluation == EvaluationSpec => [](EvaluationInv /\ Settled)
  BY EvaluationStarts, EvaluationStep, SettledStep, PTL DEF EvaluationSpec

\* However often its job is taken up again, a trial starts one child process
\* at most (reserve under the ledger key), and a
\* scene of the batch one in all: what was replaced never started any.
THEOREM OneChildOnly == EvaluationSpec => []OneChild
<1>1. EvaluationInv => OneChild
  <2> SUFFICES ASSUME EvaluationInv PROVE OneChild
    OBVIOUS
  <2>1. \A s \in Granted, p \in Receipts :
          slot[s] = p /\ launches[p] > 0 => heir[p] = NoReceipt
    BY DEF EvaluationInv, Replaced, RowTypes
  <2>2. \A r \in Receipts : launches[r] <= 1
    BY DEF EvaluationInv, OneCall
  <2> QED
    BY <2>1, <2>2, EvaluationAssumption DEF OneChild, Allowed, EvaluationInv, RowTypes
<1> QED
  BY <1>1, AlwaysEvaluation, PTL

\* The rows of a trial are whole and in order.
THEOREM RowsInOrder == EvaluationSpec => []StoredInOrder
<1>1. EvaluationInv => StoredInOrder
  BY DEF EvaluationInv
<1> QED
  BY <1>1, AlwaysEvaluation, PTL

-----------------------------------------------------------------------------
(* What is stored, by whom, and on whose authority.                        *)

\* A handler stores with facts that are those it saw when it began.
LEMMA StoredByHandler ==
  ASSUME EvaluationInv, NEW w \in DOMAIN work, Handler(w), NEW r \in Receipts,
         NEW role \in saved'[r] \ saved[r], role # "quarantine"
  PROVE  /\ w[1] = <<r, role>> /\ role \in Roles /\ Guard(w)
         /\ r \notin withdrawn /\ Plan \notin withdrawn
<1> USE JobTypes, RunTypes DEF EvaluationInv
<1>1. CASE PersistGeneration(w)
  <2>1. w[1][2] = "generation" /\ Carrying(w)
    BY <1>1 DEF PersistGeneration, At, Handlers, Carrying, Engaged
  <2>2. w[1][1] = r /\ role = "generation" /\ Guard(w)
    BY <1>1 DEF PersistGeneration, Save, RowTypes
  <2>3. w[1][1] \notin work[w].seen.withdrawn /\ Plan \notin work[w].seen.withdrawn
    BY <2>1 DEF Handlers
  <2>4. work[w].seen.withdrawn = withdrawn
    BY <2>2 DEF Guard, Facts
  <2> QED
    BY <2>1, <2>2, <2>3, <2>4 DEF Roles
<1>2. CASE CommitQa(w)
  <2>1. w[1][1] = r /\ role = "qa" /\ Guard(w) /\ Checkable(w) /\ w[1][2] = "qa"
    BY <1>2 DEF CommitQa, Save, RowTypes
  <2> QED
    BY <2>1 DEF Checkable, Current, Roles
<1>3. CASE CommitPreview(w)
  <2>1. w[1][1] = r /\ role = "preview" /\ Guard(w) /\ Previewable(w) /\ w[1][2] = "preview"
    BY <1>3 DEF CommitPreview, Save, RowTypes
  <2> QED
    BY <2>1 DEF Previewable, Checkable, Current, Roles
<1>4. CASE PinQuarantine(w) \/ Mux(w)
  BY <1>4 DEF PinQuarantine, Mux, Save, RowTypes
<1>5. CASE UNCHANGED saved
  BY <1>5
<1> QED
  BY <1>1, <1>2, <1>3, <1>4, <1>5
  DEF Handler, BeginGeneration, Reserve, Clear, Launch, Return, Check, Keep, BeginQa, BeginPreview, Finish, Rows

LEMMA StoredByRequest ==
  ASSUME EvaluationInv, Request, NEW r \in Receipts, NEW role \in saved'[r] \ saved[r]
  PROVE  role = "cancellation" \/ (role = "admission" /\ Current(r) /\ Owned(r))
<1>1. ASSUME NEW q \in Receipts, Cancel(q) PROVE role = "cancellation"
  BY <1>1 DEF Cancel, Save, EvaluationInv, RowTypes
<1>2. ASSUME NEW q \in Receipts, Admit(q) PROVE role = "admission" /\ Current(r) /\ Owned(r)
  BY <1>2 DEF Admit, Save, EvaluationInv, RowTypes, Observable
<1>3. CASE UNCHANGED saved
  BY <1>3
<1> QED
  BY <1>1, <1>2, <1>3
  DEF Request, Start, Replace, CreateQa, CreatePreview, Review, Withdraw, Import, AdoptBatch, Rows

LEMMA StoredBy ==
  ASSUME EvaluationInv, EvaluationNext, NEW r \in Receipts, NEW role \in saved'[r] \ saved[r]
  PROVE  \/ role \in {"cancellation", "quarantine"}
         \/ role = "admission" /\ Current(r) /\ Owned(r)
         \/ /\ role \in Roles /\ r \notin withdrawn /\ Plan \notin withdrawn
            /\ \E w \in DOMAIN work : w[1] = <<r, role>> /\ Guard(w)
<1>1. CASE Request
  BY <1>1, StoredByRequest
<1>2. ASSUME NEW w \in DOMAIN work, Handler(w), role # "quarantine"
      PROVE  /\ role \in Roles /\ r \notin withdrawn /\ Plan \notin withdrawn
             /\ w[1] = <<r, role>> /\ Guard(w)
  BY <1>2, StoredByHandler
<1>3. CASE UNCHANGED saved
  BY <1>3
<1> QED
  BY <1>1, <1>2, <1>3 DEF EvaluationNext, Claim, Lapse, Recover, Crash, Rows

LEMMA StartedBy ==
  ASSUME EvaluationInv, Settled, EvaluationNext, NEW r \in Receipts, launches'[r] # launches[r]
  PROVE  ~Cancelled(r)
<1>1. ASSUME NEW w \in DOMAIN work, Launch(w) PROVE ~Cancelled(r)
  <2>1. Holds(w) /\ r = w[1][1]
    BY <1>1, RunTypes DEF Launch, EvaluationInv, RowTypes
  <2> QED
    BY <2>1, HoldsUncancelled DEF EvaluationInv
<1>2. CASE UNCHANGED launches
  BY <1>2
<1> QED
  BY <1>1, <1>2
  DEF EvaluationNext, Request, Handler, Start, Replace, Cancel, CreateQa, CreatePreview, Review, Admit,
      Withdraw, Import, AdoptBatch, Claim, Lapse, Recover, Crash, BeginGeneration, Reserve, Clear, Return, Check,
      PersistGeneration, Keep, PinQuarantine, BeginQa, CommitQa, BeginPreview, Mux, CommitPreview, Finish,
      Rows, Authority

\* Whatever its handlers were doing: every guard looks for the cancellation, and
\* it ends the job under whose lease a child is started.
THEOREM CancellationFinal == EvaluationSpec => CancelIsFinal
<1>1. EvaluationInv /\ Settled /\ [EvaluationNext]_vars =>
        [\A r \in Receipts : Cancelled(r) =>
           saved'[r] \ saved[r] \subseteq {"quarantine"} /\ launches'[r] = launches[r]]_vars
  <2> SUFFICES ASSUME EvaluationInv, Settled, EvaluationNext, NEW r \in Receipts, Cancelled(r)
               PROVE  saved'[r] \ saved[r] \subseteq {"quarantine"} /\ launches'[r] = launches[r]
    OBVIOUS
  <2>1. ASSUME NEW role \in saved'[r] \ saved[r] PROVE role = "quarantine"
    BY <2>1, StoredBy DEF Cancelled, Current, Guard
  <2> QED
    BY <2>1, StartedBy
<1> QED
  BY <1>1, AlwaysEvaluation, PTL DEF EvaluationSpec, CancelIsFinal

\* A handler compares the facts it saw before it worked with those of its
\* transaction, and a request reads and writes in one.
THEOREM AuthorityHeld == EvaluationSpec => StoredWithAuthority
<1>1. EvaluationInv /\ [EvaluationNext]_vars =>
        [\A r \in Receipts : \A role \in saved'[r] \ saved[r] :
          role \notin {"cancellation", "quarantine"} =>
             /\ r \notin withdrawn /\ Plan \notin withdrawn /\ Owned(r)
             /\ role \in Roles => \E w \in DOMAIN work : w[1] = <<r, role>> /\ Serves(w)]_vars
  <2> SUFFICES ASSUME EvaluationInv, EvaluationNext, NEW r \in Receipts,
                      NEW role \in saved'[r] \ saved[r], role \notin {"cancellation", "quarantine"}
               PROVE  /\ r \notin withdrawn /\ Plan \notin withdrawn /\ Owned(r)
                      /\ role \in Roles => \E w \in DOMAIN work : w[1] = <<r, role>> /\ Serves(w)
    OBVIOUS
  <2>1. CASE role = "admission" /\ Current(r) /\ Owned(r)
    BY <2>1 DEF Current, Roles
  <2>2. ASSUME NEW w \in DOMAIN work, w[1] = <<r, role>>, Guard(w),
               r \notin withdrawn, Plan \notin withdrawn
        PROVE  Serves(w) /\ Owned(r)
    BY <2>2 DEF Guard
  <2> QED
    BY <2>1, <2>2, StoredBy
<1> QED
  BY <1>1, AlwaysEvaluation, PTL DEF EvaluationSpec, StoredWithAuthority

=============================================================================
