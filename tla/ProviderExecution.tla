------------------------- MODULE ProviderExecution -------------------------
(***************************************************************************)
(* ProviderExecutionService.execute (app/provider_execution.py)            *)
(* over the ledger: callers in the API and in worker processes reserve,    *)
(* send the request to the provider, and reconcile; any of them may crash  *)
(* between two steps.  An operator uses the provider-call and budget       *)
(* endpoints at the same time.  The provider is opaque: a request returns  *)
(* some result or fails.                                                   *)
(***************************************************************************)
EXTENDS ProviderLedger

CONSTANTS
    Callers      \* concurrent executions

VARIABLES
    at,        \* where each caller is in execute
    key,       \* idempotency key of its request
    result,    \* what the provider returned to it, None before or on an error
    stored,    \* what persist_result saved, per key
    sent,      \* history: requests sent to the provider, per key
    answers    \* history: results execute returned, per key

callers == <<at, key, result>>
history == <<sent, answers>>
execVars == <<ledger, callers, stored, history>>

ExecTypeOK ==
    /\ LedgerTypeOK
    /\ at \in [Callers -> {"idle", "owner", "sending", "failed", "returned"}]
    /\ key \in [Callers -> Keys \cup {None}]
    /\ result \in [Callers -> Payloads \cup {None}]
    /\ stored \in [Keys -> Payloads \cup {None}]
    /\ sent \in [Keys -> Nat]
    /\ answers \in [Keys -> SUBSET Payloads]

ExecInit ==
    /\ LedgerInit
    /\ at = [c \in Callers |-> "idle"]
    /\ key = [c \in Callers |-> None]
    /\ result = [c \in Callers |-> None]
    /\ stored = [k \in Keys |-> None]
    /\ sent = [k \in Keys |-> 0]
    /\ answers = [k \in Keys |-> {}]

Enters(c, there) == at' = [at EXCEPT ![c] = there]

Leaves(c) ==
    /\ Enters(c, "idle")
    /\ key' = [key EXCEPT ![c] = None]
    /\ result' = [result EXCEPT ![c] = None]

-----------------------------------------------------------------------------
\* Mutant: a failed call is started again under its key.
BeginAgain(c, k, i, cost) ==
    /\ at[c] = "idle"
    /\ \/ ReserveExecution(k, i, cost, FALSE)
       \/ /\ status[k] = "failed" /\ identity[k] = i
          /\ status' = [status EXCEPT ![k] = "running"]
          /\ UNCHANGED <<identity, estimate, actual, payload, policy>>
    /\ key' = [key EXCEPT ![c] = k]
    /\ Enters(c, "owner")
    /\ UNCHANGED <<result, stored, sent, answers>>

\* reserve_execution makes the caller the owner of a new running call.
Begin(c, k, i, cost) ==
    /\ at[c] = "idle"
    /\ ReserveExecution(k, i, cost, FALSE)
    /\ key' = [key EXCEPT ![c] = k]
    /\ Enters(c, "owner")
    /\ UNCHANGED <<result, stored, sent, answers>>

\* The key is in use for this very request and its call completed with a
\* result: the caller gets that one.
Replay(c, k, i) ==
    /\ at[c] = "idle"
    /\ identity[k] = i /\ status[k] = "completed" /\ payload[k] # None
    /\ answers' = [answers EXCEPT ![k] = @ \cup {payload[k]}]
    /\ UNCHANGED <<ledger, callers, stored, sent>>

\* Everything else execute may meet at the reservation ends in an error and
\* changes nothing: a budget limit, a key of another request, an active call
\* (ProviderExecutionInProgress), a call without a replayable result.
Refused(c, k, i, cost) ==
    /\ at[c] = "idle"
    /\ \/ status[k] = None /\ (ActiveFor(i) # {} \/ ~WithinBudgets(ProjectOf[i], cost, FALSE))
       \/ status[k] # None /\ (identity[k] # i \/ payload[k] = None)
    /\ UNCHANGED execVars

\* action(): the request leaves for the provider.
Send(c) ==
    /\ at[c] = "owner"
    /\ sent' = [sent EXCEPT ![key[c]] = @ + 1]
    /\ Enters(c, "sending")
    /\ UNCHANGED <<ledger, key, result, stored, answers>>

Answer(c, r) ==
    /\ at[c] = "sending"
    /\ result' = [result EXCEPT ![c] = r]
    /\ Enters(c, "returned")
    /\ UNCHANGED <<ledger, key, stored, history>>

\* before_action, the provider or encode_result raised an error.
Raise(c) ==
    /\ at[c] \in {"owner", "sending", "returned"}
    /\ Enters(c, "failed")
    /\ UNCHANGED <<ledger, key, result, stored, history>>

\* _finish_failure, with the error raised again.
ReconcileFailure(c) ==
    /\ at[c] = "failed"
    /\ \/ Finish(key[c], "failed", None, None)
       \/ status[key[c]] \in Closed /\ UNCHANGED ledger
    /\ Leaves(c)
    /\ UNCHANGED <<stored, history>>

\* finish with the result, which persist_result saves in the same transaction.
ReconcileResult(c) ==
    /\ at[c] = "returned"
    /\ Finish(key[c], "completed", None, result[c])
    /\ stored' = [stored EXCEPT ![key[c]] = result[c]]
    /\ answers' = [answers EXCEPT ![key[c]] = @ \cup {result[c]}]
    /\ Leaves(c)
    /\ UNCHANGED sent

\* Mutant: the result is returned though it could not be saved.
ResultReturned(c) ==
    /\ at[c] = "returned"
    /\ answers' = [answers EXCEPT ![key[c]] = @ \cup {result[c]}]
    /\ Leaves(c)
    /\ UNCHANGED <<ledger, stored, sent>>

\* The operator closed the call meanwhile, or persist_result raised and the
\* transaction rolled back: execute ends in an error, the result is not used.
ResultLost(c) ==
    /\ at[c] = "returned"
    /\ Leaves(c)
    /\ UNCHANGED <<ledger, stored, history>>

Crash(c) ==
    /\ at[c] # "idle"
    /\ Leaves(c)
    /\ UNCHANGED <<ledger, stored, history>>

-----------------------------------------------------------------------------
\* POST .../provider-calls/reserve and .../complete (which carries no result),
\* PUT .../budget.
Operate ==
    /\ \/ \E k \in Keys, i \in Identities, cost \in Costs : Reserve(k, i, cost, FALSE)
       \/ \E k \in Keys, outcome \in Closed, cost \in Costs \cup {None} :
             Finish(k, outcome, cost, None)
       \/ \E s \in Scopes, p \in Policies : SetPolicy(s, p)
    /\ UNCHANGED <<callers, stored, history>>

Execute(c) ==
    \/ \E k \in Keys, i \in Identities, cost \in Costs :
          Begin(c, k, i, cost) \/ Replay(c, k, i) \/ Refused(c, k, i, cost)
    \/ Send(c) \/ Raise(c)
    \/ \E r \in Payloads : Answer(c, r)
    \/ ReconcileFailure(c) \/ ReconcileResult(c) \/ ResultLost(c)
    \/ Crash(c)

ExecNext == Operate \/ \E c \in Callers : Execute(c)

ExecSpec == ExecInit /\ [][ExecNext]_execVars

-----------------------------------------------------------------------------
(***************************************************************************)
(* What a caller of execute may rely on, across crashes and the operator's *)
(* own use of the ledger.                                                  *)
(***************************************************************************)
\* A request leaves for the provider at most once per idempotency key: no
\* crash, retry or concurrent caller sends it again.
SentOnce == \A k \in Keys : sent[k] <= 1

\* While one caller waits for the provider nobody sends the same request
\* under another key, unless somebody closed the first call in the ledger.
OneSenderPerIdentity ==
    \A c, d \in Callers :
       /\ c # d /\ at[c] = "sending" /\ at[d] = "sending"
       /\ identity[key[c]] = identity[key[d]]
       => status[key[c]] \in Closed \/ status[key[d]] \in Closed

\* A request whose outcome is unknown, its caller having crashed, is never
\* sent again blindly: a call in the ledger that is still open stops it.  (A
\* caller whose own call an operator has closed does not notice and sends.)
NoBlindResend ==
    [][\A k, m \in Keys :
          /\ sent'[k] > sent[k] /\ status[k] \notin Closed
          /\ m # k /\ identity[m] = identity[k] /\ sent[m] > 0
          => status[m] \in Closed]_execVars

\* All answers for one key are one result, the one in the ledger and the one
\* persist_result saved: none is handed out before or without both.
AnswersAgree ==
    \A k \in Keys : answers[k] \subseteq {payload[k]} /\ stored[k] = payload[k]
=============================================================================
