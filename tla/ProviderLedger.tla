--------------------------- MODULE ProviderLedger ---------------------------
(***************************************************************************)
(* The provider-call ledger of services/api/app/budget.py: the tables      *)
(* provider_call_records and budget_policies, and the methods that change  *)
(* them.  Each runs under one immediate write transaction.                 *)
(***************************************************************************)
EXTENDS Integers, FiniteSets, Functions

CONSTANTS
    Keys,        \* idempotency keys; the column is unique over all projects
    Identities,  \* _execution_identity: project, operation, model, input, ...
    Projects, ProjectOf,  \* the project of an identity
    Currencies, Amounts,
    Policies,    \* what PUT .../budget may save
    DefaultPolicy,
    Payloads,    \* result_payload values
    Global,      \* the scope of the workspace-wide policy
    Unknown,     \* a UsageCost without an amount
    None         \* no value: no record, actual cost, payload, policy or limit

Prices == [amount : Amounts, currency : Currencies]
Costs == Prices \cup {Unknown}
Scopes == Projects \cup {Global}
Limits(S) == S \cup {None}
Active == {"reserved", "running"}
Closed == {"completed", "failed", "cancelled"}

ASSUME ProviderLedgerAssumption ==
    /\ IsFiniteSet(Keys)
    /\ ProjectOf \in [Identities -> Projects]
    /\ Global \notin Projects
    /\ Amounts \subseteq Nat
    /\ Unknown \notin Prices
    /\ None \notin Costs \cup Payloads \cup Policies \cup Identities \cup Nat \cup Active \cup Closed
    /\ Policies \cup {DefaultPolicy} \subseteq
          [currency : Currencies, maxCalls : Limits(Nat), maxAmount : Limits(Nat),
           allowUnknown : BOOLEAN]

VARIABLES
    status,    \* status of the key's record, None before it is created
    identity,  \* what the key was first used for
    estimate,  \* estimated_cost
    actual,    \* actual_cost
    payload,   \* result_payload
    policy     \* the saved budget policy of each scope

records == <<status, identity, estimate, actual, payload>>
ledger == <<status, identity, estimate, actual, payload, policy>>

LedgerTypeOK ==
    /\ status \in [Keys -> Active \cup Closed \cup {None}]
    /\ identity \in [Keys -> Identities \cup {None}]
    /\ estimate \in [Keys -> Costs \cup {None}]
    /\ actual \in [Keys -> Costs \cup {None}]
    /\ payload \in [Keys -> Payloads \cup {None}]
    /\ policy \in [Scopes -> Policies \cup {None}]

LedgerInit ==
    /\ status = [k \in Keys |-> None]
    /\ identity = [k \in Keys |-> None]
    /\ estimate = [k \in Keys |-> None]
    /\ actual = [k \in Keys |-> None]
    /\ payload = [k \in Keys |-> None]
    /\ policy = [s \in Scopes |-> None]

-----------------------------------------------------------------------------
(* snapshot and enforce_reservation.                                       *)

InScope(k, s) == status[k] # None /\ (s = Global \/ ProjectOf[identity[k]] = s)

\* A cancelled call counts only for what it was actually charged.
Counts(k) == ~(status[k] = "cancelled" /\ actual[k] = None)

CountedCalls(s) == {k \in Keys : InScope(k, s) /\ Counts(k)}

CostOf(k) == IF actual[k] # None THEN actual[k] ELSE estimate[k]

KnownCost(k, currency) == CostOf(k) # Unknown /\ CostOf(k).currency = currency

KnownCalls(s, currency) == {k \in CountedCalls(s) : KnownCost(k, currency)}

KnownAmount(s, currency) ==
    SumFunction([k \in KnownCalls(s, currency) |-> CostOf(k).amount])

\* Mutant: the new call's own cost is not added.
PermitsSpent(p, s, cost, ignoreUnknown) ==
    p.maxAmount # None => KnownAmount(s, p.currency) <= p.maxAmount

Permits(p, s, cost, ignoreUnknown) ==
    /\ cost = Unknown => p.allowUnknown
    /\ \/ \A k \in CountedCalls(s) : KnownCost(k, p.currency)
       \/ p.allowUnknown \/ ignoreUnknown
    /\ cost # Unknown => cost.currency = p.currency
    /\ p.maxCalls # None => Cardinality(CountedCalls(s)) + 1 <= p.maxCalls
    /\ cost # Unknown /\ p.maxAmount # None =>
          KnownAmount(s, p.currency) + cost.amount <= p.maxAmount

\* _enforce_scopes: the global ceiling and the project's, or the default for
\* the project when neither is saved.
WithinBudgets(p, cost, ignoreUnknown) ==
    /\ \A s \in {Global, p} : policy[s] # None => Permits(policy[s], s, cost, ignoreUnknown)
    /\ policy[Global] = None /\ policy[p] = None =>
          Permits(DefaultPolicy, p, cost, ignoreUnknown)

-----------------------------------------------------------------------------
(* The methods.  A key in use for the same identity returns its record and *)
(* changes nothing; for another identity it is refused.                    *)

Create(k, i, cost, initial) ==
    /\ status[k] = None
    /\ status' = [status EXCEPT ![k] = initial]
    /\ identity' = [identity EXCEPT ![k] = i]
    /\ estimate' = [estimate EXCEPT ![k] = cost]
    /\ UNCHANGED <<actual, payload, policy>>

\* reserve: a manual reservation; it does not look for active calls.
Reserve(k, i, cost, ignoreUnknown) ==
    /\ Create(k, i, cost, "reserved")
    /\ WithinBudgets(ProjectOf[i], cost, ignoreUnknown)

\* Mutant: running calls are taken for abandoned.
ActiveReservations(i) == {k \in Keys : status[k] = "reserved" /\ identity[k] = i}

ActiveFor(i) == {k \in Keys : status[k] \in Active /\ identity[k] = i}

\* Mutant: only the key is looked up.
ReserveExecutionByKey(k, i, cost, ignoreUnknown) ==
    Create(k, i, cost, "running") /\ WithinBudgets(ProjectOf[i], cost, ignoreUnknown)

\* reserve_execution, when the caller becomes the owner.
ReserveExecution(k, i, cost, ignoreUnknown) ==
    /\ ActiveFor(i) = {}
    /\ Create(k, i, cost, "running")
    /\ WithinBudgets(ProjectOf[i], cost, ignoreUnknown)

\* Mutant: a closed call is closed again.
FinishAgain(k, outcome, cost, result) ==
    /\ status[k] # None /\ (result # None => outcome = "completed")
    /\ status' = [status EXCEPT ![k] = outcome]
    /\ actual' = [actual EXCEPT ![k] = cost]
    /\ payload' = [payload EXCEPT ![k] = result]
    /\ UNCHANGED <<identity, estimate, policy>>

\* finish.  On a closed call it returns the record if nothing differs and is
\* refused otherwise; either way nothing changes.
Finish(k, outcome, cost, result) ==
    /\ status[k] \in Active
    /\ result # None => outcome = "completed"
    /\ status' = [status EXCEPT ![k] = outcome]
    /\ actual' = [actual EXCEPT ![k] = cost]
    /\ payload' = [payload EXCEPT ![k] = result]
    /\ UNCHANGED <<identity, estimate, policy>>

\* PUT /budget and PUT /projects/{id}/budget, at any time.
SetPolicy(s, p) ==
    /\ policy' = [policy EXCEPT ![s] = p]
    /\ UNCHANGED records

-----------------------------------------------------------------------------
\* The ledger under any use of it.
LedgerNext ==
    \/ \E k \in Keys, i \in Identities, cost \in Costs, ignore \in BOOLEAN :
          Reserve(k, i, cost, ignore) \/ ReserveExecution(k, i, cost, ignore)
    \/ \E k \in Keys, outcome \in Closed, cost \in Costs \cup {None},
          result \in Payloads \cup {None} : Finish(k, outcome, cost, result)
    \/ \E s \in Scopes, p \in Policies : SetPolicy(s, p)

LedgerSpec == LedgerInit /\ [][LedgerNext]_ledger

-----------------------------------------------------------------------------
(***************************************************************************)
(* What the ledger guarantees whoever uses it, in whatever order.          *)
(***************************************************************************)
\* One provider request runs at most once at a time: two running calls never
\* have the same execution identity, whatever keys they were made under
\* (reserve_execution's search for an active call).
OneRunningPerIdentity ==
    \A k, m \in Keys :
       status[k] = "running" /\ status[m] = "running" /\ identity[k] = identity[m] => k = m

\* A call ceiling is never passed by a new call: no step makes more calls
\* count in a scope than its saved policy allows, whether the call is the
\* project's own or, for the global policy, another project's.  Cancelling,
\* finishing late and changing a policy do not open a way round it.
Grows(s) == Cardinality(CountedCalls(s)') > Cardinality(CountedCalls(s))

CallCeiling ==
    [][\A s \in Scopes :
          policy[s] # None /\ policy[s].maxCalls # None /\ Grows(s) =>
             Cardinality(CountedCalls(s)') <= policy[s].maxCalls]_ledger

\* Nor does a new call of a known cost take the known amount of a scope past
\* its ceiling.  (A finished call may: its actual cost can exceed the estimate.)
AmountCeiling ==
    [][\A s \in Scopes, c \in Currencies :
          /\ policy[s] # None /\ policy[s].maxAmount # None /\ policy[s].currency = c
          /\ Grows(s) /\ KnownAmount(s, c)' > KnownAmount(s, c)
          => KnownAmount(s, c)' <= policy[s].maxAmount]_ledger

\* The ceilings of a budget, in calls and in money.
Ceilings == CallCeiling /\ AmountCeiling

\* Accounting evidence is never rewritten: a call keeps what it was reserved
\* for, and a closed call keeps its outcome, charge and result.
EvidenceKept ==
    [][\A k \in Keys :
          /\ status[k] # None => identity'[k] = identity[k] /\ estimate'[k] = estimate[k]
          /\ status[k] \in Closed => /\ status'[k] = status[k]
                                     /\ actual'[k] = actual[k]
                                     /\ payload'[k] = payload[k]]_ledger
=============================================================================
