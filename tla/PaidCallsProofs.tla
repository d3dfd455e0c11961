--------------------------- MODULE PaidCallsProofs ---------------------------
(***************************************************************************)
(* Proofs, for any keys, projects, costs, policies and callers, of the     *)
(* ledger's guarantees and of what execute promises its callers; and, for  *)
(* any number of scenes, videos, attempts, repairs and faults, of what     *)
(* ties a Talking scene's binding to its jobs, videos, previews and        *)
(* reviews.                                                                *)
(***************************************************************************)
EXTENDS ProviderExecution, TalkingRun, FiniteSetTheorems, WellFoundedInduction, TLAPS

-----------------------------------------------------------------------------
(* The ledger of provider calls, and their execution.                       *)

LEMMA LedgerTypeStep == LedgerTypeOK /\ [LedgerNext]_ledger => LedgerTypeOK'
<1> SUFFICES ASSUME LedgerTypeOK, [LedgerNext]_ledger PROVE LedgerTypeOK'
  OBVIOUS
<1>1. ASSUME NEW k \in Keys, NEW i \in Identities, NEW cost \in Costs,
             NEW initial \in Active, Create(k, i, cost, initial)
      PROVE  LedgerTypeOK'
  BY <1>1 DEF Create, LedgerTypeOK
<1>2. ASSUME NEW k \in Keys, NEW outcome \in Closed, NEW cost \in Costs \cup {None},
             NEW given \in Payloads \cup {None}, Finish(k, outcome, cost, given)
      PROVE  LedgerTypeOK'
  BY <1>2 DEF Finish, LedgerTypeOK
<1>3. ASSUME NEW s \in Scopes, NEW p \in Policies, SetPolicy(s, p) PROVE LedgerTypeOK'
  BY <1>3 DEF SetPolicy, LedgerTypeOK, records
<1>4. ASSUME UNCHANGED ledger PROVE LedgerTypeOK'
  BY <1>4 DEF ledger, LedgerTypeOK
<1>5. {"reserved", "running"} \subseteq Active
  BY DEF Active
<1> QED
  BY <1>1, <1>2, <1>3, <1>4, <1>5 DEF LedgerNext, Reserve, ReserveExecution

\* Every record and policy always has the shape the tables allow.
THEOREM LedgerTypeCorrect == LedgerSpec => []LedgerTypeOK
<1>1. LedgerInit => LedgerTypeOK
  BY DEF LedgerInit, LedgerTypeOK
<1> QED
  BY <1>1, LedgerTypeStep, PTL DEF LedgerSpec

-----------------------------------------------------------------------------
LEMMA RunningStep ==
  LedgerTypeOK /\ OneRunningPerIdentity /\ [LedgerNext]_ledger => OneRunningPerIdentity'
<1> SUFFICES ASSUME LedgerTypeOK, OneRunningPerIdentity, [LedgerNext]_ledger
             PROVE  OneRunningPerIdentity'
  OBVIOUS
<1>1. ASSUME NEW k \in Keys, NEW i \in Identities, NEW cost \in Costs, NEW ignore \in BOOLEAN,
             Reserve(k, i, cost, ignore)
      PROVE  OneRunningPerIdentity'
  BY <1>1 DEF Reserve, Create, LedgerTypeOK, OneRunningPerIdentity
<1>2. ASSUME NEW k \in Keys, NEW i \in Identities, NEW cost \in Costs, NEW ignore \in BOOLEAN,
             ReserveExecution(k, i, cost, ignore)
      PROVE  OneRunningPerIdentity'
  <2>1. \A m \in Keys : status[m] = "running" => identity[m] # i
    BY <1>2 DEF ReserveExecution, ActiveFor, Active
  <2> QED
    BY <1>2, <2>1 DEF ReserveExecution, Create, LedgerTypeOK, OneRunningPerIdentity
<1>3. ASSUME NEW k \in Keys, NEW outcome \in Closed, NEW cost \in Costs \cup {None},
             NEW given \in Payloads \cup {None}, Finish(k, outcome, cost, given)
      PROVE  OneRunningPerIdentity'
  BY <1>3 DEF Finish, Closed, LedgerTypeOK, OneRunningPerIdentity
<1>4. ASSUME NEW s \in Scopes, NEW p \in Policies, SetPolicy(s, p)
      PROVE  OneRunningPerIdentity'
  BY <1>4 DEF SetPolicy, records, OneRunningPerIdentity
<1>5. ASSUME UNCHANGED ledger PROVE OneRunningPerIdentity'
  BY <1>5 DEF ledger, OneRunningPerIdentity
<1> QED
  BY <1>1, <1>2, <1>3, <1>4, <1>5 DEF LedgerNext

\* Two running calls never share an execution identity.
THEOREM SoleExecution == LedgerSpec => []OneRunningPerIdentity
<1>1. LedgerInit => OneRunningPerIdentity
  BY ProviderLedgerAssumption DEF LedgerInit, OneRunningPerIdentity, Active
<1> QED
  BY <1>1, RunningStep, LedgerTypeCorrect, PTL DEF LedgerSpec

-----------------------------------------------------------------------------
\* What is recorded stays recorded, and a closed call stays as it was closed.
LEMMA EvidenceStep ==
  ASSUME LedgerTypeOK, LedgerNext
  PROVE  \A k \in Keys :
            /\ status[k] # None => identity'[k] = identity[k] /\ estimate'[k] = estimate[k]
            /\ status[k] \in Closed => /\ status'[k] = status[k]
                                       /\ actual'[k] = actual[k]
                                       /\ payload'[k] = payload[k]
<1> DEFINE Kept(k) ==
      /\ status[k] # None => identity'[k] = identity[k] /\ estimate'[k] = estimate[k]
      /\ status[k] \in Closed => /\ status'[k] = status[k]
                                 /\ actual'[k] = actual[k]
                                 /\ payload'[k] = payload[k]
<1> SUFFICES ASSUME NEW m \in Keys PROVE Kept(m)
  OBVIOUS
<1>0. status[m] \in Closed => status[m] # None
  BY ProviderLedgerAssumption DEF Closed
<1>1. ASSUME NEW k \in Keys, NEW i \in Identities, NEW cost \in Costs,
             NEW initial, Create(k, i, cost, initial)
      PROVE  Kept(m)
  BY <1>0, <1>1 DEF Create, LedgerTypeOK
<1>2. ASSUME NEW k \in Keys, NEW outcome \in Closed, NEW cost \in Costs \cup {None},
             NEW given \in Payloads \cup {None}, Finish(k, outcome, cost, given)
      PROVE  Kept(m)
  BY <1>2 DEF Finish, Active, Closed, LedgerTypeOK
<1>3. ASSUME NEW s \in Scopes, NEW p \in Policies, SetPolicy(s, p) PROVE Kept(m)
  BY <1>3 DEF SetPolicy, records
<1> QED
  BY <1>1, <1>2, <1>3 DEF LedgerNext, Reserve, ReserveExecution

THEOREM EvidenceFinal == LedgerSpec => EvidenceKept
<1>1. LedgerTypeOK /\ [LedgerNext]_ledger =>
        [\A k \in Keys :
            /\ status[k] # None => identity'[k] = identity[k] /\ estimate'[k] = estimate[k]
            /\ status[k] \in Closed => /\ status'[k] = status[k]
                                       /\ actual'[k] = actual[k]
                                       /\ payload'[k] = payload[k]]_ledger
  BY EvidenceStep
<1> QED
  BY <1>1, LedgerTypeCorrect, PTL DEF LedgerSpec, EvidenceKept

-----------------------------------------------------------------------------
(* The call ceiling.                                                       *)

LEMMA CountsFinite ==
  ASSUME NEW s
  PROVE  IsFiniteSet(CountedCalls(s)) /\ Cardinality(CountedCalls(s)) \in Nat
<1>1. CountedCalls(s) \subseteq Keys
  BY DEF CountedCalls
<1> QED
  BY <1>1, ProviderLedgerAssumption, FS_Subset, FS_CardinalityType

\* A new call adds at most itself to the calls of any scope.
LEMMA CreateCounts ==
  ASSUME LedgerTypeOK, NEW s \in Scopes, NEW k \in Keys, NEW i \in Identities,
         NEW cost \in Costs, NEW initial \in Active, Create(k, i, cost, initial)
  PROVE  /\ Cardinality(CountedCalls(s)') <= Cardinality(CountedCalls(s)) + 1
         /\ s \notin {Global, ProjectOf[i]} =>
               Cardinality(CountedCalls(s)') <= Cardinality(CountedCalls(s))
<1>1. ASSUME NEW m \in Keys, m # k
      PROVE  m \in CountedCalls(s)' <=> m \in CountedCalls(s)
  BY <1>1 DEF Create, CountedCalls, InScope, Counts, LedgerTypeOK
<1>2. CountedCalls(s)' \subseteq CountedCalls(s) \cup {k}
  BY <1>1 DEF CountedCalls
<1>3. s \notin {Global, ProjectOf[i]} => k \notin CountedCalls(s)'
  BY DEF Create, CountedCalls, InScope, LedgerTypeOK
<1>4. IsFiniteSet(CountedCalls(s)) /\ Cardinality(CountedCalls(s)) \in Nat
  BY CountsFinite
<1>5. /\ IsFiniteSet(CountedCalls(s) \cup {k})
      /\ Cardinality(CountedCalls(s) \cup {k}) <= Cardinality(CountedCalls(s)) + 1
  <2> DEFINE C == CountedCalls(s)
  <2>1. IsFiniteSet(C) /\ Cardinality(C) \in Nat
    BY <1>4
  <2> HIDE DEF C
  <2>2. /\ IsFiniteSet(C \cup {k})
        /\ Cardinality(C \cup {k}) = IF k \in C THEN Cardinality(C) ELSE Cardinality(C) + 1
    BY <2>1, FS_AddElement
  <2>3. Cardinality(C \cup {k}) <= Cardinality(C) + 1
    BY <2>1, <2>2
  <2> QED
    BY <2>2, <2>3 DEF C
<1>6. /\ Cardinality(CountedCalls(s)') <= Cardinality(CountedCalls(s) \cup {k})
      /\ Cardinality(CountedCalls(s)') \in Nat
  BY <1>2, <1>5, FS_Subset, FS_CardinalityType
<1>7. Cardinality(CountedCalls(s) \cup {k}) \in Nat
  BY <1>5, FS_CardinalityType
<1>8. CASE s \notin {Global, ProjectOf[i]}
  <2>1. CountedCalls(s)' \subseteq CountedCalls(s)
    BY <1>2, <1>3, <1>8
  <2>2. Cardinality(CountedCalls(s)') <= Cardinality(CountedCalls(s))
    BY <1>4, <2>1, FS_Subset
  <2> QED
    BY <1>4, <1>6, <2>2
<1> QED
  BY <1>4, <1>5, <1>6, <1>7, <1>8

\* Finishing a call never makes more calls count.
LEMMA FinishCounts ==
  ASSUME LedgerTypeOK, NEW s \in Scopes, NEW k \in Keys, NEW outcome, NEW cost, NEW given,
         Finish(k, outcome, cost, given)
  PROVE  Cardinality(CountedCalls(s)') <= Cardinality(CountedCalls(s))
<1>1. status[k] # None /\ status[k] # "cancelled"
  BY ProviderLedgerAssumption DEF Finish, Active
<1>2. CountedCalls(s)' \subseteq CountedCalls(s)
  BY <1>1 DEF Finish, CountedCalls, InScope, Counts, LedgerTypeOK
<1> QED
  BY <1>2, CountsFinite, FS_Subset

LEMMA CeilingStep ==
  ASSUME LedgerTypeOK, LedgerNext, NEW s \in Scopes, Grows(s), policy[s] # None,
         policy[s].maxCalls # None
  PROVE  Cardinality(CountedCalls(s)') <= policy[s].maxCalls
<1>0. /\ Cardinality(CountedCalls(s)) \in Nat
      /\ Cardinality(CountedCalls(s)') \in Nat
  <2>1. CountedCalls(s)' \subseteq Keys
    BY DEF CountedCalls
  <2> QED
    BY <2>1, CountsFinite, ProviderLedgerAssumption, FS_Subset, FS_CardinalityType
<1>1. ASSUME NEW k \in Keys, NEW i \in Identities, NEW cost \in Costs, NEW ignore \in BOOLEAN,
             NEW initial \in Active, WithinBudgets(ProjectOf[i], cost, ignore),
             Create(k, i, cost, initial)
      PROVE  Cardinality(CountedCalls(s)') <= policy[s].maxCalls
  <2>1. s \in {Global, ProjectOf[i]}
    BY <1>0, <1>1, CreateCounts DEF Grows
  <2>2. Cardinality(CountedCalls(s)) + 1 <= policy[s].maxCalls
    BY <1>1, <2>1 DEF WithinBudgets, Permits
  <2>3. policy[s].maxCalls \in Nat
    BY ProviderLedgerAssumption DEF LedgerTypeOK, Limits
  <2> QED
    BY <1>0, <1>1, <2>2, <2>3, CreateCounts
<1>2. ASSUME NEW k \in Keys, NEW outcome, NEW cost, NEW given,
             Finish(k, outcome, cost, given)
      PROVE  FALSE
  BY <1>0, <1>2, FinishCounts DEF Grows
<1>3. ASSUME NEW t, NEW p, SetPolicy(t, p) PROVE FALSE
  <2>1. CountedCalls(s)' = CountedCalls(s)
    BY <1>3 DEF SetPolicy, records, CountedCalls, InScope, Counts
  <2> QED
    BY <1>0, <2>1 DEF Grows
<1>4. "reserved" \in Active /\ "running" \in Active
  BY DEF Active
<1> QED
  BY <1>1, <1>2, <1>3, <1>4 DEF LedgerNext, Reserve, ReserveExecution

\* No new call passes the call ceiling of its project or of the workspace.
THEOREM CallsWithinCeiling == LedgerSpec => CallCeiling
<1>1. LedgerTypeOK /\ [LedgerNext]_ledger =>
        [\A s \in Scopes :
            policy[s] # None /\ policy[s].maxCalls # None /\ Grows(s) =>
               Cardinality(CountedCalls(s)') <= policy[s].maxCalls]_ledger
  BY CeilingStep
<1> QED
  BY <1>1, LedgerTypeCorrect, PTL DEF LedgerSpec, CallCeiling

-----------------------------------------------------------------------------
(* Sums over finite sets.  SumFunction takes its elements in an order of     *)
(* CHOOSE's; the lemmas say the order does not matter.  Each is proved by a  *)
(* smallest counterexample: the proper subsets of a finite set are well      *)
(* founded.                                                                  *)

LEMMA SmallestSubset ==
  ASSUME NEW S, IsFiniteSet(S), NEW Bad \in SUBSET SUBSET S, Bad # {}
  PROVE  \E s \in Bad : \A t \in SUBSET s : t # s => t \notin Bad
<1>1. IsWellFoundedOn(StrictSubsetOrdering(S), SUBSET S)
  BY FS_StrictSubsetOrderingWellFounded, FS_FiniteSubsetsOfFinite
<1>2. PICK s \in Bad : \A t \in Bad : <<t, s>> \notin StrictSubsetOrdering(S)
  BY <1>1, WFMin
<1> QED
  BY <1>2 DEF StrictSubsetOrdering

Picked(s) == CHOOSE x \in s : TRUE

\* g adds up w over every subset of S.
Sums(w, S, g) ==
    g = [s \in SUBSET S |-> IF s = {} THEN 0 ELSE w[Picked(s)] + g[s \ {Picked(s)}]]

LEMMA PickedIn == ASSUME NEW s, s # {} PROVE Picked(s) \in s
BY DEF Picked

LEMMA SumsAt ==
  ASSUME NEW w, NEW S, NEW g, Sums(w, S, g), NEW s \in SUBSET S
  PROVE  g[s] = IF s = {} THEN 0 ELSE w[Picked(s)] + g[s \ {Picked(s)}]
BY DEF Sums

LEMMA SumsAgree ==
  ASSUME NEW S, NEW T, IsFiniteSet(S), S \subseteq T, NEW w, NEW v, NEW g, NEW h,
         Sums(w, S, g), Sums(v, T, h), \A x \in S : w[x] = v[x]
  PROVE  \A s \in SUBSET S : g[s] = h[s]
<1> DEFINE Bad == {s \in SUBSET S : g[s] # h[s]}
<1> SUFFICES ASSUME Bad # {} PROVE FALSE
  OBVIOUS
<1>1. PICK s \in Bad : \A t \in SUBSET s : t # s => t \notin Bad
  <2>1. Bad \in SUBSET SUBSET S /\ Bad # {}
    OBVIOUS
  <2> HIDE DEF Bad
  <2> QED
    BY <2>1, SmallestSubset
<1>2. s \in SUBSET S /\ s \in SUBSET T /\ g[s] # h[s]
  OBVIOUS
<1>3. s # {}
  BY <1>2, SumsAt
<1> DEFINE r == s \ {Picked(s)}
<1>4. r \in SUBSET s /\ r # s /\ Picked(s) \in S /\ r \in SUBSET S
  BY <1>2, <1>3, PickedIn
<1>5. g[r] = h[r]
  BY <1>1, <1>4
<1>6. g[s] = w[Picked(s)] + g[r] /\ h[s] = v[Picked(s)] + h[r]
  BY <1>2, <1>3, SumsAt
<1> QED
  BY <1>2, <1>4, <1>5, <1>6

LEMMA SumsExist ==
  ASSUME NEW S, IsFiniteSet(S), NEW w
  PROVE  \E g : Sums(w, S, g)
<1> DEFINE Bad == {s \in SUBSET S : ~\E g : Sums(w, s, g)}
<1> SUFFICES ASSUME Bad # {} PROVE FALSE
  OBVIOUS
<1>1. PICK T \in Bad : \A t \in SUBSET T : t # T => t \notin Bad
  <2>1. Bad \in SUBSET SUBSET S /\ Bad # {}
    OBVIOUS
  <2> HIDE DEF Bad
  <2> QED
    BY <2>1, SmallestSubset
<1> DEFINE G(t) == CHOOSE g : Sums(w, t, g)
           h == [t \in SUBSET T |->
                   IF t = {} THEN 0
                   ELSE w[Picked(t)] + G(t \ {Picked(t)})[t \ {Picked(t)}]]
<1>2. T \in SUBSET S /\ ~\E g : Sums(w, T, g)
  OBVIOUS
<1>3. \A t \in SUBSET T : t # T => Sums(w, t, G(t))
  <2> TAKE t \in SUBSET T
  <2> HAVE t # T
  <2>1. t \in SUBSET S /\ t \notin Bad
    BY <1>1, <1>2
  <2>2. \E g : Sums(w, t, g)
    BY <2>1
  <2> QED
    BY <2>2
<1> HIDE DEF G
<1>4. ASSUME NEW t \in SUBSET T, t # {} PROVE h[t \ {Picked(t)}] = G(t \ {Picked(t)})[t \ {Picked(t)}]
  <2> DEFINE r == t \ {Picked(t)}
             q == r \ {Picked(r)}
  <2>1. Picked(t) \in t /\ r \in SUBSET T /\ r # T
    BY <1>4, PickedIn
  <2>2. Sums(w, r, G(r)) /\ r \in SUBSET r
    BY <1>3, <2>1
  <2>3. CASE r = {}
    <3>1. G(r)[r] = 0
      BY <2>2, <2>3, SumsAt
    <3>2. h[r] = 0
      BY <2>1, <2>3
    <3> QED
      BY <3>1, <3>2
  <2>4. CASE r # {}
    <3>1. q \in SUBSET r /\ q \in SUBSET T /\ q # T /\ q \in SUBSET q /\ q \subseteq r
      BY <2>1
    <3>2. Sums(w, q, G(q))
      BY <1>3, <3>1
    <3>3. IsFiniteSet(q)
      BY <1>2, <3>1, FS_Subset
    <3>4. G(q)[q] = G(r)[q]
      <4> HIDE DEF q, r
      <4> QED
        BY <2>2, <3>1, <3>2, <3>3, SumsAgree
    <3>5. G(r)[r] = w[Picked(r)] + G(r)[q]
      <4> HIDE DEF r
      <4> QED
        BY <2>2, <2>4, SumsAt
    <3>6. h[r] = w[Picked(r)] + G(q)[q]
      BY <2>1, <2>4
    <3> QED
      BY <3>4, <3>5, <3>6
  <2> QED
    BY <2>3, <2>4
<1>5. Sums(w, T, h)
  BY <1>4 DEF Sums
<1> QED
  BY <1>2, <1>5

\* The library's sum is the value of any such g.
LEMMA SumIs ==
  ASSUME NEW S, IsFiniteSet(S), NEW w, DOMAIN w = S
  PROVE  \E g : Sums(w, S, g) /\ SumFunction(w) = g[S]
<1>1. SumFunction(w) =
        (CHOOSE g : g = [s \in SUBSET S |->
                           IF s = {} THEN 0 ELSE w[Picked(s)] + g[s \ {Picked(s)}]])[S]
  BY Zenon DEF SumFunction, SumFunctionOnSet, FoldFunctionOnSet, MapThenFoldSet, Picked
<1>2. SumFunction(w) = (CHOOSE g : Sums(w, S, g))[S]
  BY <1>1, Zenon DEF Sums
<1>3. Sums(w, S, CHOOSE g : Sums(w, S, g))
  BY SumsExist
<1> QED
  BY <1>2, <1>3, Zenon

LEMMA SumsNatural ==
  ASSUME NEW S, IsFiniteSet(S), NEW w \in [S -> Nat], NEW g, Sums(w, S, g)
  PROVE  \A s \in SUBSET S : g[s] \in Nat
<1> DEFINE Bad == {s \in SUBSET S : g[s] \notin Nat}
<1> SUFFICES ASSUME Bad # {} PROVE FALSE
  OBVIOUS
<1>1. PICK s \in Bad : \A t \in SUBSET s : t # s => t \notin Bad
  <2>1. Bad \in SUBSET SUBSET S /\ Bad # {}
    OBVIOUS
  <2> HIDE DEF Bad
  <2> QED
    BY <2>1, SmallestSubset
<1>2. s \in SUBSET S /\ g[s] \notin Nat
  OBVIOUS
<1>3. s # {}
  <2> SUFFICES ASSUME s = {} PROVE g[s] = 0
    BY <1>2
  <2> QED
    BY <1>2, SumsAt
<1>4. s \ {Picked(s)} \in SUBSET s /\ s \ {Picked(s)} # s /\ Picked(s) \in S
      /\ s \ {Picked(s)} \in SUBSET S
  BY <1>2, <1>3, PickedIn
<1>5. g[s \ {Picked(s)}] \in Nat
  BY <1>1, <1>4
<1>6. g[s] = w[Picked(s)] + g[s \ {Picked(s)}]
  BY <1>2, <1>3, SumsAt
<1> QED
  BY <1>2, <1>4, <1>5, <1>6

\* Any element may be taken out first.
LEMMA SumsTakeOut ==
  ASSUME NEW S, IsFiniteSet(S), NEW w \in [S -> Nat], NEW g, Sums(w, S, g)
  PROVE  \A s \in SUBSET S : \A y \in s : g[s] = w[y] + g[s \ {y}]
<1> DEFINE Bad == {s \in SUBSET S : \E y \in s : g[s] # w[y] + g[s \ {y}]}
<1> SUFFICES ASSUME Bad # {} PROVE FALSE
  OBVIOUS
<1>1. PICK s \in Bad : \A t \in SUBSET s : t # s => t \notin Bad
  <2>1. Bad \in SUBSET SUBSET S /\ Bad # {}
    OBVIOUS
  <2> HIDE DEF Bad
  <2> QED
    BY <2>1, SmallestSubset
<1>2. PICK y \in s : g[s] # w[y] + g[s \ {y}]
  OBVIOUS
<1> DEFINE p == Picked(s)
           b == s \ {p, y}
<1>3. s \in SUBSET S /\ p \in s
  BY <1>2, PickedIn
<1>4. g[s] = w[p] + g[s \ {p}]
  BY <1>3, SumsAt
<1>5. y # p
  BY <1>2, <1>4
<1>6. \A t \in SUBSET s : t # s => \A x \in t : g[t] = w[x] + g[t \ {x}]
  BY <1>1, <1>3
<1>7. g[s \ {p}] = w[y] + g[b] /\ g[s \ {y}] = w[p] + g[b]
  <2>1. s \ {p} \in SUBSET s /\ s \ {p} # s /\ y \in s \ {p} /\ (s \ {p}) \ {y} = b
    BY <1>2, <1>3, <1>5
  <2>2. s \ {y} \in SUBSET s /\ s \ {y} # s /\ p \in s \ {y} /\ (s \ {y}) \ {p} = b
    BY <1>2, <1>3, <1>5
  <2> HIDE DEF b, p
  <2>3. g[s \ {p}] = w[y] + g[(s \ {p}) \ {y}]
    BY <1>6, <2>1
  <2>4. g[s \ {y}] = w[p] + g[(s \ {y}) \ {p}]
    BY <1>6, <2>2
  <2> QED
    BY <2>1, <2>2, <2>3, <2>4
<1>8. w[p] \in Nat /\ w[y] \in Nat /\ g[b] \in Nat
  BY <1>3, SumsNatural
<1> HIDE DEF b
<1> QED
  BY <1>2, <1>4, <1>7, <1>8

\* One more term adds its value to the sum.
LEMMA SumAdds ==
  ASSUME NEW S, IsFiniteSet(S), NEW y, y \notin S, NEW w \in [S -> Nat],
         NEW v \in [S \cup {y} -> Nat], \A x \in S : v[x] = w[x]
  PROVE  SumFunction(w) \in Nat /\ SumFunction(v) = SumFunction(w) + v[y]
<1>0. IsFiniteSet(S \cup {y}) /\ DOMAIN w = S /\ DOMAIN v = S \cup {y}
  BY FS_AddElement
<1>1. PICK g : Sums(w, S, g) /\ SumFunction(w) = g[S]
  BY <1>0, SumIs
<1>2. PICK h : Sums(v, S \cup {y}, h) /\ SumFunction(v) = h[S \cup {y}]
  BY <1>0, SumIs
<1>3. g[S] = h[S]
  BY <1>1, <1>2, SumsAgree
<1>4. h[S \cup {y}] = v[y] + h[S]
  <2>1. (S \cup {y}) \ {y} = S
    OBVIOUS
  <2> QED
    BY <1>0, <1>2, <2>1, SumsTakeOut
<1>5. g[S] \in Nat /\ v[y] \in Nat
  BY <1>0, <1>1, SumsNatural
<1> QED
  BY <1>1, <1>2, <1>3, <1>4, <1>5
-----------------------------------------------------------------------------
(* The amount ceiling.                                                     *)

\* A record has an estimate; without a record there is no actual cost either.
Priced ==
    \A k \in Keys : /\ status[k] = None => actual[k] = None
                    /\ status[k] # None => estimate[k] \in Costs

LEMMA PricedStep == LedgerTypeOK /\ Priced /\ [LedgerNext]_ledger => Priced'
<1> SUFFICES ASSUME LedgerTypeOK, Priced, [LedgerNext]_ledger PROVE Priced'
  OBVIOUS
<1>1. ASSUME NEW k \in Keys, NEW i \in Identities, NEW cost \in Costs,
             NEW initial \in Active, Create(k, i, cost, initial)
      PROVE  Priced'
  <2>1. None \notin Active
    BY ProviderLedgerAssumption
  <2> QED
    BY <1>1, <2>1 DEF Create, LedgerTypeOK, Priced
<1>2. ASSUME NEW k \in Keys, NEW outcome \in Closed, NEW cost, NEW given,
             Finish(k, outcome, cost, given)
      PROVE  Priced'
  <2>1. None \notin Active \cup Closed
    BY ProviderLedgerAssumption
  <2> QED
    BY <1>2, <2>1 DEF Finish, LedgerTypeOK, Priced
<1>3. ASSUME NEW s \in Scopes, NEW p \in Policies, SetPolicy(s, p) PROVE Priced'
  BY <1>3 DEF SetPolicy, records, Priced
<1>4. ASSUME UNCHANGED ledger PROVE Priced'
  BY <1>4 DEF ledger, Priced
<1>5. "reserved" \in Active /\ "running" \in Active
  BY DEF Active
<1> QED
  BY <1>1, <1>2, <1>3, <1>4, <1>5 DEF LedgerNext, Reserve, ReserveExecution

LEMMA AmountOf ==
  ASSUME NEW cost \in Costs, cost # Unknown
  PROVE  cost.amount \in Nat /\ cost.currency \in Currencies
BY ProviderLedgerAssumption DEF Costs, Prices

LEMMA AmountsNatural ==
  ASSUME LedgerTypeOK, Priced, NEW s, NEW c
  PROVE  [k \in KnownCalls(s, c) |-> CostOf(k).amount] \in [KnownCalls(s, c) -> Nat]
<1> SUFFICES ASSUME NEW k \in KnownCalls(s, c) PROVE CostOf(k).amount \in Nat
  OBVIOUS
<1>1. k \in Keys /\ status[k] # None /\ CostOf(k) # Unknown
  BY DEF KnownCalls, CountedCalls, InScope, KnownCost
<1>2. CostOf(k) \in Costs
  BY <1>1 DEF CostOf, LedgerTypeOK, Priced
<1> QED
  BY <1>1, <1>2, AmountOf

\* A new call adds its cost to the known amount of its scopes, when its cost
\* is known in that currency, and nothing to any other.
LEMMA CreateAmount ==
  ASSUME LedgerTypeOK, Priced, Priced', LedgerTypeOK', NEW s \in Scopes, NEW c,
         NEW k \in Keys, NEW i \in Identities, NEW cost \in Costs,
         NEW initial \in Active, Create(k, i, cost, initial)
  PROVE  /\ KnownAmount(s, c) \in Nat
         /\ \/ KnownAmount(s, c)' = KnownAmount(s, c)
            \/ /\ cost # Unknown /\ s \in {Global, ProjectOf[i]}
               /\ KnownAmount(s, c)' = KnownAmount(s, c) + cost.amount
<1> DEFINE K == KnownCalls(s, c)
           L == KnownCalls(s, c)'
           w == [m \in K |-> CostOf(m).amount]
           v == [m \in L |-> CostOf(m)'.amount]
<1>1. IsFiniteSet(K) /\ w \in [K -> Nat] /\ v \in [L -> Nat]
  <2>1. K \subseteq Keys
    BY DEF KnownCalls, CountedCalls
  <2>2. IsFiniteSet(K)
    BY <2>1, ProviderLedgerAssumption, FS_Subset
  <2>3. w \in [K -> Nat]
    BY AmountsNatural
  <2>4. \A m \in L : CostOf(m)'.amount \in Nat
    <3> SUFFICES ASSUME NEW m \in L PROVE CostOf(m)'.amount \in Nat
      OBVIOUS
    <3>1. m \in Keys /\ status'[m] # None /\ CostOf(m)' # Unknown
      BY DEF KnownCalls, CountedCalls, InScope, KnownCost
    <3>2. CostOf(m)' \in Costs
      BY <3>1 DEF CostOf, LedgerTypeOK, Priced
    <3> QED
      BY <3>1, <3>2, AmountOf
  <2> QED
    BY <2>2, <2>3, <2>4
<1>2. KnownAmount(s, c) = SumFunction(w) /\ KnownAmount(s, c)' = SumFunction(v)
  BY DEF KnownAmount
<1>3. \A m \in Keys : m # k => CostOf(m)' = CostOf(m) /\ (m \in L <=> m \in K)
  BY DEF Create, KnownCalls, CountedCalls, InScope, Counts, KnownCost, CostOf, LedgerTypeOK
<1>4. k \notin K /\ k \in Keys /\ K \subseteq Keys /\ L \subseteq Keys
  BY DEF Create, KnownCalls, CountedCalls, InScope
<1>5. CostOf(k)' = cost
  BY DEF Create, CostOf, LedgerTypeOK, Priced
<1>6. k \in L => cost # Unknown /\ s \in {Global, ProjectOf[i]}
  BY <1>5 DEF Create, KnownCalls, CountedCalls, InScope, KnownCost, LedgerTypeOK
<1>7. SumFunction(w) \in Nat /\ (k \in L => SumFunction(v) = SumFunction(w) + v[k])
  <2>1. \A x \in K : x \in L => v[x] = w[x]
    BY <1>3, <1>4
  <2>2. k \in L => L = K \cup {k}
    BY <1>3, <1>4
  <2>3. PICK u : u = [m \in K \cup {k} |-> IF m = k THEN 0 ELSE w[m]]
    OBVIOUS
  <2>4. u \in [K \cup {k} -> Nat] /\ \A x \in K : u[x] = w[x]
    BY <1>1, <1>4, <2>3
  <2>5. SumFunction(w) \in Nat
    <3> HIDE DEF K, w
    <3> QED
      BY <1>1, <1>4, <2>4, SumAdds
  <2>6. ASSUME k \in L PROVE SumFunction(v) = SumFunction(w) + v[k]
    <3>1. L = K \cup {k} /\ \A x \in K : v[x] = w[x]
      BY <2>1, <2>2, <2>6
    <3> HIDE DEF K, L, w, v
    <3> QED
      BY <1>1, <1>4, <3>1, SumAdds
  <2> QED
    BY <2>5, <2>6
<1>8. CASE k \in L
  <2>1. v[k] = cost.amount
    BY <1>5, <1>8
  <2> QED
    BY <1>2, <1>6, <1>7, <1>8, <2>1
<1>9. CASE k \notin L
  <2>1. L = K
    BY <1>3, <1>4, <1>9
  <2>2. v = w
    BY <1>3, <1>4, <2>1
  <2> QED
    BY <1>2, <1>7, <2>2
<1> QED
  BY <1>8, <1>9

LEMMA AmountStep ==
  ASSUME LedgerTypeOK, Priced, LedgerTypeOK', Priced', LedgerNext,
         NEW s \in Scopes, NEW c \in Currencies, Grows(s), policy[s] # None,
         policy[s].maxAmount # None, policy[s].currency = c,
         KnownAmount(s, c)' > KnownAmount(s, c)
  PROVE  KnownAmount(s, c)' <= policy[s].maxAmount
<1>0. /\ Cardinality(CountedCalls(s)) \in Nat
      /\ Cardinality(CountedCalls(s)') \in Nat
  <2>1. CountedCalls(s)' \subseteq Keys
    BY DEF CountedCalls
  <2> QED
    BY <2>1, CountsFinite, ProviderLedgerAssumption, FS_Subset, FS_CardinalityType
<1>1. ASSUME NEW k \in Keys, NEW i \in Identities, NEW cost \in Costs, NEW ignore \in BOOLEAN,
             NEW initial \in Active, WithinBudgets(ProjectOf[i], cost, ignore),
             Create(k, i, cost, initial)
      PROVE  KnownAmount(s, c)' <= policy[s].maxAmount
  <2>1. /\ cost # Unknown /\ s \in {Global, ProjectOf[i]}
        /\ KnownAmount(s, c)' = KnownAmount(s, c) + cost.amount
    <3>1. KnownAmount(s, c) \in Nat
      BY <1>1, CreateAmount
    <3>2. KnownAmount(s, c)' # KnownAmount(s, c)
      BY <3>1
    <3> QED
      BY <1>1, <3>2, CreateAmount
  <2>2. KnownAmount(s, c) + cost.amount <= policy[s].maxAmount
    BY <1>1, <2>1 DEF WithinBudgets, Permits
  <2> QED
    BY <2>1, <2>2
<1>2. ASSUME NEW k \in Keys, NEW outcome, NEW cost, NEW given,
             Finish(k, outcome, cost, given)
      PROVE  FALSE
  BY <1>0, <1>2, FinishCounts DEF Grows
<1>3. ASSUME NEW t, NEW p, SetPolicy(t, p) PROVE FALSE
  <2>1. CountedCalls(s)' = CountedCalls(s)
    BY <1>3 DEF SetPolicy, records, CountedCalls, InScope, Counts
  <2> QED
    BY <1>0, <2>1 DEF Grows
<1>4. "reserved" \in Active /\ "running" \in Active
  BY DEF Active
<1> QED
  BY <1>1, <1>2, <1>3, <1>4 DEF LedgerNext, Reserve, ReserveExecution

\* Nor does a new call of a known cost take a scope past its amount: a budget
\* holds in calls and in money.
THEOREM BudgetsHold == LedgerSpec => Ceilings
<1>1. LedgerInit => Priced
  BY DEF LedgerInit, Priced
<1>2. LedgerSpec => [](LedgerTypeOK /\ Priced)
  BY <1>1, PricedStep, LedgerTypeCorrect, PTL DEF LedgerSpec
<1>3. LedgerTypeOK /\ Priced /\ (LedgerTypeOK /\ Priced)' /\ [LedgerNext]_ledger =>
        [\A s \in Scopes, c \in Currencies :
            /\ policy[s] # None /\ policy[s].maxAmount # None /\ policy[s].currency = c
            /\ Grows(s) /\ KnownAmount(s, c)' > KnownAmount(s, c)
            => KnownAmount(s, c)' <= policy[s].maxAmount]_ledger
  BY AmountStep
<1>4. LedgerSpec => AmountCeiling
  BY <1>2, <1>3, PTL DEF LedgerSpec, AmountCeiling
<1> QED
  BY <1>4, CallsWithinCeiling DEF Ceilings

-----------------------------------------------------------------------------
(* execute.  The inductive invariant: a key has at most one caller, who      *)
(* made its record; until that caller sends, nothing was sent under the key; *)
(* and a call that is still open has neither a result nor answers.           *)

Made == {"running"} \cup Closed

Occupied(c) ==
    /\ key[c] \in Keys
    /\ status[key[c]] \in Made
    /\ at[c] = "owner" => sent[key[c]] = 0
    /\ at[c] = "returned" => result[c] \in Payloads

OneCallerPerKey ==
    \A c, d \in Callers : at[c] # "idle" /\ at[d] # "idle" /\ key[c] = key[d] => c = d

KeySound(k) ==
    /\ sent[k] <= 1
    /\ sent[k] > 0 => status[k] \in Made
    /\ status[k] \notin Closed => payload[k] = None
    /\ answers[k] \subseteq {payload[k]} \ {None}
    /\ stored[k] = payload[k]

ExecInv ==
    /\ ExecTypeOK
    /\ \A c \in Callers : at[c] # "idle" => Occupied(c)
    /\ OneCallerPerKey
    /\ \A k \in Keys : KeySound(k)

LEMMA InitExec == ExecInit => ExecInv
<1> SUFFICES ASSUME ExecInit PROVE ExecInv
  OBVIOUS
<1>1. LedgerTypeOK
  BY DEF ExecInit, LedgerInit, LedgerTypeOK
<1>2. ExecTypeOK
  BY <1>1 DEF ExecInit, ExecTypeOK
<1>3. \A k \in Keys : KeySound(k)
  BY ProviderLedgerAssumption DEF ExecInit, LedgerInit, KeySound
<1> QED
  BY <1>2, <1>3 DEF ExecInit, ExecInv, OneCallerPerKey

\* The callers use the ledger by its methods only.
LEMMA UsesLedger == ExecInv /\ [ExecNext]_execVars => [LedgerNext]_ledger
<1> SUFFICES ASSUME ExecInv, ExecNext PROVE LedgerNext \/ UNCHANGED ledger
  BY DEF execVars
<1>1. FALSE \in BOOLEAN /\ None \in Costs \cup {None} /\ None \in Payloads \cup {None}
  OBVIOUS
<1>2. {"failed", "completed"} \subseteq Closed
  BY DEF Closed
<1>3. CASE Operate
  BY <1>1, <1>3 DEF Operate, LedgerNext
<1>4. ASSUME NEW c \in Callers, NEW k \in Keys, NEW i \in Identities, NEW cost \in Costs,
             Begin(c, k, i, cost) \/ Replay(c, k, i) \/ Refused(c, k, i, cost)
      PROVE  LedgerNext \/ UNCHANGED ledger
  BY <1>1, <1>4 DEF Begin, Replay, Refused, LedgerNext, execVars
<1>5. ASSUME NEW c \in Callers, ReconcileFailure(c) PROVE LedgerNext \/ UNCHANGED ledger
  <2>1. key[c] \in Keys
    BY <1>5 DEF ReconcileFailure, ExecInv, Occupied
  <2> QED
    BY <1>1, <1>2, <1>5, <2>1 DEF ReconcileFailure, LedgerNext
<1>6. ASSUME NEW c \in Callers, ReconcileResult(c) PROVE LedgerNext
  <2>1. key[c] \in Keys /\ result[c] \in Payloads
    BY <1>6 DEF ReconcileResult, ExecInv, Occupied
  <2> QED
    BY <1>1, <1>2, <1>6, <2>1 DEF ReconcileResult, LedgerNext
<1>7. ASSUME NEW c \in Callers,
             \/ Send(c) \/ Raise(c) \/ ResultLost(c) \/ Crash(c)
             \/ \E r \in Payloads : Answer(c, r)
      PROVE  UNCHANGED ledger
  BY <1>7 DEF Send, Raise, ResultLost, Crash, Answer
<1> QED
  BY <1>3, <1>4, <1>5, <1>6, <1>7 DEF ExecNext, Execute

\* What a step of the ledger leaves true of a key's call.
LEMMA CallGoesOn ==
  ASSUME LedgerTypeOK, [LedgerNext]_ledger, NEW k \in Keys
  PROVE  /\ status[k] \in Made => status'[k] \in Made
         /\ status[k] \in Closed => status'[k] \in Closed /\ payload'[k] = payload[k]
<1>0. None \notin Made /\ "reserved" \notin Closed /\ "running" \notin Closed
  BY ProviderLedgerAssumption DEF Made, Active, Closed
<1>1. ASSUME NEW m \in Keys, NEW i \in Identities, NEW cost \in Costs, NEW ignore \in BOOLEAN,
             Reserve(m, i, cost, ignore) \/ ReserveExecution(m, i, cost, ignore)
      PROVE  (status[k] \in Made => status'[k] \in Made)
             /\ (status[k] \in Closed => status'[k] \in Closed /\ payload'[k] = payload[k])
  <2>1. status[m] = None /\ UNCHANGED payload /\ \A n \in Keys : n # m => status'[n] = status[n]
    BY <1>1 DEF Reserve, ReserveExecution, Create, LedgerTypeOK
  <2> QED
    BY <1>0, <2>1 DEF Made
<1>2. ASSUME NEW m \in Keys, NEW outcome \in Closed, NEW cost \in Costs \cup {None},
             NEW new \in Payloads \cup {None}, Finish(m, outcome, cost, new)
      PROVE  (status[k] \in Made => status'[k] \in Made)
             /\ (status[k] \in Closed => status'[k] \in Closed /\ payload'[k] = payload[k])
  BY <1>2 DEF Finish, LedgerTypeOK, Made, Active, Closed
<1>3. ASSUME NEW t \in Scopes, NEW p \in Policies, SetPolicy(t, p)
      PROVE  UNCHANGED <<status, payload>>
  BY <1>3 DEF SetPolicy, records
<1>4. ASSUME UNCHANGED ledger PROVE UNCHANGED <<status, payload>>
  BY <1>4 DEF ledger
<1> QED
  BY <1>1, <1>2, <1>3, <1>4 DEF LedgerNext

\* A caller that reserves is the only one of a key nothing was sent under.
LEMMA BeginStep ==
  ASSUME ExecInv, LedgerTypeOK', NEW c \in Callers, NEW k \in Keys, NEW i \in Identities, NEW cost \in Costs,
         Begin(c, k, i, cost)
  PROVE  ExecInv'
<1>1. /\ at[c] = "idle" /\ status[k] = None
      /\ status' = [status EXCEPT ![k] = "running"]
      /\ key' = [key EXCEPT ![c] = k] /\ at' = [at EXCEPT ![c] = "owner"]
      /\ UNCHANGED <<payload, result, stored, sent, answers>>
  BY DEF Begin, ReserveExecution, Create, Enters
<1>2. None \notin Made /\ None \notin Closed
  BY ProviderLedgerAssumption DEF Made, Closed, Active
<1>3. ExecTypeOK'
  BY <1>1 DEF ExecInv, ExecTypeOK
<1>4. sent[k] = 0
  BY <1>1, <1>2 DEF ExecInv, ExecTypeOK, KeySound
<1>5. \A d \in Callers : d # c /\ at[d] # "idle" => key[d] \in Keys /\ key[d] # k
  BY <1>1, <1>2 DEF ExecInv, Occupied
<1>6. ASSUME NEW d \in Callers, at'[d] # "idle" PROVE Occupied(d)'
  <2>1. CASE d = c
    BY <1>1, <1>4, <2>1 DEF ExecInv, ExecTypeOK, LedgerTypeOK, Occupied, Made
  <2>2. CASE d # c
    BY <1>1, <1>5, <1>6, <2>2 DEF ExecInv, ExecTypeOK, LedgerTypeOK, Occupied
  <2> QED
    BY <2>1, <2>2
<1>7. OneCallerPerKey'
  BY <1>1, <1>5 DEF ExecInv, ExecTypeOK, OneCallerPerKey
<1>8. \A m \in Keys : KeySound(m)'
  BY <1>1, <1>2, <1>4 DEF ExecInv, ExecTypeOK, LedgerTypeOK, KeySound, Made, Closed
<1> QED
  BY <1>3, <1>6, <1>7, <1>8 DEF ExecInv

\* A caller goes one step on, or leaves, and no call changes.
LEMMA CallerStep ==
  ASSUME ExecInv, NEW c \in Callers, Send(c) \/ Raise(c) \/ (\E r \in Payloads : Answer(c, r))
  PROVE  ExecInv'
<1>1. at[c] # "idle" /\ Occupied(c) /\ UNCHANGED <<ledger, key, stored, answers>>
  BY DEF Send, Raise, Answer, ExecInv, history
<1>2. \A d \in Callers : d # c => at'[d] = at[d] /\ result'[d] = result[d]
  BY DEF Send, Raise, Answer, Enters, ExecInv, ExecTypeOK
<1>3. \A m \in Keys : m # key[c] => sent'[m] = sent[m]
  BY DEF Send, Raise, Answer, ExecInv, ExecTypeOK, history
<1>4. /\ at'[c] = "owner" => at[c] = "owner" /\ sent'[key[c]] = sent[key[c]]
      /\ at'[c] = "returned" => result'[c] \in Payloads
      /\ \/ sent'[key[c]] = sent[key[c]]
         \/ at[c] = "owner" /\ sent'[key[c]] = sent[key[c]] + 1
  <2>1. ASSUME Send(c)
        PROVE  at[c] = "owner" /\ at'[c] = "sending" /\ sent'[key[c]] = sent[key[c]] + 1
    BY <1>1, <2>1 DEF Send, Enters, ExecInv, ExecTypeOK, Occupied
  <2>2. ASSUME Raise(c) PROVE at'[c] = "failed" /\ UNCHANGED sent
    BY <1>1, <2>2 DEF Raise, Enters, ExecInv, ExecTypeOK, history
  <2>3. ASSUME NEW r \in Payloads, Answer(c, r)
        PROVE  at'[c] = "returned" /\ result'[c] \in Payloads /\ UNCHANGED sent
    BY <2>3 DEF Answer, Enters, ExecInv, ExecTypeOK, history
  <2> QED
    BY <2>1, <2>2, <2>3
<1>5. ExecTypeOK'
  <2>1. LedgerTypeOK'
    BY <1>1 DEF ExecInv, ExecTypeOK, LedgerTypeOK, ledger
  <2> QED
    BY <1>1, <2>1 DEF Send, Raise, Answer, Enters, ExecInv, ExecTypeOK, history
<1>6. ASSUME NEW d \in Callers, at'[d] # "idle" PROVE Occupied(d)'
  <2>1. CASE d = c
    BY <1>1, <1>4, <2>1 DEF Occupied, ledger
  <2>2. CASE d # c
    <3>1. at[d] # "idle" /\ Occupied(d) /\ key[d] # key[c]
      BY <1>1, <1>2, <1>6, <2>2 DEF ExecInv, OneCallerPerKey
    <3> QED
      BY <1>1, <1>2, <1>3, <2>2, <3>1 DEF Occupied, ledger
  <2> QED
    BY <2>1, <2>2
<1>7. OneCallerPerKey'
  BY <1>1, <1>2 DEF ExecInv, OneCallerPerKey
<1>8. ASSUME NEW m \in Keys PROVE KeySound(m)'
  <2>1. KeySound(m) /\ sent[m] \in Nat
    BY DEF ExecInv, ExecTypeOK
  <2>2. CASE m = key[c]
    BY <1>1, <1>4, <2>1, <2>2 DEF KeySound, Occupied, ledger
  <2>3. CASE m # key[c]
    BY <1>1, <1>3, <2>1, <2>3 DEF KeySound, ledger
  <2> QED
    BY <2>2, <2>3
<1> QED
  BY <1>5, <1>6, <1>7, <1>8 DEF ExecInv

\* A caller leaves; of the calls only its own may change, and is then closed.
LEMMA LeaveStep ==
  ASSUME ExecInv, LedgerTypeOK', [LedgerNext]_ledger, NEW c \in Callers, at[c] # "idle", Leaves(c), UNCHANGED sent,
         answers' \in [Keys -> SUBSET Payloads], stored' \in [Keys -> Payloads \cup {None}],
         \A m \in Keys : KeySound(m)'
  PROVE  ExecInv'
<1>1. /\ at' = [at EXCEPT ![c] = "idle"] /\ key' = [key EXCEPT ![c] = None]
      /\ result' = [result EXCEPT ![c] = None]
  BY DEF Leaves, Enters
<1>2. ExecTypeOK'
  BY <1>1 DEF ExecInv, ExecTypeOK
<1>3. ASSUME NEW d \in Callers, at'[d] # "idle" PROVE Occupied(d)'
  <2>1. d # c /\ at[d] # "idle" /\ at'[d] = at[d] /\ key'[d] = key[d] /\ result'[d] = result[d]
    BY <1>1, <1>3 DEF ExecInv, ExecTypeOK
  <2>2. Occupied(d)
    BY <2>1 DEF ExecInv
  <2>3. status'[key[d]] \in Made
    BY <2>2, CallGoesOn DEF ExecInv, ExecTypeOK, Occupied
  <2> QED
    BY <2>1, <2>2, <2>3 DEF Occupied
<1>4. OneCallerPerKey'
  BY <1>1 DEF ExecInv, ExecTypeOK, OneCallerPerKey
<1> QED
  BY <1>2, <1>3, <1>4 DEF ExecInv

\* The call is closed without a result; no answer was given under its key.
LEMMA ClosedWithout ==
  ASSUME ExecInv, NEW k \in Keys, NEW outcome \in Closed, NEW cost, Finish(k, outcome, cost, None),
         UNCHANGED <<stored, sent, answers>>
  PROVE  \A m \in Keys : KeySound(m)'
<1> USE ProviderLedgerAssumption
<1>1. payload[k] = None
  BY DEF Finish, ExecInv, KeySound, Active, Closed
<1>2. \A m \in Keys : payload'[m] = payload[m] /\ (m # k => status'[m] = status[m]) /\ status'[k] \in Closed
  BY <1>1 DEF Finish, ExecInv, ExecTypeOK, LedgerTypeOK
<1> QED
  BY <1>1, <1>2 DEF ExecInv, KeySound, Made

LEMMA ExecStep == ExecInv /\ [ExecNext]_execVars => ExecInv'
<1> SUFFICES ASSUME ExecInv, [ExecNext]_execVars PROVE ExecInv'
  OBVIOUS
<1> USE ProviderLedgerAssumption
<1>1. [LedgerNext]_ledger
  BY UsesLedger
<1>2. LedgerTypeOK'
  BY <1>1, LedgerTypeStep DEF ExecInv, ExecTypeOK
<1>3. CASE UNCHANGED execVars
  BY <1>3 DEF execVars, callers, history, ledger, ExecInv, ExecTypeOK, LedgerTypeOK, Occupied, KeySound, OneCallerPerKey
<1>4. ASSUME Operate, \A m \in Keys : KeySound(m)' PROVE ExecInv'
  <2>1. UNCHANGED <<at, key, result, stored, sent, answers>>
    BY <1>4 DEF Operate, callers, history
  <2>2. ExecTypeOK'
    BY <1>2, <2>1 DEF ExecInv, ExecTypeOK
  <2>3. \A c \in Callers : at'[c] # "idle" => Occupied(c)'
    BY <1>1, <2>1, CallGoesOn DEF ExecInv, ExecTypeOK, Occupied
  <2> QED
    BY <1>4, <2>1, <2>2, <2>3 DEF ExecInv, OneCallerPerKey
<1>5. CASE Operate
  <2>1. UNCHANGED <<stored, sent, answers>>
    BY <1>5 DEF Operate, history
  <2>2. ASSUME NEW k \in Keys, NEW i \in Identities, NEW cost \in Costs, Reserve(k, i, cost, FALSE)
        PROVE  \A m \in Keys : KeySound(m)'
    <3>1. status[k] = None /\ status' = [status EXCEPT ![k] = "reserved"] /\ UNCHANGED payload
      BY <2>2 DEF Reserve, Create
    <3>2. sent[k] = 0
      BY <3>1 DEF ExecInv, ExecTypeOK, KeySound, Made, Closed, Active
    <3> QED
      BY <2>1, <3>1, <3>2 DEF ExecInv, ExecTypeOK, LedgerTypeOK, KeySound, Closed, Active
  <2>3. ASSUME NEW k \in Keys, NEW outcome \in Closed, NEW cost \in Costs \cup {None},
               Finish(k, outcome, cost, None)
        PROVE  \A m \in Keys : KeySound(m)'
    BY <2>1, <2>3, ClosedWithout
  <2>4. ASSUME NEW t \in Scopes, NEW p \in Policies, SetPolicy(t, p)
        PROVE  \A m \in Keys : KeySound(m)'
    BY <2>1, <2>4 DEF SetPolicy, records, ExecInv, KeySound
  <2> QED
    BY <1>4, <1>5, <2>2, <2>3, <2>4 DEF Operate
<1>6. ASSUME NEW c \in Callers, NEW k \in Keys, NEW i \in Identities, NEW cost \in Costs,
             Begin(c, k, i, cost)
      PROVE  ExecInv'
  BY <1>2, <1>6, BeginStep
\* An answer of a closed call is the one in the ledger.
<1>7. ASSUME NEW c \in Callers, NEW k \in Keys, NEW i \in Identities, Replay(c, k, i)
      PROVE  ExecInv'
  <2>1. /\ payload[k] # None /\ answers' = [answers EXCEPT ![k] = @ \cup {payload[k]}]
        /\ UNCHANGED <<ledger, at, key, result, stored, sent>>
    BY <1>7 DEF Replay, callers
  <2>2. payload[k] \in Payloads
    BY <2>1 DEF ExecInv, ExecTypeOK, LedgerTypeOK
  <2>3. ExecTypeOK'
    BY <1>2, <2>1, <2>2 DEF ExecInv, ExecTypeOK
  <2>4. \A m \in Keys : KeySound(m)'
    BY <2>1 DEF ledger, ExecInv, ExecTypeOK, KeySound
  <2> QED
    BY <2>1, <2>3, <2>4 DEF ledger, ExecInv, Occupied, OneCallerPerKey
<1>8. ASSUME NEW c \in Callers, Send(c) \/ Raise(c) \/ \E r \in Payloads : Answer(c, r)
      PROVE  ExecInv'
  BY <1>8, CallerStep
<1>9. ASSUME NEW c \in Callers, at[c] # "idle", Leaves(c), UNCHANGED <<ledger, stored, history>>
      PROVE  ExecInv'
  <2>1. UNCHANGED <<ledger, stored, sent, answers>>
    BY <1>9 DEF history
  <2>2. \A m \in Keys : KeySound(m)'
    BY <2>1 DEF ledger, ExecInv, KeySound
  <2>3. answers' \in [Keys -> SUBSET Payloads] /\ stored' \in [Keys -> Payloads \cup {None}]
    BY <2>1 DEF ExecInv, ExecTypeOK
  <2> QED
    BY <1>1, <1>2, <1>9, <2>1, <2>2, <2>3, LeaveStep
<1>10. ASSUME NEW c \in Callers, ResultLost(c) \/ Crash(c) PROVE ExecInv'
  BY <1>9, <1>10 DEF ResultLost, Crash
<1>11. ASSUME NEW c \in Callers, ReconcileFailure(c) PROVE ExecInv'
  <2>1. at[c] # "idle" /\ key[c] \in Keys /\ Leaves(c) /\ UNCHANGED <<stored, history>>
    BY <1>11 DEF ReconcileFailure, ExecInv, Occupied
  <2>2. CASE UNCHANGED ledger
    BY <1>9, <2>1, <2>2
  <2>3. CASE Finish(key[c], "failed", None, None)
    <3>1. UNCHANGED <<stored, sent, answers>>
      BY <2>1 DEF history
    <3>2. "failed" \in Closed
      BY DEF Closed
    <3>3. \A m \in Keys : KeySound(m)'
      BY <2>1, <2>3, <3>1, <3>2, ClosedWithout
    <3>4. answers' \in [Keys -> SUBSET Payloads] /\ stored' \in [Keys -> Payloads \cup {None}]
      BY <3>1 DEF ExecInv, ExecTypeOK
    <3> QED
      BY <1>1, <1>2, <2>1, <3>1, <3>3, <3>4, LeaveStep
  <2> QED
    BY <1>11, <2>2, <2>3 DEF ReconcileFailure
\* The first and only result under the key goes to the ledger, to what is saved,
\* and to the caller.
<1>12. ASSUME NEW c \in Callers, ReconcileResult(c) PROVE ExecInv'
  <2> DEFINE k == key[c]
  <2>1. /\ at[c] # "idle" /\ Leaves(c) /\ UNCHANGED sent
        /\ stored' = [stored EXCEPT ![k] = result[c]]
        /\ answers' = [answers EXCEPT ![k] = @ \cup {result[c]}]
    BY <1>12 DEF ReconcileResult
  <2>2. k \in Keys /\ result[c] \in Payloads
    BY <1>12 DEF ReconcileResult, ExecInv, Occupied
  <2>3. /\ status[k] \in Active /\ payload' = [payload EXCEPT ![k] = result[c]]
        /\ status' = [status EXCEPT ![k] = "completed"]
    BY <1>12 DEF ReconcileResult, Finish
  <2>4. payload[k] = None /\ answers[k] = {}
    BY <2>2, <2>3 DEF ExecInv, KeySound, Active, Closed
  <2>5. answers' \in [Keys -> SUBSET Payloads] /\ stored' \in [Keys -> Payloads \cup {None}]
    BY <2>1, <2>2 DEF ExecInv, ExecTypeOK
  <2>6. \A m \in Keys : KeySound(m)'
    BY <2>1, <2>2, <2>3, <2>4 DEF ExecInv, ExecTypeOK, LedgerTypeOK, KeySound, Made, Closed
  <2> QED
    BY <1>1, <1>2, <2>1, <2>5, <2>6, LeaveStep
<1>13. ASSUME NEW c \in Callers, NEW k \in Keys, NEW i \in Identities, NEW cost \in Costs,
              Refused(c, k, i, cost)
       PROVE  ExecInv'
  BY <1>3, <1>13 DEF Refused
<1> QED
  BY <1>3, <1>5, <1>6, <1>7, <1>8, <1>10, <1>11, <1>12, <1>13 DEF ExecNext, Execute

LEMMA AlwaysExec == ExecSpec => []ExecInv
  BY InitExec, ExecStep, PTL DEF ExecSpec

\* execute is a use of the ledger: all that is proved of the ledger holds of it.
THEOREM ExecutionUsesLedger == ExecSpec => LedgerSpec
<1>1. ExecInit => LedgerInit
  BY DEF ExecInit
<1> QED
  BY <1>1, AlwaysExec, UsesLedger, PTL DEF ExecSpec, LedgerSpec

\* However many callers, keys and crashes: at most one request per key.
THEOREM RequestsSentOnce == ExecSpec => []SentOnce
<1>1. ExecInv => SentOnce
  BY DEF ExecInv, KeySound, SentOnce
<1> QED
  BY <1>1, AlwaysExec, PTL

\* Every answer for a key is the one result in the ledger, which is also the one saved.
THEOREM OneAnswer == ExecSpec => []AnswersAgree
<1>1. ExecInv => AnswersAgree
  BY DEF ExecInv, KeySound, AnswersAgree
<1> QED
  BY <1>1, AlwaysExec, PTL

\* A request of unknown outcome is never sent again while its call is open.
THEOREM NeverResentBlindly == ExecSpec => NoBlindResend
<1> DEFINE Blind == \A k, m \in Keys :
                      /\ sent'[k] > sent[k] /\ status[k] \notin Closed
                      /\ m # k /\ identity[m] = identity[k] /\ sent[m] > 0
                      => status[m] \in Closed
<1>1. ASSUME ExecInv, OneRunningPerIdentity, [ExecNext]_execVars PROVE [Blind]_execVars
  <2> SUFFICES ASSUME ExecNext, NEW k \in Keys, NEW m \in Keys,
                      sent'[k] > sent[k], status[k] \notin Closed,
                      m # k, identity[m] = identity[k], sent[m] > 0, status[m] \notin Closed
               PROVE  FALSE
    BY <1>1 DEF execVars
  <2>1. sent[k] \in Nat
    BY <1>1 DEF ExecInv, ExecTypeOK
  <2>2. \E c \in Callers : Send(c)
    <3>1. ~ UNCHANGED sent
      BY <2>1
    <3>2. ~Operate
      BY <3>1 DEF Operate, history
    <3>3. PICK c \in Callers : Execute(c)
      BY <3>2 DEF ExecNext
    <3>4. \A i, n, cost : ~Begin(c, n, i, cost) /\ ~Replay(c, n, i) /\ ~Refused(c, n, i, cost)
      BY <3>1 DEF Begin, Replay, Refused, execVars, history
    <3>5. ~Raise(c) /\ ~ReconcileFailure(c) /\ ~ReconcileResult(c) /\ ~ResultLost(c) /\ ~Crash(c)
      BY <3>1 DEF Raise, ReconcileFailure, ReconcileResult, ResultLost, Crash, history
    <3>6. \A r : ~Answer(c, r)
      BY <3>1 DEF Answer, history
    <3> QED
      BY <3>3, <3>4, <3>5, <3>6 DEF Execute
  <2>5. PICK c \in Callers : Send(c)
    BY <2>2
  <2>3. key[c] = k /\ at[c] # "idle"
    BY <1>1, <2>1, <2>5 DEF Send, ExecInv, ExecTypeOK
  <2>4. status[k] = "running" /\ status[m] = "running"
    BY <1>1, <2>3 DEF ExecInv, ExecTypeOK, Occupied, KeySound, Made
  <2> QED
    BY <1>1, <2>4 DEF OneRunningPerIdentity
<1> QED
  BY <1>1, AlwaysExec, ExecutionUsesLedger, SoleExecution, PTL DEF ExecSpec, NoBlindResend

-----------------------------------------------------------------------------
(* The run of a Talking scene, whose generations and checks are such calls. *)

\* A job that waits has an attempt left, and one not stored has used none.
JobCounts ==
    \A j \in Jobs :
        /\ jobs[j].status = "pending" => jobs[j].attempt < MaxAttempts
        /\ jobs[j].status = "absent" => jobs[j].attempt = 0

\* A handler that reads a video reads one.
ReadsVideo == \A w \in work : w.at = "read" => w.out \in Contents

\* The jobs a scene has not come to are not stored, and a video is checked
\* when its generation is completed.
Ahead(g, now) == now = 0 \/ (now = 1 /\ g = 2)
Ordered(s) == LET b == bind[s] IN
    /\ b.qa # 0 => b.gen # 0 /\ jobs[<<s, "gen", b.gen>>].status = "completed"
    /\ \A g \in Gens :
          /\ Ahead(g, b.gen) => /\ jobs[<<s, "gen", g>>].status = "absent"
                               /\ jobs[<<s, "qa", g>>].status = "absent"
                               /\ jobs[<<s, "preview", g>>].status = "absent"
          /\ g = b.gen /\ b.qa = 0 => jobs[<<s, "qa", g>>].status = "absent"
          /\ g = b.gen /\ b.preview = 0 => jobs[<<s, "preview", g>>].status = "absent"

\* What BoundTogether says of a scene's binding.
Bound(s) == LET b == bind[s] IN
    /\ b.qa \in {0, b.gen} /\ b.preview \in {0, b.gen} /\ b.admitted \in {0, b.preview}
    /\ b.qa = 0 <=> b.out = NoContent
    /\ b.preview # 0 => series[s][b.gen] = b.out /\ Is(s, "qa", b.qa, "completed")

\* What NothingLeftQueued says of a scene's jobs.
Settled(s) == \A g \in Gens :
    /\ run.stage = "cancelled" \/ bind[s].gen # g
          => jobs[<<s, "gen", g>>].status \notin {"pending", "running"}
    /\ run.stage = "cancelled" \/ bind[s].qa # g
          => jobs[<<s, "qa", g>>].status \notin {"pending", "running"}
    /\ run.stage = "cancelled" \/ bind[s].preview # g
          => jobs[<<s, "preview", g>>].status \notin {"pending", "running"}

Ties(s) == Ordered(s) /\ Bound(s) /\ Settled(s)

\* The evidence of a check is of the job that made the video.
ByJob == \A s \in Scenes, c \in Contents : assets[s][c].by # 0 => assets[s][c].by = assets[s][c].job

\* A review is of the video its collection's preview was made of.
ReviewedPreviewed ==
    \A s \in Scenes, g \in Gens :
        /\ reviews[s][g].verdict = "none" => reviews[s][g].of = NoContent
        /\ reviews[s][g].of # NoContent => previews[s][reviews[s][g].of] = g

\* Nobody decides on a video while another decision is on its way.
DeskFresh ==
    desk # NoDesk =>
        /\ assets[desk.scene][desk.of].human = "none"
        /\ desk.copy.by # 0 => desk.copy.by = desk.copy.job

TalkingInv ==
    /\ TalkingTypeOK /\ JobCounts /\ ReadsVideo
    /\ \A s \in Scenes : Ties(s)
    /\ ByJob /\ RepairsBounded
    /\ ReviewedPreviewed /\ AdmittedAsReviewed
    /\ DeskFresh

-----------------------------------------------------------------------------
(* Names of jobs, and what the types say                                   *)

\* A job is named by its scene, what it does and its generation.
LEMMA JobNames ==
  /\ \A s \in Scenes, k \in {"gen", "qa", "preview"}, g \in Gens : <<s, k, g>> \in Jobs
  /\ \A j \in Jobs : /\ j[1] \in Scenes /\ j[2] \in {"gen", "qa", "preview"} /\ j[3] \in Gens
                     /\ j = <<j[1], j[2], j[3]>>
  BY DEF Jobs

\* What the constants say of numbers.
LEMMA Bounds ==
  /\ Allowance \in 0..2 /\ MaxAttempts \in Nat \ {0} /\ MaxFaults \in Nat
  /\ NoContent \notin Contents /\ NoContent \notin Scenes
  /\ Gens = {1, 2}
  BY TalkingAssumption DEF Gens

\* What is bound of a scene, by its types.
LEMMA BindTypes ==
  ASSUME TalkingTypeOK, NEW s \in Scenes
  PROVE  /\ bind[s] \in Bindings
         /\ bind[s].gen \in {0, 1, 2} /\ bind[s].qa \in {0, 1, 2}
         /\ bind[s].preview \in {0, 1, 2} /\ bind[s].admitted \in {0, 1, 2}
         /\ bind[s].out \in Contents \cup {NoContent}
  BY Bounds DEF TalkingTypeOK, Bindings

\* A job is linked when the binding of its scene names it.
LEMMA LinkedJobs ==
  ASSUME TalkingTypeOK, NEW s \in Scenes, NEW g \in Gens
  PROVE  /\ <<s, "gen", g>> \in AllLinked <=> bind[s].gen = g
         /\ <<s, "qa", g>> \in AllLinked <=> bind[s].qa = g
         /\ <<s, "preview", g>> \in AllLinked <=> bind[s].preview = g
  BY JobNames DEF AllLinked, Linked, Job

\* The one output of a generation is a video of it.
LEMMA OneOutput ==
  ASSUME NEW s \in Scenes, NEW g \in Gens, NEW c, Outputs(s, g) = {c}
  PROVE  c \in Contents /\ assets[s][c].job = g
  BY DEF Outputs

\* Current evidence is of a completed, checked video of the bound generation.
LEMMA EvidenceSays ==
  ASSUME TalkingTypeOK, NEW s \in Scenes, Evidence(s)
  PROVE  /\ bind[s].gen \in Gens /\ bind[s].qa \in Gens /\ bind[s].out \in Contents
         /\ Is(s, "gen", bind[s].gen, "completed") /\ Is(s, "qa", bind[s].qa, "completed")
         /\ assets[s][bind[s].out].job = bind[s].gen
         /\ assets[s][bind[s].out].qa = "verified"
<1>1. bind[s].gen \in Gens /\ bind[s].qa \in Gens
  BY BindTypes, Bounds DEF Evidence, Is
<1> QED
  BY <1>1, OneOutput DEF Evidence

-----------------------------------------------------------------------------
(* Types                                                                   *)

\* What a worker's step may do to the jobs: it changes those that wait or run.
QuietJobs ==
    /\ jobs' \in [Jobs -> [status : Statuses, attempt : 0..MaxAttempts]]
    /\ \A j \in Jobs : jobs[j].status \notin {"pending", "running"} => jobs'[j] = jobs[j]

\* A report settles a job that runs.
LEMMA EndsQuiet ==
  ASSUME TalkingTypeOK, JobCounts, NEW w \in work, NEW ends \in {"completed", "failed", "faulted"},
         Ends(w, ends) \/ Retries(w, ends)
  PROVE  QuietJobs /\ JobCounts' /\ work' = work \ {w}
<1>1. w.job \in Jobs /\ jobs[w.job] \in [status : Statuses, attempt : 0..MaxAttempts]
  BY DEF TalkingTypeOK, Handlers
<1>2. PICK to \in {"completed", "failed", "faulted", "pending"} :
          Ends(w, to) /\ (to = "pending" => jobs[w.job].attempt # MaxAttempts)
  BY DEF Retries, Spent
<1>3. work' = work \ {w}
  BY <1>2 DEF Ends
<1>4. CASE ~Owns(w)
  <2>1. jobs' = jobs
    BY <1>2, <1>4 DEF Ends
  <2> QED
    BY <2>1, <1>3 DEF TalkingTypeOK, QuietJobs, JobCounts
<1>5. CASE Owns(w)
  <2>1. jobs' = [jobs EXCEPT ![w.job].status = to]
    BY <1>2, <1>5 DEF Ends
  <2>2. jobs[w.job].status = "running"
    BY <1>5 DEF Owns
  <2>3. jobs' \in [Jobs -> [status : Statuses, attempt : 0..MaxAttempts]]
    BY <2>1, <1>1 DEF TalkingTypeOK, Statuses
  <2>4. \A j \in Jobs : j # w.job => jobs'[j] = jobs[j]
    BY <2>1 DEF TalkingTypeOK
  <2>5. jobs'[w.job].status = to /\ jobs'[w.job].attempt = jobs[w.job].attempt
    BY <2>1, <1>1 DEF TalkingTypeOK
  <2>6. QuietJobs
    BY <2>2, <2>3, <2>4, <2>5 DEF QuietJobs
  <2>7. JobCounts'
    BY <1>1, <1>2, <2>4, <2>5, Bounds DEF JobCounts
  <2> QED
    BY <1>3, <2>6, <2>7
<1> QED
  BY <1>4, <1>5

\* A handler that goes on leaves its job alone.
LEMMA GoesTypes ==
  ASSUME TalkingTypeOK, NEW w \in work, NEW there \in {"begun", "called", "read", "good", "bad"},
         Goes(w, there)
  PROVE  work' \subseteq Handlers
<1>0. w \in Handlers
  BY DEF TalkingTypeOK
<1>1. [w EXCEPT !.at = there] \in Handlers
  BY <1>0 DEF Handlers
<1> QED
  BY <1>1 DEF Goes, TalkingTypeOK

\* A claim charges an attempt; a lost lease charges none.
LEMMA ClaimQuiet ==
  ASSUME TalkingTypeOK, JobCounts, NEW j \in Jobs, Claim(j) \/ LoseLease(j)
  PROVE  QuietJobs /\ JobCounts' /\ work' \subseteq Handlers
<1>0. jobs[j] \in [status : Statuses, attempt : 0..MaxAttempts] /\ MaxAttempts \in Nat \ {0}
  BY Bounds DEF TalkingTypeOK
<1>1. CASE Claim(j)
  <2>1. jobs[j].attempt + 1 \in 1..MaxAttempts
    BY <1>0, <1>1 DEF Claim, JobCounts
  <2>2. jobs'[j] = [status |-> "running", attempt |-> jobs[j].attempt + 1]
    BY <1>0, <1>1 DEF Claim, TalkingTypeOK
  <2>3. \A i \in Jobs : i # j => jobs'[i] = jobs[i]
    BY <1>1 DEF Claim, TalkingTypeOK
  <2>4. jobs' \in [Jobs -> [status : Statuses, attempt : 0..MaxAttempts]]
    <3>1. jobs' = [i \in Jobs |-> jobs'[i]]
      BY <1>1 DEF Claim, TalkingTypeOK
    <3>2. \A i \in Jobs : jobs'[i] \in [status : Statuses, attempt : 0..MaxAttempts]
      BY <2>1, <2>2, <2>3, <1>0 DEF TalkingTypeOK, Statuses
    <3> QED
      BY <3>1, <3>2
  <2>5. [job |-> j, attempt |-> jobs[j].attempt + 1, at |-> "begun", out |-> NoContent, seen |-> 0]
            \in Handlers
    BY <2>1, <1>0 DEF Handlers
  <2>6. work' \subseteq Handlers
    BY <1>1, <2>5 DEF Claim, TalkingTypeOK
  <2> QED
    BY <1>1, <2>2, <2>3, <2>4, <2>6 DEF Claim, QuietJobs, JobCounts
<1>2. CASE LoseLease(j)
  <2>1. PICK to \in {"failed", "pending"} :
            /\ jobs' = [jobs EXCEPT ![j].status = to]
            /\ to = "pending" => jobs[j].attempt # MaxAttempts
    BY <1>2 DEF LoseLease, Spent
  <2>2. jobs'[j].status = to /\ jobs'[j].attempt = jobs[j].attempt
    BY <2>1, <1>0 DEF TalkingTypeOK
  <2>3. \A i \in Jobs : i # j => jobs'[i] = jobs[i]
    BY <2>1 DEF TalkingTypeOK
  <2>4. jobs' \in [Jobs -> [status : Statuses, attempt : 0..MaxAttempts]]
    BY <2>1, <1>0 DEF TalkingTypeOK, Statuses
  <2>5. work' \subseteq Handlers
    BY <1>2 DEF LoseLease, TalkingTypeOK
  <2>6. jobs[j].status = "running"
    BY <1>2 DEF LoseLease
  <2>7. JobCounts'
    BY <1>0, <2>1, <2>2, <2>3 DEF JobCounts
  <2> QED
    BY <2>2, <2>3, <2>4, <2>5, <2>6, <2>7 DEF QuietJobs
<1> QED
  BY <1>1, <1>2

\* A job that is queued was not stored before.
LEMMA QueueTypes ==
  ASSUME TalkingTypeOK, JobCounts, NEW j \in Jobs, jobs[j].status = "absent", Queue(j)
  PROVE  /\ jobs' \in [Jobs -> [status : Statuses, attempt : 0..MaxAttempts]]
         /\ jobs'[j].status = "pending"
         /\ \A i \in Jobs : i # j => jobs'[i] = jobs[i]
         /\ JobCounts'
<1>0. jobs[j] \in [status : Statuses, attempt : 0..MaxAttempts] /\ MaxAttempts \in Nat \ {0}
  BY Bounds DEF TalkingTypeOK
<1>1. jobs'[j].status = "pending" /\ jobs'[j].attempt = 0
  BY <1>0 DEF Queue, TalkingTypeOK, JobCounts
<1>2. \A i \in Jobs : i # j => jobs'[i] = jobs[i]
  BY DEF Queue, TalkingTypeOK
<1>3. jobs' \in [Jobs -> [status : Statuses, attempt : 0..MaxAttempts]]
  BY <1>0 DEF Queue, TalkingTypeOK, Statuses
<1>4. JobCounts'
  BY <1>0, <1>1, <1>2 DEF JobCounts
<1> QED
  BY <1>1, <1>2, <1>3, <1>4

\* What a request changes of a scene's binding.
LEMMA BindUpdate ==
  ASSUME TalkingTypeOK, NEW s \in Scenes, NEW b \in Bindings, bind' = [bind EXCEPT ![s] = b]
  PROVE  /\ bind' \in [Scenes -> Bindings] /\ bind'[s] = b
         /\ \A r \in Scenes : r # s => bind'[r] = bind[r]
  BY DEF TalkingTypeOK

\* A handler's step keeps the types.
LEMMA HandleTypes ==
  ASSUME TalkingTypeOK, JobCounts, ReadsVideo, NEW w \in work, Handle(w)
  PROVE  TalkingTypeOK' /\ QuietJobs /\ JobCounts' /\ ReadsVideo'
<1>0. w \in Handlers
  BY DEF TalkingTypeOK
<1>1. w.job \in Jobs /\ w.job[1] \in Scenes /\ w.job[3] \in Gens /\ w.attempt \in 1..MaxAttempts
      /\ w.seen \in 0..MaxAttempts /\ w.out \in Contents \cup {NoContent}
  BY <1>0, JobNames DEF Handlers
<1>2. CASE Reports(w)
  <2>1. QuietJobs /\ JobCounts' /\ work' = work \ {w}
    BY <1>2, EndsQuiet DEF Reports
  <2> QED
    BY <1>2, <2>1 DEF Reports, TalkingTypeOK, QuietJobs, ReadsVideo
<1>3. CASE GenFails(w)
  <2>1. QuietJobs /\ JobCounts' /\ work' = work \ {w}
    BY <1>3, EndsQuiet DEF GenFails
  <2> QED
    BY <1>3, <2>1 DEF GenFails, TalkingTypeOK, QuietJobs, ReadsVideo
<1>4. ASSUME UNCHANGED jobs PROVE QuietJobs /\ JobCounts'
  BY <1>4 DEF QuietJobs, JobCounts, TalkingTypeOK
<1>5. ASSUME NEW there \in {"called", "good", "bad"}, Goes(w, there) PROVE work' \subseteq Handlers /\ ReadsVideo'
  <2>1. work' \subseteq Handlers
    BY <1>5, GoesTypes
  <2>2. [w EXCEPT !.at = there].at = there
    BY <1>0 DEF Handlers
  <2> QED
    BY <1>5, <2>1, <2>2 DEF Goes, ReadsVideo
<1>6. ASSUME NEW c \in Contents, NEW n \in 0..MaxAttempts,
             work' = (work \ {w}) \cup {[w EXCEPT !.at = "read", !.out = c, !.seen = n]}
      PROVE  work' \subseteq Handlers /\ ReadsVideo'
  <2>1. [w EXCEPT !.at = "read", !.out = c, !.seen = n] \in Handlers
    BY <1>0 DEF Handlers
  <2>2. [w EXCEPT !.at = "read", !.out = c, !.seen = n].out = c
    BY <1>0 DEF Handlers
  <2>3. work' \subseteq Handlers
    BY <1>6, <2>1 DEF TalkingTypeOK
  <2> QED
    BY <1>6, <2>2, <2>3 DEF ReadsVideo
<1>7. CASE GenCalls(w)
  <2>1. calls' \in [Scenes -> [Gens -> Nat]]
    BY <1>1, <1>7 DEF GenCalls, TalkingTypeOK
  <2> QED
    BY <1>4, <1>5, <1>7, <2>1 DEF GenCalls, TalkingTypeOK
<1>8. CASE GenStores(w)
  <2>1. Fresh(w.job[3], w.attempt) \in Videos
    BY <1>1, Bounds DEF Fresh, Videos
  <2>2. assets' \in [Scenes -> [Contents -> Videos]]
    BY <1>1, <1>8, <2>1 DEF GenStores, TalkingTypeOK
  <2> QED
    BY <1>4, <1>5, <1>8, <2>2 DEF GenStores, TalkingTypeOK
<1>9. CASE QaReads(w)
  <2>1. CASE \E there \in {"good", "bad"} : Goes(w, there)
    BY <1>4, <1>5, <1>9, <2>1 DEF QaReads, TalkingTypeOK
  <2>2. CASE ~\E there \in {"good", "bad"} : Goes(w, there)
    <3>1. PICK c : /\ c = bind[w.job[1]].out /\ Outputs(w.job[1], w.job[3]) = {c}
                   /\ work' = (work \ {w}) \cup {[w EXCEPT !.at = "read", !.out = c,
                                                  !.seen = assets[w.job[1]][c].attempt]}
      BY <1>9, <2>2 DEF QaReads, QaCurrent
    <3>2. c \in Contents
      BY <1>1, <3>1, OneOutput
    <3>3. assets[w.job[1]][c].attempt \in 0..MaxAttempts
      BY <1>1, <3>2 DEF TalkingTypeOK, Videos
    <3>4. work' \subseteq Handlers /\ ReadsVideo'
      BY <1>6, <3>1, <3>2, <3>3
    <3> QED
      BY <1>4, <1>9, <3>4 DEF QaReads, TalkingTypeOK
  <2> QED
    BY <2>1, <2>2
<1>10. CASE QaWrites(w)
  <2>1. PICK there \in {"good", "bad"} : Goes(w, there)
    BY <1>10 DEF QaWrites
  <2>2. assets' \in [Scenes -> [Contents -> Videos]]
    <3>1. \A q \in {"verified", "failed"} :
             [Fresh(w.job[3], w.seen) EXCEPT !.qa = q, !.by = w.job[3]] \in Videos
      BY <1>1, Bounds DEF Fresh, Videos
    <3>2. w.out \in Contents
      BY <1>10 DEF QaWrites, ReadsVideo
    <3>3. CASE UNCHANGED assets
      BY <3>3 DEF TalkingTypeOK
    <3>4. CASE ~UNCHANGED assets
      <4>1. PICK q \in {"verified", "failed"} :
               assets' = [assets EXCEPT ![w.job[1]][w.out] =
                             [Fresh(w.job[3], w.seen) EXCEPT !.qa = q, !.by = w.job[3]]]
        BY <1>10, <3>4 DEF QaWrites
      <4>2. [Fresh(w.job[3], w.seen) EXCEPT !.qa = q, !.by = w.job[3]] \in Videos
        BY <3>1
      <4> QED
        BY <1>1, <3>2, <4>1, <4>2 DEF TalkingTypeOK
    <3> QED
      BY <3>3, <3>4
  <2> QED
    BY <1>4, <1>5, <1>10, <2>1, <2>2 DEF QaWrites, TalkingTypeOK
<1>11. CASE PreviewReads(w)
  <2>1. CASE \E there \in {"good", "bad"} : Goes(w, there)
    BY <1>4, <1>5, <1>11, <2>1 DEF PreviewReads, TalkingTypeOK
  <2>2. CASE ~\E there \in {"good", "bad"} : Goes(w, there)
    <3>1. /\ Evidence(w.job[1])
          /\ work' = (work \ {w}) \cup {[w EXCEPT !.at = "read", !.out = bind[w.job[1]].out]}
      BY <1>11, <2>2 DEF PreviewReads, PreviewCurrent, Current
    <3>2. bind[w.job[1]].out \in Contents
      BY <1>1, <3>1, EvidenceSays
    <3>3. [w EXCEPT !.at = "read", !.out = bind[w.job[1]].out]
              = [w EXCEPT !.at = "read", !.out = bind[w.job[1]].out, !.seen = w.seen]
      BY <1>0 DEF Handlers
    <3>4. work' \subseteq Handlers /\ ReadsVideo'
      BY <1>1, <1>6, <3>1, <3>2, <3>3
    <3> QED
      BY <1>4, <1>11, <3>4 DEF PreviewReads, TalkingTypeOK
  <2> QED
    BY <2>1, <2>2
<1>12. CASE PreviewWrites(w)
  <2>1. PICK there \in {"good", "bad"} : Goes(w, there)
    BY <1>12 DEF PreviewWrites
  <2>2. previews' \in [Scenes -> [Contents -> {0} \cup Gens]]
    BY <1>1, <1>12 DEF PreviewWrites, TalkingTypeOK
  <2> QED
    BY <1>4, <1>5, <1>12, <2>1, <2>2 DEF PreviewWrites, TalkingTypeOK
<1> QED
  BY <1>2, <1>3, <1>7, <1>8, <1>9, <1>10, <1>11, <1>12 DEF Handle


-----------------------------------------------------------------------------
(* A scene's jobs and what it is bound to                                  *)

\* What stays said of a scene when its binding stays and only jobs that wait
\* or run are touched.
LEMMA KeepsTies ==
  ASSUME TalkingTypeOK, NEW s \in Scenes, Ties(s),
         bind'[s].gen = bind[s].gen, bind'[s].qa = bind[s].qa, bind'[s].out = bind[s].out,
         bind'[s].preview = bind[s].preview, bind'[s].admitted = bind[s].admitted,
         series'[s] = series[s],
         run'.stage = "cancelled" => run.stage = "cancelled",
         \A k \in {"gen", "qa", "preview"}, g \in Gens :
             jobs[<<s, k, g>>].status \notin {"pending", "running"}
                 => jobs'[<<s, k, g>>] = jobs[<<s, k, g>>]
  PROVE  Ties(s)'
<1>0. bind[s].gen \in {0, 1, 2} /\ bind[s].qa \in {0, 1, 2} /\ Gens = {1, 2}
  BY BindTypes, Bounds
<1>1. \A k \in {"gen", "qa", "preview"}, g \in Gens :
          /\ jobs[<<s, k, g>>].status = "completed" => jobs'[<<s, k, g>>].status = "completed"
          /\ jobs[<<s, k, g>>].status = "absent" => jobs'[<<s, k, g>>].status = "absent"
  OBVIOUS
<1>2. Ordered(s)'
  <2>1. bind[s].qa # 0 => bind[s].gen # 0 /\ jobs'[<<s, "gen", bind[s].gen>>].status = "completed"
    BY <1>0, <1>1 DEF Ties, Ordered
  <2> QED
    BY <1>0, <1>1, <2>1 DEF Ties, Ordered
<1>3. Bound(s)'
  <2>1. bind[s].preview # 0 => bind[s].qa # 0 /\ jobs'[<<s, "qa", bind[s].qa>>].status = "completed"
    BY <1>0, <1>1 DEF Ties, Bound, Is
  <2> QED
    BY <1>0, <2>1 DEF Ties, Bound, Is
<1>4. Settled(s)'
  BY DEF Ties, Settled
<1> QED
  BY <1>2, <1>3, <1>4 DEF Ties

\* A queued job is the only one that changes.
LEMMA QueueSays ==
  ASSUME TalkingTypeOK, JobCounts, NEW s \in Scenes, NEW k \in {"gen", "qa", "preview"},
         NEW g \in Gens, jobs[<<s, k, g>>].status = "absent", Queue(<<s, k, g>>)
  PROVE  /\ jobs' \in [Jobs -> [status : Statuses, attempt : 0..MaxAttempts]] /\ JobCounts'
         /\ \A r \in Scenes, l \in {"gen", "qa", "preview"}, h \in Gens :
               r # s \/ l # k \/ h # g => jobs'[<<r, l, h>>] = jobs[<<r, l, h>>]
<1>1. <<s, k, g>> \in Jobs
  BY JobNames
<1>2. /\ jobs' \in [Jobs -> [status : Statuses, attempt : 0..MaxAttempts]] /\ JobCounts'
      /\ \A i \in Jobs : i # <<s, k, g>> => jobs'[i] = jobs[i]
  BY <1>1, QueueTypes
<1>3. ASSUME NEW r \in Scenes, NEW l \in {"gen", "qa", "preview"}, NEW h \in Gens,
             r # s \/ l # k \/ h # g
      PROVE  jobs'[<<r, l, h>>] = jobs[<<r, l, h>>]
  <2>1. <<r, l, h>> \in Jobs
    BY JobNames
  <2>2. <<r, l, h>> # <<s, k, g>>
    BY <1>3
  <2> QED
    BY <1>2, <2>1, <2>2
<1> QED
  BY <1>2, <1>3

\* A request that queues one job of a scene leaves the others.
LEMMA QueueElsewhere ==
  ASSUME TalkingTypeOK, NEW s \in Scenes, NEW r \in Scenes, r # s, Ties(r),
         \A l \in {"gen", "qa", "preview"}, h \in Gens : jobs'[<<r, l, h>>] = jobs[<<r, l, h>>],
         bind'[r] = bind[r], series'[r] = series[r], UNCHANGED run
  PROVE  Ties(r)'
  BY KeepsTies

\* Dispatch of a scene's first job.
LEMMA DispatchTies ==
  ASSUME TalkingTypeOK, JobCounts, \A r \in Scenes : Ties(r), NEW s \in Scenes, DispatchTalking(s)
  PROVE  /\ bind' \in [Scenes -> Bindings]
         /\ jobs' \in [Jobs -> [status : Statuses, attempt : 0..MaxAttempts]] /\ JobCounts'
         /\ \A r \in Scenes : Ties(r)'
<1>0. /\ bind[s].gen = 0 /\ bind[s] \in Bindings /\ Gens = {1, 2}
      /\ bind[s].qa = 0 /\ bind[s].preview = 0 /\ bind[s].admitted = 0 /\ bind[s].out = NoContent
  BY BindTypes, Bounds DEF DispatchTalking, Ties, Bound
<1>1. bind' = [bind EXCEPT ![s] = [bind[s] EXCEPT !.gen = 1]]
  BY DEF DispatchTalking, TalkingTypeOK
<1>2. [bind[s] EXCEPT !.gen = 1] \in Bindings
  BY <1>0 DEF Bindings
<1>3. /\ bind' \in [Scenes -> Bindings] /\ bind'[s] = [bind[s] EXCEPT !.gen = 1]
      /\ \A r \in Scenes : r # s => bind'[r] = bind[r]
  BY <1>1, <1>2, BindUpdate
<1>4. jobs[<<s, "gen", 1>>].status = "absent" /\ Queue(<<s, "gen", 1>>)
  BY <1>0 DEF DispatchTalking, Job, Ahead, Ties, Ordered
<1>5. /\ jobs' \in [Jobs -> [status : Statuses, attempt : 0..MaxAttempts]] /\ JobCounts'
      /\ \A r \in Scenes, l \in {"gen", "qa", "preview"}, h \in Gens :
            r # s \/ l # "gen" \/ h # 1 => jobs'[<<r, l, h>>] = jobs[<<r, l, h>>]
  BY <1>0, <1>4, QueueSays
<1>6. \A r \in Scenes : r # s => Ties(r)'
  BY <1>3, <1>5, QueueElsewhere DEF DispatchTalking
<1>7. Ties(s)'
  <2>1. /\ bind'[s].gen = 1 /\ bind'[s].qa = 0 /\ bind'[s].preview = 0 /\ bind'[s].admitted = 0
        /\ bind'[s].out = NoContent
    BY <1>0, <1>3 DEF Bindings
  <2>2. /\ \A g \in Gens : /\ jobs'[<<s, "qa", g>>].status = "absent"
                           /\ jobs'[<<s, "preview", g>>].status = "absent"
        /\ jobs'[<<s, "gen", 2>>].status = "absent"
    <3>1. /\ \A g \in Gens : /\ jobs[<<s, "qa", g>>].status = "absent"
                             /\ jobs[<<s, "preview", g>>].status = "absent"
          /\ jobs[<<s, "gen", 2>>].status = "absent"
      BY <1>0 DEF Ahead, Ties, Ordered
    <3>2. \A g \in Gens : /\ jobs'[<<s, "qa", g>>] = jobs[<<s, "qa", g>>]
                          /\ jobs'[<<s, "preview", g>>] = jobs[<<s, "preview", g>>]
      BY <1>5
    <3>3. jobs'[<<s, "gen", 2>>] = jobs[<<s, "gen", 2>>]
      <4>1. 2 \in Gens
        BY Bounds
      <4> QED
        BY <1>5, <4>1
    <3> QED
      BY <3>1, <3>2, <3>3
  <2>3. run'.stage = "awaiting_talking"
    BY DEF DispatchTalking, Dispatchable, Waiting
  <2>4. Ordered(s)'
    BY <1>0, <2>1, <2>2 DEF Ahead, Ordered
  <2>5. Bound(s)'
    BY <2>1 DEF Bound
  <2>6. Settled(s)'
    BY <1>0, <2>1, <2>2, <2>3 DEF Settled
  <2> QED
    BY <2>4, <2>5, <2>6 DEF Ties
<1> QED
  BY <1>3, <1>5, <1>6, <1>7

\* The check of a video whose generation is completed.
LEMMA AdvanceTies ==
  ASSUME TalkingTypeOK, JobCounts, \A r \in Scenes : Ties(r), NEW s \in Scenes, AdvanceQa(s)
  PROVE  /\ bind' \in [Scenes -> Bindings]
         /\ jobs' \in [Jobs -> [status : Statuses, attempt : 0..MaxAttempts]] /\ JobCounts'
         /\ \A r \in Scenes : Ties(r)'
         /\ bind[s].admitted = 0
<1> PICK g : g = bind[s].gen
  OBVIOUS
<1>e. Gens = {1, 2} /\ 0 \notin Gens
  BY Bounds
<1>0. /\ g \in Gens /\ bind[s].gen = g /\ bind[s] \in Bindings
      /\ jobs[<<s, "gen", g>>].status = "completed"
      /\ bind[s].qa = 0 /\ bind[s].preview = 0 /\ bind[s].admitted = 0
  BY <1>e, BindTypes DEF AdvanceQa, Is, Ties, Bound
<1>1. PICK c : Outputs(s, g) = {c} /\ bind' = [bind EXCEPT ![s].out = c, ![s].qa = g]
  BY DEF AdvanceQa
<1>2. c \in Contents
  BY <1>0, <1>1, OneOutput
<1>3. bind' = [bind EXCEPT ![s] = [bind[s] EXCEPT !.out = c, !.qa = g]]
  BY <1>1 DEF TalkingTypeOK
<1>4. [bind[s] EXCEPT !.out = c, !.qa = g] \in Bindings
  BY <1>0, <1>2, <1>e DEF Bindings
<1>5. /\ bind' \in [Scenes -> Bindings] /\ bind'[s] = [bind[s] EXCEPT !.out = c, !.qa = g]
      /\ \A r \in Scenes : r # s => bind'[r] = bind[r]
  BY <1>3, <1>4, BindUpdate
<1>6. jobs[<<s, "qa", g>>].status = "absent" /\ Queue(<<s, "qa", g>>)
  BY <1>0 DEF AdvanceQa, Job, Ties, Ordered
<1>7. /\ jobs' \in [Jobs -> [status : Statuses, attempt : 0..MaxAttempts]] /\ JobCounts'
      /\ \A r \in Scenes, l \in {"gen", "qa", "preview"}, h \in Gens :
            r # s \/ l # "qa" \/ h # g => jobs'[<<r, l, h>>] = jobs[<<r, l, h>>]
  BY <1>0, <1>6, QueueSays
<1>8. \A r \in Scenes : r # s => Ties(r)'
  BY <1>5, <1>7, QueueElsewhere DEF AdvanceQa
<1>9. Ties(s)'
  <2>1. /\ bind'[s].gen = g /\ bind'[s].qa = g /\ bind'[s].preview = 0 /\ bind'[s].admitted = 0
        /\ bind'[s].out = c
    BY <1>0, <1>5 DEF Bindings
  <2>2. \A h \in Gens : /\ jobs'[<<s, "gen", h>>] = jobs[<<s, "gen", h>>]
                        /\ jobs'[<<s, "preview", h>>] = jobs[<<s, "preview", h>>]
                        /\ h # g => jobs'[<<s, "qa", h>>] = jobs[<<s, "qa", h>>]
    BY <1>7
  <2>3. run'.stage = "awaiting_talking" /\ run.stage = "awaiting_talking"
    BY DEF AdvanceQa, Waiting
  <2>4. Ordered(s)'
    <3>1. g # 0 /\ jobs'[<<s, "gen", g>>].status = "completed"
      BY <1>e, <1>0, <2>2
    <3>2. ASSUME NEW h \in Gens
          PROVE  /\ Ahead(h, g) => /\ jobs'[<<s, "gen", h>>].status = "absent"
                                  /\ jobs'[<<s, "qa", h>>].status = "absent"
                                  /\ jobs'[<<s, "preview", h>>].status = "absent"
                 /\ h = g => jobs'[<<s, "preview", h>>].status = "absent"
      BY <1>0, <2>2 DEF Ahead, Ties, Ordered
    <3> QED
      BY <2>1, <3>1, <3>2 DEF Ordered
  <2>5. Bound(s)'
    BY <1>0, <1>2, <1>e, <2>1, Bounds DEF Bound
  <2>6. Settled(s)'
    <3>1. ASSUME NEW h \in Gens
          PROVE  /\ h # g => jobs'[<<s, "gen", h>>].status \notin {"pending", "running"}
                 /\ h # g => jobs'[<<s, "qa", h>>].status \notin {"pending", "running"}
                 /\ jobs'[<<s, "preview", h>>].status \notin {"pending", "running"}
      BY <1>e, <1>0, <2>2 DEF Ties, Settled
    <3> QED
      BY <2>1, <2>3, <3>1, <1>e DEF Settled
  <2> QED
    BY <2>4, <2>5, <2>6 DEF Ties
<1> QED
  BY <1>0, <1>5, <1>7, <1>8, <1>9

\* The preview of a checked video.
LEMMA PrepareTies ==
  ASSUME TalkingTypeOK, JobCounts, \A r \in Scenes : Ties(r), NEW s \in Scenes, PreparePreview(s)
  PROVE  /\ bind' \in [Scenes -> Bindings]
         /\ series' \in [Scenes -> [Gens -> Contents \cup {NoContent}]]
         /\ jobs' \in [Jobs -> [status : Statuses, attempt : 0..MaxAttempts]] /\ JobCounts'
         /\ \A r \in Scenes : Ties(r)'
<1> PICK g : g = bind[s].gen
  OBVIOUS
<1>e. Gens = {1, 2} /\ 0 \notin Gens
  BY Bounds
<1>0. /\ g \in Gens /\ bind[s].gen = g /\ bind[s] \in Bindings /\ bind[s].out \in Contents
      /\ bind[s].qa \in Gens /\ Is(s, "qa", bind[s].qa, "completed")
      /\ Is(s, "gen", bind[s].gen, "completed") /\ bind[s].preview = 0
  BY BindTypes, EvidenceSays DEF PreparePreview, Current
<1>1. /\ bind[s].admitted = 0 /\ bind[s].qa = g /\ run.stage # "cancelled"
      /\ jobs[<<s, "gen", g>>].status = "completed" /\ jobs[<<s, "qa", g>>].status = "completed"
  BY <1>e, <1>0 DEF Ties, Bound, PreparePreview, Current, Evidence, Live, Waiting, Is
<1>3. bind' = [bind EXCEPT ![s] = [bind[s] EXCEPT !.preview = g]]
  BY DEF PreparePreview, TalkingTypeOK
<1>4. [bind[s] EXCEPT !.preview = g] \in Bindings
  BY <1>0 DEF Bindings
<1>5. /\ bind' \in [Scenes -> Bindings] /\ bind'[s] = [bind[s] EXCEPT !.preview = g]
      /\ \A r \in Scenes : r # s => bind'[r] = bind[r]
  BY <1>3, <1>4, BindUpdate
<1>6. jobs[<<s, "preview", g>>].status = "absent" /\ Queue(<<s, "preview", g>>)
  BY <1>0 DEF PreparePreview, Job, Ties, Ordered
<1>7. /\ jobs' \in [Jobs -> [status : Statuses, attempt : 0..MaxAttempts]] /\ JobCounts'
      /\ \A r \in Scenes, l \in {"gen", "qa", "preview"}, h \in Gens :
            r # s \/ l # "preview" \/ h # g => jobs'[<<r, l, h>>] = jobs[<<r, l, h>>]
  <2>1. g \in Gens
    BY <1>0
  <2> QED
    BY <1>6, <2>1, QueueSays
<1>8. /\ series' \in [Scenes -> [Gens -> Contents \cup {NoContent}]]
      /\ series'[s][g] = bind[s].out /\ \A r \in Scenes : r # s => series'[r] = series[r]
  BY <1>0 DEF PreparePreview, TalkingTypeOK
<1>9. \A r \in Scenes : r # s => Ties(r)'
  BY <1>5, <1>7, <1>8, QueueElsewhere DEF PreparePreview
<1>10. Ties(s)'
  <2>1. /\ bind'[s].gen = g /\ bind'[s].qa = g /\ bind'[s].preview = g /\ bind'[s].admitted = 0
        /\ bind'[s].out = bind[s].out
    BY <1>0, <1>1, <1>5 DEF Bindings
  <2>2. \A h \in Gens : /\ jobs'[<<s, "gen", h>>] = jobs[<<s, "gen", h>>]
                        /\ jobs'[<<s, "qa", h>>] = jobs[<<s, "qa", h>>]
                        /\ h # g => jobs'[<<s, "preview", h>>] = jobs[<<s, "preview", h>>]
    BY <1>7
  <2>3. run'.stage # "cancelled"
    BY <1>1 DEF PreparePreview
  <2>4. Ordered(s)'
    <3>1. g # 0 /\ jobs'[<<s, "gen", g>>].status = "completed"
      BY <1>e, <1>0, <1>1, <2>2
    <3>2. ASSUME NEW h \in Gens
          PROVE  /\ Ahead(h, g) => /\ jobs'[<<s, "gen", h>>].status = "absent"
                                  /\ jobs'[<<s, "qa", h>>].status = "absent"
                                  /\ jobs'[<<s, "preview", h>>].status = "absent"
      <4>1. Ahead(h, g) => h # g
        BY <1>e, <1>0 DEF Ahead
      <4>2. Ahead(h, g) => /\ jobs[<<s, "gen", h>>].status = "absent"
                           /\ jobs[<<s, "qa", h>>].status = "absent"
                           /\ jobs[<<s, "preview", h>>].status = "absent"
        BY <1>0 DEF Ties, Ordered
      <4> QED
        BY <2>2, <4>1, <4>2
    <3> QED
      BY <1>e, <1>0, <2>1, <3>1, <3>2 DEF Ordered
  <2>5. Bound(s)'
    BY <1>e, <1>0, <1>1, <1>8, <2>1, <2>2, Bounds DEF Bound, Is
  <2>6. Settled(s)'
    <3>1. ASSUME NEW h \in Gens
          PROVE  /\ h # g => jobs'[<<s, "gen", h>>].status \notin {"pending", "running"}
                 /\ h # g => jobs'[<<s, "qa", h>>].status \notin {"pending", "running"}
                 /\ h # g => jobs'[<<s, "preview", h>>].status \notin {"pending", "running"}
      BY <1>e, <1>0, <1>1, <2>2 DEF Ties, Settled
    <3> QED
      BY <2>1, <2>3, <3>1 DEF Settled
  <2> QED
    BY <2>4, <2>5, <2>6 DEF Ties
<1> QED
  BY <1>5, <1>7, <1>8, <1>9, <1>10

\* A binding stays one when a repair clears it field by field.
LEMMA Released ==
  ASSUME NEW o \in Bindings
  PROVE  [o EXCEPT !.gen = 2, !.out = NoContent, !.qa = 0, !.preview = 0] \in Bindings
<1>1. \A c \in Bindings : [c EXCEPT !.gen = 2] \in Bindings
  BY DEF Bindings, Gens
<1>2. \A c \in Bindings : [c EXCEPT !.out = NoContent] \in Bindings
  BY DEF Bindings
<1>3. \A c \in Bindings : [c EXCEPT !.qa = 0] \in Bindings
  BY DEF Bindings
<1>4. \A c \in Bindings : [c EXCEPT !.preview = 0] \in Bindings
  BY DEF Bindings
<1>5. [o EXCEPT !.gen = 2, !.out = NoContent] \in Bindings
  <2>1. [o EXCEPT !.gen = 2] \in Bindings
    BY <1>1
  <2> QED
    BY <2>1, <1>2
<1>6. [o EXCEPT !.gen = 2, !.out = NoContent, !.qa = 0] \in Bindings
  BY <1>5, <1>3
<1> QED
  BY <1>6, <1>4

\* A repair finds nothing of the replaced video waiting.
LEMMA RepairTies ==
  ASSUME TalkingTypeOK, JobCounts, \A r \in Scenes : Ties(r), NEW s \in Scenes, Repair(s)
  PROVE  /\ bind' \in [Scenes -> Bindings]
         /\ bind'[s].gen = 2 /\ bind'[s].admitted = 0
         /\ \A r \in Scenes : r # s => bind'[r] = bind[r]
         /\ jobs' \in [Jobs -> [status : Statuses, attempt : 0..MaxAttempts]] /\ JobCounts'
         /\ \A r \in Scenes : Ties(r)'
<1> DEFINE b == [bind[s] EXCEPT !.gen = 2, !.out = NoContent, !.qa = 0, !.preview = 0]
<1>0. /\ bind[s].gen = 1 /\ bind[s].admitted = 0 /\ bind[s] \in Bindings /\ Gens = {1, 2}
      /\ bind[s].qa \in {0, 1} /\ bind[s].preview \in {0, 1}
  BY BindTypes, Bounds DEF Repair, Ties, Bound
<1>1. bind' = [bind EXCEPT ![s] = b]
  BY DEF Repair, TalkingTypeOK
<1>2. b \in Bindings
  BY <1>0, Released
<1>3. bind' \in [Scenes -> Bindings] /\ bind'[s] = b /\ \A r \in Scenes : r # s => bind'[r] = bind[r]
  BY <1>1, <1>2, BindUpdate
<1>4. jobs[<<s, "gen", 2>>].status = "absent" /\ Queue(<<s, "gen", 2>>)
  BY <1>0 DEF Repair, Job, Ahead, Ties, Ordered
<1>5. /\ jobs' \in [Jobs -> [status : Statuses, attempt : 0..MaxAttempts]] /\ JobCounts'
      /\ \A r \in Scenes, l \in {"gen", "qa", "preview"}, h \in Gens :
            r # s \/ l # "gen" \/ h # 2 => jobs'[<<r, l, h>>] = jobs[<<r, l, h>>]
  BY <1>0, <1>4, QueueSays
<1>6. \A r \in Scenes : r # s => Ties(r)'
  BY <1>3, <1>5, QueueElsewhere DEF Repair
<1>7. /\ jobs[<<s, "gen", 1>>].status \notin {"pending", "running"}
      /\ jobs[<<s, "qa", 1>>].status \notin {"pending", "running"}
      /\ jobs[<<s, "preview", 1>>].status \notin {"pending", "running"}
  <2>1. CASE jobs[<<s, "gen", 1>>].status = "faulted"
    <3>1. bind[s].qa = 0
      BY <1>0, <2>1 DEF Ahead, Ties, Ordered, Is
    <3>2. bind[s].preview = 0
      BY <1>0, <3>1 DEF Ties, Bound, Is
    <3>3. 1 \in Gens /\ bind[s].qa # 1 /\ bind[s].preview # 1
      BY <3>1, <3>2, Bounds
    <3> QED
      BY <2>1, <3>3 DEF Ties, Settled
  <2>2. CASE jobs[<<s, "gen", 1>>].status # "faulted"
    <3>1. jobs[<<s, "gen", 1>>].status = "completed" /\ bind[s].preview = 1 /\ Candidate(s)
      BY <1>0, <2>2 DEF Repair, Repairable, Is
    <3>4. bind[s].qa = 1
      BY <1>0, <3>1, Bounds DEF Ties, Bound, Is
    <3>2. jobs[<<s, "preview", 1>>].status = "completed"
      BY <3>1 DEF Candidate, Previewed, Is
    <3>3. jobs[<<s, "qa", 1>>].status = "completed"
      BY <3>1, <3>4 DEF Candidate, Current, Evidence, Is
    <3> QED
      BY <3>1, <3>2, <3>3
  <2> QED
    BY <2>1, <2>2
<1>8. bind'[s].gen = 2 /\ bind'[s].qa = 0 /\ bind'[s].preview = 0 /\ bind'[s].admitted = 0
      /\ bind'[s].out = NoContent
  BY <1>0, <1>3 DEF Bindings
<1>9. Ties(s)'
  <2>2. \A h \in Gens : /\ jobs'[<<s, "qa", h>>] = jobs[<<s, "qa", h>>]
                        /\ jobs'[<<s, "preview", h>>] = jobs[<<s, "preview", h>>]
                        /\ h # 2 => jobs'[<<s, "gen", h>>] = jobs[<<s, "gen", h>>]
    BY <1>5
  <2>3. run'.stage = "awaiting_talking"
    BY DEF Repair, Admitted, Dispatchable, Waiting
  <2>4. Ordered(s)'
    <3>1. /\ jobs[<<s, "qa", 2>>].status = "absent"
          /\ jobs[<<s, "preview", 2>>].status = "absent"
      BY <1>0 DEF Ahead, Ties, Ordered
    <3>2. /\ jobs'[<<s, "qa", 2>>].status = "absent"
          /\ jobs'[<<s, "preview", 2>>].status = "absent"
      BY <1>0, <2>2, <3>1
    <3> QED
      BY <1>0, <1>8, <3>2 DEF Ahead, Ordered
  <2>5. Bound(s)'
    BY <1>8 DEF Bound
  <2>6. Settled(s)'
    <3>1. /\ jobs[<<s, "qa", 2>>].status = "absent"
          /\ jobs[<<s, "preview", 2>>].status = "absent"
      BY <1>0 DEF Ahead, Ties, Ordered
    <3> QED
      BY <1>0, <1>7, <1>8, <2>2, <2>3, <3>1 DEF Settled
  <2> QED
    BY <2>4, <2>5, <2>6 DEF Ties
<1> QED
  BY <1>3, <1>5, <1>6, <1>8, <1>9

\* Upsets are bounded.
LEMMA FaultTypes ==
  ASSUME TalkingTypeOK, Fault
  PROVE  faults' \in 0..MaxFaults
  BY Bounds DEF Fault, TalkingTypeOK

\* A request that queues no job keeps the types.
LEMMA RequestTypes ==
  ASSUME TalkingTypeOK, NEW s \in Scenes,
         \/ BindSource(s) \/ BeginSuitability(s) \/ ApplySuitability(s) \/ AdmitSource(s)
         \/ DeskReads(s) \/ RecordReview(s) \/ Concern(s) \/ AdmitRun(s)
  PROVE  TalkingTypeOK'
<1>0. bind[s] \in Bindings
  BY DEF TalkingTypeOK
<1>1. ASSUME BindSource(s) \/ BeginSuitability(s) \/ ApplySuitability(s) PROVE TalkingTypeOK'
  <2>1. PICK d \in {"bound", "claimed", "suitable", "unusable"} :
            bind' = [bind EXCEPT ![s].source = d]
    BY <1>1 DEF BindSource, BeginSuitability, ApplySuitability
  <2>2. bind' \in [Scenes -> Bindings]
    BY <1>0, <2>1 DEF TalkingTypeOK, Bindings
  <2> QED
    BY <1>1, <2>2 DEF BindSource, BeginSuitability, ApplySuitability, TalkingTypeOK
<1>2. CASE AdmitSource(s)
  <2>1. faults' \in 0..MaxFaults
    BY <1>2, FaultTypes DEF AdmitSource, TalkingTypeOK
  <2>2. receipts' \in [Scenes -> {"none", "active", "revoked"}]
    <3>1. PICK d \in {"active", "revoked"} : receipts' = [receipts EXCEPT ![s] = d]
      BY <1>2 DEF AdmitSource
    <3> QED
      BY <3>1 DEF TalkingTypeOK
  <2> QED
    BY <1>2, <2>1, <2>2 DEF AdmitSource, TalkingTypeOK
<1>3. CASE DeskReads(s)
  <2>1. PICK c \in Contents, d \in {"approved", "rejected"} :
            desk' = [scene |-> s, of |-> c, copy |-> [assets[s][c] EXCEPT !.human = d]]
    BY <1>3 DEF DeskReads
  <2>2. [assets[s][c] EXCEPT !.human = d] \in Videos
    <3>1. assets[s][c] \in Videos
      BY DEF TalkingTypeOK
    <3> QED
      BY <3>1 DEF Videos
  <2>3. desk' \in Desk
    BY <2>1, <2>2 DEF Desk
  <2> QED
    BY <1>3, <2>3 DEF DeskReads, TalkingTypeOK
<1>4. CASE RecordReview(s)
  <2>1. bind[s].preview \in Gens /\ bind[s].out \in Contents
    BY <1>4, BindTypes, EvidenceSays DEF RecordReview, Candidate, Current, Previewed
  <2>2. PICK v \in Verdicts :
            reviews' = [reviews EXCEPT ![s][bind[s].preview] = [verdict |-> v, of |-> bind[s].out]]
    BY <1>4 DEF RecordReview
  <2>3. [verdict |-> v, of |-> bind[s].out] \in Reviews
    BY <2>1 DEF Verdicts, Reviews, Against
  <2>4. reviews' \in [Scenes -> [Gens -> Reviews]]
    BY <2>1, <2>2, <2>3 DEF TalkingTypeOK
  <2> QED
    BY <1>4, <2>4 DEF RecordReview, TalkingTypeOK
<1>5. CASE Concern(s)
  <2>1. bind[s].out \in Contents
    BY <1>5, EvidenceSays DEF Concern, Candidate, Current
  <2>2. PICK a \in {"open", "cleared"} \cup Against :
            concerns' = [concerns EXCEPT ![s][bind[s].out] = a]
    BY <1>5 DEF Concern
  <2>3. concerns' \in [Scenes -> [Contents -> {"none", "open", "cleared"} \cup Against]]
    BY <2>1, <2>2 DEF TalkingTypeOK
  <2> QED
    BY <1>5, <2>3 DEF Concern, TalkingTypeOK
<1>6. CASE AdmitRun(s)
  <2>1. bind[s].preview \in {0} \cup Gens
    BY <1>0 DEF Bindings
  <2>2. bind' \in [Scenes -> Bindings]
    BY <1>0, <1>6, <2>1 DEF AdmitRun, TalkingTypeOK, Bindings
  <2> QED
    BY <1>6, <2>2 DEF AdmitRun, TalkingTypeOK
<1> QED
  BY <1>1, <1>2, <1>3, <1>4, <1>5, <1>6

\* A request that queues a job keeps the types.
LEMMA QueueingTypes ==
  ASSUME TalkingTypeOK, JobCounts, \A r \in Scenes : Ties(r), NEW s \in Scenes,
         DispatchTalking(s) \/ AdvanceQa(s) \/ PreparePreview(s) \/ Repair(s)
  PROVE  TalkingTypeOK' /\ JobCounts' /\ \A r \in Scenes : Ties(r)'
<1>1. CASE DispatchTalking(s)
  <2>1. /\ bind' \in [Scenes -> Bindings] /\ JobCounts' /\ \A r \in Scenes : Ties(r)'
        /\ jobs' \in [Jobs -> [status : Statuses, attempt : 0..MaxAttempts]]
    BY <1>1, DispatchTies
  <2> QED
    BY <1>1, <2>1 DEF DispatchTalking, TalkingTypeOK
<1>2. CASE AdvanceQa(s)
  <2>1. /\ bind' \in [Scenes -> Bindings] /\ JobCounts' /\ \A r \in Scenes : Ties(r)'
        /\ jobs' \in [Jobs -> [status : Statuses, attempt : 0..MaxAttempts]]
    BY <1>2, AdvanceTies
  <2> QED
    BY <1>2, <2>1 DEF AdvanceQa, TalkingTypeOK
<1>3. CASE PreparePreview(s)
  <2>1. /\ bind' \in [Scenes -> Bindings] /\ JobCounts' /\ \A r \in Scenes : Ties(r)'
        /\ jobs' \in [Jobs -> [status : Statuses, attempt : 0..MaxAttempts]]
        /\ series' \in [Scenes -> [Gens -> Contents \cup {NoContent}]]
    BY <1>3, PrepareTies
  <2> QED
    BY <1>3, <2>1 DEF PreparePreview, TalkingTypeOK
<1>4. CASE Repair(s)
  <2>1. /\ bind' \in [Scenes -> Bindings] /\ JobCounts' /\ \A r \in Scenes : Ties(r)'
        /\ jobs' \in [Jobs -> [status : Statuses, attempt : 0..MaxAttempts]]
    BY <1>4, RepairTies
  <2> QED
    BY <1>4, <2>1 DEF Repair, TalkingTypeOK
<1> QED
  BY <1>1, <1>2, <1>3, <1>4

\* Requests on the run keep the types; Cancel leaves no job to the workers.
LEMMA RunTypes ==
  ASSUME TalkingTypeOK, JobCounts, \A r \in Scenes : Ties(r),
         Resume \/ Cancel \/ Around \/ DeskWrites \/ ClaimRender
  PROVE  TalkingTypeOK' /\ JobCounts' /\ \A r \in Scenes : Ties(r)'
<1>1. CASE ~Cancel
  <2>1. TalkingTypeOK'
    <3>1. CASE Resume
      BY <3>1 DEF Resume, TalkingTypeOK
    <3>2. CASE Around
      <4>1. faults' \in 0..MaxFaults
        BY <3>2, FaultTypes DEF Around, TalkingTypeOK
      <4>2. PICK x \in {"draft", "authority", "budget"}, on \in BOOLEAN :
                around' = [around EXCEPT ![x] = on]
        BY <3>2 DEF Around
      <4>3. around' \in [draft : BOOLEAN, authority : BOOLEAN, budget : BOOLEAN]
        BY <4>2 DEF TalkingTypeOK
      <4> QED
        BY <3>2, <4>1, <4>3 DEF Around, TalkingTypeOK
    <3>3. CASE DeskWrites
      <4>1. desk.scene \in Scenes /\ desk.of \in Contents /\ desk.copy \in Videos
        BY <3>3 DEF DeskWrites, TalkingTypeOK, Desk
      <4>2. assets' \in [Scenes -> [Contents -> Videos]]
        BY <3>3, <4>1 DEF DeskWrites, TalkingTypeOK
      <4> QED
        BY <3>3, <4>2 DEF DeskWrites, TalkingTypeOK
    <3>4. CASE ClaimRender
      BY <3>4 DEF ClaimRender, TalkingTypeOK
    <3> QED
      BY <1>1, <3>1, <3>2, <3>3, <3>4
  <2>2. UNCHANGED <<bind, jobs, series>> /\ (run'.stage = "cancelled" => run.stage = "cancelled")
    BY <1>1 DEF Resume, Around, DeskWrites, ClaimRender, TalkingTypeOK
  <2>3. JobCounts'
    BY <2>2 DEF JobCounts
  <2>4. ASSUME NEW r \in Scenes PROVE Ties(r)'
    BY <2>2, <2>4, KeepsTies
  <2> QED
    BY <2>1, <2>3, <2>4
<1>2. CASE Cancel /\ ~Waiting
  <2>1. /\ UNCHANGED <<bind, jobs, series>> /\ run'.stage = run.stage
        /\ run' = [run EXCEPT !.render = "cancelled"]
    BY <1>2 DEF Cancel, TalkingTypeOK
  <2>2. TalkingTypeOK'
    BY <1>2, <2>1 DEF Cancel, TalkingTypeOK
  <2>3. JobCounts'
    BY <2>1 DEF JobCounts
  <2>4. ASSUME NEW r \in Scenes PROVE Ties(r)'
    BY <2>1, <2>4, KeepsTies
  <2> QED
    BY <2>2, <2>3, <2>4
<1>3. CASE Cancel /\ Waiting
  <2>1. /\ \A j \in AllLinked : jobs[j].status # "running"
        /\ jobs' = Withdrawn(AllLinked) /\ run' = [run EXCEPT !.stage = "cancelled"]
        /\ UNCHANGED <<bind, series>>
    BY <1>3 DEF Cancel, Waiting
  <2>2. \A j \in Jobs :
           /\ jobs[j].status # "pending" => jobs'[j] = jobs[j]
           /\ jobs[j].status = "pending" /\ j \in AllLinked => jobs'[j].status = "cancelled"
           /\ jobs'[j] \in [status : Statuses, attempt : 0..MaxAttempts]
           /\ jobs'[j].status \in {"pending", "absent"} => jobs'[j] = jobs[j]
    BY <2>1 DEF Withdrawn, TalkingTypeOK, Statuses
  <2>3. TalkingTypeOK'
    <3>1. jobs' \in [Jobs -> [status : Statuses, attempt : 0..MaxAttempts]]
      BY <2>1, <2>2 DEF Withdrawn
    <3>2. run' \in [stage : {"awaiting_talking", "render", "cancelled"}, policy : 1..2,
                    earlier : 0..Allowance, render : {"none", "pending", "claimed", "cancelled"}]
      BY <2>1 DEF TalkingTypeOK
    <3> QED
      BY <1>3, <3>1, <3>2 DEF Cancel, TalkingTypeOK
  <2>4. JobCounts'
    BY <2>2 DEF JobCounts
  <2>5. ASSUME NEW r \in Scenes PROVE Ties(r)'
    <3>1. \A k \in {"gen", "qa", "preview"}, g \in Gens :
             jobs[<<r, k, g>>].status # "pending" => jobs'[<<r, k, g>>] = jobs[<<r, k, g>>]
      BY <2>2, JobNames
    <3>2. Ordered(r)'
      <4>1. bind[r].gen \in {0, 1, 2} /\ Gens = {1, 2}
        BY BindTypes, Bounds
      <4>2. bind[r].qa # 0 => bind[r].gen # 0 /\ jobs'[<<r, "gen", bind[r].gen>>].status = "completed"
        BY <3>1, <4>1 DEF Ties, Ordered
      <4>3. \A k \in {"gen", "qa", "preview"}, g \in Gens :
               jobs[<<r, k, g>>].status = "absent" => jobs'[<<r, k, g>>].status = "absent"
        BY <3>1
      <4> QED
        BY <2>1, <4>2, <4>3 DEF Ties, Ordered
    <3>3. Bound(r)'
      <4>1. bind[r].qa \in {0, 1, 2} /\ Gens = {1, 2}
        BY BindTypes, Bounds
      <4>2. bind[r].preview # 0 => bind[r].qa # 0 /\ jobs'[<<r, "qa", bind[r].qa>>].status = "completed"
        BY <3>1, <4>1 DEF Ties, Bound, Is
      <4> QED
        BY <2>1, <4>2 DEF Ties, Bound, Is
    <3>4. Settled(r)'
      <4>1. ASSUME NEW k \in {"gen", "qa", "preview"}, NEW g \in Gens
            PROVE  jobs'[<<r, k, g>>].status \notin {"pending", "running"}
        <5>1. <<r, k, g>> \in Jobs
          BY JobNames
        <5>2. CASE <<r, k, g>> \in AllLinked
          BY <2>1, <2>2, <5>1, <5>2
        <5>3. CASE <<r, k, g>> \notin AllLinked
          <6>1. jobs[<<r, k, g>>].status \notin {"pending", "running"}
            BY <5>3, LinkedJobs DEF Ties, Settled
          <6> QED
            BY <2>2, <5>1, <6>1
        <5> QED
          BY <5>2, <5>3
      <4> QED
        BY <4>1 DEF Settled
    <3> QED
      BY <3>2, <3>3, <3>4 DEF Ties
  <2> QED
    BY <2>3, <2>4, <2>5
<1> QED
  BY <1>1, <1>2, <1>3

\* A step of a worker leaves a scene's binding and what its jobs had settled.
LEMMA WorkerTies ==
  ASSUME TalkingTypeOK, \A r \in Scenes : Ties(r), QuietJobs, UNCHANGED <<bind, run, series>>
  PROVE  \A r \in Scenes : Ties(r)'
<1> SUFFICES ASSUME NEW r \in Scenes PROVE Ties(r)'
  OBVIOUS
<1>1. \A k \in {"gen", "qa", "preview"}, g \in Gens :
         jobs[<<r, k, g>>].status \notin {"pending", "running"} => jobs'[<<r, k, g>>] = jobs[<<r, k, g>>]
  BY JobNames DEF QuietJobs
<1>2. Ties(r)
  OBVIOUS
<1> QED
  BY <1>1, <1>2, KeepsTies

\* Every step keeps the types and what ties a scene to its jobs.
LEMMA StepTies ==
  ASSUME TalkingTypeOK, JobCounts, ReadsVideo, \A r \in Scenes : Ties(r), TalkingNext
  PROVE  TalkingTypeOK' /\ JobCounts' /\ ReadsVideo' /\ \A r \in Scenes : Ties(r)'
<1>1. ASSUME NEW s \in Scenes, Requests(s)
      PROVE  TalkingTypeOK' /\ JobCounts' /\ ReadsVideo' /\ \A r \in Scenes : Ties(r)'
  <2>1. ReadsVideo'
    <3>1. UNCHANGED work
      BY <1>1 DEF Requests, BindSource, BeginSuitability, ApplySuitability, AdmitSource,
                  DispatchTalking, AdvanceQa, PreparePreview, DeskReads, RecordReview, Concern,
                  AdmitRun, Repair
    <3> QED
      BY <3>1 DEF ReadsVideo
  <2>2. CASE DispatchTalking(s) \/ AdvanceQa(s) \/ PreparePreview(s) \/ Repair(s)
    BY <2>1, <2>2, QueueingTypes
  <2>3. CASE ~(DispatchTalking(s) \/ AdvanceQa(s) \/ PreparePreview(s) \/ Repair(s))
    <3>1. \/ BindSource(s) \/ BeginSuitability(s) \/ ApplySuitability(s) \/ AdmitSource(s)
          \/ DeskReads(s) \/ RecordReview(s) \/ Concern(s) \/ AdmitRun(s)
      BY <1>1, <2>3 DEF Requests
    <3>2. TalkingTypeOK'
      BY <3>1, RequestTypes
    <3>3. UNCHANGED <<jobs, run, series>>
      BY <3>1 DEF BindSource, BeginSuitability, ApplySuitability, AdmitSource, DeskReads,
                  RecordReview, Concern, AdmitRun
    <3>4. JobCounts'
      BY <3>3 DEF JobCounts
    <3>5. ASSUME NEW r \in Scenes PROVE Ties(r)'
      <4>1. CASE AdmitRun(s) /\ r = s
        <5>1. /\ bind'[s].admitted = bind[s].preview /\ bind'[s].gen = bind[s].gen
              /\ bind'[s].qa = bind[s].qa /\ bind'[s].out = bind[s].out
              /\ bind'[s].preview = bind[s].preview
          BY <4>1 DEF AdmitRun, TalkingTypeOK, Bindings
        <5>2. Ordered(s)'
          BY <3>3, <5>1 DEF Ties, Ordered
        <5>3. Bound(s)'
          BY <3>3, <5>1 DEF Ties, Bound, Is
        <5>4. Settled(s)'
          BY <3>3, <5>1 DEF Ties, Settled
        <5> QED
          BY <4>1, <5>2, <5>3, <5>4 DEF Ties
      <4>2. CASE ~(AdmitRun(s) /\ r = s)
        <5>1. /\ bind'[r].gen = bind[r].gen /\ bind'[r].qa = bind[r].qa /\ bind'[r].out = bind[r].out
              /\ bind'[r].preview = bind[r].preview /\ bind'[r].admitted = bind[r].admitted
          <6>1. CASE UNCHANGED bind
            BY <6>1
          <6>2. CASE ~UNCHANGED bind
            <7>1. PICK d : bind' = [bind EXCEPT ![s].source = d] \/ bind' = [bind EXCEPT ![s].admitted = d]
              BY <3>1, <6>2 DEF BindSource, BeginSuitability, ApplySuitability, AdmitSource,
                  DeskReads, RecordReview, Concern, AdmitRun
            <7> QED
              BY <3>1, <4>2, <6>2, <7>1 DEF TalkingTypeOK, Bindings, BindSource, BeginSuitability,
                  ApplySuitability, AdmitSource, DeskReads, RecordReview, Concern, AdmitRun
          <6> QED
            BY <6>1, <6>2
        <5> QED
          BY <3>3, <5>1, KeepsTies
      <4> QED
        BY <4>1, <4>2
    <3> QED
      BY <2>1, <3>2, <3>4, <3>5
  <2> QED
    BY <2>2, <2>3
<1>2. ASSUME NEW j \in Jobs, Claim(j) \/ LoseLease(j)
      PROVE  TalkingTypeOK' /\ JobCounts' /\ ReadsVideo' /\ \A r \in Scenes : Ties(r)'
  <2>1. QuietJobs /\ JobCounts' /\ work' \subseteq Handlers
    BY <1>2, ClaimQuiet
  <2>2. /\ UNCHANGED <<run, bind, around, receipts, assets, series, previews, reviews,
                       concerns, calls, desk>>
        /\ \A w \in work' : w \in work \/ w.at = "begun"
        /\ faults' = faults \/ Fault
    BY <1>2 DEF Claim, LoseLease
  <2>3. ReadsVideo'
    BY <2>2 DEF ReadsVideo
  <2>4. TalkingTypeOK'
    BY <2>1, <2>2, FaultTypes DEF TalkingTypeOK, QuietJobs
  <2> QED
    BY <2>1, <2>2, <2>3, <2>4, WorkerTies
<1>3. ASSUME NEW w \in work, Handle(w)
      PROVE  TalkingTypeOK' /\ JobCounts' /\ ReadsVideo' /\ \A r \in Scenes : Ties(r)'
  <2>1. TalkingTypeOK' /\ QuietJobs /\ JobCounts' /\ ReadsVideo'
    BY <1>3, HandleTypes
  <2>2. UNCHANGED <<bind, run, series>>
    BY <1>3 DEF Handle, Reports, GenCalls, GenFails, GenStores, QaReads, QaWrites, PreviewReads,
                PreviewWrites
  <2> QED
    BY <2>1, <2>2, WorkerTies
<1>4. ASSUME Resume \/ Cancel \/ Around \/ DeskWrites \/ ClaimRender
      PROVE  TalkingTypeOK' /\ JobCounts' /\ ReadsVideo' /\ \A r \in Scenes : Ties(r)'
  <2>1. UNCHANGED work
    BY <1>4 DEF Resume, Cancel, Around, DeskWrites, ClaimRender
  <2>2. ReadsVideo'
    BY <2>1 DEF ReadsVideo
  <2> QED
    BY <1>4, <2>2, RunTypes
<1> QED
  BY <1>1, <1>2, <1>3, <1>4 DEF TalkingNext

-----------------------------------------------------------------------------
(* Videos, previews and reviews                                            *)

\* How a video's row changes: stored anew, checked while nobody has decided,
\* or decided on at the desk.
VideoStep(s, c) ==
    \/ assets'[s][c] = assets[s][c] /\ (desk # NoDesk /\ desk'# NoDesk => desk' = desk)
    \/ /\ \E w \in work : w.at = "called" /\ w.job[1] = s
       /\ assets'[s][c].qa = "pending" /\ assets'[s][c].by = 0 /\ assets'[s][c].human = "none"
       /\ desk' = desk
    \/ /\ assets[s][c].human = "none" /\ assets'[s][c].human = "none"
       /\ assets'[s][c].by = assets'[s][c].job /\ desk' = desk
    \/ desk # NoDesk /\ desk' = NoDesk /\ assets'[s][c] = desk.copy /\ desk.scene = s /\ desk.of = c

\* Only three steps change a video's row.
LEMMA VideoSteps ==
  ASSUME TalkingTypeOK, ReadsVideo, TalkingNext, NEW s \in Scenes, NEW c \in Contents
  PROVE  VideoStep(s, c)
<1>1. CASE DeskWrites
  <2>1. desk.scene \in Scenes /\ desk.of \in Contents /\ desk.copy \in Videos
    BY <1>1 DEF DeskWrites, TalkingTypeOK, Desk
  <2>2. /\ assets' = [assets EXCEPT ![desk.scene][desk.of] = desk.copy]
        /\ desk # NoDesk /\ desk' = NoDesk
    BY <1>1 DEF DeskWrites
  <2>3. CASE desk.scene = s /\ desk.of = c
    <3>1. assets'[s][c] = desk.copy
      BY <2>1, <2>2, <2>3 DEF TalkingTypeOK
    <3> QED
      BY <2>2, <2>3, <3>1 DEF VideoStep
  <2>4. CASE ~(desk.scene = s /\ desk.of = c)
    <3>1. assets'[s][c] = assets[s][c]
      BY <2>1, <2>2, <2>4 DEF TalkingTypeOK
    <3> QED
      BY <2>2, <3>1 DEF VideoStep
  <2> QED
    BY <2>3, <2>4
<1>2. ASSUME NEW w \in work, w.job[2] = "gen", GenStores(w) PROVE VideoStep(s, c)
  <2>0. w.job[1] \in Scenes /\ w.at = "called" /\ desk' = desk
    BY <1>2, JobNames DEF GenStores, TalkingTypeOK, Handlers
  <2>1. PICK d \in Contents :
            assets' = [assets EXCEPT ![w.job[1]][d] = Fresh(w.job[3], w.attempt)]
    BY <1>2 DEF GenStores
  <2>2. CASE w.job[1] = s /\ d = c
    <3>1. assets'[s][c] = Fresh(w.job[3], w.attempt)
      BY <2>0, <2>1, <2>2 DEF TalkingTypeOK
    <3> QED
      BY <2>0, <2>2, <3>1 DEF VideoStep, Fresh
  <2>3. CASE ~(w.job[1] = s /\ d = c)
    <3>1. assets'[s][c] = assets[s][c]
      BY <2>0, <2>1, <2>3 DEF TalkingTypeOK
    <3> QED
      BY <2>0, <3>1 DEF VideoStep
  <2> QED
    BY <2>2, <2>3
<1>3. ASSUME NEW w \in work, w.job[2] = "qa", QaWrites(w) PROVE VideoStep(s, c)
  <2>0. w.job[1] \in Scenes /\ w.out \in Contents /\ desk' = desk
    BY <1>3, JobNames DEF QaWrites, ReadsVideo, TalkingTypeOK, Handlers
  <2>1. CASE UNCHANGED assets
    BY <2>0, <2>1 DEF VideoStep
  <2>2. CASE ~UNCHANGED assets
    <3>1. PICK q \in {"verified", "failed"} :
             /\ assets' = [assets EXCEPT ![w.job[1]][w.out] =
                              [Fresh(w.job[3], w.seen) EXCEPT !.qa = q, !.by = w.job[3]]]
             /\ assets[w.job[1]][w.out] = Fresh(w.job[3], w.seen)
      BY <1>3, <2>2 DEF QaWrites, Unchanged
    <3>2. CASE w.job[1] = s /\ w.out = c
      <4>1. assets'[s][c] = [Fresh(w.job[3], w.seen) EXCEPT !.qa = q, !.by = w.job[3]]
        BY <2>0, <3>1, <3>2 DEF TalkingTypeOK
      <4>2. /\ assets'[s][c].human = "none" /\ assets'[s][c].by = w.job[3]
            /\ assets'[s][c].job = w.job[3] /\ assets[s][c].human = "none"
        <5>1. /\ [Fresh(w.job[3], w.seen) EXCEPT !.qa = q, !.by = w.job[3]].human = "none"
              /\ [Fresh(w.job[3], w.seen) EXCEPT !.qa = q, !.by = w.job[3]].by = w.job[3]
              /\ [Fresh(w.job[3], w.seen) EXCEPT !.qa = q, !.by = w.job[3]].job = w.job[3]
              /\ Fresh(w.job[3], w.seen).human = "none"
          BY DEF Fresh
        <5>2. assets[s][c] = Fresh(w.job[3], w.seen)
          BY <3>1, <3>2
        <5> QED
          BY <4>1, <5>1, <5>2
      <4> QED
        BY <2>0, <4>2 DEF VideoStep
    <3>3. CASE ~(w.job[1] = s /\ w.out = c)
      <4>1. assets'[s][c] = assets[s][c]
        BY <2>0, <3>1, <3>3 DEF TalkingTypeOK
      <4> QED
        BY <2>0, <4>1 DEF VideoStep
    <3> QED
      BY <3>2, <3>3
  <2> QED
    BY <2>1, <2>2
<1>4. CASE UNCHANGED assets /\ (desk # NoDesk => desk' = desk)
  BY <1>4 DEF VideoStep
<1>5. ASSUME NEW r \in Scenes, Requests(r)
      PROVE  UNCHANGED assets /\ (desk # NoDesk => desk' = desk)
  BY <1>5 DEF Requests, BindSource, BeginSuitability, ApplySuitability, AdmitSource,
              DispatchTalking, AdvanceQa, PreparePreview, DeskReads, RecordReview, Concern,
              AdmitRun, Repair
<1>6. ASSUME NEW w \in work, Handle(w), ~(w.job[2] = "gen" /\ GenStores(w)),
             ~(w.job[2] = "qa" /\ QaWrites(w))
      PROVE  UNCHANGED <<assets, desk>>
  BY <1>6 DEF Handle, Reports, GenCalls, GenFails, QaReads, PreviewReads, PreviewWrites
<1>7. ASSUME NEW j \in Jobs, Claim(j) \/ LoseLease(j) PROVE UNCHANGED <<assets, desk>>
  BY <1>7 DEF Claim, LoseLease
<1>8. ASSUME Resume \/ Cancel \/ Around \/ ClaimRender PROVE UNCHANGED <<assets, desk>>
  BY <1>8 DEF Resume, Cancel, Around, ClaimRender
<1> QED
  BY <1>1, <1>2, <1>3, <1>4, <1>5, <1>6, <1>7, <1>8 DEF TalkingNext

\* A decision under way is on a video as the desk read it, undecided.
LEMMA DeskSteps ==
  ASSUME TalkingTypeOK, TalkingTypeOK', ReadsVideo, ByJob, DeskFresh, TalkingNext
  PROVE  ByJob' /\ DeskFresh'
<1>1. ASSUME NEW s \in Scenes, NEW c \in Contents
      PROVE  assets'[s][c].by # 0 => assets'[s][c].by = assets'[s][c].job
  <2>1. VideoStep(s, c)
    BY VideoSteps
  <2> QED
    BY <2>1 DEF VideoStep, ByJob, DeskFresh
<1>2. DeskFresh'
  <2> SUFFICES ASSUME desk' # NoDesk
               PROVE  /\ assets'[desk'.scene][desk'.of].human = "none"
                      /\ desk'.copy.by # 0 => desk'.copy.by = desk'.copy.job
    BY DEF DeskFresh, NoDesk
  <2>1. CASE desk' = desk
    <3>1. desk.scene \in Scenes /\ desk.of \in Contents
      BY <2>1 DEF TalkingTypeOK, Desk
    <3>2. VideoStep(desk.scene, desk.of)
      BY <3>1, VideoSteps
    <3> QED
      BY <2>1, <3>2 DEF VideoStep, DeskFresh
  <2>2. CASE desk' # desk
    <3>1. PICK s \in Scenes : DeskReads(s)
      <4>1. ASSUME NEW r \in Scenes, Requests(r), ~DeskReads(r) PROVE desk' = desk
        BY <4>1 DEF Requests, BindSource, BeginSuitability, ApplySuitability, AdmitSource,
              DispatchTalking, AdvanceQa, PreparePreview, RecordReview, Concern, AdmitRun, Repair
      <4>2. ASSUME NEW w \in work, Handle(w) PROVE desk' = desk
        BY <4>2 DEF Handle, Reports, GenCalls, GenFails, GenStores, QaReads, QaWrites,
                    PreviewReads, PreviewWrites
      <4>3. ASSUME NEW j \in Jobs, Claim(j) \/ LoseLease(j) PROVE desk' = desk
        BY <4>3 DEF Claim, LoseLease
      <4>4. ASSUME Resume \/ Cancel \/ Around \/ ClaimRender \/ DeskWrites
            PROVE desk' = desk \/ desk' = NoDesk
        BY <4>4 DEF Resume, Cancel, Around, ClaimRender, DeskWrites
      <4> QED
        BY <2>2, <4>1, <4>2, <4>3, <4>4 DEF TalkingNext
    <3>2. PICK c \in Contents, d \in {"approved", "rejected"} :
             /\ assets[s][c].human = "none"
             /\ desk' = [scene |-> s, of |-> c, copy |-> [assets[s][c] EXCEPT !.human = d]]
             /\ assets' = assets
      BY <3>1 DEF DeskReads
    <3>3. assets[s][c] \in Videos
      BY DEF TalkingTypeOK
    <3>4. /\ [assets[s][c] EXCEPT !.human = d].by = assets[s][c].by
          /\ [assets[s][c] EXCEPT !.human = d].job = assets[s][c].job
      BY <3>3 DEF Videos
    <3> QED
      BY <3>2, <3>4 DEF ByJob
  <2> QED
    BY <2>1, <2>2
<1> QED
  BY <1>1, <1>2 DEF ByJob

\* Previews are stored once, and reviews are written once.
ReviewStep(s, g) ==
    \/ reviews'[s][g] = reviews[s][g]
    \/ /\ reviews[s][g].verdict = "none" /\ reviews'[s][g].verdict # "none"
       /\ reviews'[s][g].of \in Contents /\ previews[s][reviews'[s][g].of] = g
PreviewStep(s, c) == previews'[s][c] = previews[s][c] \/ previews[s][c] = 0

\* A person reviews the bytes the collection's own preview job stored.
LEMMA ReviewSteps ==
  ASSUME TalkingTypeOK, TalkingNext, NEW s \in Scenes, NEW g \in Gens
  PROVE  ReviewStep(s, g)
<1>1. ASSUME NEW r \in Scenes, RecordReview(r) PROVE ReviewStep(s, g)
  <2>1. /\ bind[r].preview \in Gens /\ bind[r].out \in Contents
        /\ previews[r][bind[r].out] = bind[r].preview
    BY <1>1, BindTypes, EvidenceSays DEF RecordReview, Candidate, Current, Previewed
  <2>2. PICK v \in Verdicts :
            reviews' = [reviews EXCEPT ![r][bind[r].preview] = [verdict |-> v, of |-> bind[r].out]]
    BY <1>1 DEF RecordReview
  <2>3. reviews[r][bind[r].preview].verdict = "none" /\ v # "none"
    BY <1>1 DEF RecordReview, Verdicts
  <2>4. CASE r = s /\ bind[r].preview = g
    <3>1. reviews'[s][g] = [verdict |-> v, of |-> bind[r].out]
      BY <2>1, <2>2, <2>4 DEF TalkingTypeOK
    <3> QED
      BY <2>1, <2>3, <2>4, <3>1 DEF ReviewStep
  <2>5. CASE ~(r = s /\ bind[r].preview = g)
    <3>1. reviews'[s][g] = reviews[s][g]
      BY <2>1, <2>2, <2>5 DEF TalkingTypeOK
    <3> QED
      BY <3>1 DEF ReviewStep
  <2> QED
    BY <2>4, <2>5
<1>2. ASSUME NEW r \in Scenes, Requests(r), ~RecordReview(r) PROVE UNCHANGED reviews
  BY <1>2 DEF Requests, BindSource, BeginSuitability, ApplySuitability, AdmitSource,
              DispatchTalking, AdvanceQa, PreparePreview, DeskReads, Concern, AdmitRun, Repair
<1>3. ASSUME NEW w \in work, Handle(w) PROVE UNCHANGED reviews
  BY <1>3 DEF Handle, Reports, GenCalls, GenFails, GenStores, QaReads, QaWrites, PreviewReads,
              PreviewWrites
<1>4. ASSUME NEW j \in Jobs, Claim(j) \/ LoseLease(j) PROVE UNCHANGED reviews
  BY <1>4 DEF Claim, LoseLease
<1>5. ASSUME Resume \/ Cancel \/ Around \/ ClaimRender \/ DeskWrites PROVE UNCHANGED reviews
  BY <1>5 DEF Resume, Cancel, Around, ClaimRender, DeskWrites
<1> QED
  BY <1>1, <1>2, <1>3, <1>4, <1>5 DEF TalkingNext, ReviewStep

\* Known preview bytes are never another job's.
LEMMA PreviewSteps ==
  ASSUME TalkingTypeOK, ReadsVideo, TalkingNext, NEW s \in Scenes, NEW c \in Contents
  PROVE  PreviewStep(s, c)
<1>1. ASSUME NEW w \in work, PreviewWrites(w) PROVE PreviewStep(s, c)
  <2>0. w.job[1] \in Scenes /\ w.out \in Contents
    BY <1>1, JobNames DEF PreviewWrites, ReadsVideo, TalkingTypeOK, Handlers
  <2>1. \/ previews' = previews
        \/ /\ previews' = [previews EXCEPT ![w.job[1]][w.out] = w.job[3]]
           /\ previews[w.job[1]][w.out] = 0
    BY <1>1 DEF PreviewWrites, NewBytes
  <2>2. CASE w.job[1] = s /\ w.out = c
    BY <2>1, <2>2 DEF PreviewStep
  <2>3. CASE ~(w.job[1] = s /\ w.out = c)
    <3>1. previews'[s][c] = previews[s][c]
      BY <2>0, <2>1, <2>3 DEF TalkingTypeOK
    <3> QED
      BY <3>1 DEF PreviewStep
  <2> QED
    BY <2>2, <2>3
<1>2. ASSUME NEW r \in Scenes, Requests(r) PROVE UNCHANGED previews
  BY <1>2 DEF Requests, BindSource, BeginSuitability, ApplySuitability, AdmitSource,
              DispatchTalking, AdvanceQa, PreparePreview, DeskReads, RecordReview, Concern,
              AdmitRun, Repair
<1>3. ASSUME NEW w \in work, Handle(w), ~PreviewWrites(w) PROVE UNCHANGED previews
  BY <1>3 DEF Handle, Reports, GenCalls, GenFails, GenStores, QaReads, QaWrites, PreviewReads
<1>4. ASSUME NEW j \in Jobs, Claim(j) \/ LoseLease(j) PROVE UNCHANGED previews
  BY <1>4 DEF Claim, LoseLease
<1>5. ASSUME Resume \/ Cancel \/ Around \/ ClaimRender \/ DeskWrites PROVE UNCHANGED previews
  BY <1>5 DEF Resume, Cancel, Around, ClaimRender, DeskWrites
<1> QED
  BY <1>1, <1>2, <1>3, <1>4, <1>5 DEF TalkingNext, PreviewStep

\* How a scene comes to be admitted, and what it then keeps.
BindStep(s) ==
    \/ bind'[s].admitted = bind[s].admitted /\ bind'[s].out = bind[s].out
    \/ bind'[s].admitted = 0
    \/ /\ bind'[s].admitted \in Gens /\ bind'[s].out \in Contents
       /\ reviews'[s][bind'[s].admitted] = [verdict |-> "approved", of |-> bind'[s].out]
       /\ previews'[s][bind'[s].out] = bind'[s].admitted

\* Whatever changes a scene's video finds it not admitted.
LEMMA BindSteps ==
  ASSUME TalkingTypeOK, JobCounts, \A r \in Scenes : Ties(r), TalkingNext, NEW s \in Scenes
  PROVE  BindStep(s)
<1>1. ASSUME NEW r \in Scenes, Requests(r) PROVE BindStep(s)
  <2>1. CASE BindSource(r) \/ BeginSuitability(r) \/ ApplySuitability(r)
    <3>1. PICK d : bind' = [bind EXCEPT ![r].source = d]
      BY <2>1 DEF BindSource, BeginSuitability, ApplySuitability
    <3> QED
      BY <3>1 DEF BindStep, TalkingTypeOK, Bindings
  <2>2. CASE UNCHANGED bind
    BY <2>2 DEF BindStep
  <2>3. CASE DispatchTalking(r)
    <3>1. bind' = [bind EXCEPT ![r].gen = 1]
      BY <2>3 DEF DispatchTalking
    <3> QED
      BY <3>1 DEF BindStep, TalkingTypeOK, Bindings
  <2>4. CASE AdvanceQa(r)
    <3>1. PICK c, g : bind' = [bind EXCEPT ![r].out = c, ![r].qa = g]
      BY <2>4 DEF AdvanceQa
    <3>2. bind[r].admitted = 0
      BY <2>4, AdvanceTies
    <3>3. bind' = [bind EXCEPT ![r] = [bind[r] EXCEPT !.out = c, !.qa = g]]
      BY <3>1 DEF TalkingTypeOK
    <3>4. [bind[r] EXCEPT !.out = c, !.qa = g].admitted = 0
      BY <3>2 DEF TalkingTypeOK, Bindings
    <3> QED
      BY <3>3, <3>4 DEF BindStep, TalkingTypeOK
  <2>5. CASE PreparePreview(r)
    <3>1. PICK g : bind' = [bind EXCEPT ![r].preview = g]
      BY <2>5 DEF PreparePreview
    <3> QED
      BY <3>1 DEF BindStep, TalkingTypeOK, Bindings
  <2>6. CASE Repair(r)
    <3>1. bind'[r].admitted = 0 /\ \A q \in Scenes : q # r => bind'[q] = bind[q]
      BY <2>6, RepairTies
    <3> QED
      BY <3>1 DEF BindStep
  <2>7. CASE AdmitRun(r)
    <3>1. /\ bind[r].preview \in Gens /\ bind[r].out \in Contents
          /\ previews[r][bind[r].out] = bind[r].preview
          /\ reviews[r][bind[r].preview] = [verdict |-> "approved", of |-> bind[r].out]
      BY <2>7, BindTypes, EvidenceSays DEF AdmitRun, Candidate, Current, Previewed, ReviewStands
    <3>2. UNCHANGED <<reviews, previews>> /\ bind' = [bind EXCEPT ![r].admitted = bind[r].preview]
      BY <2>7 DEF AdmitRun
    <3>3. CASE r = s
      <4>1. bind'[s].admitted = bind[s].preview /\ bind'[s].out = bind[s].out
        BY <3>2, <3>3 DEF TalkingTypeOK, Bindings
      <4> QED
        BY <3>1, <3>2, <3>3, <4>1 DEF BindStep
    <3>4. CASE r # s
      BY <3>2, <3>4 DEF BindStep, TalkingTypeOK
    <3> QED
      BY <3>3, <3>4
  <2> QED
    BY <1>1, <2>1, <2>2, <2>3, <2>4, <2>5, <2>6, <2>7
    DEF Requests, AdmitSource, DeskReads, RecordReview, Concern
<1>2. ASSUME NEW w \in work, Handle(w) PROVE UNCHANGED bind
  BY <1>2 DEF Handle, Reports, GenCalls, GenFails, GenStores, QaReads, QaWrites, PreviewReads,
              PreviewWrites
<1>3. ASSUME NEW j \in Jobs, Claim(j) \/ LoseLease(j) PROVE UNCHANGED bind
  BY <1>3 DEF Claim, LoseLease
<1>4. ASSUME Resume \/ Cancel \/ Around \/ ClaimRender \/ DeskWrites PROVE UNCHANGED bind
  BY <1>4 DEF Resume, Cancel, Around, ClaimRender, DeskWrites
<1> QED
  BY <1>1, <1>2, <1>3, <1>4 DEF TalkingNext, BindStep

\* Reviews stay of what was previewed, and admissions of what was reviewed.
LEMMA AdmissionSteps ==
  ASSUME TalkingTypeOK, TalkingTypeOK', JobCounts, ReadsVideo, \A r \in Scenes : Ties(r),
         ReviewedPreviewed, AdmittedAsReviewed, TalkingNext
  PROVE  ReviewedPreviewed' /\ AdmittedAsReviewed'
<1>e. Gens = {1, 2} /\ 0 \notin Gens /\ NoContent \notin Contents
  BY Bounds
<1>1. ASSUME NEW s \in Scenes, NEW g \in Gens
      PROVE  /\ reviews'[s][g].verdict = "none" => reviews'[s][g].of = NoContent
             /\ reviews'[s][g].of # NoContent => previews'[s][reviews'[s][g].of] = g
  <2>1. ReviewStep(s, g)
    BY ReviewSteps
  <2>2. reviews'[s][g].of \in Contents \cup {NoContent}
    BY DEF TalkingTypeOK, Reviews
  <2>3. \A c \in Contents : PreviewStep(s, c)
    BY PreviewSteps
  <2>4. reviews'[s][g].of # NoContent => previews[s][reviews'[s][g].of] = g
    BY <2>1 DEF ReviewStep, ReviewedPreviewed
  <2>5. g # 0
    BY <1>e
  <2> QED
    BY <2>1, <2>2, <2>3, <2>4, <2>5 DEF ReviewStep, PreviewStep, ReviewedPreviewed
<1>2. ASSUME NEW s \in Scenes, bind'[s].admitted # 0
      PROVE  /\ reviews'[s][bind'[s].admitted] = [verdict |-> "approved", of |-> bind'[s].out]
             /\ previews'[s][bind'[s].out] = bind'[s].admitted
             /\ run'.policy = 2 => \A g \in Gens : reviews'[s][g].of = bind'[s].out => g = bind'[s].admitted
  <2>1. BindStep(s)
    BY BindSteps
  <2>2. /\ bind'[s].admitted \in Gens /\ bind'[s].out \in Contents
        /\ reviews'[s][bind'[s].admitted] = [verdict |-> "approved", of |-> bind'[s].out]
        /\ previews'[s][bind'[s].out] = bind'[s].admitted
    <3>1. CASE bind'[s].admitted = bind[s].admitted /\ bind'[s].out = bind[s].out
      <4>1. PICK a : a = bind[s].admitted
        OBVIOUS
      <4>2. a \in Gens
        BY <1>2, <3>1, <4>1 DEF TalkingTypeOK, Bindings
      <4>3. /\ reviews[s][a] = [verdict |-> "approved", of |-> bind[s].out]
            /\ previews[s][bind[s].out] = a
        BY <1>2, <3>1, <4>1 DEF AdmittedAsReviewed
      <4>4. bind[s].out \in Contents
        <5>1. a = bind[s].preview
          BY <1>2, <3>1, <4>1 DEF Ties, Bound
        <5>2. bind[s].qa # 0
          BY <1>2, <3>1, <4>1, <5>1 DEF Ties, Bound, Is
        <5> QED
          BY <5>2, BindTypes DEF Ties, Bound
      <4>5. ReviewStep(s, a) /\ PreviewStep(s, bind[s].out)
        BY <4>2, <4>4, ReviewSteps, PreviewSteps
      <4>6. reviews'[s][a] = reviews[s][a]
        BY <4>3, <4>5 DEF ReviewStep
      <4>7. previews'[s][bind[s].out] = previews[s][bind[s].out]
        BY <1>e, <4>2, <4>3, <4>5 DEF PreviewStep
      <4> QED
        BY <3>1, <4>1, <4>2, <4>3, <4>4, <4>6, <4>7
    <3>2. CASE ~(bind'[s].admitted = bind[s].admitted /\ bind'[s].out = bind[s].out)
      BY <1>2, <2>1, <3>2 DEF BindStep
    <3> QED
      BY <3>1, <3>2
  <2>3. ASSUME NEW g \in Gens, reviews'[s][g].of = bind'[s].out PROVE g = bind'[s].admitted
    BY <1>e, <1>1, <2>2, <2>3
  <2> QED
    BY <2>2, <2>3
<1> QED
  BY <1>1, <1>2 DEF ReviewedPreviewed, AdmittedAsReviewed

\* A repair is the only step that adds a second generation.
LEMMA RepairSteps ==
  ASSUME TalkingTypeOK, JobCounts, \A r \in Scenes : Ties(r), RepairsBounded, TalkingNext
  PROVE  RepairsBounded'
<1> DEFINE Second == {s \in Scenes : bind[s].gen = 2}
<1>0. IsFiniteSet(Scenes) /\ IsFiniteSet(Second) /\ Cardinality(Second) \in Nat /\ run.earlier \in Nat
      /\ Allowance \in Nat
  <2>1. IsFiniteSet(Scenes)
    BY TalkingAssumption
  <2>2. IsFiniteSet(Second)
    BY <2>1, FS_Subset
  <2>3. run.earlier \in Nat /\ Allowance \in Nat
    BY Bounds DEF TalkingTypeOK
  <2> QED
    BY <2>1, <2>2, <2>3, FS_CardinalityType
<1>1. run'.earlier = run.earlier
  <2>1. ASSUME NEW s \in Scenes, Requests(s) PROVE UNCHANGED run
    BY <2>1 DEF Requests, BindSource, BeginSuitability, ApplySuitability, AdmitSource,
                DispatchTalking, AdvanceQa, PreparePreview, DeskReads, RecordReview, Concern,
                AdmitRun, Repair
  <2>2. ASSUME NEW w \in work, Handle(w) PROVE UNCHANGED run
    BY <2>2 DEF Handle, Reports, GenCalls, GenFails, GenStores, QaReads, QaWrites, PreviewReads,
                PreviewWrites
  <2>3. ASSUME NEW j \in Jobs, Claim(j) \/ LoseLease(j) PROVE UNCHANGED run
    BY <2>3 DEF Claim, LoseLease
  <2>4. ASSUME Resume \/ Cancel \/ Around \/ ClaimRender \/ DeskWrites
        PROVE run'.earlier = run.earlier
    BY <2>4 DEF Resume, Cancel, Around, ClaimRender, DeskWrites, TalkingTypeOK
  <2> QED
    BY <2>1, <2>2, <2>3, <2>4 DEF TalkingNext
<1>2. CASE \E s \in Scenes : Repair(s)
  <2>1. PICK s \in Scenes : Repair(s)
    BY <1>2
  <2>2. bind'[s].gen = 2 /\ \A r \in Scenes : r # s => bind'[r] = bind[r]
    BY <2>1, RepairTies
  <2>3. bind[s].gen = 1 /\ Repairs < Allowance
    BY <2>1 DEF Repair
  <2>4. Second' = Second \cup {s} /\ s \notin Second
    BY <2>2, <2>3
  <2>5. Cardinality(Second') = Cardinality(Second) + 1
    BY <1>0, <2>4, FS_AddElement
  <2>6. Repairs' <= Allowance
    BY <1>0, <1>1, <2>3, <2>5 DEF Repairs
  <2>7. UNCHANGED calls
    BY <2>1 DEF Repair
  <2> QED
    BY <2>6, <2>7 DEF RepairsBounded
<1>3. CASE ~\E s \in Scenes : Repair(s)
  <2>1. \A s \in Scenes : bind'[s].gen = 2 <=> bind[s].gen = 2
    <3>1. ASSUME NEW r \in Scenes, Requests(r), NEW s \in Scenes
          PROVE  bind'[s].gen = 2 <=> bind[s].gen = 2
      <4>1. CASE UNCHANGED bind
        BY <4>1
      <4>2. CASE DispatchTalking(r)
        BY <4>2 DEF DispatchTalking, TalkingTypeOK, Bindings
      <4>3. CASE AdvanceQa(r)
        <5>1. PICK c, g : bind' = [bind EXCEPT ![r].out = c, ![r].qa = g]
          BY <4>3 DEF AdvanceQa
        <5> QED
          BY <5>1 DEF TalkingTypeOK, Bindings
      <4>4. CASE PreparePreview(r)
        BY <4>4 DEF PreparePreview, TalkingTypeOK, Bindings
      <4>5. CASE AdmitRun(r)
        BY <4>5 DEF AdmitRun, TalkingTypeOK, Bindings
      <4>6. CASE BindSource(r) \/ BeginSuitability(r) \/ ApplySuitability(r)
        <5>1. PICK d : bind' = [bind EXCEPT ![r].source = d]
          BY <4>6 DEF BindSource, BeginSuitability, ApplySuitability
        <5> QED
          BY <5>1 DEF TalkingTypeOK, Bindings
      <4> QED
        BY <1>3, <3>1, <4>1, <4>2, <4>3, <4>4, <4>5, <4>6
        DEF Requests, AdmitSource, DeskReads, RecordReview, Concern
    <3>2. ASSUME NEW w \in work, Handle(w) PROVE UNCHANGED bind
      BY <3>2 DEF Handle, Reports, GenCalls, GenFails, GenStores, QaReads, QaWrites, PreviewReads,
                  PreviewWrites
    <3>3. ASSUME NEW j \in Jobs, Claim(j) \/ LoseLease(j) PROVE UNCHANGED bind
      BY <3>3 DEF Claim, LoseLease
    <3>4. ASSUME Resume \/ Cancel \/ Around \/ ClaimRender \/ DeskWrites PROVE UNCHANGED bind
      BY <3>4 DEF Resume, Cancel, Around, ClaimRender, DeskWrites
    <3> QED
      BY <3>1, <3>2, <3>3, <3>4 DEF TalkingNext
  <2>2. Second' = Second
    BY <2>1
  <2>3. Repairs' = Repairs
    BY <1>1, <2>2 DEF Repairs
  <2>4. ASSUME NEW s \in Scenes PROVE calls'[s][2] <= 1
    <3>0. calls[s][2] <= 1 /\ 2 \in Gens
      BY Bounds DEF RepairsBounded
    <3>1. ASSUME NEW w \in work, GenCalls(w) PROVE calls'[s][2] <= 1
      <4>1. w.job[1] \in Scenes /\ w.job[3] \in Gens
        BY <3>1, JobNames DEF TalkingTypeOK, Handlers
      <4>2. /\ calls' = [calls EXCEPT ![w.job[1]][w.job[3]] = @ + 1]
            /\ w.job[3] = 2 => calls[w.job[1]][2] = 0
        BY <3>1 DEF GenCalls, CallAllowed
      <4> QED
        BY <3>0, <4>1, <4>2 DEF TalkingTypeOK
    <3>2. ASSUME NEW r \in Scenes, Requests(r) PROVE UNCHANGED calls
      BY <3>2 DEF Requests, BindSource, BeginSuitability, ApplySuitability, AdmitSource,
                  DispatchTalking, AdvanceQa, PreparePreview, DeskReads, RecordReview, Concern,
                  AdmitRun, Repair
    <3>3. ASSUME NEW w \in work, Handle(w), ~GenCalls(w) PROVE UNCHANGED calls
      BY <3>3 DEF Handle, Reports, GenFails, GenStores, QaReads, QaWrites, PreviewReads,
                  PreviewWrites
    <3>4. ASSUME NEW j \in Jobs, Claim(j) \/ LoseLease(j) PROVE UNCHANGED calls
      BY <3>4 DEF Claim, LoseLease
    <3>5. ASSUME Resume \/ Cancel \/ Around \/ ClaimRender \/ DeskWrites PROVE UNCHANGED calls
      BY <3>5 DEF Resume, Cancel, Around, ClaimRender, DeskWrites
    <3> QED
      BY <3>0, <3>1, <3>2, <3>3, <3>4, <3>5 DEF TalkingNext
  <2> QED
    BY <2>3, <2>4 DEF RepairsBounded
<1> QED
  BY <1>2, <1>3

-----------------------------------------------------------------------------
(* Theorems                                                                *)

\* The lane starts with nothing bound, stored, reviewed or at work.
LEMMA InitHolds == TalkingInit => TalkingInv
<1> SUFFICES ASSUME TalkingInit PROVE TalkingInv
  OBVIOUS
<1>0. /\ Gens = {1, 2} /\ MaxAttempts \in Nat \ {0} /\ MaxFaults \in Nat /\ Allowance \in Nat
      /\ Allowance \in 0..2
  BY Bounds
<1>1. TalkingTypeOK
  <2>1. run \in [stage : {"awaiting_talking", "render", "cancelled"}, policy : 1..2,
                earlier : 0..Allowance, render : {"none", "pending", "claimed", "cancelled"}]
    BY DEF TalkingInit
  <2>2. bind \in [Scenes -> Bindings]
    BY DEF TalkingInit, Bindings
  <2>3. jobs \in [Jobs -> [status : Statuses, attempt : 0..MaxAttempts]]
    BY <1>0 DEF TalkingInit, Statuses
  <2>4. assets \in [Scenes -> [Contents -> Videos]]
    <3>1. Fresh(0, 0) \in Videos
      BY <1>0 DEF Fresh, Videos
    <3> QED
      BY <3>1 DEF TalkingInit
  <2>5. reviews \in [Scenes -> [Gens -> Reviews]]
    BY DEF TalkingInit, Reviews
  <2>6. /\ around \in [draft : BOOLEAN, authority : BOOLEAN, budget : BOOLEAN]
        /\ receipts \in [Scenes -> {"none", "active", "revoked"}]
        /\ series \in [Scenes -> [Gens -> Contents \cup {NoContent}]]
        /\ previews \in [Scenes -> [Contents -> {0} \cup Gens]]
        /\ concerns \in [Scenes -> [Contents -> {"none", "open", "cleared"} \cup Against]]
        /\ calls \in [Scenes -> [Gens -> Nat]]
        /\ work \subseteq Handlers /\ desk \in Desk \cup {NoDesk} /\ faults \in 0..MaxFaults
    BY <1>0 DEF TalkingInit
  <2> QED
    BY <2>1, <2>2, <2>3, <2>4, <2>5, <2>6 DEF TalkingTypeOK
<1>2. JobCounts /\ ReadsVideo
  BY DEF TalkingInit, JobCounts, ReadsVideo
<1>3. ASSUME NEW s \in Scenes PROVE Ties(s)
  <2>1. \A g \in Gens : /\ jobs[<<s, "gen", g>>].status = "absent"
                        /\ jobs[<<s, "qa", g>>].status = "absent"
                        /\ jobs[<<s, "preview", g>>].status = "absent"
    BY JobNames DEF TalkingInit
  <2>2. bind[s] = [source |-> "none", gen |-> 0, out |-> NoContent, qa |-> 0, preview |-> 0,
                   admitted |-> 0]
    BY DEF TalkingInit
  <2> QED
    BY <2>1, <2>2 DEF Ties, Ordered, Bound, Settled
<1>4. ByJob
  BY DEF TalkingInit, ByJob, Fresh
<1>5. RepairsBounded
  <2>1. {s \in Scenes : bind[s].gen = 2} = {}
    BY DEF TalkingInit
  <2>2. run.earlier \in 0..Allowance
    BY DEF TalkingInit
  <2>3. Repairs = run.earlier + 0
    BY <2>1, FS_EmptySet DEF Repairs
  <2>4. \A s \in Scenes : calls[s][2] = 0
    BY <1>0 DEF TalkingInit
  <2> QED
    BY <1>0, <2>2, <2>3, <2>4 DEF RepairsBounded
<1>6. ReviewedPreviewed /\ AdmittedAsReviewed /\ DeskFresh
  BY DEF TalkingInit, ReviewedPreviewed, AdmittedAsReviewed, DeskFresh
<1> QED
  BY <1>1, <1>2, <1>3, <1>4, <1>5, <1>6 DEF TalkingInv

\* TalkingInv is inductive.
LEMMA StepHolds ==
  ASSUME TalkingInv, [TalkingNext]_vars
  PROVE  TalkingInv'
<1>1. CASE TalkingNext
  <2>1. TalkingTypeOK' /\ JobCounts' /\ ReadsVideo' /\ \A r \in Scenes : Ties(r)'
    BY <1>1, StepTies DEF TalkingInv
  <2>2. ByJob' /\ DeskFresh'
    BY <1>1, <2>1, DeskSteps DEF TalkingInv
  <2>3. ReviewedPreviewed' /\ AdmittedAsReviewed'
    BY <1>1, <2>1, AdmissionSteps DEF TalkingInv
  <2>4. RepairsBounded'
    BY <1>1, RepairSteps DEF TalkingInv
  <2> QED
    BY <2>1, <2>2, <2>3, <2>4 DEF TalkingInv
<1>2. CASE UNCHANGED vars
  <2>1. TalkingTypeOK'
    BY <1>2 DEF vars, TalkingInv, TalkingTypeOK
  <2>2. \A r \in Scenes : Ties(r)'
    BY <1>2, KeepsTies DEF vars, TalkingInv
  <2>3. JobCounts' /\ ReadsVideo' /\ ByJob' /\ DeskFresh'
    BY <1>2 DEF vars, TalkingInv, JobCounts, ReadsVideo, ByJob, DeskFresh
  <2>4. ReviewedPreviewed' /\ AdmittedAsReviewed'
    BY <1>2 DEF vars, TalkingInv, ReviewedPreviewed, AdmittedAsReviewed
  <2>5. RepairsBounded'
    BY <1>2 DEF vars, TalkingInv, RepairsBounded, Repairs
  <2> QED
    BY <2>1, <2>2, <2>3, <2>4, <2>5 DEF TalkingInv
<1> QED
  BY <1>1, <1>2

\* The invariant holds in every state of every behaviour.
LEMMA AlwaysInv == TalkingSpec => []TalkingInv
<1>1. TalkingInv /\ [TalkingNext]_vars => TalkingInv'
  BY StepHolds
<1> QED
  BY <1>1, InitHolds, PTL DEF TalkingSpec

\* The talking lane's rows keep their types.
THEOREM TalkingTypes == TalkingSpec => []TalkingTypeOK
<1>1. TalkingInv => TalkingTypeOK
  BY DEF TalkingInv
<1> QED
  BY <1>1, AlwaysInv, PTL

\* What a scene is bound to was made of one generation, for any number of
\* scenes, videos, retries and faults.
THEOREM OneGeneration == TalkingSpec => []BoundTogether
<1>1. TalkingInv => BoundTogether
  BY DEF TalkingInv, Ties, Bound, ByJob, BoundTogether
<1> QED
  BY <1>1, AlwaysInv, PTL

\* No worker is left a job of a cancelled run or of a replaced video.
THEOREM NothingLeft == TalkingSpec => []NothingLeftQueued
<1>1. TalkingInv => NothingLeftQueued
  <2> SUFFICES ASSUME TalkingInv, NEW j \in Jobs, run.stage = "cancelled" \/ j \notin AllLinked
               PROVE  jobs[j].status \notin {"pending", "running"}
    BY DEF NothingLeftQueued
  <2>1. PICK s \in Scenes, k \in {"gen", "qa", "preview"}, g \in Gens : j = <<s, k, g>>
    BY DEF Jobs
  <2>2. Ties(s) /\ TalkingTypeOK
    BY DEF TalkingInv
  <2> QED
    BY <2>1, <2>2, LinkedJobs DEF Ties, Settled
<1> QED
  BY <1>1, AlwaysInv, PTL

\* Repairs stay within the allowance, and each replacement calls the provider
\* once at most.
THEOREM RepairsWithinAllowance == TalkingSpec => []RepairsBounded
<1>1. TalkingInv => RepairsBounded
  BY DEF TalkingInv
<1> QED
  BY <1>1, AlwaysInv, PTL

\* A scene's binding, its jobs and the allowance stay together.
THEOREM ScenesStand == TalkingSpec => []SceneStands
<1> QED
  BY OneGeneration, NothingLeft, RepairsWithinAllowance, PTL DEF SceneStands

\* An admitted video is the one the approved review was of.
THEOREM AdmissionReviewed == TalkingSpec => []AdmittedAsReviewed
<1>1. TalkingInv => AdmittedAsReviewed
  BY DEF TalkingInv
<1> QED
  BY <1>1, AlwaysInv, PTL

\* A decision on a video stands until the same bytes are generated anew.
THEOREM JudgmentStands == TalkingSpec => JudgmentKept
<1> DEFINE Kept == \A s \in Scenes, c \in Contents :
          assets[s][c].human # "none" =>
              \/ assets'[s][c].human = assets[s][c].human
              \/ assets'[s][c].qa = "pending" /\ \E w \in work : w.at = "called" /\ w.job[1] = s
<1>1. TalkingInv /\ [TalkingNext]_vars => [Kept]_vars
  <2> SUFFICES ASSUME TalkingInv, TalkingNext, NEW s \in Scenes, NEW c \in Contents,
                      assets[s][c].human # "none"
               PROVE  \/ assets'[s][c].human = assets[s][c].human
                      \/ /\ assets'[s][c].qa = "pending"
                         /\ \E w \in work : w.at = "called" /\ w.job[1] = s
    OBVIOUS
  <2>1. VideoStep(s, c)
    BY VideoSteps DEF TalkingInv
  <2> QED
    BY <2>1 DEF VideoStep, TalkingInv, DeskFresh
<1> QED
  BY <1>1, AlwaysInv, PTL DEF TalkingSpec, JudgmentKept

\* The render is queued for videos whose review stands at that moment.
THEOREM RenderIsEarned == TalkingSpec => RenderEarned
<1> DEFINE Earned == run.stage # "render" /\ run'.stage = "render" =>
          /\ around.draft /\ around.authority
          /\ \A s \in Scenes :
                LET b == bind[s] IN
                /\ b.admitted # 0 /\ receipts[s] = "active"
                /\ reviews[s][b.admitted].verdict = "approved"
                /\ run.policy = 2 => concerns[s][b.out] \in {"none", "cleared"}
                /\ assets[s][b.out].qa = "verified" /\ assets[s][b.out].job = b.gen
<1>1. TalkingInv /\ [TalkingNext]_vars => [Earned]_vars
  <2> SUFFICES ASSUME TalkingInv, TalkingNext, run.stage # "render", run'.stage = "render"
               PROVE  Earned
    OBVIOUS
  <2>1. Resume
    <3>1. ASSUME NEW s \in Scenes, Requests(s) PROVE UNCHANGED run
      BY <3>1 DEF Requests, BindSource, BeginSuitability, ApplySuitability, AdmitSource,
                  DispatchTalking, AdvanceQa, PreparePreview, DeskReads, RecordReview, Concern,
                  AdmitRun, Repair
    <3>2. ASSUME NEW w \in work, Handle(w) PROVE UNCHANGED run
      BY <3>2 DEF Handle, Reports, GenCalls, GenFails, GenStores, QaReads, QaWrites, PreviewReads,
                  PreviewWrites
    <3>3. ASSUME NEW j \in Jobs, Claim(j) \/ LoseLease(j) PROVE UNCHANGED run
      BY <3>3 DEF Claim, LoseLease
    <3>4. ASSUME Cancel \/ Around \/ ClaimRender \/ DeskWrites PROVE run'.stage # "render"
      BY <3>4 DEF Cancel, Around, ClaimRender, DeskWrites, TalkingInv, TalkingTypeOK
    <3> QED
      BY <3>1, <3>2, <3>3, <3>4 DEF TalkingNext
  <2>2. ASSUME NEW s \in Scenes
        PROVE  /\ bind[s].admitted # 0 /\ receipts[s] = "active" /\ around.authority
               /\ reviews[s][bind[s].admitted].verdict = "approved"
               /\ run.policy = 2 => concerns[s][bind[s].out] \in {"none", "cleared"}
               /\ assets[s][bind[s].out].qa = "verified"
               /\ assets[s][bind[s].out].job = bind[s].gen
    <3>1. Eligible(s) /\ TalkingTypeOK /\ Ties(s)
      BY <2>1 DEF Resume, TalkingInv
    <3>2. /\ bind[s].out \in Contents /\ assets[s][bind[s].out].job = bind[s].gen
          /\ assets[s][bind[s].out].qa = "verified"
      BY <3>1, EvidenceSays DEF Eligible
    <3>3. bind[s].admitted # 0 /\ bind[s].admitted = bind[s].preview
      BY <3>1 DEF Eligible, Ties, Bound
    <3>4. receipts[s] = "active" /\ around.authority
      BY <3>1 DEF Eligible, Evidence, Consumable
    <3>5. reviews[s][bind[s].admitted].verdict = "approved"
      BY <3>1, <3>3 DEF Eligible, ReviewStands
    <3>6. concerns[s][bind[s].out] \in {"none", "open", "cleared"} \cup Against
      BY <3>1, <3>2 DEF TalkingTypeOK
    <3>7. run.policy = 2 => concerns[s][bind[s].out] \in {"none", "cleared"}
      BY <3>1, <3>6 DEF Eligible, ReviewStands, Clear, Upheld
    <3> QED
      BY <3>2, <3>3, <3>4, <3>5, <3>7
  <2>3. around.draft /\ \E s \in Scenes : TRUE
    BY <2>1, TalkingAssumption DEF Resume
  <2> QED
    BY <2>2, <2>3
<1> QED
  BY <1>1, AlwaysInv, PTL DEF TalkingSpec, RenderEarned
=============================================================================
