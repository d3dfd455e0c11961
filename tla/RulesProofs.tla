----------------------------- MODULE RulesProofs -----------------------------
(***************************************************************************)
(* What the rules promise holds of any series of slices, choice of a       *)
(* reference, route of a scene's assets, and call of a provider's adapter. *)
(***************************************************************************)
EXTENDS MCRules, FiniteSetTheorems, SequenceTheorems, WellFoundedInduction, TLAPS

-----------------------------------------------------------------------------
(* The least and the greatest of some numbers.                              *)

LEMMA Least ==
  ASSUME NEW S \in SUBSET Nat, S # {}
  PROVE  /\ Min(S) \in S
         /\ \A n \in S : Min(S) <= n
<1>1. \E m \in S : \A n \in S : m <= n
  <2>1. PICK m \in S : \A n \in S : <<n, m>> \notin OpToRel(<, Nat)
    BY NatLessThanWellFounded, WFMin
  <2>2. \A n \in S : ~(n < m)
    BY <2>1 DEF OpToRel
  <2> QED
    BY <2>2
<1> QED
  BY <1>1 DEF Min

-----------------------------------------------------------------------------
(* The rules, of any input: how a recording is cut into slices (greedily,   *)
(* and so in as few as can be), which reference is chosen, and what the     *)
(* adapters make of what a provider answers.                                *)

LEMMA Greatest ==
  ASSUME NEW S \in SUBSET Nat, S # {}, NEW b \in Nat, \A n \in S : n <= b
  PROVE  /\ Max(S) \in S
         /\ \A n \in S : n <= Max(S)
<1> DEFINE Below == {b - n : n \in S}
<1>1. Below \in SUBSET Nat /\ Below # {}
  <2>1. \A n \in S : n \in Nat /\ b - n \in Nat
    OBVIOUS
  <2>2. Below \in SUBSET Nat
    BY <2>1
  <2>3. PICK n \in S : TRUE
    OBVIOUS
  <2>4. b - n \in Below
    BY <2>3
  <2> QED
    BY <2>2, <2>4
<1>2. Min(Below) \in Below /\ \A m \in Below : Min(Below) <= m
  <2> HIDE DEF Below
  <2> QED
    BY <1>1, Least
<1>3. PICK x \in S : Min(Below) = b - x
  BY <1>2
<1>4. ASSUME NEW n \in S PROVE x >= n
  <2>1. b - n \in Below
    OBVIOUS
  <2>2. b - x <= b - n
    BY <1>2, <1>3, <2>1
  <2> QED
    BY <2>2
<1> QED
  BY <1>4 DEF Max

\* The last segment that fits into one slice with segment i (TalkingSlices).
Far(S, limit, i) ==
    Max({j \in i..Len(S) : \A k \in i..j : Fits(S, i, k, limit)})

SliceStep(f, S, limit, i) ==
    <<Slice(S, i, Far(S, limit, i))>>
        \o (IF Far(S, limit, i) = Len(S) THEN <<>> ELSE f[Far(S, limit, i) + 1])

Cutting(f, S, limit) == f = [i \in 1..Len(S) |-> SliceStep(f, S, limit, i)]

LEMMA SlicesAre ==
  ASSUME NEW S, NEW limit
  PROVE  Slices(S, limit) = (CHOOSE f : Cutting(f, S, limit))[1]
BY DEF Slices, Cutting, SliceStep, Far

LEMMA SegmentTimes ==
  ASSUME NEW S \in Seq(Segment)
  PROVE  /\ Len(S) \in Nat /\ DOMAIN S = 1..Len(S)
         /\ \A k \in DOMAIN S : S[k].start \in Nat /\ S[k].end \in Nat /\ S[k].start < S[k].end
<1>1. \A k \in DOMAIN S : S[k] \in Segment
  OBVIOUS
<1> QED
  BY <1>1 DEF Segment

\* Segments are in order: one is over before the next begins.
LEMMA SegmentsApart ==
  ASSUME NEW S \in Seq(Segment), NEW end \in Nat, Ordered(S, end)
  PROVE  \A a, b \in DOMAIN S : a < b => S[a].end <= S[b].start
<1> SUFFICES ASSUME NEW a \in DOMAIN S
             PROVE  \A b \in DOMAIN S : a < b => S[a].end <= S[b].start
  OBVIOUS
<1> DEFINE Bad == {b \in Nat : b \in DOMAIN S /\ a < b /\ ~(S[a].end <= S[b].start)}
<1> SUFFICES Bad = {}
  OBVIOUS
<1> SUFFICES ASSUME Bad # {} PROVE FALSE
  OBVIOUS
<1> DEFINE m == Min(Bad)
<1>1. m \in Bad /\ \A n \in Bad : m <= n
  <2>1. Bad \in SUBSET Nat
    OBVIOUS
  <2> HIDE DEF Bad
  <2> QED
    BY <2>1, Least
<1>2. m \in DOMAIN S /\ a < m /\ ~(S[a].end <= S[m].start) /\ m - 1 \notin Bad
  BY <1>1
<1> HIDE DEF m
<1>3. \A k \in DOMAIN S : S[k].start \in Nat /\ S[k].end \in Nat /\ S[k].start < S[k].end /\ k \in Nat /\ k >= 1
  BY SegmentTimes
<1>4. S[m - 1].end <= S[m].start
  <2>1. S[m].start >= IF m = 1 THEN 0 ELSE S[m - 1].end
    BY <1>2 DEF Ordered
  <2>2. m # 1 /\ m - 1 \in DOMAIN S
    BY <1>2, <1>3, SegmentTimes
  <2> QED
    BY <1>2, <1>3, <2>1, <2>2
<1>5. a # m - 1
  BY <1>2, <1>4
<1>6. m - 1 \in DOMAIN S /\ a < m - 1
  BY <1>2, <1>3, <1>5
<1>7. S[a].end <= S[m - 1].start
  BY <1>2, <1>3, <1>6
<1> QED
  BY <1>2, <1>3, <1>4, <1>6, <1>7

\* What a slice from segment i holds is what fits, and one segment more does not.
LEMMA FarIs ==
  ASSUME NEW S \in Seq(Segment), NEW limit \in Nat, NEW i \in 1..Len(S), Fits(S, i, i, limit)
  PROVE  /\ Far(S, limit, i) \in i..Len(S)
         /\ \A k \in i..Far(S, limit, i) : Fits(S, i, k, limit)
         /\ Far(S, limit, i) < Len(S) => ~Fits(S, i, Far(S, limit, i) + 1, limit)
<1> DEFINE Reach == {j \in i..Len(S) : \A k \in i..j : Fits(S, i, k, limit)}
           far == Max(Reach)
<1>0. Len(S) \in Nat /\ i \in Nat
  OBVIOUS
<1>1. Reach \in SUBSET Nat /\ i \in Reach /\ \A n \in Reach : n <= Len(S)
  OBVIOUS
<1>2. far \in Reach /\ \A n \in Reach : n <= far
  <2> HIDE DEF Reach
  <2> QED
    BY <1>0, <1>1, Greatest
<1>3. Far(S, limit, i) = far
  BY DEF Far
<1>4. far < Len(S) => ~Fits(S, i, far + 1, limit)
  <2> SUFFICES ASSUME far < Len(S), Fits(S, i, far + 1, limit) PROVE FALSE
    OBVIOUS
  <2>1. far \in Nat /\ far >= i /\ \A k \in i..far : Fits(S, i, k, limit)
    BY <1>2
  <2>2. far + 1 \in i..Len(S)
    BY <1>0, <2>1
  <2>3. \A k \in i..(far + 1) : Fits(S, i, k, limit)
    <3> HIDE DEF far
    <3>1. \A k \in i..(far + 1) : k \in i..far \/ k = far + 1
      BY <1>0, <2>1
    <3> QED
      BY <2>1, <3>1
  <2>4. far + 1 \in Reach
    <3> HIDE DEF far
    <3> QED
      BY <2>2, <2>3
  <2> HIDE DEF far, Reach
  <2> QED
    BY <1>2, <2>1, <2>4
<1> QED
  BY <1>2, <1>3, <1>4

\* The recursion meets its equation at the last m segments.
CutsLast(f, S, limit, m) ==
    \A i \in 1..Len(S) : Len(S) - i < m => f[i] = SliceStep(f, S, limit, i)

LEMMA CuttingGrows ==
  ASSUME NEW S \in Seq(Segment), NEW limit \in Nat, \A i \in 1..Len(S) : Fits(S, i, i, limit),
         NEW m \in Nat, NEW f, CutsLast(f, S, limit, m)
  PROVE  \E g : CutsLast(g, S, limit, m + 1)
<1> DEFINE g == [i \in 1..Len(S) |-> IF Len(S) - i < m THEN f[i] ELSE SliceStep(f, S, limit, i)]
<1>1. \A i \in 1..Len(S) : g[i] = IF Len(S) - i < m THEN f[i] ELSE SliceStep(f, S, limit, i)
  OBVIOUS
<1> HIDE DEF g
<1>2. ASSUME NEW i \in 1..Len(S), Len(S) - i < m + 1
      PROVE  g[i] = SliceStep(g, S, limit, i)
  <2>1. g[i] = SliceStep(f, S, limit, i)
    BY <1>1 DEF CutsLast
  <2>2. Far(S, limit, i) \in i..Len(S)
    BY FarIs
  <2>3. CASE Far(S, limit, i) = Len(S)
    BY <2>1, <2>3 DEF SliceStep
  <2>4. CASE Far(S, limit, i) # Len(S)
    <3>1. Far(S, limit, i) + 1 \in 1..Len(S) /\ Len(S) - (Far(S, limit, i) + 1) < m
      BY <1>2, <2>2, <2>4
    <3>2. g[Far(S, limit, i) + 1] = f[Far(S, limit, i) + 1]
      BY <1>1, <3>1
    <3> QED
      BY <2>1, <2>4, <3>2 DEF SliceStep
  <2> QED
    BY <2>3, <2>4
<1>3. CutsLast(g, S, limit, m + 1)
  BY <1>2 DEF CutsLast
<1> QED
  BY <1>3

LEMMA CuttingExists ==
  ASSUME NEW S \in Seq(Segment), NEW limit \in Nat, \A i \in 1..Len(S) : Fits(S, i, i, limit)
  PROVE  \E f : Cutting(f, S, limit)
<1> DEFINE Bad == {m \in Nat : ~ \E f : CutsLast(f, S, limit, m)}
<1>1. Bad = {}
  <2> SUFFICES ASSUME Bad # {} PROVE FALSE
    OBVIOUS
  <2> DEFINE m == Min(Bad)
  <2>1. m \in Bad /\ \A n \in Bad : m <= n
    <3>1. Bad \in SUBSET Nat
      OBVIOUS
    <3> HIDE DEF Bad
    <3> QED
      BY <3>1, Least
  <2>2. m \in Nat /\ (~ \E f : CutsLast(f, S, limit, m)) /\ (m # 0 => m - 1 \notin Bad)
    <3>1. m \in Nat /\ ~ \E f : CutsLast(f, S, limit, m)
      BY <2>1
    <3> HIDE DEF m, Bad
    <3>2. ~(m <= m - 1)
      BY <3>1
    <3> QED
      BY <2>1, <3>1, <3>2
  <2> HIDE DEF m
  <2>3. CutsLast(0, S, limit, 0)
    BY DEF CutsLast
  <2>4. m - 1 \in Nat /\ (m - 1) + 1 = m
    BY <2>2, <2>3
  <2>5. PICK f : CutsLast(f, S, limit, m - 1)
    BY <2>2, <2>3, <2>4
  <2> HIDE DEF Bad
  <2>6. \E g : CutsLast(g, S, limit, (m - 1) + 1)
    BY <2>4, <2>5, CuttingGrows
  <2> QED
    BY <2>2, <2>4, <2>6
<1>2. PICK f : CutsLast(f, S, limit, Len(S))
  <2>1. Len(S) \in Nat
    OBVIOUS
  <2> QED
    BY <1>1, <2>1
<1> DEFINE g == [i \in 1..Len(S) |-> SliceStep(f, S, limit, i)]
<1>3. \A i \in 1..Len(S) : g[i] = f[i]
  BY <1>2 DEF CutsLast
<1> HIDE DEF g
<1>4. \A i \in 1..Len(S) : SliceStep(g, S, limit, i) = SliceStep(f, S, limit, i)
  <2> SUFFICES ASSUME NEW i \in 1..Len(S)
               PROVE  SliceStep(g, S, limit, i) = SliceStep(f, S, limit, i)
    OBVIOUS
  <2>1. Far(S, limit, i) \in i..Len(S)
    BY FarIs
  <2>2. Far(S, limit, i) # Len(S) => Far(S, limit, i) + 1 \in 1..Len(S)
    BY <2>1
  <2> QED
    BY <1>3, <2>2 DEF SliceStep
<1>5. g = [i \in 1..Len(S) |-> SliceStep(f, S, limit, i)]
  BY DEF g
<1>6. Cutting(g, S, limit)
  BY <1>4, <1>5 DEF Cutting
<1> QED
  BY <1>6

\* Whole segments from i to the last, each slice as long as the limit allows.
SliceOf(S) == [first : DOMAIN S, last : DOMAIN S, start : Nat, end : Nat]

CutFrom(S, limit, i, P) ==
    /\ P \in Seq(SliceOf(S)) /\ P # <<>>
    /\ P[1].first = i /\ P[Len(P)].last = Len(S)
    /\ \A k \in DOMAIN P :
        /\ P[k].first <= P[k].last /\ Fits(S, P[k].first, P[k].last, limit)
        /\ P[k].start = S[P[k].first].start /\ P[k].end = S[P[k].last].end
    /\ \A k \in 1..(Len(P) - 1) :
        /\ P[k + 1].first = P[k].last + 1
        /\ ~Fits(S, P[k].first, P[k].last + 1, limit)

LEMMA OneSlice ==
  ASSUME NEW S \in Seq(Segment), NEW limit \in Nat, NEW i \in 1..Len(S), Fits(S, i, i, limit)
  PROVE  LET s == Slice(S, i, Far(S, limit, i))
         IN  /\ s \in SliceOf(S) /\ s.first = i /\ s.last = Far(S, limit, i) /\ s.first <= s.last
             /\ Fits(S, s.first, s.last, limit)
             /\ s.start = S[s.first].start /\ s.end = S[s.last].end
<1>1. Far(S, limit, i) \in i..Len(S) /\ Fits(S, i, Far(S, limit, i), limit)
  <2>1. /\ Far(S, limit, i) \in i..Len(S)
        /\ \A k \in i..Far(S, limit, i) : Fits(S, i, k, limit)
    BY FarIs
  <2>2. Far(S, limit, i) \in i..Far(S, limit, i)
    BY <2>1
  <2> QED
    BY <2>1, <2>2
<1>2. PICK j \in i..Len(S) : j = Far(S, limit, i) /\ Fits(S, i, j, limit)
  BY <1>1
<1>3. S[i].start \in Nat /\ S[j].end \in Nat /\ i \in DOMAIN S /\ j \in DOMAIN S /\ i <= j
  BY SegmentTimes
<1> QED
  BY <1>2, <1>3 DEF Slice, SliceOf

LEMMA CutOn ==
  ASSUME NEW S \in Seq(Segment), NEW limit \in Nat, NEW i \in 1..Len(S), Fits(S, i, i, limit),
         Far(S, limit, i) # Len(S), NEW P, CutFrom(S, limit, Far(S, limit, i) + 1, P)
  PROVE  CutFrom(S, limit, i, <<Slice(S, i, Far(S, limit, i))>> \o P)
<1>1. PICK s \in SliceOf(S) : /\ s = Slice(S, i, Far(S, limit, i)) /\ s.first = i
                              /\ s.last = Far(S, limit, i) /\ s.first <= s.last
                              /\ Fits(S, s.first, s.last, limit)
                              /\ s.start = S[s.first].start /\ s.end = S[s.last].end
  BY OneSlice
<1>2. ~Fits(S, s.first, s.last + 1, limit)
  <2>1. Far(S, limit, i) \in i..Len(S) /\ (Far(S, limit, i) < Len(S) => ~Fits(S, i, Far(S, limit, i) + 1, limit))
    BY FarIs
  <2>2. Far(S, limit, i) < Len(S)
    BY <2>1
  <2> QED
    BY <1>1, <2>1, <2>2
<1>3. /\ P \in Seq(SliceOf(S)) /\ P # <<>> /\ Len(P) \in Nat /\ Len(P) >= 1
      /\ P[1].first = s.last + 1 /\ P[Len(P)].last = Len(S)
  BY <1>1 DEF CutFrom
<1> DEFINE R == <<s>> \o P
<1>4. /\ R \in Seq(SliceOf(S)) /\ Len(R) = Len(P) + 1 /\ R # <<>>
      /\ R[1] = s /\ \A k \in 2..Len(R) : R[k] = P[k - 1]
  BY <1>3
<1> HIDE DEF R
<1>5. R[1].first = i /\ R[Len(R)].last = Len(S)
  BY <1>1, <1>3, <1>4
<1>6. ASSUME NEW k \in DOMAIN R
      PROVE  /\ R[k].first <= R[k].last /\ Fits(S, R[k].first, R[k].last, limit)
             /\ R[k].start = S[R[k].first].start /\ R[k].end = S[R[k].last].end
  <2>1. CASE k = 1
    BY <1>1, <1>4, <2>1
  <2>2. CASE k # 1
    <3>1. R[k] = P[k - 1] /\ k - 1 \in DOMAIN P
      BY <1>3, <1>4, <2>2
    <3> QED
      BY <3>1 DEF CutFrom
  <2> QED
    BY <2>1, <2>2
<1>7. ASSUME NEW k \in 1..(Len(R) - 1)
      PROVE  R[k + 1].first = R[k].last + 1 /\ ~Fits(S, R[k].first, R[k].last + 1, limit)
  <2>1. CASE k = 1
    <3>1. R[k] = s /\ R[k + 1] = P[1]
      BY <1>3, <1>4, <2>1
    <3> QED
      BY <1>2, <1>3, <3>1
  <2>2. CASE k # 1
    <3>1. R[k] = P[k - 1] /\ R[k + 1] = P[(k - 1) + 1] /\ k - 1 \in 1..(Len(P) - 1)
      BY <1>3, <1>4, <2>2
    <3>2. \A n \in 1..(Len(P) - 1) : P[n + 1].first = P[n].last + 1 /\ ~Fits(S, P[n].first, P[n].last + 1, limit)
      BY DEF CutFrom
    <3> QED
      BY <3>1, <3>2
  <2> QED
    BY <2>1, <2>2
<1>8. CutFrom(S, limit, i, R)
  BY <1>4, <1>5, <1>6, <1>7 DEF CutFrom
<1> QED
  BY <1>1, <1>8 DEF R

LEMMA CutWell ==
  ASSUME NEW S \in Seq(Segment), NEW limit \in Nat, \A i \in 1..Len(S) : Fits(S, i, i, limit),
         NEW f, Cutting(f, S, limit)
  PROVE  \A i \in 1..Len(S) : CutFrom(S, limit, i, f[i])
<1> DEFINE Bad == {m \in Nat : \E i \in 1..Len(S) : m = Len(S) - i /\ ~CutFrom(S, limit, i, f[i])}
<1>1. Bad = {}
  <2> SUFFICES ASSUME Bad # {} PROVE FALSE
    OBVIOUS
  <2> DEFINE m == Min(Bad)
  <2>1. m \in Bad /\ \A n \in Bad : m <= n
    <3>1. Bad \in SUBSET Nat
      OBVIOUS
    <3> HIDE DEF Bad
    <3> QED
      BY <3>1, Least
  <2>2. PICK i \in 1..Len(S) : m = Len(S) - i /\ ~CutFrom(S, limit, i, f[i])
    BY <2>1
  <2>3. \A j \in 1..Len(S) : Len(S) - j < Len(S) - i => CutFrom(S, limit, j, f[j])
    <3> SUFFICES ASSUME NEW j \in 1..Len(S), Len(S) - j < Len(S) - i PROVE CutFrom(S, limit, j, f[j])
      OBVIOUS
    <3>1. Len(S) - j \in Nat
      OBVIOUS
    <3>2. Len(S) - j \notin Bad
      <4> HIDE DEF Bad, m
      <4>1. ~(m <= Len(S) - j)
        BY <2>2
      <4> QED
        BY <2>1, <4>1
    <3> QED
      BY <3>1, <3>2
  <2> HIDE DEF Bad, m
  <2>4. f[i] = SliceStep(f, S, limit, i)
    BY DEF Cutting
  <2>5. Far(S, limit, i) \in i..Len(S)
    BY FarIs
  <2>6. CASE Far(S, limit, i) = Len(S)
    <3>1. f[i] = <<Slice(S, i, Far(S, limit, i))>>
      BY <2>4, <2>6 DEF SliceStep
    <3>2. PICK s \in SliceOf(S) : /\ s = Slice(S, i, Far(S, limit, i)) /\ s.first = i
                                  /\ s.last = Far(S, limit, i) /\ s.first <= s.last
                                  /\ Fits(S, s.first, s.last, limit)
                                  /\ s.start = S[s.first].start /\ s.end = S[s.last].end
      BY OneSlice
    <3>3. f[i] \in Seq(SliceOf(S)) /\ Len(f[i]) = 1 /\ f[i][1] = s /\ f[i] # <<>> /\ DOMAIN f[i] = {1}
      BY <3>1, <3>2
    <3>4. 1..(Len(f[i]) - 1) = {}
      BY <3>3
    <3>5. CutFrom(S, limit, i, f[i])
      BY <2>6, <3>2, <3>3, <3>4 DEF CutFrom
    <3> QED
      BY <2>2, <3>5
  <2>7. CASE Far(S, limit, i) # Len(S)
    <3>1. Far(S, limit, i) + 1 \in 1..Len(S) /\ Len(S) - (Far(S, limit, i) + 1) < Len(S) - i
      BY <2>5, <2>7
    <3>2. CutFrom(S, limit, Far(S, limit, i) + 1, f[Far(S, limit, i) + 1])
      BY <2>3, <3>1
    <3>3. f[i] = <<Slice(S, i, Far(S, limit, i))>> \o f[Far(S, limit, i) + 1]
      BY <2>4, <2>7 DEF SliceStep
    <3>4. CutFrom(S, limit, i, f[i])
      BY <2>7, <3>2, <3>3, CutOn
    <3> QED
      BY <2>2, <3>4
  <2> QED
    BY <2>6, <2>7
<1>2. ASSUME NEW i \in 1..Len(S) PROVE Len(S) - i \in Nat
  OBVIOUS
<1> QED
  BY <1>1, <1>2

LEMMA SlicesCut ==
  ASSUME NEW S \in Seq(Segment), S # <<>>, NEW limit \in Nat, \A i \in 1..Len(S) : Fits(S, i, i, limit)
  PROVE  CutFrom(S, limit, 1, Slices(S, limit))
<1> DEFINE f == CHOOSE g : Cutting(g, S, limit)
<1>1. Cutting(f, S, limit)
  BY CuttingExists
<1>2. Slices(S, limit) = f[1]
  BY SlicesAre
<1> HIDE DEF f
<1>3. 1 \in 1..Len(S)
  BY SegmentTimes
<1> QED
  BY <1>1, <1>2, <1>3, CutWell

\* Slices are in order and share no segment.
LEMMA SlicesApart ==
  ASSUME NEW S \in Seq(Segment), NEW limit \in Nat, NEW P, CutFrom(S, limit, 1, P)
  PROVE  \A a, b \in DOMAIN P : a < b => P[a].last < P[b].first
<1> SUFFICES ASSUME NEW a \in DOMAIN P
             PROVE  \A b \in DOMAIN P : a < b => P[a].last < P[b].first
  OBVIOUS
<1>0. P \in Seq(SliceOf(S)) /\ Len(P) \in Nat /\ DOMAIN P = 1..Len(P)
  BY DEF CutFrom
<1>1. \A k \in DOMAIN P : P[k].first \in Nat /\ P[k].last \in Nat /\ P[k].first <= P[k].last
  <2>1. \A k \in DOMAIN P : P[k] \in SliceOf(S)
    BY <1>0
  <2>2. \A k \in DOMAIN P : P[k].first \in DOMAIN S /\ P[k].last \in DOMAIN S /\ P[k].first <= P[k].last
    BY <2>1 DEF CutFrom, SliceOf
  <2>3. DOMAIN S \subseteq Nat
    BY SegmentTimes
  <2> QED
    BY <2>2, <2>3
<1>2. \A k \in 1..(Len(P) - 1) : P[k + 1].first = P[k].last + 1
  BY DEF CutFrom
<1> DEFINE Bad == {b \in Nat : b \in DOMAIN P /\ a < b /\ ~(P[a].last < P[b].first)}
<1> SUFFICES ASSUME Bad # {} PROVE FALSE
  BY <1>0
<1> DEFINE m == Min(Bad)
<1>3. m \in Bad /\ \A n \in Bad : m <= n
  <2>1. Bad \in SUBSET Nat
    OBVIOUS
  <2> HIDE DEF Bad
  <2> QED
    BY <2>1, Least
<1>4. m \in DOMAIN P /\ a < m /\ ~(P[a].last < P[m].first) /\ m \in Nat
  BY <1>3
<1>5. m - 1 \notin Bad
  <2> HIDE DEF m, Bad
  <2>1. ~(m <= m - 1)
    BY <1>4
  <2> QED
    BY <1>3, <2>1
<1> HIDE DEF m
<1>6. m - 1 \in 1..(Len(P) - 1) /\ m - 1 \in DOMAIN P /\ (m - 1) + 1 = m
  BY <1>0, <1>4
<1>7. P[m].first = P[m - 1].last + 1
  BY <1>2, <1>6
<1>8. CASE a = m - 1
  BY <1>1, <1>4, <1>7, <1>8
<1>9. CASE a # m - 1
  <2>1. P[a].last < P[m - 1].first
    BY <1>0, <1>4, <1>5, <1>6, <1>9
  <2> QED
    BY <1>1, <1>4, <1>6, <1>7, <2>1
<1> QED
  BY <1>8, <1>9

\* However else the segments are cut, there is a cut within each slice but the last:
\* without one a part would hold that slice and a segment more, which does not fit.
LEMMA CutWithin ==
  ASSUME NEW S \in Seq(Segment), NEW end \in Nat, Ordered(S, end), NEW limit \in Nat,
         NEW cuts \in SUBSET (1..(Len(S) - 1)), CutsWell(S, cuts, limit),
         NEW first \in DOMAIN S, NEW last \in DOMAIN S, first <= last, last + 1 \in DOMAIN S,
         ~Fits(S, first, last + 1, limit)
  PROVE  \E c \in cuts : first <= c /\ c <= last
<1> SUFFICES ASSUME \A c \in cuts : ~(first <= c /\ c <= last) PROVE FALSE
  OBVIOUS
<1>1. /\ Len(S) \in Nat /\ DOMAIN S = 1..Len(S) /\ first \in Nat /\ last \in Nat
      /\ \A c \in cuts : c \in Nat /\ 1 <= c /\ c <= Len(S) - 1
  <2>1. Len(S) \in Nat /\ DOMAIN S = 1..Len(S)
    BY SegmentTimes
  <2>2. first \in Nat /\ last \in Nat
    BY <2>1
  <2>3. \A c \in cuts : c \in 1..(Len(S) - 1)
    OBVIOUS
  <2> QED
    BY <2>1, <2>2, <2>3
<1>2. PICK i \in DOMAIN S : /\ i <= first /\ (i = 1 \/ i - 1 \in cuts)
                            /\ \A c \in cuts : c < first => c < i
  <2> DEFINE Under == {c \in cuts : c < first}
  <2>1. CASE Under = {}
    <3>1. 1 \in DOMAIN S /\ 1 <= first
      BY <1>1
    <3> QED
      BY <2>1, <3>1
  <2>2. CASE Under # {}
    <3>1. Under \in SUBSET Nat /\ \A n \in Under : n <= first
      <4>1. \A n \in Under : n \in cuts /\ n < first
        OBVIOUS
      <4>2. \A n \in Under : n \in Nat
        BY <1>1, <4>1
      <4>3. first \in Nat
        BY <1>1
      <4> HIDE DEF Under
      <4> QED
        BY <4>1, <4>2, <4>3
    <3>2. first \in Nat
      BY <1>1
    <3>3. Max(Under) \in Under /\ \A n \in Under : n <= Max(Under)
      <4> HIDE DEF Under
      <4> QED
        BY <2>2, <3>1, <3>2, Greatest
    <3>4. PICK x \in cuts : x < first /\ \A c \in cuts : c < first => c <= x
      BY <3>3
    <3>5. x + 1 \in DOMAIN S /\ x + 1 <= first /\ (x + 1) - 1 \in cuts
      BY <1>1, <3>4
    <3>6. \A c \in cuts : c < first => c < x + 1
      BY <1>1, <3>4
    <3> QED
      BY <3>5, <3>6
  <2> QED
    BY <2>1, <2>2
<1>3. PICK j \in DOMAIN S : /\ last + 1 <= j /\ (j = Len(S) \/ j \in cuts)
                            /\ \A c \in cuts : c > last => c >= j
  <2> DEFINE Over == {c \in cuts : c > last}
  <2>1. CASE Over = {}
    <3>1. Len(S) \in DOMAIN S /\ last + 1 <= Len(S)
      BY <1>1
    <3> QED
      BY <2>1, <3>1
  <2>2. CASE Over # {}
    <3>1. Over \in SUBSET Nat
      BY <1>1
    <3>2. Min(Over) \in Over /\ \A n \in Over : Min(Over) <= n
      <4> HIDE DEF Over
      <4> QED
        BY <2>2, <3>1, Least
    <3>3. PICK x \in cuts : x > last /\ \A c \in cuts : c > last => x <= c
      BY <3>2
    <3> QED
      BY <1>1, <3>3
  <2> QED
    BY <2>1, <2>2
<1>4. i <= j /\ \A k \in i..(j - 1) : k \notin cuts
  <2>1. i \in Nat /\ j \in Nat /\ i <= j
    BY <1>1, <1>2, <1>3
  <2>2. ASSUME NEW k \in i..(j - 1), k \in cuts PROVE FALSE
    <3>1. k \in Nat /\ i <= k /\ k < j
      BY <2>1
    <3>2. ~(k < first)
      BY <1>2, <2>1, <2>2, <3>1
    <3>3. ~(k > last)
      BY <1>3, <2>1, <2>2, <3>1
    <3> QED
      BY <1>1, <2>2, <3>1, <3>2, <3>3
  <2> QED
    BY <2>1, <2>2
<1>5. Fits(S, i, j, limit)
  BY <1>2, <1>3, <1>4 DEF CutsWell
<1>6. S[i].start <= S[first].start /\ S[last + 1].end <= S[j].end
  <2>1. \A a, b \in DOMAIN S : a < b => S[a].end <= S[b].start
    BY SegmentsApart
  <2>2. \A k \in DOMAIN S : S[k].start \in Nat /\ S[k].end \in Nat /\ S[k].start < S[k].end
    BY SegmentTimes
  <2>3. S[i].start <= S[first].start
    <3>1. i = first \/ i < first
      BY <1>1, <1>2
    <3>2. i < first => S[i].end <= S[first].start
      BY <2>1
    <3> QED
      BY <2>2, <3>1, <3>2
  <2>4. S[last + 1].end <= S[j].end
    <3>1. j = last + 1 \/ last + 1 < j
      BY <1>1, <1>3
    <3>2. last + 1 < j => S[last + 1].end <= S[j].start
      BY <2>1
    <3> QED
      BY <2>2, <3>1, <3>2
  <2> QED
    BY <2>3, <2>4
<1>7. \A k \in DOMAIN S : S[k].start \in Nat /\ S[k].end \in Nat
  BY SegmentTimes
<1> QED
  BY <1>5, <1>6, <1>7 DEF Fits

\* So no other way to cut takes fewer slices.
LEMMA FewestSlices ==
  ASSUME NEW S \in Seq(Segment), NEW end \in Nat, Ordered(S, end), NEW limit \in Nat,
         NEW P, CutFrom(S, limit, 1, P),
         NEW cuts \in SUBSET (1..(Len(S) - 1)), CutsWell(S, cuts, limit)
  PROVE  Len(P) <= Cardinality(cuts) + 1
<1>0. P \in Seq(SliceOf(S)) /\ Len(P) \in Nat /\ DOMAIN P = 1..Len(P) /\ Len(P) >= 1
  BY DEF CutFrom
<1>1. \A k \in DOMAIN P : P[k].first \in DOMAIN S /\ P[k].last \in DOMAIN S /\ P[k].first <= P[k].last
  <2>1. \A k \in DOMAIN P : P[k] \in SliceOf(S)
    BY <1>0
  <2> QED
    BY <2>1 DEF CutFrom, SliceOf
<1> DEFINE T == 1..(Len(P) - 1)
           At(k) == CHOOSE c \in cuts : P[k].first <= c /\ c <= P[k].last
           places == [k \in T |-> At(k)]
<1>2. \A k \in T : At(k) \in cuts /\ P[k].first <= At(k) /\ At(k) <= P[k].last
  <2> SUFFICES ASSUME NEW k \in T PROVE \E c \in cuts : P[k].first <= c /\ c <= P[k].last
    OBVIOUS
  <2>1. k \in DOMAIN P /\ k + 1 \in DOMAIN P
    BY <1>0
  <2>2. P[k + 1].first = P[k].last + 1 /\ ~Fits(S, P[k].first, P[k].last + 1, limit)
    BY DEF CutFrom
  <2>3. P[k].last + 1 \in DOMAIN S
    BY <1>1, <2>1, <2>2
  <2> QED
    BY <1>1, <2>1, <2>2, <2>3, CutWithin
<1> HIDE DEF At
<1>3. \A k, n \in T : places[k] = places[n] => k = n
  <2> SUFFICES ASSUME NEW k \in T, NEW n \in T, k < n PROVE At(k) # At(n)
    BY <1>0
  <2>1. P[k].last < P[n].first
    BY <1>0, SlicesApart
  <2>2. At(k) <= P[k].last /\ P[n].first <= At(n) /\ At(k) \in Nat /\ At(n) \in Nat
    <3>1. Len(S) - 1 \in Int
      BY SegmentTimes
    <3>2. cuts \subseteq Nat
      <4> HIDE DEF T, places
      <4> QED
        BY <3>1
    <3>3. At(k) \in Nat /\ At(n) \in Nat
      BY <1>2, <3>2
    <3> QED
      BY <1>2, <3>3
  <2>3. P[k].last \in Nat /\ P[n].first \in Nat
    <3>1. DOMAIN S \subseteq Nat
      BY SegmentTimes
    <3>2. k \in DOMAIN P /\ n \in DOMAIN P
      BY <1>0
    <3> QED
      BY <1>1, <3>1, <3>2
  <2> QED
    BY <2>1, <2>2, <2>3
<1>4. places \in Injection(T, cuts)
  BY <1>2, <1>3 DEF Injection, IsInjective
<1>5. IsFiniteSet(cuts) /\ Cardinality(cuts) \in Nat
  <2>1. Len(S) - 1 \in Int
    BY SegmentTimes
  <2>2. IsFiniteSet(1..(Len(S) - 1))
    BY <2>1, FS_Interval
  <2> QED
    BY <2>2, FS_Subset, FS_CardinalityType
<1>6. IsFiniteSet(T) /\ Cardinality(T) = Len(P) - 1
  <2>1. 1 \in Int /\ Len(P) - 1 \in Int
    BY <1>0
  <2>2. IsFiniteSet(T) /\ Cardinality(T) = IF 1 > Len(P) - 1 THEN 0 ELSE (Len(P) - 1) - 1 + 1
    BY <2>1, FS_Interval
  <2> QED
    BY <1>0, <2>2
<1>7. Cardinality(T) <= Cardinality(cuts)
  <2> HIDE DEF T, places
  <2> QED
    BY <1>4, <1>5, FS_Injection
<1> QED
  BY <1>0, <1>5, <1>6, <1>7

SeriesQuestions ==
    [rule : {"series"}, limit : Nat, context : Nat, audio : Recording, clip : [start : Nat, end : Nat]]

LEMMA SeriesParts ==
  ASSUME NEW q \in SeriesQuestions, Sliceable(q), NEW P, P = Slices(q.audio.segments, q.limit),
         CutFrom(q.audio.segments, q.limit, 1, P), NEW parts, parts = Series(q).parts
  PROVE  /\ Len(parts) = Len(P) /\ DOMAIN parts = 1..Len(P) /\ Len(P) \in Nat /\ Len(P) >= 1
         /\ P \in Seq(SliceOf(q.audio.segments))
         /\ \A k \in 1..Len(P) :
              /\ parts[k].slice = P[k] /\ parts[k].said = Rebased(q.audio.segments, P[k])
              /\ parts[k].window = Window(q.clip, P, P[k], q.context)
<1> DEFINE OnePart(k) == [slice |-> P[k], said |-> Rebased(q.audio.segments, P[k]),
                       window |-> Window(q.clip, P, P[k], q.context)]
<1>1. P \in Seq(SliceOf(q.audio.segments)) /\ Len(P) \in Nat /\ Len(P) >= 1 /\ DOMAIN P = 1..Len(P)
  BY DEF CutFrom
<1>2. parts = [k \in DOMAIN P |-> OnePart(k)]
  BY DEF Series
<1>3. \A k \in DOMAIN P :
        /\ OnePart(k).slice = P[k] /\ OnePart(k).said = Rebased(q.audio.segments, P[k])
        /\ OnePart(k).window = Window(q.clip, P, P[k], q.context)
  OBVIOUS
<1> HIDE DEF OnePart
<1>4. parts \in [1..Len(P) -> {OnePart(k) : k \in 1..Len(P)}]
  BY <1>1, <1>2
<1>5. parts \in Seq({OnePart(k) : k \in 1..Len(P)}) /\ Len(parts) = Len(P)
  BY <1>1, <1>4
<1> QED
  BY <1>1, <1>2, <1>3, <1>5

LEMMA RebasedOrdered ==
  ASSUME NEW S \in Seq(Segment), NEW end \in Nat, Ordered(S, end), NEW limit \in Nat,
         NEW s \in SliceOf(S), s.first <= s.last,
         s.start = S[s.first].start, s.end = S[s.last].end
  PROVE  /\ Ordered(Rebased(S, s), s.end - s.start)
         /\ \A n \in DOMAIN Rebased(S, s) :
              /\ s.first + n - 1 \in DOMAIN S
              /\ Rebased(S, s)[n].start = S[s.first + n - 1].start - s.start
<1> DEFINE R == Rebased(S, s)
<1>0. /\ s.first \in DOMAIN S /\ s.last \in DOMAIN S /\ s.first \in Nat /\ s.last \in Nat
      /\ Len(S) \in Nat /\ DOMAIN S = 1..Len(S)
  BY SegmentTimes DEF SliceOf
<1>1. \A k \in DOMAIN S : /\ S[k].start \in Nat /\ S[k].end \in Nat /\ S[k].start < S[k].end
                          /\ \A x, y : [S[k] EXCEPT !.start = x, !.end = y].start = x
                                       /\ [S[k] EXCEPT !.start = x, !.end = y].end = y
  <2>1. \A k \in DOMAIN S : S[k] \in Segment
    OBVIOUS
  <2> QED
    BY <2>1 DEF Segment
<1>2. DOMAIN R = 1..(s.last - s.first + 1)
  BY DEF Rebased
<1>3. \A n \in DOMAIN R :
        /\ n \in Nat /\ n >= 1 /\ s.first + n - 1 \in DOMAIN S
        /\ R[n].start = S[s.first + n - 1].start - s.start
        /\ R[n].end = S[s.first + n - 1].end - s.start
  <2> SUFFICES ASSUME NEW n \in DOMAIN R
               PROVE  /\ n \in Nat /\ n >= 1 /\ s.first + n - 1 \in DOMAIN S
                      /\ R[n].start = S[s.first + n - 1].start - s.start
                      /\ R[n].end = S[s.first + n - 1].end - s.start
    OBVIOUS
  <2>1. n \in Nat /\ n >= 1 /\ n <= s.last - s.first + 1
    BY <1>0, <1>2
  <2>2. s.first + n - 1 \in DOMAIN S
    BY <1>0, <2>1
  <2>3. R[n] = [S[s.first + n - 1] EXCEPT !.start = @ - s.start, !.end = @ - s.start]
    BY <1>2 DEF Rebased
  <2> QED
    BY <1>1, <2>1, <2>2, <2>3
<1> HIDE DEF R
<1>4. \A a, b \in DOMAIN S : a < b => S[a].end <= S[b].start
  BY SegmentsApart
<1>5. ASSUME NEW n \in DOMAIN R
      PROVE  /\ R[n].start >= IF n = 1 THEN 0 ELSE R[n - 1].end
             /\ R[n].end <= s.end - s.start
  <2>1. n \in Nat /\ n >= 1 /\ n <= s.last - s.first + 1 /\ s.first + n - 1 \in DOMAIN S
    BY <1>0, <1>2, <1>3
  <2>2. ASSUME n = 1 PROVE R[n].start >= 0
    <3>1. s.first + n - 1 = s.first
      BY <1>0, <2>2
    <3>2. R[n].start = S[s.first].start - S[s.first].start
      BY <1>3, <3>1
    <3> QED
      BY <1>0, <1>1, <2>2, <3>2
  <2>3. ASSUME n # 1 PROVE R[n].start >= R[n - 1].end
    <3>1. n - 1 \in DOMAIN R
      BY <1>0, <1>2, <2>1, <2>3
    <3> DEFINE a == s.first + (n - 1) - 1
               b == s.first + n - 1
    <3>2. a \in DOMAIN S /\ b \in DOMAIN S /\ a < b
      BY <1>0, <1>3, <2>1, <3>1
    <3>3. R[n].start = S[b].start - s.start /\ R[n - 1].end = S[a].end - s.start
      BY <1>3, <3>1
    <3> HIDE DEF a, b
    <3> QED
      BY <1>0, <1>1, <1>4, <2>3, <3>2, <3>3
  <2>4. R[n].end <= s.end - s.start
    <3> DEFINE b == s.first + n - 1
    <3>1. b \in DOMAIN S /\ b <= s.last /\ b \in Nat
      BY <1>0, <2>1
    <3>2. R[n].end = S[b].end - s.start
      BY <1>3
    <3> HIDE DEF b
    <3>3. b = s.last \/ S[b].end <= S[s.last].start
      BY <1>0, <1>4, <3>1
    <3> QED
      BY <1>0, <1>1, <3>1, <3>2, <3>3
  <2> QED
    BY <2>2, <2>3, <2>4
<1>6. Ordered(R, s.end - s.start)
  BY <1>5 DEF Ordered
<1> QED
  BY <1>3, <1>6 DEF R

LEMMA SeriesWell ==
  ASSUME NEW q \in SeriesQuestions, Sliceable(q), NEW parts, parts = Series(q).parts
  PROVE  /\ SlicesWell(q, parts)
         /\ (\A k \in DOMAIN parts : parts[k].window.end <= q.clip.end) => MovesForward(q, parts)
         /\ ~(\A k \in DOMAIN parts : parts[k].window.end <= q.clip.end) =>
              q.audio.segments[Len(q.audio.segments)].end - q.audio.segments[1].start + q.context
                  > q.clip.end - q.clip.start
<1> DEFINE S == q.audio.segments
           P == Slices(S, q.limit)
<1>1. /\ q.audio \in Recording /\ q.limit \in Nat /\ q.context \in Nat
      /\ q.clip.start \in Nat /\ q.clip.end \in Nat
  BY DEF SeriesQuestions
<1>2. /\ S \in Seq(Segment) /\ S # <<>> /\ q.audio.duration \in Nat /\ Ordered(S, q.audio.duration)
      /\ \A i \in DOMAIN S : Fits(S, i, i, q.limit)
  BY <1>1 DEF Recording, Sliceable
<1>3. Len(S) \in Nat /\ Len(S) >= 1 /\ DOMAIN S = 1..Len(S)
      /\ \A k \in DOMAIN S : S[k].start \in Nat /\ S[k].end \in Nat /\ S[k].start < S[k].end
  BY <1>2, SegmentTimes
<1>4. CutFrom(S, q.limit, 1, P)
  BY <1>1, <1>2, <1>3, SlicesCut
<1>5. /\ Len(parts) = Len(P) /\ DOMAIN parts = 1..Len(P) /\ Len(P) \in Nat /\ Len(P) >= 1
      /\ P \in Seq(SliceOf(S))
      /\ \A k \in 1..Len(P) :
           /\ parts[k].slice = P[k] /\ parts[k].said = Rebased(S, P[k])
           /\ parts[k].window = Window(q.clip, P, P[k], q.context)
  BY <1>4, SeriesParts
<1> HIDE DEF P, S
<1>6. \A a, b \in DOMAIN S : a < b => S[a].end <= S[b].start
  BY <1>2, SegmentsApart
<1>7. /\ P[1].first = 1 /\ P[Len(P)].last = Len(S)
      /\ \A k \in 1..(Len(P) - 1) : P[k + 1].first = P[k].last + 1
      /\ \A k \in 1..Len(P) :
           /\ P[k] \in SliceOf(S) /\ P[k].first <= P[k].last /\ Fits(S, P[k].first, P[k].last, q.limit)
           /\ P[k].start = S[P[k].first].start /\ P[k].end = S[P[k].last].end
  <2>1. DOMAIN P = 1..Len(P) /\ \A k \in DOMAIN P : P[k] \in SliceOf(S)
    BY <1>5
  <2> QED
    BY <1>4, <2>1 DEF CutFrom
<1>8. \A k \in 1..Len(P) :
        /\ P[k].first \in DOMAIN S /\ P[k].last \in DOMAIN S /\ P[k].start \in Nat /\ P[k].end \in Nat
  BY <1>7 DEF SliceOf
<1>9. \A k \in 1..Len(P) : S[1].start <= P[k].start /\ P[k].start <= P[k].end /\ P[k].end <= S[Len(S)].end
  <2> SUFFICES ASSUME NEW k \in 1..Len(P)
               PROVE  S[1].start <= P[k].start /\ P[k].start <= P[k].end /\ P[k].end <= S[Len(S)].end
    OBVIOUS
  <2>1. PICK i \in DOMAIN S, j \in DOMAIN S : i = P[k].first /\ j = P[k].last
    BY <1>8
  <2>2. P[k].start = S[i].start /\ P[k].end = S[j].end /\ i <= j
    BY <1>7, <2>1
  <2>3. i \in Nat /\ j \in Nat /\ 1 <= i /\ j <= Len(S) /\ 1 \in DOMAIN S /\ Len(S) \in DOMAIN S
    BY <1>3
  <2>4. S[1].start <= S[i].start
    <3>1. i = 1 \/ S[1].end <= S[i].start
      BY <1>6, <2>3
    <3> QED
      BY <1>3, <2>3, <3>1
  <2>5. S[j].end <= S[Len(S)].end
    <3>1. j = Len(S) \/ S[j].end <= S[Len(S)].start
      BY <1>6, <2>3
    <3> QED
      BY <1>3, <2>3, <3>1
  <2>6. S[i].start <= S[j].end
    <3>1. i = j \/ S[i].end <= S[j].start
      BY <1>6, <2>2, <2>3
    <3> QED
      BY <1>3, <2>3, <3>1
  <2> QED
    BY <2>2, <2>4, <2>5, <2>6
<1>10. P[1].start = S[1].start
  BY <1>5, <1>7
<1>11. \A k \in 1..Len(P) :
         /\ parts[k].window.start = q.clip.start + P[k].start - S[1].start
         /\ parts[k].window.end = q.clip.start + P[k].start - S[1].start + P[k].end - P[k].start + q.context
  <2> SUFFICES ASSUME NEW k \in 1..Len(P)
               PROVE  /\ parts[k].window.start = q.clip.start + P[k].start - S[1].start
                      /\ parts[k].window.end
                            = q.clip.start + P[k].start - S[1].start + P[k].end - P[k].start + q.context
    OBVIOUS
  <2>1. /\ Window(q.clip, P, P[k], q.context).start = q.clip.start + P[k].start - P[1].start
        /\ Window(q.clip, P, P[k], q.context).end
              = q.clip.start + P[k].start - P[1].start + P[k].end - P[k].start + q.context
    BY DEF Window
  <2> QED
    BY <1>5, <1>10, <2>1
<1>12. \A k \in 1..Len(P) :
         /\ Ordered(Rebased(S, P[k]), P[k].end - P[k].start)
         /\ \A n \in DOMAIN Rebased(S, P[k]) :
              /\ P[k].first + n - 1 \in DOMAIN S
              /\ Rebased(S, P[k])[n].start = S[P[k].first + n - 1].start - P[k].start
  BY <1>1, <1>2, <1>7, RebasedOrdered
<1>13. SlicesWell(q, parts)
  <2>1. parts[1].slice.first = 1 /\ parts[Len(parts)].slice.last = Len(S)
    BY <1>5, <1>7
  <2>2. \A k \in 1..(Len(parts) - 1) : parts[k + 1].slice.first = parts[k].slice.last + 1
    <3> SUFFICES ASSUME NEW k \in 1..(Len(parts) - 1)
                 PROVE  parts[k + 1].slice.first = parts[k].slice.last + 1
      OBVIOUS
    <3>1. k \in 1..(Len(P) - 1) /\ k \in 1..Len(P) /\ k + 1 \in 1..Len(P)
      BY <1>5
    <3> QED
      BY <1>5, <1>7, <3>1
  <2>3. \A k \in DOMAIN parts :
          /\ parts[k].slice.end - parts[k].slice.start <= q.limit
          /\ Ordered(parts[k].said, parts[k].slice.end - parts[k].slice.start)
    <3> SUFFICES ASSUME NEW k \in DOMAIN parts
                 PROVE  /\ parts[k].slice.end - parts[k].slice.start <= q.limit
                        /\ Ordered(parts[k].said, parts[k].slice.end - parts[k].slice.start)
      OBVIOUS
    <3>1. k \in 1..Len(P) /\ parts[k].slice = P[k] /\ parts[k].said = Rebased(S, P[k])
      BY <1>5
    <3>2. P[k].end - P[k].start <= q.limit
      BY <1>7, <3>1 DEF Fits
    <3> QED
      BY <1>12, <3>1, <3>2
  <2>4. \A cuts \in SUBSET (1..(Len(S) - 1)) :
          CutsWell(S, cuts, q.limit) => Len(parts) <= Cardinality(cuts) + 1
    BY <1>1, <1>2, <1>4, <1>5, FewestSlices
  <2> QED
    BY <2>1, <2>2, <2>3, <2>4 DEF SlicesWell, S
<1>14. ASSUME \A k \in DOMAIN parts : parts[k].window.end <= q.clip.end
       PROVE  MovesForward(q, parts)
  <2> SUFFICES ASSUME NEW k \in DOMAIN parts
               PROVE  /\ parts[k].window.start >= q.clip.start /\ parts[k].window.end <= q.clip.end
                      /\ \A n \in DOMAIN parts[k].said :
                           parts[k].window.start + parts[k].said[n].start - q.clip.start
                               = S[parts[k].slice.first + n - 1].start - S[1].start
    BY DEF MovesForward, S
  <2>1. k \in 1..Len(P) /\ parts[k].slice = P[k] /\ parts[k].said = Rebased(S, P[k])
    BY <1>5
  <2>2. parts[k].window.start = q.clip.start + P[k].start - S[1].start /\ S[1].start \in Nat /\ P[k].start \in Nat
    BY <1>3, <1>8, <1>11, <2>1
  <2>3. parts[k].window.start >= q.clip.start
    BY <1>1, <1>9, <2>1, <2>2
  <2>4. ASSUME NEW n \in DOMAIN parts[k].said
        PROVE  parts[k].window.start + parts[k].said[n].start - q.clip.start
                   = S[parts[k].slice.first + n - 1].start - S[1].start
    <3>1. PICK m \in DOMAIN S : m = P[k].first + n - 1 /\ Rebased(S, P[k])[n].start = S[m].start - P[k].start
      BY <1>12, <2>1, <2>4
    <3>2. PICK p \in Nat, o \in Nat, c \in Nat, x \in Nat :
            p = P[k].start /\ o = S[1].start /\ c = q.clip.start /\ x = S[m].start
      BY <1>1, <1>3, <2>2
    <3>3. parts[k].said[n].start = x - p /\ parts[k].window.start = c + p - o
      BY <2>1, <2>2, <3>1, <3>2
    <3>4. parts[k].window.start + parts[k].said[n].start - q.clip.start = x - o
      BY <3>2, <3>3
    <3>5. S[parts[k].slice.first + n - 1].start - S[1].start = x - o
      BY <2>1, <3>1, <3>2
    <3> QED
      BY <3>4, <3>5
  <2> QED
    BY <1>14, <2>3, <2>4
<1>15. ASSUME NEW k \in DOMAIN parts, ~(parts[k].window.end <= q.clip.end)
       PROVE  S[Len(S)].end - S[1].start + q.context > q.clip.end - q.clip.start
  <2>1. k \in 1..Len(P) /\ Len(S) \in DOMAIN S /\ 1 \in DOMAIN S
    BY <1>3, <1>5
  <2>2. /\ parts[k].window.end = q.clip.start + P[k].start - S[1].start + P[k].end - P[k].start + q.context
        /\ P[k].end <= S[Len(S)].end
    BY <1>9, <1>11, <2>1
  <2>3. PICK p \in Nat, e \in Nat, o \in Nat, z \in Nat :
          p = P[k].start /\ e = P[k].end /\ o = S[1].start /\ z = S[Len(S)].end
    BY <1>3, <1>8, <2>1
  <2>4. PICK c \in Nat, d \in Nat, x \in Nat : c = q.clip.start /\ d = q.clip.end /\ x = q.context
    BY <1>1
  <2>5. parts[k].window.end = c + p - o + e - p + x /\ e <= z
    BY <2>2, <2>3, <2>4
  <2>6. ~(c + p - o + e - p + x <= d)
    BY <1>15, <2>4, <2>5
  <2>7. z - o + x > d - c
    BY <2>5, <2>6
  <2> QED
    BY <2>3, <2>4, <2>7
<1> QED
  BY <1>13, <1>14, <1>15 DEF S

-----------------------------------------------------------------------------
(* What a rule is asked is answered once, by that rule.                     *)

LEMMA KindOfNothing == Nothing.kind = "nothing" /\ Refused.kind = "refused" /\ Nothing # Refused
BY DEF Nothing, Refused

LEMMA NothingIsSound ==
  ASSUME answer = Nothing
  PROVE  RulesSound
<1>1. answer.kind = "nothing" /\ answer # Refused
  BY KindOfNothing
<1>2. VideoSound
  BY <1>1 DEF VideoSound, MasterVideoSound, SceneVideoSound
<1>3. SeriesSound /\ RoutingSound
  BY <1>1 DEF SeriesSound, RoutingSound
<1>4. NarrationSound
  BY <1>1 DEF NarrationSound, DeliverySound, EvidenceSound
<1>5. AnswersSound
  BY DEF AnswersSound, TruthTold, SpeechKept, VectorsKept, PlanKept, TalkingKept, KeptAnswer, Answered
<1> QED
  BY <1>2, <1>3, <1>4, <1>5 DEF RulesSound

LEMMA AnsweredOnce ==
  ASSUME answer # Nothing, [Answer]_callVars
  PROVE  UNCHANGED callVars
BY DEF Answer, Assemble, PlanSeries, SelectReference, Route, Suggest, Deliver, Compose, Verify, Observe,
       TranscribeSpeech, Listen, DescribeFrame, Embed, PlanScenes, Synthesize, Talk

LEMMA RulesUnchanged ==
  ASSUME RulesSound, UNCHANGED callVars
  PROVE  RulesSound'
<1>1. VideoSound' <=> VideoSound
  BY DEF VideoSound, MasterVideoSound, SceneVideoSound, callVars
<1>2. (SeriesSound' <=> SeriesSound) /\ (RoutingSound' <=> RoutingSound)
  BY DEF SeriesSound, RoutingSound, callVars
<1>3. NarrationSound' <=> NarrationSound
  BY DEF NarrationSound, DeliverySound, EvidenceSound, callVars, Delivered, Useful, InTime, Fair
<1>4. AnswersSound' <=> AnswersSound
  <2>0. asked' = asked /\ answer' = answer
    BY DEF callVars
  <2>1. TruthTold' <=> TruthTold
    BY <2>0 DEF TruthTold, Answered
  <2>2. SpeechKept' <=> SpeechKept
    BY <2>0 DEF SpeechKept, KeptAnswer, Answered
  <2>3. (VectorsKept' <=> VectorsKept) /\ (PlanKept' <=> PlanKept)
    BY <2>0 DEF VectorsKept, PlanKept, KeptAnswer, Answered
  <2>4. TalkingKept' <=> TalkingKept
    BY <2>0 DEF TalkingKept, Answered
  <2> QED
    BY <2>1, <2>2, <2>3, <2>4 DEF AnswersSound
<1> QED
  BY <1>1, <1>2, <1>3, <1>4 DEF RulesSound

\* The kinds of answers that videos, routes and narrations owe something.
Owing == {"master video", "scene video", "route", "delivery", "suggested", "voice", "verdict", "observed"}

LEMMA OthersOwe ==
  ASSUME answer'.kind \notin Owing, asked'.rule \notin {"deliver", "suggest"}
  PROVE  VideoSound' /\ RoutingSound' /\ NarrationSound'
<1>1. VideoSound'
  BY DEF VideoSound, MasterVideoSound, SceneVideoSound, Owing
<1>2. RoutingSound'
  BY DEF RoutingSound, Owing
<1>3. NarrationSound'
  BY DEF NarrationSound, DeliverySound, EvidenceSound, Owing
<1> QED
  BY <1>1, <1>2, <1>3

-----------------------------------------------------------------------------
(* A recording in slices, and the choice of a clip.                         *)

ReferenceClip == [id : Nat, start : Nat, end : Nat, candidate : BOOLEAN, assessed : BOOLEAN, clean : BOOLEAN,
          face : Nat, mouth : Nat, quality : Nat, starts : STRING, ends : STRING, moods : SUBSET STRING]

ReferenceQuestions ==
    [rule : {"reference"}, clips : SUBSET ReferenceClip,
     wish : [least : Nat, starts : STRING, ends : STRING, clean : BOOLEAN, moods : SUBSET STRING]]

LEMMA SeriesAnswers ==
  ASSUME asked \in SeriesQuestions, Answer
  PROVE  RulesSound'
<1>0. asked.rule = "series"
  BY DEF SeriesQuestions
<1>1. PlanSeries
  BY <1>0 DEF Answer, Assemble, SelectReference, Route, Suggest, Deliver, Compose, Verify, Observe,
              TranscribeSpeech, Listen, DescribeFrame, Embed, PlanScenes, Synthesize, Talk
<1> DEFINE v == Series(asked)
           Fine0(w) == \A k \in DOMAIN w.parts : w.parts[k].window.end <= asked.clip.end
           Results == {w \in {Series(q) : q \in {r \in {asked} : Sliceable(r)}} : Fine0(w)}
<1>2. asked' = asked /\ (answer' \in Results \/ (Results = {} /\ answer' = Refused))
  BY <1>1 DEF PlanSeries, AnswersOneOf
<1>3. v.kind = "series"
  BY DEF Series
<1>4. Sliceable(asked) => /\ SlicesWell(asked, v.parts)
                          /\ Fine0(v) => MovesForward(asked, v.parts)
                          /\ ~Fine0(v) =>
                               asked.audio.segments[Len(asked.audio.segments)].end
                                   - asked.audio.segments[1].start + asked.context
                                   > asked.clip.end - asked.clip.start
  BY SeriesWell
<1> HIDE DEF v
<1>5. answer' \in Results => answer' = v /\ Sliceable(asked) /\ Fine0(v)
  BY DEF v
<1>6. Results = {} /\ Sliceable(asked) => ~Fine0(v)
  BY DEF v
<1>7. answer'.kind \in {"series", "refused"} /\ answer' # Nothing
  BY <1>2, <1>3, <1>5, KindOfNothing
<1>8. SeriesSound'
  <2>1. answer'.kind = "series" => SlicesWell(asked', answer'.parts) /\ MovesForward(asked', answer'.parts)
    BY <1>2, <1>4, <1>5, KindOfNothing
  <2>2. asked'.rule = "series" /\ answer' = Refused /\ Sliceable(asked') =>
          asked'.audio.segments[Len(asked'.audio.segments)].end - asked'.audio.segments[1].start
              + asked'.context > asked'.clip.end - asked'.clip.start
    BY <1>2, <1>3, <1>4, <1>5, <1>6, KindOfNothing
  <2>3. answer'.kind # "reference"
    BY <1>7
  <2> QED
    BY <2>1, <2>2, <2>3 DEF SeriesSound
<1>9. VideoSound' /\ RoutingSound' /\ NarrationSound'
  BY <1>0, <1>2, <1>7, OthersOwe DEF Owing
<1>10. AnswersSound'
  BY <1>0, <1>2, <1>7 DEF AnswersSound, TruthTold, SpeechKept, VectorsKept, PlanKept, TalkingKept, KeptAnswer, Answered
<1> QED
  BY <1>8, <1>9, <1>10 DEF RulesSound

LEMMA ReferenceAnswers ==
  ASSUME asked \in ReferenceQuestions, Answer
  PROVE  RulesSound'
<1>0. asked.rule = "reference" /\ asked.clips \in SUBSET ReferenceClip
  BY DEF ReferenceQuestions
<1>1. SelectReference
  BY <1>0 DEF Answer, Assemble, PlanSeries, Route, Suggest, Deliver, Compose, Verify, Observe,
              TranscribeSpeech, Listen, DescribeFrame, Embed, PlanScenes, Synthesize, Talk
<1>2. asked' = asked
  BY <1>1 DEF SelectReference, AnswersOneOf
<1>3. \/ \E c \in Selected(asked.clips, asked.wish) : answer' = [kind |-> "reference", id |-> c.id]
      \/ answer' = Refused
  BY <1>1 DEF SelectReference, AnswersOneOf
<1>4. answer'.kind \in {"reference", "refused"} /\ answer' # Nothing
  BY <1>3, KindOfNothing DEF Nothing
<1>5. answer'.kind = "reference" =>
        \E c \in asked.clips : c.id = answer'.id /\ Selected({c}, asked.wish) = {c}
  <2> SUFFICES ASSUME answer'.kind = "reference"
               PROVE  \E c \in asked.clips : c.id = answer'.id /\ Selected({c}, asked.wish) = {c}
    OBVIOUS
  <2>1. PICK c \in Selected(asked.clips, asked.wish) : answer' = [kind |-> "reference", id |-> c.id]
    BY <1>3, KindOfNothing
  <2>2. c \in asked.clips /\ Suits(c, asked.wish)
    BY DEF Selected
  <2>3. c.id \in Nat /\ c.id <= c.id
    BY <1>0, <2>2 DEF ReferenceClip
  <2>4. Selected({c}, asked.wish) = {c}
    BY <2>2, <2>3 DEF Selected
  <2> QED
    BY <2>1, <2>2, <2>4
<1>6. SeriesSound'
  BY <1>0, <1>2, <1>4, <1>5 DEF SeriesSound
<1>7. VideoSound' /\ RoutingSound' /\ NarrationSound'
  BY <1>0, <1>2, <1>4, OthersOwe DEF Owing
<1>8. AnswersSound'
  BY <1>0, <1>2, <1>4 DEF AnswersSound, TruthTold, SpeechKept, VectorsKept, PlanKept, TalkingKept, KeptAnswer, Answered
<1> QED
  BY <1>6, <1>7, <1>8 DEF RulesSound

-----------------------------------------------------------------------------
(* What adapters keep of any answer, and say of none.                       *)

Net == [lost : {"no", "silent", "slow", "refused", "broken"}, status : Int]

Sent(rule, document) ==
    [rule : {rule}, settings : [flaws : SUBSET STRING, url : STRING], input : SUBSET STRING,
     net : Net, document : document]

TranscribeQuestions ==
    Sent("transcribe", [text : BOOLEAN, segments : Seq([text : BOOLEAN, start : Int, end : Int])])

DescribeQuestions ==
    Sent("describe", [texts : Nat, fields : STRING, scores : SUBSET Int])

\* The vector of an item is of the text that the item names.
VectorItem ==
    {i \in [index : Int, size : Nat, finite : BOOLEAN, vector : Int] : i.vector = i.index + 1}

EmbedQuestions ==
    [rule : {"embed"}, settings : [flaws : SUBSET STRING, url : STRING], input : SUBSET STRING, net : Net,
     document : Seq(VectorItem), count : Nat \ {0}, dimension : Nat]

SceneProposal ==
    [id : Nat, order : Int, fields : BOOLEAN, values : BOOLEAN, requires : STRING, reason : BOOLEAN,
     graphic : STRING, preferred : Seq(STRING), fallback : SUBSET STRING, says : SUBSET STRING]

PlanQuestions ==
    [rule : {"plan"}, settings : [flaws : SUBSET STRING, url : STRING], input : SUBSET STRING, net : Net,
     ruled : BOOLEAN, tutorial : BOOLEAN, asksFor : SUBSET STRING,
     document : [finished : BOOLEAN, texts : Nat, fence : STRING, json : BOOLEAN, scenes : Seq(SceneProposal)]]

Whether(sent, net, error) ==
    /\ error = "input" => ~sent
    /\ sent <=> error \notin {"configuration", "input"}
    /\ sent /\ net.lost # "no" => error \in {"timeout", "connection"}
    /\ error \in {"authentication", "rate", "http"} => net.status \in (100..599) \ (200..299)

\* A request is answered in full, or its error tells whether it was sent.
LEMMA ExchangeTells ==
  ASSUME NEW q, q.net \in Net, NEW settings, NEW input, NEW lost \in {"timeout", "connection"},
         NEW kept, kept.kind # "failed" \/ kept = Malformed,
         NEW a, a = Exchange(q, settings, input, lost, kept)
  PROVE  /\ a = kept \/ a.kind = "failed"
         /\ a.kind = "failed" => Whether(a.sent, q.net, a.error)
<1>1. /\ \A e : Failed(e, FALSE).kind = "failed" /\ Failed(e, FALSE).error = e /\ ~Failed(e, FALSE).sent
      /\ \A e : Failed(e, TRUE).kind = "failed" /\ Failed(e, TRUE).error = e /\ Failed(e, TRUE).sent
  BY DEF Failed
<1>2. q.net.status \in Int /\ q.net.lost \in {"no", "silent", "slow", "refused", "broken"}
  BY DEF Net
<1> DEFINE p == Posted(q, settings, input, lost)
<1>3. \/ p = Failed("configuration", FALSE)
      \/ p = Failed("input", FALSE)
      \/ q.net.lost # "no" /\ p = Failed(lost, TRUE)
      \/ /\ q.net.lost = "no" /\ StatusError(q.net.status) # "none"
         /\ p = Failed(StatusError(q.net.status), TRUE)
      \/ q.net.lost = "no" /\ p = [kind |-> "answered"]
  <2>1. CASE Wrong(q.settings) \cap settings # {}
    BY <2>1 DEF Posted
  <2>2. CASE Wrong(q.settings) \cap settings = {} /\ q.input \cap input # {}
    BY <2>2 DEF Posted
  <2>3. CASE Wrong(q.settings) \cap settings = {} /\ q.input \cap input = {} /\ q.net.lost # "no"
    BY <2>3 DEF Posted
  <2>4. CASE /\ Wrong(q.settings) \cap settings = {} /\ q.input \cap input = {}
             /\ q.net.lost = "no" /\ StatusError(q.net.status) # "none"
    BY <2>4 DEF Posted
  <2>5. CASE /\ Wrong(q.settings) \cap settings = {} /\ q.input \cap input = {}
             /\ q.net.lost = "no" /\ StatusError(q.net.status) = "none"
    BY <2>5 DEF Posted
  <2> QED
    BY <2>1, <2>2, <2>3, <2>4, <2>5
<1>4. a = IF p.kind = "answered" THEN kept ELSE p
  BY DEF Exchange
<1> HIDE DEF p
<1>5. CASE p = Failed("configuration", FALSE) \/ p = Failed("input", FALSE)
  <2>1. p.kind = "failed" /\ p.error \in {"configuration", "input"} /\ ~p.sent
    BY <1>1, <1>5
  <2>2. a = p
    BY <1>4, <2>1
  <2> QED
    BY <2>1, <2>2 DEF Whether
<1>6. CASE q.net.lost # "no" /\ p = Failed(lost, TRUE)
  <2>1. p.kind = "failed" /\ p.error \in {"timeout", "connection"} /\ p.sent
    BY <1>1, <1>6
  <2>2. a = p
    BY <1>4, <2>1
  <2> QED
    BY <2>1, <2>2 DEF Whether
<1>7. CASE /\ q.net.lost = "no" /\ StatusError(q.net.status) # "none"
           /\ p = Failed(StatusError(q.net.status), TRUE)
  <2>1. a = p /\ a.kind = "failed" /\ a.error = StatusError(q.net.status) /\ a.sent
    BY <1>1, <1>4, <1>7
  <2>2. /\ StatusError(q.net.status) \in {"response", "authentication", "rate", "http", "none"}
        /\ StatusError(q.net.status) \in {"authentication", "rate", "http"} =>
             q.net.status \in (100..599) \ (200..299)
    BY <1>2 DEF StatusError
  <2> QED
    BY <1>7, <2>1, <2>2 DEF Whether
<1>8. CASE q.net.lost = "no" /\ p = [kind |-> "answered"]
  <2>1. a = kept
    BY <1>4, <1>8
  <2>2. kept = Malformed => kept.kind = "failed" /\ kept.error = "response" /\ kept.sent
    BY <1>1 DEF Malformed
  <2> QED
    BY <1>8, <2>1, <2>2 DEF Whether
<1> QED
  BY <1>3, <1>5, <1>6, <1>7, <1>8

\* What is left to show of the answer to a request.
LEMMA RequestSound ==
  ASSUME NEW rule \in {"transcribe", "describe", "embed", "plan"}, asked.rule = rule, asked' = asked,
         answer'.kind \in {"failed", "transcript", "description", "vectors", "plan"},
         answer'.kind = "failed" => Whether(answer'.sent, asked.net, answer'.error),
         VectorsKept', PlanKept'
  PROVE  RulesSound'
<1>1. answer' # Nothing /\ answer' # Refused
  BY KindOfNothing
<1>2. VideoSound' /\ RoutingSound' /\ NarrationSound'
  BY OthersOwe DEF Owing
<1>3. SeriesSound'
  BY <1>1 DEF SeriesSound
<1>4. TruthTold' /\ SpeechKept' /\ TalkingKept'
  BY DEF TruthTold, Answered, SpeechKept, TalkingKept, Whether
<1> QED
  BY <1>2, <1>3, <1>4 DEF RulesSound, AnswersSound

LEMMA TranscribeAnswers ==
  ASSUME asked \in TranscribeQuestions, Answer
  PROVE  RulesSound'
<1>0. asked.rule = "transcribe" /\ asked.net \in Net
  BY DEF TranscribeQuestions, Sent
<1>1. TranscribeSpeech
  BY <1>0 DEF Answer, Assemble, PlanSeries, SelectReference, Route, Suggest, Deliver, Compose, Verify,
              Observe, Listen, DescribeFrame, Embed, PlanScenes, Synthesize, Talk
<1> DEFINE t == Transcript(asked.document)
<1>2. t.kind = "transcript" \/ t = Malformed
  BY DEF Transcript
<1>3. Malformed.kind = "failed"
  BY DEF Malformed, Failed
<1>4. asked' = asked /\ answer' = Exchange(asked, AsrSettings, AsrInput, Unanswered(asked.net.lost), t)
  BY <1>1 DEF TranscribeSpeech
<1>5. Unanswered(asked.net.lost) \in {"timeout", "connection"}
  BY DEF Unanswered
<1> HIDE DEF t
<1>6. /\ answer' = t \/ answer'.kind = "failed"
      /\ answer'.kind = "failed" => Whether(answer'.sent, asked.net, answer'.error)
  BY <1>0, <1>2, <1>4, <1>5, ExchangeTells
<1>7. answer'.kind \in {"failed", "transcript"}
  BY <1>2, <1>3, <1>6
<1>8. VectorsKept' /\ PlanKept'
  BY <1>7 DEF VectorsKept, PlanKept, KeptAnswer
<1> QED
  BY <1>0, <1>4, <1>6, <1>7, <1>8, RequestSound

LEMMA DescribeAnswers ==
  ASSUME asked \in DescribeQuestions, Answer
  PROVE  RulesSound'
<1>0. asked.rule = "describe" /\ asked.net \in Net
  BY DEF DescribeQuestions, Sent
<1>1. DescribeFrame
  BY <1>0 DEF Answer, Assemble, PlanSeries, SelectReference, Route, Suggest, Deliver, Compose, Verify,
              Observe, TranscribeSpeech, Listen, Embed, PlanScenes, Synthesize, Talk
<1> DEFINE t == Described(asked.document)
<1>2. t.kind = "description" \/ t = Malformed
  BY DEF Described
<1>3. Malformed.kind = "failed"
  BY DEF Malformed, Failed
<1>4. asked' = asked /\ answer' = Exchange(asked, VisionSettings, VisionInput, Unanswered(asked.net.lost), t)
  BY <1>1 DEF DescribeFrame
<1>5. Unanswered(asked.net.lost) \in {"timeout", "connection"}
  BY DEF Unanswered
<1> HIDE DEF t
<1>6. /\ answer' = t \/ answer'.kind = "failed"
      /\ answer'.kind = "failed" => Whether(answer'.sent, asked.net, answer'.error)
  BY <1>0, <1>2, <1>4, <1>5, ExchangeTells
<1>7. answer'.kind \in {"failed", "description"}
  BY <1>2, <1>3, <1>6
<1>8. VectorsKept' /\ PlanKept'
  BY <1>7 DEF VectorsKept, PlanKept, KeptAnswer
<1> QED
  BY <1>0, <1>4, <1>6, <1>7, <1>8, RequestSound

\* Each place of a batch is the index of just the item that is taken for it.
LEMMA ByIndexIs ==
  ASSUME NEW items \in Seq(VectorItem), NEW count \in Nat, Len(items) = count,
         {i.index : i \in Range(items)} = 0..(count - 1)
  PROVE  /\ Len(ByIndex(items)) = count
         /\ \A k \in DOMAIN ByIndex(items) : ByIndex(items)[k] = k
<1>1. DOMAIN items = 1..count /\ Len(items) \in Nat
  OBVIOUS
<1>2. \A i \in Range(items) : i \in VectorItem
  BY DEF Range
<1>3. ASSUME NEW k \in 1..count
      PROVE  (CHOOSE i \in Range(items) : i.index = k - 1).vector = k
  <2>1. k - 1 \in 0..(count - 1)
    BY <1>3
  <2>2. \E i \in Range(items) : i.index = k - 1
    BY <2>1
  <2> DEFINE i == CHOOSE j \in Range(items) : j.index = k - 1
  <2>3. i \in Range(items) /\ i.index = k - 1
    BY <2>2
  <2> HIDE DEF i
  <2>4. i.vector = i.index + 1
    BY <1>2, <2>3 DEF VectorItem
  <2>5. i.vector = k
    BY <2>3, <2>4
  <2> QED
    BY <2>5 DEF i
<1> DEFINE V(k) == (CHOOSE i \in Range(items) : i.index = k - 1).vector
<1>4. ByIndex(items) = [k \in 1..count |-> V(k)]
  BY <1>1 DEF ByIndex
<1>5. \A k \in 1..count : V(k) = k
  BY <1>3
<1> HIDE DEF V
<1>6. ByIndex(items) = [k \in 1..count |-> k]
  BY <1>4, <1>5
<1>7. [k \in 1..count |-> k] \in Seq(Nat) /\ Len([k \in 1..count |-> k]) = count
  OBVIOUS
<1> QED
  BY <1>6, <1>7

LEMMA EmbedAnswers ==
  ASSUME asked \in EmbedQuestions, Answer
  PROVE  RulesSound'
<1>0. asked.rule = "embed" /\ asked.net \in Net /\ asked.document \in Seq(VectorItem) /\ asked.count \in Nat
  BY DEF EmbedQuestions
<1>1. Embed
  BY <1>0 DEF Answer, Assemble, PlanSeries, SelectReference, Route, Suggest, Deliver, Compose, Verify,
              Observe, TranscribeSpeech, Listen, DescribeFrame, PlanScenes, Synthesize, Talk
<1> DEFINE t == Vectors(asked.document, asked.count, asked.dimension)
<1>2. \/ t = Malformed
      \/ /\ t.kind = "vectors" /\ t.vectors = ByIndex(asked.document)
         /\ Len(asked.document) = asked.count
         /\ {i.index : i \in Range(asked.document)} = 0..(asked.count - 1)
  BY DEF Vectors
<1>3. Malformed.kind = "failed"
  BY DEF Malformed, Failed
<1>4. asked' = asked
      /\ answer' = Exchange(asked, EmbeddingSettings, EmbeddingInput, Unanswered(asked.net.lost), t)
  BY <1>1 DEF Embed
<1>5. Unanswered(asked.net.lost) \in {"timeout", "connection"}
  BY DEF Unanswered
<1> HIDE DEF t
<1>6. /\ answer' = t \/ answer'.kind = "failed"
      /\ answer'.kind = "failed" => Whether(answer'.sent, asked.net, answer'.error)
  <2>1. t.kind # "failed" \/ t = Malformed
    BY <1>2
  <2>2. asked.net \in Net
    BY <1>0
  <2> QED
    BY <1>4, <1>5, <2>1, <2>2, ExchangeTells
<1>7. answer'.kind \in {"failed", "vectors"}
  BY <1>2, <1>3, <1>6
<1>8. VectorsKept'
  <2> SUFFICES ASSUME answer'.kind = "vectors"
               PROVE  /\ Len(answer'.vectors) = asked.count
                      /\ \A k \in DOMAIN answer'.vectors : answer'.vectors[k] = k
    BY <1>4 DEF VectorsKept
  <2>1. /\ answer'.vectors = ByIndex(asked.document) /\ Len(asked.document) = asked.count
        /\ {i.index : i \in Range(asked.document)} = 0..(asked.count - 1)
    BY <1>2, <1>3, <1>6
  <2> QED
    BY <1>0, <2>1, ByIndexIs
<1>9. PlanKept'
  BY <1>7 DEF PlanKept
<1> QED
  BY <1>0, <1>4, <1>6, <1>7, <1>8, <1>9, RequestSound

\* Real material comes before other kinds, so it comes first where it comes at all.
LEMMA RealLeads ==
  ASSUME NEW s \in SceneProposal, RealFirst(s), (Range(s.preferred) \cup s.fallback) \cap Real # {}
  PROVE  s.preferred[1] \in Real \/ (s.requires = "explanatory" /\ s.preferred[1] = "words")
<1>1. s.preferred \in Seq(STRING)
  BY DEF SceneProposal
<1>2. CASE Range(s.preferred) \cap Real # {}
  <2>1. PICK j \in DOMAIN s.preferred : s.preferred[j] \in Real
    BY <1>2 DEF Range
  <2>2. 1 \in DOMAIN s.preferred /\ ~(j < 1)
    BY <1>1
  <2> QED
    BY <2>1, <2>2 DEF RealFirst
<1>3. CASE Range(s.preferred) \cap Real = {}
  BY <1>3 DEF RealFirst
<1> QED
  BY <1>2, <1>3

LEMMA PlanAnswers ==
  ASSUME asked \in PlanQuestions, Answer
  PROVE  RulesSound'
<1>0. /\ asked.rule = "plan" /\ asked.net \in Net /\ asked.document.scenes \in Seq(SceneProposal)
      /\ asked.asksFor \in SUBSET STRING
  BY DEF PlanQuestions
<1>1. PlanScenes
  BY <1>0 DEF Answer, Assemble, PlanSeries, SelectReference, Route, Suggest, Deliver, Compose, Verify,
              Observe, TranscribeSpeech, Listen, DescribeFrame, Embed, Synthesize, Talk
<1> DEFINE t == Planned(asked)
<1>2. \/ t = Malformed
      \/ /\ t.kind = "plan" /\ t.scenes = asked.document.scenes
         /\ WholeAnswer(asked.document) /\ InOneOrder(asked.document.scenes)
         /\ \A s \in Range(asked.document.scenes) : RealFirst(s) /\ ~Leaks(asked, s)
  BY DEF Planned
<1>3. Malformed.kind = "failed"
  BY DEF Malformed, Failed
<1>4. asked' = asked
      /\ answer' = Exchange(asked, PlannerSettings, PlannerInput, PlanUnanswered(asked.net.lost), t)
  BY <1>1 DEF PlanScenes
<1>5. PlanUnanswered(asked.net.lost) \in {"timeout", "connection"}
  BY DEF PlanUnanswered
<1> HIDE DEF t
<1>6. /\ answer' = t \/ answer'.kind = "failed"
      /\ answer'.kind = "failed" => Whether(answer'.sent, asked.net, answer'.error)
  BY <1>0, <1>2, <1>4, <1>5, ExchangeTells
<1>7. answer'.kind \in {"failed", "plan"}
  BY <1>2, <1>3, <1>6
<1>8. VectorsKept'
  BY <1>7 DEF VectorsKept
<1>9. PlanKept'
  <2> SUFFICES ASSUME answer'.kind = "plan" PROVE PlanKept'
    BY DEF PlanKept
  <2>1. /\ answer'.scenes = asked.document.scenes
        /\ WholeAnswer(asked.document) /\ InOneOrder(asked.document.scenes)
        /\ \A s \in Range(asked.document.scenes) : RealFirst(s) /\ ~Leaks(asked, s)
    BY <1>2, <1>3, <1>6
  <2>2. asked.document.finished
    BY <2>1 DEF WholeAnswer
  <2>3. ASSUME NEW k \in DOMAIN asked.document.scenes
        PROVE  LET scene == asked.document.scenes[k]
               IN  /\ scene.order = k - 1
                   /\ (Range(scene.preferred) \cup scene.fallback) \cap Real # {} =>
                         \/ scene.preferred[1] \in Real
                         \/ scene.requires = "explanatory" /\ scene.preferred[1] = "words"
                   /\ "workflow" \in scene.says =>
                         "workflow" \in asked.asksFor \/ asked.tutorial \/ ~asked.ruled
    <3> DEFINE s == asked.document.scenes[k]
    <3>1. s \in SceneProposal /\ s \in Range(asked.document.scenes)
      BY <1>0 DEF Range
    <3>2. s.order = k - 1
      BY <2>1 DEF InOneOrder
    <3> HIDE DEF s
    <3>3. RealFirst(s) /\ ~Leaks(asked, s)
      BY <2>1, <3>1
    <3>4. (Range(s.preferred) \cup s.fallback) \cap Real # {} =>
            s.preferred[1] \in Real \/ (s.requires = "explanatory" /\ s.preferred[1] = "words")
      BY <3>1, <3>3, RealLeads
    <3>5. "workflow" \in s.says => "workflow" \in asked.asksFor \/ asked.tutorial \/ ~asked.ruled
      BY <3>3 DEF Leaks
    <3> QED
      BY <3>2, <3>4, <3>5 DEF s
  <2> QED
    BY <1>4, <2>1, <2>2, <2>3 DEF PlanKept
<1> QED
  BY <1>0, <1>4, <1>6, <1>7, <1>8, <1>9, RequestSound

SpeechQuestions ==
    [rule : {"synthesize"}, reference : BOOLEAN, input : SUBSET STRING, missing : SUBSET STRING,
     lost : {"no", "timeout", "system", "other"}, file : {"sound", "empty", "none"}]

LEMMA SpeechAnswers ==
  ASSUME asked \in SpeechQuestions, Answer
  PROVE  RulesSound'
<1>0. asked.rule = "synthesize" /\ "net" \notin DOMAIN asked
  BY DEF SpeechQuestions
<1>1. Synthesize
  BY <1>0 DEF Answer, Assemble, PlanSeries, SelectReference, Route, Suggest, Deliver, Compose, Verify,
              Observe, TranscribeSpeech, Listen, DescribeFrame, Embed, PlanScenes, Talk
<1>2. asked' = asked /\ answer' = Voiced(asked)
  BY <1>1 DEF Synthesize
<1>3. \/ answer' = Failed("configuration", FALSE) \/ answer' = Failed("input", FALSE)
      \/ answer' = Failed("timeout", TRUE) \/ answer' = Failed("connection", TRUE)
      \/ answer' = Failed("response", TRUE) \/ answer' = [kind |-> "spoken"]
  BY <1>2 DEF Voiced
<1>4. /\ \A e : Failed(e, FALSE).kind = "failed" /\ Failed(e, FALSE).error = e /\ ~Failed(e, FALSE).sent
      /\ \A e : Failed(e, TRUE).kind = "failed" /\ Failed(e, TRUE).error = e /\ Failed(e, TRUE).sent
  BY DEF Failed
<1>5. /\ answer'.kind \in {"failed", "spoken"}
      /\ answer'.kind = "failed" /\ answer'.error = "input" => ~answer'.sent
  <2>1. CASE answer' = Failed("configuration", FALSE) \/ answer' = Failed("input", FALSE)
    BY <1>4, <2>1
  <2>2. CASE \/ answer' = Failed("timeout", TRUE) \/ answer' = Failed("connection", TRUE)
             \/ answer' = Failed("response", TRUE)
    <3>1. answer'.kind = "failed" /\ answer'.error \in {"timeout", "connection", "response"}
      BY <1>4, <2>2
    <3> QED
      BY <3>1
  <2>3. CASE answer' = [kind |-> "spoken"]
    BY <2>3
  <2> QED
    BY <1>3, <2>1, <2>2, <2>3
<1>6. answer' # Nothing /\ answer' # Refused
  BY <1>5, KindOfNothing
<1>7. VideoSound' /\ RoutingSound' /\ NarrationSound'
  BY <1>0, <1>2, <1>5, OthersOwe DEF Owing
<1>8. SeriesSound'
  BY <1>5, <1>6 DEF SeriesSound
<1>9. TruthTold'
  BY <1>0, <1>2, <1>5 DEF TruthTold
<1>10. SpeechKept' /\ VectorsKept' /\ PlanKept' /\ TalkingKept'
  BY <1>0, <1>2, <1>5 DEF SpeechKept, VectorsKept, PlanKept, TalkingKept
<1> QED
  BY <1>7, <1>8, <1>9, <1>10 DEF RulesSound, AnswersSound

-----------------------------------------------------------------------------
(* A Talking video of the words, from the first to the last.                *)

TalkQuestions ==
    [rule : {"talk"}, settings : SUBSET STRING, input : SUBSET STRING, closeout : BOOLEAN,
     narration : Nat, last : Nat, trail : Nat, reference : Nat, raw : Nat,
     breaks : {"nothing", "stage", "audio", "model", "probe", "deliver", "copy"},
     how : {"exit", "timeout", "missing", "empty"}]

LEMMA AnswerNumbers ==
  /\ Frame \in Nat /\ Frame > 0 /\ ModelWindow \in Nat /\ ModelWindow > 0
  /\ Lead \in Nat /\ Short \in Nat
BY AnswersAssumption

LEMMA SmallerOf ==
  ASSUME NEW a \in Int, NEW b \in Int
  PROVE  Min({a, b}) = IF a <= b THEN a ELSE b
<1>1. \E x \in {a, b} : \A y \in {a, b} : x <= y
  OBVIOUS
<1>2. Min({a, b}) \in {a, b} /\ \A y \in {a, b} : Min({a, b}) <= y
  BY <1>1 DEF Min
<1> QED
  BY <1>2

LEMMA RoundsUp ==
  ASSUME NEW n \in Nat, NEW by \in Nat, by > 0
  PROVE  RoundedUp(n, by) \in Nat /\ RoundedUp(n, by) * by >= n
<1> DEFINE d == (-n) \div by
<1>1. d \in Int /\ by * d <= -n /\ d <= 0
  OBVIOUS
<1>2. RoundedUp(n, by) = -d
  BY DEF RoundedUp
<1> HIDE DEF d
<1>3. (-d) * by = -(by * d)
  BY <1>1
<1> QED
  BY <1>1, <1>2, <1>3

\* The model is driven for at least what it is given.
LEMMA DrivenIs ==
  ASSUME NEW q \in TalkQuestions
  PROVE  LET c == ModelContext(q)
         IN  /\ c.delivery \in Nat /\ c.lead \in Nat /\ c.trail \in Nat
             /\ c.lead = (IF q.closeout THEN Lead ELSE 0)
             /\ Driven(q) \in Nat /\ Driven(q) >= c.lead + c.delivery + c.trail
<1> DEFINE c == ModelContext(q)
           n == c.lead + c.delivery + c.trail
<1>1. /\ c.delivery \in Nat /\ c.lead \in Nat /\ c.trail \in Nat
      /\ c.lead = (IF q.closeout THEN Lead ELSE 0)
  BY AnswerNumbers DEF ModelContext, TalkQuestions
<1>2. Driven(q) = ModelLength(n)
  BY DEF Driven
<1> HIDE DEF c
<1>3. n \in Nat
  BY <1>1
<1> HIDE DEF n
<1> DEFINE f == RoundedUp(n, Frame)
           w == RoundedUp(f, ModelWindow)
<1>4. f \in Nat /\ f * Frame >= n
  BY <1>3, AnswerNumbers, RoundsUp
<1> HIDE DEF f
<1>5. w \in Nat /\ w * ModelWindow >= f
  BY <1>4, AnswerNumbers, RoundsUp
<1>6. ModelLength(n) = w * ModelWindow * Frame
  BY DEF ModelLength, f
<1> HIDE DEF w
<1>7. \A x, y, z \in Nat : x >= y => x * z \in Nat /\ x * z >= y * z
  OBVIOUS
<1>8. w * ModelWindow \in Nat
  BY <1>5, AnswerNumbers
<1>9. w * ModelWindow * Frame \in Nat /\ w * ModelWindow * Frame >= f * Frame
  BY <1>4, <1>5, <1>7, <1>8, AnswerNumbers
<1>10. w * ModelWindow * Frame >= n
  <2> DEFINE x == w * ModelWindow * Frame
             y == f * Frame
  <2>1. x \in Nat /\ x >= y /\ y \in Nat /\ y >= n
    BY <1>4, <1>9, AnswerNumbers
  <2> HIDE DEF x, y
  <2>2. x >= n
    BY <1>3, <2>1
  <2> QED
    BY <2>2 DEF x
<1>11. n = c.lead + c.delivery + c.trail
  BY DEF n
<1> QED
  BY <1>1, <1>2, <1>6, <1>9, <1>10, <1>11 DEF c

\* What is delivered of a raw video that is long enough.
LEMMA DeliveredIs ==
  ASSUME NEW q \in TalkQuestions, ContextStands(q), q.closeout => ~(q.reference < Driven(q)),
         CoversInput(q)
  PROVE  LET p == DeliveredPart(q)
         IN  /\ p.from = (IF q.closeout THEN Lead ELSE 0)
             /\ p.shown + Short >= ModelContext(q).delivery /\ p.held <= Short
             /\ p.from + p.shown <= q.raw
             /\ q.closeout => p.held = 0 /\ Staged(q) = Driven(q)
<1>0. q.raw \in Nat /\ q.reference \in Nat /\ q.narration \in Nat /\ Short \in Nat
  BY AnswerNumbers DEF TalkQuestions
<1>1. PICK delivery \in Nat, lead \in Nat, trail \in Nat, driven \in Nat :
        /\ delivery = ModelContext(q).delivery /\ lead = ModelContext(q).lead /\ driven = Driven(q)
        /\ lead = (IF q.closeout THEN Lead ELSE 0) /\ driven >= lead + delivery + trail
  BY DrivenIs
<1>2. q.raw + Short >= lead + delivery /\ (~q.closeout => lead = 0)
  <2>1. CASE q.closeout
    <3>1. q.raw + Short >= driven
      BY <1>1, <2>1 DEF CoversInput
    <3> QED
      BY <1>0, <1>1, <2>1, <3>1
  <2>2. CASE ~q.closeout
    <3>1. q.raw + Short >= q.narration /\ delivery = q.narration /\ lead = 0
      BY <1>1, <2>2 DEF CoversInput, ModelContext
    <3> QED
      BY <1>0, <1>1, <3>1
  <2> QED
    BY <2>1, <2>2
<1> DEFINE seen == Min({delivery, q.raw - lead})
<1>3. seen = IF delivery <= q.raw - lead THEN delivery ELSE q.raw - lead
  BY <1>0, <1>1, SmallerOf
<1>4. DeliveredPart(q) = [from |-> lead, shown |-> seen, held |-> IF q.closeout THEN 0 ELSE delivery - seen]
  BY <1>1 DEF DeliveredPart
<1> HIDE DEF seen
<1>5. /\ DeliveredPart(q).from = lead /\ DeliveredPart(q).shown = seen
      /\ DeliveredPart(q).held = IF q.closeout THEN 0 ELSE delivery - seen
  BY <1>4
<1>6. seen \in Int /\ seen + Short >= delivery /\ lead + seen <= q.raw /\ delivery - seen <= Short /\ 0 <= Short
  BY <1>0, <1>1, <1>2, <1>3
<1>7. q.closeout => Staged(q) = Driven(q)
  <2>1. q.closeout => driven <= q.reference
    BY <1>0, <1>1
  <2> QED
    BY <1>0, <1>1, <2>1, SmallerOf DEF Staged
<1> QED
  BY <1>1, <1>5, <1>6, <1>7

LEMMA TalkAnswers ==
  ASSUME asked \in TalkQuestions, Answer
  PROVE  RulesSound'
<1>0. asked.rule = "talk" /\ "net" \notin DOMAIN asked
  BY DEF TalkQuestions
<1>1. Talk
  BY <1>0 DEF Answer, Assemble, PlanSeries, SelectReference, Route, Suggest, Deliver, Compose, Verify,
              Observe, TranscribeSpeech, Listen, DescribeFrame, Embed, PlanScenes, Synthesize
<1>2. asked' = asked /\ answer' = Talked(asked)
  BY <1>1 DEF Talk
<1> DEFINE StopWith(error, sent, file) == [kind |-> "failed", error |-> error, sent |-> sent, file |-> file]
           Made == [kind |-> "talking", file |-> "new", staged |-> Staged(asked),
                    picture |-> DeliveredPart(asked), sound |-> ModelContext(asked).delivery]
<1>3. \/ \E error \in {"configuration", "input"} : answer' = StopWith(error, FALSE, "earlier")
      \/ \E error \in {"input", "timeout", "configuration", "response"} : answer' = StopWith(error, FALSE, "none")
      \/ \E error \in {"timeout", "configuration", "response"} : answer' = StopWith(error, TRUE, "none")
      \/ answer' = StopWith("unexpected", TRUE, "partial")
      \/ /\ answer' = Made /\ ContextStands(asked) /\ CoversInput(asked)
         /\ asked.closeout => ~(asked.reference < Driven(asked))
  <2>1. CommandError(asked.how) \in {"timeout", "configuration", "response"}
    BY DEF CommandError
  <2> DEFINE e == CommandError(asked.how)
  <2>2. \/ answer' = StopWith("configuration", FALSE, "earlier") \/ answer' = StopWith("input", FALSE, "earlier")
        \/ answer' = StopWith("input", FALSE, "none") \/ answer' = StopWith(e, FALSE, "none")
        \/ answer' = StopWith(e, TRUE, "none") \/ answer' = StopWith("response", TRUE, "none")
        \/ answer' = StopWith("unexpected", TRUE, "partial")
        \/ /\ answer' = Made /\ ContextStands(asked) /\ CoversInput(asked)
           /\ asked.closeout => ~(asked.reference < Driven(asked))
    BY <1>2 DEF Talked
  <2> HIDE DEF StopWith, Made, e
  <2>3. e \in {"timeout", "configuration", "response"}
    BY <2>1 DEF e
  <2> QED
    BY <2>2, <2>3
<1>4. ASSUME answer' = Made, ContextStands(asked), CoversInput(asked),
             asked.closeout => ~(asked.reference < Driven(asked))
      PROVE  answer'.kind = "talking" /\ TalkingKept'
  <2>1. /\ answer'.kind = "talking" /\ answer'.picture = DeliveredPart(asked)
        /\ answer'.sound = ModelContext(asked).delivery /\ answer'.staged = Staged(asked)
    BY <1>4
  <2> HIDE DEF Made
  <2>2. LET p == answer'.picture
        IN  /\ p.from = (IF asked.closeout THEN Lead ELSE 0)
            /\ p.shown + Short >= answer'.sound /\ p.held <= Short
            /\ p.from + p.shown <= asked.raw
            /\ asked.closeout => p.held = 0 /\ answer'.staged = Driven(asked)
    BY <1>4, <2>1, DeliveredIs
  <2> QED
    BY <1>2, <2>1, <2>2 DEF TalkingKept
<1>5. ASSUME NEW error, NEW sent \in BOOLEAN, NEW file, answer' = StopWith(error, sent, file),
             file # "new", sent => file # "earlier", error = "input" => ~sent
      PROVE  answer'.kind = "failed" /\ TalkingKept' /\ (answer'.error = "input" => ~answer'.sent)
  <2>1. /\ answer'.kind = "failed" /\ answer'.error = error /\ (answer'.sent <=> sent)
        /\ answer'.file = file
    BY <1>5
  <2> QED
    BY <1>5, <2>1 DEF TalkingKept
<1>6. /\ TalkingKept' /\ answer'.kind \in {"failed", "talking"}
      /\ answer'.kind = "failed" /\ answer'.error = "input" => ~answer'.sent
  <2> HIDE DEF StopWith, Made
  <2>1. CASE \E error \in {"configuration", "input"} : answer' = StopWith(error, FALSE, "earlier")
    BY <1>5, <2>1
  <2>2. CASE \E error \in {"input", "timeout", "configuration", "response"} : answer' = StopWith(error, FALSE, "none")
    BY <1>5, <2>2
  <2>3. CASE \E error \in {"timeout", "configuration", "response"} : answer' = StopWith(error, TRUE, "none")
    <3>1. PICK error \in {"timeout", "configuration", "response"} : answer' = StopWith(error, TRUE, "none")
      BY <2>3
    <3>2. error # "input"
      OBVIOUS
    <3> QED
      BY <1>5, <3>1, <3>2
  <2>4. CASE answer' = StopWith("unexpected", TRUE, "partial")
    <3>1. PICK error \in {"unexpected"}, file \in {"partial"} : answer' = StopWith(error, TRUE, file)
      BY <2>4
    <3>2. error # "input" /\ file # "new" /\ file # "earlier"
      OBVIOUS
    <3> QED
      BY <1>5, <3>1, <3>2
  <2>5. CASE /\ answer' = Made /\ ContextStands(asked) /\ CoversInput(asked)
             /\ asked.closeout => ~(asked.reference < Driven(asked))
    <3>1. answer'.kind = "talking" /\ TalkingKept'
      BY <1>4, <2>5
    <3> QED
      BY <3>1
  <2> QED
    BY <1>3, <2>1, <2>2, <2>3, <2>4, <2>5
<1>7. answer' # Nothing /\ answer' # Refused
  BY <1>6, KindOfNothing
<1>8. VideoSound' /\ RoutingSound' /\ NarrationSound'
  BY <1>0, <1>2, <1>6, OthersOwe DEF Owing
<1>9. SeriesSound'
  BY <1>6, <1>7 DEF SeriesSound
<1>10. TruthTold'
  BY <1>0, <1>2, <1>6 DEF TruthTold
<1>11. SpeechKept' /\ VectorsKept' /\ PlanKept'
  BY <1>0, <1>2, <1>6 DEF SpeechKept, VectorsKept, PlanKept
<1> QED
  BY <1>6, <1>8, <1>9, <1>10, <1>11 DEF RulesSound, AnswersSound

-----------------------------------------------------------------------------
(* Ranking and choosing, which several rules are built from.                *)

\* How many members are before one.
RankIn(S, R, o) == Cardinality({p \in S : <<p, o>> \in R})

\* A finite set ranked by a strict total order has each member once, in that order.
LEMMA RankedIs ==
  ASSUME NEW S, IsFiniteSet(S), NEW R,
         \A a \in S : <<a, a>> \notin R,
         \A a, b, c \in S : <<a, b>> \in R /\ <<b, c>> \in R => <<a, c>> \in R,
         \A a, b \in S : a # b => <<a, b>> \in R \/ <<b, a>> \in R,
         NEW f, f = [k \in 1..Cardinality(S) |-> f[k]],
         \A k \in 1..Cardinality(S) :
            (\E o \in S : RankIn(S, R, o) = k - 1) => f[k] \in S /\ RankIn(S, R, f[k]) = k - 1
  PROVE  /\ Cardinality(S) \in Nat /\ f \in [1..Cardinality(S) -> S]
         /\ \A o \in S : \E k \in 1..Cardinality(S) : f[k] = o
         /\ \A i, j \in 1..Cardinality(S) : i < j => <<f[i], f[j]>> \in R
<1> DEFINE n == Cardinality(S)
           Below(o) == {p \in S : <<p, o>> \in R}
           g == [o \in S |-> RankIn(S, R, o) + 1]
<1>1. n \in Nat
  BY FS_CardinalityType
<1>2. \A o \in S : /\ IsFiniteSet(Below(o)) /\ Cardinality(Below(o)) \in Nat
                   /\ RankIn(S, R, o) = Cardinality(Below(o))
  <2> SUFFICES ASSUME NEW o \in S
               PROVE  /\ IsFiniteSet(Below(o)) /\ Cardinality(Below(o)) \in Nat
                      /\ RankIn(S, R, o) = Cardinality(Below(o))
    OBVIOUS
  <2>1. IsFiniteSet(Below(o))
    BY FS_Subset
  <2>2. Cardinality(Below(o)) \in Nat
    BY <2>1, FS_CardinalityType
  <2> QED
    BY <2>1, <2>2 DEF RankIn
<1>3. \A a, b \in S : <<a, b>> \in R => RankIn(S, R, a) < RankIn(S, R, b)
  <2> SUFFICES ASSUME NEW a \in S, NEW b \in S, <<a, b>> \in R
               PROVE  RankIn(S, R, a) < RankIn(S, R, b)
    OBVIOUS
  <2>1. Below(a) \cup {a} \subseteq Below(b) /\ a \notin Below(a)
    OBVIOUS
  <2> HIDE DEF Below
  <2>2. Cardinality(Below(a) \cup {a}) = Cardinality(Below(a)) + 1
    BY <1>2, <2>1, FS_AddElement
  <2>3. Cardinality(Below(a) \cup {a}) <= Cardinality(Below(b))
    BY <1>2, <2>1, FS_Subset
  <2> QED
    BY <1>2, <2>2, <2>3
<1>4. \A o \in S : RankIn(S, R, o) \in 0..(n - 1)
  <2> SUFFICES ASSUME NEW o \in S PROVE RankIn(S, R, o) \in 0..(n - 1)
    OBVIOUS
  <2>1. Below(o) \cup {o} \subseteq S /\ o \notin Below(o)
    OBVIOUS
  <2> HIDE DEF Below
  <2>2. Cardinality(Below(o) \cup {o}) = Cardinality(Below(o)) + 1
    BY <1>2, <2>1, FS_AddElement
  <2>3. Cardinality(Below(o) \cup {o}) <= Cardinality(S)
    BY <2>1, FS_Subset
  <2> QED
    BY <1>1, <1>2, <2>2, <2>3
<1>5. \A a, b \in S : RankIn(S, R, a) = RankIn(S, R, b) => a = b
  <2> SUFFICES ASSUME NEW a \in S, NEW b \in S, a # b, RankIn(S, R, a) = RankIn(S, R, b)
               PROVE  FALSE
    OBVIOUS
  <2>1. RankIn(S, R, a) < RankIn(S, R, b) \/ RankIn(S, R, b) < RankIn(S, R, a)
    BY <1>3
  <2> QED
    BY <1>4, <2>1
<1>6. g \in [S -> 1..n] /\ \A o \in S : g[o] = RankIn(S, R, o) + 1
  BY <1>1, <1>4
<1>7. g \in Injection(S, 1..n)
  <2> HIDE DEF g
  <2>1. \A a, b \in S : g[a] = g[b] => a = b
    BY <1>4, <1>5, <1>6
  <2> QED
    BY <1>6, <2>1 DEF Injection, IsInjective
<1>8. \A k \in 1..n : \E o \in S : RankIn(S, R, o) = k - 1
  <2>1. IsFiniteSet(1..n) /\ Cardinality(1..n) = n
    BY <1>1, FS_Interval
  <2> HIDE DEF g
  <2>2. g \in Surjection(S, 1..n)
    BY <1>7, <2>1, FS_Injection
  <2>3. \A k \in 1..n : \E o \in S : g[o] = k
    BY <2>2 DEF Surjection
  <2> QED
    BY <1>1, <1>4, <1>6, <2>3
<1>9. \A k \in 1..n : f[k] \in S /\ RankIn(S, R, f[k]) = k - 1
  BY <1>8
<1>10. f \in [1..n -> S]
  BY <1>9
<1>11. \A o \in S : \E k \in 1..n : f[k] = o
  <2> SUFFICES ASSUME NEW o \in S PROVE \E k \in 1..n : f[k] = o
    OBVIOUS
  <2>1. RankIn(S, R, o) + 1 \in 1..n /\ (RankIn(S, R, o) + 1) - 1 = RankIn(S, R, o)
    BY <1>1, <1>4
  <2>2. f[RankIn(S, R, o) + 1] = o
    BY <1>5, <1>9, <2>1
  <2> QED
    BY <2>1, <2>2
<1>12. \A i, j \in 1..n : i < j => <<f[i], f[j]>> \in R
  <2> SUFFICES ASSUME NEW i \in 1..n, NEW j \in 1..n, i < j, <<f[i], f[j]>> \notin R
               PROVE  FALSE
    OBVIOUS
  <2>1. f[i] # f[j]
    BY <1>1, <1>9
  <2>2. <<f[j], f[i]>> \in R
    BY <1>9, <2>1
  <2>3. RankIn(S, R, f[j]) < RankIn(S, R, f[i])
    BY <1>3, <1>9, <2>2
  <2> QED
    BY <1>1, <1>9, <2>3
<1> QED
  BY <1>1, <1>10, <1>11, <1>12

\* What is chosen of a sequence is at places that go up, and each place is used once.
LEMMA ChosenIs ==
  ASSUME NEW T, NEW s \in Seq(T), NEW places \in SUBSET (DOMAIN s)
  PROVE  /\ Cardinality(places) \in Nat /\ IsFiniteSet(places)
         /\ Chosen(s, places) \in Seq(T) /\ Len(Chosen(s, places)) = Cardinality(places)
         /\ \E f \in [1..Cardinality(places) -> places] :
              /\ \A k \in 1..Cardinality(places) : Chosen(s, places)[k] = s[f[k]]
              /\ \A p \in places : \E k \in 1..Cardinality(places) : f[k] = p
              /\ \A i, j \in 1..Cardinality(places) : i < j => f[i] < f[j]
<1> DEFINE R == {x \in (DOMAIN s) \X (DOMAIN s) : x[1] < x[2]}
<1>1. Len(s) \in Nat /\ DOMAIN s = 1..Len(s)
  OBVIOUS
<1>2. IsFiniteSet(places)
  <2>1. IsFiniteSet(1..Len(s))
    BY <1>1, FS_Interval
  <2> QED
    BY <1>1, <2>1, FS_Subset
<1>3. \A a, b \in DOMAIN s : <<a, b>> \in R <=> a < b
  OBVIOUS
<1>4. /\ \A a \in places : <<a, a>> \notin R
      /\ \A a, b, c \in places : <<a, b>> \in R /\ <<b, c>> \in R => <<a, c>> \in R
      /\ \A a, b \in places : a # b => <<a, b>> \in R \/ <<b, a>> \in R
  <2> HIDE DEF R
  <2> QED
    BY <1>1, <1>3
<1>5. PICK f : f = Ranked(places, Earlier)
  OBVIOUS
<1>6. f = [k \in 1..Cardinality(places) |-> f[k]]
  <2> DEFINE At(k) == CHOOSE o \in places : Cardinality({p \in places : Earlier(p, o)}) = k - 1
  <2>1. f = [k \in 1..Cardinality(places) |-> At(k)]
    BY <1>5 DEF Ranked
  <2> HIDE DEF At
  <2> QED
    BY <2>1
<1>7. ASSUME NEW k \in 1..Cardinality(places), \E o \in places : RankIn(places, R, o) = k - 1
      PROVE  f[k] \in places /\ RankIn(places, R, f[k]) = k - 1
  <2>1. \A o \in places : {p \in places : Earlier(p, o)} = {p \in places : <<p, o>> \in R}
    BY DEF Earlier
  <2> HIDE DEF R
  <2>2. \A o \in places : Cardinality({p \in places : Earlier(p, o)}) = RankIn(places, R, o)
    BY <2>1 DEF RankIn
  <2>3. f[k] = CHOOSE o \in places : Cardinality({p \in places : Earlier(p, o)}) = k - 1
    BY <1>5 DEF Ranked
  <2>4. \E o \in places : Cardinality({p \in places : Earlier(p, o)}) = k - 1
    BY <1>7, <2>2
  <2>5. f[k] \in places /\ Cardinality({p \in places : Earlier(p, f[k])}) = k - 1
    BY <2>3, <2>4
  <2> QED
    BY <2>2, <2>5
<1> HIDE DEF R
<1>8. /\ Cardinality(places) \in Nat /\ f \in [1..Cardinality(places) -> places]
      /\ \A o \in places : \E k \in 1..Cardinality(places) : f[k] = o
      /\ \A i, j \in 1..Cardinality(places) : i < j => <<f[i], f[j]>> \in R
  BY <1>2, <1>4, <1>6, <1>7, RankedIs
<1>9. Chosen(s, places) = [k \in 1..Cardinality(places) |-> s[f[k]]]
  BY <1>5 DEF Chosen
<1>10. \A k \in 1..Cardinality(places) : f[k] \in places /\ s[f[k]] \in T
  BY <1>8
<1>11. Chosen(s, places) \in [1..Cardinality(places) -> T]
  BY <1>9, <1>10
<1>12. Chosen(s, places) \in Seq(T) /\ Len(Chosen(s, places)) = Cardinality(places)
  BY <1>8, <1>11
<1>13. \A i, j \in 1..Cardinality(places) : i < j => f[i] < f[j]
  BY <1>3, <1>8, <1>10
<1> QED
  BY <1>2, <1>8, <1>9, <1>12, <1>13

-----------------------------------------------------------------------------
(* What a scene is offered to show (AssetRouting).                          *)

Distinct(s) == \A i, j \in DOMAIN s : s[i] = s[j] => i = j

\* Two sequences in a row: each place is of one of them, and what they do not share
\* is there once.
LEMMA Joined ==
  ASSUME NEW T, NEW a \in Seq(T), NEW b \in Seq(T), Distinct(a), Distinct(b),
         \A i \in DOMAIN a, j \in DOMAIN b : a[i] # b[j]
  PROVE  /\ a \o b \in Seq(T) /\ Len(a \o b) = Len(a) + Len(b) /\ Distinct(a \o b)
         /\ Len(a) \in Nat /\ Len(b) \in Nat /\ DOMAIN (a \o b) = 1..(Len(a) + Len(b))
         /\ \A k \in DOMAIN (a \o b) :
              \/ k \in DOMAIN a /\ (a \o b)[k] = a[k]
              \/ k - Len(a) \in DOMAIN b /\ (a \o b)[k] = b[k - Len(a)]
         /\ \A k \in DOMAIN a : k \in DOMAIN (a \o b) /\ (a \o b)[k] = a[k]
         /\ \A k \in DOMAIN b : Len(a) + k \in DOMAIN (a \o b) /\ (a \o b)[Len(a) + k] = b[k]
<1>1. /\ Len(a) \in Nat /\ Len(b) \in Nat /\ DOMAIN a = 1..Len(a) /\ DOMAIN b = 1..Len(b)
      /\ a \o b \in Seq(T) /\ Len(a \o b) = Len(a) + Len(b)
      /\ DOMAIN (a \o b) = 1..(Len(a) + Len(b))
  OBVIOUS
<1>2. \A k \in 1..Len(a) : (a \o b)[k] = a[k]
  OBVIOUS
<1>3. \A k \in (Len(a) + 1)..(Len(a) + Len(b)) : (a \o b)[k] = b[k - Len(a)]
  OBVIOUS
<1> DEFINE c == a \o b
<1> HIDE DEF c
<1>4. \A k \in 1..(Len(a) + Len(b)) :
        \/ k \in 1..Len(a) /\ c[k] = a[k]
        \/ k \in (Len(a) + 1)..(Len(a) + Len(b)) /\ k - Len(a) \in 1..Len(b) /\ c[k] = b[k - Len(a)]
  BY <1>1, <1>2, <1>3 DEF c
<1>5. Distinct(c)
  <2>1. DOMAIN c = 1..(Len(a) + Len(b))
    BY <1>1 DEF c
  <2> SUFFICES ASSUME NEW i \in 1..(Len(a) + Len(b)), NEW j \in 1..(Len(a) + Len(b)), c[i] = c[j]
               PROVE  i = j
    BY <2>1 DEF Distinct
  <2>2. CASE i \in 1..Len(a) /\ j \in 1..Len(a)
    <3>1. a[i] = a[j]
      BY <1>1, <1>4, <2>2
    <3> QED
      BY <1>1, <2>2, <3>1 DEF Distinct
  <2>3. CASE i \notin 1..Len(a) /\ j \notin 1..Len(a)
    <3>1. i - Len(a) \in DOMAIN b /\ j - Len(a) \in DOMAIN b /\ b[i - Len(a)] = b[j - Len(a)]
      BY <1>1, <1>4, <2>3
    <3>2. i - Len(a) = j - Len(a)
      BY <3>1 DEF Distinct
    <3> QED
      BY <1>1, <3>2
  <2>4. CASE i \in 1..Len(a) /\ j \notin 1..Len(a)
    BY <1>1, <1>4, <2>4
  <2>5. CASE i \notin 1..Len(a) /\ j \in 1..Len(a)
    BY <1>1, <1>4, <2>5
  <2> QED
    BY <2>2, <2>3, <2>4, <2>5
<1>6. \A k \in 1..Len(b) : Len(a) + k \in 1..(Len(a) + Len(b)) /\ c[Len(a) + k] = b[k]
  <2> SUFFICES ASSUME NEW k \in 1..Len(b)
               PROVE  Len(a) + k \in 1..(Len(a) + Len(b)) /\ c[Len(a) + k] = b[k]
    OBVIOUS
  <2>1. Len(a) + k \in (Len(a) + 1)..(Len(a) + Len(b)) /\ (Len(a) + k) - Len(a) = k
    BY <1>1
  <2> QED
    BY <1>1, <1>3, <2>1 DEF c
<1> QED
  BY <1>1, <1>4, <1>5, <1>6 DEF c

\* The first so many of a sequence.
LEMMA FirstOfIs ==
  ASSUME NEW T, NEW s \in Seq(T), NEW n \in Nat, n > 0, Distinct(s)
  PROVE  /\ FirstOf(s, n) \in Seq(T) /\ Len(FirstOf(s, n)) \in Nat /\ Distinct(FirstOf(s, n))
         /\ Len(FirstOf(s, n)) <= Len(s) /\ (Len(s) > 0 => Len(FirstOf(s, n)) > 0)
         /\ DOMAIN FirstOf(s, n) = 1..Len(FirstOf(s, n))
         /\ \A k \in DOMAIN FirstOf(s, n) : k \in DOMAIN s /\ FirstOf(s, n)[k] = s[k]
<1>1. Len(s) \in Nat /\ DOMAIN s = 1..Len(s)
  OBVIOUS
<1>2. PICK m : m = Min({n, Len(s)})
  OBVIOUS
<1>3. m \in Nat /\ m <= Len(s) /\ (Len(s) > 0 => m > 0)
  <2>1. m = IF n <= Len(s) THEN n ELSE Len(s)
    BY <1>1, <1>2, SmallerOf
  <2>2. CASE n <= Len(s)
    <3>1. m = n
      BY <2>1, <2>2
    <3> QED
      BY <2>2, <3>1
  <2>3. CASE ~(n <= Len(s))
    <3>1. m = Len(s)
      BY <2>1, <2>3
    <3> QED
      BY <1>1, <3>1
  <2> QED
    BY <2>2, <2>3
<1>4. PICK f : f = SubSeq(s, 1, m)
  OBVIOUS
<1>5. /\ f \in Seq(T) /\ Len(f) = m /\ DOMAIN f = 1..m
      /\ \A k \in 1..m : f[k] = s[k]
  <2>1. 1..m \subseteq 1..Len(s)
    BY <1>1, <1>3
  <2>2. f = [k \in 1..m |-> s[k]]
    BY <1>1, <1>3, <1>4
  <2>3. f \in [1..m -> T]
    BY <1>1, <2>1, <2>2
  <2> QED
    BY <1>3, <2>2, <2>3
<1>6. FirstOf(s, n) = f
  BY <1>2, <1>4 DEF FirstOf
<1>7. \A k \in 1..m : k \in 1..Len(s)
  BY <1>1, <1>3
<1>8. Distinct(f)
  BY <1>1, <1>5, <1>7 DEF Distinct
<1> QED
  BY <1>1, <1>3, <1>5, <1>6, <1>7, <1>8

RouteClip ==
    [id : Nat, kind : STRING, match : Int, quality : Int, suits : Int, fresh : Int, worn : Int,
     length : Nat, restricted : BOOLEAN, usage : STRING, admitted : BOOLEAN, badCrop : BOOLEAN]

RouteImage == [id : Nat, kind : {"screenshot", "chart"}, restricted : BOOLEAN]

\* A clip is known by its id, whether the search or a run brings it, and so is an image.
RouteQuestions ==
    {q \in [rule : {"route"}, hits : SUBSET RouteClip, runs : SUBSET RouteClip, images : Seq(RouteImage),
            scene : [preferred : SUBSET STRING, fallback : SUBSET STRING, requires : STRING, target : Nat]] :
        /\ IsFiniteSet(q.hits) /\ IsFiniteSet(q.runs)
        /\ \A r \in q.runs : r.kind = "talking"
        /\ \A c, d \in q.hits \cup q.runs : c.id = d.id => c = d
        /\ \A k, n \in DOMAIN q.images : q.images[k].id = q.images[n].id => k = n}

OfferKinds == ClipKinds \cup {"screenshot", "chart", "words", "capture"}

Offered == [kind : OfferKinds, id : Nat, score : Int]

LEMMA ScoreIs == ASSUME NEW hit \in RouteClip PROVE Score(hit) \in Int
<1>1. Bonus(hit.kind) \in Int
  BY DEF Bonus
<1> DEFINE x == 55 * hit.match + 15 * hit.quality + 10 * hit.suits
                         + 10 * hit.fresh - 15 * hit.worn + Bonus(hit.kind)
<1>2. x \in Int
  BY <1>1 DEF RouteClip
<1> HIDE DEF x
<1>3. Min({1000, x}) \in Int
  BY <1>2, SmallerOf
<1>4. PICK y \in Int : y = Min({1000, x})
  BY <1>3
<1>5. \E m \in {0, y} : \A z \in {0, y} : m >= z
  OBVIOUS
<1>6. Max({0, y}) \in {0, y}
  BY <1>5 DEF Max
<1> QED
  BY <1>4, <1>6 DEF Score, x

\* The clips that are offered are of those found or assembled, each once, the best first.
LEMMA ClipsAre ==
  ASSUME NEW q \in RouteQuestions
  PROVE  /\ Clips(q) \in Seq(Offered) /\ Distinct(Clips(q)) /\ Len(Clips(q)) \in Nat
         /\ \A o \in Found(q) \cup Assembled(q) : o \in Offered /\ o.kind \in ClipKinds
         /\ \A k \in DOMAIN Clips(q) : Clips(q)[k] \in Found(q) \cup Assembled(q)
         /\ Clips(q) = <<>> <=> Found(q) \cup Assembled(q) = {}
         /\ Clips(q) # <<>> => \A o \in Found(q) \cup Assembled(q) : o.score <= Clips(q)[1].score
<1> DEFINE S == Found(q) \cup Assembled(q)
           R == {x \in S \X S : Before(x[1], x[2])}
<1>0. /\ q.hits \in SUBSET RouteClip /\ q.runs \in SUBSET RouteClip /\ IsFiniteSet(q.hits) /\ IsFiniteSet(q.runs)
      /\ \A r \in q.runs : r.kind = "talking"
  BY DEF RouteQuestions
<1>1. \A o \in S : o \in Offered /\ o.kind \in ClipKinds
  <2>1. \A o \in Found(q) : o \in Offered /\ o.kind \in ClipKinds
    <3> SUFFICES ASSUME NEW o \in Found(q) PROVE o \in Offered /\ o.kind \in ClipKinds
      OBVIOUS
    <3>1. PICK h \in q.hits : Eligible(q.scene, h) /\ o = Offer(h.kind, h.id, Score(h))
      BY DEF Found
    <3>2. h \in RouteClip /\ h.kind \in ClipKinds /\ Score(h) \in Int
      BY <1>0, <3>1, ScoreIs DEF Eligible
    <3>3. h.kind \in OfferKinds /\ h.id \in Nat
      BY <3>2 DEF RouteClip, OfferKinds
    <3> QED
      BY <3>1, <3>2, <3>3 DEF Offer, Offered
  <2>2. \A o \in Assembled(q) : o \in Offered /\ o.kind \in ClipKinds
    <3> SUFFICES ASSUME NEW o \in Assembled(q) PROVE o \in Offered /\ o.kind \in ClipKinds
      OBVIOUS
    <3>1. PICK r \in q.runs : o = Offer("talking", r.id, Admitted)
      BY DEF Assembled
    <3>2. r.id \in Nat
      BY <1>0 DEF RouteClip
    <3>3. PICK kind \in ClipKinds : kind = "talking"
      BY DEF ClipKinds
    <3>4. o = [kind |-> kind, id |-> r.id, score |-> Admitted] /\ Admitted \in Int
      BY <3>1, <3>3 DEF Offer, Admitted
    <3>5. o \in Offered /\ o.kind = kind
      BY <3>2, <3>4 DEF Offered, OfferKinds
    <3> QED
      BY <3>3, <3>5
  <2> QED
    BY <2>1, <2>2
<1>2. IsFiniteSet(S)
  <2>1. IsFiniteSet(Found(q))
    <3> DEFINE H == {k \in q.hits : Eligible(q.scene, k)}
               F == [h \in H |-> Offer(h.kind, h.id, Score(h))]
    <3>1. IsFiniteSet(H)
      BY <1>0, FS_Subset
    <3>2. Found(q) = {F[h] : h \in H}
      BY DEF Found
    <3>3. F \in Surjection(H, Found(q))
      <4>1. F \in [H -> Found(q)]
        BY <3>2
      <4>2. \A t \in Found(q) : \E h \in H : F[h] = t
        BY <3>2
      <4> QED
        BY <4>1, <4>2 DEF Surjection
    <3> HIDE DEF H, F
    <3> QED
      BY <3>1, <3>3, FS_Surjection
  <2>2. IsFiniteSet(Assembled(q))
    <3> DEFINE H == {k \in q.runs : Eligible(q.scene, k) /\ \A o \in Found(q) : o.id # k.id}
               F == [h \in H |-> Offer("talking", h.id, Admitted)]
    <3>1. IsFiniteSet(H)
      BY <1>0, FS_Subset
    <3>2. Assembled(q) = {F[h] : h \in H}
      BY DEF Assembled
    <3>3. F \in Surjection(H, Assembled(q))
      <4>1. F \in [H -> Assembled(q)]
        BY <3>2
      <4>2. \A t \in Assembled(q) : \E h \in H : F[h] = t
        BY <3>2
      <4> QED
        BY <4>1, <4>2 DEF Surjection
    <3> HIDE DEF H, F
    <3> QED
      BY <3>1, <3>3, FS_Surjection
  <2> QED
    BY <2>1, <2>2, FS_Union
<1>3. \A a, b \in S : <<a, b>> \in R <=> Before(a, b)
  OBVIOUS
<1> HIDE DEF R, S
<1>4. \A k \in ClipKinds : Rank(k) \in 0..2
  BY DEF ClipKinds, Rank
<1>5. \A k, n \in ClipKinds : Rank(k) = Rank(n) => k = n
  BY DEF ClipKinds, Rank
<1>6. \A o \in S : o.score \in Int /\ o.id \in Nat /\ Rank(o.kind) \in 0..2
  BY <1>1, <1>4 DEF Offered
<1>7. \A a \in S : <<a, a>> \notin R
  BY <1>3, <1>6 DEF Before
<1>8. \A a, b, c \in S : <<a, b>> \in R /\ <<b, c>> \in R => <<a, c>> \in R
  <2> SUFFICES ASSUME NEW a \in S, NEW b \in S, NEW c \in S, Before(a, b), Before(b, c)
               PROVE  Before(a, c)
    BY <1>3
  <2> QED
    BY <1>6 DEF Before
<1>9. \A a, b \in S : a # b => <<a, b>> \in R \/ <<b, a>> \in R
  <2> SUFFICES ASSUME NEW a \in S, NEW b \in S, ~Before(a, b), ~Before(b, a)
               PROVE  a = b
    BY <1>3
  <2>1. a.score = b.score /\ Rank(a.kind) = Rank(b.kind) /\ a.id = b.id
    BY <1>6 DEF Before
  <2>2. a.kind = b.kind
    BY <1>1, <1>5, <2>1
  <2> QED
    BY <1>1, <2>1, <2>2 DEF Offered
<1>10. PICK f : f = Ranked(S, Before)
  OBVIOUS
<1>11. f = [k \in 1..Cardinality(S) |-> f[k]]
  <2> DEFINE At(k) == CHOOSE o \in S : Cardinality({p \in S : Before(p, o)}) = k - 1
  <2>1. f = [k \in 1..Cardinality(S) |-> At(k)]
    BY <1>10 DEF Ranked
  <2> HIDE DEF At
  <2> QED
    BY <2>1
<1>12. ASSUME NEW k \in 1..Cardinality(S), \E o \in S : RankIn(S, R, o) = k - 1
       PROVE  f[k] \in S /\ RankIn(S, R, f[k]) = k - 1
  <2>1. \A o \in S : {p \in S : Before(p, o)} = {p \in S : <<p, o>> \in R}
    BY <1>3
  <2>2. \A o \in S : Cardinality({p \in S : Before(p, o)}) = RankIn(S, R, o)
    BY <2>1 DEF RankIn
  <2>3. f[k] = CHOOSE o \in S : Cardinality({p \in S : Before(p, o)}) = k - 1
    BY <1>10 DEF Ranked
  <2>4. \E o \in S : Cardinality({p \in S : Before(p, o)}) = k - 1
    BY <1>12, <2>2
  <2>5. f[k] \in S /\ Cardinality({p \in S : Before(p, f[k])}) = k - 1
    BY <2>3, <2>4
  <2> QED
    BY <2>2, <2>5
<1>13. /\ Cardinality(S) \in Nat /\ f \in [1..Cardinality(S) -> S]
       /\ \A o \in S : \E k \in 1..Cardinality(S) : f[k] = o
       /\ \A i, j \in 1..Cardinality(S) : i < j => <<f[i], f[j]>> \in R
  BY <1>2, <1>7, <1>8, <1>9, <1>11, <1>12, RankedIs
<1>14. f \in Seq(S) /\ f \in Seq(Offered) /\ Len(f) = Cardinality(S) /\ DOMAIN f = 1..Cardinality(S)
  <2>1. S \subseteq Offered
    BY <1>1
  <2>2. f \in Seq(S) /\ Len(f) = Cardinality(S) /\ DOMAIN f = 1..Cardinality(S)
    BY <1>13
  <2>3. f \in [1..Cardinality(S) -> Offered]
    BY <1>13, <2>1
  <2> QED
    BY <1>13, <2>2, <2>3
<1>15. Distinct(f)
  <2> SUFFICES ASSUME NEW i \in 1..Cardinality(S), NEW j \in 1..Cardinality(S), f[i] = f[j], i # j
               PROVE  FALSE
    BY <1>14 DEF Distinct
  <2>1. i < j \/ j < i
    BY <1>13
  <2>2. <<f[i], f[i]>> \in R /\ f[i] \in S
    BY <1>13, <2>1
  <2> QED
    BY <1>7, <2>2
<1>16. MaxCandidates \in Nat /\ MaxCandidates > 0
  BY RoutingAssumption
<1>17. PICK c : c = FirstOf(f, MaxCandidates)
  OBVIOUS
<1>18. Clips(q) = c
  BY <1>10, <1>17 DEF Clips, S
<1>19. /\ c \in Seq(Offered) /\ Len(c) \in Nat /\ Distinct(c)
       /\ Len(c) <= Len(f) /\ (Len(f) > 0 => Len(c) > 0)
       /\ DOMAIN c = 1..Len(c)
       /\ \A k \in DOMAIN c : k \in DOMAIN f /\ c[k] = f[k]
  BY <1>14, <1>15, <1>16, <1>17, FirstOfIs
<1>20. \A k \in DOMAIN c : c[k] \in S
  BY <1>13, <1>14, <1>19
<1>21. c = <<>> <=> S = {}
  <2>1. S = {} <=> Cardinality(S) = 0
    BY <1>2, FS_EmptySet
  <2>2. c = <<>> <=> Len(c) = 0
    BY <1>19
  <2> QED
    BY <1>13, <1>14, <1>19, <2>1, <2>2
<1>22. c # <<>> => \A o \in S : o.score <= c[1].score
  <2> SUFFICES ASSUME c # <<>>, NEW o \in S PROVE o.score <= c[1].score
    OBVIOUS
  <2>1. 1 \in DOMAIN c /\ c[1] = f[1] /\ 1 \in 1..Cardinality(S)
    BY <1>14, <1>19
  <2>2. PICK k \in 1..Cardinality(S) : f[k] = o
    BY <1>13
  <2>3. CASE k = 1
    BY <1>6, <2>1, <2>2, <2>3
  <2>4. CASE k # 1
    <3>1. <<f[1], f[k]>> \in R /\ f[1] \in S
      BY <1>13, <2>1, <2>4
    <3>2. Before(f[1], o)
      BY <1>3, <2>2, <3>1
    <3> QED
      BY <1>6, <2>1, <3>1, <3>2 DEF Before
  <2> QED
    BY <2>3, <2>4
<1>23. \A o \in S : o \in Offered /\ o.kind \in ClipKinds
  BY <1>1
<1> QED
  BY <1>18, <1>19, <1>20, <1>21, <1>22, <1>23 DEF S

\* The stills that are offered are of images nothing restricts, each once.
LEMMA StillsAre ==
  ASSUME NEW q \in RouteQuestions
  PROVE  /\ Stills(q) \in Seq(Offered) /\ Distinct(Stills(q)) /\ Len(Stills(q)) \in Nat
         /\ \A n \in DOMAIN Stills(q) :
              /\ Stills(q)[n].kind \in {"screenshot", "chart"} /\ Stills(q)[n].kind \in Requested(q.scene)
              /\ \E k \in DOMAIN q.images : q.images[k].id = Stills(q)[n].id /\ ~q.images[k].restricted
<1>0. /\ q.images \in Seq(RouteImage)
      /\ \A k, n \in DOMAIN q.images : q.images[k].id = q.images[n].id => k = n
  BY DEF RouteQuestions
<1> DEFINE fit == {k \in DOMAIN q.images : /\ q.images[k].kind \in Requested(q.scene)
                                           /\ ~q.images[k].restricted}
<1>1. fit \in SUBSET (DOMAIN q.images)
  OBVIOUS
<1>2. PICK images : images = Chosen(q.images, fit)
  OBVIOUS
<1> DEFINE n == Cardinality(fit)
<1>3. \A k \in fit : k \in DOMAIN q.images /\ q.images[k].kind \in Requested(q.scene) /\ ~q.images[k].restricted
  OBVIOUS
<1>4. PICK s : s = [k \in DOMAIN images |-> Offer(images[k].kind, images[k].id, 0)]
  OBVIOUS
<1>5. Stills(q) = FirstOf(s, MaxStills)
  BY <1>2, <1>4 DEF Stills
<1> HIDE DEF fit
<1>6. /\ n \in Nat /\ images \in Seq(RouteImage) /\ Len(images) = n
      /\ \E f \in [1..n -> fit] :
           /\ \A k \in 1..n : images[k] = q.images[f[k]]
           /\ \A i, j \in 1..n : i < j => f[i] < f[j]
  BY <1>0, <1>1, <1>2, ChosenIs
<1> HIDE DEF n
<1>7. PICK f \in [1..n -> fit] : /\ \A k \in 1..n : images[k] = q.images[f[k]]
                                 /\ \A i, j \in 1..n : i < j => f[i] < f[j]
  BY <1>6
<1>8. DOMAIN images = 1..n
  BY <1>6
<1>9. \A k \in 1..n : /\ f[k] \in DOMAIN q.images /\ f[k] \in Nat /\ q.images[f[k]] \in RouteImage
                      /\ s[k].kind = q.images[f[k]].kind /\ s[k].id = q.images[f[k]].id
                      /\ s[k].kind \in {"screenshot", "chart"} /\ s[k].kind \in Requested(q.scene)
                      /\ ~q.images[f[k]].restricted /\ s[k] \in Offered
  <2> SUFFICES ASSUME NEW k \in 1..n
               PROVE  /\ f[k] \in DOMAIN q.images /\ f[k] \in Nat /\ q.images[f[k]] \in RouteImage
                      /\ s[k].kind = q.images[f[k]].kind /\ s[k].id = q.images[f[k]].id
                      /\ s[k].kind \in {"screenshot", "chart"} /\ s[k].kind \in Requested(q.scene)
                      /\ ~q.images[f[k]].restricted /\ s[k] \in Offered
    OBVIOUS
  <2>1. /\ f[k] \in fit /\ f[k] \in DOMAIN q.images /\ q.images[f[k]].kind \in Requested(q.scene)
        /\ ~q.images[f[k]].restricted
    BY <1>3
  <2>2. f[k] \in Nat /\ q.images[f[k]] \in RouteImage
    BY <1>0, <2>1
  <2>3. s[k] = Offer(q.images[f[k]].kind, q.images[f[k]].id, 0)
    BY <1>4, <1>7, <1>8
  <2>4. PICK image \in RouteImage : image = q.images[f[k]]
    BY <2>2
  <2>5. image.kind \in {"screenshot", "chart"} /\ image.kind \in OfferKinds /\ image.id \in Nat
    BY DEF RouteImage, OfferKinds
  <2>6. s[k] = [kind |-> image.kind, id |-> image.id, score |-> 0]
    BY <2>3, <2>4 DEF Offer
  <2>7. /\ s[k].kind = image.kind /\ s[k].id = image.id /\ s[k] \in Offered
    BY <2>5, <2>6 DEF Offered
  <2> QED
    BY <2>1, <2>2, <2>4, <2>5, <2>7
<1>10. s \in Seq(Offered) /\ Len(s) = n /\ DOMAIN s = 1..n
  <2>1. s = [k \in 1..n |-> s[k]]
    BY <1>4, <1>8
  <2>2. s \in [1..n -> Offered]
    BY <1>9, <2>1
  <2> QED
    BY <1>6, <2>2
<1>11. Distinct(s)
  <2> SUFFICES ASSUME NEW i \in 1..n, NEW j \in 1..n, s[i] = s[j], i # j PROVE FALSE
    BY <1>10 DEF Distinct
  <2>1. f[i] = f[j]
    BY <1>0, <1>9
  <2>2. i < j \/ j < i
    BY <1>6
  <2>3. f[i] < f[j] \/ f[j] < f[i]
    BY <1>7, <2>2
  <2> QED
    BY <1>9, <2>1, <2>3
<1>12. MaxStills \in Nat /\ MaxStills > 0
  BY RoutingAssumption
<1>13. PICK st : st = FirstOf(s, MaxStills)
  OBVIOUS
<1>14. /\ st \in Seq(Offered) /\ Len(st) \in Nat /\ Distinct(st)
       /\ \A k \in DOMAIN st : k \in DOMAIN s /\ st[k] = s[k]
  BY <1>10, <1>11, <1>12, <1>13, FirstOfIs
<1>15. \A k \in DOMAIN st :
          /\ st[k].kind \in {"screenshot", "chart"} /\ st[k].kind \in Requested(q.scene)
          /\ \E i \in DOMAIN q.images : q.images[i].id = st[k].id /\ ~q.images[i].restricted
  <2> SUFFICES ASSUME NEW k \in DOMAIN st
               PROVE  /\ st[k].kind \in {"screenshot", "chart"} /\ st[k].kind \in Requested(q.scene)
                      /\ \E i \in DOMAIN q.images : q.images[i].id = st[k].id /\ ~q.images[i].restricted
    OBVIOUS
  <2>1. k \in 1..n /\ st[k] = s[k]
    BY <1>10, <1>14
  <2> QED
    BY <1>9, <2>1
<1> QED
  BY <1>5, <1>13, <1>14, <1>15

\* Where no clip is good enough, stills, words and a request to record one follow.
LEMMA WithGap ==
  ASSUME NEW q \in RouteQuestions, NeedsCapture(Clips(q))
  PROVE  /\ Offers(q) \in Seq(Offered) /\ Distinct(Offers(q)) /\ Len(Offers(q)) \in Nat
         /\ Len(Offers(q)) >= 1 /\ DOMAIN Offers(q) = 1..Len(Offers(q))
         /\ Offers(q)[Len(Offers(q))] = Offer("capture", 0, 0)
         /\ \A n \in DOMAIN Offers(q) :
              \/ \E k \in DOMAIN Clips(q) : Offers(q)[n] = Clips(q)[k]
              \/ \E k \in DOMAIN Stills(q) : Offers(q)[n] = Stills(q)[k]
              \/ Offers(q)[n] = Offer("words", 0, 0) /\ "words" \in Requested(q.scene)
              \/ Offers(q)[n] = Offer("capture", 0, 0)
         /\ Clips(q) = <<>> /\ Stills(q) # <<>> => Offers(q)[1].kind \in {"screenshot", "chart"}
<1>1. PICK a, b, w, c : a = Clips(q) /\ b = Stills(q) /\ w = WordsFor(q.scene) /\ c = <<Offer("capture", 0, 0)>>
  OBVIOUS
<1>2. Offers(q) = ((a \o b) \o w) \o c
  BY <1>1 DEF Offers
<1>3. /\ a \in Seq(Offered) /\ Distinct(a) /\ Len(a) \in Nat
      /\ \A k \in DOMAIN a : a[k].kind \in ClipKinds
  BY <1>1, ClipsAre
<1>4. /\ b \in Seq(Offered) /\ Distinct(b) /\ Len(b) \in Nat
      /\ \A k \in DOMAIN b : b[k].kind \in {"screenshot", "chart"}
  BY <1>1, StillsAre
<1>5. PICK word \in Offered, capture \in Offered :
          /\ word = Offer("words", 0, 0) /\ capture = Offer("capture", 0, 0)
          /\ word.kind = "words" /\ capture.kind = "capture"
  <2>1. PICK k \in OfferKinds, n \in OfferKinds : k = "words" /\ n = "capture"
    BY DEF OfferKinds
  <2>2. /\ Offer(k, 0, 0) \in Offered /\ Offer(k, 0, 0).kind = k
        /\ Offer(n, 0, 0) \in Offered /\ Offer(n, 0, 0).kind = n
    BY DEF Offer, Offered
  <2> QED
    BY <2>1, <2>2
<1>6. /\ w \in Seq(Offered) /\ Distinct(w)
      /\ \A k \in DOMAIN w : w[k] = word /\ "words" \in Requested(q.scene)
  <2>1. CASE "words" \in Requested(q.scene)
    <3>1. w = <<word>>
      BY <1>1, <1>5, <2>1 DEF WordsFor
    <3>2. <<word>> \in Seq(Offered) /\ DOMAIN <<word>> = {1} /\ <<word>>[1] = word
      OBVIOUS
    <3> QED
      BY <2>1, <3>1, <3>2 DEF Distinct
  <2>2. CASE "words" \notin Requested(q.scene)
    <3>1. w = <<>>
      BY <1>1, <2>2 DEF WordsFor
    <3>2. <<>> \in Seq(Offered) /\ DOMAIN <<>> = {}
      OBVIOUS
    <3> QED
      BY <3>1, <3>2 DEF Distinct
  <2> QED
    BY <2>1, <2>2
<1>7. /\ c \in Seq(Offered) /\ Distinct(c) /\ DOMAIN c = {1} /\ c[1] = capture /\ Len(c) = 1
  <2>1. c = <<capture>>
    BY <1>1, <1>5
  <2>2. <<capture>> \in Seq(Offered) /\ DOMAIN <<capture>> = {1} /\ <<capture>>[1] = capture /\ Len(<<capture>>) = 1
    OBVIOUS
  <2> QED
    BY <2>1, <2>2 DEF Distinct
<1>8. PICK ab : ab = a \o b
  OBVIOUS
<1>9. /\ ab \in Seq(Offered) /\ Distinct(ab) /\ Len(ab) \in Nat
      /\ \A k \in DOMAIN ab : (\E i \in DOMAIN a : ab[k] = a[i]) \/ (\E i \in DOMAIN b : ab[k] = b[i])
      /\ \A k \in DOMAIN b : Len(a) + k \in DOMAIN ab /\ ab[Len(a) + k] = b[k]
  <2>1. \A i \in DOMAIN a, j \in DOMAIN b : a[i] # b[j]
    BY <1>3, <1>4 DEF ClipKinds
  <2>2. /\ ab \in Seq(Offered) /\ Distinct(ab) /\ Len(ab) = Len(a) + Len(b)
        /\ \A k \in DOMAIN ab : \/ k \in DOMAIN a /\ ab[k] = a[k]
                                \/ k - Len(a) \in DOMAIN b /\ ab[k] = b[k - Len(a)]
        /\ \A k \in DOMAIN b : Len(a) + k \in DOMAIN ab /\ ab[Len(a) + k] = b[k]
    BY <1>3, <1>4, <1>8, <2>1, Joined
  <2> QED
    BY <1>3, <1>4, <2>2
<1>10. \A k \in DOMAIN ab : ab[k].kind \in ClipKinds \cup {"screenshot", "chart"}
  BY <1>3, <1>4, <1>9
<1>11. PICK abw : abw = ab \o w
  OBVIOUS
<1>12. /\ abw \in Seq(Offered) /\ Distinct(abw) /\ Len(abw) \in Nat
       /\ \A k \in DOMAIN abw : (\E i \in DOMAIN ab : abw[k] = ab[i]) \/ (\E i \in DOMAIN w : abw[k] = w[i])
       /\ \A k \in DOMAIN ab : k \in DOMAIN abw /\ abw[k] = ab[k]
  <2>1. \A i \in DOMAIN ab, j \in DOMAIN w : ab[i] # w[j]
    BY <1>5, <1>6, <1>10 DEF ClipKinds
  <2>2. /\ abw \in Seq(Offered) /\ Distinct(abw) /\ Len(abw) = Len(ab) + Len(w)
        /\ Len(ab) \in Nat /\ Len(w) \in Nat
        /\ \A k \in DOMAIN abw : \/ k \in DOMAIN ab /\ abw[k] = ab[k]
                                 \/ k - Len(ab) \in DOMAIN w /\ abw[k] = w[k - Len(ab)]
        /\ \A k \in DOMAIN ab : k \in DOMAIN abw /\ abw[k] = ab[k]
    BY <1>6, <1>9, <1>11, <2>1, Joined
  <2> QED
    BY <2>2
<1>13. \A k \in DOMAIN abw : abw[k].kind \in ClipKinds \cup {"screenshot", "chart", "words"}
  BY <1>5, <1>6, <1>10, <1>12
<1>14. PICK o : o = abw \o c
  OBVIOUS
<1>15. /\ o \in Seq(Offered) /\ Distinct(o) /\ Len(o) = Len(abw) + 1
       /\ DOMAIN o = 1..(Len(abw) + 1)
       /\ \A k \in DOMAIN o : (\E i \in DOMAIN abw : o[k] = abw[i]) \/ o[k] = capture
       /\ \A k \in DOMAIN abw : k \in DOMAIN o /\ o[k] = abw[k]
       /\ o[Len(abw) + 1] = capture
  <2>1. \A i \in DOMAIN abw, j \in DOMAIN c : abw[i] # c[j]
    BY <1>5, <1>7, <1>13 DEF ClipKinds
  <2>2. /\ o \in Seq(Offered) /\ Distinct(o) /\ Len(o) = Len(abw) + Len(c)
        /\ DOMAIN o = 1..(Len(abw) + Len(c))
        /\ \A k \in DOMAIN o : \/ k \in DOMAIN abw /\ o[k] = abw[k]
                               \/ k - Len(abw) \in DOMAIN c /\ o[k] = c[k - Len(abw)]
        /\ \A k \in DOMAIN abw : k \in DOMAIN o /\ o[k] = abw[k]
        /\ \A k \in DOMAIN c : Len(abw) + k \in DOMAIN o /\ o[Len(abw) + k] = c[k]
    <3>1. c \in Seq(Offered) /\ Distinct(c)
      BY <1>7
    <3>2. abw \in Seq(Offered) /\ Distinct(abw)
      BY <1>12
    <3> QED
      BY <1>14, <2>1, <3>1, <3>2, Joined
  <2>3. \A k \in DOMAIN o : (\E i \in DOMAIN abw : o[k] = abw[i]) \/ o[k] = capture
    <3> SUFFICES ASSUME NEW k \in DOMAIN o
                 PROVE  (\E i \in DOMAIN abw : o[k] = abw[i]) \/ o[k] = capture
      OBVIOUS
    <3>1. CASE k \in DOMAIN abw /\ o[k] = abw[k]
      BY <3>1
    <3>2. CASE k - Len(abw) \in DOMAIN c /\ o[k] = c[k - Len(abw)]
      <4>1. k - Len(abw) = 1
        BY <1>7, <3>2
      <4> QED
        BY <1>7, <3>2, <4>1
    <3> QED
      BY <2>2, <3>1, <3>2
  <2>4. o[Len(abw) + 1] = capture
    <3>1. 1 \in DOMAIN c
      BY <1>7
    <3> QED
      BY <1>7, <2>2, <3>1
  <2> QED
    BY <1>7, <2>2, <2>3, <2>4
<1>16. Offers(q) = o
  BY <1>2, <1>8, <1>11, <1>14
<1>17. \A n \in DOMAIN o :
          \/ \E k \in DOMAIN a : o[n] = a[k]
          \/ \E k \in DOMAIN b : o[n] = b[k]
          \/ o[n] = word /\ "words" \in Requested(q.scene)
          \/ o[n] = capture
  <2> SUFFICES ASSUME NEW n \in DOMAIN o
               PROVE  \/ \E k \in DOMAIN a : o[n] = a[k]
                      \/ \E k \in DOMAIN b : o[n] = b[k]
                      \/ o[n] = word /\ "words" \in Requested(q.scene)
                      \/ o[n] = capture
    OBVIOUS
  <2>1. CASE o[n] = capture
    BY <2>1
  <2>2. CASE \E i \in DOMAIN abw : o[n] = abw[i]
    <3>1. PICK i \in DOMAIN abw : o[n] = abw[i]
      BY <2>2
    <3>2. CASE \E j \in DOMAIN ab : abw[i] = ab[j]
      BY <1>9, <3>1, <3>2
    <3>3. CASE \E j \in DOMAIN w : abw[i] = w[j]
      BY <1>6, <3>1, <3>3
    <3> QED
      BY <1>12, <3>2, <3>3
  <2> QED
    BY <1>15, <2>1, <2>2
<1>18. ASSUME a = <<>>, b # <<>> PROVE o[1].kind \in {"screenshot", "chart"}
  <2>1. Len(a) = 0 /\ 1 \in DOMAIN b
    BY <1>4, <1>18
  <2>2. 1 \in DOMAIN ab /\ ab[1] = b[1]
    <3>1. Len(a) + 1 \in DOMAIN ab /\ ab[Len(a) + 1] = b[1] /\ Len(a) + 1 = 1
      BY <1>9, <2>1
    <3> QED
      BY <3>1
  <2>3. o[1] = b[1]
    BY <1>12, <1>15, <2>2
  <2> QED
    BY <1>4, <2>1, <2>3
<1>19. Len(o) \in Nat /\ Len(o) >= 1 /\ DOMAIN o = 1..Len(o) /\ o[Len(o)] = capture
  BY <1>12, <1>15
<1> QED
  BY <1>1, <1>5, <1>15, <1>16, <1>17, <1>18, <1>19

\* An offer of a clip stands for clips that may be used.
LEMMA ClipUsable ==
  ASSUME NEW q \in RouteQuestions, NEW o \in Found(q) \cup Assembled(q)
  PROVE  /\ o.kind \in Requested(q.scene) /\ o.kind \in ClipKinds
         /\ \A c \in Source(q, o) :
              ~c.restricted /\ c.length >= q.scene.target /\ (c.kind = "talking" => c.admitted)
<1>1. /\ \A r \in q.runs : r.kind = "talking"
      /\ \A c, d \in q.hits \cup q.runs : c.id = d.id => c = d
  BY DEF RouteQuestions
<1>2. PICK h \in q.hits \cup q.runs : Eligible(q.scene, h) /\ o.kind = h.kind /\ o.id = h.id
  <2>1. CASE o \in Found(q)
    BY <2>1 DEF Found, Offer
  <2>2. CASE o \in Assembled(q)
    BY <1>1, <2>2 DEF Assembled, Offer
  <2> QED
    BY <2>1, <2>2
<1>3. \A c \in Source(q, o) : c = h
  BY <1>1, <1>2 DEF Source
<1> QED
  BY <1>2, <1>3 DEF Eligible

LEMMA RouteAnswers ==
  ASSUME asked \in RouteQuestions, Answer
  PROVE  RulesSound'
<1>0. asked.rule = "route" /\ "net" \notin DOMAIN asked
  BY DEF RouteQuestions
<1>1. Route
  BY <1>0 DEF Answer, Assemble, PlanSeries, SelectReference, Suggest, Deliver, Compose, Verify, Observe,
              TranscribeSpeech, Listen, DescribeFrame, Embed, PlanScenes, Synthesize, Talk
<1>2. PICK q \in RouteQuestions : q = asked
  OBVIOUS
<1>3. PICK offers, n : offers = Offers(q) /\ n = Recommended(q)
  OBVIOUS
<1>4. asked' = asked /\ answer' = [kind |-> "route", offers |-> offers, recommended |-> n]
  BY <1>1, <1>2, <1>3 DEF Route, AnswersOneOf
<1>5. answer'.kind = "route" /\ answer'.offers = offers /\ answer'.recommended = n
  BY <1>4
<1>6. PICK c, S : c = Clips(q) /\ S = Found(q) \cup Assembled(q)
  OBVIOUS
<1>7. /\ c \in Seq(Offered) /\ Distinct(c) /\ Len(c) \in Nat /\ DOMAIN c = 1..Len(c)
      /\ \A o \in S : o \in Offered /\ o.kind \in ClipKinds /\ o.score \in Int
      /\ \A k \in DOMAIN c : c[k] \in S
      /\ c = <<>> <=> S = {}
      /\ c # <<>> => \A o \in S : o.score <= c[1].score
      /\ c # <<>> => 1 \in DOMAIN c
  <2>1. /\ c \in Seq(Offered) /\ Distinct(c) /\ Len(c) \in Nat
        /\ \A o \in S : o \in Offered /\ o.kind \in ClipKinds
        /\ \A k \in DOMAIN c : c[k] \in S
        /\ c = <<>> <=> S = {}
        /\ c # <<>> => \A o \in S : o.score <= c[1].score
    BY <1>6, ClipsAre
  <2>2. DOMAIN c = 1..Len(c) /\ (c # <<>> => 1 \in DOMAIN c)
    BY <2>1
  <2>3. \A o \in Offered : o.score \in Int
    BY DEF Offered
  <2> QED
    BY <2>1, <2>2, <2>3
<1>8. \A o \in S : /\ o.kind \in Requested(q.scene) /\ o.kind \in ClipKinds
                   /\ \A x \in Source(q, o) :
                        ~x.restricted /\ x.length >= q.scene.target /\ (x.kind = "talking" => x.admitted)
  BY <1>6, ClipUsable
<1> DEFINE good == {o \in S : o.score >= Threshold}
<1>9. OffersUsable(q, offers) /\ n \in DOMAIN offers /\ RecommendedWell(q, offers, n)
  <2>1. CASE ~NeedsCapture(c)
    <3>1. offers = c /\ n = 1
      BY <1>3, <1>6, <2>1 DEF Offers, Recommended
    <3>2. c # <<>> /\ 1 \in DOMAIN c /\ c[1] \in S /\ c[1].score >= Threshold
      <4>1. c # <<>> /\ ~(c[1].score < Threshold)
        BY <2>1 DEF NeedsCapture
      <4> QED
        BY <1>7, <4>1 DEF Threshold
    <3>3. \A k \in DOMAIN c : /\ c[k].kind \in Requested(q.scene) /\ c[k].kind \in ClipKinds
                              /\ \A x \in Source(q, c[k]) :
                                   ~x.restricted /\ x.length >= q.scene.target /\ (x.kind = "talking" => x.admitted)
      BY <1>7, <1>8
    <3>4. \A k \in DOMAIN c : c[k].kind \notin {"screenshot", "chart", "words", "capture"}
      BY <3>3 DEF ClipKinds
    <3>5. OffersUsable(q, offers)
      BY <1>7, <3>1, <3>3, <3>4 DEF OffersUsable, Distinct
    <3>6. RecommendedWell(q, offers, n)
      <4>1. good # {} /\ c[1] \in good /\ \A o \in good : o.score <= c[1].score
        BY <1>7, <3>2
      <4> QED
        BY <1>6, <3>1, <3>2, <3>3, <3>4, <4>1 DEF RecommendedWell
    <3> QED
      BY <3>1, <3>2, <3>5, <3>6
  <2>2. CASE NeedsCapture(c)
    <3>1. /\ offers \in Seq(Offered) /\ Distinct(offers) /\ Len(offers) \in Nat
          /\ Len(offers) >= 1 /\ DOMAIN offers = 1..Len(offers)
          /\ offers[Len(offers)] = Offer("capture", 0, 0)
          /\ \A k \in DOMAIN offers :
              \/ \E i \in DOMAIN c : offers[k] = c[i]
              \/ \E i \in DOMAIN Stills(q) : offers[k] = Stills(q)[i]
              \/ offers[k] = Offer("words", 0, 0) /\ "words" \in Requested(q.scene)
              \/ offers[k] = Offer("capture", 0, 0)
          /\ c = <<>> /\ Stills(q) # <<>> => offers[1].kind \in {"screenshot", "chart"}
      BY <1>3, <1>6, <2>2, WithGap
    <3>2. /\ Offer("capture", 0, 0).kind = "capture" /\ Offer("words", 0, 0).kind = "words"
      BY DEF Offer
    <3>3. good = {}
      <4>1. CASE c = <<>>
        BY <1>7, <4>1
      <4>2. CASE c # <<>>
        <5>1. c[1].score < Threshold /\ c[1] \in S
          BY <1>7, <2>2, <4>2 DEF NeedsCapture
        <5> QED
          BY <1>7, <4>2, <5>1 DEF Threshold
      <4> QED
        BY <4>1, <4>2
    <3>4. \A k \in DOMAIN Stills(q) :
              /\ Stills(q)[k].kind \in {"screenshot", "chart"} /\ Stills(q)[k].kind \in Requested(q.scene)
              /\ \E i \in DOMAIN q.images : q.images[i].id = Stills(q)[k].id /\ ~q.images[i].restricted
      BY StillsAre
    <3>5. OffersUsable(q, offers)
      <4>1. ASSUME NEW k \in DOMAIN offers
            PROVE  /\ offers[k].kind \in ClipKinds =>
                        \A x \in Source(q, offers[k]) :
                            ~x.restricted /\ x.length >= q.scene.target /\ (x.kind = "talking" => x.admitted)
                   /\ offers[k].kind \in {"screenshot", "chart"} =>
                        \E i \in DOMAIN q.images : q.images[i].id = offers[k].id /\ ~q.images[i].restricted
                   /\ offers[k].kind # "capture" => offers[k].kind \in Requested(q.scene)
        <5>1. CASE \E i \in DOMAIN c : offers[k] = c[i]
          <6>1. offers[k] \in S
            BY <1>7, <5>1
          <6> QED
            BY <1>8, <6>1 DEF ClipKinds
        <5>2. CASE \E i \in DOMAIN Stills(q) : offers[k] = Stills(q)[i]
          BY <3>4, <5>2 DEF ClipKinds
        <5>3. CASE offers[k] = Offer("words", 0, 0) /\ "words" \in Requested(q.scene)
          BY <3>2, <5>3 DEF ClipKinds
        <5>4. CASE offers[k] = Offer("capture", 0, 0)
          BY <3>2, <5>4 DEF ClipKinds
        <5> QED
          BY <3>1, <5>1, <5>2, <5>3, <5>4
      <4> QED
        BY <3>1, <4>1 DEF OffersUsable, Distinct
    <3>6. /\ n \in DOMAIN offers /\ offers[n].kind \notin ClipKinds
          /\ offers[n].kind \in {"screenshot", "chart"} => S = {}
          /\ offers[n].kind = "words" => WordsWillDo(q.scene)
      <4> DEFINE words == {k \in DOMAIN offers : offers[k].kind = "words"}
      <4>1. CASE words # {} /\ WordsWillDo(q.scene)
        <5>1. n = Max(words)
          BY <1>3, <1>6, <2>2, <4>1 DEF Recommended
        <5>2. words \in SUBSET Nat /\ \A k \in words : k <= Len(offers)
          BY <3>1
        <5>3. \A k \in words : k \in DOMAIN offers /\ offers[k].kind = "words"
          OBVIOUS
        <5> HIDE DEF words
        <5>4. n \in words
          BY <3>1, <4>1, <5>1, <5>2, Greatest
        <5>5. n \in DOMAIN offers /\ offers[n].kind = "words"
          BY <5>3, <5>4
        <5> QED
          BY <4>1, <5>5 DEF ClipKinds
      <4>2. CASE ~(words # {} /\ WordsWillDo(q.scene))
        <5>1. n = IF c = <<>> /\ Stills(q) # <<>> THEN 1 ELSE Len(offers)
          BY <1>3, <1>6, <2>2, <4>2 DEF Recommended
        <5>2. CASE c = <<>> /\ Stills(q) # <<>>
          <6>1. n = 1 /\ offers[1].kind \in {"screenshot", "chart"} /\ S = {}
            BY <1>7, <3>1, <5>1, <5>2
          <6> QED
            BY <3>1, <6>1 DEF ClipKinds
        <5>3. CASE ~(c = <<>> /\ Stills(q) # <<>>)
          <6>1. n = Len(offers) /\ offers[n].kind = "capture"
            BY <3>1, <3>2, <5>1, <5>3
          <6> QED
            BY <3>1, <6>1 DEF ClipKinds
        <5> QED
          BY <5>2, <5>3
      <4> QED
        BY <4>1, <4>2
    <3>7. Last(offers).kind = "capture"
      BY <3>1, <3>2 DEF Last
    <3>8. offers[n].kind = "words" =>
            /\ q.scene.requires \notin {"creator_speaking", "action_evidence"}
            /\ "words" \in q.scene.preferred \/ q.scene.requires = "explanatory"
      BY <3>6 DEF WordsWillDo
    <3>9. RecommendedWell(q, offers, n)
      BY <1>6, <3>3, <3>6, <3>7, <3>8 DEF RecommendedWell
    <3> QED
      BY <3>5, <3>6, <3>9
  <2> QED
    BY <2>1, <2>2
<1>10. RoutingSound'
  BY <1>2, <1>4, <1>5, <1>9 DEF RoutingSound
<1>11. VideoSound' /\ NarrationSound'
  <2>1. asked'.rule = "route" /\ answer'.kind = "route" /\ answer' # Refused
    BY <1>0, <1>4, <1>5, KindOfNothing
  <2>2. VideoSound'
    BY <2>1 DEF VideoSound, MasterVideoSound, SceneVideoSound
  <2>3. NarrationSound'
    BY <2>1 DEF NarrationSound, DeliverySound, EvidenceSound
  <2> QED
    BY <2>2, <2>3
<1>12. SeriesSound'
  BY <1>0, <1>4, <1>5 DEF SeriesSound
<1>13. TruthTold'
  BY <1>0, <1>4, <1>5 DEF TruthTold
<1>14. SpeechKept' /\ VectorsKept' /\ PlanKept' /\ TalkingKept'
  BY <1>0, <1>4, <1>5 DEF SpeechKept, VectorsKept, PlanKept, TalkingKept
<1> QED
  BY <1>10, <1>11, <1>12, <1>13, <1>14 DEF RulesSound, AnswersSound

-----------------------------------------------------------------------------
(* What the model on this machine hears. FlattenSeq is a recursive          *)
(* function; that there is one follows from its values on the first n       *)
(* sequences, by the smallest n without one.                                *)

FlattenStep(f, s, i) == IF i = 1 THEN s[i] ELSE f[i - 1] \o s[i]

FlattensUpTo(f, s, n) == f = [i \in 1..n |-> FlattenStep(f, s, i)]

LEMMA FlattenSeqIs ==
  ASSUME NEW s
  PROVE  FlattenSeq(s) = IF Len(s) = 0 THEN s ELSE (CHOOSE f : FlattensUpTo(f, s, Len(s)))[Len(s)]
BY DEF FlattenSeq, FlattensUpTo, FlattenStep

LEMMA FlattenExists ==
  ASSUME NEW s, NEW n \in Nat
  PROVE  \E f : FlattensUpTo(f, s, n)
<1> DEFINE Bad == {m \in Nat : ~ \E f : FlattensUpTo(f, s, m)}
<1>1. Bad = {}
  <2> SUFFICES ASSUME Bad # {} PROVE FALSE
    OBVIOUS
  <2>1. PICK m \in Nat : (~ \E f : FlattensUpTo(f, s, m)) /\ (m # 0 => m - 1 \notin Bad)
    <3>1. Bad \in SUBSET Nat /\ \A m \in Bad : ~ \E f : FlattensUpTo(f, s, m)
      OBVIOUS
    <3> HIDE DEF Bad
    <3>2. PICK m \in Bad : \A i \in Bad : m <= i
      BY <3>1, Least
    <3>3. m \in Nat /\ (m # 0 => m - 1 \in Nat) /\ ~(m <= m - 1)
      BY <3>1
    <3> QED
      BY <3>1, <3>2, <3>3
  <2>2. m # 0
    <3> SUFFICES ASSUME m = 0 PROVE FALSE
      OBVIOUS
    <3> DEFINE f == [i \in 1..0 |-> 0]
    <3>1. f = [i \in 1..0 |-> FlattenStep(f, s, i)]
      OBVIOUS
    <3> HIDE DEF f
    <3>2. FlattensUpTo(f, s, 0)
      BY <3>1 DEF FlattensUpTo
    <3> QED
      BY <2>1, <3>2
  <2>3. PICK f : FlattensUpTo(f, s, m - 1)
    <3>1. m - 1 \in Nat
      BY <2>2
    <3> QED
      BY <2>1, <2>2, <3>1
  <2> HIDE DEF Bad
  <2> DEFINE g == [i \in 1..m |-> FlattenStep(f, s, i)]
  <2>4. \A i \in 1..m : g[i] = FlattenStep(f, s, i)
    OBVIOUS
  <2>5. \A i \in 1..(m - 1) : f[i] = FlattenStep(f, s, i)
    BY <2>3 DEF FlattensUpTo
  <2>6. g = [i \in 1..m |-> g[i]]
    OBVIOUS
  <2> HIDE DEF g
  <2>7. \A i \in 1..m : FlattenStep(g, s, i) = g[i]
    <3> SUFFICES ASSUME NEW i \in 1..m PROVE FlattenStep(g, s, i) = g[i]
      OBVIOUS
    <3>1. CASE i = 1
      BY <2>4, <3>1 DEF FlattenStep
    <3>2. CASE i # 1
      <4>1. i - 1 \in 1..m /\ i - 1 \in 1..(m - 1)
        BY <3>2
      <4>2. g[i - 1] = f[i - 1]
        BY <2>4, <2>5, <4>1
      <4> QED
        BY <2>4, <3>2, <4>2 DEF FlattenStep
    <3> QED
      BY <3>1, <3>2
  <2>8. FlattensUpTo(g, s, m)
    BY <2>6, <2>7 DEF FlattensUpTo
  <2> QED
    BY <2>1, <2>8
<1> QED
  BY <1>1

\* A member of the whole is a member of one of the sequences it is made of.
LEMMA FlattenIs ==
  ASSUME NEW T, NEW s \in Seq(Seq(T))
  PROVE  /\ FlattenSeq(s) \in Seq(T)
         /\ \A k \in DOMAIN FlattenSeq(s) :
              \E j \in DOMAIN s : \E i \in DOMAIN s[j] : FlattenSeq(s)[k] = s[j][i]
<1>1. Len(s) \in Nat /\ DOMAIN s = 1..Len(s) /\ \A j \in 1..Len(s) : s[j] \in Seq(T)
  OBVIOUS
<1> DEFINE From(v) == v \in Seq(T) /\ \A k \in DOMAIN v : \E j \in DOMAIN s : \E i \in DOMAIN s[j] : v[k] = s[j][i]
<1>2. CASE Len(s) = 0
  <2>1. FlattenSeq(s) = s /\ s = <<>>
    BY <1>1, <1>2, FlattenSeqIs
  <2> QED
    BY <2>1
<1>3. CASE Len(s) # 0
  <2>1. PICK f : FlattensUpTo(f, s, Len(s)) /\ FlattenSeq(s) = f[Len(s)]
    BY <1>1, <1>3, FlattenExists, FlattenSeqIs
  <2>2. \A i \in 1..Len(s) : f[i] = FlattenStep(f, s, i)
    BY <2>1 DEF FlattensUpTo
  <2> DEFINE Bad == {m \in 1..Len(s) : ~From(f[m])}
  <2>3. ASSUME NEW j \in 1..Len(s) PROVE From(s[j])
    BY <1>1
  <2>4. ASSUME NEW u, NEW v, From(u), From(v) PROVE From(u \o v)
    <3>1. /\ u \in Seq(T) /\ v \in Seq(T) /\ u \o v \in Seq(T)
          /\ Len(u) \in Nat /\ Len(v) \in Nat /\ DOMAIN u = 1..Len(u) /\ DOMAIN v = 1..Len(v)
          /\ DOMAIN (u \o v) = 1..(Len(u) + Len(v))
      BY <2>4
    <3>2. ASSUME NEW k \in DOMAIN (u \o v)
          PROVE  \E j \in DOMAIN s : \E i \in DOMAIN s[j] : (u \o v)[k] = s[j][i]
      <4>1. CASE k <= Len(u)
        <5>1. k \in DOMAIN u /\ (u \o v)[k] = u[k]
          BY <3>1, <4>1
        <5> QED
          BY <2>4, <5>1
      <4>2. CASE ~(k <= Len(u))
        <5>1. k - Len(u) \in DOMAIN v /\ (u \o v)[k] = v[k - Len(u)]
          BY <3>1, <4>2
        <5> QED
          BY <2>4, <5>1
      <4> QED
        BY <4>1, <4>2
    <3> QED
      BY <3>1, <3>2
  <2> HIDE DEF From
  <2>5. Bad = {}
    <3> SUFFICES ASSUME Bad # {} PROVE FALSE
      OBVIOUS
    <3>1. Bad \in SUBSET Nat /\ \A m \in Bad : m \in 1..Len(s) /\ ~From(f[m])
      BY <1>1
    <3>2. \A m \in 1..Len(s) : m \notin Bad => From(f[m])
      OBVIOUS
    <3> HIDE DEF Bad
    <3>3. PICK m \in Bad : \A i \in Bad : m <= i
      BY <3>1, Least
    <3>4. CASE m = 1
      <4>1. f[m] = s[m]
        BY <2>2, <3>1, <3>4 DEF FlattenStep
      <4> QED
        BY <2>3, <3>1, <4>1
    <3>5. CASE m # 1
      <4>1. m - 1 \in 1..Len(s) /\ ~(m <= m - 1)
        BY <3>1, <3>5
      <4>2. From(f[m - 1])
        BY <3>2, <3>3, <4>1
      <4>3. f[m] = f[m - 1] \o s[m]
        BY <2>2, <3>1, <3>5 DEF FlattenStep
      <4> QED
        BY <2>3, <2>4, <3>1, <4>2, <4>3
    <3> QED
      BY <3>4, <3>5
  <2>6. From(FlattenSeq(s))
    BY <1>1, <1>3, <2>1, <2>5
  <2> QED
    BY <2>6 DEF From
<1> QED
  BY <1>2, <1>3

\* The times of a sequence have a last one.
LEMMA Bounded ==
  ASSUME NEW n \in Nat, NEW v, \A i \in 1..n : v[i] \in Nat
  PROVE  \E b \in Nat : \A i \in 1..n : v[i] <= b
<1> DEFINE Bound(m) == \E b \in Nat : \A i \in 1..m : v[i] <= b
           Bad == {m \in 0..n : ~Bound(m)}
<1>1. Bound(0)
  <2>1. \A i \in 1..0 : v[i] <= 0
    OBVIOUS
  <2> QED
    BY <2>1
<1>2. ASSUME NEW m \in 1..n, Bound(m - 1) PROVE Bound(m)
  <2>1. PICK b \in Nat : \A i \in 1..(m - 1) : v[i] <= b
    BY <1>2
  <2>2. v[m] \in Nat /\ v[m] + b \in Nat
    OBVIOUS
  <2>3. ASSUME NEW i \in 1..m PROVE v[i] <= v[m] + b
    <3>1. CASE i = m
      BY <2>2, <3>1
    <3>2. CASE i # m
      <4>1. v[i] <= b /\ v[i] \in Nat
        BY <2>1, <3>2
      <4> QED
        BY <2>2, <4>1
    <3> QED
      BY <3>1, <3>2
  <2> QED
    BY <2>2, <2>3
<1> HIDE DEF Bound
<1>3. Bad = {}
  <2> SUFFICES ASSUME Bad # {} PROVE FALSE
    OBVIOUS
  <2>1. Bad \in SUBSET Nat /\ \A m \in Bad : m \in 0..n /\ ~Bound(m)
    OBVIOUS
  <2>2. \A m \in 0..n : m \notin Bad => Bound(m)
    OBVIOUS
  <2> HIDE DEF Bad
  <2>3. PICK m \in Bad : \A i \in Bad : m <= i
    BY <2>1, Least
  <2>4. m \in 1..n /\ m - 1 \in 0..n /\ ~(m <= m - 1)
    BY <1>1, <2>1, <2>3
  <2>5. Bound(m - 1)
    BY <2>2, <2>3, <2>4
  <2> QED
    BY <1>2, <2>1, <2>3, <2>4, <2>5
<1>4. Bound(n)
  BY <1>3
<1> QED
  BY <1>4 DEF Bound

HeardTimes == Nat \cup {-1, NoTime}

HeardWord == [text : BOOLEAN, start : HeardTimes, end : HeardTimes]

HeardSegment == [text : BOOLEAN, start : HeardTimes, end : HeardTimes, words : Seq(HeardWord)]

ListenQuestions ==
    [rule : {"listen"}, strict : BOOLEAN, stamps : BOOLEAN, settings : SUBSET STRING, input : SUBSET STRING,
     model : {"loads", "missing", "breaks"}, heard : Seq(HeardSegment)]

LEMMA HeardTimesAre == NoTime = -2 /\ \A t \in HeardTimes : t \in Int /\ t + 2 \in Nat
BY DEF HeardTimes, NoTime

LEMMA EarliestTime ==
  ASSUME NEW S \in SUBSET HeardTimes, S # {}
  PROVE  Min(S) \in S /\ \A t \in S : Min(S) <= t
<1> DEFINE Up == {t + 2 : t \in S}
<1>1. Up \in SUBSET Nat /\ Up # {}
  BY HeardTimesAre
<1>2. \A m \in Up : \E t \in S : m = t + 2
  OBVIOUS
<1>3. \A t \in S : t + 2 \in Up
  OBVIOUS
<1> HIDE DEF Up
<1>4. PICK m \in Up : \A n \in Up : m <= n
  BY <1>1, Least
<1>5. PICK x \in S : m = x + 2
  BY <1>2
<1>6. \A t \in S : x <= t
  BY <1>3, <1>4, <1>5, HeardTimesAre
<1> QED
  BY <1>5, <1>6 DEF Min

LEMMA LatestTime ==
  ASSUME NEW S \in SUBSET HeardTimes, S # {}, NEW b \in Nat, \A t \in S : t + 2 <= b
  PROVE  Max(S) \in S /\ \A t \in S : t <= Max(S)
<1> DEFINE Up == {t + 2 : t \in S}
<1>1. Up \in SUBSET Nat /\ Up # {} /\ \A n \in Up : n <= b
  BY HeardTimesAre
<1>2. \A m \in Up : \E t \in S : m = t + 2
  OBVIOUS
<1>3. \A t \in S : t + 2 \in Up
  OBVIOUS
<1> HIDE DEF Up
<1>4. PICK m \in Up : \A n \in Up : n <= m
  BY <1>1, Greatest
<1>5. PICK x \in S : m = x + 2
  BY <1>2
<1>6. \A t \in S : t <= x
  BY <1>3, <1>4, <1>5, HeardTimesAre
<1>7. \A t \in S : x >= t
  BY <1>6, HeardTimesAre
<1> QED
  BY <1>5, <1>6, <1>7 DEF Max

\* A segment spans its words that take time, or is where the model puts it.
LEMMA WordSpanIs ==
  ASSUME NEW g \in HeardSegment
  PROVE  /\ WordSpan(g).start \in HeardTimes /\ WordSpan(g).end \in HeardTimes
         /\ \A i \in DOMAIN g.words :
              g.words[i].start # NoTime /\ g.words[i].end # NoTime /\ g.words[i].end > g.words[i].start =>
                  WordSpan(g).start <= g.words[i].start /\ g.words[i].end <= WordSpan(g).end
         /\ g.words = <<>> => WordSpan(g) = AsPlaced(g)
<1> DEFINE timed == {w \in Range(g.words) : w.start # NoTime /\ w.end # NoTime /\ w.end > w.start}
           from == {w.start : w \in timed}
           to == {w.end : w \in timed}
<1>1. /\ g.words \in Seq(HeardWord) /\ g.start \in HeardTimes /\ g.end \in HeardTimes /\ Len(g.words) \in Nat
      /\ DOMAIN g.words = 1..Len(g.words)
      /\ \A i \in DOMAIN g.words : g.words[i] \in HeardWord
  BY DEF HeardSegment
<1>2. \A w \in Range(g.words) : w \in HeardWord /\ \E i \in DOMAIN g.words : g.words[i] = w
  BY <1>1 DEF Range
<1>3. WordSpan(g) = IF timed = {} THEN AsPlaced(g) ELSE [start |-> Min(from), end |-> Max(to)]
  BY DEF WordSpan, AsPlaced
<1>4. AsPlaced(g).start = g.start /\ AsPlaced(g).end = g.end
  BY DEF AsPlaced
<1>5. CASE timed = {}
  <2>1. WordSpan(g).start \in HeardTimes /\ WordSpan(g).end \in HeardTimes /\ WordSpan(g) = AsPlaced(g)
    BY <1>1, <1>3, <1>4, <1>5
  <2>2. \A i \in DOMAIN g.words :
            ~(g.words[i].start # NoTime /\ g.words[i].end # NoTime /\ g.words[i].end > g.words[i].start)
    <3>1. \A i \in DOMAIN g.words : g.words[i] \in Range(g.words)
      BY DEF Range
    <3> QED
      BY <1>5, <3>1
  <2> QED
    BY <2>1, <2>2
<1>6. CASE timed # {}
  <2>1. \A w \in timed : w.start \in HeardTimes /\ w.end \in HeardTimes
    BY <1>2 DEF HeardWord
  <2>2. from \in SUBSET HeardTimes /\ from # {} /\ to \in SUBSET HeardTimes /\ to # {}
    BY <1>6, <2>1
  <2>3. PICK b \in Nat : \A i \in 1..Len(g.words) : g.words[i].end + 2 <= b
    <3> DEFINE v == [i \in 1..Len(g.words) |-> g.words[i].end + 2]
    <3>1. \A i \in 1..Len(g.words) : g.words[i].end + 2 \in Nat /\ v[i] = g.words[i].end + 2
      BY <1>1, HeardTimesAre DEF HeardWord
    <3> HIDE DEF v
    <3>2. \A i \in 1..Len(g.words) : v[i] \in Nat
      BY <3>1
    <3>3. \E b \in Nat : \A i \in 1..Len(g.words) : v[i] <= b
      BY <1>1, <3>2, Bounded
    <3> QED
      BY <3>1, <3>3
  <2>4. \A t \in to : t + 2 <= b
    <3> SUFFICES ASSUME NEW t \in to PROVE t + 2 <= b
      OBVIOUS
    <3>1. PICK w \in timed : t = w.end
      OBVIOUS
    <3>2. PICK i \in DOMAIN g.words : g.words[i] = w
      BY <1>2
    <3> QED
      BY <1>1, <2>3, <3>1, <3>2
  <2>5. \A i \in DOMAIN g.words :
            g.words[i].start # NoTime /\ g.words[i].end # NoTime /\ g.words[i].end > g.words[i].start =>
                g.words[i].start \in from /\ g.words[i].end \in to
    <3>1. \A i \in DOMAIN g.words : g.words[i] \in Range(g.words)
      BY DEF Range
    <3>2. \A w \in timed : w.start \in from /\ w.end \in to
      OBVIOUS
    <3>3. \A i \in DOMAIN g.words :
            g.words[i].start # NoTime /\ g.words[i].end # NoTime /\ g.words[i].end > g.words[i].start =>
                g.words[i] \in timed
      BY <3>1
    <3> HIDE DEF timed, from, to
    <3> QED
      BY <3>2, <3>3
  <2>6. g.words # <<>>
    <3>1. g.words = <<>> => Range(g.words) = {}
      BY <1>2
    <3> QED
      BY <1>6, <3>1
  <2>7. WordSpan(g).start = Min(from) /\ WordSpan(g).end = Max(to)
    BY <1>3, <1>6
  <2> HIDE DEF timed, from, to
  <2>8. Min(from) \in from /\ \A t \in from : Min(from) <= t
    BY <2>2, EarliestTime
  <2>9. Max(to) \in to /\ \A t \in to : t <= Max(to)
    BY <2>2, <2>4, LatestTime
  <2> QED
    BY <2>2, <2>5, <2>6, <2>7, <2>8, <2>9
<1> QED
  BY <1>5, <1>6

LEMMA TickIs == Tick \in Nat /\ Tick > 0
BY AnswersAssumption

\* In milliseconds a span covers what it covers in ticks, and itself.
LEMMA OutwardCovers ==
  ASSUME NEW a \in Nat, NEW b \in Nat, NEW s \in Nat, NEW e \in Nat, a <= s, e <= b
  PROVE  /\ Outward(a, b).start \in Nat /\ Outward(a, b).end \in Nat
         /\ Outward(s, e).start \in Nat /\ Outward(s, e).end \in Nat
         /\ Outward(a, b).start <= Outward(s, e).start /\ Outward(s, e).end <= Outward(a, b).end
         /\ Outward(a, b).start * Tick <= a /\ b <= Outward(a, b).end * Tick
<1>0. PICK u \in Nat : u = Tick /\ u > 0
  BY TickIs
<1>1. /\ Outward(a, b).start = a \div u /\ Outward(s, e).start = s \div u
      /\ Outward(a, b).end = -((-b) \div u) /\ Outward(s, e).end = -((-e) \div u)
  BY <1>0 DEF Outward, RoundedUp
<1>2. \A x, y \in Int : x <= y => x \div u <= y \div u
  <2> SUFFICES ASSUME NEW x \in Int, NEW y \in Int, x <= y, ~(x \div u <= y \div u) PROVE FALSE
    BY <1>0
  <2>1. PICK p \in Int, q \in Int : p = x \div u /\ q = y \div u /\ u * p <= x /\ y < u * q + u
    BY <1>0
  <2>2. p >= q + 1
    BY <2>1
  <2>3. u * p >= u * (q + 1)
    BY <1>0, <2>1, <2>2
  <2>4. u * (q + 1) = u * q + u
    BY <1>0, <2>1
  <2> QED
    BY <1>0, <2>1, <2>3, <2>4
<1>3. a \div u \in Nat /\ s \div u \in Nat /\ (a \div u) * u <= a
  BY <1>0
<1>4. /\ RoundedUp(b, u) \in Nat /\ RoundedUp(b, u) * u >= b /\ RoundedUp(e, u) \in Nat
      /\ RoundedUp(b, u) = -((-b) \div u) /\ RoundedUp(e, u) = -((-e) \div u)
  BY <1>0, RoundsUp DEF RoundedUp
<1>5. a \div u <= s \div u /\ (-b) \div u <= (-e) \div u
  BY <1>2
<1>6. -((-e) \div u) <= -((-b) \div u)
  <2>1. (-b) \div u \in Int /\ (-e) \div u \in Int
    BY <1>0
  <2> QED
    BY <1>5, <2>1
<1> QED
  BY <1>0, <1>1, <1>3, <1>4, <1>5, <1>6

\* What takes time in ticks takes time in milliseconds.
LEMMA StillLasts ==
  ASSUME NEW a \in Nat, NEW b \in Nat, a < b
  PROVE  LastsIn(Outward(a, b))
<1>a. /\ Outward(a, b).start \in Nat /\ Outward(a, b).end \in Nat
      /\ Outward(a, b).start * Tick <= a /\ b <= Outward(a, b).end * Tick
  <2>1. a <= a /\ b <= b
    OBVIOUS
  <2> QED
    BY <2>1, OutwardCovers
<1>0. PICK u \in Nat, x \in Nat, y \in Nat : u = Tick /\ u > 0 /\ x = Outward(a, b).start /\ y = Outward(a, b).end
  BY <1>a, TickIs
<1>1. x * u <= a /\ b <= y * u
  BY <1>a, <1>0
<1>2. ~(y <= x)
  <2> SUFFICES ASSUME y <= x PROVE FALSE
    OBVIOUS
  <2>1. y * u <= x * u
    BY <1>0
  <2>2. x * u \in Nat /\ y * u \in Nat
    BY <1>0
  <2> QED
    BY <1>1, <2>1, <2>2
<1> QED
  BY <1>0, <1>2 DEF LastsIn

\* Everything at the places is chosen.
LEMMA ChosenHas ==
  ASSUME NEW T, NEW s \in Seq(T), NEW places \in SUBSET (DOMAIN s)
  PROVE  /\ Cardinality(places) \in Nat /\ Len(Chosen(s, places)) = Cardinality(places)
         /\ \A p \in places : s[p] \in Range(Chosen(s, places))
<1>1. PICK c : c = Chosen(s, places)
  OBVIOUS
<1>2. /\ Cardinality(places) \in Nat /\ c \in Seq(T) /\ Len(c) = Cardinality(places)
      /\ \E f \in [1..Cardinality(places) -> places] :
            /\ \A k \in 1..Cardinality(places) : c[k] = s[f[k]]
            /\ \A p \in places : \E k \in 1..Cardinality(places) : f[k] = p
  BY <1>1, ChosenIs
<1>3. DOMAIN c = 1..Cardinality(places)
  BY <1>2
<1>4. ASSUME NEW p \in places PROVE s[p] \in Range(c)
  <2>1. PICK k \in DOMAIN c : c[k] = s[p]
    BY <1>2, <1>3
  <2> QED
    BY <2>1 DEF Range
<1> QED
  BY <1>1, <1>2, <1>4

\* What SpeechKept asks of a transcript (ProviderAnswers).
SpeechOf(q, h) ==
    LET told == Texted(q)
        words == FlattenSeq([k \in DOMAIN told |-> told[k].words])
    IN  /\ h.words # <<>> =>
            /\ Len(h.words) = Len(words)
            /\ \A k \in DOMAIN words : LastsIn(words[k]) =>
                  \E s \in Range(h.segments) : s.start <= h.words[k].start /\ h.words[k].end <= s.end
        /\ \A k \in DOMAIN told : LastsIn(told[k]) /\ told[k].words = <<>> =>
              \E s \in Range(h.segments) : s.start * Tick <= told[k].start /\ told[k].end <= s.end * Tick
        /\ q.strict => Len(h.segments) = Len(told)

LEMMA HeardIs ==
  ASSUME NEW q \in ListenQuestions, NEW h, h = HeardLocally(q)
  PROVE  h = Malformed \/ (h.kind = "transcript" /\ SpeechOf(q, h))
<1>0. PICK told : told = Texted(q)
  OBVIOUS
<1> DEFINE all == FlattenSeq([k \in DOMAIN told |-> told[k].words])
           words == IF q.stamps THEN all ELSE <<>>
           sound == \A w \in Range(words) : WordStands(w)
           span == [k \in DOMAIN told |-> IF q.stamps THEN WordSpan(told[k]) ELSE AsPlaced(told[k])]
           placed == [k \in DOMAIN told |-> Outward(span[k].start, span[k].end)]
           places == {k \in DOMAIN placed : LastsIn(placed[k])}
           bad == \/ \E k \in DOMAIN told : ~Measured(span[k].start) \/ ~Measured(span[k].end)
                  \/ q.strict /\ (~sound \/ \E k \in DOMAIN told : ~LastsIn(placed[k]))
           kept == [kind |-> "transcript", segments |-> Chosen(placed, places),
                    words |-> IF sound THEN [k \in DOMAIN words |-> Outward(words[k].start, words[k].end)]
                              ELSE <<>>]
<1>1. h = IF bad THEN Malformed ELSE kept
  BY <1>0 DEF HeardLocally
<1>2. told \in Seq(HeardSegment) /\ Len(told) \in Nat /\ DOMAIN told = 1..Len(told)
  <2>1. q.heard \in Seq(HeardSegment)
    BY DEF ListenQuestions
  <2> DEFINE texts == {k \in DOMAIN q.heard : q.heard[k].text}
  <2>2. texts \in SUBSET (DOMAIN q.heard)
    OBVIOUS
  <2>3. told = Chosen(q.heard, texts)
    BY <1>0 DEF Texted
  <2> HIDE DEF texts
  <2>4. told \in Seq(HeardSegment)
    BY <2>1, <2>2, <2>3, ChosenIs
  <2> QED
    BY <2>4
<1>3. \A k \in DOMAIN told : told[k] \in HeardSegment
  BY <1>2
<1>4. /\ all \in Seq(HeardWord) /\ Len(all) \in Nat /\ DOMAIN all = 1..Len(all)
      /\ \A k \in DOMAIN all : \E j \in DOMAIN told : \E i \in DOMAIN told[j].words : all[k] = told[j].words[i]
  <2> DEFINE W == [k \in DOMAIN told |-> told[k].words]
  <2>1. \A k \in DOMAIN told : told[k].words \in Seq(HeardWord)
    BY <1>3 DEF HeardSegment
  <2>2. W \in Seq(Seq(HeardWord))
    BY <1>2, <2>1
  <2>3. DOMAIN W = DOMAIN told /\ \A j \in DOMAIN told : W[j] = told[j].words
    OBVIOUS
  <2>4. all = FlattenSeq(W)
    OBVIOUS
  <2> HIDE DEF W, all
  <2>5. /\ all \in Seq(HeardWord)
        /\ \A k \in DOMAIN all : \E j \in DOMAIN W : \E i \in DOMAIN W[j] : all[k] = W[j][i]
    BY <2>2, <2>4, FlattenIs
  <2> QED
    BY <2>3, <2>5
<1> HIDE DEF all
<1> HIDE DEF bad, kept
<1>5. SUFFICES ASSUME ~bad PROVE kept.kind = "transcript" /\ SpeechOf(q, kept)
  BY <1>1
<1> USE DEF bad, kept
<1>6. ASSUME NEW k \in DOMAIN told
      PROVE  /\ span[k] = IF q.stamps THEN WordSpan(told[k]) ELSE AsPlaced(told[k])
             /\ span[k].start \in Nat /\ span[k].end \in Nat
             /\ placed[k] = Outward(span[k].start, span[k].end)
  <2>1. span[k] = IF q.stamps THEN WordSpan(told[k]) ELSE AsPlaced(told[k])
    OBVIOUS
  <2>2. placed[k] = Outward(span[k].start, span[k].end) /\ Measured(span[k].start) /\ Measured(span[k].end)
    BY <1>5
  <2>3. /\ WordSpan(told[k]).start \in HeardTimes /\ WordSpan(told[k]).end \in HeardTimes
        /\ AsPlaced(told[k]).start \in HeardTimes /\ AsPlaced(told[k]).end \in HeardTimes
    BY <1>3, WordSpanIs DEF AsPlaced, HeardSegment
  <2> HIDE DEF span
  <2>4. span[k].start \in Int /\ span[k].end \in Int
    BY <2>1, <2>3, HeardTimesAre
  <2>5. span[k].start \in Nat /\ span[k].end \in Nat
    BY <2>2, <2>4 DEF Measured
  <2> QED
    BY <2>1, <2>2, <2>5
<1>7. /\ DOMAIN placed = DOMAIN told /\ DOMAIN span = DOMAIN told
      /\ places = {k \in DOMAIN told : LastsIn(placed[k])}
      /\ q.strict => sound /\ places = DOMAIN told
  BY <1>5
<1>8. /\ kept.kind = "transcript" /\ kept.segments = Chosen(placed, places)
      /\ kept.words = IF sound THEN [k \in DOMAIN words |-> Outward(words[k].start, words[k].end)] ELSE <<>>
  OBVIOUS
<1>9. placed \in Seq({placed[k] : k \in DOMAIN placed})
  <2>1. placed = [k \in 1..Len(told) |-> placed[k]]
    BY <1>2
  <2> HIDE DEF placed
  <2> QED
    BY <1>2, <2>1
<1> HIDE DEF span, placed, places, kept, bad
<1>10. /\ \A k \in places : placed[k] \in Range(kept.segments)
       /\ Len(kept.segments) = Cardinality(places) /\ Cardinality(places) \in Nat
  <2>1. places \in SUBSET (DOMAIN placed)
    BY <1>7
  <2> DEFINE T == {placed[k] : k \in DOMAIN placed}
  <2>2. placed \in Seq(T)
    BY <1>9
  <2> HIDE DEF T
  <2>3. /\ Cardinality(places) \in Nat /\ Len(Chosen(placed, places)) = Cardinality(places)
        /\ \A p \in places : placed[p] \in Range(Chosen(placed, places))
    BY <2>1, <2>2, ChosenHas
  <2> QED
    BY <1>8, <2>3
<1>11. q.strict => Len(kept.segments) = Len(told)
  <2> SUFFICES ASSUME q.strict PROVE Len(kept.segments) = Len(told)
    OBVIOUS
  <2>1. places = 1..Len(told)
    BY <1>2, <1>7
  <2>2. Cardinality(1..Len(told)) = Len(told)
    BY <1>2, FS_Interval
  <2> QED
    BY <1>10, <2>1, <2>2
<1>12. ASSUME NEW k \in DOMAIN told, LastsIn(told[k]), told[k].words = <<>>
       PROVE  \E s \in Range(kept.segments) : s.start * Tick <= told[k].start /\ told[k].end <= s.end * Tick
  <2>1. span[k] = AsPlaced(told[k])
    BY <1>3, <1>6, <1>12, WordSpanIs
  <2>2. PICK a \in Nat, b \in Nat : a = told[k].start /\ b = told[k].end /\ placed[k] = Outward(a, b)
    BY <1>6, <2>1 DEF AsPlaced
  <2>3. a < b
    BY <1>12, <2>2 DEF LastsIn
  <2>4. k \in places
    BY <1>7, <2>2, <2>3, StillLasts
  <2>5. Outward(a, b).start * Tick <= a /\ b <= Outward(a, b).end * Tick
    <3>1. a <= a /\ b <= b
      OBVIOUS
    <3> QED
      BY <3>1, OutwardCovers
  <2> QED
    BY <1>10, <2>2, <2>4, <2>5
<1>13. ASSUME kept.words # <<>>
       PROVE  /\ Len(kept.words) = Len(all)
              /\ \A k \in DOMAIN all : LastsIn(all[k]) =>
                   \E s \in Range(kept.segments) : s.start <= kept.words[k].start /\ kept.words[k].end <= s.end
  <2>1. sound /\ q.stamps
    <3>1. sound
      BY <1>8, <1>13
    <3>2. CASE ~q.stamps
      <4>1. words = <<>>
        BY <3>2
      <4>2. kept.words = [k \in DOMAIN words |-> Outward(words[k].start, words[k].end)]
        BY <1>8, <3>1
      <4> HIDE DEF words
      <4>3. kept.words = <<>>
        BY <4>1, <4>2
      <4> QED
        BY <1>13, <4>3
    <3> QED
      BY <3>1, <3>2
  <2>2. words = all
    BY <2>1
  <2>3. \A w \in Range(all) : WordStands(w)
    BY <2>1, <2>2
  <2>4. kept.words = [k \in DOMAIN all |-> Outward(all[k].start, all[k].end)]
    BY <1>8, <2>1, <2>2
  <2> HIDE DEF words, sound
  <2>5. Len(kept.words) = Len(all)
    BY <1>4, <2>4
  <2>6. ASSUME NEW k \in DOMAIN all, LastsIn(all[k])
        PROVE  \E s \in Range(kept.segments) : s.start <= kept.words[k].start /\ kept.words[k].end <= s.end
    <3>1. PICK j \in DOMAIN told : \E i \in DOMAIN told[j].words : all[k] = told[j].words[i]
      BY <1>4
    <3>2. PICK i \in DOMAIN told[j].words : all[k] = told[j].words[i]
      BY <3>1
    <3>3. WordStands(all[k])
      <4>1. all[k] \in Range(all)
        BY DEF Range
      <4> QED
        BY <2>3, <4>1
    <3>4. all[k].start \in HeardTimes /\ all[k].end \in HeardTimes
      <4>1. all[k] \in HeardWord
        BY <1>4
      <4> QED
        BY <4>1 DEF HeardWord
    <3>5. PICK s \in Nat, e \in Nat : s = all[k].start /\ e = all[k].end
      BY <3>3, <3>4, HeardTimesAre DEF WordStands, Measured
    <3>6. s < e /\ LastsIn(Outward(s, e)) /\ s # NoTime /\ e # NoTime
      BY <2>6, <3>3, <3>5, HeardTimesAre DEF WordStands, LastsIn
    <3>7. span[j] = WordSpan(told[j]) /\ placed[j] = Outward(span[j].start, span[j].end)
      BY <1>6, <2>1
    <3>8. PICK a \in Nat, b \in Nat : a = span[j].start /\ b = span[j].end
      BY <1>6
    <3>9. a <= s /\ e <= b
      <4>1. told[j] \in HeardSegment
        BY <1>3
      <4>2. /\ told[j].words[i].start # NoTime /\ told[j].words[i].end # NoTime
            /\ told[j].words[i].end > told[j].words[i].start
        BY <3>2, <3>5, <3>6
      <4>3. WordSpan(told[j]).start <= told[j].words[i].start /\ told[j].words[i].end <= WordSpan(told[j]).end
        BY <4>1, <4>2, WordSpanIs
      <4> QED
        BY <3>2, <3>5, <3>7, <3>8, <4>3
    <3>10. /\ Outward(a, b).start \in Nat /\ Outward(a, b).end \in Nat
           /\ Outward(s, e).start \in Nat /\ Outward(s, e).end \in Nat
           /\ Outward(a, b).start <= Outward(s, e).start /\ Outward(s, e).end <= Outward(a, b).end
      BY <3>9, OutwardCovers
    <3>11. LastsIn(Outward(a, b))
      BY <3>6, <3>10 DEF LastsIn
    <3>12. j \in places
      BY <1>7, <3>7, <3>8, <3>11
    <3>13. kept.words[k] = Outward(s, e)
      BY <2>4, <3>5
    <3> QED
      BY <1>10, <3>7, <3>8, <3>10, <3>12, <3>13
  <2> QED
    BY <2>5, <2>6
<1>14. /\ all = FlattenSeq([k \in DOMAIN told |-> told[k].words])
  BY DEF all
<1> QED
  BY <1>0, <1>8, <1>11, <1>12, <1>13, <1>14 DEF SpeechOf

LEMMA ListenAnswers ==
  ASSUME asked \in ListenQuestions, Answer
  PROVE  RulesSound'
<1>0. asked.rule = "listen" /\ "net" \notin DOMAIN asked
  BY DEF ListenQuestions
<1>1. Listen
  BY <1>0 DEF Answer, Assemble, PlanSeries, SelectReference, Route, Suggest, Deliver, Compose, Verify,
              Observe, TranscribeSpeech, DescribeFrame, Embed, PlanScenes, Synthesize, Talk
<1>2. asked' = asked /\ answer' = LocallyHeard(asked)
  BY <1>1 DEF Listen
<1> DEFINE h == HeardLocally(asked)
<1>3. h = Malformed \/ (h.kind = "transcript" /\ SpeechOf(asked, h))
  BY HeardIs
<1>4. \/ answer' = Failed("configuration", FALSE) \/ answer' = Failed("input", FALSE)
      \/ answer' = Failed("connection", TRUE) \/ answer' = h
  BY <1>2 DEF LocallyHeard
<1> HIDE DEF h
<1>5. /\ \A e : Failed(e, FALSE).kind = "failed" /\ Failed(e, FALSE).error = e /\ ~Failed(e, FALSE).sent
      /\ \A e : Failed(e, TRUE).kind = "failed" /\ Failed(e, TRUE).error = e /\ Failed(e, TRUE).sent
  BY DEF Failed
<1>6. /\ answer'.kind \in {"failed", "transcript"}
      /\ answer'.kind = "failed" /\ answer'.error = "input" => ~answer'.sent
      /\ answer'.kind = "transcript" => SpeechOf(asked, answer')
  <2>1. CASE answer' = Failed("configuration", FALSE) \/ answer' = Failed("input", FALSE)
    BY <1>5, <2>1
  <2>2. CASE answer' = Failed("connection", TRUE) \/ answer' = Malformed
    <3>1. answer'.kind = "failed" /\ answer'.error \in {"connection", "response"}
      BY <1>5, <2>2 DEF Malformed
    <3> QED
      BY <3>1
  <2>3. CASE answer' = h /\ h.kind = "transcript" /\ SpeechOf(asked, h)
    BY <2>3
  <2> QED
    BY <1>3, <1>4, <2>1, <2>2, <2>3
<1>7. answer' # Nothing /\ answer' # Refused
  BY <1>6, KindOfNothing
<1>8. VideoSound' /\ RoutingSound' /\ NarrationSound'
  BY <1>0, <1>2, <1>6, OthersOwe DEF Owing
<1>9. SeriesSound'
  BY <1>6, <1>7 DEF SeriesSound
<1>10. TruthTold'
  BY <1>0, <1>2, <1>6 DEF TruthTold
<1>11. SpeechKept'
  BY <1>2, <1>6 DEF SpeechKept, KeptAnswer, Answered, SpeechOf
<1>12. VectorsKept' /\ PlanKept' /\ TalkingKept'
  BY <1>0, <1>2, <1>6 DEF VectorsKept, PlanKept, TalkingKept
<1> QED
  BY <1>8, <1>9, <1>10, <1>11, <1>12 DEF RulesSound, AnswersSound

-----------------------------------------------------------------------------
(* The answers to what a series, a reference, a route or a provider is      *)
(* asked.                                                                   *)

RuleQuestions ==
    SeriesQuestions \cup ReferenceQuestions \cup TranscribeQuestions \cup DescribeQuestions
    \cup EmbedQuestions \cup PlanQuestions \cup SpeechQuestions \cup TalkQuestions
    \cup RouteQuestions \cup ListenQuestions

\* Answering asks nothing else.
LEMMA AskedStays ==
  ASSUME [Answer]_callVars
  PROVE  asked' = asked
BY DEF Answer, Assemble, PlanSeries, SelectReference, Route, Suggest, Deliver, Compose, Verify, Observe,
       TranscribeSpeech, Listen, DescribeFrame, Embed, PlanScenes, Synthesize, Talk, callVars, AnswersOneOf,
       AssembleMaster, AssembleScenes

\* The answer to any series of slices, choice of a reference, route of a scene's assets,
\* or call of a provider's adapter keeps what the rules promise: slices in order, apart,
\* within the limit and as few as can be; a reference that suits the wish; offers that
\* the scene can use, each once, and the best of them recommended; an error that tells
\* what was sent; of a provider's document what was asked for, in its order; and of what
\* the model on this machine hears, words that lie in the segments kept.
THEOREM RulesStand ==
  (\E q \in RuleQuestions : Ask(q)) /\ [][Answer]_callVars => []RulesSound
<1> DEFINE Inv == asked \in RuleQuestions /\ RulesSound
<1>1. (\E q \in RuleQuestions : Ask(q)) => Inv
  BY NothingIsSound DEF Ask
<1>2. Inv /\ [Answer]_callVars => Inv'
  <2> SUFFICES ASSUME asked \in RuleQuestions, RulesSound, [Answer]_callVars
               PROVE  asked' \in RuleQuestions /\ RulesSound'
    OBVIOUS
  <2>1. asked' \in RuleQuestions
    BY AskedStays
  <2>2. CASE UNCHANGED callVars
    BY <2>1, <2>2, RulesUnchanged
  <2>3. CASE Answer
    BY <2>1, <2>3, SeriesAnswers, ReferenceAnswers, TranscribeAnswers, DescribeAnswers, EmbedAnswers,
       PlanAnswers, SpeechAnswers, TalkAnswers, RouteAnswers,
       ListenAnswers DEF RuleQuestions
  <2> QED
    BY <2>1, <2>2, <2>3
<1>3. Inv => RulesSound
  OBVIOUS
<1> QED
  BY <1>1, <1>2, <1>3, PTL
=============================================================================
