---------------------------- MODULE PartsProofs ----------------------------
(***************************************************************************)
(* What the machines of MCParts owe holds for any video, cuts, readings    *)
(* and handlers; any preferences, limits, uses and renders; any scenes and *)
(* corrections; and any slices, attempts and outputs. Each machine has an  *)
(* invariant of its own, and no other machine's step disturbs it.          *)
(***************************************************************************)
EXTENDS MCParts, FiniteSetTheorems, SequenceTheorems, WellFoundedInduction, TLAPS

-----------------------------------------------------------------------------
(* How a video is cut (ClipLibrary).  Merged is a recursive function; that  *)
(* there is one follows from its values on the sets of at most n cuts, by   *)
(* the smallest n without one.                                              *)

LEMMA Least ==
  ASSUME NEW S \in SUBSET Nat, S # {}
  PROVE  /\ Min(S) \in S
         /\ \A n \in S : Min(S) <= n
<1>1. \E m \in S : \A n \in S : m <= n
  <2>1. PICK m \in S : \A n \in S : <<n, m>> \notin OpToRel(<, Nat)
    BY NatLessThanWellFounded, WFMin
  <2>2. \A n \in S : ~(n < m)
    BY <2>1 DEF OpToRel
  <2> QED
    BY <2>2
<1> QED
  BY <1>1 DEF Min

LEMMA LibraryNumbers == Duration \in Nat /\ Duration > 0 /\ MinClip \in Nat /\ MinClip > 0
BY LibraryAssumption

LEMMA CutsAre ==
  ASSUME NEW cuts \in Cuts
  PROVE  0 \in cuts /\ Duration \in cuts /\ \A c \in cuts : c \in Nat /\ 0 <= c /\ c <= Duration
<1>1. cuts \in SUBSET (0..Duration) /\ 0 \in cuts /\ Duration \in cuts
  BY DEF Cuts
<1> QED
  BY <1>1, LibraryNumbers

LEMMA Next ==
  ASSUME NEW cuts \in Cuts, NEW c \in cuts \ {Duration}
  PROVE  /\ NextCut(cuts, c) \in cuts /\ NextCut(cuts, c) > c
         /\ \A d \in cuts : d > c => NextCut(cuts, c) <= d
<1> DEFINE S == {d \in cuts : d > c}
<1>1. S \in SUBSET Nat /\ S # {}
  <2>1. Duration \in S
    BY CutsAre, LibraryNumbers
  <2> QED
    BY <2>1, CutsAre
<1>2. Min(S) \in S /\ \A n \in S : Min(S) <= n
  BY <1>1, Least
<1> QED
  BY <1>2 DEF NextCut

LEMMA CutsFinite ==
  ASSUME NEW cuts \in Cuts
  PROVE  /\ IsFiniteSet(cuts) /\ Cardinality(cuts) \in Nat /\ Cardinality(cuts) <= Duration + 1
<1>1. IsFiniteSet(0..Duration) /\ Cardinality(0..Duration) = Duration + 1
  BY LibraryNumbers, FS_Interval
<1> QED
  BY <1>1, FS_Subset, FS_CardinalityType DEF Cuts

\* A cut is dropped that is not an end.
LEMMA Drops ==
  ASSUME NEW cuts \in Cuts, Cardinality(cuts) > 2, TooShort(cuts) # {}
  PROVE  /\ Dropped(cuts) \in cuts /\ cuts \ {Dropped(cuts)} \in Cuts
         /\ Cardinality(cuts \ {Dropped(cuts)}) = Cardinality(cuts) - 1
<1>1. TooShort(cuts) \in SUBSET Nat /\ TooShort(cuts) \subseteq cuts \ {Duration}
  BY CutsAre DEF TooShort
<1>2. Min(TooShort(cuts)) \in cuts \ {Duration}
  BY <1>1, Least
<1>3. Dropped(cuts) \in cuts /\ Dropped(cuts) # 0 /\ Dropped(cuts) # Duration
  <2>1. CASE Min(TooShort(cuts)) # 0
    BY <1>2, <2>1 DEF Dropped
  <2>2. CASE Min(TooShort(cuts)) = 0
    <3>1. NextCut(cuts, 0) \in cuts /\ NextCut(cuts, 0) > 0 /\ \A d \in cuts : d > 0 => NextCut(cuts, 0) <= d
      BY <1>2, <2>2, Next
    <3>2. NextCut(cuts, 0) # Duration
      <4>1. SUFFICES ASSUME NextCut(cuts, 0) = Duration PROVE FALSE
        OBVIOUS
      <4>2. cuts \subseteq {0, Duration}
        BY <3>1, <4>1, CutsAre
      <4>3. IsFiniteSet({0, Duration}) /\ Cardinality({0, Duration}) <= 2
        <5>1. IsFiniteSet({0}) /\ Cardinality({0}) = 1
          BY FS_Singleton
        <5>2. IsFiniteSet({0} \cup {Duration}) /\ Cardinality({0} \cup {Duration}) <= 2
          BY <5>1, FS_AddElement
        <5>3. {0} \cup {Duration} = {0, Duration}
          OBVIOUS
        <5> QED
          BY <5>2, <5>3
      <4>4. Cardinality(cuts) <= Cardinality({0, Duration})
        BY <4>2, <4>3, FS_Subset
      <4>5. Cardinality({0, Duration}) \in Nat
        BY <4>3, FS_CardinalityType
      <4> QED
        BY <4>3, <4>4, <4>5, CutsFinite
    <3> QED
      BY <2>2, <3>1, <3>2 DEF Dropped
  <2> QED
    BY <2>1, <2>2
<1>4. cuts \ {Dropped(cuts)} \in Cuts
  BY <1>3 DEF Cuts
<1> QED
  BY <1>3, <1>4, CutsFinite, FS_RemoveElement

\* What f makes of a set, if it is Merged of the smaller ones.
MergeStep(f, cuts) ==
    IF Cardinality(cuts) <= 2 \/ TooShort(cuts) = {} THEN cuts ELSE f[cuts \ {Dropped(cuts)}]

Merges(f) == f = [cuts \in Cuts |-> MergeStep(f, cuts)]

MergesUpTo(f, n) ==
    \A cuts \in Cuts : Cardinality(cuts) <= n => f[cuts] = MergeStep(f, cuts)

LEMMA MergeGrows ==
  ASSUME NEW n \in Nat, NEW f, MergesUpTo(f, n)
  PROVE  \E g : MergesUpTo(g, n + 1)
<1> DEFINE g == [cuts \in Cuts |-> IF Cardinality(cuts) <= n THEN f[cuts] ELSE MergeStep(f, cuts)]
<1>1. \A cuts \in Cuts : g[cuts] = IF Cardinality(cuts) <= n THEN f[cuts] ELSE MergeStep(f, cuts)
  OBVIOUS
<1> HIDE DEF g
<1>2. ASSUME NEW cuts \in Cuts, Cardinality(cuts) <= n + 1
      PROVE  g[cuts] = MergeStep(g, cuts)
  <2>1. g[cuts] = MergeStep(f, cuts)
    BY <1>1 DEF MergesUpTo
  <2>2. CASE Cardinality(cuts) <= 2 \/ TooShort(cuts) = {}
    BY <2>1, <2>2 DEF MergeStep
  <2>3. CASE ~(Cardinality(cuts) <= 2 \/ TooShort(cuts) = {})
    <3>1. cuts \ {Dropped(cuts)} \in Cuts /\ Cardinality(cuts \ {Dropped(cuts)}) <= n
      BY <1>2, <2>3, CutsFinite, Drops
    <3>2. g[cuts \ {Dropped(cuts)}] = f[cuts \ {Dropped(cuts)}]
      BY <1>1, <3>1
    <3> QED
      BY <2>1, <2>3, <3>2 DEF MergeStep
  <2> QED
    BY <2>2, <2>3
<1>3. MergesUpTo(g, n + 1)
  BY <1>2 DEF MergesUpTo
<1> QED
  BY <1>3

LEMMA MergeExists == \E f : Merges(f)
<1> DEFINE Bad == {n \in Nat : ~ \E f : MergesUpTo(f, n)}
<1>1. Bad = {}
  <2>1. SUFFICES ASSUME Bad # {} PROVE FALSE
    OBVIOUS
  <2>2. Min(Bad) \in Bad /\ \A n \in Bad : Min(Bad) <= n
    <3>1. Bad \in SUBSET Nat /\ Bad # {}
      BY <2>1
    <3> HIDE DEF Bad
    <3> QED
      BY <3>1, Least
  <2> DEFINE m == Min(Bad)
  <2>3. m \in Nat /\ (~ \E f : MergesUpTo(f, m)) /\ \A n \in Nat : n < m => \E f : MergesUpTo(f, n)
    BY <2>2
  <2> HIDE DEF m, Bad
  <2>4. m # 0
    <3>1. \A cuts \in Cuts : Cardinality(cuts) > 0
      BY CutsFinite, CutsAre, FS_EmptySet
    <3>2. \A cuts \in Cuts : Cardinality(cuts) \in Nat
      BY CutsFinite
    <3>3. MergesUpTo(0, 0)
      BY <3>1, <3>2 DEF MergesUpTo
    <3> QED
      BY <2>3, <3>3
  <2>5. m - 1 \in Nat /\ m - 1 < m /\ (m - 1) + 1 = m
    BY <2>3, <2>4
  <2>6. PICK f : MergesUpTo(f, m - 1)
    BY <2>3, <2>5
  <2>7. \E g : MergesUpTo(g, (m - 1) + 1)
    BY <2>5, <2>6, MergeGrows
  <2> QED
    BY <2>3, <2>5, <2>7
<1>2. PICK f : MergesUpTo(f, Duration + 1)
  BY <1>1, LibraryNumbers
<1> DEFINE g == [cuts \in Cuts |-> MergeStep(f, cuts)]
<1>3. \A cuts \in Cuts : g[cuts] = f[cuts] /\ g[cuts] = MergeStep(f, cuts)
  BY <1>2, CutsFinite DEF MergesUpTo
<1> HIDE DEF g
<1>4. \A cuts \in Cuts : MergeStep(g, cuts) = MergeStep(f, cuts)
  <2>1. ASSUME NEW cuts \in Cuts, ~(Cardinality(cuts) <= 2 \/ TooShort(cuts) = {})
        PROVE  cuts \ {Dropped(cuts)} \in Cuts
    <3>1. Cardinality(cuts) > 2 /\ TooShort(cuts) # {}
      BY <2>1, CutsFinite
    <3> HIDE DEF g
    <3> QED
      BY <3>1, Drops
  <2> QED
    BY <1>3, <2>1 DEF MergeStep
<1>5. Merges(g)
  <2>1. g = [cuts \in Cuts |-> MergeStep(f, cuts)]
    BY DEF g
  <2> QED
    BY <1>4, <2>1 DEF Merges
<1> QED
  BY <1>5

LEMMA MergedIs ==
  ASSUME NEW cuts \in Cuts
  PROVE  Merged[cuts] = MergeStep(Merged, cuts)
<1>1. Merged = CHOOSE f : Merges(f)
  BY DEF Merged, Merges, MergeStep
<1>2. Merges(Merged)
  BY <1>1, MergeExists
<1> QED
  BY <1>2 DEF Merges

\* What is left holds the ends, and no fragment that could be joined is too short.
LEMMA MergedKeeps ==
  ASSUME NEW cuts \in Cuts
  PROVE  /\ Merged[cuts] \in Cuts
         /\ Cardinality(Merged[cuts]) <= 2 \/ TooShort(Merged[cuts]) = {}
<1> DEFINE Good(c) == Merged[c] \in Cuts /\ (Cardinality(Merged[c]) <= 2 \/ TooShort(Merged[c]) = {})
           Bad == {c \in Cuts : ~Good(c)}
<1> SUFFICES ASSUME Bad # {} PROVE FALSE
  OBVIOUS
<1>1. PICK c \in Bad : \A d \in Bad : Cardinality(c) <= Cardinality(d)
  <2> DEFINE Sizes == {Cardinality(d) : d \in Bad}
  <2>1. Sizes \in SUBSET Nat /\ Sizes # {}
    BY CutsFinite
  <2>2. Min(Sizes) \in Sizes /\ \A n \in Sizes : Min(Sizes) <= n
    <3> HIDE DEF Sizes
    <3> QED
      BY <2>1, Least
  <2> QED
    BY <2>2
<1>2. c \in Cuts /\ ~Good(c)
  OBVIOUS
<1>3. Merged[c] = MergeStep(Merged, c)
  BY <1>2, MergedIs
<1>4. CASE Cardinality(c) <= 2 \/ TooShort(c) = {}
  <2>1. Merged[c] = c
    BY <1>3, <1>4 DEF MergeStep
  <2> QED
    BY <1>2, <1>4, <2>1
<1>5. CASE ~(Cardinality(c) <= 2 \/ TooShort(c) = {})
  <2> DEFINE d == c \ {Dropped(c)}
  <2>1. d \in Cuts /\ Cardinality(d) = Cardinality(c) - 1 /\ Cardinality(c) \in Nat
    BY <1>2, <1>5, CutsFinite, Drops
  <2>2. Merged[c] = Merged[d]
    BY <1>3, <1>5 DEF MergeStep
  <2>3. d \notin Bad
    <3> HIDE DEF Bad, d
    <3>1. ~(Cardinality(c) <= Cardinality(d))
      BY <2>1
    <3> QED
      BY <1>1, <3>1
  <2>4. Good(d)
    BY <2>1, <2>3
  <2> QED
    BY <1>2, <2>2, <2>4
<1> QED
  BY <1>4, <1>5

\* The fragments of a video: each moment is in just one, and none is too short that
\* has a neighbour.
LEMMA CutParts ==
  ASSUME NEW b \in SUBSET (0..Duration)
  PROVE  /\ Cut(b) \subseteq Intervals
         /\ \A t \in 0..(Duration - 1) : Cardinality({i \in Cut(b) : i[1] <= t /\ t < i[2]}) = 1
         /\ Cut(b) # {<<0, Duration>>} => \A i \in Cut(b) : i[2] - i[1] >= MinClip
<1> DEFINE cuts == Merged[b \cup {0, Duration}]
<1>1. cuts \in Cuts /\ (Cardinality(cuts) <= 2 \/ TooShort(cuts) = {})
  <2>1. b \cup {0, Duration} \in Cuts
    BY LibraryNumbers DEF Cuts
  <2> QED
    BY <2>1, MergedKeeps
<1>2. Cut(b) = {i \in cuts \X cuts : i[1] < i[2] /\ \A c \in cuts : c <= i[1] \/ c >= i[2]}
  BY DEF Cut
<1> HIDE DEF cuts
<1>3. Cut(b) \subseteq Intervals
  BY <1>1, <1>2, CutsAre DEF Intervals
<1>4. ASSUME NEW t \in 0..(Duration - 1)
      PROVE  Cardinality({i \in Cut(b) : i[1] <= t /\ t < i[2]}) = 1
  <2> DEFINE Above == {c \in cuts : c > t}
             Gaps == {t - c : c \in cuts \ Above}
             low == t - Min(Gaps)
             high == Min(Above)
  <2>0. t \in Nat /\ t >= 0 /\ t < Duration
    BY LibraryNumbers
  <2>1. Above \in SUBSET Nat /\ Duration \in Above
    BY <1>1, <2>0, CutsAre
  <2>2. Gaps \in SUBSET Nat /\ t - 0 \in Gaps
    BY <1>1, <2>0, CutsAre
  <2>3. Min(Above) \in Above /\ \A n \in Above : Min(Above) <= n
    <3> HIDE DEF Above
    <3> QED
      BY <2>1, Least
  <2>4. Min(Gaps) \in Gaps /\ \A n \in Gaps : Min(Gaps) <= n
    <3> HIDE DEF Gaps
    <3> QED
      BY <2>2, Least
  <2>5. /\ high \in cuts /\ high > t /\ high \in Nat
        /\ \A c \in cuts : c > t => high <= c
    BY <1>1, <2>0, <2>3, CutsAre
  <2>6. PICK c \in cuts \ Above : Min(Gaps) = t - c
    BY <2>4
  <2>7. low = c /\ c \in Nat /\ c <= t
    BY <1>1, <2>0, <2>6, CutsAre
  <2>8. \A d \in cuts : d <= t => d <= c
    <3>1. ASSUME NEW d \in cuts, d <= t
          PROVE  d <= c
      <4>1. d \in Nat /\ d \in cuts \ Above
        BY <1>1, <2>0, <3>1, CutsAre
      <4>2. t - c <= t - d
        BY <2>4, <2>6, <4>1
      <4> QED
        BY <2>0, <2>7, <4>1, <4>2
    <3> QED
      BY <3>1
  <2> HIDE DEF low, high, Above, Gaps
  <2>9. \A d \in cuts : d \in Nat
    BY <1>1, CutsAre
  <2>10. <<c, high>> \in Cut(b)
    BY <1>2, <2>0, <2>5, <2>7, <2>8, <2>9
  <2>11. ASSUME NEW i \in Cut(b), i[1] <= t, t < i[2]
         PROVE  i = <<c, high>>
    <3>1. i[1] \in cuts /\ i[2] \in cuts /\ i = <<i[1], i[2]>>
          /\ \A d \in cuts : d <= i[1] \/ d >= i[2]
      BY <1>2
    <3>2. i[1] = c
      BY <2>0, <2>7, <2>8, <2>9, <2>11, <3>1
    <3>3. i[2] = high
      BY <2>0, <2>5, <2>9, <2>11, <3>1
    <3> QED
      BY <3>1, <3>2, <3>3
  <2>12. {i \in Cut(b) : i[1] <= t /\ t < i[2]} = {<<c, high>>}
    BY <2>5, <2>7, <2>10, <2>11
  <2> QED
    BY <2>12, FS_Singleton
<1>5. ASSUME Cut(b) # {<<0, Duration>>}, NEW i \in Cut(b)
      PROVE  i[2] - i[1] >= MinClip
  <2>1. /\ i[1] \in cuts /\ i[2] \in cuts /\ i[1] < i[2] /\ i = <<i[1], i[2]>>
        /\ \A c \in cuts : c <= i[1] \/ c >= i[2]
        /\ i[1] \in Nat /\ i[2] \in Nat /\ i[2] <= Duration
    BY <1>1, <1>2, CutsAre
  <2>2. CASE TooShort(cuts) = {}
    <3>1. i[1] \in cuts \ {Duration}
      BY <2>1, LibraryNumbers
    <3>2. NextCut(cuts, i[1]) = i[2]
      <4>1. NextCut(cuts, i[1]) \in cuts /\ NextCut(cuts, i[1]) > i[1] /\ NextCut(cuts, i[1]) <= i[2]
        BY <1>1, <2>1, <3>1, Next
      <4>2. NextCut(cuts, i[1]) \in Nat
        BY <1>1, <4>1, CutsAre
      <4> QED
        BY <2>1, <4>1, <4>2
    <3>3. ~(NextCut(cuts, i[1]) - i[1] < MinClip)
      BY <2>2, <3>1 DEF TooShort
    <3> QED
      BY <2>1, <3>2, <3>3, LibraryNumbers
  <2>3. CASE Cardinality(cuts) <= 2
    <3>1. {0, Duration} \subseteq cuts /\ 0 # Duration
      BY <1>1, LibraryNumbers DEF Cuts
    <3>2. IsFiniteSet({0, Duration}) /\ Cardinality({0, Duration}) = 2
      <4>1. IsFiniteSet({0}) /\ Cardinality({0}) = 1
        BY FS_Singleton
      <4>2. IsFiniteSet({0} \cup {Duration}) /\ Cardinality({0} \cup {Duration}) = 2
        BY <3>1, <4>1, FS_AddElement
      <4>3. {0} \cup {Duration} = {0, Duration}
        OBVIOUS
      <4> QED
        BY <4>2, <4>3
    <3>3. cuts = {0, Duration}
      <4>1. IsFiniteSet(cuts) /\ Cardinality(cuts) \in Nat /\ Cardinality({0, Duration}) <= Cardinality(cuts)
        BY <1>1, <3>1, CutsFinite, FS_Subset
      <4>2. Cardinality({0, Duration}) = Cardinality(cuts)
        BY <2>3, <3>2, <4>1
      <4> QED
        BY <3>1, <4>1, <4>2, FS_Subset
    <3>4. Cut(b) = {<<0, Duration>>}
      BY <1>2, <3>3, LibraryNumbers
    <3> QED
      BY <1>5, <3>4
  <2> QED
    BY <1>1, <2>2, <2>3
<1> QED
  BY <1>3, <1>4, <1>5
-----------------------------------------------------------------------------
(* A video's clips (ClipLibrary).  Since it was cut last without an import  *)
(* the rows are the cut; and where no import has moved a clip, what any     *)
(* handler holds of it is of the interval that names it.                    *)

Places == {"waiting", "cut", "hearing", "heard", "frames", "looking", "described", "embedding",
           "writing", "done", "gone"}

\* The row's interval is the one its id names, and it was looked at there.
OfItsId(i, row) == row.interval = i /\ (row.look # None => row.look.of = i)

LibraryTypes ==
    /\ clips \in [Ids -> {None} \cup ClipRows]
    /\ suitable \subseteq Stored
    /\ at \in [Attempts -> Places]
    /\ held = [a \in Attempts |-> held[a]]

HandlerHolds(a) ==
    /\ at[a] = "cut" => KindOf[a] = "analyze" /\ \E b \in Boundaries : held[a] = Cut(b)
    /\ at[a] \in {"hearing", "heard"} => KindOf[a] = "transcribe"
    /\ at[a] = "heard" => held[a] \in Readings
    /\ at[a] \in {"frames", "looking", "described", "embedding"} =>
          /\ KindOf[a] = "index" /\ DOMAIN held[a] \subseteq Ids
          /\ \A i \in DOMAIN held[a] : held[a][i] \in ClipRows /\ (i \notin moved => held[a][i].interval = i)
    /\ at[a] = "writing" =>
          /\ KindOf[a] = "assess" /\ held[a].id \in Ids /\ held[a].clip \in ClipRows
          /\ held[a].id \notin moved => OfItsId(held[a].id, held[a].clip)

ClipsTrue == \A i \in Stored \ moved : OfItsId(i, clips[i])

AsCut ==
    imported = {} /\ Stored # {} =>
        (\E b \in Boundaries : Stored = Cut(b)) /\ \A i \in Stored : clips[i].interval = i

LibraryInv ==
    LibraryTypes /\ (\A a \in Attempts : HandlerHolds(a)) /\ ClipsTrue /\ AsCut /\ RowsAgree
LEMMA BlankRow ==
  ASSUME NEW i \in Intervals
  PROVE  /\ Blank(i) \in ClipRows /\ Blank(i) # None /\ Blank(i).interval = i /\ Blank(i).look = None
         /\ i \in Ids
<1>1. Blank(i) \in ClipRows /\ Blank(i).interval = i /\ Blank(i).look = None
  BY DEF Blank, ClipRows
<1>2. i \in Ids
  BY DEF Ids
<1> QED
  BY <1>1, <1>2, LibraryAssumption

LEMMA SpokenWords ==
  ASSUME NEW r \in Readings, NEW interval
  PROVE  SpokenIn(r, interval) \in {None} \cup SUBSET Intervals
<1>1. r \subseteq Intervals
  BY LibraryAssumption
<1> QED
  BY <1>1 DEF SpokenIn

\* A row of a clip is a record; so is the row with other words, another look, an
\* assessment, a reference.
LEMMA RowFields ==
  ASSUME NEW row \in ClipRows
  PROVE  row # None /\ row.interval \in Intervals
BY LibraryAssumption DEF ClipRows

LEMMA Reworded ==
  ASSUME NEW row \in ClipRows, NEW w \in {None} \cup SUBSET Intervals, NEW r, r = [row EXCEPT !.script = w]
  PROVE  /\ r \in ClipRows /\ r.interval = row.interval /\ r.look = row.look /\ r.assessed = row.assessed
BY DEF ClipRows

LEMMA Looked ==
  ASSUME NEW row \in ClipRows, NEW l \in [by : Attempts \cup {"import"}, of : Intervals],
         NEW r, r = [row EXCEPT !.look = l]
  PROVE  /\ r \in ClipRows /\ r.interval = row.interval /\ r.script = row.script
         /\ r.assessed = row.assessed /\ r.look = l
BY DEF ClipRows

LEMMA Assessed ==
  ASSUME NEW row \in ClipRows, NEW by \in Attempts, NEW r, r = [row EXCEPT !.assessed = by]
  PROVE  /\ r \in ClipRows /\ r.interval = row.interval /\ r.look = row.look
BY DEF ClipRows

LEMMA Referred ==
  ASSUME NEW row \in ClipRows, NEW r, r = [row EXCEPT !.ref = TRUE]
  PROVE  /\ r \in ClipRows /\ r.interval = row.interval /\ r.script = row.script
         /\ r.assessed = row.assessed /\ r.look = row.look
BY DEF ClipRows

LEMMA StoredRows ==
  ASSUME LibraryInv, NEW i \in Ids
  PROVE  /\ i \in Stored <=> clips[i] # None
         /\ i \in Stored => clips[i] \in ClipRows
BY DEF LibraryInv, LibraryTypes, Stored

\* What a handler stands on does not depend on the rows.
LEMMA OthersStand ==
  ASSUME NEW b \in Attempts, HandlerHolds(b), at'[b] = at[b], held'[b] = held[b], moved \subseteq moved'
  PROVE  HandlerHolds(b)'
<1>1. at[b] \in {"frames", "looking", "described", "embedding"} =>
        \A i \in DOMAIN held[b] : held[b][i] \in ClipRows /\ (i \notin moved' => held[b][i].interval = i)
  BY DEF HandlerHolds
<1>2. at[b] = "writing" => (held[b].id \notin moved' => OfItsId(held[b].id, held[b].clip))
  BY DEF HandlerHolds
<1>3. OfItsId(held[b].id, held[b].clip)' <=> OfItsId(held[b].id, held[b].clip)
  BY DEF OfItsId
<1> QED
  BY <1>1, <1>2, <1>3 DEF HandlerHolds

\* A step of one handler alone.
LEMMA OneHandler ==
  ASSUME LibraryInv, NEW a \in Attempts, NEW p \in Places, NEW h,
         UNCHANGED <<clips, index, suitable, moved, imported>>, Goes(a, p), Keeps(a, h), HandlerHolds(a)'
  PROVE  LibraryInv'
<1> USE DEF LibraryInv
<1>1. /\ at' \in [Attempts -> Places] /\ at'[a] = p
      /\ held' = [b \in Attempts |-> held'[b]] /\ held'[a] = h
      /\ \A b \in Attempts \ {a} : at'[b] = at[b] /\ held'[b] = held[b]
  BY DEF Goes, Keeps, LibraryTypes
<1>2. \A b \in Attempts : HandlerHolds(b)'
  BY <1>1, OthersStand
<1>3. Stored' = Stored
  BY DEF Stored
<1>4. LibraryTypes' /\ ClipsTrue' /\ AsCut' /\ RowsAgree'
  BY <1>1, <1>3 DEF LibraryTypes, ClipsTrue, OfItsId, AsCut, RowsAgree
<1> QED
  BY <1>2, <1>4

\* The same clips, of the same intervals, looked at there.
LEMMA SameClips ==
  ASSUME LibraryInv, UNCHANGED <<moved, imported, suitable>>,
         clips' \in [Ids -> {None} \cup ClipRows],
         \A i \in Ids : clips'[i] = None <=> clips[i] = None,
         \A i \in Stored : clips'[i].interval = clips[i].interval,
         \A i \in Stored \ moved : clips'[i].look = clips[i].look \/ clips'[i].look.of = i
  PROVE  /\ Stored' = Stored /\ suitable' \subseteq Stored'
         /\ ClipsTrue' /\ AsCut'
<1> USE DEF LibraryInv
<1>1. Stored' = Stored
  BY DEF Stored
<1>2. suitable' \subseteq Stored'
  BY <1>1 DEF LibraryTypes
<1>3. ClipsTrue'
  BY <1>1 DEF ClipsTrue, OfItsId
<1>4. AsCut'
  BY <1>1 DEF AsCut
<1> QED
  BY <1>1, <1>2, <1>3, <1>4

LEMMA AfterHandler ==
  ASSUME LibraryInv, NEW a \in Attempts, NEW p \in Places, NEW h, Goes(a, p), Keeps(a, h), moved \subseteq moved'
  PROVE  /\ at' \in [Attempts -> Places] /\ at'[a] = p
         /\ held' = [b \in Attempts |-> held'[b]] /\ held'[a] = h
         /\ \A b \in Attempts \ {a} : HandlerHolds(b)'
<1>1. /\ at' \in [Attempts -> Places] /\ at'[a] = p
      /\ held' = [b \in Attempts |-> held'[b]] /\ held'[a] = h
      /\ \A b \in Attempts \ {a} : at'[b] = at[b] /\ held'[b] = held[b]
  BY DEF Goes, Keeps, LibraryInv, LibraryTypes
<1>2. \A b \in Attempts \ {a} : HandlerHolds(b)'
  BY <1>1, OthersStand DEF LibraryInv
<1> QED
  BY <1>1, <1>2

LEMMA AtEnd ==
  ASSUME NEW a, at'[a] \in {"done", "gone", "waiting"}
  PROVE  HandlerHolds(a)'
BY DEF HandlerHolds

LEMMA NobodyMoves ==
  ASSUME LibraryInv, UNCHANGED <<at, held>>, moved \subseteq moved'
  PROVE  /\ at' \in [Attempts -> Places] /\ held' = [b \in Attempts |-> held'[b]]
         /\ \A b \in Attempts : HandlerHolds(b)'
<1>1. \A b \in Attempts : HandlerHolds(b)'
  BY OthersStand DEF LibraryInv
<1> QED
  BY <1>1 DEF LibraryInv, LibraryTypes
LEMMA ReplaceStep ==
  ASSUME LibraryInv, NEW a \in Attempts, Replace(a)
  PROVE  LibraryInv'
<1> USE DEF LibraryInv
<1>1. PICK b \in Boundaries : held[a] = Cut(b)
  BY DEF Replace, HandlerHolds
<1>2. held[a] \subseteq Intervals /\ held[a] \subseteq Ids
  <2>1. b \in SUBSET (0..Duration)
    BY LibraryAssumption
  <2> QED
    BY <1>1, <2>1, CutParts DEF Ids
<1>3. /\ \A i \in Ids : clips'[i] = IF i \in held[a] THEN Blank(i) ELSE None
      /\ clips' = [i \in Ids |-> clips'[i]]
      /\ \A i \in Ids : index'[i] = IF i \in held[a] THEN index[i] ELSE None
      /\ imported' = {} /\ moved' = moved /\ suitable' = suitable
  BY DEF Replace
<1>4. clips' \in [Ids -> {None} \cup ClipRows]
  BY <1>2, <1>3, BlankRow
<1>5. Stored' = held[a]
  BY <1>2, <1>3, BlankRow DEF Stored
<1>6. suitable' \subseteq Stored'
  BY <1>3, <1>5 DEF Replace, LibraryTypes
<1>7. ClipsTrue' /\ AsCut'
  <2>1. \A i \in Stored' : clips'[i] = Blank(i) /\ clips'[i].interval = i /\ clips'[i].look = None
    BY <1>2, <1>3, <1>5, BlankRow
  <2>2. ClipsTrue'
    BY <2>1 DEF ClipsTrue, OfItsId
  <2>3. AsCut'
    BY <1>1, <1>5, <2>1 DEF AsCut, Cut
  <2> QED
    BY <2>2, <2>3
<1>8. RowsAgree'
  BY <1>2, <1>3, BlankRow DEF RowsAgree
<1>9. LibraryTypes' /\ \A c \in Attempts : HandlerHolds(c)'
  <2>1. Goes(a, "done") /\ Keeps(a, None) /\ "done" \in Places
    BY DEF Replace, Places
  <2> QED
    BY <1>3, <1>4, <1>6, <2>1, AfterHandler, AtEnd DEF LibraryTypes
<1> QED
  BY <1>7, <1>8, <1>9

\* A transcript leaves everything but the words.
LEMMA TranscribeKeeps ==
  ASSUME LibraryInv, NEW r \in Readings, Transcribe(r), UNCHANGED <<index, suitable, moved, imported>>
  PROVE  /\ clips' \in [Ids -> {None} \cup ClipRows]
         /\ suitable' \subseteq Stored' /\ ClipsTrue' /\ AsCut' /\ RowsAgree'
         /\ \A i \in Stored : clips'[i] # None /\ clips'[i].interval = clips[i].interval
              /\ clips'[i].assessed = clips[i].assessed /\ clips'[i].look = clips[i].look
<1>1. /\ clips' = [i \in Ids |-> clips'[i]]
      /\ \A i \in Ids : clips'[i] = IF clips[i] = None THEN None
                                    ELSE [clips[i] EXCEPT !.script = SpokenIn(r, clips[i].interval)]
  BY DEF Transcribe
<1>2. \A i \in Stored : clips[i] \in ClipRows /\ i \in Ids /\ clips[i] # None
  BY StoredRows DEF Stored
<1>3. \A i \in Stored : /\ clips'[i] \in ClipRows /\ clips'[i] # None
                        /\ clips'[i].interval = clips[i].interval
                        /\ clips'[i].assessed = clips[i].assessed /\ clips'[i].look = clips[i].look
  <2>1. ASSUME NEW i \in Stored
        PROVE  /\ clips'[i] \in ClipRows /\ clips'[i].interval = clips[i].interval
               /\ clips'[i].assessed = clips[i].assessed /\ clips'[i].look = clips[i].look
    <3>1. clips'[i] = [clips[i] EXCEPT !.script = SpokenIn(r, clips[i].interval)]
      BY <1>1, <1>2
    <3>2. SpokenIn(r, clips[i].interval) \in {None} \cup SUBSET Intervals
      BY SpokenWords
    <3>3. PICK w \in {None} \cup SUBSET Intervals : w = SpokenIn(r, clips[i].interval)
      BY <3>2
    <3>4. clips'[i] = [clips[i] EXCEPT !.script = w] /\ clips[i] \in ClipRows
      BY <1>2, <3>1, <3>3
    <3>5. PICK row \in ClipRows : row = clips[i]
      BY <3>4
    <3>6. clips'[i] = [row EXCEPT !.script = w]
      BY <3>4, <3>5
    <3>7. /\ clips'[i] \in ClipRows /\ clips'[i].interval = row.interval
          /\ clips'[i].look = row.look /\ clips'[i].assessed = row.assessed
      BY <3>6, Reworded
    <3> QED
      BY <3>5, <3>7
  <2> QED
    BY <2>1, RowFields
<1>4. \A i \in Ids : clips'[i] = None <=> clips[i] = None
  BY <1>1, <1>3 DEF Stored
<1>5. clips' \in [Ids -> {None} \cup ClipRows]
  BY <1>1, <1>3 DEF Stored
<1>6. RowsAgree'
  BY <1>4 DEF RowsAgree, LibraryInv
<1> QED
  BY <1>3, <1>4, <1>5, <1>6, SameClips

LEMMA ApplyStep ==
  ASSUME LibraryInv, NEW a \in Attempts, Apply(a)
  PROVE  LibraryInv'
<1>1. held[a] \in Readings
  BY DEF Apply, HandlerHolds, LibraryInv
<1>2. /\ clips' \in [Ids -> {None} \cup ClipRows]
      /\ suitable' \subseteq Stored' /\ ClipsTrue' /\ AsCut' /\ RowsAgree'
  <2>1. PICK r \in Readings : r = held[a]
    BY <1>1
  <2>2. Transcribe(r) /\ UNCHANGED <<index, suitable, moved, imported>>
    BY <2>1 DEF Apply
  <2> QED
    BY <2>2, TranscribeKeeps
<1>3. Goes(a, "done") /\ Keeps(a, None) /\ "done" \in Places /\ moved' = moved
  BY DEF Apply, Places
<1> QED
  BY <1>2, <1>3, AfterHandler, AtEnd DEF LibraryTypes, LibraryInv

LEMMA ImportTranscriptStep ==
  ASSUME LibraryInv, ImportTranscript
  PROVE  LibraryInv'
<1>1. PICK r \in Readings : Transcribe(r)
  BY DEF ImportTranscript
<1>2. UNCHANGED <<index, suitable, moved, imported, at, held>>
  BY DEF ImportTranscript
<1> QED
  BY <1>1, <1>2, TranscribeKeeps, NobodyMoves DEF LibraryTypes, LibraryInv

\* Looks are stored over the clips as they are.
LEMMA DescribeKeeps ==
  ASSUME LibraryInv, NEW a \in Attempts, Describe(a)
  PROVE  /\ clips' = [i \in Ids |-> clips'[i]]
         /\ \A i \in Ids \ Stored : clips'[i] = None
         /\ \A i \in Stored :
              /\ i \in DOMAIN held[a] /\ held[a][i].interval \in Intervals
              /\ clips'[i] \in ClipRows /\ clips'[i] # None
              /\ clips'[i].interval = clips[i].interval
              /\ clips'[i].assessed = clips[i].assessed /\ clips'[i].script = clips[i].script
              /\ clips'[i].look = [by |-> a, of |-> held[a][i].interval]
<1>1. /\ clips' = [i \in Ids |-> clips'[i]]
      /\ \A i \in Ids : clips'[i] =
            IF clips[i] = None THEN None
            ELSE [clips[i] EXCEPT !.look = [by |-> a, of |-> held[a][i].interval]]
  BY DEF Describe
<1>2. ASSUME NEW i \in Stored
      PROVE  /\ i \in DOMAIN held[a] /\ held[a][i].interval \in Intervals
             /\ clips'[i] \in ClipRows /\ clips'[i] # None
             /\ clips'[i].interval = clips[i].interval
             /\ clips'[i].assessed = clips[i].assessed /\ clips'[i].script = clips[i].script
             /\ clips'[i].look = [by |-> a, of |-> held[a][i].interval]
  <2>1. i \in DOMAIN held[a]
    BY DEF Describe, Listed
  <2>2. held[a][i] \in ClipRows
    BY <2>1 DEF Describe, HandlerHolds, LibraryInv
  <2>3. held[a][i].interval \in Intervals
    BY <2>2, RowFields
  <2>4. clips[i] \in ClipRows /\ i \in Ids /\ clips[i] # None
    BY StoredRows DEF Stored
  <2>5. clips'[i] = [clips[i] EXCEPT !.look = [by |-> a, of |-> held[a][i].interval]]
    BY <1>1, <2>4
  <2>6. [by |-> a, of |-> held[a][i].interval] \in [by : Attempts \cup {"import"}, of : Intervals]
    BY <2>3
  <2>7. /\ clips'[i] \in ClipRows
        /\ clips'[i].interval = clips[i].interval
        /\ clips'[i].assessed = clips[i].assessed /\ clips'[i].script = clips[i].script
        /\ clips'[i].look = [by |-> a, of |-> held[a][i].interval]
    <3>1. PICK l \in [by : Attempts \cup {"import"}, of : Intervals] : l = [by |-> a, of |-> held[a][i].interval]
      BY <2>6
    <3>2. clips'[i] = [clips[i] EXCEPT !.look = l]
      BY <2>5, <3>1
    <3> QED
      BY <2>4, <3>1, <3>2, Looked
  <2> QED
    BY <2>1, <2>3, <2>7, RowFields
<1> QED
  BY <1>1, <1>2 DEF Stored

LEMMA DescribeStep ==
  ASSUME LibraryInv, NEW a \in Attempts, Describe(a)
  PROVE  LibraryInv'
<1> DEFINE now == [i \in Stored |-> clips'[i]]
<1>1. /\ Keeps(a, now) /\ Goes(a, "described") /\ "described" \in Places
      /\ UNCHANGED <<index, suitable, moved, imported>>
  BY DEF Describe, Places
<1>2. clips' \in [Ids -> {None} \cup ClipRows] /\ \A i \in Ids : clips'[i] = None <=> clips[i] = None
  BY DescribeKeeps DEF Stored
<1>3. \A i \in Stored \ moved : clips'[i].look.of = i
  <2>1. ASSUME NEW i \in Stored \ moved
        PROVE  held[a][i].interval = i
    BY DescribeKeeps DEF Describe, HandlerHolds, LibraryInv
  <2>2. ASSUME NEW i \in Stored \ moved
        PROVE  clips'[i].look.of = i
    <3>1. clips'[i].look = [by |-> a, of |-> held[a][i].interval]
      BY DescribeKeeps
    <3> QED
      BY <2>1, <3>1
  <2> QED
    BY <2>2
<1>4. Stored' = Stored /\ suitable' \subseteq Stored' /\ ClipsTrue' /\ AsCut'
  BY <1>1, <1>2, <1>3, DescribeKeeps, SameClips
<1>5. DOMAIN now = Stored /\ \A i \in Stored : now[i] = clips'[i]
  OBVIOUS
<1> HIDE DEF now
<1>6. /\ at' \in [Attempts -> Places] /\ at'[a] = "described"
      /\ held' = [b \in Attempts |-> held'[b]] /\ held'[a] = now
      /\ \A b \in Attempts \ {a} : HandlerHolds(b)'
  BY <1>1, AfterHandler
<1>7. HandlerHolds(a)'
  <2>1. KindOf[a] = "index"
    BY DEF Describe, HandlerHolds, LibraryInv
  <2>2. \A i \in DOMAIN now : now[i] \in ClipRows /\ (i \notin moved' => now[i].interval = i)
    BY <1>1, <1>5, DescribeKeeps DEF ClipsTrue, OfItsId, LibraryInv
  <2>3. DOMAIN now \subseteq Ids
    BY <1>5 DEF Stored
  <2>4. /\ KindOf[a] = "index" /\ DOMAIN held'[a] \subseteq Ids
        /\ \A i \in DOMAIN held'[a] : held'[a][i] \in ClipRows /\ (i \notin moved' => held'[a][i].interval = i)
    BY <1>6, <2>1, <2>2, <2>3
  <2>5. at'[a] \notin {"cut", "hearing", "heard", "writing"}
    BY <1>6
  <2> QED
    BY <2>4, <2>5 DEF HandlerHolds
<1>8. RowsAgree'
  BY <1>1, <1>2 DEF RowsAgree, LibraryInv
<1> QED
  BY <1>2, <1>4, <1>6, <1>7, <1>8 DEF LibraryInv, LibraryTypes
LEMMA IndexStep ==
  ASSUME LibraryInv, NEW a \in Attempts, Index(a)
  PROVE  LibraryInv'
<1> DEFINE D == DOMAIN held[a]
<1>1. /\ clips' = [i \in Ids |-> clips'[i]]
      /\ \A i \in Ids : clips'[i] = IF i \in D THEN [clips[i] EXCEPT !.ref = TRUE] ELSE clips[i]
      /\ \A i \in Ids : index'[i] = IF i \notin D THEN index[i]
                                    ELSE [text |-> TextOf(clips[i]), vector |-> TextOf(held[a][i])]
      /\ UNCHANGED <<suitable, moved, imported>>
      /\ Goes(a, "done") /\ Keeps(a, None) /\ "done" \in Places
  BY DEF Index, Places
<1>2. \A i \in D : held[a][i] \in ClipRows /\ i \in Ids
  BY DEF Index, HandlerHolds, LibraryInv
<1>3. ASSUME NEW i \in D
      PROVE  /\ clips[i] # None /\ clips[i] \in ClipRows
             /\ [clips[i] EXCEPT !.ref = FALSE] = [held[a][i] EXCEPT !.ref = FALSE]
  <2>1. Unchanged(i, held[a][i])
    BY DEF Index
  <2> QED
    BY <1>2, <2>1, StoredRows DEF Unchanged
<1>4. ASSUME NEW i \in D
      PROVE  TextOf(held[a][i]) = TextOf(clips[i])
  <2>1. PICK c \in ClipRows : c = clips[i]
    BY <1>3
  <2>2. PICK h \in ClipRows : h = held[a][i]
    BY <1>2
  <2>3. [c EXCEPT !.ref = FALSE] = [h EXCEPT !.ref = FALSE]
    BY <1>3, <2>1, <2>2
  <2>4. c.script = h.script /\ c.look = h.look
    <3>1. [c EXCEPT !.ref = FALSE].script = c.script /\ [h EXCEPT !.ref = FALSE].script = h.script
      BY DEF ClipRows
    <3>2. [c EXCEPT !.ref = FALSE].look = c.look /\ [h EXCEPT !.ref = FALSE].look = h.look
      BY DEF ClipRows
    <3> QED
      BY <2>3, <3>1, <3>2
  <2> QED
    BY <2>1, <2>2, <2>4 DEF TextOf
<1> HIDE DEF D
<1>5. ASSUME NEW i \in Ids
      PROVE  /\ clips'[i] = None <=> clips[i] = None
             /\ clips'[i] \in {None} \cup ClipRows
             /\ i \in Stored => clips'[i].interval = clips[i].interval /\ clips'[i].look = clips[i].look
  <2>1. CASE i \in D
    <3>1. clips[i] \in ClipRows /\ clips[i] # None
      BY <1>3, <2>1
    <3>2. clips'[i] = [clips[i] EXCEPT !.ref = TRUE]
      BY <1>1, <2>1
    <3>3. clips'[i] \in ClipRows /\ clips'[i].interval = clips[i].interval /\ clips'[i].look = clips[i].look
      BY <3>1, <3>2, Referred
    <3> QED
      BY <3>1, <3>3, RowFields
  <2>2. CASE i \notin D
    BY <1>1, <2>2 DEF LibraryInv, LibraryTypes
  <2> QED
    BY <2>1, <2>2
<1>6. clips' \in [Ids -> {None} \cup ClipRows]
  BY <1>1, <1>5
<1>7. suitable' \subseteq Stored' /\ ClipsTrue' /\ AsCut'
  <2>1. \A i \in Stored : clips'[i].interval = clips[i].interval /\ clips'[i].look = clips[i].look
    BY <1>5 DEF Stored
  <2> QED
    BY <1>1, <1>5, <1>6, <2>1, SameClips
<1>8. RowsAgree'
  <2>1. ASSUME NEW i \in Ids, index'[i] # None
        PROVE  clips'[i] # None /\ index'[i].vector = index'[i].text
    <3>1. CASE i \in D
      <4>1. index'[i] = [text |-> TextOf(clips[i]), vector |-> TextOf(held[a][i])]
        BY <1>1, <3>1
      <4>2. TextOf(held[a][i]) = TextOf(clips[i])
        BY <1>4, <3>1
      <4>3. index'[i].vector = TextOf(held[a][i]) /\ index'[i].text = TextOf(clips[i])
        BY <4>1
      <4>4. clips'[i] # None
        BY <1>3, <1>5, <3>1
      <4> QED
        BY <4>2, <4>3, <4>4
    <3>2. CASE i \notin D
      BY <1>1, <1>5, <2>1, <3>2 DEF LibraryInv, RowsAgree
    <3> QED
      BY <3>1, <3>2
  <2> QED
    BY <2>1 DEF RowsAgree
<1>9. LibraryTypes' /\ \A b \in Attempts : HandlerHolds(b)'
  BY <1>1, <1>6, <1>7, AfterHandler, AtEnd DEF LibraryTypes
<1> QED
  BY <1>7, <1>8, <1>9 DEF LibraryInv

\* One row is written whole.
LEMMA OneRow ==
  ASSUME LibraryInv, NEW i \in Ids, NEW row \in ClipRows, UNCHANGED <<index, suitable>>,
         clips' = [clips EXCEPT ![i] = row], moved \subseteq moved',
         i \notin moved' => OfItsId(i, row),
         imported' = {} => imported = {} /\ row.interval = i /\ i \in Stored
  PROVE  /\ clips' \in [Ids -> {None} \cup ClipRows] /\ suitable' \subseteq Stored'
         /\ ClipsTrue' /\ AsCut' /\ RowsAgree'
<1> USE DEF LibraryInv
<1>1. /\ clips' \in [Ids -> {None} \cup ClipRows] /\ clips'[i] = row /\ row # None
      /\ \A k \in Ids \ {i} : clips'[k] = clips[k]
  BY RowFields DEF LibraryTypes
<1>2. Stored' = Stored \cup {i}
  BY <1>1 DEF Stored
<1>3. suitable' \subseteq Stored' /\ RowsAgree'
  BY <1>1, <1>2 DEF LibraryTypes, RowsAgree
<1>4. ClipsTrue'
  <2>1. ASSUME NEW k \in Stored', k \notin moved'
        PROVE  OfItsId(k, clips'[k])
    <3>1. CASE k = i
      BY <1>1, <2>1, <3>1
    <3>2. CASE k # i
      BY <1>1, <1>2, <2>1, <3>2 DEF ClipsTrue, Stored
    <3> QED
      BY <3>1, <3>2
  <2> QED
    BY <2>1 DEF ClipsTrue, OfItsId
<1>5. AsCut'
  <2>1. SUFFICES ASSUME imported' = {}, Stored' # {}
                 PROVE  (\E b \in Boundaries : Stored' = Cut(b)) /\ \A k \in Stored' : clips'[k].interval = k
    BY DEF AsCut, Cut
  <2>2. Stored' = Stored /\ imported = {}
    BY <1>2, <2>1
  <2> QED
    BY <1>1, <2>1, <2>2 DEF AsCut, Stored
<1> QED
  BY <1>1, <1>3, <1>4, <1>5

LEMMA WriteClipStep ==
  ASSUME LibraryInv, NEW a \in Attempts, WriteClip(a)
  PROVE  LibraryInv'
<1>1. PICK i \in Ids : i = held[a].id
  BY DEF WriteClip, HandlerHolds, LibraryInv
<1>2. PICK row \in ClipRows : row = held[a].clip
  BY DEF WriteClip, HandlerHolds, LibraryInv
<1>3. /\ clips' = [clips EXCEPT ![i] = row] /\ i \in Stored
      /\ imported' = IF row.interval = i THEN imported ELSE imported \cup {i}
      /\ UNCHANGED <<index, suitable, moved>>
      /\ Goes(a, "done") /\ Keeps(a, None) /\ "done" \in Places
  BY <1>1, <1>2 DEF WriteClip, Places, Stored
<1>4. i \notin moved => OfItsId(i, row)
  BY <1>1, <1>2 DEF WriteClip, HandlerHolds, LibraryInv
<1>5. imported' = {} => imported = {} /\ row.interval = i
  BY <1>3
<1>6. /\ clips' \in [Ids -> {None} \cup ClipRows] /\ suitable' \subseteq Stored'
      /\ ClipsTrue' /\ AsCut' /\ RowsAgree'
  BY <1>3, <1>4, <1>5, OneRow
<1>7. LibraryTypes' /\ \A b \in Attempts : HandlerHolds(b)'
  BY <1>3, <1>6, AfterHandler, AtEnd DEF LibraryTypes
<1> QED
  BY <1>6, <1>7 DEF LibraryInv

LEMMA ImportAnalysisStep ==
  ASSUME LibraryInv, ImportAnalysis
  PROVE  LibraryInv'
<1>1. PICK i \in Ids, interval \in Brought, r \in Readings :
        /\ clips' = [clips EXCEPT ![i] = [Blank(interval) EXCEPT
                        !.script = SpokenIn(r, interval), !.look = [by |-> "import", of |-> interval]]]
        /\ imported' = {i}
        /\ moved' = IF interval = i THEN moved ELSE moved \cup {i}
  BY DEF ImportAnalysis
<1>2. UNCHANGED <<index, suitable, at, held>>
  BY DEF ImportAnalysis
<1>3. interval \in Intervals
  BY LibraryAssumption
<1>4. PICK w \in {None} \cup SUBSET Intervals : w = SpokenIn(r, interval)
  BY SpokenWords
<1> DEFINE look == [by |-> "import", of |-> interval]
           row == [Blank(interval) EXCEPT !.script = w, !.look = look]
<1>5. clips' = [clips EXCEPT ![i] = row]
  BY <1>1, <1>4
<1>6. row \in ClipRows /\ row.interval = interval /\ row.look = look
  <2>1. look \in [by : Attempts \cup {"import"}, of : Intervals]
    BY <1>3
  <2> QED
    BY <1>3, <2>1 DEF ClipRows, Blank
<1>7. i \notin moved' => OfItsId(i, row)
  BY <1>1, <1>6 DEF OfItsId
<1> HIDE DEF row, look
<1>8. imported' # {} /\ moved \subseteq moved'
  BY <1>1
<1>9. /\ clips' \in [Ids -> {None} \cup ClipRows] /\ suitable' \subseteq Stored'
      /\ ClipsTrue' /\ AsCut' /\ RowsAgree'
  BY <1>2, <1>5, <1>6, <1>7, <1>8, OneRow
<1> QED
  BY <1>2, <1>8, <1>9, NobodyMoves DEF LibraryInv, LibraryTypes

LEMMA ClaimSuitableStep ==
  ASSUME LibraryInv, ClaimSuitable
  PROVE  LibraryInv'
<1>1. UNCHANGED <<clips, index, moved, imported, at, held>> /\ \E i \in Stored : suitable' = suitable \cup {i}
  BY DEF ClaimSuitable
<1>2. Stored' = Stored /\ suitable' \subseteq Stored'
  BY <1>1 DEF Stored, LibraryInv, LibraryTypes
<1>3. ClipsTrue' /\ AsCut' /\ RowsAgree'
  BY <1>1, <1>2 DEF ClipsTrue, OfItsId, AsCut, RowsAgree, LibraryInv
<1> QED
  BY <1>1, <1>2, <1>3, NobodyMoves DEF LibraryInv, LibraryTypes

\* The steps of a handler that leave the rows alone.
LEMMA HandlerSteps ==
  ASSUME LibraryInv, NEW a \in Attempts,
         Stop(a) \/ Analyze(a) \/ AskTranscript(a) \/ Transcribed(a) \/ List(a) \/ AskLooks(a)
           \/ LooksLost(a) \/ AskVectors(a) \/ VectorsLost(a) \/ ReadClip(a)
  PROVE  LibraryInv'
<1> USE DEF Places
<1>1. UNCHANGED <<clips, index, suitable, moved, imported>>
  BY DEF Stop, Analyze, AskTranscript, Transcribed, List, AskLooks, LooksLost, AskVectors, VectorsLost, ReadClip
<1>2. at \in [Attempts -> Places] /\ held = [b \in Attempts |-> held[b]] /\ HandlerHolds(a)
  BY DEF LibraryInv, LibraryTypes
<1>3. ASSUME NEW h, NEW p, Goes(a, p), Keeps(a, h)
      PROVE  at'[a] = p /\ held'[a] = h
  BY <1>2, <1>3 DEF Goes, Keeps
<1>4. ASSUME UNCHANGED held
      PROVE  Keeps(a, held[a])
  <2>1. held = [held EXCEPT ![a] = held[a]]
    BY <1>2
  <2> QED
    BY <1>4, <2>1 DEF Keeps
<1>5. CASE Stop(a) \/ LooksLost(a) \/ VectorsLost(a)
  <2>1. Goes(a, "gone") /\ Keeps(a, None)
    BY <1>5 DEF Stop, LooksLost, VectorsLost
  <2>2. HandlerHolds(a)'
    BY <1>3, <2>1, AtEnd
  <2> QED
    BY <1>1, <2>1, <2>2, OneHandler
<1>6. CASE Analyze(a)
  <2>1. PICK b \in Boundaries : Keeps(a, Cut(b))
    BY <1>6 DEF Analyze
  <2>2. KindOf[a] = "analyze" /\ Goes(a, "cut")
    BY <1>6 DEF Analyze
  <2>3. at'[a] = "cut" /\ held'[a] = Cut(b)
    BY <1>3, <2>1, <2>2
  <2>4. HandlerHolds(a)'
    BY <2>2, <2>3 DEF HandlerHolds, Cut
  <2> QED
    BY <1>1, <2>1, <2>2, <2>4, OneHandler
<1>7. CASE AskTranscript(a)
  <2>1. Goes(a, "hearing") /\ Keeps(a, held[a]) /\ KindOf[a] = "transcribe"
    BY <1>4, <1>7 DEF AskTranscript
  <2>2. HandlerHolds(a)'
    BY <1>3, <2>1 DEF HandlerHolds
  <2> QED
    BY <1>1, <2>1, <2>2, OneHandler
<1>8. CASE Transcribed(a)
  <2>1. KindOf[a] = "transcribe"
    BY <1>2, <1>8 DEF Transcribed, HandlerHolds
  <2>2. CASE Goes(a, "gone") /\ UNCHANGED held
    <3>1. Keeps(a, held[a])
      BY <1>4, <2>2
    <3>2. HandlerHolds(a)'
      BY <1>3, <2>2, <3>1, AtEnd
    <3> QED
      BY <1>1, <2>2, <3>1, <3>2, OneHandler
  <2>3. CASE Goes(a, "heard") /\ \E r \in Readings : Keeps(a, r)
    <3>1. PICK r \in Readings : Keeps(a, r)
      BY <2>3
    <3>2. HandlerHolds(a)'
      BY <1>3, <2>1, <2>3, <3>1 DEF HandlerHolds
    <3> QED
      BY <1>1, <2>3, <3>1, <3>2, OneHandler
  <2> QED
    BY <1>8, <2>2, <2>3 DEF Transcribed
<1>9. CASE List(a) \/ AskLooks(a)
  <2>1. PICK p \in {"frames", "looking"} : Goes(a, p)
    BY <1>9 DEF List, AskLooks
  <2>2. Keeps(a, Copy)
    BY <1>9 DEF List, AskLooks
  <2>3. KindOf[a] = "index"
    BY <1>2, <1>9 DEF List, AskLooks, HandlerHolds
  <2>4. PICK copy : copy = Copy
    OBVIOUS
  <2>5. DOMAIN copy \subseteq Ids /\ \A i \in DOMAIN copy : copy[i] \in ClipRows /\ (i \notin moved => copy[i].interval = i)
    BY <2>4, StoredRows DEF Copy, Stored, LibraryInv, ClipsTrue, OfItsId
  <2>6. at'[a] = p /\ held'[a] = copy
    BY <1>3, <2>1, <2>2, <2>4
  <2>7. HandlerHolds(a)'
    <3>1. at'[a] \notin {"cut", "hearing", "heard", "writing"}
      BY <2>6
    <3>2. /\ KindOf[a] = "index" /\ DOMAIN held'[a] \subseteq Ids
          /\ \A i \in DOMAIN held'[a] : held'[a][i] \in ClipRows /\ (i \notin moved' => held'[a][i].interval = i)
      BY <1>1, <2>3, <2>5, <2>6
    <3> QED
      BY <3>1, <3>2 DEF HandlerHolds
  <2> QED
    BY <1>1, <2>1, <2>2, <2>7, OneHandler
<1>10. CASE AskVectors(a)
  <2>1. Goes(a, "embedding") /\ Keeps(a, held[a]) /\ at[a] = "described"
    BY <1>4, <1>10 DEF AskVectors
  <2>2. at'[a] = "embedding" /\ held'[a] = held[a]
    BY <1>3, <2>1
  <2>3. HandlerHolds(a)'
    BY <1>1, <1>2, <2>1, <2>2 DEF HandlerHolds
  <2> QED
    BY <1>1, <2>1, <2>3, OneHandler
<1>11. CASE ReadClip(a)
  <2>1. PICK i \in Stored : Keeps(a, [id |-> i, clip |-> [clips[i] EXCEPT !.assessed = a]])
    BY <1>11 DEF ReadClip
  <2>2. KindOf[a] = "assess" /\ Goes(a, "writing")
    BY <1>11 DEF ReadClip
  <2>3. clips[i] \in ClipRows /\ i \in Ids
    BY StoredRows DEF Stored
  <2>4. PICK row : row = [clips[i] EXCEPT !.assessed = a]
    OBVIOUS
  <2>5. row \in ClipRows /\ row.interval = clips[i].interval /\ row.look = clips[i].look
    BY <2>3, <2>4, Assessed
  <2>6. i \notin moved => OfItsId(i, row)
    BY <2>5 DEF LibraryInv, ClipsTrue, OfItsId
  <2>7. at'[a] = "writing" /\ held'[a] = [id |-> i, clip |-> row]
    BY <1>3, <2>1, <2>2, <2>4
  <2>8. held'[a].id = i /\ held'[a].clip = row /\ moved' = moved
    BY <1>1, <2>7
  <2>9. HandlerHolds(a)'
    <3>1. OfItsId(held[a].id, held[a].clip)' <=> OfItsId(i, row)
      BY <2>8 DEF OfItsId
    <3> QED
      BY <2>2, <2>3, <2>5, <2>6, <2>7, <2>8, <3>1 DEF HandlerHolds
  <2> QED
    BY <1>1, <2>1, <2>2, <2>9, OneHandler
<1> QED
  BY <1>5, <1>6, <1>7, <1>8, <1>9, <1>10, <1>11
LEMMA LibraryStep ==
  ASSUME LibraryInv, LibraryNext
  PROVE  LibraryInv'
BY HandlerSteps, ReplaceStep, ApplyStep, DescribeStep, IndexStep, WriteClipStep, ImportTranscriptStep,
   ImportAnalysisStep, ClaimSuitableStep DEF LibraryNext

LEMMA LibraryStays ==
  ASSUME LibraryInv, UNCHANGED libraryVars
  PROVE  LibraryInv'
<1>1. UNCHANGED <<clips, index, suitable, moved, imported, at, held>>
  BY DEF libraryVars
<1>2. Stored' = Stored
  BY <1>1 DEF Stored
<1>3. \A a \in Attempts : HandlerHolds(a)'
  BY <1>1, OthersStand DEF LibraryInv
<1> QED
  BY <1>1, <1>2, <1>3 DEF LibraryInv, LibraryTypes, ClipsTrue, OfItsId, AsCut, Cut, RowsAgree

LEMMA LibraryStart ==
  ASSUME LibraryInit
  PROVE  LibraryInv
<1>1. Stored = {}
  BY DEF LibraryInit, Stored
<1>2. LibraryTypes
  BY <1>1 DEF LibraryInit, LibraryTypes, Places
<1>3. \A a \in Attempts : HandlerHolds(a)
  BY DEF LibraryInit, HandlerHolds
<1>4. ClipsTrue /\ AsCut /\ RowsAgree
  BY <1>1 DEF LibraryInit, ClipsTrue, AsCut, RowsAgree
<1> QED
  BY <1>2, <1>3, <1>4 DEF LibraryInv

LEMMA LibraryMeans ==
  ASSUME LibraryInv
  PROVE  LibrarySound
<1> USE DEF LibraryInv
<1>1. LibraryTypeOK
  <2>1. \A i \in Ids : clips[i] # None => clips[i] \in ClipRows
    BY DEF LibraryTypes
  <2> QED
    BY <2>1, RowFields DEF LibraryTypes, LibraryTypeOK
<1>2. Partitioned
  <2>1. SUFFICES ASSUME imported = {}, Stored # {}
                 PROVE  LET cut == {clips[i].interval : i \in Stored}
                        IN  /\ \A t \in 0..(Duration - 1) : Cardinality({i \in cut : i[1] <= t /\ t < i[2]}) = 1
                            /\ cut # {<<0, Duration>>} => \A i \in cut : i[2] - i[1] >= MinClip
    BY DEF Partitioned
  <2>2. PICK b \in Boundaries : Stored = Cut(b)
    BY <2>1 DEF AsCut
  <2>3. {clips[i].interval : i \in Stored} = Cut(b)
    BY <2>1, <2>2 DEF AsCut
  <2>4. b \in SUBSET (0..Duration)
    BY LibraryAssumption
  <2> QED
    BY <2>3, <2>4, CutParts
<1>3. LooksTrue
  BY DEF ClipsTrue, OfItsId, LooksTrue
<1> QED
  BY <1>1, <1>2, <1>3 DEF LibrarySound

\* Only a handler that stores what it was told changes rows, each what is its own.
LEMMA KeepsStep ==
  ASSUME LibraryInv, LibraryNext
  PROVE  KeepsOthers
<1> SUFFICES ASSUME NEW a \in Attempts, at'[a] # at[a], KindOf[a] \in {"index", "transcribe"}
             PROVE  \A i \in Stored : clips'[i] # None /\ clips'[i].interval = clips[i].interval
                      /\ clips'[i].assessed = clips[i].assessed
                      /\ (KindOf[a] = "index" => clips'[i].script = clips[i].script)
                      /\ (at[a] # "looking" => clips'[i].look = clips[i].look)
  BY DEF KeepsOthers
<1>1. ASSUME NEW b \in Attempts, NEW p, Goes(b, p)
      PROVE  a = b
  BY <1>1 DEF Goes, LibraryInv, LibraryTypes
<1>2. CASE UNCHANGED clips
  BY <1>2 DEF Stored
<1>3. CASE \E b \in Attempts : Replace(b) \/ WriteClip(b)
  <2>1. PICK b \in Attempts : Replace(b) \/ WriteClip(b)
    BY <1>3
  <2>2. a = b
    BY <1>1, <2>1 DEF Replace, WriteClip
  <2>3. KindOf[b] \in {"analyze", "assess"}
    BY <2>1 DEF Replace, WriteClip, LibraryInv, HandlerHolds
  <2> QED
    BY <2>2, <2>3
<1>4. CASE \E b \in Attempts : Apply(b)
  <2>1. PICK b \in Attempts : Apply(b)
    BY <1>4
  <2>2. a = b
    BY <1>1, <2>1 DEF Apply
  <2>3. KindOf[b] = "transcribe" /\ held[b] \in Readings
    BY <2>1 DEF Apply, LibraryInv, HandlerHolds
  <2>4. PICK r \in Readings : r = held[b]
    BY <2>3
  <2>5. Transcribe(r) /\ UNCHANGED <<index, suitable, moved, imported>>
    BY <2>1, <2>4 DEF Apply
  <2> QED
    BY <2>2, <2>3, <2>5, TranscribeKeeps
<1>5. CASE \E b \in Attempts : Describe(b)
  <2>1. PICK b \in Attempts : Describe(b)
    BY <1>5
  <2>2. a = b /\ at[b] = "looking"
    BY <1>1, <2>1 DEF Describe
  <2> QED
    BY <2>1, <2>2, DescribeKeeps
<1>6. CASE \E b \in Attempts : Index(b)
  <2>1. PICK b \in Attempts : Index(b)
    BY <1>6
  <2>2. ASSUME NEW i \in Stored
        PROVE  /\ clips'[i] # None /\ clips'[i].interval = clips[i].interval /\ clips'[i].assessed = clips[i].assessed
               /\ clips'[i].script = clips[i].script /\ clips'[i].look = clips[i].look
    <3>1. i \in Ids /\ clips[i] \in ClipRows /\ clips[i] # None
      BY StoredRows DEF Stored
    <3>2. clips'[i] = IF i \in DOMAIN held[b] THEN [clips[i] EXCEPT !.ref = TRUE] ELSE clips[i]
      BY <2>1, <3>1 DEF Index
    <3>3. CASE i \notin DOMAIN held[b]
      BY <3>1, <3>2, <3>3
    <3>4. CASE i \in DOMAIN held[b]
      BY <3>1, <3>2, <3>4, Referred, RowFields
    <3> QED
      BY <3>3, <3>4
  <2> QED
    BY <2>2
<1>7. CASE ImportTranscript \/ ImportAnalysis \/ ClaimSuitable
  <2>1. UNCHANGED at
    BY <1>7 DEF ImportTranscript, ImportAnalysis, ClaimSuitable
  <2> QED
    BY <2>1
<1>8. ASSUME NEW b \in Attempts,
             Stop(b) \/ Analyze(b) \/ AskTranscript(b) \/ Transcribed(b) \/ List(b) \/ AskLooks(b)
               \/ LooksLost(b) \/ AskVectors(b) \/ VectorsLost(b) \/ ReadClip(b)
      PROVE  UNCHANGED clips
  BY <1>8 DEF Stop, Analyze, AskTranscript, Transcribed, List, AskLooks, LooksLost, AskVectors, VectorsLost, ReadClip
<1> QED
  BY <1>2, <1>3, <1>4, <1>5, <1>6, <1>7, <1>8 DEF LibraryNext
-----------------------------------------------------------------------------
(* The desk of preferences, limits, drafts and renders (PlanningDesk).  A   *)
(* render that is queued meets no row of the context it was queued under.   *)

PrefRow == [version : Nat, state : {"candidate", "enabled", "disabled"}, profile : Nat, stops : BOOLEAN]

(* A row of a render's context meets a use. *)
RowMeets(row, reasons, u) ==
    /\ row.state = "enabled"
    /\ \E v \in row.scope :
          v.source = u.source /\ (reasons # {} \/ u.look = "unknown" \/ v.look = u.look)

DraftForm(d) ==
    d = [version |-> d.version, revision |-> d.revision, script |-> d.script, scenes |-> d.scenes,
         derived |-> d.derived, performance |-> d.performance, profile |-> d.profile, refs |-> d.refs]

(* The rows are there and of their kind, ... *)
DeskShape ==
    /\ profile \in Nat
    /\ prefs \in [Preferences -> PrefRow \cup {Absent}]
    /\ DraftForm(draft)
    /\ renders = [j \in RenderJobs |-> renders[j]]
    /\ \A j \in RenderJobs :
          \/ renders[j] = NoRender
          \/ renders[j] = [status |-> renders[j].status, use |-> renders[j].use, context |-> renders[j].context]

(* ... a tab shows nothing derived without scenes, since it may send both, *)
TabStands == tab.derived # 0 => tab.scenes # NoScenes

(* ... and what a render was queued under meets its use nowhere: said of   *)
(* the stored context alone, since the present one may differ.             *)
QueuedUnmet ==
    \A j \in RenderJobs :
        renders[j].status \in {"queued", "rendering", "checked", "done"}
            => \A c \in renders[j].context : ~RowMeets(c[2], c[3], renders[j].use)

DeskInv == DeskShape /\ AtMostOneEnabled /\ DraftStandsOnPresent /\ TabStands /\ QueuedUnmet

-----------------------------------------------------------------------------
(* A limit meets a use exactly as its row in the context does. *)
LEMMA MeetsByRow ==
  ASSUME NEW l \in Recorded, NEW u
  PROVE  /\ <<l, limits[l], LimitReasons(l)>> \in Context
         /\ Meets(l, u) <=> RowMeets(limits[l], LimitReasons(l), u)
BY DEF Context, Meets, RowMeets

(* Whatever is sent, what is stored stands on the present, ... *)
LEMMA SavedStands ==
  ASSUME DeskShape, DraftStandsOnPresent,
         NEW given, NEW accept \in BOOLEAN, NEW current,
         given.performance \in {"kept", "none"} \/ given.performance = given.script,
         given.derived # 0 => given.scenes # NoScenes,
         draft' = Saved(given, accept, current)
  PROVE  /\ DraftForm(draft')
         /\ draft'.profile = current
         /\ draft'.derived # 0 => draft'.scenes # NoScenes
         /\ draft'.performance \in {"none", draft'.script}
<1> DEFINE value == Kept(given, accept, current)
<1>1. /\ DraftForm(value)
      /\ value.profile = current
      /\ value.derived # 0 => value.scenes # NoScenes
      /\ value.performance \in {"none", value.script}
  <2>1. CASE draft = NoDraft
    BY <2>1 DEF DeskShape, DraftForm, Kept, NoDraft
  <2>2. CASE draft # NoDraft
    BY <2>2 DEF DeskShape, DraftForm, Kept, DraftStandsOnPresent
  <2> QED
    BY <2>1, <2>2
<1>2. CASE value = draft
  BY <1>1, <1>2 DEF Saved
<1>3. CASE value # draft
  <2>1. draft' = [value EXCEPT !.version = @ + 1]
    BY <1>3 DEF Saved
  <2> HIDE DEF value
  <2> QED
    BY <1>1, <2>1 DEF DraftForm
<1> QED
  BY <1>2, <1>3

(* ... what was derived stays only with the script, scenes and profile the *)
(* draft has, and scenes only with its script and profile or as accepted.  *)
LEMMA SavedReturns ==
  ASSUME DeskShape, draft # NoDraft,
         NEW given, NEW accept \in BOOLEAN, NEW current,
         draft' = Saved(given, accept, current), draft' # draft
  PROVE  /\ draft'.derived # 0 => /\ draft'.derived = given.derived
                                  /\ draft'.script = draft.script
                                  /\ draft'.scenes = draft.scenes
                                  /\ draft.profile = current
         /\ draft'.scenes # NoScenes => /\ draft'.scenes = given.scenes
                                        /\ \/ accept
                                           \/ draft'.script = draft.script /\ draft.profile = current
<1> DEFINE value == Kept(given, accept, current)
<1>1. /\ value.derived # 0 => /\ value.derived = given.derived
                              /\ value.script = draft.script
                              /\ value.scenes = draft.scenes
                              /\ draft.profile = current
      /\ value.scenes # NoScenes => /\ value.scenes = given.scenes
                                    /\ \/ accept
                                       \/ value.script = draft.script /\ draft.profile = current
  BY DEF Kept
<1>2. draft' = [value EXCEPT !.version = @ + 1]
  BY DEF Saved
<1>3. DraftForm(value)
  BY DEF Kept, DraftForm
<1> HIDE DEF value
<1>4. /\ draft'.derived = value.derived /\ draft'.script = value.script
      /\ draft'.scenes = value.scenes
  BY <1>2, <1>3 DEF DraftForm
<1> QED
  BY <1>1, <1>4

LEMMA SavedKeeps ==
  ASSUME NEW given, NEW accept \in BOOLEAN, NEW current,
         draft' = Saved(given, accept, current), draft' # draft, draft'.scenes # NoScenes
  PROVE  draft'.scenes = given.scenes /\ draft'.refs = given.refs
<1> DEFINE value == Kept(given, accept, current)
<1>1. value.scenes \in {NoScenes, given.scenes} /\ value.refs = given.refs /\ DraftForm(value)
  BY DEF Kept, DraftForm
<1>2. draft' = [value EXCEPT !.version = @ + 1]
  BY DEF Saved
<1> HIDE DEF value
<1>3. draft'.scenes = value.scenes /\ draft'.refs = value.refs
  BY <1>1, <1>2 DEF DraftForm
<1> QED
  BY <1>1, <1>3

(* The draft sent back says what it says, one field apart. *)
LEMMA ResentFields ==
  /\ \A refs : LET sent == Resent("refs", refs)
              IN /\ sent.performance = "kept" /\ sent.derived = draft.derived
                 /\ sent.scenes = draft.scenes
  /\ \A d : LET sent == Resent("performance", d)
           IN /\ sent.performance = d /\ sent.script = draft.script
              /\ sent.derived = draft.derived /\ sent.scenes = draft.scenes
BY DEF Resent

LEMMA InitDesk == DeskInit => DeskInv
<1> SUFFICES ASSUME DeskInit PROVE DeskInv
  OBVIOUS
<1>1. DeskShape
  BY DEF DeskInit, DeskShape, DraftForm, NoDraft, NoRender
<1>2. AtMostOneEnabled /\ DraftStandsOnPresent /\ TabStands
  BY DEF DeskInit, AtMostOneEnabled, DraftStandsOnPresent, TabStands, NoTab, Absent
<1>3. QueuedUnmet
  BY DEF DeskInit, QueuedUnmet, NoRender
<1> QED
  BY <1>1, <1>2, <1>3 DEF DeskInv

-----------------------------------------------------------------------------
(* A request that stores the draft sends it back, or sends what a tab has, *)
(* or what the planner answered.                                           *)
Sent(given, accept, current) ==
    /\ draft' = Saved(given, accept, current)
    /\ given.performance \in {"kept", "none"} \/ given.performance = given.script
    /\ given.derived # 0 => given.scenes # NoScenes

LEMMA Revised ==
  ASSUME DeskInv, ReviseProfile, draft # NoDraft
  PROVE  \E given : Sent(given, FALSE, profile') /\ given.scenes = draft.scenes
<1>1. PICK given : given = Resent("refs", PlanningRefs')
  OBVIOUS
<1>2. draft' = Saved(given, FALSE, profile')
  BY <1>1 DEF ReviseProfile
<1>3. given.performance = "kept" /\ given.derived = draft.derived /\ given.scenes = draft.scenes
  BY <1>1, ResentFields
<1> QED
  BY <1>2, <1>3 DEF Sent, DeskInv, DraftStandsOnPresent

LEMMA SentByTab ==
  ASSUME DeskInv, SaveDraft
  PROVE  \E given : /\ Sent(given, FALSE, profile)
                    /\ given.scenes \in {NoScenes, tab.scenes, [copy |-> "written", under |-> profile, refs |-> {}]}
<1> DEFINE written == [copy |-> "written", under |-> profile, refs |-> {}]
<1>1. PICK script \in Scripts, sent \in Sendable :
         draft' = Saved([script |-> script, scenes |-> sent[1], derived |-> sent[2],
                         performance |-> "kept", refs |-> PlanningRefs], FALSE, profile)
  BY DEF SaveDraft
<1>2. sent[1] \in {NoScenes, tab.scenes, written} /\ (sent[2] # 0 => sent[1] # NoScenes)
  BY DEF Sendable, DeskInv, TabStands, NoScenes
<1>3. PICK given : given = [script |-> script, scenes |-> sent[1], derived |-> sent[2],
                            performance |-> "kept", refs |-> PlanningRefs]
  OBVIOUS
<1>4. given.scenes = sent[1] /\ given.derived = sent[2] /\ given.performance = "kept"
  BY <1>3
<1> QED
  BY <1>1, <1>2, <1>3, <1>4 DEF Sent

LEMMA Directed ==
  ASSUME DeskInv, DirectNarration
  PROVE  draft # NoDraft /\ \E given : Sent(given, FALSE, profile) /\ given.scenes = draft.scenes
<1>1. PICK directions \in {draft.script, "none"} :
         draft' = Saved(Resent("performance", directions), FALSE, profile)
  BY DEF DirectNarration
<1>2. PICK given : given = Resent("performance", directions)
  OBVIOUS
<1>3. /\ given.performance = directions /\ given.script = draft.script
      /\ given.derived = draft.derived /\ given.scenes = draft.scenes
  BY <1>2, ResentFields
<1> QED
  BY <1>1, <1>2, <1>3 DEF Sent, DeskInv, DraftStandsOnPresent, DirectNarration

LEMMA Accepted ==
  ASSUME AcceptPlan, draft' # draft
  PROVE  \E given : /\ Sent(given, TRUE, profile)
                    /\ given.scenes = [copy |-> "planned", under |-> planning.profile, refs |-> planning.refs]
                    /\ given.refs = planning.refs
<1>1. PICK scenes : scenes = [copy |-> "planned", under |-> planning.profile, refs |-> planning.refs]
  OBVIOUS
<1>2. PICK script \in Scripts :
         draft' = Saved([script |-> script, scenes |-> scenes, derived |-> 0,
                         performance |-> "kept", refs |-> planning.refs], TRUE, profile)
  BY <1>1 DEF AcceptPlan
<1>3. PICK given : given = [script |-> script, scenes |-> scenes, derived |-> 0,
                            performance |-> "kept", refs |-> planning.refs]
  OBVIOUS
<1>4. /\ given.scenes = scenes /\ given.derived = 0 /\ given.performance = "kept"
      /\ given.refs = planning.refs
  BY <1>3
<1> QED
  BY <1>1, <1>2, <1>3, <1>4 DEF Sent

(* What is sent is stored as what stands on the present. *)
LEMMA SentStands ==
  ASSUME DeskInv, NEW given, NEW accept \in BOOLEAN, Sent(given, accept, profile'), UNCHANGED <<prefs, renders>>,
         profile' \in Nat
  PROVE  DeskShape' /\ AtMostOneEnabled' /\ DraftStandsOnPresent' /\ QueuedUnmet'
<1>1. /\ DraftForm(draft')
      /\ draft'.profile = profile'
      /\ draft'.derived # 0 => draft'.scenes # NoScenes
      /\ draft'.performance \in {"none", draft'.script}
  BY SavedStands DEF DeskInv, Sent
<1>2. DeskShape'
  BY <1>1 DEF DeskInv, DeskShape
<1>3. AtMostOneEnabled' /\ QueuedUnmet'
  BY DEF DeskInv, AtMostOneEnabled, QueuedUnmet
<1>4. DraftStandsOnPresent'
  BY <1>1 DEF DraftStandsOnPresent
<1> QED
  BY <1>2, <1>3, <1>4

(* Steps on the draft: it stands on the present again, the rest is as it was. *)
LEMMA DraftSteps ==
  ASSUME DeskInv, ReviseProfile \/ SaveDraft \/ DirectNarration \/ AcceptPlan
  PROVE  DeskInv'
<1> DEFINE Stands == DeskShape /\ AtMostOneEnabled /\ DraftStandsOnPresent /\ QueuedUnmet
<1>1. UNCHANGED <<prefs, renders>> /\ profile' \in Nat
  <2>1. UNCHANGED <<prefs, renders>> /\ profile' \in {profile, profile + 1}
    BY DEF ReviseProfile, SaveDraft, DirectNarration, AcceptPlan
  <2> QED
    BY <2>1 DEF DeskInv, DeskShape
<1>2. ASSUME UNCHANGED <<draft, profile>>
      PROVE  Stands'
  BY <1>1, <1>2 DEF DeskInv, DeskShape, AtMostOneEnabled, DraftStandsOnPresent, QueuedUnmet
<1>3. ASSUME draft = NoDraft, draft' = NoDraft
      PROVE  Stands'
  BY <1>1, <1>3 DEF DeskInv, DeskShape, AtMostOneEnabled, DraftStandsOnPresent, QueuedUnmet
<1>4. ASSUME NEW given, NEW accept \in BOOLEAN, Sent(given, accept, profile')
      PROVE  Stands'
  BY <1>1, <1>4, SentStands
<1> HIDE DEF Stands
<1>5. CASE ReviseProfile \/ SaveDraft \/ DirectNarration
  <2>1. UNCHANGED tab
    BY <1>5 DEF ReviseProfile, SaveDraft, DirectNarration
  <2>2. Stands'
    <3>1. CASE ReviseProfile
      <4>1. CASE draft = NoDraft
        BY <3>1, <4>1, <1>3 DEF ReviseProfile
      <4>2. CASE draft # NoDraft
        BY <3>1, <4>2, <1>4, Revised
      <4> QED
        BY <4>1, <4>2
    <3>2. CASE SaveDraft
      BY <3>2, <1>4, SentByTab DEF SaveDraft
    <3>3. CASE DirectNarration
      BY <3>3, <1>4, Directed DEF DirectNarration
    <3> QED
      BY <1>5, <3>1, <3>2, <3>3
  <2> QED
    BY <2>1, <2>2 DEF Stands, DeskInv, TabStands
<1>6. CASE AcceptPlan
  <2>1. Stands'
    <3>1. profile' = profile
      BY <1>6 DEF AcceptPlan
    <3>2. CASE draft' = draft
      BY <1>2, <3>1, <3>2
    <3>3. CASE draft' # draft
      BY <1>4, <1>6, <3>1, <3>3, Accepted
    <3> QED
      BY <3>2, <3>3
  <2>2. \/ tab'.derived = 0
        \/ tab'.derived = draft'.derived /\ tab'.scenes = draft'.scenes
    <3>1. \/ tab' = [scenes |-> [copy |-> "planned", under |-> planning.profile, refs |-> planning.refs],
                     derived |-> 0, revision |-> IF draft = NoDraft THEN 1 ELSE draft.revision]
          \/ tab' = [scenes |-> draft'.scenes, derived |-> draft'.derived, revision |-> draft'.revision]
      BY <1>6 DEF AcceptPlan, Displayed
    <3> QED
      BY <3>1
  <2>3. draft'.derived # 0 => draft'.scenes # NoScenes
    BY <2>1 DEF Stands, DraftStandsOnPresent, NoDraft
  <2>4. TabStands'
    BY <2>2, <2>3 DEF TabStands
  <2> QED
    BY <2>1, <2>4 DEF Stands, DeskInv
<1> QED
  BY <1>5, <1>6

-----------------------------------------------------------------------------
(* Steps on the preferences: enabling one disables what was enabled. *)
LEMMA PreferenceSteps ==
  ASSUME DeskInv,
         \/ SelectPreference
         \/ \E o \in Observations : DrawPreference(o)
         \/ \E p \in Preferences : EnablePreference(p) \/ DisablePreference(p)
  PROVE  DeskInv'
<1> USE DEF DeskInv
<1> DEFINE Rows == PrefRow \cup {Absent}
<1>1. UNCHANGED <<profile, draft, tab, renders>>
  BY DEF SelectPreference, DrawPreference, EnablePreference, DisablePreference
<1>2. ASSUME NEW row \in PrefRow, NEW state \in {"candidate", "enabled", "disabled"}
      PROVE  Turned(row, state) \in PrefRow /\ Turned(row, state).state = state
  <2> DEFINE turned == [row EXCEPT !.state = state]
  <2>1. turned \in PrefRow /\ turned.state = state /\ turned.version = row.version
    BY DEF PrefRow
  <2>2. Turned(row, state) = [turned EXCEPT !.version = turned.version + 1]
    BY DEF Turned, PrefRow
  <2> HIDE DEF turned
  <2> QED
    BY <2>1, <2>2 DEF PrefRow
<1>3. \A p \in Preferences : prefs[p] \in Rows
  BY DEF DeskShape
<1>4. prefs' \in [Preferences -> Rows] /\ AtMostOneEnabled'
  <2>1. CASE SelectPreference
    <3>1. prefs[OwnSelection].version \in Nat
      BY <1>3 DEF PrefRow, Absent, Preferences
    <3> DEFINE next == prefs[OwnSelection].version + 1
    <3>2. Candidate(next, FALSE) \in PrefRow /\ Candidate(next, FALSE).state = "candidate"
      BY <3>1 DEF Candidate, PrefRow, DeskShape
    <3>3. prefs' = [prefs EXCEPT ![OwnSelection] = Candidate(next, FALSE)]
      BY <2>1 DEF SelectPreference
    <3> HIDE DEF next
    <3> QED
      BY <3>2, <3>3 DEF DeskShape, AtMostOneEnabled
  <2>2. ASSUME NEW o \in Observations, DrawPreference(o)
        PROVE  prefs' \in [Preferences -> Rows] /\ AtMostOneEnabled'
    <3>1. PICK stops \in BOOLEAN : prefs' = [prefs EXCEPT ![o] = Candidate(1, stops)]
      BY <2>2 DEF DrawPreference
    <3>2. Candidate(1, stops) \in PrefRow /\ Candidate(1, stops).state = "candidate"
      BY DEF Candidate, PrefRow, DeskShape
    <3> QED
      BY <3>1, <3>2 DEF DeskShape, AtMostOneEnabled
  <2>3. ASSUME NEW p \in Preferences, EnablePreference(p)
        PROVE  prefs' \in [Preferences -> Rows] /\ AtMostOneEnabled'
    <3>1. /\ prefs[p] # Absent
          /\ prefs' = [q \in Preferences |->
                          IF q = p THEN Turned(prefs[q], "enabled")
                          ELSE IF prefs[q] # Absent /\ prefs[q].state = "enabled"
                          THEN Turned(prefs[q], "disabled") ELSE prefs[q]]
      BY <2>3 DEF EnablePreference
    <3>2. ASSUME NEW q \in Preferences
          PROVE  prefs'[q] \in Rows /\ (q # p /\ prefs'[q] # Absent => prefs'[q].state # "enabled")
      <4>1. CASE q = p
        BY <1>2, <1>3, <3>1, <4>1
      <4>2. CASE q # p /\ prefs[q] # Absent /\ prefs[q].state = "enabled"
        <5>1. prefs'[q] = Turned(prefs[q], "disabled")
          BY <3>1, <4>2
        <5> QED
          BY <1>2, <1>3, <4>2, <5>1
      <4>3. CASE q # p /\ ~(prefs[q] # Absent /\ prefs[q].state = "enabled")
        BY <1>3, <3>1, <4>3
      <4> QED
        BY <4>1, <4>2, <4>3
    <3> QED
      BY <3>1, <3>2 DEF AtMostOneEnabled
  <2>4. ASSUME NEW p \in Preferences, DisablePreference(p)
        PROVE  prefs' \in [Preferences -> Rows] /\ AtMostOneEnabled'
    <3>1. prefs[p] # Absent /\ prefs' = [prefs EXCEPT ![p] = Turned(prefs[p], "disabled")]
      BY <2>4 DEF DisablePreference
    <3>2. Turned(prefs[p], "disabled") \in PrefRow /\ Turned(prefs[p], "disabled").state = "disabled"
      BY <1>2, <1>3, <3>1
    <3> QED
      BY <3>1, <3>2 DEF DeskShape, AtMostOneEnabled
  <2> QED
    BY <2>1, <2>2, <2>3, <2>4
<1>5. DeskShape'
  BY <1>1, <1>4 DEF DeskShape
<1>6. DraftStandsOnPresent' /\ TabStands' /\ QueuedUnmet'
  BY <1>1 DEF DraftStandsOnPresent, TabStands, QueuedUnmet
<1> QED
  BY <1>4, <1>5, <1>6

-----------------------------------------------------------------------------
(* Steps on the renders: one is queued for a use its context does not meet. *)
LEMMA RenderSteps ==
  ASSUME DeskInv, NEW j \in RenderJobs,
         QueueRender(j) \/ StartRender(j) \/ MeasureRender(j) \/ FinishRender(j)
  PROVE  DeskInv'
<1> USE DEF DeskInv
<1>1. UNCHANGED <<profile, prefs, draft, tab>>
  BY DEF QueueRender, StartRender, MeasureRender, FinishRender
<1>2. AtMostOneEnabled' /\ DraftStandsOnPresent' /\ TabStands'
  BY <1>1 DEF AtMostOneEnabled, DraftStandsOnPresent, TabStands
<1>3. CASE QueueRender(j)
  <2>1. PICK u \in Uses :
           /\ ~\E l \in Recorded : Meets(l, u)
           /\ renders' = [renders EXCEPT ![j] = [status |-> "queued", use |-> u, context |-> Context]]
    BY <1>3 DEF QueueRender
  <2>2. \A c \in Context : ~RowMeets(c[2], c[3], u)
    BY <2>1, MeetsByRow DEF Context
  <2>3. QueuedUnmet'
    BY <2>1, <2>2 DEF QueuedUnmet, DeskShape
  <2>4. DeskShape'
    BY <1>1, <2>1 DEF DeskShape, NoRender
  <2> QED
    BY <1>2, <2>3, <2>4
<1>4. CASE StartRender(j) \/ MeasureRender(j) \/ FinishRender(j)
  <2>1. PICK status \in {"queued", "rendering", "checked", "done", "failed"} :
           renders' = [renders EXCEPT ![j].status = status]
    BY <1>4 DEF StartRender, MeasureRender, FinishRender
  <2>2. renders[j] # NoRender /\ renders[j].status \in {"queued", "rendering", "checked"}
    BY <1>4 DEF StartRender, MeasureRender, FinishRender, NoRender
  <2>3. renders[j] = [status |-> renders[j].status, use |-> renders[j].use, context |-> renders[j].context]
    BY <2>2 DEF DeskShape
  <2>4. renders'[j] = [status |-> status, use |-> renders[j].use, context |-> renders[j].context]
    BY <2>1, <2>3 DEF DeskShape
  <2>5. renders' = [i \in RenderJobs |-> renders'[i]] /\ \A i \in RenderJobs : i # j => renders'[i] = renders[i]
    BY <2>1 DEF DeskShape
  <2>6. QueuedUnmet'
    BY <2>2, <2>4, <2>5 DEF QueuedUnmet
  <2>7. DeskShape'
    BY <1>1, <2>4, <2>5 DEF DeskShape
  <2> QED
    BY <1>2, <2>6, <2>7
<1> QED
  BY <1>3, <1>4

(* All other steps leave what the invariant speaks of alone; a tab takes   *)
(* over what the draft has.                                                *)
LEMMA RestSteps ==
  ASSUME DeskInv,
         \/ LoadTab \/ AskPlanner \/ CheckPlan \/ RefusePlan
         \/ \E l \in Limits : RecordLimit(l) \/ EnableLimit(l) \/ DisableLimit(l)
         \/ \E f \in Files : ChangeFile(f)
         \/ UNCHANGED deskVars
  PROVE  DeskInv'
<1>1. UNCHANGED <<profile, prefs, draft, renders>> /\ tab' \in {tab, Displayed(draft)}
  BY DEF LoadTab, AskPlanner, CheckPlan, RefusePlan, RecordLimit, EnableLimit, DisableLimit, ChangeFile, deskVars
<1>2. DeskShape' /\ AtMostOneEnabled' /\ DraftStandsOnPresent' /\ QueuedUnmet'
  BY <1>1 DEF DeskInv, DeskShape, AtMostOneEnabled, DraftStandsOnPresent, QueuedUnmet
<1>3. TabStands'
  BY <1>1 DEF DeskInv, TabStands, Displayed, DraftStandsOnPresent, NoDraft
<1> QED
  BY <1>2, <1>3 DEF DeskInv

LEMMA NextDesk == DeskInv /\ [DeskNext]_deskVars => DeskInv'
BY DraftSteps, PreferenceSteps, RenderSteps, RestSteps DEF DeskNext

LEMMA DeskAlways == DeskSpec => []DeskInv
BY InitDesk, NextDesk, PTL DEF DeskSpec

-----------------------------------------------------------------------------
(* Only these steps are on the draft. *)
LEMMA DraftChanged ==
  ASSUME DeskNext, draft' # draft
  PROVE  ReviseProfile \/ SaveDraft \/ DirectNarration \/ AcceptPlan
BY DEF DeskNext, LoadTab, AskPlanner, CheckPlan, RefusePlan, SelectPreference, DrawPreference,
       EnablePreference, DisablePreference, RecordLimit, EnableLimit, DisableLimit, ChangeFile,
       QueueRender, StartRender, MeasureRender, FinishRender

(***************************************************************************)
(* The policy has one voice and the draft one base: at most one preference *)
(* is enabled, and the draft stands on the newest profile.  What was       *)
(* derived under an older revision comes back only into a draft with the   *)
(* very script, scenes and profile it is sent with, and scenes of an older *)
(* profile only with the script it has, or as a plan checked before.       *)
(***************************************************************************)
THEOREM DeskStands == DeskSpec => DeskSound
<1>1. DeskInv => AtMostOneEnabled /\ DraftStandsOnPresent
  BY DEF DeskInv
<1>2. ASSUME DeskInv, [DeskNext]_deskVars
      PROVE  [StaleReturns]_deskVars
  <2> SUFFICES ASSUME DeskNext, draft # NoDraft, draft' # draft
               PROVE  StaleReturns
    BY <1>2 DEF StaleReturns
  <2>1. ASSUME NEW given, Sent(given, FALSE, profile')
        PROVE  StaleReturns
    BY <1>2, <2>1, SavedStands, SavedReturns DEF Sent, DeskInv, StaleReturns
  <2>2. CASE ReviseProfile
    BY <1>2, <2>2, <2>1, Revised
  <2>3. CASE SaveDraft
    BY <1>2, <2>3, <2>1, SentByTab DEF SaveDraft
  <2>4. CASE DirectNarration
    BY <1>2, <2>4, <2>1, Directed DEF DirectNarration
  <2>5. CASE AcceptPlan
    <3>1. PICK given :
             /\ Sent(given, TRUE, profile)
             /\ given.scenes = [copy |-> "planned", under |-> planning.profile, refs |-> planning.refs]
      BY <2>5, Accepted
    <3>2. given.scenes.under = planning.profile /\ planning.stage = "checked" /\ profile' = profile
      BY <2>5, <3>1 DEF AcceptPlan
    <3>3. draft'.profile = profile
      BY <1>2, <3>1, SavedStands DEF Sent, DeskInv
    <3>4. /\ draft'.derived # 0 => /\ draft'.script = draft.script
                                   /\ draft'.scenes = draft.scenes
                                   /\ draft.profile = profile
          /\ draft'.scenes # NoScenes => draft'.scenes = given.scenes
      BY <1>2, <3>1, SavedReturns DEF Sent, DeskInv
    <3> QED
      BY <3>2, <3>3, <3>4 DEF StaleReturns
  <2> QED
    BY <2>2, <2>3, <2>4, <2>5, DraftChanged
<1> QED
  BY DeskAlways, <1>1, <1>2, PTL DEF DeskSpec, DeskSound

(***************************************************************************)
(* A plan is saved only after it was found to be made under the policy of  *)
(* that moment, and a render finished only after no adopted limit met its  *)
(* use; what meets it is another limit than the ones it was queued under.  *)
(***************************************************************************)
THEOREM DeskPolicyKept == DeskSpec => PolicyKept
<1>1. ASSUME DeskInv PROVE MetOnlySince
  <2> SUFFICES ASSUME NEW j \in RenderJobs, NEW l \in Recorded,
                      renders[j].status \in {"checked", "done"}, Meets(l, renders[j].use),
                      <<l, limits[l], LimitReasons(l)>> \in renders[j].context
               PROVE  FALSE
    BY DEF MetOnlySince
  <2>1. RowMeets(limits[l], LimitReasons(l), renders[j].use)
    BY MeetsByRow
  <2>2. \A c \in renders[j].context : ~RowMeets(c[2], c[3], renders[j].use)
    BY <1>1 DEF DeskInv, QueuedUnmet
  <2> QED
    BY <2>1, <2>2
<1>2. ASSUME DeskInv, [DeskNext]_deskVars
      PROVE  [PlanOfPolicy /\ LimitsRespected]_deskVars
  <2> SUFFICES ASSUME DeskNext PROVE PlanOfPolicy /\ LimitsRespected
    BY <1>2
  <2>1. ASSUME planning.stage = "asked", planning'.stage = "checked"
        PROVE  planning.refs = PlanningRefs
    <3>1. AskPlanner \/ CheckPlan \/ AcceptPlan \/ RefusePlan
      <4>1. planning' # planning
        BY <2>1
      <4> QED
        BY <4>1 DEF DeskNext, ReviseProfile, SaveDraft, LoadTab, DirectNarration, SelectPreference,
               DrawPreference, EnablePreference, DisablePreference, RecordLimit, EnableLimit, DisableLimit,
               ChangeFile, QueueRender, StartRender, MeasureRender, FinishRender
    <3>2. ~AskPlanner /\ ~AcceptPlan /\ ~RefusePlan
      BY <2>1 DEF AskPlanner, AcceptPlan, RefusePlan, Idle
    <3> QED
      BY <3>1, <3>2 DEF CheckPlan
  <2>2. ASSUME draft' # draft, draft'.scenes.copy = "planned", draft'.scenes \notin {draft.scenes, tab.scenes}
        PROVE  planning.stage = "checked" /\ draft'.scenes.refs = planning.refs /\ draft'.refs = planning.refs
    <3>1. draft'.scenes # NoScenes
      BY <2>2 DEF NoScenes
    <3>2. ASSUME NEW given, NEW accept \in BOOLEAN, Sent(given, accept, profile')
          PROVE  draft'.scenes = given.scenes /\ draft'.refs = given.refs
      BY <2>2, <3>1, <3>2, SavedKeeps DEF Sent
    <3>3. AcceptPlan
      <4>1. ~ReviseProfile
        <5>1. CASE draft = NoDraft
          BY <2>2, <5>1 DEF ReviseProfile
        <5>2. CASE draft # NoDraft
          BY <1>2, <2>2, <3>2, <5>2, Revised
        <5> QED
          BY <5>1, <5>2
      <4>2. ~SaveDraft
        <5> SUFFICES ASSUME SaveDraft PROVE FALSE
          OBVIOUS
        <5>1. PICK given :
                 /\ Sent(given, FALSE, profile)
                 /\ given.scenes \in {NoScenes, tab.scenes, [copy |-> "written", under |-> profile, refs |-> {}]}
          BY <1>2, SentByTab
        <5>2. draft'.scenes = given.scenes
          BY <3>2, <5>1 DEF SaveDraft
        <5> QED
          BY <2>2, <3>1, <5>1, <5>2
      <4>3. ~DirectNarration
        BY <1>2, <2>2, <3>2, Directed DEF DirectNarration
      <4> QED
        BY <2>2, <4>1, <4>2, <4>3, DraftChanged
    <3>4. PICK given :
             /\ Sent(given, TRUE, profile)
             /\ given.scenes = [copy |-> "planned", under |-> planning.profile, refs |-> planning.refs]
             /\ given.refs = planning.refs
      BY <2>2, <3>3, Accepted
    <3>5. given.scenes.refs = planning.refs /\ planning.stage = "checked" /\ profile' = profile
      BY <3>3, <3>4 DEF AcceptPlan
    <3> QED
      BY <3>2, <3>4, <3>5
  <2>3. ASSUME NEW j \in RenderJobs, renders'[j] # renders[j]
        PROVE  QueueRender(j) \/ StartRender(j) \/ MeasureRender(j) \/ FinishRender(j)
    <3>1. PICK i \in RenderJobs : QueueRender(i) \/ StartRender(i) \/ MeasureRender(i) \/ FinishRender(i)
      BY <2>3 DEF DeskNext, ReviseProfile, SaveDraft, LoadTab, DirectNarration, AskPlanner, CheckPlan,
             AcceptPlan, RefusePlan, SelectPreference, DrawPreference, EnablePreference, DisablePreference,
             RecordLimit, EnableLimit, DisableLimit, ChangeFile
    <3>2. i = j
      BY <2>3, <3>1, <1>2 DEF QueueRender, StartRender, MeasureRender, FinishRender, DeskInv, DeskShape
    <3> QED
      BY <3>1, <3>2
  <2>4. ASSUME NEW j \in RenderJobs, renders[j].status = "rendering", renders'[j].status = "checked"
        PROVE  ~\E l \in Recorded : Meets(l, renders[j].use)
    <3>1. QueueRender(j) \/ StartRender(j) \/ MeasureRender(j) \/ FinishRender(j)
      BY <2>3, <2>4
    <3>2. renders[j].context = Context
      BY <2>4, <3>1, <1>2 DEF QueueRender, StartRender, MeasureRender, FinishRender, NoRender, DeskInv, DeskShape
    <3>3. \A c \in renders[j].context : ~RowMeets(c[2], c[3], renders[j].use)
      BY <1>2, <2>4 DEF DeskInv, QueuedUnmet
    <3> QED
      BY <3>2, <3>3, MeetsByRow
  <2>5. ASSUME NEW j \in RenderJobs, renders[j].status # "done", renders'[j].status = "done"
        PROVE  renders[j].status = "checked"
    <3>1. QueueRender(j) \/ StartRender(j) \/ MeasureRender(j) \/ FinishRender(j)
      BY <2>3, <2>5
    <3>2. CASE QueueRender(j)
      BY <1>2, <2>5, <3>2 DEF QueueRender, DeskInv, DeskShape
    <3>3. CASE StartRender(j) \/ MeasureRender(j)
      <4>1. renders[j] # NoRender
        BY <3>3 DEF StartRender, MeasureRender, NoRender
      <4>2. PICK status \in {"rendering", "queued", "checked", "failed"} :
               renders' = [renders EXCEPT ![j].status = status]
        BY <3>3 DEF StartRender, MeasureRender
      <4> QED
        BY <1>2, <2>5, <4>1, <4>2 DEF DeskInv, DeskShape
    <3>4. CASE FinishRender(j)
      BY <3>4 DEF FinishRender
    <3> QED
      BY <3>1, <3>2, <3>3, <3>4
  <2>6. PlanOfPolicy
    BY <2>1, <2>2 DEF PlanOfPolicy
  <2>7. LimitsRespected
    BY <2>4, <2>5 DEF LimitsRespected
  <2> QED
    BY <2>6, <2>7
<1> QED
  BY DeskAlways, <1>1, <1>2, PTL DEF DeskSpec, PolicyKept
-----------------------------------------------------------------------------
(* A Talking series (SliceSeries).  Until a child is replaced every handler *)
(* at work and every output is of the present child of its index; what is  *)
(* replaced had neither, so this stays so, and the video reviewed of a child *)
(* stays one of its videos: if it has only one, it is that.                *)

SliceStatuses == {"absent", "pending", "running", "completed", "failed"}
SliceErrors == {"none", "invalid", "other"}
Videos == [job : Children \cup {<<0, "first">>}, qa : {"none", "pending", "verified", "failed"},
           human : {"none", "approved", "rejected"}]

SeriesTypes ==
    /\ recovery \in {0} \cup Indexes
    /\ sliceJobs \in [Children -> [status : SliceStatuses, attempt : Nat, error : SliceErrors]]
    /\ generating \subseteq [job : Children, attempt : Nat, stored : BOOLEAN]
    /\ outputs \in [Outputs -> Videos]
    /\ opened = Unset \/ opened \in [at : {"row"}, video : Outputs, row : Videos]
    /\ continuity = Unset \/
         continuity \in [at : {"reviewed"}, approved : BOOLEAN, children : [Indexes -> Children], seen : [Indexes -> Outputs]]
    /\ assembling = Unset \/
         assembling \in [at : {"checked", "stored", "named"}, children : [Indexes -> Children], videos : [Indexes -> Outputs]]
    /\ admitted = Unset \/
         admitted \in [at : {"admitted"}, children : [Indexes -> Children], videos : [Indexes -> Outputs]]

\* A job counts its attempts, and a slice is taken after all before it completed.
SliceRows ==
    /\ \A c \in Children :
          /\ c[2] = "second" => (sliceJobs[c].status # "absent" <=> recovery = c[1])
          /\ sliceJobs[c].status \in {"running", "completed", "failed"} => sliceJobs[c].attempt > 0
          /\ sliceJobs[c].status = "absent" => sliceJobs[c].attempt = 0
    /\ recovery # 0 => Replaceable(<<recovery, "first">>)
    /\ \A c, d \in Children :
          sliceJobs[c].attempt > 0 /\ d[1] < c[1] /\ sliceJobs[d].status # "absent"
            => sliceJobs[d].status = "completed"

\* Handlers and outputs are of present children.
OfPresent ==
    /\ \A h \in generating :
          /\ h.job = Present[h.job[1]]
          /\ 1 <= h.attempt /\ h.attempt <= sliceJobs[h.job].attempt
    /\ \A v \in Outputs :
          /\ outputs[v].job = Present[v[1]] \/ (outputs[v].job = <<0, "first">> /\ outputs[v].qa = "none")
          /\ outputs[v].job # <<0, "first">> => sliceJobs[outputs[v].job].attempt > 0
    /\ \A g, h \in generating : g.job = h.job /\ g.attempt = h.attempt => g = h
    /\ opened # Unset =>
          /\ opened.row.job = Present[opened.video[1]] /\ outputs[opened.video].job = opened.row.job
          /\ sliceJobs[opened.row.job].status = "completed"

\* What failed as invalid at its first attempt left nothing.
FirstLeftNothing ==
    \A c \in Children :
        /\ \A h \in generating :
              h.job = c /\ sliceJobs[c].attempt = 1 /\ ~h.stored => Of(c) = {}
        /\ sliceJobs[c].status = "failed" /\ sliceJobs[c].error = "invalid" /\ sliceJobs[c].attempt = 1
             => Of(c) = {} /\ \A h \in generating : h.job # c

SeenIsTheirs ==
    continuity # Unset =>
        /\ continuity.children = Present
        /\ \A i \in Indexes : continuity.seen[i] \in Of(Present[i])

Assembly ==
    /\ assembling # Unset =>
          /\ continuity # Unset /\ continuity.approved /\ admitted = Unset
          /\ assembling.children = continuity.children /\ assembling.videos = continuity.seen
          /\ assembling.at = "named" => assembled = "run"
    /\ admitted # Unset =>
          /\ continuity # Unset /\ continuity.approved
          /\ admitted.children = continuity.children /\ admitted.videos = continuity.seen
          /\ assembled = "run"

SeriesInv ==
    SeriesTypes /\ SliceRows /\ OfPresent /\ FirstLeftNothing /\ SeenIsTheirs /\ Assembly /\ LastReplaced

LEMMA SeriesNumbers ==
  /\ Size \in Nat /\ Size > 0 /\ SliceTries \in Nat /\ SliceTries > 0
  /\ \A i \in Indexes : i \in Nat /\ i > 0 /\ <<i, "first">> \in Children /\ <<i, "second">> \in Children
  /\ \A c \in Children : c[1] \in Indexes /\ c[2] \in {"first", "second"} /\ c = <<c[1], c[2]>>
  /\ \A v \in Outputs : v[1] \in Indexes
  /\ <<0, "first">> \notin Children
  BY SeriesAssumption DEF Indexes, Children, Outputs

LEMMA PresentChild == \A i \in Indexes : Present[i] \in Children /\ Present[i][1] = i
  BY SeriesNumbers DEF Present

\* The jobs after a step: what counts and what ends only moves forward.
JobsForward(j) ==
    /\ sliceJobs' \in [Children -> [status : SliceStatuses, attempt : Nat, error : SliceErrors]]
    /\ \A c \in Children :
          /\ sliceJobs'[c].attempt >= sliceJobs[c].attempt
          /\ sliceJobs'[c].status = "absent" <=> sliceJobs[c].status = "absent"
          /\ sliceJobs[c].status \in {"completed", "failed"} => sliceJobs'[c] = sliceJobs[c]
          /\ c # j => sliceJobs'[c] = sliceJobs[c]

\* Steps of the queue and of handlers that store nothing.
LEMMA JobMoves ==
  ASSUME SeriesInv, NEW j \in Children, JobsForward(j),
         UNCHANGED <<recovery, outputs, opened, continuity, assembling, assembled, admitted>>,
         generating' \subseteq [job : Children, attempt : Nat, stored : BOOLEAN],
         sliceJobs[j].attempt = 0 => sliceJobs'[j].attempt = 0 \/ InTurn(j),
         sliceJobs'[j].status \in {"running", "completed", "failed"} => sliceJobs'[j].attempt > 0,
         sliceJobs'[j].status = "absent" => sliceJobs'[j].attempt = 0,
         \A h \in generating' : h \in generating \/
             (h.job = j /\ h.attempt = sliceJobs'[j].attempt /\ sliceJobs'[j].attempt > sliceJobs[j].attempt
              /\ \A g \in generating' : g.job = j /\ g.attempt = h.attempt => g = h),
         \A h \in generating' : h.job = j => h.job = Present[h.job[1]]
             /\ 1 <= h.attempt /\ h.attempt <= sliceJobs'[j].attempt,
         \A h \in generating' : h.job = j /\ sliceJobs'[j].attempt = 1 /\ ~h.stored => Of(j) = {},
         sliceJobs'[j].status = "failed" /\ sliceJobs'[j].error = "invalid" /\ sliceJobs'[j].attempt = 1
             => Of(j) = {} /\ \A h \in generating' : h.job # j
  PROVE  SeriesInv'
<1> USE SeriesNumbers, PresentChild DEF SeriesInv, JobsForward
<1>1. SeriesTypes'
  BY DEF SeriesTypes
<1>2. SliceRows'
  <2>1. ASSUME NEW c \in Children
        PROVE  /\ c[2] = "second" => (sliceJobs'[c].status # "absent" <=> recovery' = c[1])
               /\ sliceJobs'[c].status \in {"running", "completed", "failed"} => sliceJobs'[c].attempt > 0
               /\ sliceJobs'[c].status = "absent" => sliceJobs'[c].attempt = 0
    <3>1. CASE c = j
      BY <3>1 DEF SliceRows
    <3>2. CASE c # j
      BY <3>2 DEF SliceRows
    <3> QED
      BY <3>1, <3>2
  <2>2. ASSUME NEW c \in Children, NEW d \in Children,
               sliceJobs'[c].attempt > 0, d[1] < c[1], sliceJobs'[d].status # "absent"
        PROVE  sliceJobs'[d].status = "completed"
    <3>1. CASE sliceJobs[c].attempt > 0
      BY <2>2, <3>1 DEF SliceRows
    <3>2. CASE sliceJobs[c].attempt = 0
      BY <2>2, <3>2 DEF InTurn, SliceRows
    <3> QED
      BY <3>1, <3>2 DEF SeriesTypes
  <2>3. recovery' # 0 => (Replaceable(<<recovery, "first">>))'
    BY DEF SliceRows, Replaceable, SeriesTypes
  <2> QED
    BY <2>1, <2>2, <2>3 DEF SliceRows
<1>3. Present' = Present
  BY DEF Present
<1>4. OfPresent'
  <2>1. ASSUME NEW h \in generating'
        PROVE  h.job = Present'[h.job[1]] /\ 1 <= h.attempt /\ h.attempt <= sliceJobs'[h.job].attempt
    <3>1. CASE h.job = j
      BY <3>1, <1>3
    <3>2. CASE h.job # j
      BY <3>2, <1>3 DEF OfPresent
    <3> QED
      BY <3>1, <3>2
  <2>2. ASSUME NEW v \in Outputs
        PROVE  /\ outputs'[v].job = Present'[v[1]] \/ (outputs'[v].job = <<0, "first">> /\ outputs'[v].qa = "none")
               /\ outputs'[v].job # <<0, "first">> => sliceJobs'[outputs'[v].job].attempt > 0
    <3>1. outputs[v].job # <<0, "first">> => outputs[v].job \in Children /\ sliceJobs[outputs[v].job].attempt > 0
      BY DEF OfPresent
    <3> QED
      BY <1>3, <3>1 DEF OfPresent, SeriesTypes
  <2>3. \A g, h \in generating' : g.job = h.job /\ g.attempt = h.attempt => g = h
    BY DEF OfPresent, SeriesTypes
  <2>4. opened' # Unset =>
          /\ opened'.row.job = Present'[opened'.video[1]] /\ outputs'[opened'.video].job = opened'.row.job
          /\ sliceJobs'[opened'.row.job].status = "completed"
    BY <1>3 DEF OfPresent, SeriesTypes, Unset
  <2> QED
    BY <2>1, <2>2, <2>3, <2>4 DEF OfPresent
<1>5. FirstLeftNothing'
  <2>1. ASSUME NEW c \in Children
        PROVE  /\ \A h \in generating' : h.job = c /\ sliceJobs'[c].attempt = 1 /\ ~h.stored => Of(c)' = {}
               /\ sliceJobs'[c].status = "failed" /\ sliceJobs'[c].error = "invalid" /\ sliceJobs'[c].attempt = 1
                    => Of(c)' = {} /\ \A h \in generating' : h.job # c
    <3>1. Of(c)' = Of(c)
      BY DEF Of
    <3>2. CASE c = j
      BY <3>1, <3>2
    <3>3. CASE c # j
      BY <3>1, <3>3 DEF FirstLeftNothing
    <3> QED
      BY <3>2, <3>3
  <2> QED
    BY <2>1 DEF FirstLeftNothing
<1>6. SeenIsTheirs' /\ Assembly' /\ LastReplaced'
  BY <1>3 DEF SeenIsTheirs, Assembly, LastReplaced, Of
<1> QED
  BY <1>1, <1>2, <1>4, <1>5, <1>6

LEMMA LivesPresent ==
  ASSUME SeriesInv, NEW c \in Children, sliceJobs[c].status \in {"pending", "running", "completed"}
  PROVE  c = Present[c[1]]
<1> USE SeriesNumbers DEF SeriesInv
<1>1. CASE c[2] = "second"
  BY <1>1 DEF SliceRows, Present
<1>2. CASE c[2] = "first" /\ recovery # c[1]
  BY <1>2 DEF Present
<1>3. CASE c[2] = "first" /\ recovery = c[1]
  BY <1>3 DEF SliceRows, Replaceable
<1> QED
  BY <1>1, <1>2, <1>3

\* A job that was never taken has no handler and no output.
LEMMA UntakenHasNothing ==
  ASSUME SeriesInv, NEW c \in Children, sliceJobs[c].attempt = 0
  PROVE  Of(c) = {} /\ \A h \in generating : h.job # c
  BY SeriesNumbers DEF SeriesInv, SeriesTypes, OfPresent, Of

LEMMA TakeStep ==
  ASSUME SeriesInv, NEW c \in Children, TakeSlice(c)
  PROVE  SeriesInv'
<1> USE SeriesNumbers, PresentChild DEF SeriesInv
<1> DEFINE a == sliceJobs[c].attempt + 1
           mine == [job |-> c, attempt |-> a, stored |-> FALSE]
<1>1. UNCHANGED <<recovery, outputs, opened, continuity, assembling, assembled, admitted>>
      /\ sliceJobs[c].status \in {"pending", "running"} /\ InTurn(c)
  BY DEF TakeSlice
<1>2. /\ sliceJobs' \in [Children -> [status : SliceStatuses, attempt : Nat, error : SliceErrors]]
      /\ \A d \in Children \ {c} : sliceJobs'[d] = sliceJobs[d]
      /\ sliceJobs'[c].attempt = a /\ sliceJobs'[c].status \in {"running", "failed"}
      /\ sliceJobs'[c].error \in {"none", "other"}
      /\ sliceJobs[c].attempt \in Nat /\ a \in Nat /\ a > sliceJobs[c].attempt
  BY DEF TakeSlice, SeriesTypes, SliceStatuses, SliceErrors
<1>3. generating' \subseteq generating \cup {mine}
  BY DEF TakeSlice
<1>4. JobsForward(c)
  BY <1>1, <1>2 DEF JobsForward, SeriesTypes
<1>5. c = Present[c[1]]
  BY <1>1, LivesPresent
<1>6. mine \in [job : Children, attempt : Nat, stored : BOOLEAN] /\ mine.job = c /\ mine.attempt = a
  BY <1>2
<1>7. generating' \subseteq [job : Children, attempt : Nat, stored : BOOLEAN]
  BY <1>3, <1>6 DEF SeriesTypes
<1>8. \A h \in generating : h.job = c => h.attempt < a /\ h.attempt \in Nat /\ h.attempt >= 1 /\ a # 1
  BY <1>2 DEF OfPresent, SeriesTypes
<1> HIDE DEF a, mine
<1>9. \A h \in generating' : h \in generating \/
             (h.job = c /\ h.attempt = sliceJobs'[c].attempt /\ sliceJobs'[c].attempt > sliceJobs[c].attempt
              /\ \A g \in generating' : g.job = c /\ g.attempt = h.attempt => g = h)
  BY <1>2, <1>3, <1>6, <1>8
<1>10. \A h \in generating' : h.job = c => h.job = Present[h.job[1]]
             /\ 1 <= h.attempt /\ h.attempt <= sliceJobs'[c].attempt
  BY <1>2, <1>3, <1>5, <1>6, <1>8
<1>11. \A h \in generating' : h.job = c /\ sliceJobs'[c].attempt = 1 /\ ~h.stored => Of(c) = {}
  BY <1>2, UntakenHasNothing DEF a
<1> QED
  BY <1>1, <1>2, <1>4, <1>7, <1>9, <1>10, <1>11, JobMoves

LEMMA ExpireStep ==
  ASSUME SeriesInv, NEW c \in Children, ExpireSlice(c)
  PROVE  SeriesInv'
<1> USE SeriesNumbers, PresentChild DEF SeriesInv
<1>1. UNCHANGED <<recovery, generating, outputs, opened, continuity, assembling, assembled, admitted>>
      /\ sliceJobs[c].status = "running"
  BY DEF ExpireSlice
<1>2. /\ sliceJobs' \in [Children -> [status : SliceStatuses, attempt : Nat, error : SliceErrors]]
      /\ \A d \in Children \ {c} : sliceJobs'[d] = sliceJobs[d]
      /\ sliceJobs'[c].attempt = sliceJobs[c].attempt /\ sliceJobs'[c].status = "failed"
      /\ sliceJobs'[c].error = "other"
  <2> DEFINE failed == [status |-> "failed", attempt |-> sliceJobs[c].attempt, error |-> "other"]
  <2>1. /\ sliceJobs' = [d \in Children |-> sliceJobs'[d]]
        /\ \A d \in Children \ {c} : sliceJobs'[d] = sliceJobs[d]
    BY DEF ExpireSlice, SeriesTypes
  <2>3. sliceJobs'[c] = failed
    <3>1. sliceJobs'[c] = [sliceJobs[c] EXCEPT !.status = "failed", !.error = "other"]
      BY DEF ExpireSlice, SeriesTypes
    <3>2. sliceJobs[c] \in [status : SliceStatuses, attempt : Nat, error : SliceErrors]
      BY DEF SeriesTypes
    <3> QED
      BY <3>1, <3>2
  <2>2. failed \in [status : SliceStatuses, attempt : Nat, error : SliceErrors]
    BY DEF SeriesTypes, SliceStatuses, SliceErrors
  <2> QED
    BY <2>1, <2>2, <2>3 DEF SeriesTypes
<1>3. JobsForward(c)
  BY <1>1, <1>2 DEF JobsForward, SeriesTypes
<1>4. sliceJobs[c].attempt > 0
  BY <1>1 DEF SliceRows
<1>5. \A h \in generating' : h.job = c => h.job = Present[h.job[1]]
             /\ 1 <= h.attempt /\ h.attempt <= sliceJobs'[c].attempt
  BY <1>1, <1>2 DEF OfPresent
<1>6. \A h \in generating' : h.job = c /\ sliceJobs'[c].attempt = 1 /\ ~h.stored => Of(c) = {}
  BY <1>1, <1>2 DEF FirstLeftNothing
<1>7. generating' \subseteq [job : Children, attempt : Nat, stored : BOOLEAN]
  BY <1>1 DEF SeriesTypes
<1> QED
  BY <1>1, <1>2, <1>3, <1>4, <1>5, <1>6, <1>7, JobMoves

\* A report ends a handler, and its job while it is still that attempt's.
LEMMA ReportStep ==
  ASSUME SeriesInv, NEW h \in generating, NEW status, NEW error, Report(h, status, error),
         \/ status \in {"completed", "pending"} /\ error \in {"none", "other"}
         \/ status = "failed" /\ error \in {"invalid", "other"} /\ ~h.stored
  PROVE  SeriesInv'
<1> USE SeriesNumbers, PresentChild DEF SeriesInv
<1> DEFINE c == h.job
<1>1. UNCHANGED <<recovery, outputs, opened, continuity, assembling, assembled, admitted>>
      /\ generating' = generating \ {h} /\ c \in Children
  BY DEF Report, SeriesTypes
<1>2. /\ sliceJobs' \in [Children -> [status : SliceStatuses, attempt : Nat, error : SliceErrors]]
      /\ \A d \in Children \ {c} : sliceJobs'[d] = sliceJobs[d]
      /\ sliceJobs'[c].attempt = sliceJobs[c].attempt
      /\ \/ sliceJobs'[c] = sliceJobs[c]
         \/ Owns(h) /\ sliceJobs'[c].status = status /\ sliceJobs'[c].error = error
  BY DEF Report, SeriesTypes, SliceStatuses, SliceErrors
<1>3. JobsForward(c)
  BY <1>1, <1>2 DEF JobsForward, SeriesTypes, Owns
<1>4. sliceJobs[c].attempt > 0 /\ sliceJobs[c].attempt \in Nat
  BY DEF OfPresent, SeriesTypes
<1>5. \A g \in generating' : g.job = c => g.job = Present[g.job[1]]
             /\ 1 <= g.attempt /\ g.attempt <= sliceJobs'[c].attempt
  BY <1>1, <1>2 DEF OfPresent
<1>6. \A g \in generating' : g.job = c /\ sliceJobs'[c].attempt = 1 /\ ~g.stored => Of(c) = {}
  BY <1>1, <1>2 DEF FirstLeftNothing
<1>7. sliceJobs'[c].status = "failed" /\ sliceJobs'[c].error = "invalid" /\ sliceJobs'[c].attempt = 1
             => Of(c) = {} /\ \A g \in generating' : g.job # c
  <2>1. CASE sliceJobs'[c] = sliceJobs[c]
    BY <1>1, <2>1 DEF FirstLeftNothing
  <2>2. CASE Owns(h) /\ status = "failed" /\ ~h.stored /\ sliceJobs'[c].attempt = 1
    <3>1. Of(c) = {}
      BY <1>1, <1>2, <2>2 DEF FirstLeftNothing
    <3>2. \A g \in generating : g.job = c => g.attempt = 1 /\ h.attempt = 1
      <4>1. \A g \in generating : g.attempt \in Nat
        BY DEF SeriesTypes
      <4>2. sliceJobs[c].attempt = 1
        BY <1>2, <2>2
      <4>3. \A g \in generating : g.job = c => 1 <= g.attempt /\ g.attempt <= 1
        BY <4>2 DEF OfPresent
      <4> QED
        BY <4>1, <4>3
    <3> QED
      BY <1>1, <3>1, <3>2 DEF OfPresent
  <2> QED
    BY <1>2, <2>1, <2>2
<1>8. generating' \subseteq [job : Children, attempt : Nat, stored : BOOLEAN]
  BY <1>1 DEF SeriesTypes
<1>9. sliceJobs'[c].status = "absent" => sliceJobs'[c].attempt = 0
  BY <1>1, <1>2, <1>3 DEF SliceRows, JobsForward
<1> HIDE DEF c
<1> QED
  BY <1>1, <1>2, <1>3, <1>4, <1>5, <1>6, <1>7, <1>8, <1>9, JobMoves

LEMMA DieStep ==
  ASSUME SeriesInv, NEW h \in generating, SliceDies(h)
  PROVE  SeriesInv'
<1> USE SeriesNumbers, PresentChild DEF SeriesInv
<1>1. UNCHANGED <<recovery, sliceJobs, outputs, opened, continuity, assembling, assembled, admitted>>
      /\ generating' \subseteq generating
  BY DEF SliceDies
<1>2. Present' = Present /\ \A c \in Children : Of(c)' = Of(c)
  BY <1>1 DEF Present, Of
<1>3. SeriesTypes' /\ SliceRows'
  BY <1>1 DEF SeriesTypes, SliceRows, Replaceable
<1>4. OfPresent'
  BY <1>1, <1>2 DEF OfPresent
<1>5. FirstLeftNothing'
  BY <1>1, <1>2 DEF FirstLeftNothing
<1>6. SeenIsTheirs' /\ Assembly' /\ LastReplaced'
  BY <1>1, <1>2 DEF SeenIsTheirs, Assembly, LastReplaced
<1> QED
  BY <1>3, <1>4, <1>5, <1>6

\* Steps on the outputs: what is of a child is of the present one, and stays.
Finished(h) == [h EXCEPT !.stored = TRUE]

LEMMA FinishedIs ==
  ASSUME NEW J, NEW h \in [job : J, attempt : Nat, stored : BOOLEAN]
  PROVE  /\ Finished(h) \in [job : J, attempt : Nat, stored : BOOLEAN]
         /\ Finished(h).job = h.job /\ Finished(h).attempt = h.attempt /\ Finished(h).stored
<1>1. Finished(h).stored = TRUE
  BY DEF Finished
<1>2. Finished(h).stored
  BY <1>1
<1> QED
  BY <1>2 DEF Finished

LEMMA OutputMoves ==
  ASSUME SeriesInv, NEW v \in Outputs,
         UNCHANGED <<recovery, sliceJobs, continuity, assembling, assembled, admitted>>,
         outputs' \in [Outputs -> Videos], \A u \in Outputs \ {v} : outputs'[u] = outputs[u],
         \/ outputs'[v].job = outputs[v].job /\ outputs[v].qa # "none"
         \/ outputs'[v].job = Present[v[1]] /\ sliceJobs[Present[v[1]]].attempt > 0,
         \/ generating' = generating
            /\ (outputs'[v].job = outputs[v].job)
         \/ \E h \in generating : generating' = (generating \ {h}) \cup {Finished(h)}
                                  /\ ~h.stored /\ h.job = outputs'[v].job,
         opened' \in {opened, Unset}
  PROVE  SeriesInv'
<1> USE SeriesNumbers, PresentChild DEF SeriesInv
<1>1. Present' = Present
  BY DEF Present
<1>2. \A h \in generating : /\ Finished(h) \in [job : Children, attempt : Nat, stored : BOOLEAN]
                            /\ Finished(h).job = h.job /\ Finished(h).attempt = h.attempt /\ Finished(h).stored
  BY FinishedIs DEF SeriesTypes
<1>3. \A g \in generating' : g \in generating \/
          (g.stored /\ \E h \in generating : /\ ~h.stored /\ h \notin generating' /\ g = Finished(h)
                                               /\ generating' = (generating \ {h}) \cup {g})
  <2>1. CASE generating' = generating
    BY <2>1
  <2>2. ASSUME NEW h \in generating, generating' = (generating \ {h}) \cup {Finished(h)}, ~h.stored
        PROVE  \A g \in generating' : g \in generating \/
          (g.stored /\ ~h.stored /\ h \notin generating' /\ g = Finished(h)
                   /\ generating' = (generating \ {h}) \cup {g})
    BY <2>2, <1>2
  <2> QED
    BY <2>1, <2>2
<1>4. SeriesTypes' /\ SliceRows'
  <2>1. generating' \subseteq [job : Children, attempt : Nat, stored : BOOLEAN]
    BY <1>2, <1>3 DEF SeriesTypes
  <2> QED
    BY <2>1 DEF SeriesTypes, SliceRows, Replaceable
<1>5. \A g \in generating' : \E h \in generating : g.job = h.job /\ g.attempt = h.attempt /\ (~g.stored => g = h)
  BY <1>2, <1>3
<1>6. \A u \in Outputs : outputs[u].job # <<0, "first">> => outputs'[u].job = outputs[u].job
  BY DEF OfPresent
<1>7. OfPresent'
  <2>1. \A h \in generating' : /\ h.job = Present'[h.job[1]]
                               /\ 1 <= h.attempt /\ h.attempt <= sliceJobs'[h.job].attempt
    BY <1>1, <1>5 DEF OfPresent
  <2>2. \A u \in Outputs :
          /\ outputs'[u].job = Present'[u[1]] \/ (outputs'[u].job = <<0, "first">> /\ outputs'[u].qa = "none")
          /\ outputs'[u].job # <<0, "first">> => sliceJobs'[outputs'[u].job].attempt > 0
    BY <1>1 DEF OfPresent
  <2>3. \A g, h \in generating' : g.job = h.job /\ g.attempt = h.attempt => g = h
    <3>1. \A g, h \in generating : g.job = h.job /\ g.attempt = h.attempt => g = h
      BY DEF OfPresent
    <3>2. CASE generating' = generating
      BY <3>1, <3>2
    <3>3. ASSUME NEW k \in generating, generating' = (generating \ {k}) \cup {Finished(k)}
          PROVE  \A g, h \in generating' : g.job = h.job /\ g.attempt = h.attempt => g = h
      BY <1>2, <3>1, <3>3
    <3> QED
      BY <3>2, <3>3
  <2>4. opened' # Unset =>
          /\ opened'.row.job = Present'[opened'.video[1]] /\ outputs'[opened'.video].job = opened'.row.job
          /\ sliceJobs'[opened'.row.job].status = "completed"
    <3>1. opened # Unset => opened.video \in Outputs /\ opened.row.job # <<0, "first">>
      <4>1. opened # Unset => opened.video \in Outputs
        BY DEF SeriesTypes
      <4>2. opened # Unset => opened.row.job = Present[opened.video[1]]
        BY DEF OfPresent
      <4> QED
        BY <4>1, <4>2
    <3> QED
      BY <1>1, <1>6, <3>1 DEF OfPresent
  <2> QED
    BY <2>1, <2>2, <2>3, <2>4 DEF OfPresent
<1>8. FirstLeftNothing'
  <2>1. ASSUME NEW c \in Children, NEW g \in generating', g.job = c, sliceJobs[c].attempt = 1, ~g.stored
        PROVE  Of(c)' = {}
    <3>1. g \in generating /\ Of(c) = {}
      BY <2>1, <1>3 DEF FirstLeftNothing
    <3>2. outputs'[v].job # c
      <4>1. CASE generating' = generating /\ outputs'[v].job = outputs[v].job
        BY <4>1, <3>1 DEF Of
      <4>2. ASSUME NEW h \in generating, h.job = outputs'[v].job, outputs'[v].job = c, h \notin generating'
            PROVE  FALSE
        <5>1. \A k \in generating : k.job = c => k.attempt \in Nat /\ 1 <= k.attempt /\ k.attempt <= 1
          BY <2>1 DEF OfPresent, SeriesTypes
        <5> QED
          BY <4>2, <5>1, <2>1, <3>1 DEF OfPresent
      <4> QED
        BY <4>1, <4>2, <1>2
    <3> QED
      BY <3>1, <3>2 DEF Of
  <2>2. ASSUME NEW c \in Children, sliceJobs[c].status = "failed", sliceJobs[c].error = "invalid", sliceJobs[c].attempt = 1
        PROVE  Of(c)' = {} /\ \A h \in generating' : h.job # c
    <3>1. Of(c) = {} /\ \A h \in generating : h.job # c
      BY <2>2 DEF FirstLeftNothing
    <3>2. \A h \in generating' : h.job # c
      BY <3>1, <1>5
    <3>3. outputs'[v].job # c
      BY <3>1 DEF Of
    <3> QED
      BY <3>1, <3>2, <3>3 DEF Of
  <2> QED
    BY <2>1, <2>2 DEF FirstLeftNothing
<1>9. SeenIsTheirs' /\ Assembly' /\ LastReplaced'
  <2>1. ASSUME NEW i \in Indexes, NEW u \in Of(Present[i])
        PROVE  u \in Of(Present[i])'
    <3>1. u \in Outputs /\ outputs'[u].job = Present[i]
      BY <1>6 DEF Of
    <3> QED
      BY <1>1, <3>1 DEF Of
  <2> QED
    BY <1>1, <2>1 DEF SeenIsTheirs, Assembly, LastReplaced
<1> QED
  BY <1>4, <1>7, <1>8, <1>9


LEMMA StoreStep ==
  ASSUME SeriesInv, NEW h \in generating, StoreSlice(h)
  PROVE  SeriesInv'
<1> USE SeriesNumbers, PresentChild DEF SeriesInv
<1>1. PICK v \in Outputs : v[1] = h.job[1]
          /\ outputs' = [outputs EXCEPT ![v] = [job |-> h.job, qa |-> "pending", human |-> "none"]]
  BY DEF StoreSlice
<1>2. h.job \in Children /\ h.attempt \in Nat /\ h.job = Present[v[1]]
      /\ sliceJobs[h.job].attempt \in Nat /\ sliceJobs[h.job].attempt > 0
  BY <1>1 DEF SeriesTypes, OfPresent
<1>3. [job |-> h.job, qa |-> "pending", human |-> "none"] \in Videos
  BY <1>2 DEF Videos
<1>4. outputs' \in [Outputs -> Videos] /\ outputs'[v].job = h.job /\ \A u \in Outputs \ {v} : outputs'[u] = outputs[u]
  BY <1>1, <1>3 DEF SeriesTypes
<1>6. UNCHANGED <<recovery, sliceJobs, continuity, assembling, assembled, admitted, opened>>
      /\ generating' = (generating \ {h}) \cup {Finished(h)} /\ ~h.stored
  BY DEF StoreSlice, Finished
<1> QED
  BY <1>2, <1>4, <1>6, OutputMoves

LEMMA CheckStep ==
  ASSUME SeriesInv, NEW v \in Outputs, CheckOutput(v)
  PROVE  SeriesInv'
<1> USE SeriesNumbers, PresentChild DEF SeriesInv
<1>1. PICK verdict \in {"verified", "failed"} : outputs' = [outputs EXCEPT ![v].qa = verdict]
  BY DEF CheckOutput
<1>2. outputs[v] \in Videos
  BY DEF SeriesTypes
<1>3. [outputs[v] EXCEPT !.qa = verdict] \in Videos /\ [outputs[v] EXCEPT !.qa = verdict].job = outputs[v].job
  BY <1>2 DEF Videos
<1>4. outputs' \in [Outputs -> Videos] /\ outputs'[v].job = outputs[v].job
      /\ \A u \in Outputs \ {v} : outputs'[u] = outputs[u]
  BY <1>1, <1>3 DEF SeriesTypes
<1>5. UNCHANGED <<recovery, sliceJobs, continuity, assembling, assembled, admitted, opened, generating>>
      /\ outputs[v].qa # "none"
  BY DEF CheckOutput
<1> QED
  BY <1>4, <1>5, OutputMoves

LEMMA DecideStep ==
  ASSUME SeriesInv, DecideReview
  PROVE  SeriesInv'
<1> USE SeriesNumbers, PresentChild DEF SeriesInv
<1> DEFINE v == opened.video
<1>1. PICK decision \in {"approved", "rejected"} :
          outputs' = [outputs EXCEPT ![v] = [opened.row EXCEPT !.human = decision]]
  BY DEF DecideReview
<1>2. opened # Unset /\ v \in Outputs /\ opened.row \in Videos
  BY DEF DecideReview, SeriesTypes
<1>3. [opened.row EXCEPT !.human = decision] \in Videos
      /\ [opened.row EXCEPT !.human = decision].job = opened.row.job
  BY <1>2 DEF Videos
<1>4. outputs[v].job = opened.row.job /\ opened.row.job = Present[v[1]]
      /\ sliceJobs[opened.row.job].status = "completed"
  BY <1>2 DEF OfPresent
<1>5. sliceJobs[Present[v[1]]].attempt > 0
  BY <1>2, <1>4 DEF SliceRows
<1>6. outputs' \in [Outputs -> Videos] /\ outputs'[v].job = outputs[v].job
      /\ \A u \in Outputs \ {v} : outputs'[u] = outputs[u]
  BY <1>1, <1>2, <1>3, <1>4 DEF SeriesTypes
<1>7. UNCHANGED <<recovery, sliceJobs, continuity, assembling, assembled, admitted, generating>> /\ opened' = Unset
  BY DEF DecideReview
<1> HIDE DEF v
<1> QED
  BY <1>2, <1>4, <1>5, <1>6, <1>7, OutputMoves

\* Steps that leave jobs, handlers and videos alone.
LEMMA ApiMoves ==
  ASSUME SeriesInv, UNCHANGED <<recovery, sliceJobs, generating, outputs>>,
         /\ opened' # Unset => opened' = opened \/
              /\ opened' \in [at : {"row"}, video : Outputs, row : Videos]
              /\ opened'.row.job = Present[opened'.video[1]] /\ outputs[opened'.video].job = opened'.row.job
              /\ sliceJobs[opened'.row.job].status = "completed",
         SeriesTypes', SeenIsTheirs', Assembly'
  PROVE  SeriesInv'
<1> USE DEF SeriesInv
<1>1. Present' = Present /\ \A c \in Children : Of(c)' = Of(c)
  BY DEF Present, Of
<1>2. SliceRows' /\ LastReplaced'
  BY DEF SliceRows, Replaceable, LastReplaced
<1>3. OfPresent'
  BY <1>1 DEF OfPresent
<1>4. FirstLeftNothing'
  BY <1>1 DEF FirstLeftNothing
<1> QED
  BY <1>2, <1>3, <1>4

LEMMA OpenStep ==
  ASSUME SeriesInv, NEW v \in Outputs, OpenReview(v)
  PROVE  SeriesInv'
<1> USE SeriesNumbers, PresentChild DEF SeriesInv
<1>1. UNCHANGED <<recovery, sliceJobs, generating, outputs, continuity, assembling, assembled, admitted>>
      /\ opened' = [at |-> "row", video |-> v, row |-> outputs[v]]
      /\ outputs[v].qa = "verified" /\ sliceJobs[outputs[v].job].status = "completed"
  BY DEF OpenReview
<1>2. outputs[v] \in Videos /\ outputs[v].job = Present[v[1]]
  BY <1>1 DEF SeriesTypes, OfPresent
<1>3. opened' \in [at : {"row"}, video : Outputs, row : Videos]
      /\ opened'.video = v /\ opened'.row = outputs[v]
  BY <1>1, <1>2
<1>4. SeriesTypes'
  BY <1>1, <1>3 DEF SeriesTypes
<1>5. Present' = Present /\ \A c \in Children : Of(c)' = Of(c)
  BY <1>1 DEF Present, Of
<1>6. SeenIsTheirs' /\ Assembly'
  BY <1>1, <1>5 DEF SeenIsTheirs, Assembly
<1>7. outputs[opened'.video].job = opened'.row.job /\ opened'.row.job = Present[opened'.video[1]]
      /\ sliceJobs[opened'.row.job].status = "completed"
  BY <1>1, <1>2, <1>3
<1> QED
  BY <1>1, <1>3, <1>4, <1>6, <1>7, ApiMoves

LEMMA NarrationStep ==
  ASSUME SeriesInv, NarrationMoves
  PROVE  SeriesInv'
<1> USE SeriesNumbers, PresentChild DEF SeriesInv
<1>1. UNCHANGED <<recovery, sliceJobs, generating, outputs, opened, continuity, assembling, assembled, admitted>>
  BY DEF NarrationMoves
<1>2. Present' = Present /\ \A c \in Children : Of(c)' = Of(c)
  BY <1>1 DEF Present, Of
<1>3. SeriesTypes'
  BY <1>1 DEF SeriesTypes
<1>4. SeenIsTheirs' /\ Assembly'
  BY <1>1, <1>2 DEF SeenIsTheirs, Assembly
<1> QED
  BY <1>1, <1>3, <1>4, ApiMoves

\* A series is ready when every child has one video and nothing to wait for.
LEMMA ReadyMeans ==
  ASSUME Ready, NEW i \in Indexes
  PROVE  OneOutput(Present[i]) /\ Of(Present[i]) # {}
<1>1. {Lacks(j) : j \in Indexes} = {"nothing"}
  BY DEF Ready, Readiness
<1>2. Lacks(i) = "nothing"
  BY <1>1
<1> QED
  BY <1>2 DEF Lacks

LEMMA OnlyOne ==
  ASSUME NEW i \in Indexes, OneOutput(Present[i])
  PROVE  \E v \in Outputs : Of(Present[i]) = {v}
<1>1. IsFiniteSet(Outputs)
  <2>1. IsFiniteSet(Indexes)
    BY SeriesAssumption, FS_Interval DEF Indexes
  <2>2. IsFiniteSet({"a", "b"})
    <3>1. IsFiniteSet({"a"} \cup {"b"})
      BY FS_Singleton, FS_AddElement
    <3>2. {"a", "b"} = {"a"} \cup {"b"}
      OBVIOUS
    <3> QED
      BY <3>1, <3>2
  <2> QED
    BY <2>1, <2>2, FS_Product DEF Outputs
<1>2. IsFiniteSet(Of(Present[i])) /\ Of(Present[i]) \subseteq Outputs
  BY <1>1, FS_Subset DEF Of
<1>3. \E v : Of(Present[i]) = {v}
  BY <1>2, FS_Singleton DEF OneOutput
<1> QED
  BY <1>2, <1>3

LEMMA EvidenceIs ==
  ASSUME Ready
  PROVE  /\ Evidence \in [Indexes -> Outputs]
         /\ \A i \in Indexes : Of(Present[i]) = {Evidence[i]}
<1>1. ASSUME NEW i \in Indexes
      PROVE  Evidence[i] \in Outputs /\ Of(Present[i]) = {Evidence[i]}
  <2>1. PICK v \in Outputs : Of(Present[i]) = {v}
    BY ReadyMeans, OnlyOne
  <2>2. Evidence[i] = CHOOSE u \in Outputs : u \in Of(Present[i])
    BY DEF Evidence
  <2> QED
    BY <2>1, <2>2
<1> QED
  BY <1>1 DEF Evidence

LEMMA ReviewStep ==
  ASSUME SeriesInv, ReviewSeries
  PROVE  SeriesInv'
<1> USE SeriesNumbers, PresentChild DEF SeriesInv
<1>1. PICK approved \in BOOLEAN :
          continuity' = [at |-> "reviewed", approved |-> approved, children |-> Present, seen |-> Evidence]
  BY DEF ReviewSeries
<1>2. UNCHANGED <<recovery, sliceJobs, generating, outputs, opened, assembling, assembled, admitted>>
      /\ Ready /\ continuity = Unset
  BY DEF ReviewSeries
<1>3. Present \in [Indexes -> Children]
  BY DEF Present
<1>4. SeriesTypes'
  BY <1>1, <1>2, <1>3, EvidenceIs DEF SeriesTypes
<1>5. Present' = Present /\ \A c \in Children : Of(c)' = Of(c)
  BY <1>2 DEF Present, Of
<1>6. continuity'.children = Present /\ continuity'.seen = Evidence
  BY <1>1
<1>7. SeenIsTheirs' /\ Assembly'
  <2>1. SeenIsTheirs'
    BY <1>2, <1>5, <1>6, EvidenceIs DEF SeenIsTheirs
  <2>2. assembling' = Unset /\ admitted' = Unset
    BY <1>2 DEF Assembly
  <2> QED
    BY <2>1, <2>2 DEF Assembly, Unset
<1> QED
  BY <1>2, <1>4, <1>7, ApiMoves

LEMMA BeginStep ==
  ASSUME SeriesInv, BeginAssembly
  PROVE  SeriesInv'
<1> USE SeriesNumbers, PresentChild DEF SeriesInv
<1>1. UNCHANGED <<recovery, sliceJobs, generating, outputs, opened, continuity, assembled, admitted>>
      /\ assembling' = [at |-> "checked", children |-> Present, videos |-> Evidence]
      /\ Ready /\ Reviewed /\ Unassembled
  BY DEF BeginAssembly
<1>2. Present \in [Indexes -> Children]
  BY DEF Present
<1>3. SeriesTypes'
  BY <1>1, <1>2, EvidenceIs DEF SeriesTypes
<1>4. Present' = Present /\ \A c \in Children : Of(c)' = Of(c)
  BY <1>1 DEF Present, Of
<1>5. continuity.seen = Evidence /\ continuity # Unset /\ continuity.approved /\ continuity.children = Present
  <2>1. continuity # Unset /\ continuity.approved /\ continuity.children = Present
    BY <1>1 DEF Reviewed
  <2>2. continuity.seen \in [Indexes -> Outputs]
    BY <2>1 DEF SeriesTypes
  <2>3. ASSUME NEW i \in Indexes
        PROVE  continuity.seen[i] = Evidence[i]
    <3>1. continuity.seen[i] \in Of(Present[i])
      BY <2>1 DEF SeenIsTheirs
    <3>2. Of(Present[i]) = {Evidence[i]}
      BY <1>1, EvidenceIs
    <3> QED
      BY <3>1, <3>2
  <2> QED
    BY <1>1, <2>1, <2>2, <2>3, EvidenceIs
<1>6. Assembly'
  <2>1. admitted' = Unset
    BY <1>1 DEF Unassembled
  <2>2. assembling'.at = "checked" /\ assembling'.children = Present /\ assembling'.videos = Evidence
    BY <1>1
  <2> QED
    BY <1>1, <1>5, <2>1, <2>2 DEF Assembly
<1>7. SeenIsTheirs'
  BY <1>1, <1>4 DEF SeenIsTheirs
<1> QED
  BY <1>1, <1>3, <1>6, <1>7, ApiMoves

LEMMA AtIs == /\ Unset.at = "none"
              /\ ~ \E x \in [at : {"checked", "stored", "named"}, children : [Indexes -> Children], videos : [Indexes -> Outputs]] :
                    x = Unset
  BY DEF Unset

\* The assembler's writes.
LEMMA AssemblerSteps ==
  ASSUME SeriesInv, StoreAssembled \/ NameAssembled \/ AdmitAssembled
  PROVE  SeriesInv'
<1> USE SeriesNumbers, PresentChild DEF SeriesInv
<1>1. UNCHANGED <<recovery, sliceJobs, generating, outputs, opened, continuity>>
  BY DEF StoreAssembled, NameAssembled, AdmitAssembled
<1>2. assembling # Unset /\ assembling.at \in {"checked", "stored", "named"}
  BY AtIs DEF StoreAssembled, NameAssembled, AdmitAssembled
<1>3. /\ continuity # Unset /\ continuity.approved /\ admitted = Unset
      /\ assembling.children = continuity.children /\ assembling.videos = continuity.seen
  BY <1>2 DEF Assembly
<1>4. assembling \in [at : {"checked", "stored", "named"}, children : [Indexes -> Children], videos : [Indexes -> Outputs]]
  BY <1>2 DEF SeriesTypes
<1>5. Present' = Present /\ \A c \in Children : Of(c)' = Of(c)
  BY <1>1 DEF Present, Of
<1>6. SeenIsTheirs'
  BY <1>1, <1>5 DEF SeenIsTheirs
<1>7. SeriesTypes' /\ Assembly'
  <2>1. CASE StoreAssembled \/ NameAssembled
    <3>1. PICK stage \in {"stored", "named"} : assembling' = [assembling EXCEPT !.at = stage] /\ (stage = "named" => assembled' = "run")
      BY <2>1, <1>3 DEF StoreAssembled, NameAssembled
    <3>2. admitted' = Unset
      BY <2>1, <1>3 DEF StoreAssembled, NameAssembled
    <3>3. /\ assembling' \in [at : {"checked", "stored", "named"}, children : [Indexes -> Children], videos : [Indexes -> Outputs]]
          /\ assembling'.at = stage /\ assembling'.children = assembling.children /\ assembling'.videos = assembling.videos
      BY <1>4, <3>1
    <3> QED
      BY <1>1, <1>3, <3>1, <3>2, <3>3 DEF SeriesTypes, Assembly
  <2>2. CASE AdmitAssembled
    <3>1. /\ assembling' = Unset /\ assembled' = assembled /\ assembled = "run"
          /\ admitted' = [at |-> "admitted", children |-> assembling.children, videos |-> assembling.videos]
      BY <2>2, <1>2, <1>3 DEF AdmitAssembled, Assembly
    <3>2. admitted' \in [at : {"admitted"}, children : [Indexes -> Children], videos : [Indexes -> Outputs]]
          /\ admitted'.children = assembling.children /\ admitted'.videos = assembling.videos
      BY <1>4, <3>1
    <3> QED
      BY <1>1, <1>3, <3>1, <3>2 DEF SeriesTypes, Assembly
  <2> QED
    BY <2>1, <2>2
<1> QED
  BY <1>1, <1>6, <1>7, ApiMoves

LEMMA ApiFailsStep ==
  ASSUME SeriesInv, ApiFails
  PROVE  SeriesInv'
<1> USE SeriesNumbers, PresentChild DEF SeriesInv
<1>1. UNCHANGED <<recovery, sliceJobs, generating, outputs, continuity, assembled, admitted>>
      /\ opened' = Unset /\ assembling' = Unset
  BY DEF ApiFails
<1>2. Present' = Present /\ \A c \in Children : Of(c)' = Of(c)
  BY <1>1 DEF Present, Of
<1>3. SeriesTypes' /\ Assembly'
  BY <1>1 DEF SeriesTypes, Assembly
<1>4. SeenIsTheirs'
  BY <1>1, <1>2 DEF SeenIsTheirs
<1> QED
  BY <1>1, <1>3, <1>4, ApiMoves

\* Only the last slice can have failed while the others completed; what it left is nothing.
LEMMA RecoverStep ==
  ASSUME SeriesInv, NEW i \in Indexes, RecoverChild(i)
  PROVE  SeriesInv'
<1> USE SeriesNumbers, PresentChild DEF SeriesInv
<1> DEFINE first == <<i, "first">>
           second == <<i, "second">>
<1>1. /\ UNCHANGED <<generating, outputs, opened, continuity, assembling, assembled, admitted>>
      /\ recovery = 0 /\ recovery' = i /\ continuity = Unset /\ admitted = Unset
      /\ opened = Unset /\ assembling = Unset
      /\ sliceJobs[first].status = "failed" /\ sliceJobs[first].attempt = 1 /\ sliceJobs[first].error = "invalid"
  BY DEF RecoverChild, Replaceable, ApiFree
<1>2. first \in Children /\ second \in Children /\ first # second /\ first[1] = i /\ second[1] = i /\ second[2] = "second"
      /\ first[2] = "first"
  BY DEF Children
<1>3. sliceJobs[second].status = "absent" /\ sliceJobs[second].attempt = 0
  BY <1>1, <1>2 DEF SliceRows
<1>4. Of(first) = {} /\ \A h \in generating : h.job # first
  BY <1>1, <1>2 DEF FirstLeftNothing
<1>5. /\ sliceJobs' \in [Children -> [status : SliceStatuses, attempt : Nat, error : SliceErrors]]
      /\ sliceJobs'[second].status = "pending" /\ sliceJobs'[second].attempt = 0
      /\ \A c \in Children \ {second} : sliceJobs'[c] = sliceJobs[c]
  <2>1. sliceJobs' = [sliceJobs EXCEPT ![second] = Queued]
    BY DEF RecoverChild
  <2>2. Queued = [status |-> "pending", attempt |-> 0, error |-> "none"]
    BY DEF Queued, NoChild
  <2>3. Queued \in [status : SliceStatuses, attempt : Nat, error : SliceErrors]
    BY <2>2 DEF SliceStatuses, SliceErrors
  <2> QED
    BY <1>2, <2>1, <2>2, <2>3 DEF SeriesTypes
<1> HIDE DEF first, second
<1>6. i = Size
  <2>1. SUFFICES ASSUME i # Size PROVE FALSE
    OBVIOUS
  <2>2. Size \in Indexes /\ i < Size
    BY <2>1 DEF Indexes
  <2>3. Present[Size] = <<Size, "first">>
    BY <1>1, <2>2 DEF Present
  <2>4. sliceJobs[Present[Size]].status = "completed"
    BY <2>2, <2>1 DEF RecoverChild
  <2>5. <<Size, "first">> \in Children /\ <<Size, "first">>[1] = Size
    BY <2>2
  <2>6. sliceJobs[<<Size, "first">>].attempt > 0
    BY <2>3, <2>4, <2>5 DEF SliceRows
  <2>7. sliceJobs[first].status = "completed"
    BY <1>1, <1>2, <2>2, <2>5, <2>6 DEF SliceRows
  <2> QED
    BY <1>1, <2>7
<1>7. \A c \in Children : c[1] \in Nat /\ c[1] <= Size
  BY DEF Indexes
<1>8. \A c \in Children : c[2] = "second" /\ c[1] = i => c = second
  BY DEF second
<1>9. Present[i] = first /\ \A k \in Indexes \ {i} : Present'[k] = Present[k]
  BY <1>1 DEF Present, first
<1>10. SeriesTypes'
  BY <1>1, <1>5 DEF SeriesTypes
<1>11. SliceRows'
  <2>1. ASSUME NEW c \in Children
        PROVE  /\ c[2] = "second" => (sliceJobs'[c].status # "absent" <=> recovery' = c[1])
               /\ sliceJobs'[c].status \in {"running", "completed", "failed"} => sliceJobs'[c].attempt > 0
               /\ sliceJobs'[c].status = "absent" => sliceJobs'[c].attempt = 0
    <3>1. CASE c = second
      BY <3>1, <1>1, <1>2, <1>5
    <3>2. CASE c # second
      <4>1. c[2] = "second" => sliceJobs[c].status = "absent" /\ c[1] # i
        BY <3>2, <1>1, <1>8 DEF SliceRows
      <4> QED
        BY <4>1, <3>2, <1>1, <1>5 DEF SliceRows
    <3> QED
      BY <3>1, <3>2
  <2>2. ASSUME NEW c \in Children, NEW d \in Children,
               sliceJobs'[c].attempt > 0, d[1] < c[1], sliceJobs'[d].status # "absent"
        PROVE  sliceJobs'[d].status = "completed"
    <3>1. c # second
      BY <2>2, <1>5
    <3>2. d # second
      BY <2>2, <1>2, <1>6, <1>7
    <3>3. sliceJobs[d].status = "completed"
      BY <2>2, <3>1, <3>2, <1>5 DEF SliceRows
    <3> QED
      BY <3>2, <3>3, <1>5
  <2>3. recovery' # 0 => (Replaceable(<<recovery, "first">>))'
    BY <1>1, <1>2, <1>5 DEF Replaceable, first
  <2> QED
    BY <2>1, <2>2, <2>3 DEF SliceRows
<1>12. OfPresent'
  <2>1. ASSUME NEW h \in generating'
        PROVE  h.job = Present'[h.job[1]] /\ 1 <= h.attempt /\ h.attempt <= sliceJobs'[h.job].attempt
    <3>1. h \in generating /\ h.job \in Children
      BY <1>1 DEF SeriesTypes
    <3>2. h.job = Present[h.job[1]] /\ h.job[1] \in Indexes /\ h.job # first
      BY <3>1, <1>4 DEF OfPresent
    <3>3. h.job[1] # i
      BY <3>2, <1>9
    <3>4. h.job # second
      BY <3>3, <1>2
    <3> QED
      BY <3>1, <3>2, <3>3, <3>4, <1>5, <1>9 DEF OfPresent
  <2>2. ASSUME NEW v \in Outputs
        PROVE  /\ outputs'[v].job = Present'[v[1]] \/ (outputs'[v].job = <<0, "first">> /\ outputs'[v].qa = "none")
               /\ outputs'[v].job # <<0, "first">> => sliceJobs'[outputs'[v].job].attempt > 0
    <3>1. outputs[v].job # first
      BY <1>4 DEF Of
    <3>2. CASE outputs[v].job = Present[v[1]] /\ v[1] # i /\ outputs[v].job # <<0, "first">>
      <4>1. outputs[v].job \in Children /\ outputs[v].job # second
        BY <3>2, <1>2
      <4> QED
        BY <3>2, <4>1, <1>1, <1>5, <1>9 DEF OfPresent
    <3>3. CASE outputs[v].job = <<0, "first">> /\ outputs[v].qa = "none"
      BY <3>3, <1>1
    <3>4. outputs[v].job = Present[v[1]] => v[1] # i
      BY <3>1, <1>9
    <3>5. \A k \in Indexes : Present[k] # <<0, "first">>
      OBVIOUS
    <3>6. outputs[v].job = Present[v[1]] \/ (outputs[v].job = <<0, "first">> /\ outputs[v].qa = "none")
      BY DEF OfPresent
    <3> QED
      BY <3>2, <3>3, <3>4, <3>5, <3>6
  <2>3. \A g, h \in generating' : g.job = h.job /\ g.attempt = h.attempt => g = h
    BY <1>1 DEF OfPresent
  <2> QED
    BY <2>1, <2>2, <2>3, <1>1 DEF OfPresent
<1>13. FirstLeftNothing'
  <2>1. \A c \in Children : Of(c)' = Of(c)
    BY <1>1 DEF Of
  <2>2. \A c \in Children : c # second => sliceJobs'[c] = sliceJobs[c]
    BY <1>5
  <2> QED
    BY <1>1, <1>5, <2>1, <2>2 DEF FirstLeftNothing
<1>14. SeenIsTheirs' /\ Assembly' /\ LastReplaced'
  BY <1>1, <1>6 DEF SeenIsTheirs, Assembly, LastReplaced
<1> QED
  BY <1>10, <1>11, <1>12, <1>13, <1>14

LEMMA SeriesStart == SeriesInit => SeriesInv
<1> SUFFICES ASSUME SeriesInit PROVE SeriesInv
  OBVIOUS
<1> USE SeriesNumbers, PresentChild
<1>1. /\ recovery = 0 /\ generating = {} /\ opened = Unset /\ continuity = Unset
      /\ assembling = Unset /\ admitted = Unset
      /\ \A c \in Children : sliceJobs[c] = IF c[2] = "first" THEN Queued ELSE NoChild
      /\ \A v \in Outputs : outputs[v] = NoVideo
  BY DEF SeriesInit
<1>2. SeriesTypes
  <2>1. sliceJobs \in [Children -> [status : SliceStatuses, attempt : Nat, error : SliceErrors]]
    BY DEF SeriesInit, Queued, NoChild, SliceStatuses, SliceErrors
  <2>2. outputs \in [Outputs -> Videos]
    BY DEF SeriesInit, NoVideo, Videos
  <2> QED
    BY <1>1, <2>1, <2>2 DEF SeriesTypes
<1>3. \A c \in Children : sliceJobs[c].attempt = 0 /\ sliceJobs[c].status \in {"pending", "absent"}
                          /\ (sliceJobs[c].status # "absent" <=> c[2] = "first")
  BY <1>1 DEF Queued, NoChild
<1>4. SliceRows
  <2>1. \A c \in Children : c[2] = "second" => (sliceJobs[c].status # "absent" <=> recovery = c[1])
    BY <1>1, <1>3
  <2>2. \A c \in Children : c[2] = "second" => c[2] # "first"
    OBVIOUS
  <2> QED
    BY <1>1, <1>3, <2>1 DEF SliceRows
<1>5. OfPresent
  BY <1>1 DEF OfPresent, NoVideo
<1>6. FirstLeftNothing
  BY <1>1, <1>3 DEF FirstLeftNothing
<1>7. SeenIsTheirs /\ Assembly /\ LastReplaced
  BY <1>1 DEF SeenIsTheirs, Assembly, LastReplaced
<1> QED
  BY <1>2, <1>4, <1>5, <1>6, <1>7 DEF SeriesInv

LEMMA SeriesStep ==
  ASSUME SeriesInv, SeriesNext
  PROVE  SeriesInv'
<1>1. ASSUME NEW c \in Children, TakeSlice(c) \/ ExpireSlice(c)
      PROVE  SeriesInv'
  BY <1>1, TakeStep, ExpireStep
<1>2. ASSUME NEW h \in generating, SliceFails(h)
      PROVE  SeriesInv'
  BY <1>2, ReportStep DEF SliceFails
<1>3. ASSUME NEW h \in generating, FinishSlice(h)
      PROVE  SeriesInv'
  BY <1>3, ReportStep DEF FinishSlice
<1>4. ASSUME NEW h \in generating, StoreSlice(h) \/ SliceDies(h)
      PROVE  SeriesInv'
  BY <1>4, StoreStep, DieStep
<1>5. ASSUME NEW v \in Outputs, CheckOutput(v) \/ OpenReview(v)
      PROVE  SeriesInv'
  BY <1>5, CheckStep, OpenStep
<1>6. CASE NarrationMoves \/ DecideReview \/ ReviewSeries \/ ApiFails
  BY <1>6, NarrationStep, DecideStep, ReviewStep, ApiFailsStep
<1>7. ASSUME NEW i \in Indexes, RecoverChild(i)
      PROVE  SeriesInv'
  BY <1>7, RecoverStep
<1>8. CASE BeginAssembly \/ StoreAssembled \/ NameAssembled \/ AdmitAssembled
  BY <1>8, BeginStep, AssemblerSteps
<1> QED
  BY <1>1, <1>2, <1>3, <1>4, <1>5, <1>6, <1>7, <1>8 DEF SeriesNext

LEMMA SeriesStays == SeriesInv /\ UNCHANGED seriesVars => SeriesInv'
  BY DEF SeriesInv, seriesVars, SeriesTypes, SliceRows, OfPresent, FirstLeftNothing, SeenIsTheirs, Assembly,
         LastReplaced, Present, Of, Replaceable

LEMMA SeriesMeans == SeriesInv => CollectionSound
<1> SUFFICES ASSUME SeriesInv PROVE CollectionSound
  OBVIOUS
<1> USE DEF SeriesInv
<1>1. RunOfReview
  BY DEF SeenIsTheirs, Assembly, RunOfReview
<1>2. ReplacedLeftNoVideo
  <2>1. SUFFICES ASSUME recovery # 0 PROVE Of(<<recovery, "first">>) = {}
    BY DEF ReplacedLeftNoVideo
  <2>2. recovery \in Indexes
    BY <2>1 DEF SeriesTypes
  <2>3. <<recovery, "first">> \in Children /\ Replaceable(<<recovery, "first">>)
    BY <2>1, <2>2, SeriesNumbers DEF SliceRows
  <2> QED
    BY <2>3 DEF FirstLeftNothing, Replaceable
<1>3. AssetNamesRun
  BY DEF Assembly, AssetNamesRun
<1> QED
  BY <1>1, <1>2, <1>3 DEF CollectionSound

\* The promises about a series, its videos, judgments and run hold however its
\* workers, requests and crashes interleave (main.py:4163, talking/runs.py:37).
THEOREM SeriesHolds == SeriesSpec => []CollectionSound
<1>1. SeriesInv /\ [SeriesNext]_seriesVars => SeriesInv'
  BY SeriesStep, SeriesStays
<1> QED
  BY <1>1, SeriesStart, SeriesMeans, PTL DEF SeriesSpec

-----------------------------------------------------------------------------
(* Corrections of a rendered run (PresentationRepair).  A version completed *)
(* is never touched again, so the line of versions only grows at its end;   *)
(* and who works on a version's render holds its one call: where that       *)
(* attempt stands says what has become of the call and of the evidence.     *)

Bytes == {"none", "made", "other"}
Steps == {"waiting", "claimed", "rendering", "rendered", "measured", "verified", "closed", "gone"}
Version == [status : {"pending", "running", "completed", "failed", "cancelled"}, attempt : Nat, scene : Scenes]
Observation == [job : Versions, bytes : Bytes, finding : Findings]
RepairPlan == [action : {"stop", "replan", "render_revision"}, seen : Observation, left : Nat,
               predecessor : Version, candidate : SUBSET Scenes, inputs : Nat, blocked : BOOLEAN]
RenderCall == [attempt : 1..Tries, status : {"running", "completed", "failed"}]
Standing == [at : Steps, bytes : Bytes]

RepairTypes ==
    /\ shown \in Versions
    /\ rendition \in [Versions -> Version \cup {NoVersion}]
    /\ \A k \in Versions : k <= shown => rendition[k] \in Version
    /\ video \in [Versions -> Bytes]
    /\ observed \subseteq Observation
    /\ inspected = NoPlan \/ inspected \in RepairPlan
    /\ revised \in Seq([plan : RepairPlan, qa : Bytes])
    /\ rendering \in [Replacements -> [1..Tries -> Standing]]
    /\ renderCall \in [Replacements -> Seq(RenderCall)]
    /\ facts \in [inputs : Nat, blocked : BOOLEAN, flips : Nat]

InspectedSeen == inspected # NoPlan => inspected.seen \in observed

\* One call of a version, and the attempt that stands beyond it holds it.
RenderOf(k) ==
    /\ Len(renderCall[k]) <= 1
    /\ k > shown => renderCall[k] = <<>> /\ \A a \in 1..Tries : rendering[k][a].at = "waiting"
    /\ \A a \in 1..Tries :
          /\ rendering[k][a].at \in {"rendering", "rendered", "measured", "verified", "closed"}
                => Len(renderCall[k]) = 1 /\ renderCall[k][1].attempt = a
          /\ rendering[k][a].at \in {"rendering", "rendered", "measured", "verified"}
                => renderCall[k][1].status = "running"
          /\ rendering[k][a].at = "closed" => renderCall[k][1].status = "completed"
          /\ rendering[k][a].at = "measured" => rendering[k][a].bytes # "none"

EvidenceOf(k) ==
    /\ \A a \in 1..Tries :
          /\ rendering[k][a].at \in {"verified", "closed"} => revised[k].qa # "none"
          /\ rendering[k][a].at \in {"rendering", "rendered", "measured"} => revised[k].qa = "none"
    /\ revised[k].qa # "none" => Len(renderCall[k]) = 1 /\ renderCall[k][1].status # "failed"
    /\ rendition[k].status = "completed"
         => revised[k].qa # "none" /\ Len(renderCall[k]) = 1 /\ renderCall[k][1].status = "completed"

RepairInv ==
    /\ RepairTypes /\ InspectedSeen /\ OneLine
    /\ \A k \in 1..shown : Corrected(k)
    /\ \A k \in Replacements : RenderOf(k)
    /\ \A k \in 1..shown : EvidenceOf(k)

LEMMA RepairNumbers ==
  /\ Revisions \in Nat /\ Revisions > 0 /\ Tries \in Nat /\ Tries > 0
  /\ Versions = 0..Revisions /\ Replacements = 1..Revisions
  BY RepairAssumption DEF Versions, Replacements

LEMMA RepairLengths ==
  ASSUME RepairTypes, OneLine
  PROVE  /\ shown \in Nat /\ shown <= Revisions /\ Len(revised) = shown /\ DOMAIN revised = 1..shown
         /\ \A k \in 1..shown : /\ k \in Replacements /\ k \in Versions /\ k - 1 \in Versions /\ k - 1 < shown
                                /\ k \in Nat /\ k <= shown /\ k >= 1
                                /\ rendition[k] \in Version /\ rendition[k - 1] \in Version
                                /\ revised[k] \in [plan : RepairPlan, qa : Bytes]
         /\ rendition[shown] \in Version
<1> USE RepairNumbers
<1>1. shown \in Nat /\ shown <= Revisions /\ Len(revised) = shown /\ DOMAIN revised = 1..shown
  BY DEF OneLine, RepairTypes
<1>2. ASSUME NEW k \in 1..shown
      PROVE  /\ k \in Replacements /\ k \in Versions /\ k - 1 \in Versions /\ k - 1 < shown
             /\ k \in Nat /\ k <= shown /\ k >= 1
  BY <1>1
<1>3. \A k \in Versions : k <= shown => rendition[k] \in Version
  BY DEF RepairTypes
<1>4. \A k \in 1..shown : revised[k] \in [plan : RepairPlan, qa : Bytes]
  <2>1. revised \in Seq([plan : RepairPlan, qa : Bytes])
    BY DEF RepairTypes
  <2> QED
    BY <1>1, <2>1, ElementOfSeq
<1> QED
  BY <1>1, <1>2, <1>3, <1>4 DEF RepairTypes

-----------------------------------------------------------------------------
\* A correction changes one thing of a scene, and that removes what was seen.
LEMMA OneField ==
  ASSUME NEW s \in Scenes, NEW t \in Scenes, NEW f \in DOMAIN s, s[f] # t[f],
         \A g \in DOMAIN s : g # f => s[g] = t[g]
  PROVE  Cardinality({g \in DOMAIN s : s[g] # t[g]}) = 1
<1>1. {g \in DOMAIN s : s[g] # t[g]} = {f}
  OBVIOUS
<1> QED
  BY <1>1, FS_Singleton

SceneFields == {"role", "text", "subtitles", "burned", "contained", "panel", "card", "phrase"}

LEMMA CorrectionIs ==
  ASSUME NEW s \in Scenes, NEW finding \in Findings, NEW t \in Corrections(s, finding)
  PROVE  /\ t \in Scenes
         /\ Cardinality({g \in DOMAIN s : s[g] # t[g]}) = 1
         /\ finding = "duplicate_text" => ~(t.subtitles = "timed" /\ t.text = "caption")
         /\ finding = "text_overlay" => t.panel
<1>1. DOMAIN s = SceneFields
  BY DEF Scenes, SceneFields
<1>2. CASE finding = "duplicate_text"
  <2>1. PICK text \in {"none", "short"} : t = [s EXCEPT !.text = text] /\ s.text = "caption"
    BY <1>2 DEF Corrections
  <2>2. t \in Scenes /\ t.text = text
    BY <2>1 DEF Scenes
  <2>3. s["text"] # t["text"]
    BY <2>1, <2>2
  <2>4. \A g \in SceneFields : g # "text" => s[g] = t[g]
    BY <2>1, <1>1
  <2> QED
    BY <1>1, <1>2, <2>1, <2>2, <2>3, <2>4, OneField DEF SceneFields
<1>3. CASE finding = "known_subtitle_conflict"
  <2>1. t = [s EXCEPT !.subtitles = "none"] /\ s.subtitles = "timed"
    BY <1>3 DEF Corrections
  <2>2. t \in Scenes /\ t.subtitles = "none"
    BY <2>1 DEF Scenes
  <2>3. s["subtitles"] # t["subtitles"]
    BY <2>1, <2>2
  <2>4. \A g \in SceneFields : g # "subtitles" => s[g] = t[g]
    BY <2>1, <1>1
  <2> QED
    BY <1>1, <1>3, <2>1, <2>2, <2>3, <2>4, OneField DEF SceneFields
<1>4. CASE finding = "text_overlay"
  <2>1. t = [s EXCEPT !.panel = TRUE] /\ ~s.panel
    BY <1>4 DEF Corrections
  <2>2. t \in Scenes /\ t.panel = TRUE
    BY <2>1 DEF Scenes
  <2>3. s["panel"] # t["panel"]
    BY <2>1, <2>2
  <2>4. \A g \in SceneFields : g # "panel" => s[g] = t[g]
    BY <2>1, <1>1
  <2>5. Cardinality({g \in DOMAIN s : s[g] # t[g]}) = 1
    BY <1>1, <2>2, <2>3, <2>4, OneField DEF SceneFields
  <2> QED
    BY <1>4, <2>2, <2>5
<1>5. finding # "source_change"
  BY DEF Corrections
<1> QED
  BY <1>2, <1>3, <1>4, <1>5 DEF Findings

-----------------------------------------------------------------------------
(* Only a confirmation makes a version; all else moves within one, or beside *)
(* them.                                                                    *)

\* The versions and their plans stand, and what completed is as it was.
LineKept ==
    /\ shown' = shown /\ observed \subseteq observed'
    /\ \A k \in Versions : /\ k <= shown => rendition'[k].scene = rendition[k].scene
                           /\ k <= shown /\ rendition[k].status = "completed" => rendition'[k] = rendition[k]
    /\ Len(revised') = Len(revised)
    /\ \A k \in 1..shown : revised'[k].plan = revised[k].plan

LEMMA LineStands ==
  ASSUME RepairInv, LineKept, RepairTypes'
  PROVE  OneLine' /\ \A k \in 1..shown' : Corrected(k)'
<1> USE RepairNumbers DEF RepairInv, LineKept
<1>1. OneLine'
  <2>1. DOMAIN revised' = 1..shown
    BY RepairLengths DEF RepairTypes
  <2>2. ASSUME NEW k \in 1..shown
        PROVE  /\ revised'[k].plan.seen.job = k - 1 /\ revised'[k].plan.seen \in observed'
               /\ rendition'[k - 1].status = "completed" /\ rendition'[k - 1] = revised'[k].plan.predecessor
    <3>1. /\ revised[k].plan.seen.job = k - 1 /\ revised[k].plan.seen \in observed
          /\ rendition[k - 1].status = "completed" /\ rendition[k - 1] = revised[k].plan.predecessor
      BY RepairLengths DEF OneLine
    <3>2. rendition'[k - 1] = rendition[k - 1]
      BY <3>1, RepairLengths
    <3> QED
      BY <3>1, <3>2
  <2> QED
    BY <2>1, <2>2, RepairLengths DEF OneLine
<1>2. ASSUME NEW k \in 1..shown'
      PROVE  Corrected(k)'
  <2>1. rendition'[k].scene = rendition[k].scene /\ rendition'[k - 1].scene = rendition[k - 1].scene
        /\ revised'[k].plan = revised[k].plan
    BY RepairLengths
  <2>2. Corrected(k)
    OBVIOUS
  <2> QED
    BY <2>1, <2>2 DEF Corrected
<1> QED
  BY <1>1, <1>2

\* A step within one version.
LEMMA VersionMoves ==
  ASSUME RepairInv, NEW k \in 1..shown, LineKept, inspected' = inspected, RepairTypes',
         \A l \in Replacements \ {k} : rendering'[l] = rendering[l] /\ renderCall'[l] = renderCall[l],
         \A l \in (1..shown) \ {k} : revised'[l] = revised[l] /\ rendition'[l] = rendition[l],
         RenderOf(k)', EvidenceOf(k)'
  PROVE  RepairInv'
<1> USE RepairNumbers DEF RepairInv
<1>1. OneLine' /\ \A l \in 1..shown' : Corrected(l)'
  BY LineStands
<1>2. InspectedSeen'
  BY DEF InspectedSeen, LineKept
<1>3. ASSUME NEW l \in Replacements
      PROVE  RenderOf(l)'
  <2>1. CASE l = k
    BY <2>1
  <2>2. CASE l # k
    <3>1. rendering'[l] = rendering[l] /\ renderCall'[l] = renderCall[l] /\ shown' = shown /\ RenderOf(l)
      BY <2>2 DEF LineKept
    <3> HIDE DEF RepairInv
    <3> QED
      BY <3>1 DEF RenderOf
  <2> QED
    BY <2>1, <2>2
<1>4. ASSUME NEW l \in 1..shown'
      PROVE  EvidenceOf(l)'
  <2>1. CASE l = k
    BY <2>1
  <2>2. CASE l # k
    <3>1. /\ l \in Replacements /\ l \in 1..shown /\ EvidenceOf(l)
          /\ rendering'[l] = rendering[l] /\ renderCall'[l] = renderCall[l]
      BY <2>2, RepairLengths DEF LineKept
    <3>2. revised'[l] = revised[l] /\ rendition'[l] = rendition[l]
      BY <2>2, <3>1
    <3> HIDE DEF RepairInv
    <3> QED
      BY <3>1, <3>2 DEF EvidenceOf
  <2> QED
    BY <2>1, <2>2
<1> QED
  BY <1>1, <1>2, <1>3, <1>4

\* A step beside the versions.
LEMMA OtherMoves ==
  ASSUME RepairInv, LineKept, RepairTypes', InspectedSeen', revised' = revised,
         UNCHANGED <<rendering, renderCall>>,
         \A k \in 1..shown : rendition'[k] = rendition[k] \/ rendition'[k].status # "completed"
  PROVE  RepairInv'
<1> USE RepairNumbers DEF RepairInv
<1>1. OneLine' /\ \A l \in 1..shown' : Corrected(l)'
  BY LineStands
<1>3. ASSUME NEW l \in Replacements
      PROVE  RenderOf(l)'
  BY DEF RenderOf, LineKept
<1>4. ASSUME NEW l \in 1..shown'
      PROVE  EvidenceOf(l)'
  BY RepairLengths DEF EvidenceOf, LineKept
<1> QED
  BY <1>1, <1>3, <1>4

-----------------------------------------------------------------------------
LEMMA StatusSet ==
  ASSUME RepairInv, NEW k \in Versions, rendition[k] \in Version, k <= shown, NEW status,
         status \in {"pending", "running", "completed", "failed", "cancelled"},
         rendition' = [rendition EXCEPT ![k].status = status]
  PROVE  /\ rendition' \in [Versions -> Version \cup {NoVersion}]
         /\ \A l \in Versions \ {k} : rendition'[l] = rendition[l]
         /\ rendition'[k] \in Version /\ rendition'[k].status = status
         /\ rendition'[k].scene = rendition[k].scene /\ rendition'[k].attempt = rendition[k].attempt
<1> DEFINE row == [rendition[k] EXCEPT !.status = status]
<1>1. row \in Version /\ row.status = status /\ row.scene = rendition[k].scene /\ row.attempt = rendition[k].attempt
  BY DEF Version
<1>2. rendition \in [Versions -> Version \cup {NoVersion}]
  BY DEF RepairInv, RepairTypes
<1>3. rendition' = [rendition EXCEPT ![k] = row]
  OBVIOUS
<1> HIDE DEF row
<1> QED
  BY <1>1, <1>2, <1>3

LEMMA Moves ==
  ASSUME RepairInv, NEW k \in Replacements, NEW a \in 1..Tries, NEW step \in Steps,
         StandsAt(k, a, step)
  PROVE  /\ rendering' \in [Replacements -> [1..Tries -> Standing]]
         /\ \A l \in Replacements \ {k} : rendering'[l] = rendering[l]
         /\ \A b \in (1..Tries) \ {a} : rendering'[k][b] = rendering[k][b]
         /\ rendering'[k][a].at = step /\ rendering'[k][a].bytes = rendering[k][a].bytes
<1> DEFINE row == [rendering[k][a] EXCEPT !.at = step]
           own == [rendering[k] EXCEPT ![a] = row]
<1>1. rendering \in [Replacements -> [1..Tries -> Standing]]
  BY DEF RepairInv, RepairTypes
<1>2. row \in Standing /\ row.at = step /\ row.bytes = rendering[k][a].bytes
  BY <1>1 DEF Standing
<1>3. rendering' = [rendering EXCEPT ![k] = own]
  BY DEF StandsAt
<1> HIDE DEF row
<1>4. own \in [1..Tries -> Standing] /\ own[a] = row /\ \A b \in (1..Tries) \ {a} : own[b] = rendering[k][b]
  BY <1>1, <1>2
<1> HIDE DEF own
<1> QED
  BY <1>1, <1>2, <1>3, <1>4

LEMMA Closes ==
  ASSUME RepairInv, NEW k \in Replacements, NEW a \in 1..Tries, NEW status \in {"completed", "failed"},
         renderCall' = Closed(k, a, status)
  PROVE  /\ renderCall' \in [Replacements -> Seq(RenderCall)]
         /\ \A l \in Replacements \ {k} : renderCall'[l] = renderCall[l]
         /\ Len(renderCall'[k]) = Len(renderCall[k])
         /\ Len(renderCall[k]) = 1 =>
              /\ renderCall'[k][1].attempt = renderCall[k][1].attempt
              /\ renderCall[k][1].attempt = a /\ renderCall[k][1].status = "running"
                   => renderCall'[k][1].status = status
              /\ ~(renderCall[k][1].attempt = a /\ renderCall[k][1].status = "running")
                   => renderCall'[k][1].status = renderCall[k][1].status
<1> DEFINE old == renderCall[k]
           one(n) == IF old[n].attempt = a /\ old[n].status = "running"
                       THEN [old[n] EXCEPT !.status = status] ELSE old[n]
           new == [n \in DOMAIN old |-> one(n)]
<1>1. renderCall \in [Replacements -> Seq(RenderCall)] /\ old \in Seq(RenderCall)
  BY DEF RepairInv, RepairTypes
<1>2. renderCall' = [renderCall EXCEPT ![k] = new]
  BY DEF Closed
<1>3. \A n \in DOMAIN old : /\ one(n) \in RenderCall /\ one(n).attempt = old[n].attempt
                            /\ one(n).status = IF old[n].attempt = a /\ old[n].status = "running"
                                                 THEN status ELSE old[n].status
  <2> SUFFICES ASSUME NEW n \in DOMAIN old
               PROVE  /\ one(n) \in RenderCall /\ one(n).attempt = old[n].attempt
                      /\ one(n).status = IF old[n].attempt = a /\ old[n].status = "running"
                                           THEN status ELSE old[n].status
    OBVIOUS
  <2>1. old[n] \in RenderCall
    BY <1>1, ElementOfSeq
  <2> QED
    BY <2>1 DEF RenderCall
<1>4. DOMAIN old = 1..Len(old) /\ Len(old) \in Nat
  BY <1>1
<1> HIDE DEF one
<1>5. new \in Seq(RenderCall) /\ Len(new) = Len(old)
  BY <1>3, <1>4, IsASeq
<1>6. Len(old) = 1 => new[1] = one(1)
  BY <1>4
<1> HIDE DEF new, old
<1>7. /\ renderCall'[k] = new
      /\ \A l \in Replacements \ {k} : renderCall'[l] = renderCall[l]
      /\ renderCall' \in [Replacements -> Seq(RenderCall)]
  BY <1>1, <1>2, <1>5
<1>8. Len(renderCall'[k]) = Len(old)
  BY <1>5, <1>7
<1>9. Len(old) = 1 => 1 \in DOMAIN old
  BY <1>4
<1>10. Len(old) = 1 =>
          /\ renderCall'[k][1].attempt = old[1].attempt
          /\ old[1].attempt = a /\ old[1].status = "running" => renderCall'[k][1].status = status
          /\ ~(old[1].attempt = a /\ old[1].status = "running") => renderCall'[k][1].status = old[1].status
  BY <1>3, <1>6, <1>7, <1>9
<1>11. old = renderCall[k]
  BY DEF old
<1> QED
  BY <1>7, <1>8, <1>10, <1>11

-----------------------------------------------------------------------------
LEMMA Placed ==
  ASSUME RepairInv, NEW k \in Replacements, NEW a \in 1..Tries, rendering[k][a].at # "waiting"
  PROVE  k \in 1..shown
<1>1. k \in Nat /\ k >= 1 /\ shown \in Nat /\ ~(k > shown)
  BY RepairNumbers, RepairLengths DEF RepairInv, RenderOf
<1> QED
  BY <1>1

LEMMA SeenStay ==
  ASSUME InspectedSeen, inspected' = inspected, observed' = observed
  PROVE  InspectedSeen'
  BY DEF InspectedSeen

LEMMA NoteStep == ASSUME RepairInv, NoteFinding PROVE RepairInv'
<1> USE RepairNumbers DEF RepairInv
<1>1. PICK finding \in Findings :
        LET o == [job |-> shown, bytes |-> video[shown], finding |-> finding] IN
        Observable(o) /\ observed' = observed \cup {o}
  BY DEF NoteFinding
<1>2. UNCHANGED <<shown, rendition, video, inspected, revised, rendering, renderCall, facts>>
  BY DEF NoteFinding
<1>3. [job |-> shown, bytes |-> video[shown], finding |-> finding] \in Observation
  BY DEF RepairTypes, Observation
<1>4. RepairTypes'
  BY <1>1, <1>2, <1>3 DEF RepairTypes
<1>5. LineKept /\ InspectedSeen'
  BY <1>1, <1>2 DEF LineKept, InspectedSeen
<1> QED
  BY <1>2, <1>4, <1>5, OtherMoves

LEMMA PlanType ==
  ASSUME RepairInv, NEW o \in observed
  PROVE  /\ Plan(o) \in RepairPlan /\ Plan(o).seen = o
         /\ Plan(o).predecessor = rendition[shown]
         /\ Plan(o).action = "render_revision" => Left # 0
         /\ \A t \in Plan(o).candidate : /\ t \in Corrections(rendition[shown].scene, o.finding)
                                         /\ Adoptable(rendition[shown].scene, t)
<1> USE RepairNumbers DEF RepairInv
<1> DEFINE s == rendition[shown].scene
           corrected == Corrections(s, o.finding)
           sound == {t \in corrected : Adoptable(s, t)}
           action == IF Left = 0 \/ sound # corrected THEN "stop"
                     ELSE IF corrected = {} THEN "replan"
                     ELSE IF facts.blocked THEN "stop" ELSE "render_revision"
<1>1. Plan(o) = [action |-> action, seen |-> o, left |-> Left, predecessor |-> rendition[shown],
                 candidate |-> sound, inputs |-> facts.inputs, blocked |-> facts.blocked]
  BY DEF Plan
<1>2. o \in Observation /\ rendition[shown] \in Version /\ Left \in Nat
  BY RepairLengths DEF RepairTypes, Left
<1>3. s \in Scenes /\ o.finding \in Findings
  BY <1>2 DEF Version, Observation
<1>4. sound \subseteq Scenes
  BY <1>3, CorrectionIs
<1>5. action \in {"stop", "replan", "render_revision"} /\ (action = "render_revision" => Left # 0)
  OBVIOUS
<1>6. facts.inputs \in Nat /\ facts.blocked \in BOOLEAN
  BY DEF RepairTypes
<1>7. \A t \in sound : t \in corrected /\ Adoptable(s, t)
  OBVIOUS
<1> HIDE DEF action, sound, corrected
<1>8. Plan(o) \in RepairPlan
  BY <1>1, <1>2, <1>4, <1>5, <1>6 DEF RepairPlan
<1>9. /\ Plan(o).seen = o /\ Plan(o).predecessor = rendition[shown]
      /\ Plan(o).action = action /\ Plan(o).candidate = sound
  BY <1>1
<1>10. \A t \in Plan(o).candidate : t \in corrected /\ Adoptable(s, t)
  BY <1>7, <1>9
<1> QED
  BY <1>5, <1>8, <1>9, <1>10 DEF corrected

LEMMA InspectStep == ASSUME RepairInv, Inspect PROVE RepairInv'
<1> USE RepairNumbers DEF RepairInv
<1>1. PICK o \in observed : inspected' = Plan(o)
  BY DEF Inspect
<1>2. UNCHANGED <<shown, rendition, video, observed, revised, rendering, renderCall, facts>>
  BY DEF Inspect
<1>3. RepairTypes'
  BY <1>1, <1>2, PlanType DEF RepairTypes
<1>4. LineKept
  BY <1>2 DEF LineKept
<1>5. InspectedSeen'
  BY <1>1, <1>2, PlanType DEF InspectedSeen
<1> QED
  BY <1>2, <1>3, <1>4, <1>5, OtherMoves

LEMMA FactsStep == ASSUME RepairInv, FactsChange PROVE RepairInv'
<1> USE RepairNumbers DEF RepairInv
<1>1. UNCHANGED <<shown, rendition, video, observed, inspected, revised, rendering, renderCall>>
  BY DEF FactsChange
<1>2. facts' \in [inputs : Nat, blocked : BOOLEAN, flips : Nat]
  <2>1. facts \in [inputs : Nat, blocked : BOOLEAN, flips : Nat]
    BY DEF RepairTypes
  <2>2. CASE facts' = [facts EXCEPT !.inputs = @ + 1]
    BY <2>1, <2>2
  <2>3. CASE facts' = [facts EXCEPT !.blocked = ~@, !.flips = @ + 1]
    <3>1. PICK b \in BOOLEAN : facts' = [facts EXCEPT !.blocked = b, !.flips = @ + 1]
      BY <2>3, Zenon
    <3> DEFINE mid == [facts EXCEPT !.blocked = b]
    <3>2. mid \in [inputs : Nat, blocked : BOOLEAN, flips : Nat] /\ facts.flips \in Nat
      BY <2>1
    <3>3. facts' = [mid EXCEPT !.flips = facts.flips + 1]
      BY <3>1
    <3> HIDE DEF mid
    <3> QED
      BY <3>2, <3>3
  <2> QED
    BY <2>2, <2>3 DEF FactsChange
<1>3. RepairTypes'
  BY <1>1, <1>2 DEF RepairTypes
<1>4. LineKept /\ InspectedSeen'
  BY <1>1 DEF LineKept, InspectedSeen
<1> QED
  BY <1>1, <1>3, <1>4, OtherMoves

LEMMA OverwriteStep == ASSUME RepairInv, NEW k \in Versions, Overwrite(k) PROVE RepairInv'
<1> USE RepairNumbers DEF RepairInv
<1>1. UNCHANGED <<shown, rendition, observed, inspected, revised, rendering, renderCall, facts>>
      /\ video' = [video EXCEPT ![k] = "other"]
  BY DEF Overwrite
<1>2. RepairTypes'
  BY <1>1 DEF RepairTypes, Bytes
<1>3. LineKept /\ InspectedSeen'
  BY <1>1 DEF LineKept, InspectedSeen
<1> QED
  BY <1>1, <1>2, <1>3, OtherMoves

LEMMA WithdrawStep == ASSUME RepairInv, Withdraw PROVE RepairInv'
<1> USE RepairNumbers DEF RepairInv
<1>1. UNCHANGED <<shown, video, observed, inspected, revised, rendering, renderCall, facts>>
      /\ rendition' = [rendition EXCEPT ![shown].status = "cancelled"] /\ rendition[shown].status = "pending"
  BY DEF Withdraw
<1>2. shown \in Versions /\ rendition[shown] \in Version /\ shown <= shown
  <2>1. shown \in Nat /\ rendition[shown] \in Version
    BY RepairLengths
  <2> QED
    BY <2>1 DEF RepairTypes
<1>3. PICK k \in Versions : k = shown
  BY <1>2
<1>4. /\ rendition' \in [Versions -> Version \cup {NoVersion}]
      /\ \A l \in Versions \ {k} : rendition'[l] = rendition[l]
      /\ rendition'[k] \in Version /\ rendition'[k].status = "cancelled"
      /\ rendition'[k].scene = rendition[k].scene /\ rendition'[k].attempt = rendition[k].attempt
  BY <1>1, <1>2, <1>3, StatusSet
<1>5. RepairTypes'
  BY <1>1, <1>4 DEF RepairTypes
<1>6. LineKept /\ InspectedSeen'
  BY <1>1, <1>3, <1>4 DEF LineKept, InspectedSeen
<1> QED
  BY <1>1, <1>4, <1>5, <1>6, RepairLengths, OtherMoves

\* What a version's steps leave of the others, and of the line.
LEMMA WithinVersion ==
  ASSUME RepairInv, NEW k \in 1..shown, RepairTypes',
         UNCHANGED <<shown, observed, inspected>>,
         \A l \in Replacements \ {k} : rendering'[l] = rendering[l] /\ renderCall'[l] = renderCall[l],
         \A l \in Versions \ {k} : rendition'[l] = rendition[l],
         rendition'[k].scene = rendition[k].scene,
         rendition[k].status = "completed" => rendition'[k] = rendition[k],
         revised' = revised \/ (Len(revised') = Len(revised)
                                /\ (\A l \in (1..shown) \ {k} : revised'[l] = revised[l])
                                /\ revised'[k].plan = revised[k].plan),
         RenderOf(k)', EvidenceOf(k)'
  PROVE  RepairInv'
<1>1. LineKept
  BY DEF LineKept
<1>2. \A l \in (1..shown) \ {k} : l \in Versions \ {k}
  BY RepairLengths DEF RepairInv
<1> QED
  BY <1>1, <1>2, VersionMoves

LEMMA EndedIs ==
  ASSUME RepairInv, NEW k \in 1..shown, NEW a, NEW status,
         status \in {"pending", "completed", "failed"},
         rendition' = Ended(k, a, status)
  PROVE  /\ rendition' \in [Versions -> Version \cup {NoVersion}]
         /\ rendition'[k] \in Version
         /\ \A l \in Versions \ {k} : rendition'[l] = rendition[l]
         /\ rendition'[k].scene = rendition[k].scene
         /\ rendition[k].status = "completed" => rendition'[k] = rendition[k]
         /\ rendition'[k].status \in {rendition[k].status, status}
<1> USE DEF RepairInv
<1>1. k \in Versions /\ rendition[k] \in Version /\ k <= shown
  BY RepairLengths
<1>2. CASE ~IsOwner(k, a)
  BY <1>1, <1>2 DEF Ended, RepairTypes
<1>3. CASE IsOwner(k, a)
  <2>1. rendition' = [rendition EXCEPT ![k].status = status] /\ rendition[k].status = "running"
    BY <1>3 DEF Ended, IsOwner
  <2> HIDE DEF RepairInv
  <2> QED
    BY <1>1, <2>1, StatusSet
<1> QED
  BY <1>2, <1>3

LEMMA TakeUpStep == ASSUME RepairInv, NEW k \in 1..shown, TakeUp(k) PROVE RepairInv'
<1> USE RepairNumbers DEF RepairInv
<1> DEFINE a == rendition[k].attempt + 1
<1>1. /\ UNCHANGED <<shown, video, observed, inspected, revised, renderCall, facts>>
      /\ rendition[k].status \in {"pending", "running"} /\ a <= Tries
      /\ rendition' = [rendition EXCEPT ![k].status = "running", ![k].attempt = a]
      /\ StandsAt(k, a, "claimed")
  BY DEF TakeUp, StandsAt
<1>2. k \in Versions /\ k \in Replacements /\ rendition[k] \in Version
  BY RepairLengths
<1>3. a \in 1..Tries
  BY <1>1, <1>2 DEF Version
<1>4. /\ rendition' \in [Versions -> Version \cup {NoVersion}]
      /\ rendition'[k] \in Version /\ rendition'[k].scene = rendition[k].scene
      /\ rendition'[k].status = "running"
      /\ \A l \in Versions \ {k} : rendition'[l] = rendition[l]
  <2> DEFINE mid == [rendition[k] EXCEPT !.status = "running"]
             row == [mid EXCEPT !.attempt = a]
  <2>1. mid \in Version /\ mid.status = "running" /\ mid.scene = rendition[k].scene
    BY <1>2 DEF Version
  <2>2. rendition' = [rendition EXCEPT ![k] = row]
    BY <1>1, <1>2 DEF RepairTypes
  <2> HIDE DEF mid
  <2>3. row \in Version /\ row.status = "running" /\ row.scene = rendition[k].scene
    BY <2>1, <1>3 DEF Version
  <2> HIDE DEF row
  <2> QED
    BY <1>2, <2>2, <2>3 DEF RepairTypes
<1> HIDE DEF a
<1>5. /\ rendering' \in [Replacements -> [1..Tries -> Standing]]
      /\ \A l \in Replacements \ {k} : rendering'[l] = rendering[l]
      /\ \A b \in (1..Tries) \ {a} : rendering'[k][b] = rendering[k][b]
      /\ rendering'[k][a].at = "claimed"
  BY <1>1, <1>2, <1>3, Moves DEF Steps
<1>6. RepairTypes'
  BY <1>1, <1>4, <1>5 DEF RepairTypes
<1>7. RenderOf(k)'
  <2>1. RenderOf(k) /\ ~(k > shown)
    BY <1>2, RepairLengths
  <2> QED
    BY <1>1, <1>5, <2>1 DEF RenderOf
<1>8. EvidenceOf(k)'
  <2>1. EvidenceOf(k)
    OBVIOUS
  <2> QED
    BY <1>1, <1>4, <1>5, <2>1 DEF EvidenceOf
<1> HIDE DEF RepairInv
<1> QED
  BY <1>1, <1>4, <1>5, <1>6, <1>7, <1>8, WithinVersion

LEMMA RecoverStepR == ASSUME RepairInv, NEW k \in 1..shown, Recover(k) PROVE RepairInv'
<1> USE RepairNumbers DEF RepairInv
<1>1. UNCHANGED <<shown, video, observed, inspected, revised, rendering, renderCall, facts>>
      /\ rendition[k].status = "running"
  BY DEF Recover
<1>2. PICK status \in {"pending", "failed"} : rendition' = [rendition EXCEPT ![k].status = status]
  BY DEF Recover
<1>3. k \in Versions /\ rendition[k] \in Version /\ k <= shown /\ k \in Replacements
  BY RepairLengths
<1>4. /\ rendition' \in [Versions -> Version \cup {NoVersion}]
      /\ \A l \in Versions \ {k} : rendition'[l] = rendition[l]
      /\ rendition'[k] \in Version /\ rendition'[k].status = status
      /\ rendition'[k].scene = rendition[k].scene
  BY <1>2, <1>3, StatusSet
<1>5. RepairTypes'
  BY <1>1, <1>4 DEF RepairTypes
<1>6. RenderOf(k)' /\ EvidenceOf(k)'
  <2>1. RenderOf(k) /\ EvidenceOf(k)
    BY <1>3
  <2>2. RenderOf(k)'
    BY <1>1, <2>1 DEF RenderOf
  <2> QED
    BY <1>1, <1>4, <2>1, <2>2 DEF EvidenceOf
<1> HIDE DEF RepairInv
<1> QED
  BY <1>1, <1>4, <1>5, <1>6, WithinVersion

\* A step of one attempt that leaves the queue's row, calls and evidence alone,
\* and stands nowhere it was not entitled to.
LEMMA AttemptMoves ==
  ASSUME RepairInv, NEW k \in 1..shown, NEW a \in 1..Tries,
         rendering' \in [Replacements -> [1..Tries -> Standing]],
         \A l \in Replacements \ {k} : rendering'[l] = rendering[l],
         \A b \in (1..Tries) \ {a} : rendering'[k][b] = rendering[k][b],
         UNCHANGED <<shown, observed, inspected, revised, renderCall, facts>>,
         video' \in [Versions -> Bytes],
         \/ rendition' = rendition
         \/ \E status \in {"pending", "failed"} : rendition' = Ended(k, a, status),
         \/ rendering'[k][a].at \in {"claimed", "gone"}
         \/ rendering[k][a].at = "rendering" /\ rendering'[k][a].at = "rendered"
         \/ rendering[k][a].at = "rendered" /\ rendering'[k][a].at = "measured" /\ rendering'[k][a].bytes # "none"
  PROVE  RepairInv'
<1> USE RepairNumbers DEF RepairInv
<1>1. k \in Versions /\ k \in Replacements /\ rendition[k] \in Version /\ k <= shown
  BY RepairLengths
<1> DEFINE RowKept ==
          /\ rendition' \in [Versions -> Version \cup {NoVersion}]
          /\ rendition'[k] \in Version
          /\ \A l \in Versions \ {k} : rendition'[l] = rendition[l]
          /\ rendition'[k].scene = rendition[k].scene
          /\ rendition[k].status = "completed" => rendition'[k] = rendition[k]
          /\ rendition'[k].status = "completed" => rendition[k].status = "completed"
<1>2. RowKept
  <2>1. CASE rendition' = rendition
    BY <2>1, <1>1 DEF RepairTypes
  <2>2. ASSUME NEW status \in {"pending", "failed"}, rendition' = Ended(k, a, status)
        PROVE  RowKept
    BY <2>2, EndedIs
  <2> QED
    BY <2>1, <2>2
<1>3. RepairTypes'
  BY <1>1, <1>2 DEF RepairTypes
<1>4. RenderOf(k) /\ EvidenceOf(k)
  BY <1>1
<1>5. RenderOf(k)'
  <2>1. ASSUME NEW b \in 1..Tries
        PROVE  /\ rendering'[k][b].at \in {"rendering", "rendered", "measured", "verified", "closed"}
                     => Len(renderCall[k]) = 1 /\ renderCall[k][1].attempt = b
               /\ rendering'[k][b].at \in {"rendering", "rendered", "measured", "verified"}
                     => renderCall[k][1].status = "running"
               /\ rendering'[k][b].at = "closed" => renderCall[k][1].status = "completed"
               /\ rendering'[k][b].at = "measured" => rendering'[k][b].bytes # "none"
    <3>1. CASE b # a
      <4>1. rendering'[k][b] = rendering[k][b]
        BY <3>1
      <4>2. /\ rendering[k][b].at \in {"rendering", "rendered", "measured", "verified", "closed"}
                  => Len(renderCall[k]) = 1 /\ renderCall[k][1].attempt = b
            /\ rendering[k][b].at \in {"rendering", "rendered", "measured", "verified"}
                  => renderCall[k][1].status = "running"
            /\ rendering[k][b].at = "closed" => renderCall[k][1].status = "completed"
            /\ rendering[k][b].at = "measured" => rendering[k][b].bytes # "none"
        BY <1>4 DEF RenderOf
      <4> QED
        BY <4>1, <4>2
    <3>2. CASE b = a /\ rendering'[k][a].at \in {"claimed", "gone"}
      BY <3>2
    <3>3. CASE b = a /\ rendering[k][a].at = "rendering" /\ rendering'[k][a].at = "rendered"
      BY <1>4, <3>3 DEF RenderOf
    <3>4. CASE b = a /\ rendering[k][a].at = "rendered" /\ rendering'[k][a].at = "measured"
               /\ rendering'[k][a].bytes # "none"
      BY <1>4, <3>4 DEF RenderOf
    <3> QED
      BY <3>1, <3>2, <3>3, <3>4
  <2>2. shown \in Nat /\ k \in Nat /\ ~(k > shown)
    BY <1>1, RepairLengths
  <2>3. Len(renderCall[k]) <= 1
    BY <1>4 DEF RenderOf
  <2> QED
    BY <2>1, <2>2, <2>3 DEF RenderOf
<1>6. EvidenceOf(k)'
  BY <1>2, <1>4 DEF EvidenceOf
<1> HIDE DEF RepairInv
<1> QED
  BY <1>1, <1>2, <1>3, <1>5, <1>6, WithinVersion

LEMMA AttemptSteps ==
  ASSUME RepairInv, NEW k \in Replacements, NEW a \in 1..Tries,
         Render(k, a) \/ Measure(k, a) \/ Die(k, a)
  PROVE  RepairInv'
<1>1. k \in 1..shown
  BY Placed DEF Render, Measure, Die
<1>2. video \in [Versions -> Bytes] /\ rendering \in [Replacements -> [1..Tries -> Standing]]
  BY DEF RepairInv, RepairTypes
<1>3. CASE Render(k, a)
  <2>1. video' \in [Versions -> Bytes]
    BY <1>2, <1>3 DEF Render, Bytes
  <2>2. StandsAt(k, a, "rendered") /\ "rendered" \in Steps /\ rendering[k][a].at = "rendering"
        /\ UNCHANGED <<shown, rendition, observed, inspected, revised, renderCall, facts>>
    BY <1>3 DEF Render, Steps
  <2> QED
    BY <1>1, <2>1, <2>2, Moves, AttemptMoves
<1>4. CASE Die(k, a)
  <2>1. StandsAt(k, a, "gone") /\ "gone" \in Steps
        /\ UNCHANGED <<shown, rendition, video, observed, inspected, revised, renderCall, facts>>
    BY <1>4 DEF Die, Steps
  <2> QED
    BY <1>1, <1>2, <2>1, Moves, AttemptMoves
<1>5. CASE Measure(k, a)
  <2> DEFINE row == [at |-> "measured", bytes |-> video[k]]
             own == [rendering[k] EXCEPT ![a] = row]
  <2>1. rendering' = [rendering EXCEPT ![k] = own] /\ video[k] # "none" /\ rendering[k][a].at = "rendered"
        /\ UNCHANGED <<shown, rendition, video, observed, inspected, revised, renderCall, facts>>
    BY <1>5 DEF Measure, Unmeasured
  <2>2. row \in Standing /\ row.at = "measured" /\ row.bytes # "none"
    BY <1>2, <2>1, RepairNumbers DEF Standing, Steps
  <2> HIDE DEF row
  <2>3. own \in [1..Tries -> Standing] /\ own[a] = row /\ \A b \in (1..Tries) \ {a} : own[b] = rendering[k][b]
    BY <1>2, <2>2
  <2> HIDE DEF own
  <2>4. /\ rendering' \in [Replacements -> [1..Tries -> Standing]]
        /\ \A l \in Replacements \ {k} : rendering'[l] = rendering[l]
        /\ rendering'[k] = own
    BY <1>2, <2>1, <2>3
  <2> QED
    BY <1>1, <1>2, <2>1, <2>2, <2>3, <2>4, AttemptMoves
<1> QED
  BY <1>3, <1>4, <1>5

LEMMA ReserveStep ==
  ASSUME RepairInv, NEW k \in Replacements, NEW a \in 1..Tries, ReserveRender(k, a)
  PROVE  RepairInv'
<1> USE RepairNumbers
<1>1. k \in 1..shown
  BY Placed DEF ReserveRender
<1>2. UNCHANGED <<shown, video, observed, inspected, revised, facts>> /\ rendering[k][a].at = "claimed"
  BY DEF ReserveRender
<1>3. CASE ~(RequireCurrent(k) /\ PriorCalls(k, a) = {} /\ ~facts.blocked)
  <2>1. rendition' = Ended(k, a, "failed") /\ StandsAt(k, a, "gone") /\ renderCall' = renderCall /\ "gone" \in Steps
    BY <1>3 DEF ReserveRender, Steps
  <2>2. video' \in [Versions -> Bytes]
    BY <1>2 DEF RepairInv, RepairTypes
  <2> QED
    BY <1>1, <1>2, <2>1, <2>2, Moves, AttemptMoves
<1>4. CASE RequireCurrent(k) /\ PriorCalls(k, a) = {} /\ ~facts.blocked
  <2> DEFINE made == [attempt |-> a, status |-> "running"]
             own == Append(renderCall[k], made)
  <2>1. /\ renderCall' = [renderCall EXCEPT ![k] = own]
        /\ StandsAt(k, a, "rendering") /\ rendition' = rendition /\ "rendering" \in Steps
    BY <1>4 DEF ReserveRender, Steps
  <2>2. renderCall \in [Replacements -> Seq(RenderCall)]
    BY DEF RepairInv, RepairTypes
  <2>3. Len(renderCall[k]) = 0
    <3>1. DOMAIN renderCall[k] = {}
      BY <1>4 DEF PriorCalls
    <3>2. Len(renderCall[k]) \in Nat /\ DOMAIN renderCall[k] = 1..Len(renderCall[k])
      BY <2>2
    <3>3. \A n \in Nat : n # 0 => 1 \in 1..n
      OBVIOUS
    <3> QED
      BY <3>1, <3>2, <3>3
  <2>4. made \in RenderCall /\ made.attempt = a /\ made.status = "running"
    BY DEF RenderCall
  <2> HIDE DEF made
  <2>5. own \in Seq(RenderCall) /\ Len(own) = 1 /\ own[1] = made
    BY <2>2, <2>3, <2>4
  <2> HIDE DEF own
  <2>6. /\ renderCall' \in [Replacements -> Seq(RenderCall)] /\ renderCall'[k] = own
        /\ \A l \in Replacements \ {k} : renderCall'[l] = renderCall[l]
    BY <2>1, <2>2, <2>5
  <2>7. /\ rendering' \in [Replacements -> [1..Tries -> Standing]]
        /\ \A l \in Replacements \ {k} : rendering'[l] = rendering[l]
        /\ \A b \in (1..Tries) \ {a} : rendering'[k][b] = rendering[k][b]
        /\ rendering'[k][a].at = "rendering"
    BY <2>1, Moves
  <2>8. RenderOf(k) /\ EvidenceOf(k) /\ k \in Nat /\ shown \in Nat /\ ~(k > shown) /\ k \in Versions
    BY <1>1, RepairLengths DEF RepairInv
  <2>9. \A b \in (1..Tries) \ {a} :
          rendering'[k][b].at \notin {"rendering", "rendered", "measured", "verified", "closed"}
    BY <2>3, <2>7, <2>8 DEF RenderOf
  <2>10. revised[k].qa = "none" /\ rendition[k].status # "completed"
    BY <2>3, <2>8 DEF EvidenceOf
  <2>11. RenderOf(k)'
    <3>1. ASSUME NEW b \in 1..Tries
          PROVE  /\ rendering'[k][b].at \in {"rendering", "rendered", "measured", "verified", "closed"}
                       => Len(renderCall'[k]) = 1 /\ renderCall'[k][1].attempt = b
                 /\ rendering'[k][b].at \in {"rendering", "rendered", "measured", "verified"}
                       => renderCall'[k][1].status = "running"
                 /\ rendering'[k][b].at = "closed" => renderCall'[k][1].status = "completed"
                 /\ rendering'[k][b].at = "measured" => rendering'[k][b].bytes # "none"
      <4>1. CASE b = a
        BY <4>1, <2>4, <2>5, <2>6, <2>7
      <4>2. CASE b # a
        BY <4>2, <2>9
      <4> QED
        BY <4>1, <4>2
    <3>2. Len(renderCall'[k]) = 1
      BY <2>5, <2>6
    <3> QED
      BY <1>2, <2>8, <3>1, <3>2 DEF RenderOf
  <2>12. EvidenceOf(k)'
    BY <1>2, <2>1, <2>7, <2>9, <2>10 DEF EvidenceOf
  <2>13. RepairTypes'
    BY <1>2, <2>1, <2>6, <2>7 DEF RepairInv, RepairTypes
  <2> QED
    BY <1>1, <1>2, <2>1, <2>6, <2>7, <2>11, <2>12, <2>13, WithinVersion
<1> QED
  BY <1>3, <1>4

Working == {"rendering", "rendered", "measured", "verified", "closed"}

\* Who works on a version's render is alone with its call.
LEMMA Alone ==
  ASSUME RepairInv, NEW k \in Replacements, NEW a \in 1..Tries, rendering[k][a].at \in Working
  PROVE  /\ k \in 1..shown /\ k \in Versions /\ k \in Nat /\ shown \in Nat /\ ~(k > shown)
         /\ Len(renderCall[k]) = 1 /\ renderCall[k][1].attempt = a
         /\ rendering[k][a].at # "closed" => renderCall[k][1].status = "running"
         /\ \A b \in (1..Tries) \ {a} : rendering[k][b].at \notin Working
<1>1. k \in 1..shown
  BY Placed DEF Working
<1>2. k \in Versions /\ k \in Nat /\ shown \in Nat /\ ~(k > shown)
  BY <1>1, RepairLengths DEF RepairInv
<1>3. RenderOf(k)
  BY DEF RepairInv
<1>4. Len(renderCall[k]) = 1 /\ renderCall[k][1].attempt = a
      /\ (rendering[k][a].at # "closed" => renderCall[k][1].status = "running")
  BY <1>3 DEF RenderOf, Working
<1>5. ASSUME NEW b \in (1..Tries) \ {a}, rendering[k][b].at \in Working
      PROVE  FALSE
  BY <1>3, <1>4, <1>5 DEF RenderOf, Working
<1> QED
  BY <1>1, <1>2, <1>4, <1>5

\* A working attempt's step, after which it stands where its call says.
LEMMA WorkingMoves ==
  ASSUME RepairInv, NEW k \in Replacements, NEW a \in 1..Tries, NEW step \in Steps,
         rendering[k][a].at \in Working, StandsAt(k, a, step),
         UNCHANGED <<shown, observed, inspected, facts>>,
         video' \in [Versions -> Bytes],
         rendition' = rendition \/ \E status \in {"pending", "completed", "failed"} : rendition' = Ended(k, a, status),
         /\ renderCall' \in [Replacements -> Seq(RenderCall)]
         /\ Len(renderCall'[k]) = 1 /\ renderCall'[k][1].attempt = a
         /\ \A l \in Replacements \ {k} : renderCall'[l] = renderCall[l],
         /\ revised' \in Seq([plan : RepairPlan, qa : Bytes]) /\ Len(revised') = Len(revised)
         /\ revised'[k].plan = revised[k].plan
         /\ \A l \in (1..shown) \ {k} : revised'[l] = revised[l],
         \/ step = "gone" \/ (step = "verified" /\ renderCall'[k][1].status = "running" /\ revised'[k].qa # "none")
         \/ (step = "closed" /\ renderCall'[k][1].status = "completed" /\ revised'[k].qa # "none"),
         revised'[k].qa # "none" => renderCall'[k][1].status # "failed",
         rendition'[k].status = "completed" => revised'[k].qa # "none" /\ renderCall'[k][1].status = "completed"
  PROVE  RepairInv'
<1> USE RepairNumbers
<1>1. /\ rendering' \in [Replacements -> [1..Tries -> Standing]]
      /\ \A l \in Replacements \ {k} : rendering'[l] = rendering[l]
      /\ \A b \in (1..Tries) \ {a} : rendering'[k][b] = rendering[k][b]
      /\ rendering'[k][a].at = step
  BY Moves
<1>2. /\ k \in 1..shown /\ k \in Versions /\ k \in Nat /\ shown \in Nat /\ ~(k > shown)
      /\ \A b \in (1..Tries) \ {a} : rendering'[k][b].at \notin Working
  BY <1>1, Alone
<1>3. /\ rendition' \in [Versions -> Version \cup {NoVersion}]
      /\ rendition'[k] \in Version
      /\ \A l \in Versions \ {k} : rendition'[l] = rendition[l]
      /\ rendition'[k].scene = rendition[k].scene
      /\ rendition[k].status = "completed" => rendition'[k] = rendition[k]
  <2>1. CASE rendition' = rendition
    BY <2>1, <1>2, RepairLengths DEF RepairInv, RepairTypes
  <2>2. CASE \E status \in {"pending", "completed", "failed"} : rendition' = Ended(k, a, status)
    BY <1>2, <2>2, EndedIs
  <2> QED
    BY <2>1, <2>2
<1>4. RepairTypes'
  BY <1>1, <1>3 DEF RepairInv, RepairTypes
<1>5. ASSUME NEW b \in 1..Tries
      PROVE  /\ rendering'[k][b].at \in {"rendering", "rendered", "measured", "verified", "closed"}
                   => Len(renderCall'[k]) = 1 /\ renderCall'[k][1].attempt = b
             /\ rendering'[k][b].at \in {"rendering", "rendered", "measured", "verified"}
                   => renderCall'[k][1].status = "running"
             /\ rendering'[k][b].at = "closed" => renderCall'[k][1].status = "completed"
             /\ rendering'[k][b].at = "measured" => rendering'[k][b].bytes # "none"
             /\ rendering'[k][b].at \in {"verified", "closed"} => revised'[k].qa # "none"
             /\ rendering'[k][b].at \in {"rendering", "rendered", "measured"} => revised'[k].qa = "none"
  <2>1. CASE b = a
    BY <2>1, <1>1
  <2>2. CASE b # a
    BY <2>2, <1>2 DEF Working
  <2> QED
    BY <2>1, <2>2
<1>6. RenderOf(k)'
  BY <1>2, <1>5 DEF RenderOf
<1>7. EvidenceOf(k)'
  BY <1>5 DEF EvidenceOf
<1>8. revised' = revised \/ (Len(revised') = Len(revised)
                             /\ (\A l \in (1..shown) \ {k} : revised'[l] = revised[l])
                             /\ revised'[k].plan = revised[k].plan)
  OBVIOUS
<1> QED
  BY <1>1, <1>2, <1>3, <1>4, <1>6, <1>7, <1>8, WithinVersion

LEMMA RevisedStays ==
  ASSUME RepairInv, revised' = revised
  PROVE  /\ revised' \in Seq([plan : RepairPlan, qa : Bytes]) /\ Len(revised') = Len(revised)
         /\ \A l \in 1..shown : revised'[l] = revised[l]
  BY DEF RepairInv, RepairTypes

LEMMA FailSteps ==
  ASSUME RepairInv, NEW k \in Replacements, NEW a \in 1..Tries,
         RenderFails(k, a) \/ VerifyOutputFails(k, a)
  PROVE  RepairInv'
<1>1. /\ UNCHANGED <<shown, observed, inspected, revised, facts>>
      /\ renderCall' = Closed(k, a, "failed") /\ StandsAt(k, a, "gone")
      /\ rendering[k][a].at \in {"rendering", "rendered", "measured"}
      /\ \E status \in {"pending", "completed", "failed"} : status # "completed" /\ rendition' = Ended(k, a, status)
  BY DEF RenderFails, VerifyOutputFails
<1>2. rendering[k][a].at \in Working /\ "gone" \in Steps
  BY <1>1 DEF Working, Steps
<1>3. video' \in [Versions -> Bytes]
  BY DEF RenderFails, VerifyOutputFails, RepairInv, RepairTypes, Bytes, Unmeasured
<1>4. /\ k \in 1..shown /\ Len(renderCall[k]) = 1 /\ renderCall[k][1].attempt = a
      /\ renderCall[k][1].status = "running"
  BY <1>1, <1>2, Alone
<1>5. EvidenceOf(k)
  BY <1>4 DEF RepairInv
<1>6. revised[k].qa = "none" /\ rendition[k].status # "completed"
  BY <1>1, <1>5 DEF EvidenceOf
<1>7. rendition'[k].status # "completed"
  BY <1>1, <1>4, <1>6, EndedIs
<1>8. /\ renderCall' \in [Replacements -> Seq(RenderCall)]
      /\ Len(renderCall'[k]) = 1 /\ renderCall'[k][1].attempt = a
      /\ \A l \in Replacements \ {k} : renderCall'[l] = renderCall[l]
  BY <1>1, <1>4, Closes
<1> QED
  BY <1>1, <1>2, <1>3, <1>4, <1>6, <1>7, <1>8, RevisedStays, WorkingMoves

LEMMA CloseStep ==
  ASSUME RepairInv, NEW k \in Replacements, NEW a \in 1..Tries, CloseCall(k, a)
  PROVE  RepairInv'
<1>1. /\ UNCHANGED <<shown, rendition, video, observed, inspected, revised, facts>>
      /\ renderCall' = Closed(k, a, "completed") /\ StandsAt(k, a, "closed")
      /\ rendering[k][a].at = "verified" /\ "closed" \in Steps /\ rendering[k][a].at \in Working
  BY DEF CloseCall, Steps, Working
<1>2. /\ k \in 1..shown /\ Len(renderCall[k]) = 1 /\ renderCall[k][1].attempt = a
      /\ renderCall[k][1].status = "running"
  BY <1>1, Alone
<1>3. EvidenceOf(k) /\ video' \in [Versions -> Bytes]
  BY <1>1, <1>2 DEF RepairInv, RepairTypes
<1>4. revised[k].qa # "none"
  BY <1>1, <1>3 DEF EvidenceOf
<1>5. /\ renderCall' \in [Replacements -> Seq(RenderCall)]
      /\ Len(renderCall'[k]) = 1 /\ renderCall'[k][1].attempt = a
      /\ renderCall'[k][1].status = "completed"
      /\ \A l \in Replacements \ {k} : renderCall'[l] = renderCall[l]
  BY <1>1, <1>2, Closes
<1> QED
  BY <1>1, <1>2, <1>3, <1>4, <1>5, RevisedStays, WorkingMoves

LEMMA CompleteStep ==
  ASSUME RepairInv, NEW k \in Replacements, NEW a \in 1..Tries, Complete(k, a)
  PROVE  RepairInv'
<1>1. /\ UNCHANGED <<shown, video, observed, inspected, revised, renderCall, facts>>
      /\ rendition' = Ended(k, a, "completed") /\ StandsAt(k, a, "gone")
      /\ rendering[k][a].at = "closed" /\ "gone" \in Steps /\ rendering[k][a].at \in Working
  BY DEF Complete, Steps, Working
<1>2. k \in 1..shown /\ Len(renderCall[k]) = 1 /\ renderCall[k][1].attempt = a
  BY <1>1, Alone
<1>3. EvidenceOf(k) /\ RenderOf(k) /\ video' \in [Versions -> Bytes]
      /\ renderCall' \in [Replacements -> Seq(RenderCall)]
  BY <1>1, <1>2 DEF RepairInv, RepairTypes
<1>4. revised[k].qa # "none" /\ renderCall[k][1].status = "completed"
  BY <1>1, <1>3 DEF EvidenceOf, RenderOf
<1> QED
  BY <1>1, <1>2, <1>3, <1>4, RevisedStays, WorkingMoves

LEMMA VerifyStep ==
  ASSUME RepairInv, NEW k \in Replacements, NEW a \in 1..Tries, VerifyOutput(k, a)
  PROVE  RepairInv'
<1>1. /\ UNCHANGED <<shown, rendition, video, observed, inspected, renderCall, facts>>
      /\ revised' = [revised EXCEPT ![k].qa = IF revised[k].qa = "none" THEN rendering[k][a].bytes ELSE revised[k].qa]
      /\ StandsAt(k, a, "verified")
      /\ rendering[k][a].at = "measured" /\ "verified" \in Steps /\ rendering[k][a].at \in Working
  BY DEF VerifyOutput, Steps, Working, Unmeasured
<1>2. /\ k \in 1..shown /\ Len(renderCall[k]) = 1 /\ renderCall[k][1].attempt = a
      /\ renderCall[k][1].status = "running"
  BY <1>1, Alone
<1>3. EvidenceOf(k) /\ RenderOf(k) /\ video' \in [Versions -> Bytes]
      /\ renderCall' \in [Replacements -> Seq(RenderCall)] /\ rendering[k][a] \in Standing
  BY <1>1, <1>2 DEF RepairInv, RepairTypes
<1>4. revised[k].qa = "none" /\ rendition[k].status # "completed" /\ rendering[k][a].bytes # "none"
  BY <1>1, <1>2, <1>3 DEF EvidenceOf, RenderOf
<1>5. /\ revised' \in Seq([plan : RepairPlan, qa : Bytes]) /\ Len(revised') = Len(revised)
      /\ revised'[k].plan = revised[k].plan /\ revised'[k].qa # "none"
      /\ \A l \in (1..shown) \ {k} : revised'[l] = revised[l]
  <2> DEFINE row == [revised[k] EXCEPT !.qa = rendering[k][a].bytes]
  <2>1. revised[k] \in [plan : RepairPlan, qa : Bytes] /\ DOMAIN revised = 1..shown /\ Len(revised) = shown
        /\ revised \in Seq([plan : RepairPlan, qa : Bytes]) /\ shown \in Nat
    BY <1>2, RepairLengths DEF RepairInv, RepairTypes
  <2>2. row \in [plan : RepairPlan, qa : Bytes] /\ row.plan = revised[k].plan /\ row.qa # "none"
    BY <1>3, <1>4, <2>1 DEF Standing
  <2>3. revised' = [revised EXCEPT ![k] = row]
    BY <1>1, <1>4
  <2> HIDE DEF row
  <2>4. revised' \in Seq([plan : RepairPlan, qa : Bytes]) /\ Len(revised') = Len(revised)
    BY <1>2, <2>1, <2>2, <2>3, ExceptSeq
  <2>5. revised'[k] = row /\ \A l \in (1..shown) \ {k} : revised'[l] = revised[l]
    BY <1>2, <2>1, <2>3
  <2> QED
    BY <2>2, <2>4, <2>5
<1> QED
  BY <1>1, <1>2, <1>3, <1>4, <1>5, WorkingMoves

\* A confirmation makes the next version: of what the person saw and had before them.
LEMMA ConfirmStep == ASSUME RepairInv, Confirm PROVE RepairInv'
<1> USE RepairNumbers
<1>1. /\ UNCHANGED <<video, observed, inspected, rendering, renderCall, facts>>
      /\ inspected.action = "render_revision"
      /\ Observable(inspected.seen) /\ Plan(inspected.seen) = inspected
  BY DEF Confirm
<1>2. inspected # NoPlan /\ inspected \in RepairPlan /\ inspected.seen \in observed
  <2>1. NoPlan.action = "none"
    BY DEF NoPlan
  <2> QED
    BY <1>1, <2>1 DEF RepairInv, RepairTypes, InspectedSeen
<1>3. /\ inspected.predecessor = rendition[shown] /\ Left # 0
      /\ inspected.seen \in Observation /\ inspected.seen.job = shown /\ rendition[shown].status = "completed"
      /\ \A t \in inspected.candidate : /\ t \in Corrections(rendition[shown].scene, inspected.seen.finding)
                                         /\ Adoptable(rendition[shown].scene, t)
  BY <1>1, <1>2, PlanType DEF Observable, Completed, RepairInv, RepairTypes
<1> DEFINE k == shown + 1
           record == [plan |-> inspected, qa |-> "none"]
<1>4. /\ k \in Versions /\ k \in Replacements /\ k \in Nat /\ shown \in Nat /\ shown \in Versions
      /\ Len(revised) = shown /\ DOMAIN revised = 1..shown /\ rendition[shown] \in Version
  BY <1>3, RepairLengths DEF Left, RepairInv, RepairTypes
<1>5. PICK scene \in inspected.candidate :
        /\ revised' = Append(revised, record)
        /\ rendition' = [rendition EXCEPT ![k] = [status |-> "pending", attempt |-> 0, scene |-> scene]]
        /\ shown' = k
  BY <1>4 DEF Confirm, Unmeasured
<1>6. rendition[shown].scene \in Scenes /\ inspected.seen.finding \in Findings
  BY <1>3, <1>4 DEF Version, Observation
<1>7. /\ scene \in Scenes /\ Presentable(scene)
      /\ Cardinality({g \in DOMAIN rendition[shown].scene : rendition[shown].scene[g] # scene[g]}) = 1
      /\ inspected.seen.finding = "duplicate_text" => ~(scene.subtitles = "timed" /\ scene.text = "caption")
      /\ inspected.seen.finding = "text_overlay" => scene.panel
  BY <1>3, <1>6, CorrectionIs DEF Adoptable
<1>8. record \in [plan : RepairPlan, qa : Bytes] /\ record.plan = inspected /\ record.qa = "none"
  BY <1>2 DEF Bytes
<1> HIDE DEF record
<1>9. /\ revised' \in Seq([plan : RepairPlan, qa : Bytes]) /\ Len(revised') = k
      /\ revised'[k] = record /\ \A l \in 1..shown : revised'[l] = revised[l]
  <2>1. revised \in Seq([plan : RepairPlan, qa : Bytes])
    BY DEF RepairInv, RepairTypes
  <2> QED
    BY <1>4, <1>5, <1>8, <2>1, AppendProperties
<1> DEFINE row == [status |-> "pending", attempt |-> 0, scene |-> scene]
<1>10. row \in Version /\ row.status = "pending" /\ row.scene = scene
  BY <1>7 DEF Version
<1> HIDE DEF row
<1>11. /\ rendition' \in [Versions -> Version \cup {NoVersion}]
       /\ rendition'[k] = row
       /\ \A l \in Versions \ {k} : rendition'[l] = rendition[l]
  BY <1>4, <1>5, <1>10 DEF row, RepairInv, RepairTypes
<1>12. \A l \in Nat : l <= k => l = k \/ l <= shown
  BY <1>4
<1>13. RepairTypes'
  <2>1. \A l \in Versions : l <= shown' => rendition'[l] \in Version
    BY <1>4, <1>5, <1>10, <1>11, <1>12 DEF RepairInv, RepairTypes
  <2> QED
    BY <1>1, <1>4, <1>5, <1>9, <1>11, <2>1 DEF RepairInv, RepairTypes
<1>14. \A l \in 1..shown : l - 1 # k /\ l # k /\ l \in Versions /\ l - 1 \in Versions
  BY <1>4, RepairLengths DEF RepairInv
<1>15. 1..k = (1..shown) \cup {k} /\ k - 1 = shown /\ shown # k
  BY <1>4
<1>16. OneLine'
  <2>1. DOMAIN revised' = 1..k
    BY <1>4, <1>9
  <2>2. ASSUME NEW l \in 1..shown
        PROVE  /\ revised'[l].plan.seen.job = l - 1 /\ revised'[l].plan.seen \in observed'
               /\ rendition'[l - 1].status = "completed" /\ rendition'[l - 1] = revised'[l].plan.predecessor
    BY <1>1, <1>4, <1>9, <1>11, <1>14 DEF RepairInv, OneLine
  <2>3. /\ revised'[k].plan.seen.job = k - 1 /\ revised'[k].plan.seen \in observed'
        /\ rendition'[k - 1].status = "completed" /\ rendition'[k - 1] = revised'[k].plan.predecessor
    BY <1>1, <1>2, <1>3, <1>4, <1>8, <1>9, <1>11, <1>15
  <2>4. shown' = Len(revised') /\ shown' <= Revisions
    BY <1>4, <1>5, <1>9
  <2> QED
    BY <1>15, <2>1, <2>2, <2>3, <2>4 DEF OneLine
<1>17. \A l \in 1..shown' : Corrected(l)'
  <2>1. ASSUME NEW l \in 1..shown
        PROVE  Corrected(l)'
    <3>1. rendition'[l].scene = rendition[l].scene /\ rendition'[l - 1].scene = rendition[l - 1].scene
          /\ revised'[l].plan = revised[l].plan
      BY <1>9, <1>11, <1>14
    <3>2. Corrected(l)
      BY DEF RepairInv
    <3> QED
      BY <3>1, <3>2 DEF Corrected
  <2>2. ASSUME NEW l \in 1..shown', l = k
        PROVE  Corrected(l)'
    <3>1. rendition'[l].scene = scene /\ rendition'[l - 1].scene = rendition[shown].scene
          /\ revised'[l].plan = inspected
      BY <2>2, <1>4, <1>8, <1>9, <1>10, <1>11, <1>15
    <3> QED
      BY <1>7, <3>1 DEF Corrected
  <2> QED
    BY <1>5, <1>15, <2>1, <2>2
<1>18. RenderOf(k) /\ k > shown
  BY <1>4 DEF RepairInv
<1>19. Len(renderCall[k]) = 0 /\ \A a \in 1..Tries : rendering[k][a].at = "waiting"
  BY <1>18 DEF RenderOf
<1>20. ASSUME NEW l \in Replacements
       PROVE  RenderOf(l)'
  <2>1. RenderOf(l) /\ l \in Nat
    BY DEF RepairInv
  <2>2. l > shown' => l > shown
    BY <1>4, <1>5, <2>1
  <2> QED
    BY <1>1, <2>1, <2>2 DEF RenderOf
<1>21. ASSUME NEW l \in 1..shown'
       PROVE  EvidenceOf(l)'
  <2>1. CASE l \in 1..shown
    <3>1. EvidenceOf(l)
      BY <2>1 DEF RepairInv
    <3> QED
      BY <1>1, <1>9, <1>11, <1>14, <2>1, <3>1 DEF EvidenceOf
  <2>2. CASE l = k
    <3>1. revised'[l].qa = "none" /\ rendition'[l].status = "pending"
          /\ \A a \in 1..Tries : rendering'[l][a].at = "waiting"
      BY <1>1, <1>8, <1>9, <1>10, <1>11, <1>19, <2>2
    <3> QED
      BY <3>1 DEF EvidenceOf
  <2> QED
    BY <1>5, <1>15, <2>1, <2>2
<1>22. InspectedSeen'
  BY <1>1 DEF RepairInv, InspectedSeen
<1> HIDE DEF k
<1> QED
  BY <1>13, <1>16, <1>17, <1>20, <1>21, <1>22 DEF RepairInv

LEMMA RepairBegins ==
  ASSUME NEW s \in Scenes, RepairStart(s)
  PROVE  RepairInv
<1> USE RepairNumbers
<1>1. /\ shown = 0 /\ observed = {} /\ inspected = NoPlan /\ revised = <<>>
      /\ 0 \in Versions
  BY DEF RepairStart
<1> DEFINE row == [status |-> "completed", attempt |-> 1, scene |-> s]
<1>2. row \in Version
  BY DEF Version
<1>3. rendition \in [Versions -> Version \cup {NoVersion}] /\ rendition[0] = row
  BY <1>1, <1>2 DEF RepairStart
<1>4. video \in [Versions -> Bytes]
  BY DEF RepairStart, Bytes, Unmeasured
<1>5. rendering \in [Replacements -> [1..Tries -> Standing]]
      /\ \A k \in Replacements, a \in 1..Tries : rendering[k][a].at = "waiting"
  BY DEF RepairStart, Standing, Steps, Bytes, Unmeasured
<1>6. renderCall \in [Replacements -> Seq(RenderCall)] /\ \A k \in Replacements : renderCall[k] = <<>>
  BY DEF RepairStart
<1>7. facts \in [inputs : Nat, blocked : BOOLEAN, flips : Nat]
  BY DEF RepairStart
<1>8. revised \in Seq([plan : RepairPlan, qa : Bytes]) /\ Len(revised) = 0 /\ DOMAIN revised = {}
  BY <1>1
<1>9. \A k \in Versions : k <= shown => rendition[k] \in Version
  BY <1>1, <1>2, <1>3
<1>10. RepairTypes
  BY <1>1, <1>3, <1>4, <1>5, <1>6, <1>7, <1>8, <1>9 DEF RepairTypes
<1>11. OneLine
  BY <1>1, <1>8 DEF OneLine
<1>12. ASSUME NEW k \in Replacements
       PROVE  RenderOf(k)
  <2>1. renderCall[k] = <<>> /\ Len(renderCall[k]) = 0
    BY <1>6
  <2>2. \A a \in 1..Tries : rendering[k][a].at = "waiting"
    BY <1>5
  <2> QED
    BY <2>1, <2>2 DEF RenderOf
<1>13. 1..shown = {} /\ InspectedSeen
  BY <1>1 DEF InspectedSeen
<1> QED
  BY <1>10, <1>11, <1>12, <1>13 DEF RepairInv

LEMMA RepairStep ==
  ASSUME RepairInv, RepairNext
  PROVE  RepairInv'
<1> USE RepairNumbers
<1>1. CASE NoteFinding \/ Inspect \/ Confirm \/ Withdraw \/ FactsChange
  BY <1>1, NoteStep, InspectStep, ConfirmStep, WithdrawStep, FactsStep
<1>2. ASSUME NEW k \in Versions, Overwrite(k)
      PROVE  RepairInv'
  BY <1>2, OverwriteStep
<1>3. ASSUME NEW k \in 1..Len(revised), TakeUp(k) \/ Recover(k)
      PROVE  RepairInv'
  BY <1>3, RepairLengths, TakeUpStep, RecoverStepR DEF RepairInv
<1>4. ASSUME NEW k \in Replacements, NEW a \in 1..Tries,
             ReserveRender(k, a) \/ Render(k, a) \/ RenderFails(k, a) \/ Measure(k, a)
             \/ VerifyOutput(k, a) \/ VerifyOutputFails(k, a) \/ CloseCall(k, a) \/ Complete(k, a) \/ Die(k, a)
      PROVE  RepairInv'
  BY <1>4, ReserveStep, AttemptSteps, FailSteps, VerifyStep, CloseStep, CompleteStep
<1> QED
  BY <1>1, <1>2, <1>3, <1>4 DEF RepairNext

LEMMA RepairStays == RepairInv /\ UNCHANGED repairVars => RepairInv'
<1> SUFFICES ASSUME RepairInv, UNCHANGED repairVars PROVE RepairInv'
  OBVIOUS
<1>1. UNCHANGED <<shown, rendition, video, observed, inspected, revised, rendering, renderCall, facts>>
  BY DEF repairVars
<1>2. RepairTypes' /\ LineKept /\ InspectedSeen'
  BY <1>1 DEF RepairInv, RepairTypes, LineKept, InspectedSeen
<1> QED
  BY <1>1, <1>2, OtherMoves

LEMMA RepairMeans == RepairInv => RepairSound
<1> SUFFICES ASSUME RepairInv PROVE RepairSound
  OBVIOUS
<1>1. DOMAIN revised = 1..shown
  BY RepairLengths DEF RepairInv
<1>2. ASSUME NEW k \in 1..shown
      PROVE  RenderedOnce(k)
  <2>1. RenderOf(k) /\ EvidenceOf(k) /\ k \in Replacements
    BY RepairLengths DEF RepairInv
  <2>2. renderCall[k] \in Seq(RenderCall) /\ Len(renderCall[k]) \in Nat
    BY <2>1 DEF RepairInv, RepairTypes
  <2>3. Len(renderCall[k]) = 1 => DOMAIN renderCall[k] = {1} /\ renderCall[k] # <<>>
    BY <2>2
  <2>4. revised[k].qa # "none" => Calls(k, "failed") = {} /\ renderCall[k] # <<>>
    BY <2>1, <2>3 DEF EvidenceOf, Calls
  <2>5. rendition[k].status = "completed" => revised[k].qa # "none" /\ Calls(k, "completed") # {}
    BY <2>1, <2>3 DEF EvidenceOf, Calls
  <2> QED
    BY <2>1, <2>4, <2>5 DEF RenderedOnce, RenderOf, Unmeasured
<1> QED
  BY <1>1, <1>2 DEF RepairSound, RepairInv

\* A correction is one line of versions, each of what a person saw and confirmed and
\* rendered once, however attempts, crashes and people interleave (presentation_repair.py).
THEOREM RepairsSound == RepairSpec => []RepairSound
<1>1. RepairInv /\ [RepairNext]_repairVars => RepairInv'
  BY RepairStep, RepairStays
<1>2. RepairInit => RepairInv
  BY RepairBegins DEF RepairInit
<1> QED
  BY <1>1, <1>2, RepairMeans, PTL DEF RepairSpec
-----------------------------------------------------------------------------
(* The machines side by side (MCParts): which one a behaviour is of is      *)
(* never changed, and its steps leave the others where they rest.           *)

PartsInv ==
    /\ DeskInv
    /\ asked.rule = "library" => LibraryInv
    /\ asked.rule = "repair" => RepairInv
    /\ asked.rule = "collection" => SeriesInv

LEMMA PartsStart ==
  ASSUME PartsInit
  PROVE  PartsInv
<1>1. DeskInv
  BY InitDesk DEF PartsInit, DeskRests, AskDesk
<1>2. ASSUME asked.rule = "library"
      PROVE  LibraryInv
  BY <1>2, LibraryStart DEF PartsInit, Machines, AskLibrary, AskDesk, AskRepair, AskCollection, Ask
<1>3. ASSUME asked.rule = "repair"
      PROVE  RepairInv
  <2>1. AskRepair
    BY <1>3 DEF PartsInit, Machines, AskLibrary, AskDesk, AskCollection, Ask
  <2>2. PICK s \in Correctable : RepairStart(s)
    BY <2>1 DEF AskRepair
  <2> QED
    BY <2>2, RepairBegins DEF Correctable
<1>4. ASSUME asked.rule = "collection"
      PROVE  SeriesInv
  BY <1>4, SeriesStart DEF PartsInit, Machines, AskLibrary, AskDesk, AskRepair, AskCollection, Ask
<1> QED
  BY <1>1, <1>2, <1>3, <1>4 DEF PartsInv

\* A rule's answer leaves the question.
LEMMA AnswerOnly ==
  ASSUME Answer
  PROVE  UNCHANGED asked
<1> USE DEF AnswersOneOf
<1>1. Assemble => UNCHANGED asked
  BY DEF Assemble, AssembleMaster, AssembleScenes
<1>2. PlanSeries => UNCHANGED asked
  BY DEF PlanSeries
<1>3. SelectReference => UNCHANGED asked
  BY DEF SelectReference
<1>4. Route => UNCHANGED asked
  BY DEF Route
<1>5. Suggest => UNCHANGED asked
  BY DEF Suggest
<1>6. Deliver => UNCHANGED asked
  BY DEF Deliver
<1>7. Compose => UNCHANGED asked
  BY DEF Compose
<1>8. Verify => UNCHANGED asked
  BY DEF Verify
<1>9. Observe => UNCHANGED asked
  BY DEF Observe
<1>10. TranscribeSpeech => UNCHANGED asked
  BY DEF TranscribeSpeech
<1>11. Listen => UNCHANGED asked
  BY DEF Listen
<1>12. DescribeFrame => UNCHANGED asked
  BY DEF DescribeFrame
<1>13. Embed => UNCHANGED asked
  BY DEF Embed
<1>14. PlanScenes => UNCHANGED asked
  BY DEF PlanScenes
<1>15. Synthesize => UNCHANGED asked
  BY DEF Synthesize
<1>16. Talk => UNCHANGED asked
  BY DEF Talk
<1> QED
  BY <1>1, <1>2, <1>3, <1>4, <1>5, <1>6, <1>7, <1>8, <1>9, <1>10, <1>11, <1>12, <1>13, <1>14, <1>15, <1>16 DEF Answer

LEMMA PartsStep ==
  ASSUME PartsInv, [PartsNext]_<<callVars, libraryVars, deskVars, repairVars, seriesVars>>
  PROVE  /\ PartsInv' /\ UNCHANGED asked
         /\ UNCHANGED libraryVars \/ (asked.rule = "library" /\ LibraryNext)
<1> USE DEF PartsInv
<1>1. UNCHANGED asked
  BY AnswerOnly DEF PartsNext, callVars
<1>2. UNCHANGED libraryVars \/ (asked.rule = "library" /\ LibraryNext)
  BY DEF PartsNext
<1>3. DeskInv'
  <2>1. [DeskNext]_deskVars
    BY DEF PartsNext
  <2> QED
    BY <2>1, NextDesk
<1>4. ASSUME asked.rule = "library"
      PROVE  LibraryInv'
  BY <1>2, <1>4, LibraryStep, LibraryStays
<1>5. ASSUME asked.rule = "repair"
      PROVE  RepairInv'
  <2>1. RepairNext \/ UNCHANGED repairVars
    BY DEF PartsNext
  <2> QED
    BY <1>5, <2>1, RepairStep, RepairStays
<1>6. ASSUME asked.rule = "collection"
      PROVE  SeriesInv'
  <2>1. SeriesNext \/ UNCHANGED seriesVars
    BY DEF PartsNext
  <2> QED
    BY <1>6, <2>1, SeriesStep, SeriesStays
<1> QED
  BY <1>1, <1>2, <1>3, <1>4, <1>5, <1>6

LEMMA PartsAlways == PartsSpec => []PartsInv
<1>1. PartsInit => PartsInv
  BY PartsStart
<1>2. PartsInv /\ [PartsNext]_<<callVars, libraryVars, deskVars, repairVars, seriesVars>> => PartsInv'
  BY PartsStep
<1> QED
  BY <1>1, <1>2, PTL DEF PartsSpec

\* What the clips of a video and their index owe to one another, whatever is cut,
\* transcribed, described, imported and assessed meanwhile (LibrarySound).
THEOREM LibraryStands == PartsSpec => []LibraryHolds
<1>1. PartsInv => LibraryHolds
  BY LibraryMeans DEF PartsInv, LibraryHolds
<1> QED
  BY <1>1, PartsAlways, PTL

\* A handler's late result leaves what others wrote to a clip meanwhile.
THEOREM LateResultsKeep == PartsSpec => OthersKept
<1>1. PartsInv /\ [PartsNext]_<<callVars, libraryVars, deskVars, repairVars, seriesVars>>
        => [asked.rule = "library" => KeepsOthers]_libraryVars
  <2>1. SUFFICES ASSUME PartsInv, [PartsNext]_<<callVars, libraryVars, deskVars, repairVars, seriesVars>>,
                        asked.rule = "library"
                 PROVE  KeepsOthers \/ UNCHANGED libraryVars
    OBVIOUS
  <2>2. LibraryInv
    BY <2>1 DEF PartsInv
  <2> QED
    BY <2>1, <2>2, PartsStep, KeepsStep
<1> QED
  BY <1>1, PartsAlways, PTL DEF PartsSpec, OthersKept

\* A rendered run's corrections are one line, each of what was confirmed (RepairSound).
THEOREM RepairsStand == PartsSpec => []RepairHolds
<1>1. PartsInv => RepairHolds
  BY RepairMeans DEF PartsInv, RepairHolds
<1> QED
  BY <1>1, PartsAlways, PTL

\* What is assembled of a Talking series is what was reviewed of it (CollectionSound).
THEOREM CollectionStands == PartsSpec => []CollectionHolds
<1>1. PartsInv => CollectionHolds
  BY SeriesMeans DEF PartsInv, CollectionHolds
<1> QED
  BY <1>1, PartsAlways, PTL
=============================================================================
