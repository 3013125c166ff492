-------------------------- MODULE RowQueriesProofs --------------------------
(***************************************************************************)
(* Theorems about RowQueries, for any rows, pages and caps, and about the  *)
(* sums that it and DeleteLedger are written with: what a fold of the      *)
(* library computes is found by induction over the subsets of its domain.  *)
(***************************************************************************)
EXTENDS RowQueries, FiniteSetTheorems, FunctionTheorems, WellFoundedInduction, TLAPS

-----------------------------------------------------------------------------
(* Sums.  F is a sum of f over the subsets of S when taking any element    *)
(* out of a subset takes its summand out of the sum.                       *)

Adds(F, f, S) ==
  /\ F \in [SUBSET S -> Nat]
  /\ F[{}] = 0
  /\ \A s \in SUBSET S : \A x \in s : F[s] = f[x] + F[s \ {x}]

(* The folds of the library, for a sum, with the elements in the order in  *)
(* which CHOOSE takes them.                                                *)
FoldOver(f, S) ==
  LET iter[s \in SUBSET S] ==
        IF s = {} THEN 0
        ELSE LET x == CHOOSE y \in s : TRUE
             IN  f[x] + iter[s \ {x}]
  IN  iter[S]

(* There is one sum: the fold, whatever its order, is it.  A smallest      *)
(* subset on which they differ is not empty, and does not differ without   *)
(* the element that the fold takes first.                                  *)
LEMMA FoldIs ==
  ASSUME NEW S, IsFiniteSet(S), NEW f, NEW F, Adds(F, f, S)
  PROVE  FoldOver(f, S) = F[S]
<1> DEFINE Fits(g) == g = [s \in SUBSET S |-> IF s = {} THEN 0
                                              ELSE LET x == CHOOSE y \in s : TRUE
                                                   IN  f[x] + g[s \ {x}]]
<1> DEFINE Iter == CHOOSE g : Fits(g)
<1>1. FoldOver(f, S) = Iter[S]
  BY DEF FoldOver
<1>2. Fits(F)
  <2>1. \A s \in SUBSET S : s # {} => (CHOOSE y \in s : TRUE) \in s
    OBVIOUS
  <2> QED BY <2>1 DEF Adds
<1>3. Fits(Iter)
  <2> HIDE DEF Fits
  <2> QED BY <1>2
<1>4. \A s \in SUBSET S : Iter[s] = F[s]
  <2>1. SUFFICES ASSUME NEW s \in {t \in SUBSET S : Iter[t] # F[t]},
                        \A t \in {u \in SUBSET S : Iter[u] # F[u]} : ~(<<t, s>> \in StrictSubsetOrdering(S))
                 PROVE  FALSE
    <3> HIDE DEF Iter
    <3> DEFINE T == {t \in SUBSET S : Iter[t] # F[t]}
    <3>1. FiniteSubsetsOf(S) = SUBSET S
      BY FS_FiniteSubsetsOfFinite
    <3>2. T \subseteq SUBSET S
      OBVIOUS
    <3>3. IsWellFoundedOn(StrictSubsetOrdering(S), SUBSET S)
      BY FS_StrictSubsetOrderingWellFounded, <3>1
    <3> HIDE DEF T
    <3>4. T # {} => \E x \in T : \A y \in T : ~(<<y, x>> \in StrictSubsetOrdering(S))
      BY <3>2, <3>3, WFMin
    <3> QED BY <3>4 DEF T
  <2>2. s # {}
    BY <1>3, <2>1 DEF Adds
  <2> DEFINE x == CHOOSE y \in s : TRUE
  <2>3. x \in s
    BY <2>2
  <2>4. Iter[s] = f[x] + Iter[s \ {x}]
    BY <1>3, <2>2
  <2> HIDE DEF x, Iter
  <2>5. <<s \ {x}, s>> \in StrictSubsetOrdering(S)
    BY <2>3 DEF StrictSubsetOrdering
  <2>6. Iter[s \ {x}] = F[s \ {x}]
    BY <2>5, <2>1
  <2> QED BY <2>1, <2>3, <2>4, <2>6 DEF Adds
<1> QED BY <1>1, <1>4

(* Every summand as a set of units, so that the sum is their number.       *)
Units(f, S) == {p \in S \X Nat : p[2] \in 1..f[p[1]]}

Summands(f, S) == \A x \in S : f[x] \in Nat

LEMMA UnitsOfOne ==
  ASSUME NEW x, NEW n \in Nat
  PROVE  IsFiniteSet({x} \X (1..n)) /\ Cardinality({x} \X (1..n)) = n
<1> DEFINE f == [i \in 1..n |-> <<x, i>>]
<1>1. IsFiniteSet(1..n) /\ Cardinality(1..n) = n
  BY FS_Interval
<1>2. f \in Bijection(1..n, {x} \X (1..n))
  <2>1. f \in [1..n -> {x} \X (1..n)]
    OBVIOUS
  <2>2. \A i, j \in 1..n : f[i] = f[j] => i = j
    OBVIOUS
  <2>3. \A p \in {x} \X (1..n) : \E i \in 1..n : f[i] = p
    OBVIOUS
  <2> HIDE DEF f
  <2> QED BY <2>1, <2>2, <2>3 DEF Bijection, Injection, IsInjective, Surjection
<1> QED BY <1>1, <1>2, FS_Bijection DEF ExistsBijection

LEMMA UnitsFinite ==
  ASSUME NEW S, IsFiniteSet(S), NEW f, Summands(f, S)
  PROVE  IsFiniteSet(Units(f, S)) /\ Cardinality(Units(f, S)) \in Nat
<1> DEFINE g == [x \in S |-> {x} \X (1..f[x])]
           Family == {{x} \X (1..f[x]) : x \in S}
<1>1. g \in Surjection(S, Family)
  <2>1. g \in [S -> Family]
    OBVIOUS
  <2>2. \A T \in Family : \E x \in S : g[x] = T
    OBVIOUS
  <2> HIDE DEF g, Family
  <2> QED BY <2>1, <2>2 DEF Surjection
<1>2. \A T \in Family : IsFiniteSet(T)
  <2> SUFFICES ASSUME NEW x \in S PROVE IsFiniteSet({x} \X (1..f[x]))
    OBVIOUS
  <2> PICK n \in Nat : n = f[x]
    BY DEF Summands
  <2> QED BY UnitsOfOne
<1>3. Units(f, S) = UNION Family
  BY DEF Units, Summands
<1> HIDE DEF g, Family
<1>4. IsFiniteSet(Family)
  BY <1>1, FS_Surjection
<1> QED BY <1>2, <1>3, <1>4, FS_UNION, FS_CardinalityType

LEMMA UnitsAdd ==
  ASSUME NEW S, IsFiniteSet(S), NEW f, Summands(f, S), NEW x \in S
  PROVE  Cardinality(Units(f, S)) = f[x] + Cardinality(Units(f, S \ {x}))
<1> PICK n \in Nat : n = f[x]
  BY DEF Summands
<1> DEFINE U == Units(f, S \ {x})
           V == {x} \X (1..n)
<1>1. IsFiniteSet(U) /\ Cardinality(U) \in Nat
  BY UnitsFinite, FS_RemoveElement DEF Summands
<1>2. IsFiniteSet(V) /\ Cardinality(V) = n
  BY UnitsOfOne
<1>3. Units(f, S) = U \cup V
  BY DEF Units
<1>4. U \cap V = {}
  BY DEF Units
<1> HIDE DEF U, V
<1>5. Cardinality(U \cup V) = Cardinality(U) + Cardinality(V) - Cardinality({})
  BY <1>1, <1>2, <1>4, FS_Union
<1> QED BY <1>1, <1>2, <1>3, <1>5, FS_EmptySet DEF U

(* The equations of a sum: nothing, an element more, the same summands.    *)
LEMMA SumIs ==
  ASSUME NEW S, IsFiniteSet(S), NEW f, Summands(f, S)
  PROVE  FoldOver(f, S) = Cardinality(Units(f, S)) /\ FoldOver(f, S) \in Nat
<1> DEFINE F == [s \in SUBSET S |-> Cardinality(Units(f, s))]
<1>0. \A s \in SUBSET S : IsFiniteSet(s) /\ Summands(f, s)
  BY FS_Subset DEF Summands
<1>1. Adds(F, f, S)
  <2>1. F \in [SUBSET S -> Nat]
    BY <1>0, UnitsFinite
  <2>2. Units(f, {}) = {}
    BY DEF Units
  <2>3. F[{}] = 0
    BY <2>2, FS_EmptySet
  <2>4. ASSUME NEW s \in SUBSET S, NEW x \in s
        PROVE  F[s] = f[x] + F[s \ {x}]
    BY <1>0, UnitsAdd
  <2> HIDE DEF F
  <2> QED BY <2>1, <2>3, <2>4 DEF Adds
<1>2. F[S] = Cardinality(Units(f, S))
  OBVIOUS
<1> HIDE DEF F
<1> QED BY <1>1, <1>2, FoldIs, UnitsFinite

LEMMA SumOfNone ==
  ASSUME NEW f PROVE FoldOver(f, {}) = 0
<1>1. Units(f, {}) = {}
  BY DEF Units
<1> QED BY <1>1, SumIs, FS_EmptySet DEF Summands

LEMMA SumAdds ==
  ASSUME NEW S, IsFiniteSet(S), NEW f, Summands(f, S), NEW x \in S
  PROVE  FoldOver(f, S) = f[x] + FoldOver(f, S \ {x}) /\ FoldOver(f, S \ {x}) \in Nat
<1>1. IsFiniteSet(S \ {x}) /\ Summands(f, S \ {x})
  BY FS_RemoveElement DEF Summands
<1>2. /\ FoldOver(f, S \ {x}) = Cardinality(Units(f, S \ {x}))
      /\ FoldOver(f, S \ {x}) \in Nat
  BY <1>1, SumIs
<1>3. FoldOver(f, S) = Cardinality(Units(f, S))
  BY SumIs
<1> QED BY <1>2, <1>3, UnitsAdd

LEMMA SameSum ==
  ASSUME NEW S, IsFiniteSet(S), NEW f, NEW g, Summands(f, S), \A x \in S : f[x] = g[x]
  PROVE  FoldOver(f, S) = FoldOver(g, S)
<1>1. Units(f, S) = Units(g, S)
  BY DEF Units
<1> QED BY <1>1, SumIs DEF Summands

(* One more for each element of R: the sum grows by their number.          *)
LEMMA SumCounts ==
  ASSUME NEW S, IsFiniteSet(S), NEW f, NEW g, Summands(f, S), NEW R \in SUBSET S,
         \A x \in S : g[x] = IF x \in R THEN f[x] + 1 ELSE f[x]
  PROVE  FoldOver(g, S) = FoldOver(f, S) + Cardinality(R)
<1> DEFINE F == [s \in SUBSET S |-> FoldOver(f, s) + Cardinality(R \cap s)]
<1>0. \A s \in SUBSET S : /\ IsFiniteSet(s) /\ Summands(f, s) /\ FoldOver(f, s) \in Nat
                          /\ IsFiniteSet(R \cap s) /\ Cardinality(R \cap s) \in Nat
  <2> SUFFICES ASSUME NEW s \in SUBSET S
               PROVE  /\ IsFiniteSet(s) /\ Summands(f, s) /\ FoldOver(f, s) \in Nat
                      /\ IsFiniteSet(R \cap s) /\ Cardinality(R \cap s) \in Nat
    OBVIOUS
  <2>1. IsFiniteSet(s) /\ Summands(f, s)
    BY FS_Subset DEF Summands
  <2>2. IsFiniteSet(R \cap s) /\ Cardinality(R \cap s) \in Nat
    BY <2>1, FS_Intersection, FS_CardinalityType
  <2> QED BY <2>1, <2>2, SumIs
<1>1. Adds(F, g, S)
  <2>1. F \in [SUBSET S -> Nat]
    BY <1>0
  <2>2. F[{}] = 0
    <3>1. R \cap {} = {}
      OBVIOUS
    <3> QED BY <3>1, SumOfNone, FS_EmptySet
  <2>3. ASSUME NEW s \in SUBSET S, NEW x \in s
        PROVE  F[s] = g[x] + F[s \ {x}]
    <3> PICK n \in Nat : n = f[x]
      BY DEF Summands
    <3> PICK m \in Nat : m = FoldOver(f, s \ {x})
      BY <1>0
    <3> PICK k \in Nat : k = Cardinality(R \cap (s \ {x}))
      BY <1>0
    <3>1. FoldOver(f, s) = n + m
      BY <1>0, SumAdds
    <3>2. Cardinality(R \cap s) = IF x \in R THEN k + 1 ELSE k
      <4>1. R \cap s = IF x \in R THEN (R \cap (s \ {x})) \cup {x} ELSE R \cap (s \ {x})
        OBVIOUS
      <4>2. IsFiniteSet(R \cap (s \ {x})) /\ x \notin R \cap (s \ {x})
        BY <1>0
      <4> QED BY <4>1, <4>2, FS_AddElement
    <3>3. F[s] = FoldOver(f, s) + Cardinality(R \cap s) /\ F[s \ {x}] = m + k
      OBVIOUS
    <3>4. g[x] = IF x \in R THEN n + 1 ELSE n
      OBVIOUS
    <3> HIDE DEF F
    <3> QED BY <3>1, <3>2, <3>3, <3>4
  <2> HIDE DEF F
  <2> QED BY <2>1, <2>2, <2>3 DEF Adds
<1>2. F[S] = FoldOver(f, S) + Cardinality(R)
  <2>1. R \cap S = R
    OBVIOUS
  <2> QED BY <2>1
<1> HIDE DEF F
<1> QED BY <1>1, <1>2, FoldIs

LEMMA SumOfNoughts ==
  ASSUME NEW S, IsFiniteSet(S), NEW f, \A x \in S : f[x] = 0
  PROVE  FoldOver(f, S) = 0
<1>1. Units(f, S) = {}
  BY DEF Units
<1> QED BY <1>1, SumIs, FS_EmptySet DEF Summands

(* Elements counted by the box each is in: the sum over some boxes is the  *)
(* number of elements in them.                                             *)
InBoxes(M, box, s) == {r \in M : box[r] \in s}
CountsBoxes(f, M, box, B) == \A b \in B : f[b] = Cardinality(InBoxes(M, box, {b}))

LEMMA SumOfBoxes ==
  ASSUME NEW M, IsFiniteSet(M), NEW B, IsFiniteSet(B), NEW box, NEW f, CountsBoxes(f, M, box, B)
  PROVE  FoldOver(f, B) = Cardinality(InBoxes(M, box, B))
<1> USE DEF InBoxes, CountsBoxes
<1> DEFINE In(s) == InBoxes(M, box, s)
           F == [s \in SUBSET B |-> Cardinality(In(s))]
<1>0. \A s : In(s) \in SUBSET M /\ IsFiniteSet(In(s)) /\ Cardinality(In(s)) \in Nat
  <2> TAKE s
  <2>1. In(s) \in SUBSET M
    OBVIOUS
  <2> HIDE DEF In
  <2> QED BY <2>1, FS_Subset, FS_CardinalityType
<1>1. Adds(F, f, B)
  <2>1. F \in [SUBSET B -> Nat]
    BY <1>0
  <2>2. F[{}] = 0
    <3>1. In({}) = {}
      OBVIOUS
    <3> QED BY <3>1, FS_EmptySet
  <2>3. ASSUME NEW s \in SUBSET B, NEW b \in s
        PROVE  F[s] = f[b] + F[s \ {b}]
    <3>1. In(s) = In({b}) \cup In(s \ {b}) /\ In({b}) \cap In(s \ {b}) = {}
      OBVIOUS
    <3>2. f[b] = Cardinality(In({b}))
      OBVIOUS
    <3>3. F[s] = Cardinality(In(s)) /\ F[s \ {b}] = Cardinality(In(s \ {b}))
      OBVIOUS
    <3> HIDE DEF In, F
    <3>4. IsFiniteSet(In({b})) /\ IsFiniteSet(In(s \ {b}))
      BY <1>0
    <3>5. Cardinality(In({b}) \cup In(s \ {b})) =
            Cardinality(In({b})) + Cardinality(In(s \ {b})) - Cardinality(In({b}) \cap In(s \ {b}))
      BY <3>4, FS_Union
    <3>6. Cardinality(In({b})) \in Nat /\ Cardinality(In(s \ {b})) \in Nat
      BY <1>0
    <3>7. Cardinality(In(s)) = Cardinality(In({b})) + Cardinality(In(s \ {b})) - 0
      BY <3>1, <3>5, FS_EmptySet
    <3> PICK k \in Nat, m \in Nat : k = Cardinality(In({b})) /\ m = Cardinality(In(s \ {b}))
      BY <3>6
    <3>8. Cardinality(In(s)) = k + m
      BY <3>7
    <3> QED BY <3>2, <3>3, <3>8
  <2> HIDE DEF F
  <2> QED BY <2>1, <2>2, <2>3 DEF Adds
<1>2. F[B] = Cardinality(In(B))
  OBVIOUS
<1> HIDE DEF F
<1> QED BY <1>1, <1>2, FoldIs

-----------------------------------------------------------------------------
(* RowQueries: types.                                                      *)

Views == [at : {"idle", "page", "count", "done"}, filter : Asks \cup {NoFilter}, page : Nat,
          seen : [QRow -> Nat], total : Nat, approximate : BOOLEAN, quiet : BOOLEAN]
Finders == [at : {"idle", "read", "done"}, ids : SUBSET QRow, missing : SUBSET QRow,
            explained : SUBSET QRow, calm : BOOLEAN]

LEMMA MatchingIsFinite ==
  ASSUME NEW v, present \subseteq QRow
  PROVE  /\ Matching(v) \in SUBSET QRow /\ IsFiniteSet(Matching(v))
         /\ Cardinality(Matching(v)) \in Nat
<1>1. Matching(v) \in SUBSET QRow BY DEF Matching
<1> QED BY <1>1, QueryAssumption, FS_Subset, FS_CardinalityType

LEMMA CellsUsed == CellUsed \subseteq Cell BY QueryAssumption

LEMMA QueryInitTyped == QueryInit => QueryTypeOK
<1> SUFFICES ASSUME QueryInit PROVE QueryTypeOK OBVIOUS
<1> USE DEF QueryInit
<1>1. present \subseteq QRow /\ cell \in [QRow -> Cell] BY DEF Cell
<1>2. column \in [type : ColumnType, filterable : BOOLEAN] BY DEF ColumnType
<1>3. view \in Views BY DEF NoView, Views
<1>4. report.at \in {"none", "done"} /\ report.filter \in Asks \cup {NoFilter} BY DEF NoReport
<1>5. erasing \in [at : {"idle", "deleted"}, ids : SUBSET QRow] /\ events \subseteq QRow OBVIOUS
<1>6. finder \in Finders BY DEF NoFinder, Finders
<1>7. failed \in BOOLEAN OBVIOUS
<1>8. moves \in 0..MaxMoves BY QueryAssumption
<1> HIDE DEF QueryInit
<1> QED BY <1>1, <1>2, <1>3, <1>4, <1>5, <1>6, <1>7, <1>8 DEF QueryTypeOK, Views, Finders

LEMMA QueryStepTyped == QueryTypeOK /\ [QueryNext]_queryVars => QueryTypeOK'
<1> SUFFICES ASSUME QueryTypeOK, [QueryNext]_queryVars PROVE QueryTypeOK' OBVIOUS
<1> USE DEF QueryTypeOK, Views, Finders
<1>0. view \in Views
  OBVIOUS
<1>n. /\ NoView \in Views
  BY DEF NoView
<1>d. Disturbed => view' \in Views
  BY <1>0 DEF Disturbed
<1>c. Counted => moves' \in 0..MaxMoves BY QueryAssumption DEF Counted
<1>1. CASE GivenRows BY <1>1, CellsUsed DEF GivenRows
<1>2. ASSUME NEW r \in QRow, NEW c \in CellUsed, PutRow(r, c) PROVE QueryTypeOK'
  <2>1. cell' \in [QRow -> Cell] /\ present' \subseteq QRow BY <1>2, CellsUsed DEF PutRow
  <2>2. UNCHANGED <<column, report, erasing, events, finder, failed>> /\ Counted /\ Disturbed
    BY <1>2 DEF PutRow
  <2> QED BY <1>c, <1>d, <2>1, <2>2
<1>3. ASSUME NEW type \in ColumnType, NEW filterable \in BOOLEAN, EditColumn(type, filterable)
      PROVE  QueryTypeOK'
  <2>1. column' \in [type : ColumnType, filterable : BOOLEAN] BY <1>3 DEF EditColumn
  <2>2. UNCHANGED <<present, cell, report, erasing, events, finder, failed>> /\ Counted /\ Disturbed
    BY <1>3 DEF EditColumn
  <2> QED BY <1>c, <1>d, <2>1, <2>2
<1>4. ASSUME NEW v \in Asks \cup {NoFilter}, OpenView(v) PROVE QueryTypeOK'
  <2>1. view' \in Views
    BY <1>4, <1>n DEF OpenView
  <2>2. UNCHANGED <<present, cell, column, report, erasing, events, finder, failed>> /\ Counted
    BY <1>4 DEF OpenView
  <2> QED BY <1>c, <2>1, <2>2
<1>5. ASSUME NEW v \in Asks \cup {NoFilter}, Erase(v) PROVE QueryTypeOK'
  <2>1. CASE Throws(v) BY <1>5, <1>c, <2>1 DEF Erase
  <2>2. CASE ~ Throws(v)
    <3>1. /\ present' = present \ Matching(v) /\ erasing' = [at |-> "deleted", ids |-> Matching(v)]
          /\ failed' = FALSE /\ Disturbed /\ Agitated /\ Counted /\ UNCHANGED <<cell, column, report, events>>
      BY <1>5, <2>2 DEF Erase
    <3>2. finder' \in Finders
      BY <3>1 DEF Agitated
    <3>3. erasing' \in [at : {"idle", "deleted"}, ids : SUBSET QRow] BY <3>1, MatchingIsFinite
    <3> QED BY <1>c, <1>d, <3>1, <3>2, <3>3
  <2> QED BY <2>1, <2>2
<1>6. ASSUME NEW v \in Asks \cup {NoFilter}, NEW n \in 0..2, Aggregate(v, n) PROVE QueryTypeOK'
  <2>1. report'.at \in {"none", "done"} /\ report'.filter \in Asks \cup {NoFilter} /\ failed' \in BOOLEAN
    <3>1. CASE Throws(v) \/ GroupThrows(v)
      <4>1. report' = NoReport /\ failed' = TRUE BY <1>6, <3>1 DEF Aggregate
      <4> QED BY <4>1 DEF NoReport
    <3>2. CASE ~(Throws(v) \/ GroupThrows(v))
      <4>1. \E raw, shown : report' = [at |-> "done", filter |-> v, groups |-> shown,
                                       truncated |-> Cardinality(raw) > AggCap]
        BY <1>6, <3>2 DEF Aggregate
      <4>2. failed' = FALSE BY <1>6, <3>2 DEF Aggregate
      <4>3. report'.at = "done" /\ report'.filter = v BY <4>1
      <4> QED BY <4>2, <4>3
    <3> QED BY <3>1, <3>2
  <2>2. UNCHANGED <<present, cell, column, view, erasing, events, finder>> /\ Counted
    BY <1>6 DEF Aggregate
  <2> QED BY <1>c, <2>1, <2>2
<1>7. CASE ReadPage
  <2>1. view' \in Views
        /\ failed' \in BOOLEAN
    <3>1. CASE Throws(view.filter) BY <1>7, <1>n, <3>1 DEF ReadPage
    <3>2. CASE ~ Throws(view.filter)
      <4> PICK o \in Orders(Matching(view.filter)) :
            LET rows == Page(o, view.page)
            IN  view' = [view EXCEPT
                  !.seen = [r \in QRow |-> IF r \in rows THEN @[r] + 1 ELSE @[r]],
                  !.at = IF Cardinality(rows) = PageSize THEN "page" ELSE "count",
                  !.page = IF Cardinality(rows) = PageSize THEN @ + 1 ELSE @]
        BY <1>7, <3>2 DEF ReadPage
      <4> DEFINE rows == Page(o, view.page)
                 Full == Cardinality(rows) = PageSize
                 s == [r \in QRow |-> IF r \in rows THEN view.seen[r] + 1 ELSE view.seen[r]]
                 a == IF Full THEN "page" ELSE "count"
                 n == IF Full THEN view.page + 1 ELSE view.page
      <4>1. view' = [view EXCEPT !.seen = s, !.at = a, !.page = n] OBVIOUS
      <4>3. s \in [QRow -> Nat] /\ a \in {"page", "count"} /\ n \in Nat
        <5> HIDE DEF rows
        <5> QED OBVIOUS
      <4> HIDE DEF s, a, n
      <4>2. failed' = FALSE BY <1>7, <3>2 DEF ReadPage
      <4> QED BY <1>0, <4>1, <4>2, <4>3
    <3> QED BY <3>1, <3>2
  <2> QED BY <1>7, <2>1 DEF ReadPage
<1>8. CASE ReadTotal
  <2>1. view' \in Views /\ failed' \in BOOLEAN
    <3> PICK n \in Nat : n = Cardinality(Matching(view.filter)) BY MatchingIsFinite
    <3>1. \/ \E total \in Nat : /\ view' = [view EXCEPT !.at = "done", !.total = total, !.approximate = Approximate(total)]
                                /\ failed' = FALSE
          \/ view' = NoView /\ failed' = TRUE
      BY <1>8, QueryAssumption DEF ReadTotal
    <3>2. \A total \in Nat : Approximate(total) \in BOOLEAN BY DEF Approximate
    <3>3. ASSUME NEW total \in Nat,
                 view' = [view EXCEPT !.at = "done", !.total = total, !.approximate = Approximate(total)]
          PROVE  view' \in Views
      BY <1>0, <3>2, <3>3
    <3>4. view' \in Views BY <1>n, <3>1, <3>3
    <3>5. failed' \in BOOLEAN BY <3>1
    <3> QED BY <3>4, <3>5
  <2> QED BY <1>8, <2>1 DEF ReadTotal
<1>9. CASE RecordDelete BY <1>9 DEF RecordDelete
<1>10. ASSUME NEW ids \in SUBSET QRow, FindMissing(ids) PROVE QueryTypeOK'
  <2>1. finder' \in Finders
    BY <1>10 DEF FindMissing
  <2> QED BY <1>10, <1>c, <2>1 DEF FindMissing
<1>11. CASE FindDeletedInfo
  <2>1. finder' \in Finders
    BY <1>11 DEF FindDeletedInfo
  <2> QED BY <1>11, <2>1 DEF FindDeletedInfo
<1>12. CASE UNCHANGED queryVars BY <1>12 DEF queryVars
<1>13. \A ids \in {QRow} \cup {{r} : r \in QRow} : ids \in SUBSET QRow OBVIOUS
<1> QED BY <1>1, <1>2, <1>3, <1>4, <1>5, <1>6, <1>7, <1>8, <1>9, <1>10, <1>11, <1>12, <1>13 DEF QueryNext

(* The rows, lists, reports and searches are of their types.               *)
THEOREM QueryTypesCorrect == QuerySpec => []QueryTypeOK
BY QueryInitTyped, QueryStepTyped, PTL DEF QuerySpec

-----------------------------------------------------------------------------
(* RowQueries: what a search for missing ids can explain.                  *)

RowsExplained ==
  /\ moves = 0 => /\ present \in {{}, QRow} /\ finder.at = "idle"
                  /\ erasing.at = "idle" /\ view.at = "idle"
  /\ moves > 0 => QRow \ present \subseteq events \cup erasing.ids
  /\ erasing.at = "idle" => erasing.ids = {}
  /\ finder.at = "read" /\ finder.calm => finder.missing \subseteq events
  /\ MissingExplained

LEMMA ExplainedInit == QueryInit => RowsExplained
BY DEF QueryInit, RowsExplained, MissingExplained, NoFinder, NoView

LEMMA ExplainedStep == QueryTypeOK /\ RowsExplained /\ [QueryNext]_queryVars => RowsExplained'
<1> SUFFICES ASSUME QueryTypeOK, RowsExplained, [QueryNext]_queryVars PROVE RowsExplained' OBVIOUS
<1>t. /\ moves \in Nat /\ present \subseteq QRow
      /\ finder \in Finders
      /\ erasing \in [at : {"idle", "deleted"}, ids : SUBSET QRow]
  BY DEF QueryTypeOK, Finders
<1>c. Counted => moves' > 0 /\ moves' \in Nat /\ QRow \ present \subseteq events \cup erasing.ids
  BY <1>t DEF Counted, RowsExplained
<1>1. CASE GivenRows BY <1>1 DEF GivenRows, RowsExplained, MissingExplained
<1>2. ASSUME Counted, present \subseteq present', UNCHANGED <<erasing, events, finder>>
      PROVE  RowsExplained'
  BY <1>2, <1>c DEF RowsExplained, MissingExplained
<1>3. ASSUME NEW v \in Asks \cup {NoFilter}, Erase(v), ~ Throws(v) PROVE RowsExplained'
  <2>1. /\ present' = present \ Matching(v) /\ erasing' = [at |-> "deleted", ids |-> Matching(v)]
        /\ finder' = [finder EXCEPT !.calm = FALSE] /\ events' = events /\ Counted /\ erasing.at = "idle"
    BY <1>3 DEF Erase, Agitated
  <2>2. QRow \ present' \subseteq events' \cup erasing'.ids
    BY <1>c, <2>1 DEF RowsExplained
  <2>3. erasing'.at = "deleted" /\ finder'.calm = FALSE BY <1>t, <2>1
  <2> QED BY <1>c, <2>1, <2>2, <2>3 DEF RowsExplained, MissingExplained
<1>4. CASE ReadPage \/ ReadTotal
  <2>1. UNCHANGED <<present, erasing, events, finder, moves>> BY <1>4 DEF ReadPage, ReadTotal
  <2>2. view.at # "idle" BY <1>4 DEF ReadPage, ReadTotal
  <2> QED BY <1>t, <2>1, <2>2 DEF RowsExplained, MissingExplained
<1>5. CASE RecordDelete
  BY <1>5, <1>t DEF RecordDelete, RowsExplained, MissingExplained
<1>6. ASSUME NEW ids \in SUBSET QRow, FindMissing(ids) PROVE RowsExplained'
  <2>1. /\ finder' = [at |-> IF ids \subseteq present THEN "done" ELSE "read", ids |-> ids,
                      missing |-> ids \ present, explained |-> {}, calm |-> erasing.at = "idle"]
        /\ UNCHANGED <<present, erasing, events>> /\ Counted
    BY <1>6 DEF FindMissing
  <2>2. finder'.calm => finder'.missing \subseteq events
    BY <1>c, <2>1 DEF RowsExplained
  <2>3. finder'.at = "done" => finder'.missing = {} BY <2>1
  <2> QED BY <1>c, <2>1, <2>2, <2>3 DEF RowsExplained, MissingExplained
<1>7. CASE FindDeletedInfo
  <2>1. /\ finder.at = "read" /\ UNCHANGED <<present, erasing, events, view, moves>>
        /\ finder'.at = "done" /\ finder'.calm = finder.calm
        /\ finder'.missing = finder.missing /\ finder'.explained = finder.missing \cap events
    BY <1>7, <1>t DEF FindDeletedInfo
  <2> QED BY <2>1 DEF RowsExplained, MissingExplained
<1>8. CASE UNCHANGED queryVars BY <1>8 DEF queryVars, RowsExplained, MissingExplained
<1>9. CASE \/ \E r \in QRow, c \in CellUsed : PutRow(r, c)
           \/ \E type \in ColumnType, filterable \in BOOLEAN : EditColumn(type, filterable)
           \/ \E v \in Asks \cup {NoFilter} : OpenView(v) \/ (Erase(v) /\ Throws(v))
                                              \/ \E n \in 0..2 : Aggregate(v, n)
  <2>1. Counted /\ present \subseteq present' /\ UNCHANGED <<erasing, events, finder>>
    BY <1>9 DEF PutRow, EditColumn, OpenView, Erase, Aggregate
  <2> QED BY <1>2, <2>1
<1>10. \A ids \in {QRow} \cup {{r} : r \in QRow} : ids \in SUBSET QRow OBVIOUS
<1> QED BY <1>1, <1>3, <1>4, <1>5, <1>6, <1>7, <1>8, <1>9, <1>10 DEF QueryNext

-----------------------------------------------------------------------------
(* RowQueries: the pages of a list.                                        *)

LEMMA UpToCount ==
  ASSUME NEW n \in Nat
  PROVE  IsFiniteSet(1..n) /\ Cardinality(1..n) = n
BY FS_Interval

LEMMA IntervalCount ==
  ASSUME NEW a \in Nat, NEW n \in Nat
  PROVE  IsFiniteSet((a + 1)..(a + n)) /\ Cardinality((a + 1)..(a + n)) = n
<1> PICK b \in Int : b = a + 1 OBVIOUS
<1> PICK c \in Int : c = a + n OBVIOUS
<1>1. IsFiniteSet(b..c) /\ Cardinality(b..c) = IF b > c THEN 0 ELSE c - b + 1
  BY FS_Interval
<1>2. (IF b > c THEN 0 ELSE c - b + 1) = n OBVIOUS
<1> QED BY <1>1, <1>2

LEMMA CellsOrdered ==
  ASSUME NEW c \in Cell, NEW d \in Cell
  PROVE  /\ c = d => ~Before(c, d)
         /\ c # d => (Before(c, d) <=> ~Before(d, c))
<1> DEFINE order == <<"", "1", "2", "feb", "feb31", "jan", "text", "null">>
<1>0. /\ order[1] = "" /\ order[2] = "1" /\ order[3] = "2" /\ order[4] = "feb"
      /\ order[5] = "feb31" /\ order[6] = "jan" /\ order[7] = "text" /\ order[8] = "null"
  OBVIOUS
<1>1. \A i, j \in 1..8 : order[i] = order[j] => i = j
  <2> HIDE DEF order
  <2>1. \A i \in 1..8 : i = 1 \/ i = 2 \/ i = 3 \/ i = 4 \/ i = 5 \/ i = 6 \/ i = 7 \/ i = 8 OBVIOUS
  <2> QED BY <1>0, <2>1
<1>2. \A x \in Cell : \E i \in 1..8 : order[i] = x
  <2> HIDE DEF order
  <2>1. 1 \in 1..8 /\ 2 \in 1..8 /\ 3 \in 1..8 /\ 4 \in 1..8 OBVIOUS
  <2>2. 5 \in 1..8 /\ 6 \in 1..8 /\ 7 \in 1..8 /\ 8 \in 1..8 OBVIOUS
  <2> QED BY <1>0, <2>1, <2>2 DEF Cell
<1>3. \A x, y : Before(x, y) <=> \E i, j \in 1..8 : i < j /\ order[i] = x /\ order[j] = y
  BY DEF Before
<1> HIDE DEF order
<1> PICK i \in 1..8, j \in 1..8 : order[i] = c /\ order[j] = d BY <1>2
<1>4. Before(c, d) <=> i < j BY <1>1, <1>3
<1>5. Before(d, c) <=> j < i BY <1>1, <1>3
<1> QED BY <1>1, <1>4, <1>5

Differ(S) == \A r, s \in S : r # s => cell[r] # cell[s]
Place(r, S) == Cardinality({x \in S : Before(cell[x], cell[r])}) + 1

(* An order of rows that do not tie has each of them at its place.         *)
LEMMA OrderPlaces ==
  ASSUME cell \in [QRow -> Cell], NEW S \in SUBSET QRow, Differ(S), NEW o \in Orders(S)
  PROVE  /\ IsFiniteSet(S) /\ Cardinality(S) \in Nat
         /\ o \in Bijection(1..Cardinality(S), S)
         /\ \A i \in 1..Cardinality(S) : Place(o[i], S) = i
<1>1. IsFiniteSet(S) /\ Cardinality(S) \in Nat
  BY QueryAssumption, FS_Subset, FS_CardinalityType
<1> PICK n \in Nat : n = Cardinality(S) BY <1>1
<1>2. /\ o \in [1..n -> S]
      /\ \A i, j \in 1..n : i < j => o[i] # o[j] /\ ~Before(cell[o[j]], cell[o[i]])
  BY DEF Orders
<1>3. \A i, j \in 1..n : o[i] = o[j] => i = j BY <1>2
<1>4. o \in Injection(1..n, S) BY <1>2, <1>3 DEF Injection, IsInjective
<1>5. IsFiniteSet(1..n) /\ Cardinality(1..n) = n BY FS_Interval
<1>6. o \in Bijection(1..n, S)
  <2>1. o \in Surjection(1..n, S) BY <1>1, <1>4, <1>5, FS_Injection
  <2> QED BY <1>4, <2>1 DEF Bijection
<1>7. \A r \in S : \E i \in 1..n : o[i] = r BY <1>6 DEF Bijection, Surjection
<1>8. ASSUME NEW i \in 1..n PROVE Place(o[i], S) = i
  <2> DEFINE T == {x \in S : Before(cell[x], cell[o[i]])}
             f == [j \in 1..(i - 1) |-> o[j]]
  <2>1. ASSUME NEW j \in 1..n PROVE o[j] \in T <=> j < i
    <3>1. cell[o[i]] \in Cell /\ cell[o[j]] \in Cell /\ o[i] \in S /\ o[j] \in S BY <1>2
    <3>2. CASE j = i BY <3>1, <3>2, CellsOrdered
    <3>3. CASE j # i
      <4>1. cell[o[j]] # cell[o[i]] BY <1>3, <3>1, <3>3 DEF Differ
      <4>2. Before(cell[o[j]], cell[o[i]]) <=> ~Before(cell[o[i]], cell[o[j]])
        BY <3>1, <4>1, CellsOrdered
      <4>3. CASE j < i
        <5>1. ~Before(cell[o[i]], cell[o[j]]) BY <1>2, <4>3
        <5> QED BY <3>1, <4>2, <4>3, <5>1
      <4>4. CASE i < j
        <5>1. ~Before(cell[o[j]], cell[o[i]]) BY <1>2, <4>4
        <5> QED BY <3>1, <4>4, <5>1
      <4> QED BY <3>3, <4>3, <4>4
    <3> QED BY <3>2, <3>3
  <2>2. T \subseteq S OBVIOUS
  <2> HIDE DEF T
  <2>3. f \in [1..(i - 1) -> T] BY <2>1
  <2>4. \A x \in T : \E j \in 1..(i - 1) : f[j] = x BY <1>7, <2>1, <2>2
  <2>5. \A j, k \in 1..(i - 1) : f[j] = f[k] => j = k BY <1>3
  <2>6. f \in Bijection(1..(i - 1), T)
    BY <2>3, <2>4, <2>5 DEF Bijection, Injection, IsInjective, Surjection
  <2>7. IsFiniteSet(1..(i - 1)) /\ Cardinality(1..(i - 1)) = i - 1
    <3> PICK m \in Nat : m = i - 1 OBVIOUS
    <3> QED BY UpToCount
  <2>8. Cardinality(T) = i - 1 BY <2>6, <2>7, FS_Bijection DEF ExistsBijection
  <2> QED BY <2>8 DEF Place, T
<1> QED BY <1>1, <1>6, <1>8

(* A page has the rows of its places; when it is not full, no place is     *)
(* behind it.                                                              *)
LEMMA PageFits ==
  ASSUME cell \in [QRow -> Cell], NEW S \in SUBSET QRow, Differ(S), NEW o \in Orders(S),
         NEW p \in Nat, p > 0
  PROVE  /\ \A r \in QRow : r \in Page(o, p) <=>
               r \in S /\ Offset(p) < Place(r, S) /\ Place(r, S) <= Offset(p) + PageSize
         /\ Cardinality(Page(o, p)) # PageSize => \A r \in S : Place(r, S) <= Offset(p) + PageSize
<1> PICK n \in Nat : n = Cardinality(S) BY OrderPlaces
<1>1. /\ o \in Bijection(1..n, S) /\ \A i \in 1..n : Place(o[i], S) = i
  BY OrderPlaces
<1>2. o \in [1..n -> S] /\ DOMAIN o = 1..n /\ \A r \in S : \E i \in 1..n : o[i] = r
  BY <1>1 DEF Bijection, Injection, Surjection
<1>3. \A r \in S : Place(r, S) \in 1..n /\ o[Place(r, S)] = r BY <1>1, <1>2
<1> PICK k \in Nat : k = Offset(p) BY QueryAssumption DEF Offset
<1>4. Page(o, p) = {o[i] : i \in {j \in 1..n : k < j /\ j <= k + PageSize}}
  BY <1>2 DEF Page
<1>5. \A r \in QRow : r \in Page(o, p) <=>
        r \in S /\ k < Place(r, S) /\ Place(r, S) <= k + PageSize
  BY <1>1, <1>2, <1>3, <1>4
<1>6. ASSUME n > k + PageSize PROVE Cardinality(Page(o, p)) = PageSize
  <2> DEFINE I == (k + 1)..(k + PageSize)
             f == [i \in I |-> o[i]]
  <2>0. PageSize \in Nat BY QueryAssumption
  <2>1. I = {j \in 1..n : k < j /\ j <= k + PageSize} BY <1>6, <2>0
  <2>2. Page(o, p) = {o[i] : i \in I} BY <1>4, <2>1
  <2>3. \A i \in I : i \in 1..n BY <2>1
  <2>4. \A i, j \in I : o[i] = o[j] => i = j BY <1>1, <2>3
  <2>5. IsFiniteSet(I) /\ Cardinality(I) = PageSize BY <2>0, IntervalCount
  <2> HIDE DEF I
  <2>6. f \in Bijection(I, Page(o, p))
    <3>1. f \in [I -> Page(o, p)] BY <2>2
    <3>2. \A x \in Page(o, p) : \E i \in I : f[i] = x BY <2>2
    <3>3. \A i, j \in I : f[i] = f[j] => i = j BY <2>4
    <3> QED BY <3>1, <3>2, <3>3 DEF Bijection, Injection, IsInjective, Surjection
  <2> QED BY <2>5, <2>6, FS_Bijection DEF ExistsBijection
<1>7. ASSUME Cardinality(Page(o, p)) # PageSize
      PROVE  \A r \in S : Place(r, S) <= k + PageSize
  <2>1. n <= k + PageSize BY <1>6, <1>7, QueryAssumption
  <2> QED BY <1>3, <2>1, QueryAssumption
<1> QED BY <1>5, <1>7

-----------------------------------------------------------------------------
(* RowQueries: what a reader has seen.                                     *)

(* While nothing disturbs it, a list whose rows do not tie has shown those *)
(* whose places are on the pages read, and the total is theirs.            *)
SeenUpTo(n) ==
  LET S == Matching(view.filter)
  IN  \A r \in QRow : view.seen[r] = IF r \in S /\ Place(r, S) <= n THEN 1 ELSE 0
SeenAll ==
  LET S == Matching(view.filter)
  IN  \A r \in QRow : view.seen[r] = IF r \in S THEN 1 ELSE 0

ViewFit ==
  view.quiet =>
    /\ view.at = "page" => view.page > 0
    /\ Differ(Matching(view.filter)) =>
         /\ view.at = "page" => SeenUpTo(Offset(view.page))
         /\ view.at \in {"count", "done"} => SeenAll
    /\ view.at = "done" /\ ~view.approximate => view.total = Cardinality(Matching(view.filter))

LEMMA ViewInit == QueryInit => ViewFit
BY DEF QueryInit, ViewFit, NoView

LEMMA PlaceIsPositive ==
  ASSUME NEW S \in SUBSET QRow, NEW r
  PROVE  Place(r, S) \in Nat /\ Place(r, S) > 0
<1>1. {x \in S : Before(cell[x], cell[r])} \in SUBSET QRow OBVIOUS
<1>2. Cardinality({x \in S : Before(cell[x], cell[r])}) \in Nat
  BY <1>1, QueryAssumption, FS_Subset, FS_CardinalityType
<1> QED BY <1>2 DEF Place

LEMMA ViewStep == QueryTypeOK /\ RowsExplained /\ ViewFit /\ [QueryNext]_queryVars => ViewFit'
<1> SUFFICES ASSUME QueryTypeOK, RowsExplained, ViewFit, [QueryNext]_queryVars PROVE ViewFit' OBVIOUS
<1>t. /\ cell \in [QRow -> Cell] /\ present \subseteq QRow
      /\ view \in [at : {"idle", "page", "count", "done"}, filter : Asks \cup {NoFilter}, page : Nat,
                   seen : [QRow -> Nat], total : Nat, approximate : BOOLEAN, quiet : BOOLEAN]
  BY DEF QueryTypeOK
<1>m. ASSUME UNCHANGED <<present, cell, column>>
      PROVE  /\ \A v : Matching(v)' = Matching(v)
             /\ \A S : Differ(S)' <=> Differ(S)
             /\ \A r, S : Place(r, S)' = Place(r, S)
  BY <1>m DEF Matching, Fitting, Differ, Place
<1>1. CASE UNCHANGED <<present, cell, column, view>>
  BY <1>1, <1>m DEF ViewFit, SeenUpTo, SeenAll
<1>2. CASE Disturbed
  <2>1. ~view'.quiet BY <1>2, <1>t DEF Disturbed
  <2> QED BY <2>1 DEF ViewFit
<1>3. CASE view' = NoView BY <1>3 DEF NoView, ViewFit
<1>4. CASE GivenRows
  <2>1. view'.at = "idle" BY <1>4 DEF GivenRows, RowsExplained
  <2> QED BY <2>1 DEF ViewFit
<1>5. ASSUME NEW v, OpenView(v) PROVE ViewFit'
  <2>1. /\ view'.at = "page" /\ view'.page = 1 /\ view'.seen = [r \in QRow |-> 0]
        /\ UNCHANGED <<present, cell, column>>
    BY <1>5 DEF OpenView, NoView
  <2>2. Offset(1) = 0 BY QueryAssumption DEF Offset
  <2>3. Matching(view'.filter) \in SUBSET QRow BY <1>t DEF Matching
  <2>4. SeenUpTo(0)'
    <3> PICK S \in SUBSET QRow : S = Matching(view'.filter) BY <2>3
    <3>1. Matching(view.filter)' = S BY <1>m, <2>1
    <3>2. \A r \in QRow : ~(Place(r, S)' <= 0) BY <1>m, <2>1, PlaceIsPositive
    <3> QED BY <2>1, <3>1, <3>2 DEF SeenUpTo
  <2> QED BY <2>1, <2>2, <2>4 DEF ViewFit
<1>6. CASE ReadPage /\ ~Throws(view.filter)
  <2> PICK o \in Orders(Matching(view.filter)) :
        LET rows == Page(o, view.page)
        IN  view' = [view EXCEPT
              !.seen = [r \in QRow |-> IF r \in rows THEN @[r] + 1 ELSE @[r]],
              !.at = IF Cardinality(rows) = PageSize THEN "page" ELSE "count",
              !.page = IF Cardinality(rows) = PageSize THEN @ + 1 ELSE @]
    BY <1>6 DEF ReadPage
  <2> DEFINE rows == Page(o, view.page)
  <2>1. /\ view.at = "page" /\ UNCHANGED <<present, cell, column>>
        /\ view'.filter = view.filter /\ view'.quiet = view.quiet
        /\ view'.seen = [r \in QRow |-> IF r \in rows THEN view.seen[r] + 1 ELSE view.seen[r]]
        /\ IF Cardinality(rows) = PageSize THEN view'.at = "page" /\ view'.page = view.page + 1
                                           ELSE view'.at = "count"
    BY <1>6, <1>t DEF ReadPage
  <2> HIDE DEF rows
  <2> PICK S \in SUBSET QRow : S = Matching(view.filter) BY <1>t DEF Matching
  <2>2. Matching(view.filter)' = S BY <1>m, <2>1
  <2>3. ASSUME view.quiet, Differ(S)
        PROVE  /\ view'.at = "page" => SeenUpTo(Offset(view.page))'
               /\ view'.at = "count" => SeenAll'
    <3> PICK p \in Nat : p = view.page /\ p > 0 BY <1>t, <2>1, <2>3 DEF ViewFit
    <3> PICK k \in Nat : k = Offset(p) BY QueryAssumption DEF Offset
    <3>1. \A r \in QRow : view.seen[r] = IF r \in S /\ Place(r, S) <= k THEN 1 ELSE 0
      BY <2>1, <2>3 DEF ViewFit, SeenUpTo
    <3>2. /\ \A r \in QRow : r \in rows <=> r \in S /\ k < Place(r, S) /\ Place(r, S) <= k + PageSize
          /\ Cardinality(rows) # PageSize => \A r \in S : Place(r, S) <= k + PageSize
      BY <1>t, <2>3, PageFits DEF rows
    <3>3. \A r \in QRow : view'.seen[r] = IF r \in S /\ Place(r, S) <= k + PageSize THEN 1 ELSE 0
      <4> SUFFICES ASSUME NEW r \in QRow
                   PROVE  view'.seen[r] = IF r \in S /\ Place(r, S) <= k + PageSize THEN 1 ELSE 0
        OBVIOUS
      <4> PICK n \in Nat : n = Place(r, S) BY PlaceIsPositive
      <4>1. view'.seen[r] = IF r \in rows THEN view.seen[r] + 1 ELSE view.seen[r] BY <2>1
      <4>2. view.seen[r] = IF r \in S /\ n <= k THEN 1 ELSE 0 BY <3>1
      <4>3. r \in rows <=> r \in S /\ k < n /\ n <= k + PageSize BY <3>2
      <4> QED BY <4>1, <4>2, <4>3, QueryAssumption
    <3>4. Offset(p + 1) = k + PageSize BY QueryAssumption DEF Offset
    <3>5. \A r \in QRow : Place(r, S)' = Place(r, S) BY <1>m, <2>1
    <3>6. ASSUME view'.at = "page" PROVE SeenUpTo(Offset(view.page))'
      <4>1. view'.page = p + 1 BY <2>1, <3>6
      <4>2. Offset(view'.page) = k + PageSize BY <3>4, <4>1
      <4>3. Offset(view.page)' = k + PageSize BY <4>2
      <4> QED BY <2>2, <3>3, <3>5, <4>3 DEF SeenUpTo
    <3>7. view'.at = "count" => SeenAll'
      BY <2>1, <2>2, <3>2, <3>3 DEF SeenAll
    <3> QED BY <3>6, <3>7
  <2>4. Differ(Matching(view.filter))' <=> Differ(S)
    <3>1. Differ(S)' <=> Differ(S) BY <1>m, <2>1
    <3> QED BY <2>2, <3>1 DEF Differ
  <2>5. view'.at # "done" BY <2>1
  <2>6. view.quiet => (view'.at = "page" => view'.page > 0) BY <1>t, <2>1 DEF ViewFit
  <2> QED BY <2>1, <2>3, <2>4, <2>5, <2>6 DEF ViewFit
<1>7. CASE ReadTotal /\ view' # NoView
  <2> PICK S \in SUBSET QRow : S = Matching(view.filter) BY <1>t DEF Matching
  <2> PICK n \in Nat : n = Cardinality(S) BY MatchingIsFinite, <1>t
  <2> PICK total \in Nat : total = IF n > CountCap THEN CountCap ELSE n BY QueryAssumption
  <2>1. /\ view.at = "count" /\ UNCHANGED <<present, cell, column>>
        /\ view' = [view EXCEPT !.at = "done", !.total = total, !.approximate = Approximate(total)]
    BY <1>7 DEF ReadTotal
  <2>2. /\ view'.at = "done" /\ view'.filter = view.filter /\ view'.quiet = view.quiet
        /\ view'.seen = view.seen /\ view'.total = total /\ view'.approximate = Approximate(total)
    BY <1>t, <2>1
  <2>3. Matching(view.filter)' = S BY <1>m, <2>1, <2>2
  <2>4. Differ(Matching(view.filter))' <=> Differ(S)
    <3>1. Differ(S)' <=> Differ(S) BY <1>m, <2>1
    <3> QED BY <2>3, <3>1 DEF Differ
  <2>5. ASSUME view.quiet, Differ(S) PROVE SeenAll'
    BY <2>1, <2>2, <2>3, <2>5 DEF ViewFit, SeenAll
  <2>6. ~view'.approximate => view'.total = n
    <3>1. view'.approximate <=> total >= CountCap BY <2>2 DEF Approximate
    <3>2. CASE n > CountCap BY <2>2, <3>1, <3>2, QueryAssumption
    <3>3. CASE ~(n > CountCap) BY <2>2, <3>3, QueryAssumption
    <3> QED BY <3>2, <3>3
  <2>7. Cardinality(Matching(view.filter))' = n BY <2>3
  <2> QED BY <2>2, <2>4, <2>5, <2>6, <2>7 DEF ViewFit
<1>8. CASE \E v \in Asks \cup {NoFilter} : Erase(v)
  <2>1. Disturbed \/ UNCHANGED <<present, cell, column, view>> BY <1>8 DEF Erase
  <2> QED BY <1>1, <1>2, <2>1
<1>9. CASE \/ \E r \in QRow, c \in CellUsed : PutRow(r, c)
           \/ \E type \in ColumnType, filterable \in BOOLEAN : EditColumn(type, filterable)
  BY <1>2, <1>9 DEF PutRow, EditColumn
<1>10. CASE \/ \E v \in Asks \cup {NoFilter}, n \in 0..2 : Aggregate(v, n)
            \/ RecordDelete \/ FindDeletedInfo \/ \E ids : FindMissing(ids)
            \/ UNCHANGED queryVars
  BY <1>1, <1>10 DEF Aggregate, RecordDelete, FindDeletedInfo, FindMissing, queryVars
<1>11. ReadPage /\ Throws(view.filter) => view' = NoView BY DEF ReadPage
<1> QED BY <1>3, <1>4, <1>5, <1>6, <1>7, <1>8, <1>9, <1>10, <1>11 DEF QueryNext

LEMMA ViewIsTrue ==
  QueryTypeOK /\ ViewFit => PagesCover /\ TotalsTrue
BY DEF ViewFit, PagesCover, TotalsTrue, Exact, SeenAll, Differ

-----------------------------------------------------------------------------
(* RowQueries: how many rows a reader has seen.                            *)

(* A page is full, or has what the pages before it leave; ties or not.     *)
LEMMA PageCount ==
  ASSUME NEW S \in SUBSET QRow, NEW o \in Orders(S), NEW p \in Nat, p > 0,
         NEW n \in Nat, n = Cardinality(S), Offset(p) <= n
  PROVE  /\ Page(o, p) \in SUBSET S
         /\ Cardinality(Page(o, p)) = IF Offset(p) + PageSize <= n THEN PageSize ELSE n - Offset(p)
<1>1. /\ o \in [1..n -> S] /\ DOMAIN o = 1..n
      /\ \A i, j \in 1..n : i < j => o[i] # o[j]
  BY DEF Orders
<1>2. \A i, j \in 1..n : o[i] = o[j] => i = j
  BY <1>1
<1> PICK k \in Nat : k = Offset(p)
  BY QueryAssumption DEF Offset
<1> PICK m \in Nat : m = IF k + PageSize <= n THEN PageSize ELSE n - k
  BY QueryAssumption
<1> DEFINE I == (k + 1)..(k + m)
           f == [i \in I |-> o[i]]
<1>3. Page(o, p) = {o[i] : i \in {j \in 1..n : k < j /\ j <= k + PageSize}}
  BY <1>1 DEF Page
<1>4. I = {j \in 1..n : k < j /\ j <= k + PageSize}
  BY QueryAssumption
<1>5. Page(o, p) = {o[i] : i \in I} /\ I \subseteq 1..n
  BY <1>3, <1>4
<1>6. IsFiniteSet(I) /\ Cardinality(I) = m
  BY IntervalCount
<1> HIDE DEF I
<1>7. f \in Bijection(I, Page(o, p))
  <2>1. f \in [I -> Page(o, p)]
    BY <1>5
  <2>2. \A x \in Page(o, p) : \E i \in I : f[i] = x
    BY <1>5
  <2>3. \A i, j \in I : f[i] = f[j] => i = j
    BY <1>2, <1>5
  <2> QED BY <2>1, <2>2, <2>3 DEF Bijection, Injection, IsInjective, Surjection
<1>8. Cardinality(Page(o, p)) = m
  BY <1>6, <1>7, FS_Bijection DEF ExistsBijection
<1> QED BY <1>1, <1>5, <1>8

(* While nothing disturbs it, the reader has seen the rows of every page   *)
(* before the one it is at, and in the end as many as match.               *)
ShownFit ==
  view.quiet =>
    /\ view.at = "page" =>
         /\ FoldOver(view.seen, QRow) = Offset(view.page)
         /\ Offset(view.page) <= Cardinality(Matching(view.filter))
    /\ view.at \in {"count", "done"} =>
         FoldOver(view.seen, QRow) = Cardinality(Matching(view.filter))

LEMMA ShownInit == QueryInit => ShownFit
BY DEF QueryInit, ShownFit, NoView

LEMMA ShownStep ==
  QueryTypeOK /\ RowsExplained /\ ViewFit /\ ShownFit /\ [QueryNext]_queryVars => ShownFit'
<1> SUFFICES ASSUME QueryTypeOK, RowsExplained, ViewFit, ShownFit, [QueryNext]_queryVars
             PROVE  ShownFit'
  OBVIOUS
<1>t. /\ cell \in [QRow -> Cell] /\ present \subseteq QRow
      /\ view \in [at : {"idle", "page", "count", "done"}, filter : Asks \cup {NoFilter}, page : Nat,
                   seen : [QRow -> Nat], total : Nat, approximate : BOOLEAN, quiet : BOOLEAN]
  BY DEF QueryTypeOK
<1>m. ASSUME UNCHANGED <<present, cell, column>>
      PROVE  \A v : Matching(v)' = Matching(v)
  BY <1>m DEF Matching, Fitting
<1>1. CASE UNCHANGED <<present, cell, column, view>>
  BY <1>1, <1>m DEF ShownFit
<1>2. CASE Disturbed
  <2>1. ~view'.quiet BY <1>2, <1>t DEF Disturbed
  <2> QED BY <2>1 DEF ShownFit
<1>3. CASE view' = NoView BY <1>3 DEF NoView, ShownFit
<1>4. CASE GivenRows
  <2>1. view'.at = "idle" BY <1>4 DEF GivenRows, RowsExplained
  <2> QED BY <2>1 DEF ShownFit
<1>5. ASSUME NEW v, OpenView(v) PROVE ShownFit'
  <2>1. /\ view'.at = "page" /\ view'.page = 1 /\ view'.seen = [r \in QRow |-> 0]
        /\ UNCHANGED <<present, cell, column>>
    BY <1>5 DEF OpenView, NoView
  <2>2. Offset(1) = 0 BY QueryAssumption DEF Offset
  <2>3. FoldOver(view'.seen, QRow) = 0 BY <2>1, SumOfNoughts, QueryAssumption
  <2> PICK S \in SUBSET QRow : S = Matching(view'.filter) BY <1>t DEF Matching
  <2>4. Matching(view.filter)' = S BY <1>m, <2>1
  <2>5. Cardinality(S) \in Nat BY QueryAssumption, FS_Subset, FS_CardinalityType
  <2> QED BY <2>1, <2>2, <2>3, <2>4, <2>5 DEF ShownFit
<1>6. CASE ReadPage /\ ~Throws(view.filter)
  <2> PICK o \in Orders(Matching(view.filter)) :
        LET rows == Page(o, view.page)
        IN  view' = [view EXCEPT
              !.seen = [r \in QRow |-> IF r \in rows THEN @[r] + 1 ELSE @[r]],
              !.at = IF Cardinality(rows) = PageSize THEN "page" ELSE "count",
              !.page = IF Cardinality(rows) = PageSize THEN @ + 1 ELSE @]
    BY <1>6 DEF ReadPage
  <2> DEFINE rows == Page(o, view.page)
  <2>1. /\ view.at = "page" /\ UNCHANGED <<present, cell, column>>
        /\ view'.filter = view.filter /\ view'.quiet = view.quiet
        /\ view'.seen = [r \in QRow |-> IF r \in rows THEN view.seen[r] + 1 ELSE view.seen[r]]
        /\ IF Cardinality(rows) = PageSize THEN view'.at = "page" /\ view'.page = view.page + 1
                                           ELSE view'.at = "count"
    BY <1>6, <1>t DEF ReadPage
  <2> HIDE DEF rows
  <2> PICK S \in SUBSET QRow : S = Matching(view.filter) BY <1>t DEF Matching
  <2> PICK n \in Nat : n = Cardinality(S) BY QueryAssumption, FS_Subset, FS_CardinalityType
  <2>2. Cardinality(Matching(view.filter))' = n
    <3>1. Matching(view.filter)' = S BY <1>m, <2>1
    <3> QED BY <3>1
  <2>3. ASSUME view.quiet
        PROVE  /\ view'.at = "page" => /\ FoldOver(view'.seen, QRow) = Offset(view'.page)
                                       /\ Offset(view'.page) <= n
               /\ view'.at = "count" => FoldOver(view'.seen, QRow) = n
    <3> PICK p \in Nat : p = view.page /\ p > 0 BY <1>t, <2>1, <2>3 DEF ViewFit
    <3> PICK k \in Nat : k = Offset(p) BY QueryAssumption DEF Offset
    <3>1. FoldOver(view.seen, QRow) = k /\ k <= n BY <2>1, <2>3 DEF ShownFit
    <3>2. rows \in SUBSET S /\ Cardinality(rows) = IF k + PageSize <= n THEN PageSize ELSE n - k
      BY <3>1, PageCount DEF rows
    <3>3. FoldOver(view'.seen, QRow) = FoldOver(view.seen, QRow) + Cardinality(rows)
      <4>1. Summands(view.seen, QRow) BY <1>t DEF Summands
      <4>2. rows \in SUBSET QRow BY <3>2
      <4>3. \A r \in QRow : view'.seen[r] = IF r \in rows THEN view.seen[r] + 1 ELSE view.seen[r]
        BY <2>1
      <4> QED BY <4>1, <4>2, <4>3, SumCounts, QueryAssumption
    <3>4. Offset(p + 1) = k + PageSize BY QueryAssumption DEF Offset
    <3>5. CASE k + PageSize <= n
      <4>1. Cardinality(rows) = PageSize BY <3>2, <3>5
      <4>2. view'.at = "page" /\ view'.page = p + 1 BY <2>1, <4>1
      <4>3. Offset(view'.page) = k + PageSize BY <3>4, <4>2
      <4>4. FoldOver(view'.seen, QRow) = k + PageSize BY <3>1, <3>3, <4>1
      <4> QED BY <3>5, <4>2, <4>3, <4>4
    <3>6. CASE ~(k + PageSize <= n)
      <4>1. Cardinality(rows) = n - k BY <3>2, <3>6
      <4>2. n - k # PageSize BY <3>1, <3>6, QueryAssumption
      <4>3. view'.at = "count" BY <2>1, <4>1, <4>2
      <4>4. FoldOver(view'.seen, QRow) = n BY <3>1, <3>3, <4>1
      <4> QED BY <4>3, <4>4
    <3> QED BY <3>5, <3>6
  <2>4. view'.at \in {"page", "count"} BY <2>1
  <2>5. Offset(view.page)' = Offset(view'.page) BY DEF Offset
  <2> QED BY <2>1, <2>2, <2>3, <2>4, <2>5 DEF ShownFit
<1>7. CASE ReadTotal /\ view' # NoView
  <2>1. /\ view.at = "count" /\ UNCHANGED <<present, cell, column>>
        /\ view'.at = "done" /\ view'.filter = view.filter /\ view'.quiet = view.quiet
        /\ view'.seen = view.seen
    BY <1>7, <1>t DEF ReadTotal
  <2> PICK S \in SUBSET QRow : S = Matching(view.filter) BY <1>t DEF Matching
  <2>2. Matching(view.filter)' = S BY <1>m, <2>1
  <2> QED BY <2>1, <2>2 DEF ShownFit
<1>8. CASE \E v \in Asks \cup {NoFilter} : Erase(v)
  <2>1. Disturbed \/ UNCHANGED <<present, cell, column, view>> BY <1>8 DEF Erase
  <2> QED BY <1>1, <1>2, <2>1
<1>9. CASE \/ \E r \in QRow, c \in CellUsed : PutRow(r, c)
           \/ \E type \in ColumnType, filterable \in BOOLEAN : EditColumn(type, filterable)
  BY <1>2, <1>9 DEF PutRow, EditColumn
<1>10. CASE \/ \E v \in Asks \cup {NoFilter}, n \in 0..2 : Aggregate(v, n)
            \/ RecordDelete \/ FindDeletedInfo \/ \E ids : FindMissing(ids)
            \/ UNCHANGED queryVars
  BY <1>1, <1>10 DEF Aggregate, RecordDelete, FindDeletedInfo, FindMissing, queryVars
<1>11. ReadPage /\ Throws(view.filter) => view' = NoView BY DEF ReadPage
<1> QED BY <1>3, <1>4, <1>5, <1>6, <1>7, <1>8, <1>9, <1>10, <1>11 DEF QueryNext

LEMMA ShownIsTotal ==
  QueryTypeOK /\ ViewFit /\ ShownFit => TotalsShown
<1>1. MapThenSumSet(LAMBDA r : view.seen[r], QRow) = FoldOver(view.seen, QRow)
  BY DEF MapThenSumSet, MapThenFoldSet, FoldOver
<1> QED BY <1>1 DEF TotalsShown, Exact, ViewFit, ShownFit

-----------------------------------------------------------------------------
(* RowQueries: the groups of a report.                                     *)

(* The group a row goes to.                                                *)
GroupOfRow(M) ==
  [r \in M |->
     LET same == {x \in M : Dimension(cell[x]) = Dimension(cell[r])}
     IN  [dim |-> Dimension(cell[r]), count |-> Cardinality(same),
          sum |-> IF column.type = "number" THEN SumOf(same) ELSE 0]]

(* A group counts the rows that go to it, and there are finitely many.     *)
LEMMA GroupsAreBoxes ==
  ASSUME NEW M \in SUBSET QRow
  PROVE  /\ IsFiniteSet(M) /\ Cardinality(M) \in Nat
         /\ IsFiniteSet(GroupsBy(M))
         /\ GroupsBy(M) = {GroupOfRow(M)[r] : r \in M}
         /\ \A g \in GroupsBy(M) : g.count = Cardinality(InBoxes(M, GroupOfRow(M), {g}))
<1>1. IsFiniteSet(M) /\ Cardinality(M) \in Nat
  BY QueryAssumption, FS_Subset, FS_CardinalityType
<1>2. GroupsBy(M) = {GroupOfRow(M)[r] : r \in M}
  BY DEF GroupsBy, GroupOfRow
<1>3. GroupOfRow(M) \in Surjection(M, GroupsBy(M))
  <2>1. DOMAIN GroupOfRow(M) = M /\ GroupOfRow(M) = [r \in M |-> GroupOfRow(M)[r]]
    BY DEF GroupOfRow
  <2>2. \A g \in GroupsBy(M) : \E r \in M : GroupOfRow(M)[r] = g
    BY <1>2
  <2>3. GroupOfRow(M) \in [M -> GroupsBy(M)]
    BY <1>2, <2>1
  <2> QED BY <2>2, <2>3 DEF Surjection
<1>4. ASSUME NEW g \in GroupsBy(M)
      PROVE  g.count = Cardinality(InBoxes(M, GroupOfRow(M), {g}))
  <2> PICK s \in M : g = GroupOfRow(M)[s]
    BY <1>2
  <2>1. ASSUME NEW r \in M
        PROVE  GroupOfRow(M)[r] = g <=> Dimension(cell[r]) = Dimension(cell[s])
    <3>1. GroupOfRow(M)[r].dim = Dimension(cell[r]) /\ g.dim = Dimension(cell[s])
      BY DEF GroupOfRow
    <3>2. Dimension(cell[r]) = Dimension(cell[s]) => GroupOfRow(M)[r] = GroupOfRow(M)[s]
      BY DEF GroupOfRow
    <3> QED BY <3>1, <3>2
  <2>2. InBoxes(M, GroupOfRow(M), {g}) = {x \in M : Dimension(cell[x]) = Dimension(cell[s])}
    BY <2>1 DEF InBoxes
  <2>3. g.count = Cardinality({x \in M : Dimension(cell[x]) = Dimension(cell[s])})
    BY DEF GroupOfRow
  <2> QED BY <2>2, <2>3
<1> QED BY <1>1, <1>2, <1>3, <1>4, FS_Surjection

(* Cutting off behind the largest ones leaves a set as it is, or smaller.  *)
LEMMA LargestOf ==
  ASSUME NEW G, IsFiniteSet(G), NEW n \in Nat, NEW T \in Largest(G, n)
  PROVE  /\ T \subseteq G /\ IsFiniteSet(T) /\ Cardinality(T) \in Nat /\ Cardinality(G) \in Nat
         /\ Cardinality(T) = IF Cardinality(G) < n THEN Cardinality(G) ELSE n
         /\ Cardinality(T) = Cardinality(G) => T = G
<1>1. T \in SUBSET G /\ Cardinality(T) = IF Cardinality(G) < n THEN Cardinality(G) ELSE n
  BY DEF Largest
<1> QED BY <1>1, FS_Subset, FS_CardinalityType

LEMMA AggregateAddsUp ==
  ASSUME QueryTypeOK, NEW v, Aggregate(v, 0), report'.at = "done"
  PROVE  LET counted == MapThenSumSet(LAMBDA g : g.count, report'.groups)
         IN  /\ counted <= Cardinality(Matching(v))
             /\ report'.truncated <=> counted < Cardinality(Matching(v))
<1> PICK M \in SUBSET QRow : M = Matching(v)
  BY DEF QueryTypeOK, Matching
<1> DEFINE G == GroupsBy(M)
           GZ == {g \in G : g.count >= 0}
           box == GroupOfRow(M)
<1>1. /\ IsFiniteSet(M) /\ Cardinality(M) \in Nat
      /\ IsFiniteSet(G) /\ G = {box[r] : r \in M}
      /\ \A g \in G : g.count = Cardinality(InBoxes(M, box, {g}))
  BY GroupsAreBoxes
<1>2. \A s : /\ InBoxes(M, box, s) \in SUBSET M
             /\ IsFiniteSet(InBoxes(M, box, s)) /\ Cardinality(InBoxes(M, box, s)) \in Nat
  <2> TAKE s
  <2>1. InBoxes(M, box, s) \in SUBSET M
    BY DEF InBoxes
  <2> QED BY <1>1, <2>1, FS_Subset, FS_CardinalityType
<1>3. GZ = G
  <2>1. ASSUME NEW g \in G PROVE g.count >= 0
    <3>1. Cardinality(InBoxes(M, box, {g})) \in Nat
      BY <1>2
    <3> QED BY <1>1, <3>1
  <2> QED BY <2>1
<1>4. \E raw \in Largest(GZ, Fetched) : \E shown \in Largest(raw, AggCap) :
        report' = [at |-> "done", filter |-> v, groups |-> shown,
                   truncated |-> Cardinality(raw) > AggCap]
  BY DEF Aggregate, NoReport
<1> HIDE DEF G, box, GZ
<1> PICK raw \in Largest(G, Fetched) : \E shown \in Largest(raw, AggCap) :
      report' = [at |-> "done", filter |-> v, groups |-> shown,
                 truncated |-> Cardinality(raw) > AggCap]
  BY <1>3, <1>4
<1> PICK shown \in Largest(raw, AggCap) :
      report' = [at |-> "done", filter |-> v, groups |-> shown,
                 truncated |-> Cardinality(raw) > AggCap]
  OBVIOUS
<1>5. report'.groups = shown /\ (report'.truncated <=> Cardinality(raw) > AggCap)
  OBVIOUS
<1>6. Fetched \in Nat /\ Fetched = AggCap + 1 /\ AggCap \in Nat
  BY QueryAssumption DEF Fetched
<1>7. /\ raw \subseteq G /\ IsFiniteSet(raw) /\ Cardinality(raw) \in Nat /\ Cardinality(G) \in Nat
      /\ Cardinality(raw) = IF Cardinality(G) < Fetched THEN Cardinality(G) ELSE Fetched
      /\ Cardinality(raw) = Cardinality(G) => raw = G
  BY <1>1, <1>6, LargestOf
<1>8. /\ shown \subseteq raw /\ IsFiniteSet(shown) /\ Cardinality(shown) \in Nat
      /\ Cardinality(shown) = IF Cardinality(raw) < AggCap THEN Cardinality(raw) ELSE AggCap
      /\ Cardinality(shown) = Cardinality(raw) => shown = raw
  BY <1>6, <1>7, LargestOf
<1> DEFINE count == [g \in shown |-> g.count]
           inside == InBoxes(M, box, shown)
<1>9. MapThenSumSet(LAMBDA g : g.count, shown) = FoldOver(count, shown)
  BY DEF MapThenSumSet, MapThenFoldSet, FoldOver
<1>10. FoldOver(count, shown) = Cardinality(inside)
  <2>1. CountsBoxes(count, M, box, shown)
    BY <1>1, <1>7, <1>8 DEF CountsBoxes
  <2>2. IsFiniteSet(M) /\ IsFiniteSet(shown)
    BY <1>1, <1>8
  <2> HIDE DEF count
  <2> QED BY <2>1, <2>2, SumOfBoxes
<1>11. /\ inside \in SUBSET M /\ Cardinality(inside) \in Nat
       /\ Cardinality(inside) <= Cardinality(M)
       /\ Cardinality(inside) = Cardinality(M) => inside = M
  <2>1. inside \in SUBSET M /\ Cardinality(inside) \in Nat
    BY <1>2
  <2> HIDE DEF inside
  <2> QED BY <1>1, <2>1, FS_Subset
<1>12. ASSUME Cardinality(raw) > AggCap PROVE inside # M
  <2>1. shown # raw
    BY <1>6, <1>7, <1>8, <1>12
  <2> PICK g \in raw : g \notin shown
    BY <1>8, <2>1
  <2> PICK r \in M : box[r] = g
    BY <1>1, <1>7
  <2> QED BY DEF InBoxes
<1>13. ASSUME ~(Cardinality(raw) > AggCap) PROVE inside = M
  <2>1. raw = G
    BY <1>6, <1>7, <1>13
  <2>2. shown = raw
    BY <1>6, <1>7, <1>8, <1>13
  <2> QED BY <1>1, <2>1, <2>2 DEF InBoxes
<1> HIDE DEF inside, count
<1>14. (Cardinality(raw) > AggCap) <=> Cardinality(inside) < Cardinality(M)
  BY <1>1, <1>11, <1>12, <1>13
<1>15. MapThenSumSet(LAMBDA g : g.count, report'.groups) = Cardinality(inside)
  BY <1>5, <1>9, <1>10
<1> QED BY <1>5, <1>11, <1>14, <1>15

-----------------------------------------------------------------------------
(* RowQueries: steps.                                                      *)

LEMMA DescribedOnly ==
  ASSUME QueryTypeOK, NEW v \in Asks, column.filterable, Erase(v), erasing'.at = "deleted",
         NEW r \in present \ present'
  PROVE  Describes(v, cell[r])
<1>1. present' # present BY DEF QueryTypeOK
<1>2. present' = present \ Matching(v) BY <1>1 DEF Erase
<1>3. cell[r] \in Fitting(v) BY <1>2 DEF Matching
<1>4. v \in {"1", "jan", "text", "null"} /\ column.type \in ColumnType /\ v # NoFilter
  BY QueryAssumption DEF QueryTypeOK, NoFilter
<1>5. CASE v = "null" BY <1>3, <1>4, <1>5 DEF Fitting, Describes
<1>6. CASE v # "null" /\ column.type = "number" BY <1>3, <1>4, <1>6 DEF Fitting, Equal, Describes
<1>7. CASE v # "null" /\ column.type = "date" BY <1>3, <1>4, <1>7 DEF Fitting, Describes
<1>8. CASE v # "null" /\ column.type = "string" BY <1>3, <1>4, <1>8 DEF Fitting, Describes
<1> QED BY <1>4, <1>5, <1>6, <1>7, <1>8 DEF ColumnType

LEMMA OnlyBoundsThrow ==
  ASSUME QueryTypeOK, Conforming, NEW v \in Asks \cup {NoFilter}, Throws(v) \/ GroupThrows(v)
  PROVE  column.type = "date" /\ column.filterable
<1>1. column.type \in ColumnType BY DEF QueryTypeOK
<1>2. CASE column.type = "number"
  <2>1. PICK r \in present : cell[r] \in Throwing(v) BY <1>2 DEF Throws, GroupThrows
  <2>2. cell[r] \in Numbers \cup {"null"} BY <1>2, <2>1 DEF Conforming
  <2>3. cell[r] \notin Throwing(v) BY <1>2, <2>2 DEF Throwing
  <2> QED BY <2>1, <2>3
<1>3. CASE column.type = "string"
  BY <1>3 DEF Throws, GroupThrows, Throwing
<1>4. CASE column.type = "date"
  <2>1. ASSUME NEW r \in present PROVE cell[r] # "feb31"
    BY <1>4, <2>1 DEF Conforming, Dates, Numbers
  <2>2. ~GroupThrows(v) BY <2>1 DEF GroupThrows
  <2>3. Throws(v) BY <2>2
  <2> QED BY <1>4, <2>3 DEF Throws, Throwing
<1> QED BY <1>1, <1>2, <1>3, <1>4 DEF ColumnType

LEMMA QueryInvHolds == QuerySpec => [](QueryTypeOK /\ RowsExplained /\ ViewFit /\ ShownFit)
<1> DEFINE Inv == QueryTypeOK /\ RowsExplained /\ ViewFit /\ ShownFit
<1>1. QueryInit => Inv BY QueryInitTyped, ExplainedInit, ViewInit, ShownInit
<1>2. Inv /\ [QueryNext]_queryVars => Inv' BY QueryStepTyped, ExplainedStep, ViewStep, ShownStep
<1> QED BY <1>1, <1>2, PTL DEF QuerySpec

(* On any table, with any template, page size and caps, and rows and the   *)
(* template changing between the requests: a list read undisturbed shows   *)
(* each matching row once, unless rows tie, a total that is not called     *)
(* approximate is their number, a table that fits its column fails no      *)
(* request but for a bound that is no date, a mass delete takes only what  *)
(* its filter describes, and what the application deleted is never missing *)
(* without the event that says so, unless a delete was under way.          *)
THEOREM QueriesSpeakOfTheSame == QuerySpec => QueriesAgree
<1> DEFINE Inv == QueryTypeOK /\ RowsExplained /\ ViewFit
<1>1. QuerySpec => []Inv BY QueryInvHolds, PTL
<1>2. Inv => PagesCover /\ TotalsTrue /\ MissingExplained BY ViewIsTrue DEF RowsExplained
<1>3. Inv /\ [QueryNext]_queryVars =>
        [failed' /\ ~failed /\ Conforming => column.type = "date" /\ column.filterable]_queryVars
  <2> SUFFICES ASSUME Inv, QueryNext, failed', ~failed, Conforming
               PROVE  column.type = "date" /\ column.filterable
    OBVIOUS
  <2>1. \E v \in Asks \cup {NoFilter} : Throws(v) \/ GroupThrows(v)
    <3>1. view.filter \in Asks \cup {NoFilter} BY DEF QueryTypeOK
    <3> QED BY <3>1 DEF QueryNext, GivenRows, PutRow, EditColumn, OpenView, Erase, Aggregate,
                        ReadPage, ReadTotal, RecordDelete, FindMissing, FindDeletedInfo
  <2> QED BY <2>1, OnlyBoundsThrow
<1>4. Inv /\ [QueryNext]_queryVars =>
        [\A v \in Asks : erasing'.at = "deleted" /\ column.filterable /\ Erase(v) =>
           \A r \in present \ present' : Describes(v, cell[r])]_queryVars
  BY DescribedOnly
<1> QED
  BY <1>1, <1>2, <1>3, <1>4, PTL DEF QuerySpec, QueriesAgree, ConformingNeverFails, ErasesDescribed

(* The groups of a report by all rows a filter finds add up to the rows    *)
(* that a list by the same filter shows, or to fewer and the report says   *)
(* that it is truncated, wherever the cap lies; and the pages of a list    *)
(* that nothing disturbs have as many rows as its total says, whatever the *)
(* order of rows that tie (TableRowsService.aggregate, query, countFiltered). *)
THEOREM NumbersAlwaysAddUp == QuerySpec => NumbersAddUp
<1> DEFINE Inv == QueryTypeOK /\ RowsExplained /\ ViewFit /\ ShownFit
<1>1. Inv => TotalsShown BY ShownIsTotal
<1>2. Inv /\ [QueryNext]_queryVars =>
        [\A v \in Asks \cup {NoFilter} :
           report'.at = "done" /\ Aggregate(v, 0) =>
             LET counted == MapThenSumSet(LAMBDA g : g.count, report'.groups)
             IN  /\ counted <= Cardinality(Matching(v))
                 /\ report'.truncated <=> counted < Cardinality(Matching(v))]_queryVars
  BY AggregateAddsUp
<1> QED BY QueryInvHolds, <1>1, <1>2, PTL DEF QuerySpec, NumbersAddUp, ReportAddsUp
=============================================================================
