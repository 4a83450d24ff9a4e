-------------------------------- MODULE Sums --------------------------------
(***************************************************************************)
(* FoldSet, when it adds naturals up, counts: the sum of w over a finite   *)
(* set is the number of pairs of an element and one of the units of its    *)
(* weight.  The fold is a recursive function over the subsets; that there  *)
(* is one, and that it has these values, is shown by the smallest subset   *)
(* on which it has not.                                                    *)
(***************************************************************************)
EXTENDS Integers, FiniteSets, FiniteSetsExt, FiniteSetTheorems, TLAPS

\* A nonempty set of naturals has a minimum.
LEMMA MinOfNaturals ==
  ASSUME NEW S \in SUBSET Nat, S # {}
  PROVE  Min(S) \in S /\ \A n \in S : Min(S) <= n
<1> DEFINE less == {p \in Nat \X Nat : p[1] < p[2]}
<1>1. IsWellFoundedOn(less, Nat)
  BY NatLessThanWellFounded DEF OpToRel
<1>2. \A n, m \in Nat : <<n, m>> \in less <=> n < m
  OBVIOUS
<1> HIDE DEF less
<1>3. PICK m \in S : \A n \in S : <<n, m>> \notin less
  BY <1>1, WFMin
<1>4. ASSUME NEW n \in S  PROVE m <= n
  <2>1. n \in Nat /\ m \in Nat
    OBVIOUS
  <2>2. ~(n < m)
    BY <1>2, <1>3, <2>1
  <2>3. QED  BY <2>1, <2>2
<1>5. QED  BY <1>4 DEF Min

\* Each element of S as often as it weighs.
Units(w, S) == {u \in S \X Nat : u[2] \in 1 .. w[u[1]]}

\* The equation FoldSet is the solution of, for w over S.
Sums(iter, w, S) ==
  iter = [s \in SUBSET S |->
            IF s = {} THEN 0
            ELSE iter[s \ {CHOOSE x \in s : TRUE}] + w[CHOOSE x \in s : TRUE]]

LEMMA UnitsOfNone ==
  ASSUME NEW w
  PROVE  Units(w, {}) = {}
BY DEF Units

\* An element more brings in its weight.
LEMMA UnitsOfMore ==
  ASSUME NEW S, NEW x \in S, NEW w, w[x] \in Nat, IsFiniteSet(Units(w, S \ {x}))
  PROVE  /\ IsFiniteSet(Units(w, S))
         /\ Cardinality(Units(w, S)) = Cardinality(Units(w, S \ {x})) + w[x]
<1> DEFINE mine == {x} \X (1 .. w[x])
           rest == Units(w, S \ {x})
<1>1. IsFiniteSet(mine) /\ Cardinality(mine) = w[x]
  <2>1. IsFiniteSet({x}) /\ Cardinality({x}) = 1
    BY FS_Singleton
  <2>2. IsFiniteSet(1 .. w[x]) /\ Cardinality(1 .. w[x]) = w[x]
    BY FS_Interval
  <2>3. /\ IsFiniteSet(mine)
        /\ Cardinality(mine) = Cardinality({x}) * Cardinality(1 .. w[x])
    BY <2>1, <2>2, FS_Product
  <2> HIDE DEF mine
  <2>4. 1 * w[x] = w[x]
    OBVIOUS
  <2>5. QED  BY <2>1, <2>2, <2>3, <2>4
<1>2. Units(w, S) = rest \cup mine
  BY DEF Units
<1>3. rest \cap mine = {}
  BY DEF Units
<1> HIDE DEF mine, rest
<1>4. /\ IsFiniteSet(rest \cup mine)
      /\ Cardinality(rest \cup mine) = Cardinality(rest) + Cardinality(mine) - Cardinality(rest \cap mine)
  BY <1>1, FS_Union DEF rest
<1>5. Cardinality(rest) \in Nat /\ Cardinality(rest \cap mine) = 0
  BY <1>3, FS_CardinalityType, FS_EmptySet DEF rest
<1>6. QED  BY <1>1, <1>2, <1>4, <1>5 DEF rest

\* Units are finitely many.
LEMMA UnitsFinite ==
  ASSUME NEW S, IsFiniteSet(S), NEW w, \A x \in S : w[x] \in Nat
  PROVE  IsFiniteSet(Units(w, S)) /\ Cardinality(Units(w, S)) \in Nat
<1> DEFINE Bad == {s \in SUBSET S : ~IsFiniteSet(Units(w, s))}
<1>1. SUFFICES ASSUME Bad # {}  PROVE FALSE
  BY FS_CardinalityType
<1>2. IsWellFoundedOn(StrictSubsetOrdering(S), SUBSET S)
  BY FS_StrictSubsetOrderingWellFounded, FS_FiniteSubsetsOfFinite
<1>3. PICK s \in Bad : \A t \in Bad : <<t, s>> \notin StrictSubsetOrdering(S)
  BY <1>1, <1>2, WFMin
<1>4. s # {}
  BY UnitsOfNone, FS_EmptySet
<1>5. PICK x : x \in s
  BY <1>4
<1>6. <<s \ {x}, s>> \in StrictSubsetOrdering(S)
  BY <1>5 DEF StrictSubsetOrdering
<1>7. IsFiniteSet(Units(w, s \ {x}))
  BY <1>3, <1>6
<1>8. QED  BY <1>5, <1>7, UnitsOfMore

LEMMA SumsIsUnits ==
  ASSUME NEW S, IsFiniteSet(S), NEW w, \A x \in S : w[x] \in Nat,
         NEW iter, Sums(iter, w, S)
  PROVE  iter[S] = Cardinality(Units(w, S))
<1> DEFINE Bad == {s \in SUBSET S : iter[s] # Cardinality(Units(w, s))}
<1>1. SUFFICES ASSUME Bad # {}  PROVE FALSE
  OBVIOUS
<1>2. IsWellFoundedOn(StrictSubsetOrdering(S), SUBSET S)
  BY FS_StrictSubsetOrderingWellFounded, FS_FiniteSubsetsOfFinite
<1>3. PICK s \in Bad : \A t \in Bad : <<t, s>> \notin StrictSubsetOrdering(S)
  BY <1>1, <1>2, WFMin
<1> DEFINE x == CHOOSE x \in s : TRUE
<1>4. iter[s] = IF s = {} THEN 0 ELSE iter[s \ {x}] + w[x]
  BY DEF Sums
<1>5. s # {}
  BY <1>4, UnitsOfNone, FS_EmptySet
<1>6. x \in s
  BY <1>5
<1> HIDE DEF x
<1>7. <<s \ {x}, s>> \in StrictSubsetOrdering(S)
  BY <1>6 DEF StrictSubsetOrdering
<1>8. iter[s \ {x}] = Cardinality(Units(w, s \ {x}))
  BY <1>3, <1>7
<1>9. IsFiniteSet(Units(w, s \ {x}))
  BY <1>3, FS_Subset, UnitsFinite
<1>10. QED  BY <1>4, <1>5, <1>6, <1>8, <1>9, UnitsOfMore

LEMMA SumsExist ==
  ASSUME NEW S, IsFiniteSet(S), NEW w, \A x \in S : w[x] \in Nat
  PROVE  \E iter : Sums(iter, w, S)
<1> DEFINE iter == [s \in SUBSET S |-> Cardinality(Units(w, s))]
<1>1. ASSUME NEW s \in SUBSET S
      PROVE  iter[s] = IF s = {} THEN 0
                       ELSE iter[s \ {CHOOSE x \in s : TRUE}] + w[CHOOSE x \in s : TRUE]
  <2> DEFINE x == CHOOSE x \in s : TRUE
  <2>1. CASE s = {}
    BY <2>1, UnitsOfNone, FS_EmptySet
  <2>2. CASE s # {}
    <3>1. x \in s
      BY <2>2
    <3> HIDE DEF x
    <3>2. IsFiniteSet(Units(w, s \ {x}))
      BY FS_Subset, UnitsFinite
    <3>3. Cardinality(Units(w, s)) = Cardinality(Units(w, s \ {x})) + w[x]
      BY <3>1, <3>2, UnitsOfMore
    <3>4. QED  BY <2>2, <3>3 DEF x
  <2>3. QED  BY <2>1, <2>2
<1>2. iter = [s \in SUBSET S |->
                IF s = {} THEN 0
                ELSE iter[s \ {CHOOSE x \in s : TRUE}] + w[CHOOSE x \in s : TRUE]]
  BY <1>1
<1>3. QED  BY <1>2 DEF Sums

LEMMA FoldIsUnits ==
  ASSUME NEW S, IsFiniteSet(S), NEW w, \A x \in S : w[x] \in Nat
  PROVE  FoldSet(LAMBDA x, n : n + w[x], 0, S) = Cardinality(Units(w, S))
<1> DEFINE iter == CHOOSE iter : Sums(iter, w, S)
<1>1. Sums(iter, w, S)
  BY SumsExist
<1>2. FoldSet(LAMBDA x, n : n + w[x], 0, S) = iter[S]
  BY DEF FoldSet, MapThenFoldSet, Sums
<1> HIDE DEF iter
<1>3. QED  BY <1>1, <1>2, SumsIsUnits
=============================================================================
