---------------------------- MODULE RowTheorems ----------------------------
(***************************************************************************)
(* Sums over finite sets and lists of their members, for the proofs about   *)
(* rows that are read in an order and added up.  The folds of the models    *)
(* are instances of SumOver, whose elements may be taken out in any order:  *)
(* that follows by induction over sets, which NumberInduction and           *)
(* SubsetInduction state with a set in place of a predicate.               *)
(***************************************************************************)
EXTENDS Integers, SequencesExt, FiniteSetTheorems, FunctionTheorems, WellFoundedInduction, TLAPS

Pick(t) == CHOOSE x \in t : TRUE

\* g gives the sum of c over each subset of S, one picked element after another.
Adds(g, c, S) ==
    g = [t \in SUBSET S |-> IF t = {} THEN 0 ELSE c[Pick(t)] + g[t \ {Pick(t)}]]

SumOver(c, S) == (CHOOSE g : Adds(g, c, S))[S]

-----------------------------------------------------------------------------
(* Induction, over sets of numbers and sets of sets.                       *)

LEMMA NumberInduction ==
  ASSUME NEW T \in SUBSET Nat, 0 \in T, \A n \in T : n + 1 \in T
  PROVE  \A n \in Nat : n \in T
  <1> SUFFICES ASSUME NEW m \in Nat, m \notin T PROVE FALSE
    OBVIOUS
  <1> DEFINE B == Nat \ T
  <1>1. \E x \in B : \A y \in B : ~ (<<y, x>> \in OpToRel(<, Nat))
    <2> HIDE DEF B
    <2>1. B \subseteq Nat /\ B # {}
      BY DEF B
    <2> QED
      BY <2>1, NatLessThanWellFounded, WFMin, Zenon
  <1>2. PICK x \in B : \A y \in B : ~ (<<y, x>> \in OpToRel(<, Nat))
    BY <1>1, Zenon
  <1>3. x # 0 /\ x \in Nat /\ x \notin T
    OBVIOUS
  <1>4. x - 1 \in Nat /\ x - 1 < x /\ x - 1 + 1 = x
    BY <1>3
  <1>5. x - 1 \in B
    BY <1>3, <1>4
  <1>6. <<x - 1, x>> \in OpToRel(<, Nat)
    BY <1>3, <1>4, Zenon DEF OpToRel
  <1> QED
    BY <1>2, <1>5, <1>6, Zenon

LEMMA FinitePart ==
  ASSUME NEW S, IsFiniteSet(S), NEW t \in SUBSET S
  PROVE  IsFiniteSet(t) /\ Cardinality(t) \in Nat /\ (Cardinality(t) = 0 <=> t = {})
  BY FS_Subset, FS_CardinalityType, FS_EmptySet

LEMMA OneLess ==
  ASSUME NEW S, IsFiniteSet(S), NEW x \in S
  PROVE  /\ IsFiniteSet(S \ {x}) /\ Cardinality(S \ {x}) = Cardinality(S) - 1
         /\ Cardinality(S) \in Nat /\ Cardinality(S \ {x}) \in Nat
  BY FS_RemoveElement, FS_CardinalityType

LEMMA PickIsIn == ASSUME NEW t, t # {} PROVE Pick(t) \in t
  BY DEF Pick

\* What holds of a set when it holds of the set without any one of its elements
\* holds of all subsets of a finite set.
LEMMA SubsetInduction ==
  ASSUME NEW S, IsFiniteSet(S), NEW T,
         \A t \in SUBSET S : (\A x \in t : t \ {x} \in T) => t \in T
  PROVE  \A t \in SUBSET S : t \in T
  <1> DEFINE N == {n \in Nat : \A t \in SUBSET S : Cardinality(t) = n => t \in T}
  <1>1. 0 \in N
    <2> SUFFICES ASSUME NEW t \in SUBSET S, Cardinality(t) = 0 PROVE t \in T
      OBVIOUS
    <2>1. t = {}
      BY FinitePart
    <2> QED
      BY <2>1
  <1>2. ASSUME NEW n \in N PROVE n + 1 \in N
    <2> SUFFICES ASSUME NEW t \in SUBSET S, Cardinality(t) = n + 1 PROVE t \in T
      OBVIOUS
    <2>1. ASSUME NEW x \in t PROVE t \ {x} \in T
      <3>1. IsFiniteSet(t)
        BY FinitePart
      <3>2. Cardinality(t \ {x}) = n
        BY <3>1, OneLess
      <3>3. t \ {x} \in SUBSET S
        OBVIOUS
      <3> QED
        BY <3>2, <3>3
    <2> QED
      BY <2>1
  <1> HIDE DEF N
  <1>3. N \in SUBSET Nat
    BY DEF N
  <1>4. \A n \in Nat : n \in N
    BY <1>1, <1>2, <1>3, NumberInduction
  <1>5. ASSUME NEW t \in SUBSET S PROVE t \in T
    <2>1. Cardinality(t) \in Nat
      BY FinitePart
    <2> QED
      BY <1>4, <2>1 DEF N
  <1> QED
    BY <1>5

-----------------------------------------------------------------------------
(* There is such a g, so SumOver is what it says.                          *)

LEMMA SumsExist ==
  ASSUME NEW S, IsFiniteSet(S), NEW c
  PROVE  \E g : Adds(g, c, S)
  <1> DEFINE Body(g, t) == IF t = {} THEN 0 ELSE c[Pick(t)] + g[t \ {Pick(t)}]
             Good(g, n) == \A t \in SUBSET S : Cardinality(t) <= n => g[t] = Body(g, t)
             N == {n \in Nat : \E g : Good(g, n)}
  <1>1. 0 \in N
    <2> DEFINE g == [t \in SUBSET S |-> 0]
    <2>1. Good(g, 0)
      <3> SUFFICES ASSUME NEW t \in SUBSET S, Cardinality(t) <= 0 PROVE g[t] = Body(g, t)
        OBVIOUS
      <3>1. t = {}
        BY FinitePart
      <3> QED
        BY <3>1
    <2> QED
      BY <2>1
  <1>2. ASSUME NEW n \in N PROVE n + 1 \in N
    <2>1. PICK g : Good(g, n)
      OBVIOUS
    <2> DEFINE h == [t \in SUBSET S |-> Body(g, t)]
    <2>2. ASSUME NEW t \in SUBSET S, Cardinality(t) <= n PROVE h[t] = g[t]
      BY <2>1, <2>2
    <2>3. ASSUME NEW t \in SUBSET S, Cardinality(t) <= n + 1 PROVE h[t] = Body(h, t)
      <3>1. CASE t = {}
        BY <3>1
      <3>2. CASE t # {}
        <4>1. Pick(t) \in t /\ IsFiniteSet(t)
          BY <3>2, PickIsIn, FinitePart
        <4>2. Cardinality(t \ {Pick(t)}) = Cardinality(t) - 1 /\ Cardinality(t) \in Nat
          BY <4>1, OneLess
        <4>3. Cardinality(t \ {Pick(t)}) <= n
          BY <2>3, <4>2
        <4>4. t \ {Pick(t)} \in SUBSET S
          OBVIOUS
        <4>5. h[t \ {Pick(t)}] = g[t \ {Pick(t)}]
          BY <2>2, <4>3, <4>4
        <4>6. h[t] = c[Pick(t)] + g[t \ {Pick(t)}]
          BY <3>2
        <4> HIDE DEF h
        <4> QED
          BY <3>2, <4>5, <4>6
      <3> QED
        BY <3>1, <3>2
    <2>4. Good(h, n + 1)
      BY <2>3
    <2>5. \E f : Good(f, n + 1)
      <3> HIDE DEF h, Good
      <3> QED
        BY <2>4
    <2> HIDE DEF Good
    <2> QED
      BY <2>5
  <1>3. Cardinality(S) \in N
    <2> HIDE DEF N
    <2>1. N \in SUBSET Nat
      BY DEF N
    <2>2. \A n \in Nat : n \in N
      BY <1>1, <1>2, <2>1, NumberInduction
    <2>3. Cardinality(S) \in Nat
      BY FS_CardinalityType
    <2> QED
      BY <2>2, <2>3
  <1>4. PICK g : Good(g, Cardinality(S))
    BY <1>3
  <1>5. \A t \in SUBSET S : g[t] = Body(g, t)
    <2> SUFFICES ASSUME NEW t \in SUBSET S PROVE g[t] = Body(g, t)
      OBVIOUS
    <2>1. Cardinality(t) <= Cardinality(S)
      BY FS_Subset
    <2> QED
      BY <1>4, <2>1
  <1> DEFINE h == [t \in SUBSET S |-> Body(g, t)]
  <1>6. \A t \in SUBSET S : h[t] = g[t]
    BY <1>5
  <1>7. \A t \in SUBSET S : t # {} => h[t \ {Pick(t)}] = g[t \ {Pick(t)}]
    <2> SUFFICES ASSUME NEW t \in SUBSET S PROVE h[t \ {Pick(t)}] = g[t \ {Pick(t)}]
      OBVIOUS
    <2>1. t \ {Pick(t)} \in SUBSET S
      OBVIOUS
    <2> HIDE DEF h
    <2> QED
      BY <1>6, <2>1
  <1>8. h = [t \in SUBSET S |-> Body(h, t)]
    BY <1>7
  <1> QED
    BY <1>8 DEF Adds

LEMMA SumsAgree ==
  ASSUME NEW S, IsFiniteSet(S), NEW R \in SUBSET S, NEW c, NEW g, NEW h,
         Adds(g, c, S), Adds(h, c, R)
  PROVE  \A t \in SUBSET R : g[t] = h[t]
  <1> DEFINE T == {t \in SUBSET R : g[t] = h[t]}
  <1>1. IsFiniteSet(R)
    BY FS_Subset
  <1>2. ASSUME NEW t \in SUBSET R, \A x \in t : t \ {x} \in T PROVE t \in T
    <2>1. t \in SUBSET S
      OBVIOUS
    <2>2. /\ g[t] = IF t = {} THEN 0 ELSE c[Pick(t)] + g[t \ {Pick(t)}]
          /\ h[t] = IF t = {} THEN 0 ELSE c[Pick(t)] + h[t \ {Pick(t)}]
      BY <2>1 DEF Adds
    <2>3. t # {} => g[t \ {Pick(t)}] = h[t \ {Pick(t)}]
      BY <1>2, PickIsIn
    <2> QED
      BY <2>2, <2>3
  <1> HIDE DEF T
  <1>3. \A t \in SUBSET R : t \in T
    BY <1>1, <1>2, SubsetInduction
  <1> QED
    BY <1>3 DEF T

LEMMA SumUnfolds ==
  ASSUME NEW S, IsFiniteSet(S), NEW c
  PROVE  SumOver(c, S) = IF S = {} THEN 0 ELSE c[Pick(S)] + SumOver(c, S \ {Pick(S)})
  <1> DEFINE R == S \ {Pick(S)}
             g == CHOOSE g : Adds(g, c, S)
             h == CHOOSE h : Adds(h, c, R)
  <1>1. R \in SUBSET S /\ IsFiniteSet(R)
    BY FS_Subset
  <1>2. Adds(g, c, S)
    BY SumsExist
  <1>3. Adds(h, c, R)
    BY <1>1, SumsExist
  <1>4. SumOver(c, S) = g[S] /\ SumOver(c, R) = h[R]
    BY DEF SumOver
  <1>5. g[S] = IF S = {} THEN 0 ELSE c[Pick(S)] + g[R]
    <2> HIDE DEF g
    <2> QED
      BY <1>2 DEF Adds
  <1> HIDE DEF g, h
  <1>6. g[R] = h[R]
    BY <1>1, <1>2, <1>3, SumsAgree
  <1> QED
    BY <1>4, <1>5, <1>6

-----------------------------------------------------------------------------
(* Sums, by their elements.                                                *)

LEMMA SumEmpty == ASSUME NEW c PROVE SumOver(c, {}) = 0
  BY SumUnfolds, FS_EmptySet

LEMMA SumIsInt ==
  ASSUME NEW S, IsFiniteSet(S), NEW c, \A x \in S : c[x] \in Int
  PROVE  SumOver(c, S) \in Int
  <1> DEFINE T == {t \in SUBSET S : SumOver(c, t) \in Int}
  <1>1. ASSUME NEW t \in SUBSET S, \A x \in t : t \ {x} \in T PROVE t \in T
    <2>1. SumOver(c, t) = IF t = {} THEN 0 ELSE c[Pick(t)] + SumOver(c, t \ {Pick(t)})
      BY FinitePart, SumUnfolds
    <2>2. t # {} => c[Pick(t)] \in Int /\ SumOver(c, t \ {Pick(t)}) \in Int
      BY <1>1, PickIsIn
    <2> QED
      BY <2>1, <2>2
  <1> HIDE DEF T
  <1>2. \A t \in SUBSET S : t \in T
    BY <1>1, SubsetInduction
  <1> QED
    BY <1>2 DEF T

\* Any element can be taken out.
LEMMA SumTakeOut ==
  ASSUME NEW S, IsFiniteSet(S), NEW c, \A x \in S : c[x] \in Int, NEW x \in S
  PROVE  SumOver(c, S) = c[x] + SumOver(c, S \ {x})
  <1> DEFINE T == {t \in SUBSET S : \A y \in t : SumOver(c, t) = c[y] + SumOver(c, t \ {y})}
  <1>1. ASSUME NEW t \in SUBSET S, \A y \in t : t \ {y} \in T PROVE t \in T
    <2> SUFFICES ASSUME NEW y \in t PROVE SumOver(c, t) = c[y] + SumOver(c, t \ {y})
      OBVIOUS
    <2> DEFINE p == Pick(t)
               u == (t \ {p}) \ {y}
    <2>1. p \in t /\ SumOver(c, t) = c[p] + SumOver(c, t \ {p})
      BY FinitePart, SumUnfolds, PickIsIn
    <2>2. CASE p = y
      BY <2>1, <2>2
    <2>3. CASE p # y
      <3>1. y \in t \ {p} /\ p \in t \ {y} /\ (t \ {y}) \ {p} = u
        BY <2>1, <2>3
      <3>2. SumOver(c, t \ {p}) = c[y] + SumOver(c, u)
        BY <1>1, <2>1, <3>1
      <3>3. SumOver(c, t \ {y}) = c[p] + SumOver(c, u)
        BY <1>1, <3>1
      <3>4. c[p] \in Int /\ c[y] \in Int /\ SumOver(c, u) \in Int
        <4>1. u \in SUBSET S /\ IsFiniteSet(u)
          BY FS_Subset
        <4> QED
          BY <2>1, <4>1, SumIsInt
      <3> QED
        BY <2>1, <3>2, <3>3, <3>4
    <2> QED
      BY <2>2, <2>3
  <1> HIDE DEF T
  <1>2. \A t \in SUBSET S : t \in T
    BY <1>1, SubsetInduction
  <1> QED
    BY <1>2 DEF T

LEMMA SumAdd ==
  ASSUME NEW S, IsFiniteSet(S), NEW c, NEW x, x \notin S, \A y \in S \cup {x} : c[y] \in Int
  PROVE  SumOver(c, S \cup {x}) = c[x] + SumOver(c, S)
  <1>1. IsFiniteSet(S \cup {x}) /\ (S \cup {x}) \ {x} = S /\ x \in S \cup {x}
    BY FS_AddElement
  <1> QED
    BY <1>1, SumTakeOut

\* Only the values on the set count.
LEMMA SumSame ==
  ASSUME NEW S, IsFiniteSet(S), NEW c, NEW e, \A x \in S : c[x] = e[x]
  PROVE  SumOver(c, S) = SumOver(e, S)
  <1> DEFINE T == {t \in SUBSET S : SumOver(c, t) = SumOver(e, t)}
  <1>1. ASSUME NEW t \in SUBSET S, \A x \in t : t \ {x} \in T PROVE t \in T
    <2>1. IsFiniteSet(t)
      BY FinitePart
    <2>2. /\ SumOver(c, t) = IF t = {} THEN 0 ELSE c[Pick(t)] + SumOver(c, t \ {Pick(t)})
          /\ SumOver(e, t) = IF t = {} THEN 0 ELSE e[Pick(t)] + SumOver(e, t \ {Pick(t)})
      BY <2>1, SumUnfolds
    <2>3. t # {} => /\ c[Pick(t)] = e[Pick(t)]
                    /\ SumOver(c, t \ {Pick(t)}) = SumOver(e, t \ {Pick(t)})
      BY <1>1, PickIsIn
    <2> QED
      BY <2>2, <2>3
  <1> HIDE DEF T
  <1>2. \A t \in SUBSET S : t \in T
    BY <1>1, SubsetInduction
  <1> QED
    BY <1>2 DEF T

LEMMA SumIsNat ==
  ASSUME NEW S, IsFiniteSet(S), NEW c, \A x \in S : c[x] \in Nat
  PROVE  SumOver(c, S) \in Nat
  <1> DEFINE T == {t \in SUBSET S : SumOver(c, t) \in Nat}
  <1>1. ASSUME NEW t \in SUBSET S, \A x \in t : t \ {x} \in T PROVE t \in T
    <2>1. SumOver(c, t) = IF t = {} THEN 0 ELSE c[Pick(t)] + SumOver(c, t \ {Pick(t)})
      BY FinitePart, SumUnfolds
    <2>2. t # {} => c[Pick(t)] \in Nat /\ SumOver(c, t \ {Pick(t)}) \in Nat
      BY <1>1, PickIsIn
    <2> QED
      BY <2>1, <2>2
  <1> HIDE DEF T
  <1>2. \A t \in SUBSET S : t \in T
    BY <1>1, SubsetInduction
  <1> QED
    BY <1>2 DEF T

LEMMA SumAtMost ==
  ASSUME NEW S, IsFiniteSet(S), NEW c, NEW e,
         \A x \in S : c[x] \in Int /\ e[x] \in Int /\ c[x] <= e[x]
  PROVE  SumOver(c, S) <= SumOver(e, S)
  <1> DEFINE T == {t \in SUBSET S : SumOver(c, t) <= SumOver(e, t)}
  <1>1. ASSUME NEW t \in SUBSET S, \A x \in t : t \ {x} \in T PROVE t \in T
    <2>1. IsFiniteSet(t) /\ IsFiniteSet(t \ {Pick(t)})
      BY FinitePart
    <2>2. /\ SumOver(c, t) = IF t = {} THEN 0 ELSE c[Pick(t)] + SumOver(c, t \ {Pick(t)})
          /\ SumOver(e, t) = IF t = {} THEN 0 ELSE e[Pick(t)] + SumOver(e, t \ {Pick(t)})
      BY <2>1, SumUnfolds
    <2>3. t # {} => /\ c[Pick(t)] \in Int /\ e[Pick(t)] \in Int /\ c[Pick(t)] <= e[Pick(t)]
                    /\ SumOver(c, t \ {Pick(t)}) <= SumOver(e, t \ {Pick(t)})
      BY <1>1, PickIsIn
    <2>4. SumOver(c, t \ {Pick(t)}) \in Int /\ SumOver(e, t \ {Pick(t)}) \in Int
      BY <2>1, SumIsInt
    <2> QED
      BY <2>2, <2>3, <2>4
  <1> HIDE DEF T
  <1>2. \A t \in SUBSET S : t \in T
    BY <1>1, SubsetInduction
  <1> QED
    BY <1>2 DEF T

\* Elements of value 0 do not count.
LEMMA SumWithout ==
  ASSUME NEW S, IsFiniteSet(S), NEW R \in SUBSET S, NEW c, \A x \in S : c[x] \in Int,
         \A x \in S \ R : c[x] = 0
  PROVE  SumOver(c, S) = SumOver(c, R)
  <1> DEFINE T == {t \in SUBSET S : SumOver(c, t) = SumOver(c, t \cap R)}
  <1>1. ASSUME NEW t \in SUBSET S, \A x \in t : t \ {x} \in T PROVE t \in T
    <2>1. CASE t \subseteq R
      <3>1. t \cap R = t
        BY <2>1
      <3> QED
        BY <3>1
    <2>2. CASE ~ (t \subseteq R)
      <3>1. PICK x \in t : x \notin R
        BY <2>2
      <3>2. IsFiniteSet(t) /\ IsFiniteSet(t \ {x})
        BY FinitePart
      <3>3. SumOver(c, t) = 0 + SumOver(c, t \ {x})
        BY <3>1, <3>2, SumTakeOut
      <3>4. (t \ {x}) \cap R = t \cap R
        BY <3>1
      <3>5. SumOver(c, t \ {x}) = SumOver(c, t \cap R)
        BY <1>1, <3>4
      <3>6. SumOver(c, t \ {x}) \in Int
        BY <3>2, SumIsInt
      <3> QED
        BY <3>3, <3>5, <3>6
    <2> QED
      BY <2>1, <2>2
  <1> HIDE DEF T
  <1>2. \A t \in SUBSET S : t \in T
    BY <1>1, SubsetInduction
  <1>3. S \cap R = R
    OBVIOUS
  <1> QED
    BY <1>2, <1>3 DEF T

\* Changing one value changes the sum by as much.
LEMMA SumChanges ==
  ASSUME NEW S, IsFiniteSet(S), NEW c, NEW e, NEW x \in S,
         \A y \in S : c[y] \in Int /\ e[y] \in Int, \A y \in S \ {x} : e[y] = c[y]
  PROVE  SumOver(e, S) = SumOver(c, S) + (e[x] - c[x])
  <1>1. IsFiniteSet(S \ {x})
    BY FS_Subset
  <1>2. SumOver(c, S) = c[x] + SumOver(c, S \ {x}) /\ SumOver(e, S) = e[x] + SumOver(e, S \ {x})
    BY SumTakeOut
  <1>3. SumOver(e, S \ {x}) = SumOver(c, S \ {x})
    BY <1>1, SumSame
  <1>4. SumOver(c, S \ {x}) \in Int /\ c[x] \in Int /\ e[x] \in Int
    BY <1>1, SumIsInt
  <1> QED
    BY <1>2, <1>3, <1>4

\* q lists every member of D once, by the places in I.
Lists(q, I, D) ==
    /\ q \in [I -> D] /\ \A i, j \in I : q[i] = q[j] => i = j
    /\ \A x \in D : \E i \in I : q[i] = x

\* Summing along a list without repetitions is summing over what it lists.
LEMMA SumAlong ==
  ASSUME NEW I, IsFiniteSet(I), NEW D, NEW q, Lists(q, I, D), NEW c, NEW e,
         \A x \in D : c[x] \in Int, \A i \in I : e[i] = c[q[i]]
  PROVE  SumOver(e, I) = SumOver(c, D)
  <1> USE DEF Lists
  <1> DEFINE Of(t) == {q[i] : i \in t}
             T == {t \in SUBSET I : SumOver(e, t) = SumOver(c, Of(t))}
  <1>1. ASSUME NEW t \in SUBSET I, \A i \in t : t \ {i} \in T PROVE t \in T
    <2>1. CASE t = {}
      <3>1. Of(t) = {}
        BY <2>1
      <3> QED
        BY <2>1, <3>1, SumEmpty
    <2>2. CASE t # {}
      <3>1. PICK i \in t : TRUE
        BY <2>2
      <3>2. IsFiniteSet(t) /\ IsFiniteSet(Of(t))
        <4>1. IsFiniteSet(t)
          BY FinitePart
        <4> DEFINE h == [j \in t |-> q[j]]
        <4>2. h \in Surjection(t, Of(t))
          BY DEF Surjection
        <4> HIDE DEF h, Of
        <4> QED
          BY <4>1, <4>2, FS_Surjection
      <3>3. Of(t \ {i}) = Of(t) \ {q[i]} /\ q[i] \in Of(t)
        OBVIOUS
      <3>4. \A x \in Of(t) : c[x] \in Int
        OBVIOUS
      <3>5. \A x \in t : e[x] \in Int
        OBVIOUS
      <3> HIDE DEF Of
      <3>6. SumOver(c, Of(t)) = c[q[i]] + SumOver(c, Of(t) \ {q[i]})
        BY <3>2, <3>3, <3>4, SumTakeOut
      <3>7. SumOver(e, t) = e[i] + SumOver(e, t \ {i})
        BY <3>2, <3>5, SumTakeOut
      <3>8. SumOver(e, t \ {i}) = SumOver(c, Of(t \ {i}))
        BY <1>1
      <3> QED
        BY <3>3, <3>6, <3>7, <3>8
    <2> QED
      BY <2>1, <2>2
  <1> HIDE DEF T
  <1>2. \A t \in SUBSET I : t \in T
    BY <1>1, SubsetInduction
  <1>3. Of(I) = D
    <2>1. \A x : x \in Of(I) <=> x \in D
      OBVIOUS
    <2> HIDE DEF Of
    <2> QED
      BY <2>1
  <1> QED
    BY <1>2, <1>3 DEF T

\* Sums over the first numbers.
LEMMA SumToNext ==
    ASSUME NEW n \in Nat, NEW c, \A i \in 1..(n + 1) : c[i] \in Int
    PROVE  SumOver(c, 1..(n + 1)) = SumOver(c, 1..n) + c[n + 1]
  <1> DEFINE U == 1..n
             x == n + 1
  <1>1. 1 \in Int /\ n \in Int
    OBVIOUS
  <1>2. IsFiniteSet(U)
    BY <1>1, FS_Interval
  <1>3. x \notin U /\ 1..(n + 1) = U \cup {x} /\ \A y \in U \cup {x} : c[y] \in Int
    OBVIOUS
  <1>4. \A y \in U : c[y] \in Int
    OBVIOUS
  <1> HIDE DEF U, x
  <1>5. SumOver(c, U \cup {x}) = c[x] + SumOver(c, U)
    BY <1>2, <1>3, SumAdd
  <1>6. SumOver(c, U) \in Int /\ c[x] \in Int
    BY <1>2, <1>3, <1>4, SumIsInt
  <1>7. SumOver(c, U \cup {x}) = SumOver(c, U) + c[x]
    BY <1>5, <1>6
  <1> QED
    BY <1>3, <1>7 DEF U, x

LEMMA SumOfNone == \A c : SumOver(c, 1..0) = 0
  <1>1. 1..0 = {}
    OBVIOUS
  <1> QED
    BY <1>1, SumEmpty

\* The first m values of c climb by a from b.
Climbs(c, m, a, b) == \A i \in 1..m : c[i] = a * (i - 1) + b

LEMMA SumOfSteps ==
    ASSUME NEW m \in Nat, NEW a \in Int, NEW b \in Int, NEW c, Climbs(c, m, a, b)
    PROVE  2 * SumOver(c, 1..m) = a * (m * (m - 1)) + 2 * b * m
  <1> USE DEF Climbs
  <1> DEFINE T == {n \in Nat : n <= m => 2 * SumOver(c, 1..n) = a * (n * (n - 1)) + 2 * b * n}
  <1>1. 0 \in T
    BY SumOfNone
  <1>2. ASSUME NEW n \in T PROVE n + 1 \in T
    <2> SUFFICES ASSUME n + 1 <= m
                 PROVE  2 * SumOver(c, 1..(n + 1)) = a * ((n + 1) * n) + 2 * b * (n + 1)
      OBVIOUS
    <2>1. n \in Nat /\ n <= m /\ 2 * SumOver(c, 1..n) = a * (n * (n - 1)) + 2 * b * n
      OBVIOUS
    <2>2. \A i \in 1..(n + 1) : c[i] \in Int
      BY <2>1
    <2>3. c[n + 1] = a * n + b
      BY <2>1
    <2>4. SumOver(c, 1..(n + 1)) = SumOver(c, 1..n) + c[n + 1]
      BY <2>1, <2>2, SumToNext
    <2>5. SumOver(c, 1..n) \in Int
      <3>1. 1 \in Int /\ n \in Int
        BY <2>1
      <3>2. IsFiniteSet(1..n) /\ \A i \in 1..n : c[i] \in Int
        BY <2>1, <2>2, <3>1, FS_Interval
      <3> QED
        BY <3>2, SumIsInt
    <2> DEFINE S == SumOver(c, 1..n)
    <2>6. S \in Int /\ 2 * S = a * (n * (n - 1)) + 2 * b * n
      BY <2>1, <2>5
    <2>7. SumOver(c, 1..(n + 1)) = S + (a * n + b)
      BY <2>3, <2>4
    <2> HIDE DEF S
    <2>8. 2 * (S + (a * n + b)) = a * ((n + 1) * n) + 2 * b * (n + 1)
      BY <2>1, <2>6
    <2> QED
      BY <2>7, <2>8
  <1>3. T \subseteq Nat
    OBVIOUS
  <1> HIDE DEF T
  <1>4. m \in T
    BY <1>1, <1>2, <1>3, NumberInduction
  <1> QED
    BY <1>4 DEF T

LEMMA SumOfStepSquares ==
    ASSUME NEW m \in Nat, NEW c, \A i \in 1..m : c[i] = (i - 1) * (i - 1)
    PROVE  6 * SumOver(c, 1..m) = m * (m - 1) * (2 * m - 1)
  <1> DEFINE T == {n \in Nat : n <= m => 6 * SumOver(c, 1..n) = n * (n - 1) * (2 * n - 1)}
  <1>1. 0 \in T
    BY SumOfNone
  <1>2. ASSUME NEW n \in T PROVE n + 1 \in T
    <2> SUFFICES ASSUME n + 1 <= m
                 PROVE  6 * SumOver(c, 1..(n + 1)) = (n + 1) * n * (2 * n + 1)
      OBVIOUS
    <2>1. n \in Nat /\ n <= m /\ 6 * SumOver(c, 1..n) = n * (n - 1) * (2 * n - 1)
      OBVIOUS
    <2>2. \A i \in 1..(n + 1) : c[i] \in Int
      BY <2>1
    <2>3. c[n + 1] = n * n
      BY <2>1
    <2>4. SumOver(c, 1..(n + 1)) = SumOver(c, 1..n) + c[n + 1]
      BY <2>1, <2>2, SumToNext
    <2>5. SumOver(c, 1..n) \in Int
      <3>1. 1 \in Int /\ n \in Int
        BY <2>1
      <3>2. IsFiniteSet(1..n) /\ \A i \in 1..n : c[i] \in Int
        BY <2>1, <2>2, <3>1, FS_Interval
      <3> QED
        BY <3>2, SumIsInt
    <2> DEFINE S == SumOver(c, 1..n)
    <2>6. S \in Int /\ 6 * S = n * (n - 1) * (2 * n - 1)
      BY <2>1, <2>5
    <2>7. SumOver(c, 1..(n + 1)) = S + n * n
      BY <2>3, <2>4
    <2> HIDE DEF S
    <2>8. 6 * (S + n * n) = (n + 1) * n * (2 * n + 1)
      BY <2>1, <2>6
    <2> QED
      BY <2>7, <2>8
  <1>3. T \subseteq Nat
    OBVIOUS
  <1> HIDE DEF T
  <1>4. m \in T
    BY <1>1, <1>2, <1>3, NumberInduction
  <1> QED
    BY <1>4 DEF T

-----------------------------------------------------------------------------
(* Groups and squares.                                                     *)

\* The sizes of sets that have nothing in common add up to the size of all.
LEMMA SumOfParts ==
  ASSUME NEW C, IsFiniteSet(C), NEW part, NEW size, NEW all,
         \A x \in C : IsFiniteSet(part[x]) /\ size[x] = Cardinality(part[x]),
         \A x, y \in C : x # y => part[x] \cap part[y] = {},
         \A a : a \in all <=> \E x \in C : a \in part[x]
  PROVE  SumOver(size, C) = Cardinality(all)
  <1> DEFINE Of(D) == UNION {part[x] : x \in D}
             T == {D \in SUBSET C : /\ IsFiniteSet(Of(D))
                                    /\ SumOver(size, D) = Cardinality(Of(D))}
  <1>1. ASSUME NEW D \in SUBSET C, \A x \in D : D \ {x} \in T PROVE D \in T
    <2>1. CASE D = {}
      <3>1. Of(D) = {}
        BY <2>1
      <3> QED
        BY <2>1, <3>1, SumEmpty, FS_EmptySet
    <2>2. CASE D # {}
      <3>1. PICK x \in D : TRUE
        BY <2>2
      <3>2. Of(D) = part[x] \cup Of(D \ {x}) /\ part[x] \cap Of(D \ {x}) = {}
        OBVIOUS
      <3>3. /\ IsFiniteSet(D) /\ IsFiniteSet(part[x]) /\ IsFiniteSet(Of(D \ {x}))
            /\ SumOver(size, D \ {x}) = Cardinality(Of(D \ {x})) /\ size[x] = Cardinality(part[x])
        BY <1>1, FinitePart
      <3>4. \A y \in D : size[y] \in Int
        BY FS_CardinalityType
      <3>5. SumOver(size, D) = size[x] + SumOver(size, D \ {x})
        BY <3>3, <3>4, SumTakeOut
      <3> DEFINE rest == Of(D \ {x})
      <3> HIDE DEF Of
      <3>6. /\ IsFiniteSet(part[x] \cup rest)
            /\ Cardinality(part[x] \cup rest) =
                   Cardinality(part[x]) + Cardinality(rest) - Cardinality(part[x] \cap rest)
        BY <3>3, FS_Union
      <3>7. /\ Cardinality(part[x]) \in Nat /\ Cardinality(rest) \in Nat
            /\ Cardinality(part[x] \cap rest) = 0
        BY <3>2, <3>3, FS_CardinalityType, FS_EmptySet
      <3>8. IsFiniteSet(Of(D)) /\ SumOver(size, D) = Cardinality(Of(D))
        BY <3>2, <3>3, <3>5, <3>6, <3>7
      <3> QED
        BY <3>8
    <2> QED
      BY <2>1, <2>2
  <1>2. all = Of(C)
    OBVIOUS
  <1> HIDE DEF T
  <1>3. \A D \in SUBSET C : D \in T
    BY <1>1, SubsetInduction
  <1> QED
    BY <1>2, <1>3 DEF T

LEMMA SquareIsNat == ASSUME NEW x \in Int PROVE x * x \in Nat
  OBVIOUS

LEMMA OneMoreSquare ==
  ASSUME NEW v \in Int, NEW s \in Int, NEW w \in Nat, NEW n \in Nat, s * s <= n * w,
         n = 0 => s = 0 /\ w = 0
  PROVE  (v + s) * (v + s) <= (n + 1) * (v * v + w)
  <1> DEFINE a == v * v
             b == v * s
             k == n * a
             g == w + k - 2 * b
  <1>1. a \in Nat /\ b \in Int /\ k \in Nat /\ g \in Int
    OBVIOUS
  <1>2. (v + s) * (v + s) = a + 2 * b + s * s
    OBVIOUS
  <1>3. (n + 1) * (a + w) = k + n * w + a + w
    OBVIOUS
  <1>4. CASE n = 0
    BY <1>4
  <1>5. CASE n > 0
    <2>1. n * g = n * w + n * k - 2 * (n * b)
      OBVIOUS
    <2>2. (s - n * v) * (s - n * v) = s * s - 2 * (n * b) + n * k
      OBVIOUS
    <2>3. (s - n * v) * (s - n * v) >= 0
      OBVIOUS
    <2>4. n * g >= 0
      <3> HIDE DEF a, b, k, g
      <3> QED
        BY <1>1, <2>1, <2>2, <2>3
    <2>5. g >= 0
      <3> HIDE DEF g
      <3> QED
        BY <1>1, <1>5, <2>4
    <2> HIDE DEF a, b, k
    <2> QED
      BY <1>1, <1>2, <1>3, <2>5
  <1> QED
    BY <1>4, <1>5

\* The square of a sum is at most the number of its terms times the sum of their squares.
LEMMA SumOfSquares ==
  ASSUME NEW S, IsFiniteSet(S), NEW c, \A x \in S : c[x] \in Int,
         NEW e, \A x \in S : e[x] = c[x] * c[x]
  PROVE  SumOver(c, S) * SumOver(c, S) <= Cardinality(S) * SumOver(e, S)
  <1> DEFINE T == {t \in SUBSET S :
                     SumOver(c, t) * SumOver(c, t) <= Cardinality(t) * SumOver(e, t)}
  <1>1. ASSUME NEW t \in SUBSET S, \A x \in t : t \ {x} \in T PROVE t \in T
    <2>1. CASE t = {}
      BY <2>1, SumEmpty, FS_EmptySet
    <2>2. CASE t # {}
      <3>1. PICK x \in t : TRUE
        BY <2>2
      <3> DEFINE r == t \ {x}
                 s == SumOver(c, r)
                 w == SumOver(e, r)
                 n == Cardinality(r)
      <3>2. IsFiniteSet(t) /\ IsFiniteSet(r)
        BY FinitePart
      <3>3. c[x] \in Int /\ e[x] = c[x] * c[x] /\ \A y \in t : c[y] \in Int /\ e[y] \in Nat
        BY SquareIsNat
      <3>4. s \in Int /\ w \in Nat
        BY <3>2, <3>3, SumIsInt, SumIsNat
      <3>5. n \in Nat /\ Cardinality(t) = n + 1
        BY <3>2, OneLess
      <3>6. SumOver(c, t) = c[x] + s /\ SumOver(e, t) = c[x] * c[x] + w
        <4>1. \A y \in t : e[y] \in Int
          BY <3>3
        <4>2. SumOver(c, t) = c[x] + s
          BY <3>2, <3>3, SumTakeOut
        <4>3. SumOver(e, t) = e[x] + w
          BY <3>2, <4>1, SumTakeOut
        <4> QED
          BY <3>3, <4>2, <4>3
      <3>7. s * s <= n * w
        BY <1>1
      <3>8. n = 0 => s = 0 /\ w = 0
        <4> SUFFICES ASSUME n = 0 PROVE s = 0 /\ w = 0
          OBVIOUS
        <4>1. r = {}
          BY <3>2, FinitePart
        <4> QED
          BY <4>1, SumEmpty
      <3> HIDE DEF s, w, n
      <3>9. (c[x] + s) * (c[x] + s) <= (n + 1) * (c[x] * c[x] + w)
        BY <3>3, <3>4, <3>5, <3>7, <3>8, OneMoreSquare
      <3> QED
        BY <3>5, <3>6, <3>9
    <2> QED
      BY <2>1, <2>2
  <1> HIDE DEF T
  <1>2. \A t \in SUBSET S : t \in T
    BY <1>1, SubsetInduction
  <1> QED
    BY <1>2 DEF T

-----------------------------------------------------------------------------
(* Lists of the members of a set.                                          *)

\* A finite set whose members have numbers of their own can be listed by them.
LEMMA SortedListExists ==
    ASSUME NEW E, IsFiniteSet(E), NEW c \in [E -> Int], \A s, t \in E : c[s] = c[t] => s = t
    PROVE  \E q \in SetToSeqs(E) : \A i, j \in DOMAIN q : i < j => c[q[i]] < c[q[j]]
  <1> DEFINE n == Cardinality(E)
             below(s) == {t \in E : c[t] < c[s]}
             r == [s \in E |-> Cardinality(below(s)) + 1]
  <1>1. n \in Nat /\ IsFiniteSet(1..n) /\ Cardinality(1..n) = n
    BY FS_CardinalityType, FS_Interval
  <1>2. \A s \in E : /\ IsFiniteSet(below(s)) /\ Cardinality(below(s)) \in Nat
                     /\ Cardinality(below(s)) < n
    <2> TAKE s \in E
    <2>1. below(s) \in SUBSET E /\ s \in E /\ s \notin below(s)
      OBVIOUS
    <2>2. IsFiniteSet(below(s)) /\ Cardinality(below(s)) <= n /\ Cardinality(below(s)) # n
      <3> HIDE DEF below
      <3> QED
        BY <2>1, FS_Subset
    <2>3. Cardinality(below(s)) \in Nat
      BY <2>2, FS_CardinalityType
    <2> QED
      BY <1>1, <2>2, <2>3
  <1>3. \A s, t \in E : c[s] < c[t] => r[s] < r[t]
    <2> SUFFICES ASSUME NEW s \in E, NEW t \in E, c[s] < c[t] PROVE r[s] < r[t]
      OBVIOUS
    <2>1. below(s) \in SUBSET below(t)
      OBVIOUS
    <2>2. s \in below(t) /\ s \notin below(s)
      OBVIOUS
    <2>3. Cardinality(below(s)) <= Cardinality(below(t))
          /\ Cardinality(below(s)) # Cardinality(below(t))
      <3>1. IsFiniteSet(below(t))
        BY <1>2
      <3> HIDE DEF below
      <3> QED
        BY <2>1, <2>2, <3>1, FS_Subset
    <2>4. Cardinality(below(s)) \in Nat /\ Cardinality(below(t)) \in Nat
      BY <1>2
    <2> QED
      BY <2>3, <2>4
  <1>4. r \in [E -> 1..n]
    <2> SUFFICES ASSUME NEW s \in E PROVE Cardinality(below(s)) + 1 \in 1..n
      OBVIOUS
    <2>1. Cardinality(below(s)) \in Nat /\ Cardinality(below(s)) < n
      BY <1>2
    <2> HIDE DEF below, n
    <2> QED
      BY <1>1, <2>1
  <1> HIDE DEF r
  <1>5. \A s, t \in E : r[s] = r[t] => s = t
    BY <1>3, <1>4, <1>1
  <1>6. r \in Injection(E, 1..n)
    BY <1>4, <1>5, Fun_IsInj
  <1>7. r \in Surjection(E, 1..n)
    BY <1>1, <1>6, FS_Injection
  <1>8. r \in Bijection(E, 1..n)
    BY <1>6, <1>7, Fun_IsBij
  <1> DEFINE q == [i \in 1..n |-> CHOOSE s \in E : r[s] = i]
  <1>9. q \in [1..n -> E] /\ \A i \in 1..n : r[q[i]] = i
    <2>1. \A i \in 1..n : \E s \in E : r[s] = i
      BY <1>7, Fun_SurjectionProperties
    <2> QED
      BY <2>1
  <1> HIDE DEF q
  <1>10. q \in SetToSeqs(E)
    <2>1. \A i, j \in 1..n : i # j => q[i] # q[j]
      BY <1>9
    <2> QED
      BY <1>9, <2>1 DEF SetToSeqs
  <1>11. \A i, j \in 1..n : i < j => c[q[i]] < c[q[j]]
    <2> SUFFICES ASSUME NEW i \in 1..n, NEW j \in 1..n, i < j PROVE c[q[i]] < c[q[j]]
      OBVIOUS
    <2>1. q[i] \in E /\ q[j] \in E /\ r[q[i]] = i /\ r[q[j]] = j
      BY <1>9
    <2>2. c[q[i]] \in Int /\ c[q[j]] \in Int
      BY <2>1
    <2>3. ~(c[q[j]] < c[q[i]])
      <3>1. c[q[j]] < c[q[i]] => j < i
        BY <1>3, <2>1
      <3> QED
        BY <3>1, <1>1
    <2>4. c[q[i]] # c[q[j]]
      BY <2>1, <1>1
    <2> QED
      BY <2>2, <2>3, <2>4
  <1> QED
    BY <1>9, <1>10, <1>11

\* And in such a list each member stands behind those with smaller numbers.
LEMMA SortedPlaces ==
    ASSUME NEW E, IsFiniteSet(E), NEW c \in [E -> Int], NEW q \in SetToSeqs(E),
           \A i, j \in DOMAIN q : i < j => c[q[i]] < c[q[j]], NEW s \in E
    PROVE  /\ q \in Seq(E) /\ Len(q) = Cardinality(E)
           /\ Cardinality({t \in E : c[t] < c[s]}) + 1 \in 1..Cardinality(E)
           /\ q[Cardinality({t \in E : c[t] < c[s]}) + 1] = s
  <1> DEFINE n == Cardinality(E)
  <1>1. n \in Nat /\ IsFiniteSet(1..n) /\ Cardinality(1..n) = n
    BY FS_CardinalityType, FS_Interval
  <1>2. q \in [1..n -> E] /\ \A i, j \in 1..n : i # j => q[i] # q[j]
    BY DEF SetToSeqs
  <1>3. q \in Injection(1..n, E)
    BY <1>2, Fun_IsInj
  <1>4. q \in Surjection(1..n, E)
    BY <1>1, <1>3, FS_Injection
  <1> HIDE DEF n
  <1>13. \A t \in E : \E i \in 1..n : q[i] = t
    BY <1>4 DEF Surjection
  <1>5. PICK k \in 1..n : q[k] = s
    BY <1>13
  <1> DEFINE below == {t \in E : c[t] < c[s]}
             front == [i \in 1..(k - 1) |-> q[i]]
  <1>6. k - 1 \in Nat /\ 1..(k - 1) \subseteq 1..n
    BY <1>1
  <1>7. front \in [1..(k - 1) -> below]
    <2> SUFFICES ASSUME NEW i \in 1..(k - 1) PROVE q[i] \in below
      OBVIOUS
    <2>1. i \in DOMAIN q /\ k \in DOMAIN q /\ i < k
      BY <1>1, <1>2, <1>6
    <2> QED
      BY <1>2, <1>5, <1>6, <2>1
  <1>8. \A i, j \in 1..(k - 1) : front[i] = front[j] => i = j
    BY <1>2, <1>6
  <1>9. \A t \in below : \E i \in 1..(k - 1) : front[i] = t
    <2> TAKE t \in below
    <2>1. PICK i \in 1..n : q[i] = t
      BY <1>13
    <2>2. c[q[i]] < c[q[k]] /\ c[q[i]] \in Int /\ c[q[k]] \in Int
      BY <2>1, <1>5
    <2>3. i < k
      <3>1. CASE i = k
        BY <3>1, <2>2
      <3>2. CASE k < i
        <4>1. c[q[k]] < c[q[i]]
          BY <1>2, <3>2
        <4> QED
          BY <4>1, <2>2
      <3> QED
        BY <3>1, <3>2, <1>1
    <2> QED
      BY <2>1, <2>3, <1>1
  <1> HIDE DEF below, front
  <1>10. front \in Bijection(1..(k - 1), below)
    BY <1>7, <1>8, <1>9, Fun_IsBij
  <1>11. Cardinality(below) = k - 1
    <2>1. IsFiniteSet(1..(k - 1)) /\ Cardinality(1..(k - 1)) = k - 1
      BY <1>6, FS_Interval
    <2>2. ExistsBijection(1..(k - 1), below)
      BY <1>10, Fun_ExistsBij
    <2> QED
      BY <2>1, <2>2, FS_Bijection
  <1>12. q \in Seq(E) /\ Len(q) = n
    BY <1>1, <1>2
  <1> QED
    BY <1>1, <1>5, <1>11, <1>12 DEF below, n
=============================================================================
