----------------------------- MODULE FoldLemmas -----------------------------
(***************************************************************************)
(* Facts about the folds of the community modules that the proofs about   *)
(* the sizes of the deep copies rest on.  A fold is a recursive function  *)
(* over the subsets of its index set; its defining equation holds because *)
(* a function satisfying it exists, and what it computes follows by       *)
(* induction on the size of the subset, both argued here for sums of      *)
(* naturals without an induction rule that takes a predicate.             *)
(***************************************************************************)
EXTENDS Naturals, FiniteSets, Functions, FiniteSetTheorems,
        WellFoundedInduction, TLAPS

\* Every non-empty set of naturals has a least element: the well-ordering
\* that stands in for induction below.
LEMMA NatWellOrdered ==
    ASSUME NEW S \in SUBSET Nat, S # {}
    PROVE  \E m \in S : \A k \in S : m <= k
<1>1. IsWellFoundedOn(OpToRel(<, Nat), Nat)
  BY NatLessThanWellFounded
<1>2. \E m \in S : \A k \in S : ~(<<k, m>> \in OpToRel(<, Nat))
  BY <1>1, WFMin
<1>3. PICK m \in S : \A k \in S : ~(<<k, m>> \in OpToRel(<, Nat))
  BY <1>2
<1>4. \A k \in S : ~(k < m)
  BY <1>3 DEF OpToRel
<1>5. QED
  BY <1>4

\* SumFunctionOnSet(fun, I) is the value at I of the function over the
\* subsets of I that MapThenFoldSet defines.
LEMMA Unfold ==
    ASSUME NEW fun, NEW I
    PROVE  SumFunctionOnSet(fun, I) =
           (CHOOSE g : g = [s \in SUBSET I |->
                              IF s = {} THEN 0
                              ELSE fun[CHOOSE x \in s : TRUE]
                                   + g[s \ {CHOOSE x \in s : TRUE}]])[I]
BY DEF SumFunctionOnSet, FoldFunctionOnSet, MapThenFoldSet

\* A sum of naturals over a finite set of indices is a natural.  The
\* function G that counts the pairs <<x, k>> with k in 1..fun[x] satisfies
\* the defining equation, so the CHOOSE of MapThenFoldSet picks a solution;
\* any solution is a natural on every subset, by a least subset on which
\* it is not.
LEMMA SumOnSetNat ==
    ASSUME NEW fun, NEW I, IsFiniteSet(I), I \subseteq DOMAIN fun,
           \A i \in I : fun[i] \in Nat
    PROVE  SumFunctionOnSet(fun, I) \in Nat
<1> DEFINE ch(s) == CHOOSE x \in s : TRUE
           Eq(g) == g = [s \in SUBSET I |->
                          IF s = {} THEN 0 ELSE fun[ch(s)] + g[s \ {ch(s)}]]
           iter == CHOOSE g : Eq(g)
           Cnt(s) == UNION {{x} \X (1..fun[x]) : x \in s}
           G == [s \in SUBSET I |-> Cardinality(Cnt(s))]
<1>0. SumFunctionOnSet(fun, I) = iter[I]
  BY Unfold
<1>1. ASSUME NEW s \in SUBSET I
      PROVE  IsFiniteSet(s) /\ Cardinality(s) \in Nat
  BY FS_Subset, FS_CardinalityType
<1>2. ASSUME NEW s \in SUBSET I, s # {}
      PROVE  /\ ch(s) \in s
             /\ s \ {ch(s)} \in SUBSET I
             /\ Cardinality(s \ {ch(s)}) = Cardinality(s) - 1
             /\ Cardinality(s) > 0
  <2>1. ch(s) \in s
    BY <1>2 DEF ch
  <2>2. Cardinality(s) # 0
    <3>1. IsFiniteSet(s)
      BY <1>1
    <3>2. QED
      BY <1>2, <3>1, FS_EmptySet, Zenon
  <2>3. Cardinality(s \ {ch(s)}) = Cardinality(s) - 1
    BY <1>1, <2>1, FS_RemoveElement
  <2>4. QED
    BY <1>1, <2>1, <2>2, <2>3
<1>3. ASSUME NEW x \in I
      PROVE  /\ IsFiniteSet({x} \X (1..fun[x]))
             /\ Cardinality({x} \X (1..fun[x])) = fun[x]
  <2>1. IsFiniteSet({x}) /\ Cardinality({x}) = 1
    BY FS_Singleton
  <2>2. IsFiniteSet(1..fun[x]) /\ Cardinality(1..fun[x]) = fun[x]
    BY FS_Interval
  <2>3. /\ IsFiniteSet({x} \X (1..fun[x]))
        /\ Cardinality({x} \X (1..fun[x])) = 1 * fun[x]
    BY <2>1, <2>2, FS_Product
  <2>4. QED
    BY <2>3
<1>4. ASSUME NEW s \in SUBSET I, s # {}
      PROVE  Cnt(s) = ({ch(s)} \X (1..fun[ch(s)])) \cup Cnt(s \ {ch(s)})
             /\ ({ch(s)} \X (1..fun[ch(s)])) \cap Cnt(s \ {ch(s)}) = {}
  <2> DEFINE x == ch(s)
  <2>1. x \in s
    BY <1>2, <1>4
  <2>2. Cnt(s) = ({x} \X (1..fun[x])) \cup Cnt(s \ {x})
    BY <2>1 DEF Cnt
  <2>3. ({x} \X (1..fun[x])) \cap Cnt(s \ {x}) = {}
    BY DEF Cnt
  <2>4. QED
    BY <2>2, <2>3
<1>5. \A s \in SUBSET I : IsFiniteSet(Cnt(s))
  <2> SUFFICES ASSUME NEW s0 \in SUBSET I, ~IsFiniteSet(Cnt(s0)) PROVE FALSE
    OBVIOUS
  <2> DEFINE Bad == {k \in Nat : \E t \in SUBSET I : Cardinality(t) = k /\ ~IsFiniteSet(Cnt(t))}
  <2>1. Bad \in SUBSET Nat /\ Bad # {}
    BY <1>1 DEF Bad
  <2>2. PICK m \in Bad : \A k \in Bad : m <= k
    BY <2>1, NatWellOrdered
  <2>3. PICK t \in SUBSET I : Cardinality(t) = m /\ ~IsFiniteSet(Cnt(t))
    BY <2>2 DEF Bad
  <2>4. t # {}
    <3>1. Cnt({}) = {}
      BY DEF Cnt
    <3>2. QED
      BY <3>1, <2>3, FS_EmptySet
  <2> DEFINE x == ch(t)
             A == {x} \X (1..fun[x])
             u == t \ {x}
  <2>5. /\ x \in I
        /\ u \in SUBSET I
        /\ Cardinality(u) = m - 1
        /\ m - 1 \in Nat
    BY <2>3, <2>4, <1>2
  <2>6. IsFiniteSet(Cnt(u))
    <3>1. m - 1 \notin Bad
      BY <2>2 DEF Bad
    <3>2. QED
      BY <3>1, <2>5 DEF Bad
  <2>7. Cnt(t) = A \cup Cnt(u)
    BY <2>3, <2>4, <1>4
  <2>8. IsFiniteSet(A)
    BY <2>5, <1>3
  <2>9. IsFiniteSet(A \cup Cnt(u))
    BY <2>6, <2>8, FS_Union
  <2>10. QED
    BY <2>3, <2>7, <2>9
<1>6. ASSUME NEW s \in SUBSET I, s # {}
      PROVE  G[s] = fun[ch(s)] + G[s \ {ch(s)}]
  <2> DEFINE x == ch(s)
             A == {x} \X (1..fun[x])
             u == s \ {x}
  <2>1. x \in I /\ u \in SUBSET I
    BY <1>2, <1>6
  <2>2. IsFiniteSet(Cnt(u))
    BY <2>1, <1>5
  <2>3. IsFiniteSet(A) /\ Cardinality(A) = fun[x]
    BY <2>1, <1>3
  <2>4. Cnt(s) = A \cup Cnt(u) /\ A \cap Cnt(u) = {}
    BY <1>4, <1>6
  <2>5. Cardinality(Cnt(s)) = Cardinality(A) + Cardinality(Cnt(u)) - Cardinality({})
    BY <2>2, <2>3, <2>4, FS_Union
  <2>6. Cardinality(Cnt(s)) = fun[x] + Cardinality(Cnt(u))
    BY <2>2, <2>3, <2>5, FS_EmptySet, FS_CardinalityType
  <2>7. QED
    BY <2>1, <2>6, <1>6 DEF G
<1>7. Eq(G)
  <2>1. G[{}] = 0
    BY FS_EmptySet DEF G, Cnt
  <2>2. QED
    BY <2>1, <1>6 DEF Eq, G
<1>8. Eq(iter)
  BY <1>7 DEF iter
<1>9. \A s \in SUBSET I : iter[s] \in Nat
  <2> SUFFICES ASSUME NEW s0 \in SUBSET I, iter[s0] \notin Nat PROVE FALSE
    OBVIOUS
  <2> DEFINE Bad == {k \in Nat : \E t \in SUBSET I : Cardinality(t) = k /\ iter[t] \notin Nat}
  <2>1. Bad \in SUBSET Nat /\ Bad # {}
    BY <1>1 DEF Bad
  <2>2. PICK m \in Bad : \A k \in Bad : m <= k
    BY <2>1, NatWellOrdered
  <2>3. PICK t \in SUBSET I : Cardinality(t) = m /\ iter[t] \notin Nat
    BY <2>2 DEF Bad
  <2>4. t # {}
    <3>1. iter[{}] = 0
      BY <1>8 DEF Eq
    <3>2. t = {} => iter[t] \in Nat
      BY <3>1
    <3>3. QED
      BY <3>2, <2>3
  <2> DEFINE x == ch(t)
             u == t \ {x}
  <2>5. /\ x \in I
        /\ u \in SUBSET I
        /\ Cardinality(u) = m - 1
        /\ m - 1 \in Nat
    BY <2>3, <2>4, <1>2
  <2>6. iter[u] \in Nat
    <3>1. m - 1 \notin Bad
      <4>1. m \in Nat /\ ~(m <= m - 1)
        BY DEF Bad
      <4>2. QED
        BY <2>2, <4>1, Zenon
    <3>2. QED
      BY <3>1, <2>5 DEF Bad
  <2>7. iter[t] = fun[x] + iter[u]
    BY <2>4, <1>8 DEF Eq
  <2>8. QED
    BY <2>3, <2>5, <2>6, <2>7
<1>10. QED
  BY <1>0, <1>9
=============================================================================
