------------------------------ MODULE SumProofs ------------------------------
(***************************************************************************)
(* Facts about SumFunctionOnSet and SumFunction of the community modules,  *)
(* for functions of integers and finite sets of any size: what a set that  *)
(* grows by an element, a union of disjoint sets, a sum of two functions   *)
(* or another order of the elements does to a sum.                         *)
(*                                                                         *)
(* The library's induction theorems take a predicate as their parameter;   *)
(* here it is a set, of numbers or of subsets, and what the induction      *)
(* rests on is that < is well-founded on Nat (WFMin).                      *)
(***************************************************************************)
EXTENDS FiniteSetsExt, FiniteSetTheorems, TLAPS

-----------------------------------------------------------------------------
(* Induction over a set.                                                   *)

LEMMA CountingUp ==
  ASSUME NEW T \in SUBSET Nat, 0 \in T, \A n \in T : n + 1 \in T
  PROVE  T = Nat
<1> SUFFICES ASSUME Nat \ T # {} PROVE FALSE
  OBVIOUS
<1> DEFINE less == {ss \in Nat \X Nat : ss[1] < ss[2]}
<1>1. IsWellFoundedOn(less, Nat)
  BY NatLessThanWellFounded DEF OpToRel
<1>2. PICK n \in Nat \ T : \A k \in Nat \ T : ~(<<k, n>> \in less)
  <2>1. Nat \ T \subseteq Nat
    OBVIOUS
  <2> QED
    BY <1>1, <2>1, WFMin
<1>3. n # 0 /\ n - 1 \in Nat
  BY <1>2
<1>4. n - 1 \in T
  <2>1. <<n - 1, n>> \in less
    BY <1>2, <1>3
  <2> HIDE DEF less
  <2> QED
    BY <1>2, <1>3, <2>1
<1>5. (n - 1) + 1 = n
  BY <1>2
<1> QED
  BY <1>2, <1>4, <1>5

\* What holds of the empty set, and of a set with one more element whenever it holds of the
\* set, holds of every finite set.
LEMMA GrowingUp ==
  ASSUME NEW S, IsFiniteSet(S), NEW F \in SUBSET SUBSET S,
         {} \in F, \A T \in F : \A x \in S \ T : T \cup {x} \in F
  PROVE  S \in F
<1> DEFINE sizes == {n \in Nat : \A T \in SUBSET S : Cardinality(T) = n => T \in F}
<1>1. 0 \in sizes
  BY FS_Subset, FS_EmptySet
<1>2. ASSUME NEW n \in sizes PROVE n + 1 \in sizes
  <2> SUFFICES ASSUME NEW T \in SUBSET S, Cardinality(T) = n + 1 PROVE T \in F
    OBVIOUS
  <2>1. IsFiniteSet(T) /\ T # {}
    BY FS_Subset, FS_EmptySet
  <2>2. PICK x : x \in T
    BY <2>1
  <2>3. Cardinality(T \ {x}) = n
    <3>1. n \in Nat /\ Cardinality(T \ {x}) = Cardinality(T) - 1
      BY <2>1, <2>2, FS_RemoveElement
    <3> QED
      BY <3>1
  <2>4. T \ {x} \in F /\ (T \ {x}) \cup {x} = T
    BY <2>2, <2>3
  <2> QED
    BY <2>2, <2>4
<1>3. sizes = Nat
  <2> HIDE DEF sizes
  <2>1. sizes \in SUBSET Nat
    BY DEF sizes
  <2> QED
    BY <1>1, <1>2, <2>1, CountingUp
<1>4. Cardinality(S) \in sizes
  BY <1>3, FS_CardinalityType
<1> QED
  BY <1>4

-----------------------------------------------------------------------------
(* The recursion of a sum: its library definition takes out the chosen     *)
(* element of the set, over and over.                                      *)

First(s) == CHOOSE x \in s : TRUE
IsSumOver(g, f, D) ==
  g = [s \in D |-> IF s = {} THEN 0 ELSE f[First(s)] + g[s \ {First(s)}]]

SmallSets(S, n) == {s \in SUBSET S : Cardinality(s) <= n}

LEMMA FirstIn == ASSUME NEW S, S # {} PROVE First(S) \in S
  BY DEF First

LEMMA SumUnfolded ==
  ASSUME NEW f, NEW S
  PROVE  SumFunctionOnSet(f, S) = (CHOOSE g : IsSumOver(g, f, SUBSET S))[S]
  BY DEF SumFunctionOnSet, FoldFunctionOnSet, MapThenFoldSet, IsSumOver, First

\* There are sums of all subsets up to a size.
LEMMA PartialSums ==
  ASSUME NEW f, NEW S, IsFiniteSet(S), NEW n \in Nat
  PROVE  \E g : IsSumOver(g, f, SmallSets(S, n))
<1> USE DEF SmallSets
<1> DEFINE Upto(k) == SmallSets(S, k)
           sizes == {k \in Nat : \E g : IsSumOver(g, f, Upto(k))}
<1>0. \A s \in SUBSET S : IsFiniteSet(s) /\ Cardinality(s) \in Nat
  BY FS_Subset, FS_CardinalityType
<1>1. 0 \in sizes
  <2>1. Upto(0) = {{}}
    BY <1>0, FS_EmptySet
  <2>2. IsSumOver([s \in {{}} |-> 0], f, {{}})
    BY DEF IsSumOver
  <2> QED
    BY <2>1, <2>2
<1>2. ASSUME NEW k \in sizes PROVE k + 1 \in sizes
  <2>1. PICK g : IsSumOver(g, f, Upto(k))
    OBVIOUS
  <2> DEFINE h == [s \in Upto(k + 1) |-> IF s = {} THEN 0 ELSE f[First(s)] + g[s \ {First(s)}]]
  <2>2. ASSUME NEW s \in Upto(k + 1), s # {}
        PROVE  s \ {First(s)} \in Upto(k)
    <3>1. First(s) \in s /\ IsFiniteSet(s) /\ Cardinality(s) \in Nat
      BY <1>0, <2>2, FirstIn
    <3>2. Cardinality(s \ {First(s)}) = Cardinality(s) - 1
      BY <3>1, FS_RemoveElement
    <3> QED
      BY <3>1, <3>2
  <2>3. ASSUME NEW s \in Upto(k) PROVE s \in Upto(k + 1) /\ h[s] = g[s]
    <3>1. s \in Upto(k + 1)
      BY <1>0
    <3>2. g[s] = IF s = {} THEN 0 ELSE f[First(s)] + g[s \ {First(s)}]
      BY <2>1 DEF IsSumOver
    <3> QED
      BY <3>1, <3>2
  <2>4. ASSUME NEW s \in Upto(k + 1)
        PROVE  h[s] = IF s = {} THEN 0 ELSE f[First(s)] + h[s \ {First(s)}]
    BY <2>2, <2>3
  <2>5. IsSumOver(h, f, Upto(k + 1))
    <3> HIDE DEF Upto
    <3>1. h = [s \in Upto(k + 1) |-> IF s = {} THEN 0 ELSE f[First(s)] + h[s \ {First(s)}]]
      BY <2>4
    <3> QED
      BY <3>1 DEF IsSumOver
  <2>6. k + 1 \in Nat
    OBVIOUS
  <2> HIDE DEF Upto, h
  <2> QED
    BY <2>5, <2>6
<1>3. sizes = Nat
  <2> HIDE DEF sizes
  <2>1. sizes \in SUBSET Nat
    BY DEF sizes
  <2> QED
    BY <1>1, <1>2, <2>1, CountingUp
<1> QED
  BY <1>3

LEMMA SumExists ==
  ASSUME NEW f, NEW S, IsFiniteSet(S)
  PROVE  \E g : IsSumOver(g, f, SUBSET S)
<1>1. Cardinality(S) \in Nat
  BY FS_CardinalityType
<1>2. SmallSets(S, Cardinality(S)) = SUBSET S
  BY FS_Subset DEF SmallSets
<1>3. \E g : IsSumOver(g, f, SmallSets(S, Cardinality(S)))
  BY <1>1, PartialSums
<1> QED
  BY <1>2, <1>3

\* Whatever set it is a part of, a set has one sum.
LEMMA SumsAgree ==
  ASSUME NEW f, NEW S, NEW T, NEW g, NEW h, IsFiniteSet(S), T \subseteq S,
         IsSumOver(g, f, SUBSET S), IsSumOver(h, f, SUBSET T)
  PROVE  h[T] = g[T]
<1> DEFINE sizes == {n \in Nat : \A s \in SUBSET T : Cardinality(s) = n => h[s] = g[s]}
<1>0. \A s \in SUBSET T : IsFiniteSet(s) /\ Cardinality(s) \in Nat /\ s \in SUBSET S
  BY FS_Subset, FS_CardinalityType
<1>1. /\ \A s \in SUBSET S : g[s] = IF s = {} THEN 0 ELSE f[First(s)] + g[s \ {First(s)}]
      /\ \A s \in SUBSET T : h[s] = IF s = {} THEN 0 ELSE f[First(s)] + h[s \ {First(s)}]
  BY DEF IsSumOver
<1>2. 0 \in sizes
  BY <1>0, <1>1, FS_EmptySet
<1>3. ASSUME NEW n \in sizes PROVE n + 1 \in sizes
  <2> SUFFICES ASSUME NEW s \in SUBSET T, Cardinality(s) = n + 1 PROVE h[s] = g[s]
    OBVIOUS
  <2>1. s # {} /\ IsFiniteSet(s)
    BY <1>0, FS_EmptySet
  <2>2. First(s) \in s
    BY <2>1, FirstIn
  <2>3. Cardinality(s \ {First(s)}) = n
    <3>1. n \in Nat /\ Cardinality(s \ {First(s)}) = Cardinality(s) - 1
      BY <2>1, <2>2, FS_RemoveElement
    <3> QED
      BY <3>1
  <2>4. h[s \ {First(s)}] = g[s \ {First(s)}]
    BY <2>3
  <2> QED
    BY <1>0, <1>1, <2>1, <2>4
<1>4. sizes = Nat
  <2> HIDE DEF sizes
  <2>1. sizes \in SUBSET Nat
    BY DEF sizes
  <2> QED
    BY <1>2, <1>3, <2>1, CountingUp
<1> QED
  BY <1>0, <1>4

LEMMA SumOfEmpty == ASSUME NEW f PROVE SumFunctionOnSet(f, {}) = 0
<1>1. PICK g : IsSumOver(g, f, SUBSET {})
  BY SumExists, FS_EmptySet
<1>2. IsSumOver(CHOOSE g1 : IsSumOver(g1, f, SUBSET {}), f, SUBSET {})
  BY <1>1
<1> QED
  BY <1>2, SumUnfolded DEF IsSumOver

LEMMA SumOfPart ==
  ASSUME NEW f, NEW S, IsFiniteSet(S), NEW g, IsSumOver(g, f, SUBSET S), NEW T \in SUBSET S
  PROVE  SumFunctionOnSet(f, T) = g[T]
<1>1. PICK h : h = CHOOSE h1 : IsSumOver(h1, f, SUBSET T)
  OBVIOUS
<1>2. IsFiniteSet(T)
  BY FS_Subset
<1>3. IsSumOver(h, f, SUBSET T)
  BY <1>1, <1>2, SumExists
<1>4. h[T] = g[T]
  BY <1>3, SumsAgree
<1> QED
  BY <1>1, <1>4, SumUnfolded

LEMMA SumTakesFirst ==
  ASSUME NEW f, NEW S, IsFiniteSet(S), S # {}
  PROVE  SumFunctionOnSet(f, S)
           = f[First(S)] + SumFunctionOnSet(f, S \ {First(S)})
<1>1. PICK g : IsSumOver(g, f, SUBSET S)
  BY SumExists
<1>2. SumFunctionOnSet(f, S) = g[S]
  BY <1>1, SumOfPart
<1>3. SumFunctionOnSet(f, S \ {First(S)}) = g[S \ {First(S)}]
  BY <1>1, SumOfPart
<1>4. g[S] = f[First(S)] + g[S \ {First(S)}]
  BY <1>1 DEF IsSumOver
<1> QED
  BY <1>2, <1>3, <1>4

-----------------------------------------------------------------------------
(* What an element adds.                                                   *)

Integral(f, S) == \A x \in S : f[x] \in Int

LEMMA SumIsInt ==
  ASSUME NEW f, NEW S, IsFiniteSet(S), Integral(f, S)
  PROVE  SumFunctionOnSet(f, S) \in Int
<1> DEFINE sizes ==
      {n \in Nat : \A T \in SUBSET S : Cardinality(T) = n => SumFunctionOnSet(f, T) \in Int}
<1>0. \A T \in SUBSET S : IsFiniteSet(T) /\ Cardinality(T) \in Nat
  BY FS_Subset, FS_CardinalityType
<1>1. 0 \in sizes
  BY <1>0, SumOfEmpty, FS_EmptySet
<1>2. ASSUME NEW n \in sizes PROVE n + 1 \in sizes
  <2> SUFFICES ASSUME NEW T \in SUBSET S, Cardinality(T) = n + 1
               PROVE  SumFunctionOnSet(f, T) \in Int
    OBVIOUS
  <2>1. IsFiniteSet(T) /\ T # {} /\ n \in Nat
    BY <1>0, FS_EmptySet
  <2>2. First(T) \in T
    BY <2>1, FirstIn
  <2>3. Cardinality(T \ {First(T)}) = Cardinality(T) - 1
    BY <2>1, <2>2, FS_RemoveElement
  <2>4. SumFunctionOnSet(f, T \ {First(T)}) \in Int
    BY <2>1, <2>3
  <2>5. f[First(T)] \in Int
    BY <2>2 DEF Integral
  <2> QED
    BY <2>1, <2>4, <2>5, SumTakesFirst
<1>3. sizes = Nat
  <2> HIDE DEF sizes
  <2>1. sizes \in SUBSET Nat
    BY DEF sizes
  <2> QED
    BY <1>1, <1>2, <2>1, CountingUp
<1> QED
  BY <1>0, <1>3

\* The sum does not depend on which element is taken out.
LEMMA SumTakes ==
  ASSUME NEW f, NEW S, IsFiniteSet(S), Integral(f, S), NEW e \in S
  PROVE  SumFunctionOnSet(f, S) = f[e] + SumFunctionOnSet(f, S \ {e})
<1> DEFINE Takes(T) ==
             \A x \in T : SumFunctionOnSet(f, T) = f[x] + SumFunctionOnSet(f, T \ {x})
           sizes == {n \in Nat : \A T \in SUBSET S : Cardinality(T) = n => Takes(T)}
<1>0. \A T \in SUBSET S :
        IsFiniteSet(T) /\ Cardinality(T) \in Nat /\ SumFunctionOnSet(f, T) \in Int
  BY FS_Subset, FS_CardinalityType, SumIsInt DEF Integral
<1>1. 0 \in sizes
  BY <1>0, FS_EmptySet
<1>2. ASSUME NEW n \in sizes PROVE n + 1 \in sizes
  <2> SUFFICES ASSUME NEW T \in SUBSET S, Cardinality(T) = n + 1, NEW x \in T
               PROVE  SumFunctionOnSet(f, T) = f[x] + SumFunctionOnSet(f, T \ {x})
    OBVIOUS
  <2>1. PICK c : c = First(T)
    OBVIOUS
  <2>2. IsFiniteSet(T) /\ T # {} /\ n \in Nat /\ c \in T
    BY <1>0, <2>1, FirstIn
  <2>3. SumFunctionOnSet(f, T) = f[c] + SumFunctionOnSet(f, T \ {c})
    BY <2>1, <2>2, SumTakesFirst
  <2>4. CASE x = c
    BY <2>3, <2>4
  <2>5. CASE x # c
    <3>1. Cardinality(T \ {c}) = n
      <4>1. Cardinality(T \ {c}) = Cardinality(T) - 1
        BY <2>2, FS_RemoveElement
      <4> QED
        BY <4>1, <2>2
    <3>2. Cardinality(T \ {x}) = n
      <4>1. Cardinality(T \ {x}) = Cardinality(T) - 1
        BY <2>2, FS_RemoveElement
      <4> QED
        BY <4>1, <2>2
    <3>3. SumFunctionOnSet(f, T \ {c}) = f[x] + SumFunctionOnSet(f, (T \ {c}) \ {x})
      BY <2>5, <3>1
    <3>4. SumFunctionOnSet(f, T \ {x}) = f[c] + SumFunctionOnSet(f, (T \ {x}) \ {c})
      BY <2>2, <2>5, <3>2
    <3>5. (T \ {c}) \ {x} = (T \ {x}) \ {c}
      OBVIOUS
    <3>6. f[c] \in Int /\ f[x] \in Int /\ SumFunctionOnSet(f, (T \ {x}) \ {c}) \in Int
      BY <1>0, <2>2 DEF Integral
    <3>7. PICK rest \in Int : rest = SumFunctionOnSet(f, (T \ {x}) \ {c})
      BY <3>6
    <3>8. SumFunctionOnSet(f, T) = f[c] + (f[x] + rest)
      BY <2>3, <3>3, <3>5, <3>7
    <3>9. SumFunctionOnSet(f, T \ {x}) = f[c] + rest
      BY <3>4, <3>7
    <3> QED
      BY <3>6, <3>8, <3>9
  <2> QED
    BY <2>4, <2>5
<1>3. sizes = Nat
  <2> HIDE DEF sizes
  <2>1. sizes \in SUBSET Nat
    BY DEF sizes
  <2> QED
    BY <1>1, <1>2, <2>1, CountingUp
<1> QED
  BY <1>0, <1>3

LEMMA SumAdds ==
  ASSUME NEW f, NEW S, IsFiniteSet(S), NEW x, x \notin S, Integral(f, S \cup {x})
  PROVE  SumFunctionOnSet(f, S \cup {x}) = f[x] + SumFunctionOnSet(f, S)
<1>1. IsFiniteSet(S \cup {x})
  BY FS_AddElement
<1>2. x \in S \cup {x} /\ (S \cup {x}) \ {x} = S
  OBVIOUS
<1>3. SumFunctionOnSet(f, S \cup {x}) = f[x] + SumFunctionOnSet(f, (S \cup {x}) \ {x})
  BY <1>1, <1>2, SumTakes
<1> QED
  BY <1>2, <1>3

LEMMA SumIsNat ==
  ASSUME NEW f, NEW S, IsFiniteSet(S), \A x \in S : f[x] \in Nat
  PROVE  SumFunctionOnSet(f, S) \in Nat
<1> DEFINE F == {T \in SUBSET S : SumFunctionOnSet(f, T) \in Nat}
<1>1. {} \in F
  BY SumOfEmpty
<1>2. ASSUME NEW T \in F, NEW x \in S \ T PROVE T \cup {x} \in F
  <2>1. IsFiniteSet(T) /\ Integral(f, T \cup {x})
    BY FS_Subset DEF Integral
  <2>2. SumFunctionOnSet(f, T \cup {x}) = f[x] + SumFunctionOnSet(f, T)
    BY <2>1, SumAdds
  <2> QED
    BY <2>2
<1>3. S \in F
  <2> HIDE DEF F
  <2>1. F \in SUBSET SUBSET S
    BY DEF F
  <2> QED
    BY <1>1, <1>2, <2>1, GrowingUp
<1> QED
  BY <1>3

LEMMA SumOverOne ==
  ASSUME NEW f, f[1] \in Int
  PROVE  SumFunctionOnSet(f, 1 .. 1) = f[1]
<1>1. 1 .. 1 = {} \cup {1}
  OBVIOUS
<1>2. SumFunctionOnSet(f, {} \cup {1}) = f[1] + SumFunctionOnSet(f, {})
  <2>1. Integral(f, {} \cup {1})
    BY DEF Integral
  <2> QED
    BY <2>1, SumAdds, FS_EmptySet
<1> QED
  BY <1>1, <1>2, SumOfEmpty

LEMMA SumOverTwo ==
  ASSUME NEW f, f[1] \in Int, f[2] \in Int
  PROVE  SumFunctionOnSet(f, 1 .. 2) = f[1] + f[2]
<1>1. SumFunctionOnSet(f, 1 .. 2) = SumFunctionOnSet(f, (1 .. 1) \cup {2})
  <2>1. 1 .. 2 = (1 .. 1) \cup {2}
    OBVIOUS
  <2> QED
    BY <2>1, Zenon
<1>2. SumFunctionOnSet(f, (1 .. 1) \cup {2}) = f[2] + SumFunctionOnSet(f, 1 .. 1)
  <2>1. Integral(f, (1 .. 1) \cup {2})
    BY DEF Integral
  <2>2. IsFiniteSet(1 .. 1)
    <3>1. 1 \in Int
      OBVIOUS
    <3> QED
      BY <3>1, FS_Interval
  <2>3. 2 \notin 1 .. 1
    OBVIOUS
  <2> QED
    BY <2>1, <2>2, <2>3, SumAdds
<1>3. SumFunctionOnSet(f, 1 .. 1) = f[1]
  BY SumOverOne
<1> QED
  BY <1>1, <1>2, <1>3

-----------------------------------------------------------------------------
(* Sums compared and combined.                                             *)

LEMMA SumCongruent ==
  ASSUME NEW S, NEW f, NEW g, IsFiniteSet(S), Integral(f, S), \A x \in S : f[x] = g[x]
  PROVE  SumFunctionOnSet(f, S) = SumFunctionOnSet(g, S)
<1> DEFINE F == {T \in SUBSET S : SumFunctionOnSet(f, T) = SumFunctionOnSet(g, T)}
<1>1. {} \in F
  BY SumOfEmpty
<1>2. ASSUME NEW T \in F, NEW x \in S \ T PROVE T \cup {x} \in F
  <2>1. IsFiniteSet(T) /\ Integral(f, T \cup {x}) /\ Integral(g, T \cup {x})
    BY FS_Subset DEF Integral
  <2>2. /\ SumFunctionOnSet(f, T \cup {x}) = f[x] + SumFunctionOnSet(f, T)
        /\ SumFunctionOnSet(g, T \cup {x}) = g[x] + SumFunctionOnSet(g, T)
    BY <2>1, SumAdds
  <2> QED
    BY <2>2
<1>3. S \in F
  <2> HIDE DEF F
  <2>1. F \in SUBSET SUBSET S
    BY DEF F
  <2> QED
    BY <1>1, <1>2, <2>1, GrowingUp
<1> QED
  BY <1>3

LEMMA SumPlus ==
  ASSUME NEW S, NEW f, NEW g, NEW h, IsFiniteSet(S), Integral(f, S), Integral(g, S),
         \A x \in S : h[x] = f[x] + g[x]
  PROVE  SumFunctionOnSet(h, S) = SumFunctionOnSet(f, S) + SumFunctionOnSet(g, S)
<1> DEFINE F == {T \in SUBSET S : SumFunctionOnSet(h, T)
                                    = SumFunctionOnSet(f, T) + SumFunctionOnSet(g, T)}
<1>1. {} \in F
  BY SumOfEmpty
<1>2. ASSUME NEW T \in F, NEW x \in S \ T PROVE T \cup {x} \in F
  <2>1. /\ IsFiniteSet(T)
        /\ Integral(f, T \cup {x}) /\ Integral(g, T \cup {x}) /\ Integral(h, T \cup {x})
    BY FS_Subset DEF Integral
  <2>2. /\ SumFunctionOnSet(f, T \cup {x}) = f[x] + SumFunctionOnSet(f, T)
        /\ SumFunctionOnSet(g, T \cup {x}) = g[x] + SumFunctionOnSet(g, T)
        /\ SumFunctionOnSet(h, T \cup {x}) = h[x] + SumFunctionOnSet(h, T)
    BY <2>1, SumAdds
  <2>3. PICK a, b : a = SumFunctionOnSet(f, T) /\ b = SumFunctionOnSet(g, T)
    OBVIOUS
  <2>4. a \in Int /\ b \in Int /\ f[x] \in Int /\ g[x] \in Int
    BY <2>1, <2>3, SumIsInt DEF Integral
  <2>5. SumFunctionOnSet(h, T \cup {x}) = (f[x] + g[x]) + (a + b)
    BY <2>2, <2>3
  <2>6. SumFunctionOnSet(f, T \cup {x}) = f[x] + a /\ SumFunctionOnSet(g, T \cup {x}) = g[x] + b
    BY <2>2, <2>3
  <2>7. SumFunctionOnSet(h, T \cup {x})
          = SumFunctionOnSet(f, T \cup {x}) + SumFunctionOnSet(g, T \cup {x})
    BY <2>4, <2>5, <2>6
  <2> QED
    BY <2>7
<1>3. S \in F
  <2> HIDE DEF F
  <2>1. F \in SUBSET SUBSET S
    BY DEF F
  <2> QED
    BY <1>1, <1>2, <2>1, GrowingUp
<1> QED
  BY <1>3

LEMMA SumAtMost ==
  ASSUME NEW S, NEW f, NEW g, IsFiniteSet(S), Integral(f, S), Integral(g, S),
         \A x \in S : f[x] <= g[x]
  PROVE  SumFunctionOnSet(f, S) <= SumFunctionOnSet(g, S)
<1> DEFINE F == {T \in SUBSET S : SumFunctionOnSet(f, T) <= SumFunctionOnSet(g, T)}
<1>1. {} \in F
  BY SumOfEmpty
<1>2. ASSUME NEW T \in F, NEW x \in S \ T PROVE T \cup {x} \in F
  <2>1. IsFiniteSet(T) /\ Integral(f, T \cup {x}) /\ Integral(g, T \cup {x})
    BY FS_Subset DEF Integral
  <2>2. /\ SumFunctionOnSet(f, T \cup {x}) = f[x] + SumFunctionOnSet(f, T)
        /\ SumFunctionOnSet(g, T \cup {x}) = g[x] + SumFunctionOnSet(g, T)
    BY <2>1, SumAdds
  <2>3. SumFunctionOnSet(f, T) \in Int /\ SumFunctionOnSet(g, T) \in Int
    BY <2>1, SumIsInt DEF Integral
  <2>4. f[x] \in Int /\ g[x] \in Int /\ f[x] <= g[x]
    BY DEF Integral
  <2> QED
    BY <2>2, <2>3, <2>4
<1>3. S \in F
  <2> HIDE DEF F
  <2>1. F \in SUBSET SUBSET S
    BY DEF F
  <2> QED
    BY <1>1, <1>2, <2>1, GrowingUp
<1> QED
  BY <1>3

LEMMA SumDisjoint ==
  ASSUME NEW S, NEW U, NEW f, IsFiniteSet(S), IsFiniteSet(U), S \cap U = {},
         Integral(f, S \cup U)
  PROVE  SumFunctionOnSet(f, S \cup U) = SumFunctionOnSet(f, S) + SumFunctionOnSet(f, U)
<1> DEFINE F == {T \in SUBSET S : SumFunctionOnSet(f, T \cup U)
                                    = SumFunctionOnSet(f, T) + SumFunctionOnSet(f, U)}
<1>0. SumFunctionOnSet(f, U) \in Int
  BY SumIsInt DEF Integral
<1>1. {} \in F
  <2>1. {} \cup U = U
    OBVIOUS
  <2> QED
    BY <1>0, <2>1, SumOfEmpty
<1>2. ASSUME NEW T \in F, NEW x \in S \ T PROVE T \cup {x} \in F
  <2>1. /\ IsFiniteSet(T) /\ IsFiniteSet(T \cup U) /\ x \notin T \cup U
        /\ Integral(f, T \cup {x}) /\ Integral(f, (T \cup U) \cup {x})
    BY FS_Subset, FS_Union DEF Integral
  <2>2. /\ SumFunctionOnSet(f, T \cup {x}) = f[x] + SumFunctionOnSet(f, T)
        /\ SumFunctionOnSet(f, (T \cup U) \cup {x}) = f[x] + SumFunctionOnSet(f, T \cup U)
    BY <2>1, SumAdds
  <2>3. (T \cup U) \cup {x} = (T \cup {x}) \cup U
    OBVIOUS
  <2>4. PICK a, b : a = SumFunctionOnSet(f, T) /\ b = SumFunctionOnSet(f, U)
    OBVIOUS
  <2>5. a \in Int /\ b \in Int /\ f[x] \in Int
    BY <1>0, <2>1, <2>4, SumIsInt DEF Integral
  <2>6. SumFunctionOnSet(f, (T \cup {x}) \cup U) = f[x] + (a + b)
    BY <2>2, <2>3, <2>4
  <2>7. SumFunctionOnSet(f, T \cup {x}) + SumFunctionOnSet(f, U) = (f[x] + a) + b
    BY <2>2, <2>4
  <2>8. SumFunctionOnSet(f, (T \cup {x}) \cup U)
          = SumFunctionOnSet(f, T \cup {x}) + SumFunctionOnSet(f, U)
    BY <2>5, <2>6, <2>7
  <2> QED
    BY <2>8
<1>3. S \in F
  <2> HIDE DEF F
  <2>1. F \in SUBSET SUBSET S
    BY DEF F
  <2> QED
    BY <1>1, <1>2, <2>1, GrowingUp
<1> QED
  BY <1>3

Renamed(h, S) == {h[x] : x \in S}
\* h gives every element of S another name, under which g has what f has of it.
Renames(h, S, f, g) ==
  /\ \A x, y \in S : h[x] = h[y] => x = y
  /\ \A x \in S : f[x] = g[h[x]]

\* The same numbers under other names.
LEMMA SumRenamed ==
  ASSUME NEW S, NEW f, NEW g, NEW h, IsFiniteSet(S), Integral(f, S), Renames(h, S, f, g)
  PROVE  SumFunctionOnSet(g, Renamed(h, S)) = SumFunctionOnSet(f, S)
<1> USE DEF Renamed, Renames
<1> DEFINE Image(T) == Renamed(h, T)
           F == {T \in SUBSET S : /\ IsFiniteSet(Image(T))
                                  /\ SumFunctionOnSet(g, Image(T)) = SumFunctionOnSet(f, T)}
<1>1. {} \in F
  <2>1. Image({}) = {}
    OBVIOUS
  <2> HIDE DEF Image
  <2> QED
    BY <2>1, SumOfEmpty, FS_EmptySet
<1>2. ASSUME NEW T \in F, NEW x \in S \ T PROVE T \cup {x} \in F
  <2>1. Image(T \cup {x}) = Image(T) \cup {h[x]} /\ h[x] \notin Image(T)
    OBVIOUS
  <2>2. /\ IsFiniteSet(T) /\ IsFiniteSet(Image(T)) /\ Integral(f, T \cup {x})
        /\ IsFiniteSet(Image(T) \cup {h[x]})
    BY FS_Subset, FS_AddElement DEF Integral
  <2>3. Integral(g, Image(T) \cup {h[x]})
    BY DEF Integral
  <2>4. /\ SumFunctionOnSet(f, T \cup {x}) = f[x] + SumFunctionOnSet(f, T)
        /\ SumFunctionOnSet(g, Image(T) \cup {h[x]}) = g[h[x]] + SumFunctionOnSet(g, Image(T))
    <3> HIDE DEF Image
    <3> QED
      BY <2>1, <2>2, <2>3, SumAdds
  <2> HIDE DEF Image
  <2> QED
    BY <2>1, <2>2, <2>4
<1>3. S \in F
  <2> HIDE DEF F
  <2>1. F \in SUBSET SUBSET S
    BY DEF F
  <2> QED
    BY <1>1, <1>2, <2>1, GrowingUp
<1> QED
  BY <1>3

\* A sum of sums over sets that do not meet.
LEMMA SumOfSums ==
  ASSUME NEW D, NEW P, NEW f, NEW g, IsFiniteSet(D),
         \A d \in D : /\ IsFiniteSet(P[d]) /\ Integral(f, P[d])
                      /\ g[d] = SumFunctionOnSet(f, P[d]),
         \A d, e \in D : d # e => P[d] \cap P[e] = {}
  PROVE  SumFunctionOnSet(g, D) = SumFunctionOnSet(f, UNION {P[d] : d \in D})
<1> DEFINE All(T) == UNION {P[d] : d \in T}
           F == {T \in SUBSET D : /\ IsFiniteSet(All(T))
                                  /\ SumFunctionOnSet(g, T) = SumFunctionOnSet(f, All(T))}
<1>1. {} \in F
  <2>1. All({}) = {}
    OBVIOUS
  <2> HIDE DEF All
  <2> QED
    BY <2>1, SumOfEmpty, FS_EmptySet
<1>2. ASSUME NEW T \in F, NEW d \in D \ T PROVE T \cup {d} \in F
  <2>1. All(T \cup {d}) = P[d] \cup All(T) /\ P[d] \cap All(T) = {}
    OBVIOUS
  <2>2. IsFiniteSet(T) /\ IsFiniteSet(All(T)) /\ IsFiniteSet(P[d])
    BY FS_Subset
  <2>3. /\ Integral(f, P[d] \cup All(T))
        /\ Integral(g, T \cup {d})
    <3>1. Integral(f, P[d] \cup All(T))
      BY DEF Integral
    <3>2. \A e \in D : g[e] \in Int
      BY SumIsInt
    <3> QED
      BY <3>1, <3>2 DEF Integral
  <2> HIDE DEF All
  <2>4. SumFunctionOnSet(g, T \cup {d}) = g[d] + SumFunctionOnSet(g, T)
    BY <2>2, <2>3, SumAdds
  <2>5. SumFunctionOnSet(f, P[d] \cup All(T))
          = SumFunctionOnSet(f, P[d]) + SumFunctionOnSet(f, All(T))
    BY <2>1, <2>2, <2>3, SumDisjoint
  <2>6. IsFiniteSet(P[d] \cup All(T))
    BY <2>2, FS_Union
  <2> QED
    BY <2>1, <2>4, <2>5, <2>6
<1>3. D \in F
  <2> HIDE DEF F
  <2>1. F \in SUBSET SUBSET D
    BY DEF F
  <2> QED
    BY <1>1, <1>2, <2>1, GrowingUp
<1> QED
  BY <1>3
=============================================================================
