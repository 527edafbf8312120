----------------------------- MODULE FoldLemmas -----------------------------
(***************************************************************************)
(* Induction and recursion for proofs about folds, in a first-order form:  *)
(* the induction hypothesis is a set, and the step of a fold a function.   *)
(***************************************************************************)
EXTENDS Naturals, SequencesExt, FiniteSetTheorems, WellFoundedInduction, SequenceTheorems, TLAPS

-----------------------------------------------------------------------------
(* Induction. *)

\* A set of naturals that is not empty has a least element.
LEMMA LeastNatural ==
    ASSUME NEW N \in SUBSET Nat, N # {}
    PROVE  \E m \in N : \A k \in N : m <= k
<1> DEFINE Less == {ss \in Nat \X Nat : ss[1] < ss[2]}
<1>1. IsWellFoundedOn(Less, Nat)
  BY NatLessThanWellFounded DEF OpToRel
<1> HIDE DEF Less
<1>2. PICK m \in N : \A k \in N : <<k, m>> \notin Less
  BY <1>1, WFMin
<1>3. \A k \in N : ~(k < m)
  BY <1>2 DEF Less
<1> QED BY <1>3

\* Induction over the naturals.
LEMMA NatSetInduction ==
    ASSUME NEW N \in SUBSET Nat, 0 \in N, \A n \in N : n + 1 \in N
    PROVE  N = Nat
<1> SUFFICES ASSUME Nat \ N # {} PROVE FALSE
  OBVIOUS
<1>1. PICK m \in Nat \ N : \A k \in Nat \ N : m <= k
  BY LeastNatural
<1>2. m # 0 /\ m - 1 \notin Nat \ N
  BY <1>1
<1> QED BY <1>2

\* Induction up to a bound.
LEMMA BoundedInduction ==
    ASSUME NEW b \in Nat, NEW N, 0 \in N, \A n \in 0 .. b - 1 : n \in N => n + 1 \in N
    PROVE  0 .. b \subseteq N
<1> DEFINE M == {n \in Nat : n <= b => n \in N}
<1>1. 0 \in M
  OBVIOUS
<1>2. ASSUME NEW n \in M PROVE n + 1 \in M
  <2>1. CASE n + 1 <= b
    <3>1. n \in N /\ n \in 0 .. b - 1
      BY <2>1
    <3> QED BY <3>1
  <2>2. CASE ~(n + 1 <= b)
    BY <2>2
  <2> QED BY <2>1, <2>2
<1>3. M = Nat
  <2> HIDE DEF M
  <2>1. M \in SUBSET Nat
    BY DEF M
  <2> QED BY <1>1, <1>2, <2>1, NatSetInduction
<1> QED BY <1>3

\* Induction over the subsets of a finite set, an element at a time.
LEMMA SubsetInduction ==
    ASSUME NEW S, IsFiniteSet(S), NEW C, {} \in C,
           \A T \in SUBSET S : \A x \in S \ T : T \in C => T \cup {x} \in C
    PROVE  SUBSET S \subseteq C
<1> DEFINE N == {n \in Nat : \A T \in SUBSET S : Cardinality(T) = n => T \in C}
<1>1. 0 \in N
  <2> SUFFICES ASSUME NEW T \in SUBSET S, Cardinality(T) = 0 PROVE T \in C
    OBVIOUS
  <2>1. T = {}
    BY FS_Subset, FS_EmptySet
  <2> QED BY <2>1
<1>2. ASSUME NEW n \in Nat, n \in N PROVE n + 1 \in N
  <2> SUFFICES ASSUME NEW T \in SUBSET S, Cardinality(T) = n + 1 PROVE T \in C
    OBVIOUS
  <2>1. IsFiniteSet(T)
    BY FS_Subset
  <2>2. T # {}
    <3>1. n + 1 # 0
      OBVIOUS
    <3> QED BY <3>1, FS_EmptySet
  <2>3. PICK x \in T : TRUE
    BY <2>2
  <2>4. Cardinality(T \ {x}) = n
    <3>1. Cardinality(T \ {x}) = (n + 1) - 1
      BY <2>1, FS_RemoveElement
    <3> QED BY <3>1
  <2>5. T \ {x} \in C
    BY <1>2, <2>4
  <2>6. (T \ {x}) \cup {x} = T /\ x \in S \ (T \ {x})
    OBVIOUS
  <2> QED BY <2>5, <2>6
<1>3. N = Nat
  <2> HIDE DEF N
  <2>1. N \in SUBSET Nat
    BY DEF N
  <2> QED BY <1>1, <1>2, <2>1, NatSetInduction
<1> SUFFICES ASSUME NEW T \in SUBSET S PROVE T \in C
  OBVIOUS
<1>4. Cardinality(T) \in Nat
  BY FS_Subset, FS_CardinalityType
<1> QED BY <1>3, <1>4

\* Induction over the subsets of a finite set, when the element that was added
\* last is not known.
LEMMA RemovalInduction ==
    ASSUME NEW S, IsFiniteSet(S), NEW C, {} \in C,
           \A T \in SUBSET S : T # {} /\ (\A x \in T : T \ {x} \in C) => T \in C
    PROVE  SUBSET S \subseteq C
<1> DEFINE N == {n \in Nat : \A T \in SUBSET S : Cardinality(T) = n => T \in C}
<1>1. 0 \in N
  <2> SUFFICES ASSUME NEW T \in SUBSET S, Cardinality(T) = 0 PROVE T \in C
    OBVIOUS
  <2>1. T = {}
    BY FS_Subset, FS_EmptySet
  <2> QED BY <2>1
<1>2. ASSUME NEW n \in Nat, n \in N PROVE n + 1 \in N
  <2> SUFFICES ASSUME NEW T \in SUBSET S, Cardinality(T) = n + 1 PROVE T \in C
    OBVIOUS
  <2>1. IsFiniteSet(T)
    BY FS_Subset
  <2>2. T # {}
    <3>1. n + 1 # 0
      OBVIOUS
    <3> QED BY <3>1, FS_EmptySet
  <2>3. ASSUME NEW x \in T PROVE T \ {x} \in C
    <3>1. Cardinality(T \ {x}) = (n + 1) - 1
      <4>1. Cardinality(T \ {x}) = Cardinality(T) - 1
        BY <2>1, FS_RemoveElement
      <4> QED BY <4>1
    <3> DEFINE U == T \ {x}
    <3>2. Cardinality(U) = n /\ U \in SUBSET S
      BY <3>1
    <3>3. \A R \in SUBSET S : Cardinality(R) = n => R \in C
      BY <1>2
    <3> HIDE DEF U
    <3>4. U \in C
      BY <3>2, <3>3
    <3> QED BY <3>4 DEF U
  <2> QED BY <2>2, <2>3
<1>3. N = Nat
  <2> HIDE DEF N
  <2>1. N \in SUBSET Nat
    BY DEF N
  <2> QED BY <1>1, <1>2, <2>1, NatSetInduction
<1> SUFFICES ASSUME NEW T \in SUBSET S PROVE T \in C
  OBVIOUS
<1>4. Cardinality(T) \in Nat
  BY FS_Subset, FS_CardinalityType
<1> QED BY <1>3, <1>4

-----------------------------------------------------------------------------
(* Recursion over the subsets of a finite set, as MapThenFoldSet does it. *)

IsFold(g, S, base, pick, step) ==
    \A T \in SUBSET S : g[T] = IF T = {} THEN base ELSE step[<<pick[T], g[T \ {pick[T]}]>>]

\* The function that a fold computes exists: pick takes an element out of a
\* set, and step combines it with the value of the rest.
LEMMA FoldExists ==
    ASSUME NEW S, IsFiniteSet(S), NEW V, NEW base \in V, NEW pick, NEW step,
           \A T \in SUBSET S : T # {} => pick[T] \in T,
           \A x \in S, v \in V : step[<<x, v>>] \in V
    PROVE  \E g \in [SUBSET S -> V] : IsFold(g, S, base, pick, step)
<1> DEFINE Small(n) == {T \in SUBSET S : Cardinality(T) <= n}
           Value(g, T) == IF T = {} THEN base ELSE step[<<pick[T], g[T \ {pick[T]}]>>]
           N == {n \in Nat : \E g \in [Small(n) -> V] : \A T \in Small(n) : g[T] = Value(g, T)}
<1>0. \A T \in SUBSET S : /\ IsFiniteSet(T) /\ Cardinality(T) \in Nat
                          /\ Cardinality(T) = 0 <=> T = {}
                          /\ T # {} => Cardinality(T \ {pick[T]}) = Cardinality(T) - 1
  BY FS_Subset, FS_CardinalityType, FS_EmptySet, FS_RemoveElement
<1>1. 0 \in N
  <2> DEFINE g == [T \in Small(0) |-> base]
  <2>1. ASSUME NEW T \in Small(0) PROVE T = {}
    <3>1. T \in SUBSET S /\ Cardinality(T) <= 0 /\ Cardinality(T) \in Nat
      BY <1>0
    <3>2. Cardinality(T) = 0
      BY <3>1
    <3> QED BY <1>0, <3>1, <3>2
  <2>2. g \in [Small(0) -> V] /\ \A T \in Small(0) : g[T] = Value(g, T)
    BY <2>1
  <2> HIDE DEF g
  <2> QED BY <2>2
<1>2. ASSUME NEW n \in Nat, n \in N PROVE n + 1 \in N
  <2>0. n \in Nat /\ n + 1 \in Nat
    OBVIOUS
  <2>1. PICK g \in [Small(n) -> V] : \A T \in Small(n) : g[T] = Value(g, T)
    BY <1>2
  <2> DEFINE h == [T \in Small(n + 1) |-> IF T \in Small(n) THEN g[T] ELSE Value(g, T)]
  <2>2. \A T \in Small(n + 1) : T # {} => pick[T] \in S /\ T \ {pick[T]} \in Small(n)
    <3> SUFFICES ASSUME NEW T \in Small(n + 1), T # {}
                 PROVE  pick[T] \in S /\ T \ {pick[T]} \in Small(n)
      OBVIOUS
    <3>1. T \in SUBSET S /\ Cardinality(T) <= n + 1
      OBVIOUS
    <3>2. pick[T] \in T /\ Cardinality(T \ {pick[T]}) = Cardinality(T) - 1 /\ Cardinality(T) \in Nat
      BY <1>0, <3>1
    <3>3. Cardinality(T \ {pick[T]}) <= n
      BY <2>0, <3>1, <3>2
    <3> QED BY <3>1, <3>2, <3>3
  <2>3. ASSUME NEW T \in Small(n) PROVE T \in Small(n + 1)
    <3>1. T \in SUBSET S /\ Cardinality(T) <= n /\ Cardinality(T) \in Nat
      BY <1>0
    <3>2. Cardinality(T) <= n + 1
      BY <2>0, <3>1
    <3> QED BY <3>1, <3>2
  <2>4. \A T \in Small(n + 1) : Value(g, T) \in V
    BY <2>2
  <2>5. h \in [Small(n + 1) -> V]
    BY <2>4
  <2>6. \A T \in Small(n) : h[T] = g[T]
    BY <2>3
  <2>7. \A T \in Small(n + 1) : Value(h, T) = Value(g, T)
    <3> HIDE DEF h, Small
    <3> QED BY <2>2, <2>6
  <2>8. \A T \in Small(n + 1) : h[T] = Value(g, T)
    BY <2>1
  <2>9. \A T \in Small(n + 1) : h[T] = Value(h, T)
    BY <2>7, <2>8
  <2>10. \E f \in [Small(n + 1) -> V] : \A T \in Small(n + 1) : f[T] = Value(f, T)
    <3> HIDE DEF h, Small, Value
    <3> QED BY <2>5, <2>9
  <2> HIDE DEF h, Small, Value
  <2> QED BY <2>0, <2>10
<1>3. N = Nat
  <2> HIDE DEF N
  <2>1. N \in SUBSET Nat
    BY DEF N
  <2> QED BY <1>1, <1>2, <2>1, NatSetInduction
<1>4. Cardinality(S) \in N
  BY <1>3, FS_CardinalityType
<1>5. Small(Cardinality(S)) = SUBSET S
  BY FS_Subset
<1> QED BY <1>4, <1>5 DEF IsFold

\* The greatest element of a set of indices, which FoldLeft takes first.
LEMMA GreatestIndex ==
    ASSUME NEW n \in Nat, NEW T \in SUBSET (1 .. n), T # {}
    PROVE  Max(T) \in T /\ \A i \in T : i <= Max(T)
<1> DEFINE N == {n - i : i \in T}
<1>1. N \in SUBSET Nat /\ N # {}
  <2>1. \A i \in T : i \in 1 .. n /\ n - i \in Nat
    OBVIOUS
  <2>2. PICK i \in T : TRUE
    OBVIOUS
  <2>3. n - i \in N
    BY <2>2
  <2> QED BY <2>1, <2>3
<1>2. PICK m \in N : \A k \in N : m <= k
  BY <1>1, LeastNatural
<1>3. PICK i \in T : m = n - i
  BY <1>2
<1>4. \A j \in T : i >= j
  <2> SUFFICES ASSUME NEW j \in T PROVE i >= j
    OBVIOUS
  <2>1. m <= n - j
    BY <1>2
  <2> QED BY <1>3, <2>1
<1> QED BY <1>4 DEF Max

LEMMA GreatestOfPrefix ==
    ASSUME NEW i \in Nat \ {0}
    PROVE  Max(1 .. i) = i /\ (1 .. i) \ {i} = 1 .. i - 1
<1>1. Max(1 .. i) \in 1 .. i /\ i <= Max(1 .. i)
  <2> DEFINE T == 1 .. i
  <2>1. i \in Nat /\ T \in SUBSET (1 .. i) /\ i \in T
    OBVIOUS
  <2> HIDE DEF T
  <2>2. Max(T) \in T /\ \A j \in T : j <= Max(T)
    BY <2>1, GreatestIndex
  <2> QED BY <2>1, <2>2 DEF T
<1> QED BY <1>1

IsRecursion(a, n, base, step) ==
    a[0] = base /\ \A i \in 1 .. n : a[i] = step[<<i, a[i - 1]>>]

\* Recursion along an interval.
LEMMA PrefixRecursion ==
    ASSUME NEW n \in Nat, NEW V, NEW base \in V, NEW step,
           \A i \in 1 .. n, v \in V : step[<<i, v>>] \in V
    PROVE  \E a \in [0 .. n -> V] : IsRecursion(a, n, base, step)
<1> DEFINE S == 1 .. n
           pick == [T \in SUBSET S |-> Max(T)]
<1>1. IsFiniteSet(S)
  BY FS_Interval
<1>2. \A T \in SUBSET S : T # {} => pick[T] \in T
  BY GreatestIndex
<1>3. PICK g \in [SUBSET S -> V] : IsFold(g, S, base, pick, step)
  <2>1. \A x \in S, v \in V : step[<<x, v>>] \in V
    OBVIOUS
  <2> HIDE DEF S, pick
  <2> QED BY <1>1, <1>2, <2>1, FoldExists
<1> DEFINE a == [i \in 0 .. n |-> g[1 .. i]]
<1>4. a \in [0 .. n -> V]
  OBVIOUS
<1>5. a[0] = base
  <2>1. 1 .. 0 = {} /\ {} \in SUBSET S
    OBVIOUS
  <2>2. g[{}] = base
    BY <1>3, <2>1 DEF IsFold
  <2> QED BY <2>1, <2>2
<1>6. ASSUME NEW i \in 1 .. n PROVE a[i] = step[<<i, a[i - 1]>>]
  <2>1. i \in Nat \ {0} /\ 1 .. i \in SUBSET S /\ 1 .. i # {}
    OBVIOUS
  <2>2. pick[1 .. i] = i /\ (1 .. i) \ {i} = 1 .. i - 1
    BY <2>1, GreatestOfPrefix
  <2>3. g[1 .. i] = step[<<i, g[1 .. i - 1]>>]
    <3> HIDE DEF pick
    <3>1. g[1 .. i] = step[<<pick[1 .. i], g[(1 .. i) \ {pick[1 .. i]}]>>]
      BY <1>3, <2>1 DEF IsFold
    <3> QED BY <2>2, <3>1
  <2>4. i \in 0 .. n /\ i - 1 \in 0 .. n
    OBVIOUS
  <2> QED BY <2>3, <2>4
<1> HIDE DEF a
<1> QED BY <1>4, <1>5, <1>6 DEF IsRecursion

\* iter, the function that FoldLeft recurs on, is over the sets of the indices;
\* only its values on the prefixes count.
OnPrefixes(iter, n, V, base, step) ==
    /\ iter[{}] = base
    /\ \A i \in 1 .. n : iter[1 .. i - 1] \in V => iter[1 .. i] = step[<<i, iter[1 .. i - 1]>>]

\* What a fold from left to right computes.
LEMMA FoldOfPrefixes ==
    ASSUME NEW n \in Nat, NEW V, NEW base, NEW step,
           NEW a \in [0 .. n -> V], IsRecursion(a, n, base, step),
           NEW iter, OnPrefixes(iter, n, V, base, step)
    PROVE  iter[1 .. n] = a[n]
<1> DEFINE M == {i \in 0 .. n : iter[1 .. i] = a[i]}
<1>1. 0 \in M
  <2>1. 1 .. 0 = {}
    OBVIOUS
  <2> QED BY <2>1 DEF IsRecursion, OnPrefixes
<1>2. ASSUME NEW i \in 0 .. n - 1, i \in M PROVE i + 1 \in M
  <2>1. i + 1 \in 1 .. n /\ (i + 1) - 1 = i /\ i + 1 \in 0 .. n /\ a[i] \in V
    OBVIOUS
  <2>2. iter[1 .. i] = a[i]
    BY <1>2
  <2>3. a[i + 1] = step[<<i + 1, a[i]>>]
    BY <2>1 DEF IsRecursion
  <2>4. iter[1 .. i + 1] = step[<<i + 1, iter[1 .. i]>>]
    BY <2>1, <2>2 DEF OnPrefixes
  <2> QED BY <2>1, <2>2, <2>3, <2>4
<1>3. 0 .. n \subseteq M
  <2> HIDE DEF M
  <2> QED BY <1>1, <1>2, BoundedInduction
<1> QED BY <1>3

-----------------------------------------------------------------------------
(* FlattenSeq. *)

LEMMA FlattenSteps ==
    ASSUME NEW V, NEW ss \in Seq(Seq(V)), Len(ss) # 0
    PROVE  \E a \in [1 .. Len(ss) -> Seq(V)] :
              /\ a[1] = ss[1]
              /\ \A i \in 2 .. Len(ss) : a[i] = a[i - 1] \o ss[i]
              /\ FlattenSeq(ss) = a[Len(ss)]
<1> DEFINE n == Len(ss)
           step == [p \in (1 .. n) \X Seq(V) |-> IF p[1] = 1 THEN ss[1] ELSE p[2] \o ss[p[1]]]
           Is(a) == a = [i \in 1 .. n |-> IF i = 1 THEN ss[i] ELSE a[i - 1] \o ss[i]]
           flatten == CHOOSE a : Is(a)
<1>1. n \in Nat /\ n # 0 /\ \A i \in 1 .. n : ss[i] \in Seq(V)
  OBVIOUS
<1>2. \A i \in 1 .. n, v \in Seq(V) : step[<<i, v>>] = (IF i = 1 THEN ss[i] ELSE v \o ss[i])
  OBVIOUS
<1>3. \A i \in 1 .. n, v \in Seq(V) : step[<<i, v>>] \in Seq(V)
  <2> HIDE DEF step, n
  <2> SUFFICES ASSUME NEW i \in 1 .. n, NEW v \in Seq(V) PROVE step[<<i, v>>] \in Seq(V)
    OBVIOUS
  <2>1. ss[i] \in Seq(V)
    BY <1>1
  <2>2. v \o ss[i] \in Seq(V)
    BY <2>1, ConcatProperties
  <2> QED BY <1>2, <2>1, <2>2
<1>4. PICK a \in [0 .. n -> Seq(V)] : IsRecursion(a, n, <<>>, step)
  <2> HIDE DEF step, n
  <2>1. <<>> \in Seq(V)
    OBVIOUS
  <2> QED BY <1>1, <1>3, <2>1, PrefixRecursion
<1> DEFINE b == [i \in 1 .. n |-> a[i]]
<1>5. Is(b)
  <2> HIDE DEF step, n
  <2> SUFFICES ASSUME NEW i \in 1 .. n PROVE b[i] = IF i = 1 THEN ss[i] ELSE b[i - 1] \o ss[i]
    OBVIOUS
  <2>1. i - 1 \in 0 .. n /\ (i # 1 => i - 1 \in 1 .. n)
    BY <1>1
  <2>2. a[i] = step[<<i, a[i - 1]>>] /\ a[i - 1] \in Seq(V)
    BY <1>4, <2>1 DEF IsRecursion
  <2>3. a[i] = IF i = 1 THEN ss[i] ELSE a[i - 1] \o ss[i]
    BY <1>2, <2>2
  <2> QED BY <2>1, <2>3
<1>6. Is(flatten)
  <2> HIDE DEF Is, b
  <2> QED BY <1>5
<1>7. FlattenSeq(ss) = flatten[n]
  BY DEF FlattenSeq
<1> HIDE DEF flatten, n, step, b
<1>8. \A i \in 1 .. n : flatten[i] = (IF i = 1 THEN ss[i] ELSE flatten[i - 1] \o ss[i])
  BY <1>6
<1>9. flatten \in [1 .. n -> Seq(V)]
  <2> DEFINE M == {i \in 0 .. n : i = 0 \/ flatten[i] \in Seq(V)}
  <2>1. 0 \in M
    BY <1>1
  <2>2. ASSUME NEW i \in 0 .. n - 1, i \in M PROVE i + 1 \in M
    <3>1. i + 1 \in 1 .. n /\ (i + 1) - 1 = i /\ ss[i + 1] \in Seq(V)
      BY <1>1
    <3>2. CASE i = 0
      <4>1. flatten[i + 1] = ss[i + 1]
        BY <1>8, <3>1, <3>2
      <4> QED BY <3>1, <4>1
    <3>3. CASE i # 0
      <4>1. i + 1 # 1 /\ flatten[i] \in Seq(V)
        BY <2>2, <3>3
      <4>2. flatten[i + 1] = flatten[i] \o ss[i + 1]
        BY <1>8, <3>1, <4>1
      <4>3. flatten[i + 1] \in Seq(V)
        BY <3>1, <4>1, <4>2, ConcatProperties
      <4> QED BY <3>1, <4>3
    <3> QED BY <3>2, <3>3
  <2>3. 0 .. n \subseteq M
    <3> HIDE DEF M
    <3> QED BY <1>1, <2>1, <2>2, BoundedInduction
  <2>4. \A i \in 1 .. n : flatten[i] \in Seq(V)
    BY <2>3
  <2> QED BY <1>6, <2>4
<1>10. flatten[1] = ss[1]
  BY <1>1, <1>8
<1>11. ASSUME NEW i \in 2 .. n PROVE flatten[i] = flatten[i - 1] \o ss[i]
  <2>1. i \in 1 .. n /\ i # 1
    BY <1>1
  <2> QED BY <1>8, <2>1
<1> QED BY <1>7, <1>9, <1>10, <1>11 DEF n

\* Two sequences without repetitions and without a common element make one
\* without repetitions.
LEMMA ConcatInjective ==
    ASSUME NEW V, NEW s \in Seq(V), NEW t \in Seq(V)
    PROVE  /\ s \o t \in Seq(V)
           /\ ToSet(s \o t) = ToSet(s) \cup ToSet(t)
           /\ IsInjective(s) /\ IsInjective(t) /\ ToSet(s) \cap ToSet(t) = {} => IsInjective(s \o t)
<1> DEFINE m == Len(s)  n == Len(t)  c == s \o t
<1>1. /\ m \in Nat /\ n \in Nat /\ c \in Seq(V) /\ DOMAIN s = 1 .. m /\ DOMAIN t = 1 .. n
      /\ DOMAIN c = 1 .. m + n
  BY ConcatProperties, LenProperties
<1>2. \A i \in 1 .. m : c[i] = s[i]
  BY ConcatProperties
<1>3. \A i \in 1 .. m + n : i > m => i - m \in 1 .. n /\ c[i] = t[i - m]
  BY <1>1, ConcatProperties
<1>4. \A i \in 1 .. n : m + i \in 1 .. m + n /\ c[m + i] = t[i]
  <2> SUFFICES ASSUME NEW i \in 1 .. n PROVE m + i \in 1 .. m + n /\ c[m + i] = t[i]
    OBVIOUS
  <2>1. m + i \in 1 .. m + n /\ m + i > m /\ (m + i) - m = i
    BY <1>1
  <2> QED BY <1>3, <2>1
<1> HIDE DEF m, n, c
<1>5. ToSet(c) = ToSet(s) \cup ToSet(t)
  <2>1. ASSUME NEW x \in ToSet(c) PROVE x \in ToSet(s) \cup ToSet(t)
    <3>1. PICK i \in 1 .. m + n : x = c[i]
      BY <1>1 DEF ToSet
    <3>2. CASE i <= m
      <4>1. i \in 1 .. m
        BY <1>1, <3>2
      <4> QED BY <1>1, <1>2, <3>1, <4>1 DEF ToSet
    <3>3. CASE i > m
      BY <1>1, <1>3, <3>1, <3>3 DEF ToSet
    <3> QED BY <1>1, <3>2, <3>3
  <2>2. ASSUME NEW x \in ToSet(s) PROVE x \in ToSet(c)
    <3>1. PICK i \in 1 .. m : x = s[i]
      BY <1>1 DEF ToSet
    <3>2. i \in 1 .. m + n
      BY <1>1
    <3> QED BY <1>1, <1>2, <3>1, <3>2 DEF ToSet
  <2>3. ASSUME NEW x \in ToSet(t) PROVE x \in ToSet(c)
    <3>1. PICK i \in 1 .. n : x = t[i]
      BY <1>1 DEF ToSet
    <3> QED BY <1>1, <1>4, <3>1 DEF ToSet
  <2> QED BY <2>1, <2>2, <2>3
<1>6. ASSUME IsInjective(s), IsInjective(t), ToSet(s) \cap ToSet(t) = {} PROVE IsInjective(c)
  <2> SUFFICES ASSUME NEW i \in 1 .. m + n, NEW j \in 1 .. m + n, c[i] = c[j] PROVE i = j
    BY <1>1 DEF IsInjective
  <2>1. \A k \in 1 .. m + n : \/ k \in 1 .. m /\ c[k] = s[k] /\ c[k] \in ToSet(s)
                              \/ k > m /\ k - m \in 1 .. n /\ c[k] = t[k - m] /\ c[k] \in ToSet(t)
    <3> SUFFICES ASSUME NEW k \in 1 .. m + n
                 PROVE  \/ k \in 1 .. m /\ c[k] = s[k] /\ c[k] \in ToSet(s)
                        \/ k > m /\ k - m \in 1 .. n /\ c[k] = t[k - m] /\ c[k] \in ToSet(t)
      OBVIOUS
    <3>1. CASE k <= m
      <4>1. k \in 1 .. m
        BY <1>1, <3>1
      <4> QED BY <1>1, <1>2, <4>1 DEF ToSet
    <3>2. CASE k > m
      BY <1>1, <1>3, <3>2 DEF ToSet
    <3> QED BY <1>1, <3>1, <3>2
  <2>2. CASE i \in 1 .. m /\ c[i] = s[i] /\ c[i] \in ToSet(s)
    <3>1. j \in 1 .. m /\ c[j] = s[j]
      BY <1>6, <2>1, <2>2
    <3> QED BY <1>1, <1>6, <2>2, <3>1 DEF IsInjective
  <2>3. CASE i > m /\ i - m \in 1 .. n /\ c[i] = t[i - m] /\ c[i] \in ToSet(t)
    <3>1. j > m /\ j - m \in 1 .. n /\ c[j] = t[j - m]
      BY <1>6, <2>1, <2>3
    <3>2. i - m = j - m
      BY <1>1, <1>6, <2>3, <3>1 DEF IsInjective
    <3> QED BY <1>1, <3>2
  <2> QED BY <2>1, <2>2, <2>3
<1> QED BY <1>1, <1>5, <1>6 DEF c

LEMMA AppendInjectiveElement ==
    ASSUME NEW V, NEW s \in Seq(V), NEW x \in V
    PROVE  /\ Append(s, x) \in Seq(V)
           /\ ToSet(Append(s, x)) = ToSet(s) \cup {x}
           /\ IsInjective(s) /\ x \notin ToSet(s) => IsInjective(Append(s, x))
<1>1. Append(s, x) = s \o <<x>> /\ <<x>> \in Seq(V)
  BY AppendIsConcat
<1>2. ToSet(<<x>>) = {x} /\ IsInjective(<<x>>)
  <2>1. DOMAIN <<x>> = {1} /\ <<x>>[1] = x
    OBVIOUS
  <2> QED BY <2>1 DEF ToSet, IsInjective
<1>3. /\ s \o <<x>> \in Seq(V)
      /\ ToSet(s \o <<x>>) = ToSet(s) \cup ToSet(<<x>>)
      /\ IsInjective(s) /\ IsInjective(<<x>>) /\ ToSet(s) \cap ToSet(<<x>>) = {}
           => IsInjective(s \o <<x>>)
  BY <1>1, ConcatInjective
<1>4. x \notin ToSet(s) => ToSet(s) \cap {x} = {}
  OBVIOUS
<1> QED BY <1>1, <1>2, <1>3, <1>4

\* A part of a sequence.
LEMMA SubSeqInjective ==
    ASSUME NEW V, NEW s \in Seq(V), NEW m \in 1 .. Len(s) + 1, NEW n \in m - 1 .. Len(s)
    PROVE  /\ SubSeq(s, m, n) \in Seq(V)
           /\ ToSet(SubSeq(s, m, n)) = {s[i] : i \in m .. n}
           /\ IsInjective(s) => IsInjective(SubSeq(s, m, n))
<1> DEFINE c == SubSeq(s, m, n)
<1>1. /\ m \in Int /\ n \in Int /\ m \in Nat /\ m >= 1 /\ n >= m - 1 /\ n <= Len(s)
      /\ DOMAIN s = 1 .. Len(s) /\ Len(s) \in Nat
      /\ \A i \in m .. n : i \in 1 .. Len(s) /\ s[i] \in V
  OBVIOUS
<1>2. /\ c \in Seq(V) /\ Len(c) = (IF m <= n THEN n - m + 1 ELSE 0)
      /\ \A i \in 1 .. n - m + 1 : c[i] = s[m + i - 1]
  BY <1>1, SubSeqProperties
<1> HIDE DEF c
<1>3. DOMAIN c = 1 .. n - m + 1
  <2>1. Len(c) = n - m + 1
    BY <1>1, <1>2
  <2> QED BY <1>2, <2>1
<1>4. \A i \in 1 .. n - m + 1 : m + i - 1 \in m .. n /\ m + i - 1 \in 1 .. Len(s)
  BY <1>1
<1>5. \A j \in m .. n : j - m + 1 \in 1 .. n - m + 1 /\ c[j - m + 1] = s[j]
  <2> SUFFICES ASSUME NEW j \in m .. n
               PROVE  j - m + 1 \in 1 .. n - m + 1 /\ c[j - m + 1] = s[j]
    OBVIOUS
  <2>1. j - m + 1 \in 1 .. n - m + 1 /\ m + (j - m + 1) - 1 = j
    BY <1>1
  <2> QED BY <1>2, <2>1
<1>6. ToSet(c) = {s[i] : i \in m .. n}
  <2>1. ASSUME NEW x \in ToSet(c) PROVE x \in {s[i] : i \in m .. n}
    <3>1. PICK i \in 1 .. n - m + 1 : x = c[i]
      BY <1>3 DEF ToSet
    <3> QED BY <1>2, <1>4, <3>1
  <2>2. ASSUME NEW j \in m .. n PROVE s[j] \in ToSet(c)
    BY <1>3, <1>5 DEF ToSet
  <2> QED BY <2>1, <2>2
<1>7. ASSUME IsInjective(s) PROVE IsInjective(c)
  <2> SUFFICES ASSUME NEW i \in 1 .. n - m + 1, NEW j \in 1 .. n - m + 1, c[i] = c[j] PROVE i = j
    BY <1>3 DEF IsInjective
  <2>1. m + i - 1 = m + j - 1
    BY <1>1, <1>2, <1>4, <1>7 DEF IsInjective
  <2> QED BY <1>1, <2>1
<1> QED BY <1>2, <1>6, <1>7 DEF c

\* An element put into a sequence.
LEMMA InsertInjectiveElement ==
    ASSUME NEW V, NEW s \in Seq(V), NEW n \in 1 .. Len(s) + 1, NEW x \in V
    PROVE  /\ InsertAt(s, n, x) \in Seq(V)
           /\ ToSet(InsertAt(s, n, x)) = ToSet(s) \cup {x}
           /\ IsInjective(s) /\ x \notin ToSet(s) => IsInjective(InsertAt(s, n, x))
<1> DEFINE a == SubSeq(s, 1, n - 1)  c == SubSeq(s, n, Len(s))  d == Append(a, x)
<1>1. /\ Len(s) \in Nat /\ DOMAIN s = 1 .. Len(s) /\ n \in Nat
      /\ 1 \in 1 .. Len(s) + 1 /\ n - 1 \in 1 - 1 .. Len(s)
      /\ Len(s) \in n - 1 .. Len(s)
  OBVIOUS
<1>2. /\ a \in Seq(V) /\ ToSet(a) = {s[i] : i \in 1 .. n - 1} /\ (IsInjective(s) => IsInjective(a))
      /\ c \in Seq(V) /\ ToSet(c) = {s[i] : i \in n .. Len(s)} /\ (IsInjective(s) => IsInjective(c))
  <2>1. /\ a \in Seq(V) /\ ToSet(a) = {s[i] : i \in 1 .. n - 1} /\ (IsInjective(s) => IsInjective(a))
    BY <1>1, SubSeqInjective
  <2>2. /\ c \in Seq(V) /\ ToSet(c) = {s[i] : i \in n .. Len(s)} /\ (IsInjective(s) => IsInjective(c))
    BY <1>1, SubSeqInjective
  <2> QED BY <2>1, <2>2
<1>3. ToSet(s) = ToSet(a) \cup ToSet(c)
  <2>1. 1 .. Len(s) = (1 .. n - 1) \cup (n .. Len(s))
    BY <1>1
  <2> QED BY <1>1, <1>2, <2>1 DEF ToSet
<1>4. IsInjective(s) => ToSet(a) \cap ToSet(c) = {}
  <2> SUFFICES ASSUME IsInjective(s), NEW i \in 1 .. n - 1, NEW j \in n .. Len(s), s[i] = s[j]
               PROVE  FALSE
    BY <1>2
  <2>1. i \in DOMAIN s /\ j \in DOMAIN s /\ i # j
    BY <1>1
  <2> QED BY <2>1 DEF IsInjective
<1>5. InsertAt(s, n, x) = d \o c
  BY <1>2, AppendIsConcat DEF InsertAt
<1> HIDE DEF a, c
<1>6. /\ d \in Seq(V) /\ ToSet(d) = ToSet(a) \cup {x}
      /\ IsInjective(a) /\ x \notin ToSet(a) => IsInjective(d)
  BY <1>2, AppendInjectiveElement
<1> HIDE DEF d
<1>7. /\ d \o c \in Seq(V) /\ ToSet(d \o c) = ToSet(d) \cup ToSet(c)
      /\ IsInjective(d) /\ IsInjective(c) /\ ToSet(d) \cap ToSet(c) = {} => IsInjective(d \o c)
  <2>1. d \in Seq(V) /\ c \in Seq(V)
    BY <1>2, <1>6
  <2> QED BY <2>1, ConcatInjective
<1>8. ASSUME IsInjective(s), x \notin ToSet(s) PROVE IsInjective(d \o c)
  <2>1. x \notin ToSet(a) /\ x \notin ToSet(c)
    BY <1>3, <1>8
  <2>2. IsInjective(d) /\ ToSet(d) \cap ToSet(c) = {}
    BY <1>2, <1>4, <1>6, <1>8, <2>1
  <2> QED BY <1>2, <1>7, <1>8, <2>2
<1>9. ToSet(d \o c) = ToSet(s) \cup {x}
  BY <1>3, <1>6, <1>7
<1> QED BY <1>5, <1>7, <1>8, <1>9

\* What FlattenSeq returns: the elements of all sequences, and each once if no
\* two of the sequences have one in common and none has one twice.
LEMMA FlattenProperties ==
    ASSUME NEW V, NEW ss \in Seq(Seq(V))
    PROVE  /\ FlattenSeq(ss) \in Seq(V)
           /\ ToSet(FlattenSeq(ss)) = UNION {ToSet(ss[i]) : i \in DOMAIN ss}
           /\ /\ \A i \in DOMAIN ss : IsInjective(ss[i])
              /\ \A i, j \in DOMAIN ss : i # j => ToSet(ss[i]) \cap ToSet(ss[j]) = {}
              => IsInjective(FlattenSeq(ss))
<1>1. CASE Len(ss) = 0
  <2>1. ss = <<>> /\ FlattenSeq(ss) = <<>> /\ DOMAIN ss = {}
    BY <1>1, EmptySeq DEF FlattenSeq
  <2>2. FlattenSeq(ss) \in Seq(V)
    <3>1. << >> \in Seq(V)
      OBVIOUS
    <3> QED BY <2>1, <3>1
  <2>3. DOMAIN << >> = {}
    OBVIOUS
  <2>4. ToSet(FlattenSeq(ss)) = {} /\ IsInjective(FlattenSeq(ss))
    BY <2>1, <2>3 DEF ToSet, IsInjective
  <2>5. UNION {ToSet(ss[i]) : i \in DOMAIN ss} = {}
    BY <2>1
  <2> QED BY <2>2, <2>4, <2>5
<1>2. CASE Len(ss) # 0
  <2> DEFINE n == Len(ss)
             Apart == /\ \A i \in DOMAIN ss : IsInjective(ss[i])
                      /\ \A i, j \in DOMAIN ss : i # j => ToSet(ss[i]) \cap ToSet(ss[j]) = {}
  <2>1. n \in Nat /\ n # 0 /\ DOMAIN ss = 1 .. n /\ \A i \in 1 .. n : ss[i] \in Seq(V)
    BY <1>2
  <2>2. PICK a \in [1 .. n -> Seq(V)] : /\ a[1] = ss[1]
                                        /\ \A i \in 2 .. n : a[i] = a[i - 1] \o ss[i]
                                        /\ FlattenSeq(ss) = a[n]
    BY <1>2, FlattenSteps
  <2> HIDE DEF n
  <2> DEFINE Ok(i) == /\ ToSet(a[i]) = UNION {ToSet(ss[j]) : j \in 1 .. i}
                      /\ Apart => IsInjective(a[i])
             M == {i \in 0 .. n : i # 0 => Ok(i)}
  <2>3. 0 \in M
    BY <2>1
  <2>4. ASSUME NEW i \in 0 .. n - 1, i \in M PROVE i + 1 \in M
    <3>1. i + 1 \in 1 .. n /\ i \in 0 .. n /\ (i + 1) - 1 = i
      BY <2>1
    <3>2. CASE i = 0
      <4>1. UNION {ToSet(ss[j]) : j \in 1 .. 1} = ToSet(ss[1])
        OBVIOUS
      <4>2. Ok(1)
        <5>1. 1 \in DOMAIN ss /\ a[1] = ss[1] /\ i + 1 = 1
          BY <2>1, <2>2, <3>1, <3>2
        <5>2. ToSet(a[1]) = UNION {ToSet(ss[j]) : j \in 1 .. 1}
          BY <4>1, <5>1
        <5>3. Apart => IsInjective(a[1])
          BY <5>1
        <5> QED BY <5>2, <5>3
      <4> HIDE DEF Ok
      <4> QED BY <3>1, <3>2, <4>2
    <3>3. CASE i # 0
      <4>1. i \in 1 .. n /\ i + 1 \in 2 .. n /\ a[i] \in Seq(V) /\ ss[i + 1] \in Seq(V)
        BY <2>1, <3>1, <3>3
      <4>2. a[i + 1] = a[i] \o ss[i + 1] /\ Ok(i)
        BY <2>2, <2>4, <3>1, <3>3, <4>1
      <4>3. UNION {ToSet(ss[j]) : j \in 1 .. i + 1} = (UNION {ToSet(ss[j]) : j \in 1 .. i}) \cup ToSet(ss[i + 1])
        <5>1. 1 .. i + 1 = (1 .. i) \cup {i + 1}
          BY <3>1
        <5> QED BY <5>1
      <4>4. Apart => ToSet(a[i]) \cap ToSet(ss[i + 1]) = {}
        <5> SUFFICES ASSUME Apart, NEW x \in ToSet(a[i]), x \in ToSet(ss[i + 1]) PROVE FALSE
          OBVIOUS
        <5>1. PICK j \in 1 .. i : x \in ToSet(ss[j])
          BY <4>2
        <5>2. j \in DOMAIN ss /\ i + 1 \in DOMAIN ss /\ j # i + 1
          BY <2>1, <3>1, <4>1
        <5> QED BY <5>1, <5>2
      <4>5. Apart => IsInjective(ss[i + 1])
        BY <2>1, <3>1
      <4>6. /\ ToSet(a[i + 1]) = ToSet(a[i]) \cup ToSet(ss[i + 1])
            /\ IsInjective(a[i]) /\ IsInjective(ss[i + 1]) /\ ToSet(a[i]) \cap ToSet(ss[i + 1]) = {}
                 => IsInjective(a[i + 1])
        <5> HIDE DEF Ok
        <5>1. /\ ToSet(a[i] \o ss[i + 1]) = ToSet(a[i]) \cup ToSet(ss[i + 1])
              /\ IsInjective(a[i]) /\ IsInjective(ss[i + 1]) /\ ToSet(a[i]) \cap ToSet(ss[i + 1]) = {}
                   => IsInjective(a[i] \o ss[i + 1])
          BY <4>1, ConcatInjective
        <5> QED BY <4>2, <5>1
      <4>7. Ok(i + 1)
        <5> HIDE DEF Apart
        <5> QED BY <4>2, <4>3, <4>4, <4>5, <4>6
      <4> HIDE DEF Ok
      <4> QED BY <3>1, <4>7
    <3> QED BY <3>2, <3>3
  <2>5. 0 .. n \subseteq M
    <3> HIDE DEF M
    <3> QED BY <2>1, <2>3, <2>4, BoundedInduction
  <2>6. n \in 0 .. n /\ n \in 1 .. n
    BY <2>1
  <2>7. Ok(n)
    <3> HIDE DEF Ok
    <3> QED BY <2>1, <2>5, <2>6
  <2> QED BY <2>1, <2>2, <2>6, <2>7
<1> QED BY <1>1, <1>2
=============================================================================
