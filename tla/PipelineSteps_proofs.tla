------------------------- MODULE PipelineSteps_proofs -------------------------
(***************************************************************************)
(* Theorems about PipelineSteps, for any steps and matrices: the rows of a *)
(* build mirror its document.                                              *)
(***************************************************************************)
EXTENDS PipelineSteps, FoldLemmas, TLAPS

-----------------------------------------------------------------------------
(* Combinations. *)

\* x is a member of P with one of n values after it.
IsAppended(x, P, n) == \E p \in P, v \in 1 .. n : x = Append(p, v)

LEMMA AppendedApart ==
    \A s, t \in Seq(Nat), v, u \in Nat : Append(s, v) = Append(t, u) => s = t /\ v = u
BY AppendInjective

\* A key of n values, added to every combination.
LEMMA ExtendedCombines ==
    ASSUME NEW combos \in Seq(Seq(Nat)), NEW n \in Nat
    PROVE  /\ Extended(combos, n) \in Seq(Seq(Nat))
           /\ \A x : x \in ToSet(Extended(combos, n)) <=> IsAppended(x, ToSet(combos), n)
           /\ IsInjective(combos) => IsInjective(Extended(combos, n))
<1> DEFINE D == DOMAIN combos
           ss == [c \in D |-> [v \in 1 .. n |-> Append(combos[c], v)]]
<1>1. /\ Len(combos) \in Nat /\ D = 1 .. Len(combos)
      /\ \A c \in D : combos[c] \in Seq(Nat)
  OBVIOUS
<1>2. \A c \in D, v \in 1 .. n : Append(combos[c], v) \in Seq(Nat)
  BY <1>1, AppendProperties
<1>3. \A c \in D : /\ ss[c] \in Seq(Seq(Nat)) /\ DOMAIN ss[c] = 1 .. n
                   /\ \A v \in 1 .. n : ss[c][v] = Append(combos[c], v)
  <2> SUFFICES ASSUME NEW c \in D
               PROVE  /\ ss[c] \in Seq(Seq(Nat)) /\ DOMAIN ss[c] = 1 .. n
                      /\ \A v \in 1 .. n : ss[c][v] = Append(combos[c], v)
    OBVIOUS
  <2> DEFINE q == [v \in 1 .. n |-> Append(combos[c], v)]
  <2>1. \A v \in 1 .. n : q[v] \in Seq(Nat)
    BY <1>2
  <2>2. q \in [1 .. n -> Seq(Nat)]
    BY <2>1
  <2>3. q \in Seq(Seq(Nat))
    <3> HIDE DEF q
    <3> QED BY <2>2, SeqDef
  <2> QED BY <2>3
<1>4. ss \in Seq(Seq(Seq(Nat))) /\ DOMAIN ss = D
  <2> DEFINE W == Seq(Seq(Nat))
  <2>1. ss \in [1 .. Len(combos) -> W]
    <3>1. DOMAIN ss = 1 .. Len(combos) /\ ss = [c \in D |-> ss[c]]
      BY <1>1
    <3> HIDE DEF ss
    <3> QED BY <1>1, <1>3, <3>1
  <2>2. ss \in Seq(W)
    <3> DEFINE m == Len(combos)
    <3>1. m \in Nat /\ ss \in [1 .. m -> W]
      BY <1>1, <2>1
    <3> HIDE DEF ss, W, m
    <3> QED BY <3>1, SeqDef
  <2> QED BY <2>2
<1>5. Extended(combos, n) = FlattenSeq(ss)
  BY DEF Extended
<1> HIDE DEF ss, D
<1>6. \A c \in D : ToSet(ss[c]) = {Append(combos[c], v) : v \in 1 .. n}
  BY <1>3 DEF ToSet
<1>7. \A c, d \in D, v, u \in 1 .. n :
         Append(combos[c], v) = Append(combos[d], u) => combos[c] = combos[d] /\ v = u
  <2> SUFFICES ASSUME NEW c \in D, NEW d \in D, NEW v \in 1 .. n, NEW u \in 1 .. n,
                      Append(combos[c], v) = Append(combos[d], u)
               PROVE  combos[c] = combos[d] /\ v = u
    OBVIOUS
  <2>1. combos[c] \in Seq(Nat) /\ combos[d] \in Seq(Nat) /\ v \in Nat /\ u \in Nat
    BY <1>1
  <2>2. PICK s \in Seq(Nat), t \in Seq(Nat) : s = combos[c] /\ t = combos[d]
    BY <2>1
  <2>3. s = t /\ v = u
    <3>1. Append(s, v) = Append(t, u)
      BY <2>2
    <3> QED BY <2>1, <3>1, AppendedApart
  <2> QED BY <2>2, <2>3
<1>8. /\ FlattenSeq(ss) \in Seq(Seq(Nat))
      /\ ToSet(FlattenSeq(ss)) = UNION {ToSet(ss[c]) : c \in DOMAIN ss}
  BY <1>4, FlattenProperties
<1>9. ASSUME NEW x PROVE x \in UNION {ToSet(ss[c]) : c \in DOMAIN ss} <=> IsAppended(x, ToSet(combos), n)
  <2>1. ASSUME x \in UNION {ToSet(ss[c]) : c \in DOMAIN ss} PROVE IsAppended(x, ToSet(combos), n)
    <3>1. PICK c \in D : x \in ToSet(ss[c])
      BY <1>4, <2>1
    <3>2. PICK v \in 1 .. n : x = Append(combos[c], v)
      BY <1>6, <3>1
    <3>3. combos[c] \in ToSet(combos)
      BY DEF ToSet, D
    <3> QED BY <3>2, <3>3 DEF IsAppended
  <2>2. ASSUME IsAppended(x, ToSet(combos), n) PROVE x \in UNION {ToSet(ss[c]) : c \in DOMAIN ss}
    <3>1. PICK p \in ToSet(combos), v \in 1 .. n : x = Append(p, v)
      BY <2>2 DEF IsAppended
    <3>2. PICK c \in D : p = combos[c]
      BY DEF ToSet, D
    <3>3. x \in ToSet(ss[c])
      BY <1>6, <3>1, <3>2
    <3> QED BY <1>4, <3>3
  <2> QED BY <2>1, <2>2
<1>10. ASSUME IsInjective(combos) PROVE IsInjective(FlattenSeq(ss))
  <2>1. \A c, d \in D : combos[c] = combos[d] => c = d
    BY <1>10 DEF IsInjective, D
  <2>2. \A c \in DOMAIN ss : IsInjective(ss[c])
    <3> SUFFICES ASSUME NEW c \in D, NEW v \in 1 .. n, NEW u \in 1 .. n, ss[c][v] = ss[c][u]
                 PROVE  v = u
      BY <1>3, <1>4 DEF IsInjective
    <3>1. Append(combos[c], v) = Append(combos[c], u)
      BY <1>3
    <3> QED BY <1>7, <3>1
  <2>3. \A c, d \in DOMAIN ss : c # d => ToSet(ss[c]) \cap ToSet(ss[d]) = {}
    <3> SUFFICES ASSUME NEW c \in D, NEW d \in D, c # d, NEW x \in ToSet(ss[c]), x \in ToSet(ss[d])
                 PROVE  FALSE
      BY <1>4
    <3>1. PICK v \in 1 .. n, u \in 1 .. n : x = Append(combos[c], v) /\ x = Append(combos[d], u)
      BY <1>6
    <3>2. combos[c] = combos[d]
      BY <1>7, <3>1
    <3> QED BY <2>1, <3>2
  <2> QED BY <1>4, <2>2, <2>3, FlattenProperties
<1> QED BY <1>5, <1>8, <1>9, <1>10

\* The choices of a value for each of the first k keys.
KeyChoices(sizes, k) == {p \in [1 .. k -> Nat] : \A i \in 1 .. k : p[i] \in 1 .. sizes[i]}

\* No keys, one choice.
LEMMA NoChoices == \A sizes : KeyChoices(sizes, 0) = {<< >>}
<1>1. [1 .. 0 -> Nat] = {<< >>}
  <2>1. << >> \in [1 .. 0 -> Nat]
    OBVIOUS
  <2>2. ASSUME NEW p \in [1 .. 0 -> Nat] PROVE p = << >>
    <3>1. p \in Seq(Nat) /\ Len(p) = 0
      BY SeqDef
    <3> QED BY <3>1, EmptySeq
  <2> QED BY <2>1, <2>2
<1>2. \A i \in 1 .. 0 : FALSE
  OBVIOUS
<1> QED BY <1>1, <1>2 DEF KeyChoices

LEMMA ChoicesExtend ==
    ASSUME NEW sizes \in Seq(Nat), NEW k \in Nat, k + 1 \in 1 .. Len(sizes)
    PROVE  \A x : x \in KeyChoices(sizes, k + 1) <=> IsAppended(x, KeyChoices(sizes, k), sizes[k + 1])
<1>0. sizes[k + 1] \in Nat /\ k + 1 \in Nat
  OBVIOUS
<1>1. ASSUME NEW p \in KeyChoices(sizes, k), NEW v \in 1 .. sizes[k + 1]
      PROVE  Append(p, v) \in KeyChoices(sizes, k + 1)
  <2>1. p \in Seq(Nat) /\ Len(p) = k /\ \A i \in 1 .. k : p[i] \in 1 .. sizes[i]
    BY SeqDef DEF KeyChoices
  <2>2. v \in Nat
    BY <1>0
  <2>3. /\ Append(p, v) \in Seq(Nat) /\ Len(Append(p, v)) = k + 1
        /\ \A i \in 1 .. k : Append(p, v)[i] = p[i]
        /\ Append(p, v)[k + 1] = v
    BY <2>1, <2>2, AppendProperties
  <2>4. Append(p, v) \in [1 .. k + 1 -> Nat]
    BY <2>3, LenProperties
  <2>5. ASSUME NEW i \in 1 .. k + 1 PROVE Append(p, v)[i] \in 1 .. sizes[i]
    <3>1. i \in 1 .. k \/ i = k + 1
      OBVIOUS
    <3> QED BY <2>1, <2>3, <3>1
  <2> QED BY <2>4, <2>5 DEF KeyChoices
<1>2. ASSUME NEW q \in KeyChoices(sizes, k + 1)
      PROVE  IsAppended(q, KeyChoices(sizes, k), sizes[k + 1])
  <2> DEFINE p == [i \in 1 .. k |-> q[i]]
  <2>1. q \in [1 .. k + 1 -> Nat] /\ \A i \in 1 .. k + 1 : q[i] \in 1 .. sizes[i] /\ q[i] \in Nat
    BY DEF KeyChoices
  <2>2. \A i \in 1 .. k : i \in 1 .. k + 1
    OBVIOUS
  <2>3. p \in [1 .. k -> Nat] /\ \A i \in 1 .. k : p[i] = q[i]
    BY <2>1, <2>2
  <2> HIDE DEF p
  <2>4. p \in KeyChoices(sizes, k)
    BY <2>1, <2>2, <2>3 DEF KeyChoices
  <2>5. q[k + 1] \in 1 .. sizes[k + 1] /\ q[k + 1] \in Nat
    BY <2>1
  <2>6. p \in Seq(Nat) /\ Len(p) = k /\ q \in Seq(Nat) /\ Len(q) = k + 1
    BY <2>1, <2>3, SeqDef
  <2>7. /\ Append(p, q[k + 1]) \in Seq(Nat) /\ Len(Append(p, q[k + 1])) = k + 1
        /\ \A i \in 1 .. k : Append(p, q[k + 1])[i] = p[i]
        /\ Append(p, q[k + 1])[k + 1] = q[k + 1]
    BY <2>5, <2>6, AppendProperties
  <2>8. \A i \in 1 .. k + 1 : q[i] = Append(p, q[k + 1])[i]
    <3> SUFFICES ASSUME NEW i \in 1 .. k + 1 PROVE q[i] = Append(p, q[k + 1])[i]
      OBVIOUS
    <3>1. i \in 1 .. k \/ i = k + 1
      OBVIOUS
    <3> QED BY <2>3, <2>7, <3>1
  <2>9. q = Append(p, q[k + 1])
    BY <2>6, <2>7, <2>8, SeqEqual
  <2> QED BY <2>4, <2>5, <2>9 DEF IsAppended
<1> QED BY <1>1, <1>2 DEF IsAppended

\* Combinations makes every choice once.
LEMMA CombinationsAreChoices ==
    ASSUME NEW sizes \in Seq(Nat)
    PROVE  /\ Combinations(sizes) \in Seq(Seq(Nat))
           /\ ToSet(Combinations(sizes)) = KeyChoices(sizes, Len(sizes))
           /\ IsInjective(Combinations(sizes))
<1> DEFINE n == Len(sizes)
           D == 1 .. n
           V == Seq(Seq(Nat))
           base == << << >> >>
           pick == [T \in SUBSET D |-> Max(T)]
           step == [p \in D \X V |-> Extended(p[2], sizes[p[1]])]
           Is(iter) == iter = [T \in SUBSET DOMAIN sizes |->
                                 IF T = {} THEN base ELSE Extended(iter[T \ {Max(T)}], sizes[Max(T)])]
           iter == CHOOSE i : Is(i)
<1>0. n \in Nat /\ DOMAIN sizes = D /\ base \in V /\ \A i \in D : sizes[i] \in Nat
  <2>1. << >> \in Seq(Nat)
    OBVIOUS
  <2>2. base \in V
    BY <2>1
  <2> QED BY <2>2
<1>1. Combinations(sizes) = iter[D]
  BY <1>0 DEF Combinations, FoldLeft, MapThenFoldSet
<1>2. \A i \in D, v \in V : step[<<i, v>>] = Extended(v, sizes[i]) /\ step[<<i, v>>] \in V
  <2> SUFFICES ASSUME NEW i \in D, NEW v \in V
               PROVE  step[<<i, v>>] = Extended(v, sizes[i]) /\ step[<<i, v>>] \in V
    OBVIOUS
  <2>1. step[<<i, v>>] = Extended(v, sizes[i])
    OBVIOUS
  <2>2. Extended(v, sizes[i]) \in V
    BY <1>0, ExtendedCombines
  <2> QED BY <2>1, <2>2
<1>3. \A T \in SUBSET D : T # {} => pick[T] = Max(T) /\ pick[T] \in T
  BY <1>0, GreatestIndex
<1>4. Is(iter)
  <2>1. IsFiniteSet(D)
    BY FS_Interval
  <2>2. PICK g \in [SUBSET D -> V] : IsFold(g, D, base, pick, step)
    <3> HIDE DEF D, V, pick, step, base
    <3> QED BY <1>0, <1>2, <1>3, <2>1, FoldExists
  <2>3. Is(g)
    <3> SUFFICES ASSUME NEW T \in SUBSET D
                 PROVE  g[T] = IF T = {} THEN base ELSE Extended(g[T \ {Max(T)}], sizes[Max(T)])
      BY <1>0
    <3> HIDE DEF D, V, pick, step, base
    <3>1. g[T] = IF T = {} THEN base ELSE step[<<pick[T], g[T \ {pick[T]}]>>]
      BY <2>2 DEF IsFold
    <3>2. T # {} => Max(T) \in D /\ g[T \ {Max(T)}] \in V /\ pick[T] = Max(T)
      BY <1>3
    <3> QED BY <1>2, <3>1, <3>2
  <2> HIDE DEF Is
  <2> QED BY <2>3
<1>5. iter[{}] = base
  <2> HIDE DEF iter, D, V, base
  <2> QED BY <1>4
<1>6. ASSUME NEW i \in 1 .. n, iter[1 .. i - 1] \in V PROVE iter[1 .. i] = step[<<i, iter[1 .. i - 1]>>]
  <2>1. i \in Nat \ {0} /\ i \in D /\ 1 .. i \in SUBSET DOMAIN sizes /\ 1 .. i # {}
    <3>1. i \in Nat \ {0} /\ i \in D /\ i \in 1 .. i
      BY <1>0
    <3>2. 1 .. i \subseteq 1 .. n
      BY <1>0
    <3> QED BY <1>0, <3>1, <3>2
  <2>2. Max(1 .. i) = i /\ (1 .. i) \ {i} = 1 .. i - 1
    BY <2>1, GreatestOfPrefix
  <2> HIDE DEF iter, D, V, step, base
  <2>3. iter[1 .. i] = Extended(iter[1 .. i - 1], sizes[i])
    BY <1>4, <2>1, <2>2
  <2> QED BY <1>2, <1>6, <2>1, <2>3
<1>7. PICK a \in [0 .. n -> V] : IsRecursion(a, n, base, step)
  <2>1. n \in Nat /\ base \in V
    BY <1>0
  <2>2. \A i \in 1 .. n, v \in V : step[<<i, v>>] \in V
    BY <1>2
  <2> HIDE DEF n, V, step, base
  <2> QED BY <2>1, <2>2, PrefixRecursion
<1>8. iter[1 .. n] = a[n]
  <2> HIDE DEF iter, n, V, step, base
  <2>1. OnPrefixes(iter, n, V, base, step)
    BY <1>5, <1>6 DEF OnPrefixes
  <2> QED BY <1>0, <1>7, <2>1, FoldOfPrefixes
<1> DEFINE Ok(i) == IsInjective(a[i]) /\ ToSet(a[i]) = KeyChoices(sizes, i)
           M == {i \in 0 .. n : Ok(i)}
<1> HIDE DEF iter, n, V, step, pick
<1>9. 0 \in M
  <2>1. a[0] = base /\ DOMAIN base = {1} /\ base[1] = << >>
    BY <1>7 DEF IsRecursion
  <2>2. ToSet(a[0]) = {<< >>} /\ IsInjective(a[0])
    BY <2>1 DEF ToSet, IsInjective
  <2>3. KeyChoices(sizes, 0) = {<< >>}
    BY NoChoices
  <2>4. Ok(0) /\ 0 \in 0 .. n
    BY <1>0, <2>2, <2>3
  <2> HIDE DEF Ok
  <2> QED BY <2>4
<1>10. ASSUME NEW i \in 0 .. n - 1, i \in M PROVE i + 1 \in M
  <2>1. i + 1 \in 1 .. n /\ (i + 1) - 1 = i /\ i \in 0 .. n /\ i + 1 \in 0 .. n /\ i \in Nat
    BY <1>0
  <2>2. a[i + 1] = step[<<i + 1, a[i]>>] /\ a[i] \in V /\ sizes[i + 1] \in Nat
    BY <1>0, <1>7, <2>1 DEF IsRecursion
  <2>3. a[i + 1] = Extended(a[i], sizes[i + 1])
    BY <1>2, <2>1, <2>2
  <2>4. Ok(i)
    BY <1>10
  <2>5. /\ \A x : x \in ToSet(a[i + 1]) <=> IsAppended(x, ToSet(a[i]), sizes[i + 1])
        /\ IsInjective(a[i]) => IsInjective(a[i + 1])
    BY <2>2, <2>3, ExtendedCombines DEF V
  <2>6. \A x : x \in KeyChoices(sizes, i + 1) <=> IsAppended(x, KeyChoices(sizes, i), sizes[i + 1])
    BY <2>1, ChoicesExtend DEF n
  <2>7. Ok(i + 1)
    BY <2>4, <2>5, <2>6
  <2> QED BY <2>1, <2>7
<1>11. 0 .. n \subseteq M
  <2> HIDE DEF M
  <2> QED BY <1>0, <1>9, <1>10, BoundedInduction
<1>12. Ok(n) /\ a[n] \in V
  BY <1>0, <1>11
<1> QED BY <1>1, <1>8, <1>12 DEF V, n

-----------------------------------------------------------------------------
(* Places. *)

\* The values of a sequence have an upper bound among them, or it is 0.
LEMMA LargestSize ==
    ASSUME NEW sizes \in Seq(Nat)
    PROVE  LET T == {0} \union ToSet(sizes) IN
           /\ Max(T) \in Nat
           /\ \A i \in DOMAIN sizes : sizes[i] <= Max(T)
<1> DEFINE n == Len(sizes)
           Upto(i) == {0} \union {sizes[j] : j \in 1 .. i}
           M == {i \in 0 .. n : \E m \in Upto(i) : \A x \in Upto(i) : m >= x}
<1>0. n \in Nat /\ DOMAIN sizes = 1 .. n /\ \A j \in 1 .. n : sizes[j] \in Nat
  OBVIOUS
<1> HIDE DEF n
<1>1. 0 \in M
  <2>1. Upto(0) = {0}
    OBVIOUS
  <2> QED BY <1>0, <2>1
<1>2. ASSUME NEW i \in 0 .. n - 1, i \in M PROVE i + 1 \in M
  <2>1. i + 1 \in 1 .. n /\ i + 1 \in 0 .. n /\ sizes[i + 1] \in Nat
    BY <1>0
  <2>2. Upto(i + 1) = Upto(i) \union {sizes[i + 1]}
    <3>1. 1 .. i + 1 = (1 .. i) \union {i + 1}
      BY <1>0
    <3> QED BY <3>1
  <2>3. PICK m \in Upto(i) : \A x \in Upto(i) : m >= x
    BY <1>2
  <2>4. Upto(i) \subseteq Nat
    BY <1>0
  <2> HIDE DEF Upto
  <2>5. CASE sizes[i + 1] <= m
    BY <2>1, <2>2, <2>3, <2>4, <2>5
  <2>6. CASE ~(sizes[i + 1] <= m)
    <3>1. \A x \in Upto(i + 1) : sizes[i + 1] >= x
      BY <2>1, <2>2, <2>3, <2>4, <2>6
    <3> QED BY <2>1, <2>2, <3>1
  <2> QED BY <2>5, <2>6
<1>3. 0 .. n \subseteq M
  <2> HIDE DEF M
  <2> QED BY <1>0, <1>1, <1>2, BoundedInduction
<1>4. {0} \union ToSet(sizes) = Upto(n)
  BY <1>0 DEF ToSet
<1>5. Upto(n) \subseteq Nat
  BY <1>0
<1>6. \E m \in Upto(n) : \A x \in Upto(n) : m >= x
  <2>1. n \in M
    <3> HIDE DEF M
    <3> QED BY <1>0, <1>3
  <2> HIDE DEF Upto
  <2> QED BY <2>1
<1>7. Max(Upto(n)) \in Upto(n) /\ \A x \in Upto(n) : Max(Upto(n)) >= x
  <2> HIDE DEF Upto
  <2> QED BY <1>6 DEF Max
<1>8. \A j \in 1 .. n : sizes[j] \in Upto(n)
  OBVIOUS
<1>9. \A j \in 1 .. n : sizes[j] <= Max(Upto(n))
  <2> HIDE DEF Upto
  <2>1. Max(Upto(n)) \in Nat
    BY <1>5, <1>7
  <2> QED BY <1>0, <1>7, <1>8, <2>1
<1>10. Max(Upto(n)) \in Nat
  <2> HIDE DEF Upto
  <2> QED BY <1>5, <1>7
<1> QED BY <1>0, <1>4, <1>9, <1>10

LEMMA ShapesTyped ==
    ASSUME NEW s \in StepShape
    PROVE  s.sizes \in Seq(Nat) /\ s.if \in Condition
BY StepAssumption

\* The places of a command step are what Combinations makes of its matrix.
LEMMA PlacesAreChoices ==
    ASSUME NEW s \in StepShape, StepType(s) = "command"
    PROVE  Places(s) = KeyChoices(s.sizes, Len(s.sizes))
<1> DEFINE sizes == s.sizes
           most == Max({0} \union ToSet(sizes))
           n == Len(sizes)
<1>1. /\ sizes \in Seq(Nat) /\ n \in Nat /\ DOMAIN sizes = 1 .. n
      /\ \A i \in 1 .. n : sizes[i] \in Nat
  BY ShapesTyped
<1>2. most \in Nat /\ \A i \in 1 .. n : sizes[i] <= most
  BY <1>1, LargestSize
<1> HIDE DEF most
<1>3. Places(s) = {p \in [1 .. n -> 1 .. most] : \A i \in 1 .. n : p[i] <= sizes[i]}
  BY <1>1 DEF Places, most
<1> HIDE DEF sizes, n
<1>4. ASSUME NEW p \in Places(s) PROVE p \in KeyChoices(sizes, n)
  <2>1. p \in [1 .. n -> 1 .. most] /\ \A i \in 1 .. n : p[i] <= sizes[i]
    BY <1>3
  <2>2. \A i \in 1 .. n : p[i] \in 1 .. sizes[i] /\ p[i] \in Nat
    BY <1>1, <1>2, <2>1
  <2> QED BY <2>1, <2>2 DEF KeyChoices
<1>5. ASSUME NEW p \in KeyChoices(sizes, n) PROVE p \in Places(s)
  <2>1. p \in [1 .. n -> Nat] /\ \A i \in 1 .. n : p[i] \in 1 .. sizes[i]
    BY DEF KeyChoices
  <2>2. \A i \in 1 .. n : p[i] \in 1 .. most /\ p[i] <= sizes[i]
    BY <1>1, <1>2, <2>1
  <2>3. p \in [1 .. n -> 1 .. most]
    BY <2>1, <2>2
  <2> QED BY <1>3, <2>2, <2>3
<1> QED BY <1>4, <1>5 DEF sizes, n

\* A step without a matrix has one place.
LEMMA PlaceOfPlainStep ==
    ASSUME NEW s \in StepShape, StepType(s) # "command" \/ s.sizes = << >>
    PROVE  Places(s) = {<< >>}
<1>1. CASE StepType(s) # "command"
  BY <1>1 DEF Places
<1>2. CASE StepType(s) = "command" /\ s.sizes = << >>
  <2>1. Places(s) = KeyChoices(<< >>, 0)
    BY <1>2, PlacesAreChoices
  <2> QED BY <2>1, NoChoices
<1> QED BY <1>1, <1>2

-----------------------------------------------------------------------------
(* The rows. *)

\* While the pipeline is read, the rows are those of the steps that were read.
RowsAreRead ==
    \A n \in DOMAIN jobs : /\ jobs[n].step \in 1 .. read /\ jobs[n].status = "PENDING"
                           /\ jobs[n].combo \in Places(steps[jobs[n].step])

RowsAreComplete ==
    \A i \in 1 .. read : \A p \in Places(steps[i]) :
        \E n \in DOMAIN jobs : jobs[n].step = i /\ jobs[n].combo = p

RowsAreInOrder ==
    \A m, n \in DOMAIN jobs : m < n =>
        /\ jobs[m].step <= jobs[n].step
        /\ jobs[m].combo # jobs[n].combo \/ jobs[m].step # jobs[n].step

RowsSoFar == RowsAreRead /\ RowsAreComplete /\ RowsAreInOrder

StepInv ==
    /\ StepTypeOK
    /\ parsing = "expand" => RowsSoFar
    /\ RowsMirrorPipeline

LEMMA RowFields ==
    ASSUME NEW i, NEW p, NEW type
    PROVE  Row(i, p, type).step = i /\ Row(i, p, type).combo = p /\ Row(i, p, type).status = "PENDING"
BY DEF Row

\* The rows of the next step, new, make it one of those that were read.
LEMMA StepRead ==
    ASSUME StepInv, Expandable,
           NEW combos \in Seq(Seq(Nat)), IsInjective(combos), ToSet(combos) = Places(This),
           NEW type \in {"command", "wait", "block", "trigger", "none"},
           jobs' = jobs \o [c \in DOMAIN combos |-> Row(read + 1, combos[c], type)],
           read' = read + 1, UNCHANGED <<form, steps, parsing>>
    PROVE  StepInv'
<1> DEFINE J == [step : DOMAIN steps, combo : Seq(Nat),
                 type : {"command", "wait", "block", "trigger", "none"},
                 status : {"PENDING", "SKIPPED"}]
           new == [c \in DOMAIN combos |-> Row(read + 1, combos[c], type)]
           n == Len(jobs)
           k == Len(combos)
<1>1. /\ steps \in Seq(StepShape) /\ Len(steps) \in Nat /\ DOMAIN steps = 1 .. Len(steps)
      /\ read \in Nat /\ read + 1 \in 1 .. Len(steps) /\ read + 1 \in 0 .. Len(steps)
      /\ form \in Form /\ parsing = "expand"
      /\ jobs \in Seq(J) /\ n \in Nat /\ DOMAIN jobs = 1 .. n
      /\ k \in Nat /\ DOMAIN combos = 1 .. k /\ \A c \in 1 .. k : combos[c] \in Seq(Nat)
  BY DEF StepInv, StepTypeOK, Expandable
<1>2. \A c \in 1 .. k : new[c] = Row(read + 1, combos[c], type) /\ new[c] \in J
  BY <1>1 DEF Row
<1>3. new \in Seq(J) /\ Len(new) = k
  <2>1. new \in [1 .. k -> J]
    BY <1>1, <1>2
  <2> HIDE DEF new, J, k
  <2> QED BY <1>1, <2>1, SeqDef
<1> HIDE DEF new, k, n
<1>4. /\ jobs' \in Seq(J) /\ Len(jobs') = n + k /\ DOMAIN jobs' = 1 .. n + k
      /\ \A i \in 1 .. n + k : jobs'[i] = IF i <= n THEN jobs[i] ELSE new[i - n]
  <2>1. jobs' = jobs \o new
    BY DEF new
  <2> HIDE DEF J
  <2>2. /\ jobs \o new \in Seq(J) /\ Len(jobs \o new) = Len(jobs) + Len(new)
        /\ \A i \in 1 .. Len(jobs) + Len(new) :
              (jobs \o new)[i] = IF i <= Len(jobs) THEN jobs[i] ELSE new[i - Len(jobs)]
    BY <1>1, <1>3, ConcatProperties
  <2> QED BY <1>1, <1>3, <2>1, <2>2, LenProperties DEF n
<1>5. StepTypeOK'
  BY <1>1, <1>4 DEF StepTypeOK
<1> HIDE DEF J
<1>6. \A i \in 1 .. n : i \in 1 .. n + k /\ jobs'[i] = jobs[i]
  BY <1>1, <1>4
<1>7. \A i \in 1 .. n + k : i > n =>
         /\ i - n \in 1 .. k /\ jobs'[i] = Row(read + 1, combos[i - n], type)
         /\ jobs'[i].step = read + 1 /\ jobs'[i].combo = combos[i - n] /\ jobs'[i].status = "PENDING"
  <2> SUFFICES ASSUME NEW i \in 1 .. n + k, i > n
               PROVE  /\ i - n \in 1 .. k /\ jobs'[i] = Row(read + 1, combos[i - n], type)
                      /\ jobs'[i].step = read + 1 /\ jobs'[i].combo = combos[i - n]
                      /\ jobs'[i].status = "PENDING"
    OBVIOUS
  <2>1. i - n \in 1 .. k /\ ~(i <= n)
    BY <1>1
  <2>2. jobs'[i] = Row(read + 1, combos[i - n], type)
    BY <1>2, <1>4, <2>1
  <2>3. /\ Row(read + 1, combos[i - n], type).step = read + 1
        /\ Row(read + 1, combos[i - n], type).combo = combos[i - n]
        /\ Row(read + 1, combos[i - n], type).status = "PENDING"
    BY RowFields
  <2> QED BY <2>1, <2>2, <2>3, Zenon
<1>8. RowsSoFar
  BY <1>1 DEF StepInv
<1>9. steps' = steps /\ This = steps[read + 1] /\ read' = read + 1
  BY DEF This
<1>10. ASSUME NEW i \in 1 .. n + k
       PROVE  /\ jobs'[i].step \in 1 .. read' /\ jobs'[i].status = "PENDING"
              /\ jobs'[i].combo \in Places(steps'[jobs'[i].step])
  <2>1. CASE i <= n
    <3>1. i \in DOMAIN jobs /\ jobs'[i] = jobs[i]
      BY <1>1, <1>6, <2>1
    <3>2. /\ jobs[i].step \in 1 .. read /\ jobs[i].status = "PENDING"
          /\ jobs[i].combo \in Places(steps[jobs[i].step])
      BY <1>8, <3>1 DEF RowsSoFar, RowsAreRead, RowsAreComplete, RowsAreInOrder
    <3> QED BY <1>1, <1>9, <3>1, <3>2
  <2>2. CASE i > n
    <3>1. i - n \in DOMAIN combos
      BY <1>1, <1>7, <2>2
    <3>2. combos[i - n] \in Places(This)
      BY <3>1 DEF ToSet
    <3>3. /\ jobs'[i].step = read + 1 /\ jobs'[i].combo = combos[i - n]
          /\ jobs'[i].status = "PENDING"
      BY <1>7, <2>2
    <3>4. read + 1 \in 1 .. read' /\ Places(steps'[read + 1]) = Places(This)
      BY <1>1, <1>9
    <3> QED BY <3>2, <3>3, <3>4
  <2> QED BY <1>1, <2>1, <2>2
<1>11. ASSUME NEW i \in 1 .. read', NEW p \in Places(steps'[i])
       PROVE  \E m \in 1 .. n + k : jobs'[m].step = i /\ jobs'[m].combo = p
  <2>1. CASE i \in 1 .. read
    <3>0. p \in Places(steps[i])
      BY <1>9
    <3>1. PICK m \in DOMAIN jobs : jobs[m].step = i /\ jobs[m].combo = p
      BY <1>8, <2>1, <3>0 DEF RowsSoFar, RowsAreComplete
    <3> QED BY <1>1, <1>6, <3>1
  <2>2. CASE i = read + 1
    <3>1. p \in ToSet(combos)
      BY <1>9, <2>2
    <3>2. PICK c \in 1 .. k : p = combos[c]
      BY <1>1, <3>1 DEF ToSet
    <3>3. n + c \in 1 .. n + k /\ n + c > n /\ (n + c) - n = c
      BY <1>1
    <3> QED BY <1>7, <2>2, <3>2, <3>3
  <2>3. i \in 1 .. read \/ i = read + 1
    BY <1>1, <1>9
  <2> QED BY <2>1, <2>2, <2>3
<1>12. ASSUME NEW l \in 1 .. n + k, NEW m \in 1 .. n + k, l < m
       PROVE  /\ jobs'[l].step <= jobs'[m].step
              /\ jobs'[l].combo # jobs'[m].combo \/ jobs'[l].step # jobs'[m].step
  <2>1. CASE m <= n
    <3>1. l \in DOMAIN jobs /\ m \in DOMAIN jobs /\ jobs'[l] = jobs[l] /\ jobs'[m] = jobs[m]
      BY <1>1, <1>6, <1>12, <2>1
    <3> QED BY <1>8, <1>12, <3>1 DEF RowsSoFar, RowsAreRead, RowsAreComplete, RowsAreInOrder
  <2>2. CASE m > n /\ l <= n
    <3>1. l \in DOMAIN jobs /\ jobs'[l] = jobs[l]
      BY <1>1, <1>6, <2>2
    <3>2. jobs'[l].step \in 1 .. read
      BY <1>8, <3>1 DEF RowsSoFar, RowsAreRead, RowsAreComplete, RowsAreInOrder
    <3>3. jobs'[m].step = read + 1
      BY <1>7, <2>2
    <3>4. ASSUME NEW a \in 1 .. read PROVE a <= read + 1 /\ a # read + 1
      BY <1>1
    <3> QED BY <3>2, <3>3, <3>4
  <2>3. CASE m > n /\ l > n
    <3>0. l - n # m - n
      BY <1>1, <1>12
    <3>1. /\ jobs'[l].step = read + 1 /\ jobs'[m].step = read + 1
          /\ jobs'[l].combo = combos[l - n] /\ jobs'[m].combo = combos[m - n]
          /\ l - n \in DOMAIN combos /\ m - n \in DOMAIN combos /\ l - n # m - n
      BY <1>1, <1>7, <2>3, <3>0
    <3>2. combos[l - n] # combos[m - n]
      BY <3>1 DEF IsInjective
    <3>3. read + 1 <= read + 1
      BY <1>1
    <3>4. jobs'[l].step <= jobs'[m].step
      BY <3>1, <3>3
    <3>5. jobs'[l].combo # jobs'[m].combo
      BY <3>1, <3>2
    <3> QED BY <3>4, <3>5
  <2>4. m <= n \/ (m > n /\ l <= n) \/ (m > n /\ l > n)
    BY <1>1
  <2> QED BY <2>1, <2>2, <2>3, <2>4
<1>13. RowsSoFar'
  <2> DEFINE D == 1 .. n + k
  <2>1. DOMAIN jobs' = D
    BY <1>4
  <2>2. \A i \in D : /\ jobs'[i].step \in 1 .. read' /\ jobs'[i].status = "PENDING"
                     /\ jobs'[i].combo \in Places(steps'[jobs'[i].step])
    BY <1>10
  <2>3. \A i \in 1 .. read' : \A p \in Places(steps'[i]) :
           \E m \in D : jobs'[m].step = i /\ jobs'[m].combo = p
    BY <1>11
  <2>4. \A l, m \in D : l < m =>
           /\ jobs'[l].step <= jobs'[m].step
           /\ jobs'[l].combo # jobs'[m].combo \/ jobs'[l].step # jobs'[m].step
    BY <1>12
  <2> HIDE DEF D
  <2>5. RowsAreRead'
    BY <2>1, <2>2 DEF RowsAreRead
  <2>6. RowsAreComplete'
    BY <2>1, <2>3 DEF RowsAreComplete
  <2>7. RowsAreInOrder'
    BY <2>1, <2>4 DEF RowsAreInOrder
  <2> QED BY <2>5, <2>6, <2>7 DEF RowsSoFar
<1>14. RowsMirrorPipeline'
  BY <1>1 DEF RowsMirrorPipeline
<1> QED BY <1>5, <1>13, <1>14 DEF StepInv

LEMMA NormalizeStepKeeps ==
    ASSUME StepInv, NormalizeStep
    PROVE  StepInv'
<1> DEFINE combos == << << >> >>
           type == StepType(This)
<1>1. This \in StepShape
  BY DEF StepInv, StepTypeOK, NormalizeStep, Expandable, This
<1>2. combos \in Seq(Seq(Nat)) /\ IsInjective(combos) /\ ToSet(combos) = {<< >>}
      /\ DOMAIN combos = {1}
  <2>1. << >> \in Seq(Nat)
    OBVIOUS
  <2>2. combos \in Seq(Seq(Nat))
    BY <2>1
  <2>3. DOMAIN combos = {1} /\ combos[1] = << >>
    OBVIOUS
  <2> HIDE DEF combos
  <2> QED BY <2>2, <2>3 DEF IsInjective, ToSet
<1>3. Places(This) = {<< >>}
  BY <1>1, PlaceOfPlainStep DEF NormalizeStep
<1>4. type \in {"command", "wait", "block", "trigger", "none"}
  BY DEF StepType
<1>5. jobs' = jobs \o [c \in DOMAIN combos |-> Row(read + 1, combos[c], type)]
  <2> DEFINE r == Row(read + 1, << >>, type)
             J == [step : DOMAIN steps, combo : Seq(Nat),
                   type : {"command", "wait", "block", "trigger", "none"},
                   status : {"PENDING", "SKIPPED"}]
  <2>1. jobs' = Append(jobs, r) /\ jobs \in Seq(J)
    BY DEF NormalizeStep, StepInv, StepTypeOK
  <2>2. r \in J
    <3>1. read + 1 \in DOMAIN steps /\ << >> \in Seq(Nat)
      BY DEF NormalizeStep, Expandable, StepInv, StepTypeOK
    <3> HIDE DEF type
    <3> QED BY <1>4, <3>1 DEF Row
  <2>3. [c \in DOMAIN combos |-> Row(read + 1, combos[c], type)] = <<r>>
    <3>1. [c \in DOMAIN combos |-> Row(read + 1, combos[c], type)] = [c \in 1 .. 1 |-> r]
      <4>1. DOMAIN combos = 1 .. 1 /\ \A c \in 1 .. 1 : combos[c] = << >>
        OBVIOUS
      <4> HIDE DEF combos
      <4> QED BY <4>1
    <3>2. [c \in 1 .. 1 |-> r] = <<r>>
      <4> HIDE DEF r
      <4> QED OBVIOUS
    <3> QED BY <3>1, <3>2
  <2> HIDE DEF r, J
  <2>4. Append(jobs, r) = jobs \o <<r>>
    BY <2>1, <2>2, AppendIsConcat
  <2> QED BY <2>1, <2>3, <2>4
<1> HIDE DEF combos, type
<1> QED BY <1>2, <1>3, <1>4, <1>5, StepRead DEF NormalizeStep

LEMMA ExpandMatrixKeeps ==
    ASSUME StepInv, ExpandMatrix
    PROVE  StepInv'
<1> DEFINE combos == Combinations(This.sizes)
<1>1. This \in StepShape /\ StepType(This) = "command"
  BY DEF StepInv, StepTypeOK, ExpandMatrix, Expandable, This
<1>2. /\ combos \in Seq(Seq(Nat)) /\ IsInjective(combos)
      /\ ToSet(combos) = KeyChoices(This.sizes, Len(This.sizes))
  BY <1>1, ShapesTyped, CombinationsAreChoices
<1>3. ToSet(combos) = Places(This)
  BY <1>1, <1>2, PlacesAreChoices
<1>4. jobs' = jobs \o [c \in DOMAIN combos |-> Row(read + 1, combos[c], "none")]
  BY DEF ExpandMatrix
<1> HIDE DEF combos
<1> QED BY <1>2, <1>3, <1>4, StepRead DEF ExpandMatrix

\* The conditions decide the status of a row and nothing else, and a condition
\* that names no key of the matrix decides the same for every row of its step.
LEMMA MakeRowsKeeps ==
    ASSUME StepInv, MakeRows
    PROVE  StepInv'
<1> DEFINE J == [step : DOMAIN steps, combo : Seq(Nat),
                 type : {"command", "wait", "block", "trigger", "none"},
                 status : {"PENDING", "SKIPPED"}]
           Held(n) == EvaluateExpression(steps[jobs[n].step].if, jobs[n].combo)
<1>1. /\ steps \in Seq(StepShape) /\ Len(steps) \in Nat /\ DOMAIN steps = 1 .. Len(steps)
      /\ read = Len(steps) /\ form \in Form /\ parsing = "expand" /\ parsing' = "done"
      /\ UNCHANGED <<form, steps, read>>
      /\ jobs \in Seq(J) /\ Len(jobs) \in Nat /\ DOMAIN jobs = 1 .. Len(jobs)
  BY DEF StepInv, StepTypeOK, MakeRows
<1>9. \A n \in DOMAIN jobs : jobs[n] \in J
  <2> HIDE DEF J
  <2> QED BY <1>1
<1>2. RowsSoFar
  BY <1>1 DEF StepInv
<1>3. jobs' = [n \in DOMAIN jobs |-> IF Held(n) THEN jobs[n] ELSE [jobs[n] EXCEPT !.status = "SKIPPED"]]
  BY DEF MakeRows
<1> HIDE DEF Held
<1>4. /\ DOMAIN jobs' = DOMAIN jobs
      /\ \A n \in DOMAIN jobs :
            /\ jobs'[n] \in J
            /\ jobs'[n].step = jobs[n].step /\ jobs'[n].combo = jobs[n].combo
            /\ jobs'[n].status = (IF Held(n) THEN "PENDING" ELSE "SKIPPED")
  <2>1. DOMAIN jobs' = DOMAIN jobs
    BY <1>3
  <2> SUFFICES ASSUME NEW n \in DOMAIN jobs
               PROVE  /\ jobs'[n] \in J
                      /\ jobs'[n].step = jobs[n].step /\ jobs'[n].combo = jobs[n].combo
                      /\ jobs'[n].status = (IF Held(n) THEN "PENDING" ELSE "SKIPPED")
    BY <2>1
  <2>2. jobs[n] \in J /\ jobs[n].status = "PENDING"
    BY <1>2, <1>9 DEF RowsSoFar, RowsAreRead, RowsAreComplete, RowsAreInOrder
  <2>3. jobs'[n] = IF Held(n) THEN jobs[n] ELSE [jobs[n] EXCEPT !.status = "SKIPPED"]
    BY <1>3
  <2>4. CASE Held(n)
    BY <2>2, <2>3, <2>4
  <2>5. CASE ~Held(n)
    BY <2>2, <2>3, <2>5
  <2> QED BY <2>4, <2>5
<1>5. StepTypeOK'
  <2>1. jobs' \in [1 .. Len(jobs) -> J]
    BY <1>1, <1>3, <1>4
  <2>2. jobs' \in Seq(J)
    <3> HIDE DEF J
    <3> QED BY <1>1, <2>1, SeqDef
  <2> QED BY <1>1, <2>2 DEF StepTypeOK
<1>6. {<<jobs[n].step, jobs[n].combo>> : n \in DOMAIN jobs}'
        = (UNION {{<<i, p>> : p \in Places(steps[i])} : i \in DOMAIN steps})'
  <2> DEFINE A == {<<jobs[n].step, jobs[n].combo>> : n \in DOMAIN jobs}'
             B(i) == {<<i, p>> : p \in Places(steps'[i])}
  <2>1. ASSUME NEW x \in A PROVE \E i \in DOMAIN steps' : x \in B(i)
    <3>1. PICK n \in DOMAIN jobs : x = <<jobs[n].step, jobs[n].combo>>
      BY <1>4
    <3>2. jobs[n].step \in DOMAIN steps' /\ jobs[n].combo \in Places(steps'[jobs[n].step])
      BY <1>1, <1>2 DEF RowsSoFar, RowsAreRead, RowsAreComplete, RowsAreInOrder
    <3> QED BY <3>1, <3>2
  <2>2. ASSUME NEW i \in DOMAIN steps', NEW p \in Places(steps'[i]) PROVE <<i, p>> \in A
    <3>1. PICK n \in DOMAIN jobs : jobs[n].step = i /\ jobs[n].combo = p
      BY <1>1, <1>2 DEF RowsSoFar, RowsAreRead, RowsAreComplete, RowsAreInOrder
    <3>2. <<i, p>> = <<jobs'[n].step, jobs'[n].combo>> /\ n \in DOMAIN jobs'
      BY <1>4, <3>1
    <3> QED BY <3>2
  <2> QED BY <2>1, <2>2
<1>7. ASSUME NEW m \in DOMAIN jobs', NEW n \in DOMAIN jobs', m < n
      PROVE  /\ jobs'[m].step <= jobs'[n].step
             /\ jobs'[m].combo # jobs'[n].combo \/ jobs'[m].step # jobs'[n].step
             /\ jobs'[m].step = jobs'[n].step /\ jobs'[m].status # jobs'[n].status
                  => steps'[jobs'[m].step].if = "key"
  <2>1. m \in DOMAIN jobs /\ n \in DOMAIN jobs
    BY <1>4
  <2>2. jobs[m].step <= jobs[n].step /\ (jobs[m].combo # jobs[n].combo \/ jobs[m].step # jobs[n].step)
    BY <1>2, <1>7, <2>1 DEF RowsSoFar, RowsAreRead, RowsAreComplete, RowsAreInOrder
  <2>3. ASSUME jobs[m].step = jobs[n].step, Held(m) # Held(n)
        PROVE  steps[jobs[m].step].if = "key"
    BY <2>3 DEF Held, EvaluateExpression
  <2> QED BY <1>1, <1>4, <2>1, <2>2, <2>3
<1>8. RowsMirrorPipeline'
  BY <1>6, <1>7 DEF RowsMirrorPipeline
<1> QED BY <1>1, <1>5, <1>8 DEF StepInv

LEMMA StepInvHolds == StepSpec => []StepInv
<1>1. StepInit => StepInv
  <2> SUFFICES ASSUME StepInit PROVE StepInv
    OBVIOUS
  <2>1. jobs = << >> /\ read = 0 /\ parsing = "expand" /\ form \in Form
    BY DEF StepInit
  <2>2. steps \in Seq(StepShape)
    <3>1. PICK m \in 0 .. MaxSteps : steps \in [1 .. m -> StepShape]
      BY DEF StepInit, SeqOf
    <3>2. m \in Nat
      BY StepAssumption
    <3> QED BY <3>1, <3>2, SeqDef
  <2>3. DOMAIN << >> = {} /\ 1 .. 0 = {} /\ 0 \in 0 .. Len(steps)
    BY <2>2
  <2>4. StepTypeOK
    BY <2>1, <2>2, <2>3 DEF StepTypeOK
  <2>5. RowsSoFar
    BY <2>1, <2>3 DEF RowsSoFar, RowsAreRead, RowsAreComplete, RowsAreInOrder
  <2> QED BY <2>1, <2>4, <2>5 DEF StepInv, RowsMirrorPipeline
<1>2. StepInv /\ [StepNext]_stepVars => StepInv'
  <2> SUFFICES ASSUME StepInv, [StepNext]_stepVars PROVE StepInv'
    OBVIOUS
  <2>1. CASE RefuseStep
    <3>1. parsing' = "raised" /\ jobs' = << >> /\ UNCHANGED <<form, steps, read>>
      BY <2>1 DEF RefuseStep
    <3>2. StepTypeOK'
      BY <3>1 DEF StepInv, StepTypeOK
    <3> QED BY <3>1, <3>2 DEF StepInv, RowsMirrorPipeline
  <2>2. CASE UNCHANGED stepVars
    <3>1. form' = form /\ steps' = steps /\ read' = read /\ jobs' = jobs /\ parsing' = parsing
      BY <2>2 DEF stepVars
    <3>2. StepTypeOK'
      BY <3>1 DEF StepInv, StepTypeOK
    <3>3. RowsSoFar => RowsSoFar'
      <4>1. RowsAreRead => RowsAreRead'
        BY <3>1 DEF RowsAreRead
      <4>2. RowsAreComplete => RowsAreComplete'
        BY <3>1 DEF RowsAreComplete
      <4>3. RowsAreInOrder => RowsAreInOrder'
        BY <3>1 DEF RowsAreInOrder
      <4> QED BY <4>1, <4>2, <4>3 DEF RowsSoFar
    <3>4. RowsMirrorPipeline => RowsMirrorPipeline'
      <4> SUFFICES ASSUME RowsMirrorPipeline, parsing' = "done"
                   PROVE  RowsMirrorPipeline'
        BY DEF RowsMirrorPipeline
      <4>1. parsing = "done"
        BY <3>1
      <4>2. {<<jobs[n].step, jobs[n].combo>> : n \in DOMAIN jobs}'
              = (UNION {{<<i, p>> : p \in Places(steps[i])} : i \in DOMAIN steps})'
        <5>1. {<<jobs[n].step, jobs[n].combo>> : n \in DOMAIN jobs}
                = UNION {{<<i, p>> : p \in Places(steps[i])} : i \in DOMAIN steps}
          BY <4>1 DEF RowsMirrorPipeline
        <5> QED BY <3>1, <5>1
      <4>3. \A m, n \in DOMAIN jobs' : m < n =>
               /\ jobs'[m].step <= jobs'[n].step
               /\ jobs'[m].combo # jobs'[n].combo \/ jobs'[m].step # jobs'[n].step
               /\ jobs'[m].step = jobs'[n].step /\ jobs'[m].status # jobs'[n].status
                    => steps'[jobs'[m].step].if = "key"
        BY <3>1, <4>1 DEF RowsMirrorPipeline
      <4> QED BY <4>2, <4>3 DEF RowsMirrorPipeline
    <3> QED BY <3>1, <3>2, <3>3, <3>4 DEF StepInv
  <2> QED BY <2>1, <2>2, NormalizeStepKeeps, ExpandMatrixKeeps, MakeRowsKeeps DEF StepNext
<1> QED BY <1>1, <1>2, PTL DEF StepSpec

\* The rows of a pipeline are rows of its steps.
THEOREM StepTypeCorrect == StepSpec => []StepTypeOK
<1>1. StepInv => StepTypeOK
  BY DEF StepInv
<1> QED BY <1>1, StepInvHolds, PTL

\* The rows of a build are its document: every step, at every place of its
\* matrix, is one row, and they come in the order of the steps.
THEOREM RowsMirror == StepSpec => []RowsMirrorPipeline
<1>1. StepInv => RowsMirrorPipeline
  BY DEF StepInv
<1> QED BY <1>1, StepInvHolds, PTL
=============================================================================
