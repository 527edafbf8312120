-------------------------- MODULE BuildCache_proofs --------------------------
(***************************************************************************)
(* Theorems about BuildCache, for any keys, sizes, threads and limits:     *)
(* what is served torn is being worked on or was spoiled by a failure, and *)
(* an eviction nobody comes between reaches its goal, but for what the     *)
(* metadata claim.                                                         *)
(***************************************************************************)
EXTENDS BuildCache, FoldLemmas, TLAPS

\* A thread at one of these places works on a key.
AtKey == {"clean", "copy", "fill", "record", "remove", "unmeta", "hit"}

ThreadsPlaced ==
    \A w \in CacheWorker :
        /\ thread[w].at \in AtKey => thread[w].key \in CacheKey
        /\ thread[w].at \in {"clean", "copy"} => thread[w].done = 0
        /\ thread[w].at = "fill" => thread[w].done <= SizeOfKey[thread[w].key]
        /\ thread[w].at = "record" => thread[w].total \in Nat
        /\ thread[w].at = "measure" => thread[w].mode = "put"

CacheTyped == CacheTypeOK /\ ThreadsPlaced

LEMMA SizesTyped == \A k \in CacheKey : SizeOfKey[k] \in Nat /\ SizeOfKey[k] # 0
  BY CacheAssumption

-----------------------------------------------------------------------------
(* Types. *)

LEMMA RestingTyped ==
    /\ Resting \in CacheTask /\ NoMeta \in Metadata
    /\ Resting.at = "idle" /\ Resting.mode = "none" /\ Resting.key = 0 /\ Resting.done = 0
    /\ Resting.left = {} /\ Resting.of = 0 /\ Resting.total = 0 /\ Resting.over = 0
  BY DEF Resting, NoMeta, CacheTask, Metadata, Working

Place == Working \union {"idle", "list", "next", "hit"}
Mode == {"none", "put", "clear", "delete", "get"}
EntryRecord == [key : CacheKey, size : Nat, born : Nat]

\* The tasks a thread turns to, as the steps write them: they are tasks, and
\* have the fields that were changed and those that were not.
PutOf(t, p, k) ==
    [[t EXCEPT !.mode = "put", !.key = k] EXCEPT !.at = p]
LEMMA PutOfTask ==
    ASSUME NEW t \in CacheTask, NEW p \in Place, NEW k \in CacheKey
    PROVE  /\ PutOf(t, p, k) \in CacheTask
           /\ PutOf(t, p, k).at = p
           /\ PutOf(t, p, k).key = k
           /\ PutOf(t, p, k).mode = "put"
           /\ PutOf(t, p, k).done = t.done
           /\ PutOf(t, p, k).of = t.of
  BY DEF PutOf, CacheTask, Place, Mode, EntryRecord

CleanOf(t, p, k, n) ==
    [[t EXCEPT !.mode = "put", !.key = k] EXCEPT !.at = p, !.of = n]
LEMMA CleanOfTask ==
    ASSUME NEW t \in CacheTask, NEW p \in Place, NEW k \in CacheKey, NEW n \in Nat
    PROVE  /\ CleanOf(t, p, k, n) \in CacheTask
           /\ CleanOf(t, p, k, n).at = p
           /\ CleanOf(t, p, k, n).key = k
           /\ CleanOf(t, p, k, n).of = n
           /\ CleanOf(t, p, k, n).done = t.done
  BY DEF CleanOf, CacheTask, Place, Mode, EntryRecord

MeasureOf(t, p) ==
    [t EXCEPT !.at = p, !.mode = "put"]
LEMMA MeasureOfTask ==
    ASSUME NEW t \in CacheTask, NEW p \in Place
    PROVE  /\ MeasureOf(t, p) \in CacheTask
           /\ MeasureOf(t, p).at = p
           /\ MeasureOf(t, p).mode = "put"
  BY DEF MeasureOf, CacheTask, Place, Mode, EntryRecord

RemovalOf(t, m, L) ==
    [t EXCEPT !.at = "next", !.mode = m, !.left = L]
LEMMA RemovalOfTask ==
    ASSUME NEW t \in CacheTask, NEW m \in Mode, NEW L \in SUBSET EntryRecord
    PROVE  /\ RemovalOf(t, m, L) \in CacheTask
           /\ RemovalOf(t, m, L).at = "next"
           /\ RemovalOf(t, m, L).mode = m
  BY DEF RemovalOf, CacheTask, Place, Mode, EntryRecord

HitOf(t, k, d) ==
    [t EXCEPT !.at = "hit", !.mode = "get", !.key = k, !.meta = d]
LEMMA HitOfTask ==
    ASSUME NEW t \in CacheTask, NEW k \in CacheKey, NEW d \in Metadata
    PROVE  /\ HitOf(t, k, d) \in CacheTask
           /\ HitOf(t, k, d).at = "hit"
           /\ HitOf(t, k, d).key = k
           /\ HitOf(t, k, d).meta = d
  BY DEF HitOf, CacheTask, Place, Mode, EntryRecord

PathOf(t, p, n) ==
    [t EXCEPT !.at = p, !.of = n]
LEMMA PathOfTask ==
    ASSUME NEW t \in CacheTask, NEW p \in Place, NEW n \in Nat
    PROVE  /\ PathOf(t, p, n) \in CacheTask
           /\ PathOf(t, p, n).at = p
           /\ PathOf(t, p, n).of = n
           /\ PathOf(t, p, n).key = t.key
           /\ PathOf(t, p, n).done = t.done
           /\ PathOf(t, p, n).mode = t.mode
           /\ PathOf(t, p, n).left = t.left
           /\ PathOf(t, p, n).total = t.total
           /\ PathOf(t, p, n).over = t.over
  BY DEF PathOf, CacheTask, Place, Mode, EntryRecord

CountOf(t, n) ==
    [t EXCEPT !.done = n]
LEMMA CountOfTask ==
    ASSUME NEW t \in CacheTask, NEW n \in Nat
    PROVE  /\ CountOf(t, n) \in CacheTask
           /\ CountOf(t, n).at = t.at
           /\ CountOf(t, n).done = n
           /\ CountOf(t, n).of = t.of
           /\ CountOf(t, n).key = t.key
  BY DEF CountOf, CacheTask, Place, Mode, EntryRecord

SizeOf(t, p, x) ==
    [t EXCEPT !.at = p, !.total = x]
LEMMA SizeOfTask ==
    ASSUME NEW t \in CacheTask, NEW p \in Place, NEW x \in Int
    PROVE  /\ SizeOf(t, p, x) \in CacheTask
           /\ SizeOf(t, p, x).at = p
           /\ SizeOf(t, p, x).total = x
           /\ SizeOf(t, p, x).of = t.of
           /\ SizeOf(t, p, x).key = t.key
  BY DEF SizeOf, CacheTask, Place, Mode, EntryRecord

ExcessOf(t, p, x, n) ==
    [t EXCEPT !.at = p, !.total = x, !.over = n]
LEMMA ExcessOfTask ==
    ASSUME NEW t \in CacheTask, NEW p \in Place, NEW x \in Int, NEW n \in Nat
    PROVE  /\ ExcessOf(t, p, x, n) \in CacheTask
           /\ ExcessOf(t, p, x, n).at = p
           /\ ExcessOf(t, p, x, n).mode = t.mode
           /\ ExcessOf(t, p, x, n).total = x
           /\ ExcessOf(t, p, x, n).over = n
  BY DEF ExcessOf, CacheTask, Place, Mode, EntryRecord

ListOf(t, p, L) ==
    [t EXCEPT !.at = p, !.left = L]
LEMMA ListOfTask ==
    ASSUME NEW t \in CacheTask, NEW p \in Place, NEW L \in SUBSET EntryRecord
    PROVE  /\ ListOf(t, p, L) \in CacheTask
           /\ ListOf(t, p, L).at = p
           /\ ListOf(t, p, L).mode = t.mode
           /\ ListOf(t, p, L).left = L
           /\ ListOf(t, p, L).total = t.total
           /\ ListOf(t, p, L).over = t.over
  BY DEF ListOf, CacheTask, Place, Mode, EntryRecord

KeyOf(t, p, k) ==
    [t EXCEPT !.at = p, !.key = k]
LEMMA KeyOfTask ==
    ASSUME NEW t \in CacheTask, NEW p \in Place, NEW k \in CacheKey \union {0}
    PROVE  /\ KeyOf(t, p, k) \in CacheTask
           /\ KeyOf(t, p, k).at = p
           /\ KeyOf(t, p, k).mode = t.mode
           /\ KeyOf(t, p, k).left = t.left
           /\ KeyOf(t, p, k).total = t.total
           /\ KeyOf(t, p, k).over = t.over
  BY DEF KeyOf, CacheTask, Place, Mode, EntryRecord

EntryOf(t, p, k, n, L, x) ==
    [[t EXCEPT !.left = L, !.total = x] EXCEPT !.at = p, !.key = k, !.of = n]
LEMMA EntryOfTask ==
    ASSUME NEW t \in CacheTask, NEW p \in Place, NEW k \in CacheKey, NEW n \in Nat,
           NEW L \in SUBSET EntryRecord, NEW x \in Int
    PROVE  /\ EntryOf(t, p, k, n, L, x) \in CacheTask
           /\ EntryOf(t, p, k, n, L, x).at = p
           /\ EntryOf(t, p, k, n, L, x).key = k
           /\ EntryOf(t, p, k, n, L, x).of = n
           /\ EntryOf(t, p, k, n, L, x).mode = t.mode
           /\ EntryOf(t, p, k, n, L, x).left = L
           /\ EntryOf(t, p, k, n, L, x).total = x
           /\ EntryOf(t, p, k, n, L, x).over = t.over
  BY DEF EntryOf, CacheTask, Place, Mode, EntryRecord

\* A thread that turns to another task leaves the others where they are.
LEMMA TaskChanges ==
    ASSUME CacheTyped, NEW w \in CacheWorker, NEW job \in CacheTask,
           thread' = [thread EXCEPT ![w] = job],
           job.at \in AtKey => job.key \in CacheKey,
           job.at \in {"clean", "copy"} => job.done = 0,
           job.at = "fill" => job.done <= SizeOfKey[job.key],
           job.at = "record" => job.total \in Nat,
           job.at = "measure" => job.mode = "put"
    PROVE  /\ thread' \in [CacheWorker -> CacheTask] /\ ThreadsPlaced'
           /\ thread'[w] = job /\ \A v \in CacheWorker \ {w} : thread'[v] = thread[v]
<1>1. /\ thread' \in [CacheWorker -> CacheTask]
      /\ thread'[w] = job /\ \A v \in CacheWorker \ {w} : thread'[v] = thread[v]
  BY DEF CacheTyped, CacheTypeOK
<1>2. ThreadsPlaced'
  <2> SUFFICES ASSUME NEW v \in CacheWorker
               PROVE  /\ thread'[v].at \in AtKey => thread'[v].key \in CacheKey
                      /\ thread'[v].at \in {"clean", "copy"} => thread'[v].done = 0
                      /\ thread'[v].at = "fill" => thread'[v].done <= SizeOfKey[thread'[v].key]
                      /\ thread'[v].at = "record" => thread'[v].total \in Nat
                      /\ thread'[v].at = "measure" => thread'[v].mode = "put"
    BY DEF ThreadsPlaced
  <2>1. CASE v = w
    BY <1>1, <2>1
  <2>2. CASE v # w
    BY <1>1, <2>2 DEF CacheTyped, ThreadsPlaced
  <2> QED BY <2>1, <2>2
<1> QED BY <1>1, <1>2

\* The parts of the type that belong to the files, the metadata and the history.
FilesTyped ==
    /\ held \in [CacheKey -> SUBSET Nat]
    /\ \A k \in CacheKey : held[k] \subseteq 1 .. SizeOfKey[k] /\ (copyOf[k] = 0 => held[k] = {})
    /\ copyOf \in [CacheKey -> 0 .. stores]
    /\ stores \in 0 .. MaxStores

RecordsTyped ==
    /\ meta \in [CacheKey -> Metadata]
    /\ births \in Nat
    /\ expired \subseteq Nat

HistoryTyped == spoiled \subseteq CacheKey /\ alone \subseteq CacheWorker

LEMMA CacheTypeParts ==
    CacheTypeOK <=> FilesTyped /\ RecordsTyped /\ HistoryTyped /\ thread \in [CacheWorker -> CacheTask]
  BY DEF CacheTypeOK, FilesTyped, RecordsTyped, HistoryTyped

LEMMA CacheTypePartsAfter ==
    CacheTypeOK' <=> FilesTyped' /\ RecordsTyped' /\ HistoryTyped' /\ thread' \in [CacheWorker -> CacheTask]
  BY DEF CacheTypeOK, FilesTyped, RecordsTyped, HistoryTyped

\* What each step of a thread turns its task into.
LEMMA TaskTyped ==
    ASSUME CacheTyped, NEW w \in CacheWorker
    PROVE  /\ thread[w] \in CacheTask
           /\ thread[w].at \in Working \union {"idle", "list", "next", "hit"}
           /\ thread[w].mode \in {"none", "put", "clear", "delete", "get"}
           /\ thread[w].key \in CacheKey \union {0} /\ thread[w].of \in Nat /\ thread[w].done \in Nat
           /\ thread[w].meta \in Metadata /\ thread[w].total \in Int /\ thread[w].over \in Nat
           /\ thread[w].left \in SUBSET [key : CacheKey, size : Nat, born : Nat]
           /\ thread[w].at \in AtKey => thread[w].key \in CacheKey
<1>1. thread[w] \in CacheTask
  BY DEF CacheTyped, CacheTypeOK
<1>2. thread[w].at \in AtKey => thread[w].key \in CacheKey
  BY DEF CacheTyped, ThreadsPlaced
<1> QED BY <1>1, <1>2 DEF CacheTask


LEMMA HeldIsFinite ==
    ASSUME FilesTyped, NEW k \in CacheKey
    PROVE  IsFiniteSet(held[k]) /\ Cardinality(held[k]) \in Nat
<1>1. held[k] \subseteq 1 .. SizeOfKey[k] /\ SizeOfKey[k] \in Int
  BY SizesTyped DEF FilesTyped
<1>2. IsFiniteSet(1 .. SizeOfKey[k])
  <2> DEFINE n == SizeOfKey[k]
  <2>1. n \in Int
    BY <1>1
  <2> HIDE DEF n
  <2>2. IsFiniteSet(1 .. n)
    BY <2>1, FS_Interval
  <2> QED BY <2>2 DEF n
<1> QED BY <1>1, <1>2, FS_Subset, FS_CardinalityType

\* Units adds up f over a set, whichever key it begins with.
LEMMA UnitsIsSum ==
    ASSUME NEW f, \A k \in CacheKey : f[k] \in Nat
    PROVE  /\ Units(f, {}) = 0
           /\ \A T \in SUBSET CacheKey :
                 /\ Units(f, T) \in Nat
                 /\ \A x \in T : Units(f, T) = f[x] + Units(f, T \ {x})
<1> DEFINE S == CacheKey
           pick == [T \in SUBSET S |-> CHOOSE x \in T : TRUE]
           step == [p \in S \X Nat |-> f[p[1]] + p[2]]
           Is(T, iter) == iter = [U \in SUBSET T |->
                                    IF U = {} THEN 0
                                    ELSE f[CHOOSE x \in U : TRUE] + iter[U \ {CHOOSE x \in U : TRUE}]]
<1>0. IsFiniteSet(S) /\ 0 \in Nat
  BY CacheAssumption
<1>1. \A T \in SUBSET S : T # {} => pick[T] \in T
  OBVIOUS
<1>2. \A x \in S, v \in Nat : step[<<x, v>>] = f[x] + v /\ step[<<x, v>>] \in Nat
  OBVIOUS
<1>3. PICK g \in [SUBSET S -> Nat] : IsFold(g, S, 0, pick, step)
  <2> HIDE DEF S, pick, step
  <2> QED BY <1>0, <1>1, <1>2, FoldExists
<1>4. \A T \in SUBSET S : g[T] \in Nat /\ (T = {} => g[T] = 0)
                          /\ (T # {} => g[T] = f[pick[T]] + g[T \ {pick[T]}])
  <2> SUFFICES ASSUME NEW T \in SUBSET S
               PROVE  g[T] \in Nat /\ (T = {} => g[T] = 0)
                      /\ (T # {} => g[T] = f[pick[T]] + g[T \ {pick[T]}])
    OBVIOUS
  <2> HIDE DEF S, pick, step
  <2>1. g[T] = IF T = {} THEN 0 ELSE step[<<pick[T], g[T \ {pick[T]}]>>]
    BY <1>3 DEF IsFold
  <2>2. T # {} => pick[T] \in S /\ g[T \ {pick[T]}] \in Nat
    BY <1>1
  <2> QED BY <1>2, <2>1, <2>2
<1>5. ASSUME NEW T \in SUBSET S PROVE Units(f, T) = g[T]
  <2> DEFINE iter == CHOOSE i : Is(T, i)
             h == [U \in SUBSET T |-> g[U]]
             C == {U \in SUBSET T : iter[U] = g[U]}
  <2>1. Units(f, T) = iter[T]
    BY DEF Units, MapThenSumSet, MapThenFoldSet
  <2>2. Is(T, h)
    <3> SUFFICES ASSUME NEW U \in SUBSET T
                 PROVE  h[U] = IF U = {} THEN 0
                               ELSE f[CHOOSE x \in U : TRUE] + h[U \ {CHOOSE x \in U : TRUE}]
      OBVIOUS
    <3>1. U \in SUBSET S /\ U \ {pick[U]} \in SUBSET T /\ pick[U] = CHOOSE x \in U : TRUE
      OBVIOUS
    <3> HIDE DEF pick, S
    <3> QED BY <1>4, <3>1
  <2>3. Is(T, iter)
    <3> HIDE DEF Is, h
    <3> QED BY <2>2
  <2>4. {} \in C
    <3> HIDE DEF iter, S, pick
    <3> QED BY <1>4, <2>3
  <2>5. ASSUME NEW U \in SUBSET T, U # {}, \A x \in U : U \ {x} \in C PROVE U \in C
    <3>1. U \in SUBSET S /\ U \ {pick[U]} \in C /\ pick[U] = CHOOSE x \in U : TRUE
      BY <2>5
    <3>2. iter[U \ {pick[U]}] = g[U \ {pick[U]}]
      BY <3>1
    <3>3. iter[U] = f[pick[U]] + iter[U \ {pick[U]}]
      <4> HIDE DEF iter, S, pick, C
      <4> QED BY <2>3, <2>5, <3>1
    <3> HIDE DEF iter, S, pick
    <3> QED BY <1>4, <2>5, <3>1, <3>2, <3>3
  <2>6. IsFiniteSet(T)
    BY <1>0, FS_Subset
  <2>7. SUBSET T \subseteq C
    <3> HIDE DEF C
    <3> QED BY <2>4, <2>5, <2>6, RemovalInduction
  <2> QED BY <2>1, <2>7
<1> DEFINE D == {T \in SUBSET S : \A x \in T : g[T] = f[x] + g[T \ {x}]}
<1>6. SUBSET S \subseteq D
  <2>1. {} \in D
    OBVIOUS
  <2>2. ASSUME NEW T \in SUBSET S, T # {}, \A x \in T : T \ {x} \in D PROVE T \in D
    <3> SUFFICES ASSUME NEW x \in T PROVE g[T] = f[x] + g[T \ {x}]
      OBVIOUS
    <3> DEFINE y == pick[T]
    <3>1. y \in T /\ g[T] = f[y] + g[T \ {y}]
      BY <1>1, <1>4, <2>2
    <3>2. T \ {x} \in D /\ T \ {y} \in D
      BY <2>2, <3>1
    <3> HIDE DEF y, pick
    <3>3. CASE x = y
      <4>1. g[T] = f[x] + g[T \ {x}]
        BY ONLY <3>1, <3>3
      <4> QED BY <4>1
    <3>4. CASE x # y
      <4>1. g[T \ {y}] = f[x] + g[(T \ {y}) \ {x}]
        BY <3>1, <3>2, <3>4
      <4>2. g[T \ {x}] = f[y] + g[(T \ {x}) \ {y}]
        BY <3>1, <3>2, <3>4
      <4>3. (T \ {y}) \ {x} = (T \ {x}) \ {y} /\ (T \ {x}) \ {y} \in SUBSET S
        OBVIOUS
      <4>4. g[(T \ {x}) \ {y}] \in Nat /\ f[x] \in Nat /\ f[y] \in Nat
        BY <1>4, <3>1, <4>3
      <4> DEFINE r == g[(T \ {x}) \ {y}]
      <4>5. g[T \ {y}] = f[x] + r /\ g[T \ {x}] = f[y] + r /\ r \in Nat
        BY <4>1, <4>2, <4>3, <4>4
      <4> HIDE DEF r
      <4>6. f[y] + (f[x] + r) = f[x] + (f[y] + r)
        BY <4>4, <4>5
      <4> QED BY <3>1, <4>5, <4>6
    <3> QED BY <3>3, <3>4
  <2> HIDE DEF D
  <2> QED BY <1>0, <2>1, <2>2, RemovalInduction
<1> HIDE DEF pick, step, Is
<1>7. Units(f, {}) = 0
  BY <1>4, <1>5
<1>8. ASSUME NEW T \in SUBSET S PROVE Units(f, T) \in Nat
  BY <1>4, <1>5
<1>9. ASSUME NEW T \in SUBSET S, NEW x \in T PROVE Units(f, T) = f[x] + Units(f, T \ {x})
  <2>1. Units(f, T) = g[T] /\ Units(f, T \ {x}) = g[T \ {x}]
    BY <1>5
  <2> QED BY <1>6, <2>1
<1> QED BY <1>7, <1>8, <1>9

\* Adding a key adds its units.
LEMMA UnitsGrow ==
    ASSUME NEW f, \A k \in CacheKey : f[k] \in Nat,
           NEW T \in SUBSET CacheKey, NEW x \in CacheKey \ T
    PROVE  Units(f, T \cup {x}) = f[x] + Units(f, T)
<1>1. T \cup {x} \in SUBSET CacheKey /\ x \in T \cup {x} /\ (T \cup {x}) \ {x} = T
  OBVIOUS
<1> QED BY <1>1, UnitsIsSum


LEMMA AmountsTyped ==
    ASSUME FilesTyped
    PROVE  \A k \in CacheKey : Amounts(held)[k] = Cardinality(held[k]) /\ Amounts(held)[k] \in Nat
  BY HeldIsFinite DEF Amounts

LEMMA OverclaimsTyped ==
    ASSUME FilesTyped, RecordsTyped
    PROVE  \A k \in CacheKey : Overclaims[k] \in Nat
<1> SUFFICES ASSUME NEW k \in CacheKey PROVE Overclaims[k] \in Nat
  OBVIOUS
<1>1. meta[k].size \in Nat /\ Cardinality(held[k]) \in Nat
  BY HeldIsFinite DEF RecordsTyped, Metadata
<1>2. Overclaims[k] = IF HasMeta(k) /\ meta[k].size > Cardinality(held[k])
                      THEN meta[k].size - Cardinality(held[k]) ELSE 0
  BY DEF Overclaims
<1> QED BY <1>1, <1>2

LEMMA SumsTyped ==
    ASSUME CacheTypeOK
    PROVE  TotalSize(held) \in Nat /\ Units(Overclaims, CacheKey) \in Nat
<1>1. Units(Amounts(held), CacheKey) \in Nat
  BY AmountsTyped, UnitsIsSum, CacheTypeParts
<1>2. Units(Overclaims, CacheKey) \in Nat
  BY OverclaimsTyped, UnitsIsSum, CacheTypeParts
<1> QED BY <1>1, <1>2 DEF TotalSize

-----------------------------------------------------------------------------
(* Each step keeps the types. *)

LEMMA SameFilesTyped ==
    ASSUME CacheTyped, UNCHANGED files
    PROVE  FilesTyped'
  BY DEF CacheTyped, CacheTypeOK, FilesTyped, files

LEMMA SameRecordsTyped ==
    ASSUME CacheTyped, UNCHANGED records
    PROVE  RecordsTyped'
  BY DEF CacheTyped, CacheTypeOK, RecordsTyped, records

LEMMA StepTyped ==
    ASSUME CacheTyped, NEW w \in CacheWorker, NEW job \in CacheTask,
           thread' = [thread EXCEPT ![w] = job],
           job.at \in AtKey => job.key \in CacheKey,
           job.at \in {"clean", "copy"} => job.done = 0,
           job.at = "fill" => job.done <= SizeOfKey[job.key],
           job.at = "record" => job.total \in Nat,
           job.at = "measure" => job.mode = "put",
           FilesTyped', RecordsTyped', HistoryTyped'
    PROVE  CacheTyped'
  BY TaskChanges, CacheTypePartsAfter DEF CacheTyped

\* A step that only turns a thread to another task.
LEMMA TurnTyped ==
    ASSUME CacheTyped, NEW w \in CacheWorker, NEW job \in CacheTask,
           thread' = [thread EXCEPT ![w] = job],
           job.at \in AtKey => job.key \in CacheKey,
           job.at \in {"clean", "copy"} => job.done = 0,
           job.at = "fill" => job.done <= SizeOfKey[job.key],
           job.at = "record" => job.total \in Nat,
           job.at = "measure" => job.mode = "put",
           UNCHANGED <<files, records, spoiled>>, alone' \subseteq CacheWorker
    PROVE  CacheTyped'
<1>1. FilesTyped' /\ RecordsTyped'
  BY SameFilesTyped, SameRecordsTyped
<1>2. HistoryTyped'
  BY DEF HistoryTyped, CacheTyped, CacheTypeOK
<1> QED BY <1>1, <1>2, StepTyped

LEMMA PutBeginsTyped ==
    ASSUME CacheTyped, NEW w \in CacheWorker, NEW k \in CacheKey, PutBegins(w, k)
    PROVE  CacheTyped'
<1>1. copyOf[k] \in Nat
  BY CacheAssumption DEF CacheTyped, CacheTypeOK
<1>2. "copy" \in Place /\ "clean" \in Place
  BY DEF Place, Working
<1>3. UNCHANGED <<files, records, spoiled>> /\ alone' = {}
  BY DEF PutBegins, Begins
<1>4. \/ thread' = [thread EXCEPT ![w] = PutOf(Resting, "copy", k)]
      \/ thread' = [thread EXCEPT ![w] = CleanOf(Resting, "clean", k, copyOf[k])]
  BY DEF PutBegins, Begins, PutOf, CleanOf
<1>5. CASE thread' = [thread EXCEPT ![w] = PutOf(Resting, "copy", k)]
  <2> DEFINE job == PutOf(Resting, "copy", k)
  <2>1. job \in CacheTask /\ job.at = "copy" /\ job.key = k /\ job.done = 0
    BY <1>2, RestingTyped, PutOfTask
  <2> HIDE DEF job
  <2> QED BY <1>3, <1>5, <2>1, TurnTyped DEF job
<1>6. CASE thread' = [thread EXCEPT ![w] = CleanOf(Resting, "clean", k, copyOf[k])]
  <2> DEFINE job == CleanOf(Resting, "clean", k, copyOf[k])
  <2>1. job \in CacheTask /\ job.at = "clean" /\ job.key = k /\ job.done = 0
    BY <1>1, <1>2, RestingTyped, CleanOfTask
  <2> HIDE DEF job
  <2> QED BY <1>3, <1>6, <2>1, TurnTyped DEF job
<1> QED BY <1>4, <1>5, <1>6

LEMMA PutMakesPathTyped ==
    ASSUME CacheTyped, NEW w \in CacheWorker, PutMakesPath(w)
    PROVE  CacheTyped'
<1> DEFINE job == PathOf(thread[w], "fill", stores + 1)
<1>1. /\ thread[w] \in CacheTask /\ thread[w].key \in CacheKey /\ thread[w].done = 0
      /\ stores \in Nat /\ stores + 1 \in Nat /\ SizeOfKey[thread[w].key] \in Nat
  BY TaskTyped, SizesTyped, CacheAssumption
     DEF PutMakesPath, AtKey, CacheTyped, CacheTypeOK, ThreadsPlaced
<1>2. job \in CacheTask /\ job.at = "fill" /\ job.key = thread[w].key /\ job.done = 0
  <2>1. "fill" \in Place
    BY DEF Working, Place
  <2> QED BY <1>1, <2>1, PathOfTask
<1>3. thread' = [thread EXCEPT ![w] = job] /\ alone' = alone
  BY DEF PutMakesPath, Goes, PathOf
<1> HIDE DEF job
<1>4. FilesTyped'
  <2>1. /\ stores' = stores + 1 /\ stores < MaxStores /\ stores' \in 0 .. MaxStores
        /\ copyOf' = [copyOf EXCEPT ![thread[w].key] = stores']
        /\ held' = [held EXCEPT ![thread[w].key] = {}]
    BY <1>1, CacheAssumption DEF PutMakesPath
  <2> QED BY <1>1, <2>1 DEF FilesTyped, CacheTyped, CacheTypeOK
<1>5. RecordsTyped' /\ HistoryTyped'
  BY <1>3 DEF PutMakesPath, RecordsTyped, HistoryTyped, CacheTyped, CacheTypeOK, records
<1>6. job.done <= SizeOfKey[job.key] /\ job.key \in CacheKey
  BY <1>1, <1>2
<1> QED BY <1>2, <1>3, <1>4, <1>5, <1>6, StepTyped

LEMMA PutCopiesTyped ==
    ASSUME CacheTyped, NEW w \in CacheWorker, PutCopies(w)
    PROVE  CacheTyped'
<1> DEFINE job == CountOf(thread[w], thread[w].done + 1)
           k == thread[w].key
<1>1. /\ thread[w] \in CacheTask /\ k \in CacheKey /\ thread[w].at = "fill"
      /\ thread[w].done \in Nat /\ SizeOfKey[k] \in Nat /\ thread[w].done < SizeOfKey[k]
      /\ thread[w].done + 1 \in Nat /\ thread[w].done + 1 <= SizeOfKey[k]
  BY TaskTyped, SizesTyped DEF PutCopies, AtKey
<1>2. job \in CacheTask /\ job.at = "fill" /\ job.key = k /\ job.done = thread[w].done + 1
  BY <1>1, CountOfTask
<1>3. thread' = [thread EXCEPT ![w] = job] /\ alone' = alone
  BY DEF PutCopies, Goes, CountOf
<1> HIDE DEF job
<1>4. FilesTyped'
  <2>1. /\ UNCHANGED <<copyOf, stores>>
        /\ \/ held' = [held EXCEPT ![k] = held[k]]
           \/ copyOf[k] # 0 /\ held' = [held EXCEPT ![k] = held[k] \union {thread[w].done + 1}]
    BY DEF PutCopies
  <2>2. thread[w].done + 1 \in 1 .. SizeOfKey[k] /\ thread[w].done + 1 \in Nat
    BY <1>1
  <2> HIDE DEF k
  <2> QED BY <1>1, <2>1, <2>2 DEF FilesTyped, CacheTyped, CacheTypeOK
<1>5. RecordsTyped' /\ HistoryTyped'
  BY <1>3 DEF PutCopies, RecordsTyped, HistoryTyped, CacheTyped, CacheTypeOK, records
<1> QED BY <1>1, <1>2, <1>3, <1>4, <1>5, StepTyped

LEMMA PutMeasuresTyped ==
    ASSUME CacheTyped, NEW w \in CacheWorker, PutMeasures(w)
    PROVE  CacheTyped'
<1> DEFINE n == Cardinality(held[thread[w].key])
           job == SizeOf(thread[w], "record", n)
<1>1. thread[w] \in CacheTask /\ thread[w].key \in CacheKey
  BY TaskTyped DEF PutMeasures, AtKey
<1>2. n \in Nat /\ n \in Int
  BY <1>1, HeldIsFinite, CacheTypeParts DEF CacheTyped
<1>3. thread' = [thread EXCEPT ![w] = job] /\ alone' = alone
  BY DEF PutMeasures, Goes, SizeOf
<1> HIDE DEF n
<1>4. job \in CacheTask /\ job.at = "record" /\ job.key = thread[w].key /\ job.total = n
  <2>1. "record" \in Place
    BY DEF Working, Place
  <2> QED BY <1>1, <1>2, <2>1, SizeOfTask
<1> HIDE DEF job
<1>5. UNCHANGED <<files, records, spoiled>> /\ alone' \subseteq CacheWorker
  BY <1>3 DEF PutMeasures, CacheTyped, CacheTypeOK
<1> QED BY <1>1, <1>2, <1>3, <1>4, <1>5, TurnTyped

LEMMA PutRecordsTyped ==
    ASSUME CacheTyped, NEW w \in CacheWorker, PutRecords(w)
    PROVE  CacheTyped'
<1> DEFINE job == MeasureOf(Resting, "measure")
           k == thread[w].key
           d == [store |-> thread[w].of, size |-> thread[w].total, born |-> births + 1]
<1>1. /\ k \in CacheKey /\ births \in Nat /\ births + 1 \in Nat
      /\ thread[w].of \in Nat /\ thread[w].total \in Nat
  BY TaskTyped DEF PutRecords, AtKey, CacheTyped, CacheTypeOK, ThreadsPlaced
<1>2. job \in CacheTask /\ job.at = "measure" /\ job.mode = "put"
  <2>1. "measure" \in Place
    BY DEF Working, Place
  <2> QED BY <2>1, RestingTyped, MeasureOfTask
<1>3. thread' = [thread EXCEPT ![w] = job] /\ alone' = alone
  BY DEF PutRecords, Goes, MeasureOf
<1> HIDE DEF job
<1>4. d \in Metadata
  BY <1>1 DEF Metadata
<1>5. meta' = [meta EXCEPT ![k] = d] /\ births' = births + 1 /\ expired' = expired
  BY DEF PutRecords
<1> HIDE DEF d, k
<1>6. RecordsTyped'
  BY <1>1, <1>4, <1>5 DEF RecordsTyped, CacheTyped, CacheTypeOK
<1>7. FilesTyped' /\ HistoryTyped'
  BY <1>3, SameFilesTyped DEF PutRecords, HistoryTyped, CacheTyped, CacheTypeOK
<1> QED BY <1>2, <1>3, <1>6, <1>7, StepTyped DEF AtKey

LEMMA EndsTyped ==
    ASSUME CacheTyped, NEW w \in CacheWorker, Ends(w), RecordsTyped', UNCHANGED files,
           spoiled' \subseteq CacheKey
    PROVE  CacheTyped'
<1>1. thread' = [thread EXCEPT ![w] = Resting] /\ alone' = alone
  BY DEF Ends, Goes
<1>2. FilesTyped' /\ HistoryTyped'
  BY <1>1, SameFilesTyped DEF HistoryTyped, CacheTyped, CacheTypeOK
<1> QED BY <1>1, <1>2, RestingTyped, StepTyped DEF AtKey

LEMMA MeasureTyped ==
    ASSUME CacheTyped, NEW w \in CacheWorker, Measure(w)
    PROVE  CacheTyped'
<1> DEFINE x == TotalSize(held)
           n == Units(Overclaims, CacheKey)
           job == ExcessOf(thread[w], "list", x, n)
<1>1. UNCHANGED <<files, records, spoiled>>
  BY DEF Measure
<1>2. CASE Ends(w)
  BY <1>1, <1>2, EndsTyped, SameRecordsTyped DEF CacheTyped, CacheTypeOK
<1>3. CASE ~ Ends(w)
  <2>1. thread' = [thread EXCEPT ![w] = job] /\ alone' \in {{w}, {}}
    BY <1>3 DEF Measure, ExcessOf, CacheTyped, CacheTypeOK
  <2>2. x \in Nat /\ n \in Nat
    BY SumsTyped DEF CacheTyped
  <2> HIDE DEF x, n
  <2>3. job \in CacheTask /\ job.at = "list"
    <3>1. "list" \in Place /\ x \in Int
      BY <2>2 DEF Working, Place
    <3>2. thread[w] \in CacheTask
      BY TaskTyped
    <3> QED BY <2>2, <3>1, <3>2, ExcessOfTask
  <2> HIDE DEF job
  <2> QED BY <1>1, <2>1, <2>3, TurnTyped DEF AtKey
<1> QED BY <1>2, <1>3

LEMMA ListEntriesTyped ==
    ASSUME CacheTyped, NEW w \in CacheWorker, ListEntries(w)
    PROVE  CacheTyped'
<1> DEFINE L == {Entry(k) : k \in Listed}
           job == ListOf(thread[w], "next", L)
<1>1. UNCHANGED <<files, records, spoiled>> /\ alone' \subseteq CacheWorker
  BY DEF ListEntries, Goes, CacheTyped, CacheTypeOK
<1>2. thread' = [thread EXCEPT ![w] = job]
  BY DEF ListEntries, Goes, ListOf
<1>3. L \in SUBSET EntryRecord
  BY DEF Listed, Entry, EntryRecord, CacheTyped, CacheTypeOK, Metadata
<1>4. job \in CacheTask /\ job.at = "next"
  <2>1. "next" \in Place /\ thread[w] \in CacheTask
    BY TaskTyped DEF Working, Place
  <2> HIDE DEF L
  <2> QED BY <1>3, <2>1, ListOfTask
<1> HIDE DEF job
<1> QED BY <1>1, <1>2, <1>4, TurnTyped DEF AtKey

LEMMA NextEntryTyped ==
    ASSUME CacheTyped, NEW w \in CacheWorker, NextEntry(w)
    PROVE  CacheTyped'
<1>1. UNCHANGED <<files, records, spoiled>> /\ alone' \subseteq CacheWorker
  BY DEF NextEntry, Goes, CacheTyped, CacheTypeOK
<1>2. PICK e \in thread[w].left :
        thread' = [thread EXCEPT ![w] =
                     EntryOf(thread[w], IF copyOf[e.key] = 0 THEN "unmeta" ELSE "remove", e.key,
                             copyOf[e.key], thread[w].left \ {e}, thread[w].total - e.size)]
  BY DEF NextEntry, Goes, Turned, EntryOf
<1> DEFINE p == IF copyOf[e.key] = 0 THEN "unmeta" ELSE "remove"
           L == thread[w].left \ {e}
           x == thread[w].total - e.size
           job == EntryOf(thread[w], p, e.key, copyOf[e.key], L, x)
<1>3. /\ thread[w] \in CacheTask /\ thread[w].left \in SUBSET EntryRecord
      /\ thread[w].total \in Int
  BY TaskTyped DEF EntryRecord
<1>4. e.key \in CacheKey /\ e.size \in Nat
  BY <1>3 DEF EntryRecord
<1>5. p \in Place /\ p \in {"remove", "unmeta"}
  BY DEF Place, Working
<1>6. L \in SUBSET EntryRecord /\ x \in Int
  BY <1>3, <1>4
<1>7. copyOf[e.key] \in Nat
  BY <1>4, CacheAssumption DEF CacheTyped, CacheTypeOK
<1> HIDE DEF p, L, x
<1>8. job \in CacheTask /\ job.at = p /\ job.key = e.key
  BY <1>3, <1>4, <1>5, <1>6, <1>7, EntryOfTask
<1>9. thread' = [thread EXCEPT ![w] = job]
  BY <1>2 DEF p, L, x
<1> HIDE DEF job
<1> QED BY <1>1, <1>4, <1>5, <1>8, <1>9, TurnTyped DEF AtKey

LEMMA RemoveFileTyped ==
    ASSUME CacheTyped, NEW w \in CacheWorker, RemoveFile(w)
    PROVE  CacheTyped'
<1> DEFINE k == thread[w].key
<1>1. PICK u \in held[k] : held' = [held EXCEPT ![k] = held[k] \ {u}]
  BY DEF RemoveFile
<1>2. UNCHANGED <<copyOf, stores, records, thread, spoiled, alone>> /\ k \in CacheKey
  BY TaskTyped DEF RemoveFile, Removing, AtKey
<1> HIDE DEF k
<1>3. FilesTyped'
  BY <1>1, <1>2 DEF FilesTyped, CacheTyped, CacheTypeOK
<1> QED BY <1>2, <1>3, SameRecordsTyped, CacheTypePartsAfter
        DEF CacheTyped, CacheTypeOK, HistoryTyped, ThreadsPlaced

LEMMA RemovePathTyped ==
    ASSUME CacheTyped, NEW w \in CacheWorker, RemovePath(w)
    PROVE  CacheTyped'
<1> DEFINE k == thread[w].key
           p == IF thread[w].at = "clean" THEN "copy" ELSE "unmeta"
           job == PathOf(thread[w], p, 0)
<1>1. /\ held' = [held EXCEPT ![k] = {}] /\ copyOf' = [copyOf EXCEPT ![k] = 0]
      /\ spoiled' = spoiled \ {k} /\ UNCHANGED <<stores, records>> /\ alone' = alone
  BY DEF RemovePath, Goes
<1>2. thread' = [thread EXCEPT ![w] = job]
  BY DEF RemovePath, Goes, PathOf
<1>3. /\ k \in CacheKey /\ thread[w] \in CacheTask
      /\ p \in Place /\ p \in {"copy", "unmeta"} /\ (p = "copy" => thread[w].done = 0)
  BY TaskTyped DEF RemovePath, AtKey, Place, Working, CacheTyped, ThreadsPlaced
<1> HIDE DEF p
<1>4. job \in CacheTask /\ job.at = p /\ job.key = k /\ job.done = thread[w].done
  BY <1>3, PathOfTask
<1> HIDE DEF job, k
<1>5. FilesTyped'
  BY <1>1, <1>3, CacheAssumption DEF FilesTyped, CacheTyped, CacheTypeOK
<1>6. RecordsTyped' /\ HistoryTyped'
  BY <1>1, SameRecordsTyped DEF HistoryTyped, CacheTyped, CacheTypeOK
<1> QED BY <1>2, <1>3, <1>4, <1>5, <1>6, StepTyped

LEMMA MetaGoneTyped ==
    ASSUME CacheTyped, NEW k \in CacheKey, meta' = [meta EXCEPT ![k] = NoMeta],
           UNCHANGED <<births, expired>>
    PROVE  RecordsTyped'
  BY RestingTyped DEF RecordsTyped, CacheTyped, CacheTypeOK

LEMMA UnmetaTyped ==
    ASSUME CacheTyped, NEW w \in CacheWorker, Unmeta(w)
    PROVE  CacheTyped'
<1> DEFINE job == KeyOf(thread[w], "next", 0)
<1>1. /\ meta' = [meta EXCEPT ![thread[w].key] = NoMeta] /\ UNCHANGED <<births, expired>>
      /\ UNCHANGED <<files, spoiled, alone>>
  BY DEF Unmeta, Goes
<1>2. thread' = [thread EXCEPT ![w] = job]
  BY DEF Unmeta, Goes, KeyOf
<1>3. thread[w].key \in CacheKey /\ thread[w] \in CacheTask /\ "next" \in Place
  BY TaskTyped DEF Unmeta, AtKey, Place
<1>4. job \in CacheTask /\ job.at = "next"
  BY <1>3, KeyOfTask
<1> HIDE DEF job
<1>5. FilesTyped' /\ RecordsTyped' /\ HistoryTyped'
  BY <1>1, <1>3, SameFilesTyped, MetaGoneTyped DEF HistoryTyped, CacheTyped, CacheTypeOK
<1> QED BY <1>2, <1>4, <1>5, StepTyped DEF AtKey

LEMMA ClearMetaFirstTyped ==
    ASSUME CacheTyped, NEW w \in CacheWorker, ClearMetaFirst(w)
    PROVE  CacheTyped'
<1>1. /\ meta' = [meta EXCEPT ![thread[w].key] = NoMeta] /\ UNCHANGED <<births, expired>>
      /\ UNCHANGED <<files, thread, spoiled, alone>>
  BY DEF ClearMetaFirst
<1>2. thread[w].key \in CacheKey
  BY TaskTyped DEF ClearMetaFirst, AtKey
<1>3. FilesTyped' /\ RecordsTyped'
  BY <1>1, <1>2, SameFilesTyped, MetaGoneTyped
<1> QED BY <1>1, <1>3, CacheTypePartsAfter
        DEF CacheTyped, CacheTypeOK, HistoryTyped, ThreadsPlaced

LEMMA RemovesTyped ==
    ASSUME CacheTyped, NEW w \in CacheWorker, NEW m \in Mode, NEW K \in SUBSET CacheKey,
           Removes(w, m, K)
    PROVE  CacheTyped'
<1> DEFINE L == {[key |-> k, size |-> 0, born |-> 0] : k \in K}
           job == RemovalOf(Resting, m, L)
<1>1. L \in SUBSET EntryRecord
  BY DEF EntryRecord
<1>2. /\ UNCHANGED <<files, records, spoiled>> /\ alone' = {}
      /\ thread' = [thread EXCEPT ![w] = job]
  BY DEF Removes, Begins, Removal, RemovalOf
<1> HIDE DEF L
<1>3. job \in CacheTask /\ job.at = "next"
  BY <1>1, RestingTyped, RemovalOfTask
<1> HIDE DEF job
<1> QED BY <1>2, <1>3, TurnTyped DEF AtKey

LEMMA BreaksOffTyped ==
    ASSUME CacheTyped, NEW w \in CacheWorker, BreaksOff(w)
    PROVE  CacheTyped'
<1>1. UNCHANGED <<files, records>> /\ Ends(w)
  BY DEF BreaksOff
<1>2. spoiled' \subseteq CacheKey
  <2>1. thread[w].at = "fill" \/ Removing(w, thread[w].key) => thread[w].key \in CacheKey
    BY TaskTyped DEF Removing, AtKey
  <2> QED BY <2>1 DEF BreaksOff, CacheTyped, CacheTypeOK
<1> QED BY <1>1, <1>2, EndsTyped, SameRecordsTyped

LEMMA GetReadsTyped ==
    ASSUME CacheTyped, NEW w \in CacheWorker, NEW k \in CacheKey, GetReads(w, k)
    PROVE  CacheTyped'
<1> DEFINE job == HitOf(Resting, k, meta[k])
<1>1. /\ UNCHANGED <<files, records, spoiled>> /\ alone' = {}
      /\ thread' = [thread EXCEPT ![w] = job]
  BY DEF GetReads, Begins, HitOf
<1>2. meta[k] \in Metadata
  BY DEF CacheTyped, CacheTypeOK
<1>3. job \in CacheTask /\ job.at = "hit" /\ job.key = k
  BY <1>2, RestingTyped, HitOfTask
<1> HIDE DEF job
<1> QED BY <1>1, <1>3, TurnTyped

LEMMA GetWritesTyped ==
    ASSUME CacheTyped, NEW w \in CacheWorker, GetWrites(w)
    PROVE  CacheTyped'
<1>1. Ends(w) /\ UNCHANGED <<files, births, expired, spoiled>>
  BY DEF GetWrites
<1>2. meta' \in {meta, [meta EXCEPT ![thread[w].key] = thread[w].meta]}
  BY DEF GetWrites
<1>3. thread[w].meta \in Metadata
  BY TaskTyped
<1>4. RecordsTyped' /\ spoiled' \subseteq CacheKey
  BY <1>1, <1>2, <1>3 DEF RecordsTyped, CacheTyped, CacheTypeOK
<1> QED BY <1>1, <1>4, EndsTyped

LEMMA ExpiresTyped ==
    ASSUME CacheTyped, NEW k \in CacheKey, Expires(k)
    PROVE  CacheTyped'
<1>1. /\ expired' = expired \union {meta[k].born} /\ HasMeta(k)
      /\ UNCHANGED <<files, meta, births, thread, spoiled, alone>>
  BY DEF Expires
<1>2. meta[k].born \in Nat
  BY DEF CacheTyped, CacheTypeOK, Metadata
<1>3. FilesTyped' /\ RecordsTyped'
  BY <1>1, <1>2, SameFilesTyped DEF RecordsTyped, CacheTyped, CacheTypeOK
<1> QED BY <1>1, <1>3, CacheTypePartsAfter
        DEF CacheTyped, CacheTypeOK, HistoryTyped, ThreadsPlaced

LEMMA CacheTypedStep ==
    ASSUME CacheTyped, [CacheNext]_cacheVars
    PROVE  CacheTyped'
<1>1. ASSUME NEW w \in CacheWorker, NEW k \in CacheKey,
             PutBegins(w, k) \/ GetReads(w, k) \/ GetExpired(w, k) \/ DeleteEntry(w, k)
      PROVE  CacheTyped'
  <2>1. CASE PutBegins(w, k)
    BY <2>1, PutBeginsTyped
  <2>2. CASE GetReads(w, k)
    BY <2>2, GetReadsTyped
  <2>3. CASE GetExpired(w, k) \/ DeleteEntry(w, k)
    <3>1. Removes(w, "delete", {k}) /\ "delete" \in Mode /\ {k} \in SUBSET CacheKey
      BY <2>3 DEF GetExpired, DeleteEntry, Mode
    <3> QED BY <3>1, RemovesTyped
  <2> QED BY <1>1, <2>1, <2>2, <2>3
<1>2. ASSUME NEW w \in CacheWorker, PutMakesPath(w) \/ PutCopies(w) \/ PutMeasures(w) \/ PutRecords(w)
      PROVE  CacheTyped'
  BY <1>2, PutMakesPathTyped, PutCopiesTyped, PutMeasuresTyped, PutRecordsTyped
<1>3. ASSUME NEW w \in CacheWorker, Measure(w) \/ ListEntries(w) \/ NextEntry(w)
      PROVE  CacheTyped'
  BY <1>3, MeasureTyped, ListEntriesTyped, NextEntryTyped
<1>4. ASSUME NEW w \in CacheWorker, RemoveFile(w) \/ RemovePath(w) \/ Unmeta(w) \/ ClearMetaFirst(w)
      PROVE  CacheTyped'
  BY <1>4, RemoveFileTyped, RemovePathTyped, UnmetaTyped, ClearMetaFirstTyped
<1>5. ASSUME NEW w \in CacheWorker, LastEntry(w) \/ BreaksOff(w) \/ GetWrites(w)
      PROVE  CacheTyped'
  <2>1. CASE LastEntry(w)
    <3>1. Ends(w) /\ UNCHANGED <<files, records, spoiled>>
      BY <2>1 DEF LastEntry
    <3> QED BY <3>1, EndsTyped, SameRecordsTyped DEF CacheTyped, CacheTypeOK
  <2> QED BY <1>5, <2>1, BreaksOffTyped, GetWritesTyped
<1>6. ASSUME NEW w \in CacheWorker, ClearCache(w) \/ \E b \in CacheBuild : ClearBuild(w, b)
      PROVE  CacheTyped'
  <2>1. CASE ClearCache(w)
    <3>1. Removes(w, "clear", CacheKey) /\ "clear" \in Mode
      BY <2>1 DEF ClearCache, Mode
    <3> QED BY <3>1, RemovesTyped
  <2>2. ASSUME NEW b \in CacheBuild, ClearBuild(w, b) PROVE CacheTyped'
    <3> DEFINE K == KeysNaming[b] \intersect Listed
    <3>1. Removes(w, "delete", K) /\ "delete" \in Mode /\ K \in SUBSET CacheKey
      BY <2>2 DEF ClearBuild, Mode, Listed
    <3> QED BY <3>1, RemovesTyped
  <2> QED BY <1>6, <2>1, <2>2
<1>7. ASSUME NEW k \in CacheKey, Expires(k) PROVE CacheTyped'
  BY <1>7, ExpiresTyped
<1>8. CASE UNCHANGED cacheVars
  BY <1>8 DEF CacheTyped, CacheTypeOK, ThreadsPlaced, cacheVars, files, records
<1> QED BY <1>1, <1>2, <1>3, <1>4, <1>5, <1>6, <1>7, <1>8 DEF CacheNext

LEMMA CacheTypedInit == CacheInit => CacheTyped
<1> SUFFICES ASSUME CacheInit PROVE CacheTyped
  OBVIOUS
<1>1. \A w \in CacheWorker : thread[w] = Resting
  BY DEF CacheInit
<1>2. ThreadsPlaced
  BY <1>1, RestingTyped DEF ThreadsPlaced, AtKey
<1>3. CacheTypeOK
  BY RestingTyped, CacheAssumption DEF CacheInit, CacheTypeOK
<1> QED BY <1>2, <1>3 DEF CacheTyped

\* The variables of the cache keep their types, for any keys, threads and limits.
THEOREM CacheTypeCorrect == CacheSpec => []CacheTypeOK
<1>1. CacheTyped => CacheTypeOK
  BY DEF CacheTyped
<1> QED BY <1>1, CacheTypedInit, CacheTypedStep, PTL DEF CacheSpec

-----------------------------------------------------------------------------
(* What is served torn is contested. *)

Whole(k) == held[k] = 1 .. SizeOfKey[k]
Storing(w) == thread[w].at \in {"fill", "record"}
Excused(k) == k \in spoiled \/ \E w \in CacheWorker : Removing(w, k)

\* Each path that is being stored has a number of its own, not yet in any metadata.
Numbered ==
    /\ \A w \in CacheWorker : Storing(w) => thread[w].of \in 1 .. stores
    /\ \A v, w \in CacheWorker : Storing(v) /\ Storing(w) /\ v # w => thread[v].of # thread[w].of
    /\ \A k \in CacheKey : meta[k].store \in 0 .. stores
    /\ \A w \in CacheWorker : thread[w].at = "hit" => thread[w].meta.store \in 0 .. stores

Fresh ==
    \A w \in CacheWorker : thread[w].at = "fill" =>
        /\ \A k \in CacheKey : meta[k].store # thread[w].of
        /\ \A v \in CacheWorker : thread[v].at = "hit" => thread[v].meta.store # thread[w].of

\* Somebody is at work on a path that is not whole, or a failure has spoiled it.
Attended ==
    \A k \in CacheKey :
        copyOf[k] # 0 /\ ~ Whole(k) => Excused(k) \/ \E w \in CacheWorker : Filling(w, k)

\* What a thread has copied under its path stays there.
Kept ==
    \A w \in CacheWorker, k \in CacheKey :
        Filling(w, k) => 1 .. thread[w].done \subseteq held[k] \/ Excused(k)

TornInv == Numbered /\ Fresh /\ Attended /\ Kept

LEMMA NumbersTyped ==
    ASSUME CacheTyped
    PROVE  /\ stores \in Nat /\ \A k \in CacheKey : copyOf[k] \in 0 .. stores /\ copyOf[k] \in Nat
           /\ \A k \in CacheKey : held[k] \subseteq 1 .. SizeOfKey[k]
  BY CacheAssumption DEF CacheTyped, CacheTypeOK

\* A step that leaves the files and metadata, by a thread that was not storing
\* or removing anything.
LEMMA QuietTorn ==
    ASSUME CacheTyped, TornInv, NEW w \in CacheWorker,
           thread[w].at \notin {"clean", "remove", "fill", "record"},
           thread'[w].at \notin {"fill", "record", "hit"},
           \A v \in CacheWorker \ {w} : thread'[v] = thread[v],
           UNCHANGED <<files, meta>>, spoiled' = spoiled
    PROVE  TornInv'
<1>1. /\ UNCHANGED <<held, copyOf, stores, meta, spoiled>>
      /\ \A v \in CacheWorker : v # w => thread'[v] = thread[v]
      /\ thread'[w].at \notin {"fill", "record", "hit"}
      /\ thread[w].at \notin {"clean", "remove", "fill", "record"}
  BY DEF files
<1>2. Numbered'
  BY <1>1 DEF TornInv, Numbered, Storing
<1>3. Fresh'
  BY <1>1 DEF TornInv, Fresh
<1>4. \A v \in CacheWorker, k \in CacheKey : Removing(v, k) => Removing(v, k)'
  BY <1>1 DEF Removing
<1>5. \A v \in CacheWorker, k \in CacheKey :
        Filling(v, k)' <=> Filling(v, k)
  BY <1>1 DEF Filling
<1>6. \A k \in CacheKey : Excused(k) => Excused(k)'
  BY <1>1, <1>4 DEF Excused
<1>7. Attended'
  BY <1>1, <1>5, <1>6 DEF TornInv, Attended, Whole
<1>8. Kept'
  <2> SUFFICES ASSUME NEW v \in CacheWorker, NEW k \in CacheKey, Filling(v, k)'
               PROVE  (1 .. thread[v].done \subseteq held[k])' \/ Excused(k)'
    BY DEF Kept
  <2>1. Filling(v, k) /\ v # w
    BY <1>1, <1>5 DEF Filling
  <2> QED BY <1>1, <1>6, <2>1 DEF TornInv, Kept
<1> QED BY <1>2, <1>3, <1>7, <1>8 DEF TornInv

LEMMA PutMakesPathTorn ==
    ASSUME CacheTyped, TornInv, NEW w \in CacheWorker, PutMakesPath(w)
    PROVE  TornInv'
<1>0. PICK k \in CacheKey : k = thread[w].key
  BY TaskTyped DEF PutMakesPath, AtKey
<1>1. /\ thread[w] \in CacheTask /\ k \in CacheKey /\ thread[w].done = 0 /\ thread[w].at = "copy"
      /\ stores \in Nat /\ stores + 1 \in Nat /\ \A j \in CacheKey : copyOf[j] \in 0 .. stores
  BY TaskTyped, NumbersTyped DEF PutMakesPath, AtKey, CacheTyped, ThreadsPlaced
<1>2. /\ thread'[w].at = "fill" /\ thread'[w].of = stores + 1 /\ thread'[w].key = k
      /\ thread'[w].done = 0
      /\ \A v \in CacheWorker : v # w => thread'[v] = thread[v]
  <2>1. thread' = [thread EXCEPT ![w] = PathOf(thread[w], "fill", stores + 1)]
    BY DEF PutMakesPath, Goes, PathOf
  <2>2. "fill" \in Place
    BY DEF Place, Working
  <2>3. /\ thread'[w] = PathOf(thread[w], "fill", stores + 1)
        /\ \A v \in CacheWorker : v # w => thread'[v] = thread[v]
    BY <2>1 DEF CacheTyped, CacheTypeOK
  <2> QED BY <1>0, <1>1, <2>2, <2>3, PathOfTask
<1>3. /\ stores' = stores + 1 /\ copyOf' = [copyOf EXCEPT ![k] = stores + 1]
      /\ held' = [held EXCEPT ![k] = {}] /\ spoiled' = spoiled \ {k} /\ meta' = meta
  BY <1>0 DEF PutMakesPath, records
<1>4. /\ copyOf'[k] = stores + 1 /\ held'[k] = {}
      /\ \A j \in CacheKey : j # k => copyOf'[j] = copyOf[j] /\ held'[j] = held[j]
  BY <1>1, <1>3 DEF CacheTyped, CacheTypeOK
<1>5. Numbered'
  BY <1>1, <1>2, <1>3 DEF TornInv, Numbered, Storing
<1>6. Fresh'
  BY <1>1, <1>2, <1>3 DEF TornInv, Numbered, Fresh, Storing
<1>7. Filling(w, k)'
  BY <1>2, <1>4 DEF Filling
<1>8. \A v \in CacheWorker, j \in CacheKey : v # w /\ Filling(v, j)' => j # k /\ Filling(v, j)
  BY <1>1, <1>2, <1>4 DEF TornInv, Numbered, Storing, Filling
<1>9. \A j \in CacheKey : j # k =>
        /\ \A v \in CacheWorker : Filling(v, j) => Filling(v, j)'
        /\ \A v \in CacheWorker : Removing(v, j) => Removing(v, j)'
  BY <1>1, <1>2, <1>4 DEF Filling, Removing
<1>10. \A j \in CacheKey : j # k /\ Excused(j) => Excused(j)'
  BY <1>3, <1>9 DEF Excused
<1>11. Attended'
  BY <1>4, <1>7, <1>9, <1>10 DEF TornInv, Attended, Whole
<1>12. Kept'
  <2> SUFFICES ASSUME NEW v \in CacheWorker, NEW j \in CacheKey, Filling(v, j)'
               PROVE  (1 .. thread[v].done \subseteq held[j])' \/ Excused(j)'
    BY DEF Kept
  <2>1. CASE v = w
    BY <1>2, <2>1
  <2>2. CASE v # w
    BY <1>2, <1>4, <1>8, <1>10, <2>2 DEF TornInv, Kept
  <2> QED BY <2>1, <2>2
<1> QED BY <1>5, <1>6, <1>11, <1>12 DEF TornInv

LEMMA PutCopiesTorn ==
    ASSUME CacheTyped, TornInv, NEW w \in CacheWorker, PutCopies(w)
    PROVE  TornInv'
<1>0. PICK k \in CacheKey : k = thread[w].key
  BY TaskTyped DEF PutCopies, AtKey
<1> DEFINE n == thread[w].done + 1
<1>1. /\ thread[w] \in CacheTask /\ k \in CacheKey /\ thread[w].at = "fill"
      /\ thread[w].done \in Nat /\ n \in Nat
  BY TaskTyped DEF PutCopies, AtKey
<1>2. /\ thread'[w].at = "fill" /\ thread'[w].of = thread[w].of /\ thread'[w].key = k
      /\ thread'[w].done = n
      /\ \A v \in CacheWorker : v # w => thread'[v] = thread[v]
  <2>1. thread' = [thread EXCEPT ![w] = CountOf(thread[w], thread[w].done + 1)]
    BY DEF PutCopies, Goes, CountOf
  <2>2. /\ thread'[w] = CountOf(thread[w], n)
        /\ \A v \in CacheWorker : v # w => thread'[v] = thread[v]
    BY <2>1 DEF CacheTyped, CacheTypeOK
  <2> HIDE DEF n
  <2> QED BY <1>0, <1>1, <2>2, CountOfTask
<1>3. /\ UNCHANGED <<stores, copyOf, meta, spoiled>>
      /\ held' \in {[held EXCEPT ![k] = held[k]], [held EXCEPT ![k] = held[k] \union {n}]}
      /\ copyOf[k] = thread[w].of => held' = [held EXCEPT ![k] = held[k] \union {n}]
  BY <1>0 DEF PutCopies, records
<1>4. /\ \A j \in CacheKey : held[j] \subseteq held'[j] /\ (j # k => held'[j] = held[j])
      /\ copyOf[k] = thread[w].of => n \in held'[k]
  BY <1>1, <1>3 DEF CacheTyped, CacheTypeOK
<1>5. Numbered'
  BY <1>1, <1>2, <1>3 DEF TornInv, Numbered, Storing
<1>6. Fresh'
  BY <1>1, <1>2, <1>3 DEF TornInv, Fresh
<1>7. \A v \in CacheWorker, j \in CacheKey : Filling(v, j)' <=> Filling(v, j)
  BY <1>0, <1>1, <1>2, <1>3 DEF Filling
<1>8. \A v \in CacheWorker, j \in CacheKey : Removing(v, j)' <=> Removing(v, j)
  BY <1>1, <1>2, <1>3 DEF Removing
<1>9. \A j \in CacheKey : Excused(j)' <=> Excused(j)
  BY <1>3, <1>8 DEF Excused
<1>10. Attended'
  <2> SUFFICES ASSUME NEW j \in CacheKey, (copyOf[j] # 0 /\ ~ Whole(j))'
               PROVE  (Excused(j) \/ \E v \in CacheWorker : Filling(v, j))'
    BY DEF Attended
  <2>1. held'[j] = held[j] => ~ Whole(j)
    BY DEF Whole
  <2>2. CASE held'[j] = held[j]
    BY <1>3, <1>7, <1>9, <2>1, <2>2 DEF TornInv, Attended
  <2>3. CASE held'[j] # held[j]
    <3>1. ~ Whole(j)
      <4>1. CacheTyped'
        BY PutCopiesTyped
      <4>2. held'[j] \subseteq 1 .. SizeOfKey[j]
        BY <4>1 DEF CacheTyped, CacheTypeOK
      <4> QED BY <1>4, <2>3, <4>2 DEF Whole
    <3> QED BY <1>3, <1>7, <1>9, <3>1 DEF TornInv, Attended
  <2> QED BY <2>2, <2>3
<1>11. Kept'
  <2> SUFFICES ASSUME NEW v \in CacheWorker, NEW j \in CacheKey, Filling(v, j)'
               PROVE  (1 .. thread[v].done \subseteq held[j])' \/ Excused(j)'
    BY DEF Kept
  <2>1. CASE v = w
    <3>1. j = k /\ copyOf[k] = thread[w].of
      BY <1>2, <1>3, <2>1 DEF Filling
    <3>2. 1 .. n \subseteq (1 .. thread[w].done) \union {n}
      BY <1>1
    <3>3. 1 .. thread[w].done \subseteq held[k] \/ Excused(k)
      BY <1>1, <1>7, <2>1, <3>1 DEF TornInv, Kept
    <3> HIDE DEF n
    <3> QED BY <1>1, <1>2, <1>4, <1>9, <2>1, <3>1, <3>2, <3>3
  <2>2. CASE v # w
    BY <1>2, <1>4, <1>7, <1>9, <2>2 DEF TornInv, Kept
  <2> QED BY <2>1, <2>2
<1> QED BY <1>5, <1>6, <1>10, <1>11 DEF TornInv

LEMMA PutMeasuresTorn ==
    ASSUME CacheTyped, TornInv, NEW w \in CacheWorker, PutMeasures(w)
    PROVE  TornInv'
<1> DEFINE n == Cardinality(held[thread[w].key])
<1>1. /\ thread[w] \in CacheTask /\ thread[w].key \in CacheKey /\ thread[w].at = "fill"
      /\ thread[w].done = SizeOfKey[thread[w].key] /\ n \in Int
  BY TaskTyped, HeldIsFinite, CacheTypeParts DEF PutMeasures, AtKey, AllCopied, CacheTyped
<1>2. /\ thread'[w].at = "record" /\ thread'[w].of = thread[w].of
      /\ \A v \in CacheWorker : v # w => thread'[v] = thread[v]
  <2>1. thread' = [thread EXCEPT ![w] = SizeOf(thread[w], "record", n)]
    BY DEF PutMeasures, Goes, SizeOf
  <2>2. "record" \in Place
    BY DEF Place, Working
  <2>3. /\ thread'[w] = SizeOf(thread[w], "record", n)
        /\ \A v \in CacheWorker : v # w => thread'[v] = thread[v]
    BY <2>1 DEF CacheTyped, CacheTypeOK
  <2> HIDE DEF n
  <2> QED BY <1>1, <2>2, <2>3, SizeOfTask
<1>3. UNCHANGED <<held, copyOf, stores, meta, spoiled>>
  BY DEF PutMeasures, files, records
<1> HIDE DEF n
<1>4. Numbered'
  BY <1>1, <1>2, <1>3 DEF TornInv, Numbered, Storing
<1>5. Fresh'
  BY <1>1, <1>2, <1>3 DEF TornInv, Fresh
<1>6. \A v \in CacheWorker, j \in CacheKey : Filling(v, j)' <=> Filling(v, j) /\ v # w
  BY <1>2, <1>3 DEF Filling
<1>7. \A v \in CacheWorker, j \in CacheKey : Removing(v, j)' <=> Removing(v, j)
  BY <1>1, <1>2, <1>3 DEF Removing
<1>8. \A j \in CacheKey : Excused(j)' <=> Excused(j)
  BY <1>3, <1>7 DEF Excused
<1>9. Attended'
  <2> SUFFICES ASSUME NEW j \in CacheKey, (copyOf[j] # 0 /\ ~ Whole(j))'
               PROVE  (Excused(j) \/ \E v \in CacheWorker : Filling(v, j))'
    BY DEF Attended
  <2>1. copyOf[j] # 0 /\ ~ Whole(j)
    BY <1>3 DEF Whole
  <2>2. Excused(j) \/ \E v \in CacheWorker : Filling(v, j)
    BY <2>1 DEF TornInv, Attended
  <2>3. CASE Filling(w, j)
    <3>1. j = thread[w].key
      BY <2>3 DEF Filling
    <3>2. 1 .. SizeOfKey[j] \subseteq held[j] \/ Excused(j)
      BY <1>1, <2>3, <3>1 DEF TornInv, Kept
    <3>3. held[j] \subseteq 1 .. SizeOfKey[j]
      BY NumbersTyped
    <3> QED BY <1>8, <2>1, <3>2, <3>3 DEF Whole
  <2> QED BY <1>6, <1>8, <2>2, <2>3
<1>10. Kept'
  BY <1>2, <1>3, <1>6, <1>8 DEF TornInv, Kept
<1> QED BY <1>4, <1>5, <1>9, <1>10 DEF TornInv

LEMMA PutRecordsTorn ==
    ASSUME CacheTyped, TornInv, NEW w \in CacheWorker, PutRecords(w)
    PROVE  TornInv'
<1>0. PICK k \in CacheKey : k = thread[w].key
  BY TaskTyped DEF PutRecords, AtKey
<1>1. thread[w].at = "record" /\ thread[w].of \in 1 .. stores
  BY DEF PutRecords, TornInv, Numbered, Storing
<1>2. /\ thread'[w].at = "measure"
      /\ \A v \in CacheWorker : v # w => thread'[v] = thread[v]
  <2>1. thread' = [thread EXCEPT ![w] = MeasureOf(Resting, "measure")]
    BY DEF PutRecords, Goes, MeasureOf
  <2>2. "measure" \in Place
    BY DEF Place, Working
  <2>3. /\ thread'[w] = MeasureOf(Resting, "measure")
        /\ \A v \in CacheWorker : v # w => thread'[v] = thread[v]
    BY <2>1 DEF CacheTyped, CacheTypeOK
  <2> QED BY <2>2, <2>3, RestingTyped, MeasureOfTask
<1>3. /\ UNCHANGED <<held, copyOf, stores, spoiled>>
      /\ meta'[k].store = thread[w].of
      /\ \A j \in CacheKey : j # k => meta'[j] = meta[j]
  <2>1. meta' = [meta EXCEPT ![k] = [store |-> thread[w].of, size |-> thread[w].total,
                                     born |-> births + 1]]
    BY <1>0 DEF PutRecords
  <2> QED BY <1>0, <2>1 DEF PutRecords, files, CacheTyped, CacheTypeOK
<1>4. Numbered'
  BY <1>0, <1>1, <1>2, <1>3 DEF TornInv, Numbered, Storing
<1>5. Fresh'
  <2>1. \A v \in CacheWorker : thread'[v].at = "fill" =>
          thread'[v] = thread[v] /\ thread[w].of # thread[v].of
    BY <1>1, <1>2 DEF TornInv, Numbered, Storing
  <2>2. \A v \in CacheWorker : thread'[v].at = "hit" => thread'[v] = thread[v]
    BY <1>2
  <2> QED BY <1>0, <1>3, <2>1, <2>2 DEF TornInv, Fresh
<1>6. \A v \in CacheWorker, j \in CacheKey : Filling(v, j)' <=> Filling(v, j)
  BY <1>1, <1>2, <1>3 DEF Filling
<1>7. \A v \in CacheWorker, j \in CacheKey : Removing(v, j)' <=> Removing(v, j)
  BY <1>1, <1>2, <1>3 DEF Removing
<1>8. \A j \in CacheKey : Excused(j)' <=> Excused(j)
  BY <1>3, <1>7 DEF Excused
<1>9. Attended'
  BY <1>3, <1>6, <1>8 DEF TornInv, Attended, Whole
<1>10. Kept'
  <2>1. \A v \in CacheWorker, j \in CacheKey : Filling(v, j)' => thread'[v] = thread[v]
    BY <1>2 DEF Filling
  <2> QED BY <1>3, <1>6, <1>8, <2>1 DEF TornInv, Kept
<1> QED BY <1>4, <1>5, <1>9, <1>10 DEF TornInv

LEMMA RemoveFileTorn ==
    ASSUME CacheTyped, TornInv, NEW w \in CacheWorker, RemoveFile(w)
    PROVE  TornInv'
<1>0. PICK k \in CacheKey : k = thread[w].key
  BY TaskTyped DEF RemoveFile, Removing, AtKey
<1>1. /\ UNCHANGED <<copyOf, stores, meta, thread, spoiled>>
      /\ \E u : held' = [held EXCEPT ![k] = held[k] \ {u}]
  BY <1>0 DEF RemoveFile, records
<1>2. Removing(w, k)
  BY <1>0 DEF RemoveFile
<1>3. \A j \in CacheKey : j # k => held'[j] = held[j]
  BY <1>1 DEF CacheTyped, CacheTypeOK
<1>4. Numbered' /\ Fresh'
  BY <1>1 DEF TornInv, Numbered, Fresh, Storing
<1>5. \A v \in CacheWorker, j \in CacheKey : Filling(v, j)' <=> Filling(v, j)
  BY <1>1 DEF Filling
<1>6. \A v \in CacheWorker, j \in CacheKey : Removing(v, j)' <=> Removing(v, j)
  BY <1>1 DEF Removing
<1>7. \A j \in CacheKey : Excused(j)' <=> Excused(j)
  BY <1>1, <1>6 DEF Excused
<1>8. Excused(k)
  BY <1>2 DEF Excused
<1>9. Attended'
  BY <1>1, <1>3, <1>5, <1>7, <1>8 DEF TornInv, Attended, Whole
<1>10. Kept'
  BY <1>1, <1>3, <1>5, <1>7, <1>8 DEF TornInv, Kept
<1> QED BY <1>4, <1>9, <1>10 DEF TornInv

LEMMA RemovePathTorn ==
    ASSUME CacheTyped, TornInv, NEW w \in CacheWorker, RemovePath(w)
    PROVE  TornInv'
<1>0. PICK k \in CacheKey : k = thread[w].key
  BY TaskTyped DEF RemovePath, AtKey
<1>1. thread[w] \in CacheTask /\ thread[w].at \in {"clean", "remove"}
  BY TaskTyped DEF RemovePath
<1>2. /\ thread'[w].at \in {"copy", "unmeta"}
      /\ \A v \in CacheWorker : v # w => thread'[v] = thread[v]
  <2>1. PICK p \in {"copy", "unmeta"} : thread' = [thread EXCEPT ![w] = PathOf(thread[w], p, 0)]
    BY DEF RemovePath, Goes, PathOf
  <2>2. p \in Place
    BY DEF Place, Working
  <2>3. /\ thread'[w] = PathOf(thread[w], p, 0)
        /\ \A v \in CacheWorker : v # w => thread'[v] = thread[v]
    BY <2>1 DEF CacheTyped, CacheTypeOK
  <2> QED BY <1>1, <2>2, <2>3, PathOfTask
<1>3. /\ UNCHANGED <<stores, meta>> /\ spoiled' = spoiled \ {k}
      /\ held' = [held EXCEPT ![k] = {}] /\ copyOf' = [copyOf EXCEPT ![k] = 0]
  BY <1>0 DEF RemovePath, records
<1>4. /\ copyOf'[k] = 0
      /\ \A j \in CacheKey : j # k => copyOf'[j] = copyOf[j] /\ held'[j] = held[j]
  BY <1>3 DEF CacheTyped, CacheTypeOK
<1>5. Numbered'
  BY <1>2, <1>3 DEF TornInv, Numbered, Storing
<1>6. Fresh'
  BY <1>2, <1>3 DEF TornInv, Fresh
<1>7. \A v \in CacheWorker, j \in CacheKey : j # k => (Filling(v, j)' <=> Filling(v, j))
  BY <1>0, <1>1, <1>2, <1>4 DEF Filling
<1>8. \A v \in CacheWorker, j \in CacheKey : j # k => (Removing(v, j)' <=> Removing(v, j))
  BY <1>0, <1>1, <1>2, <1>4 DEF Removing
<1>9. \A j \in CacheKey : j # k => (Excused(j)' <=> Excused(j))
  BY <1>3, <1>8 DEF Excused
<1>10. Attended'
  BY <1>4, <1>7, <1>9 DEF TornInv, Attended, Whole
<1>11. Kept'
  <2>1. \A v \in CacheWorker, j \in CacheKey :
          Filling(v, j)' => j # k /\ thread'[v] = thread[v]
    BY <1>1, <1>2, <1>4, NumbersTyped DEF Filling, TornInv, Numbered, Storing
  <2> QED BY <1>4, <1>7, <1>9, <2>1 DEF TornInv, Kept
<1> QED BY <1>5, <1>6, <1>10, <1>11 DEF TornInv

LEMMA MetaGoneTorn ==
    ASSUME CacheTyped, TornInv, NEW k \in CacheKey, NEW w \in CacheWorker,
           meta' = [meta EXCEPT ![k] = NoMeta], UNCHANGED files, spoiled' = spoiled,
           thread[w].at \in {"unmeta", "remove"},
           thread'[w].at \in {thread[w].at, "next"}, thread'[w].at = thread[w].at => thread' = thread,
           thread'[w].at = "next" => thread[w].at = "unmeta",
           \A v \in CacheWorker : v # w => thread'[v] = thread[v]
    PROVE  TornInv'
<1>1. UNCHANGED <<held, copyOf, stores>>
  BY DEF files
<1>2. \A j \in CacheKey : meta'[j] = meta[j] \/ meta'[j].store = 0
  BY RestingTyped DEF NoMeta, CacheTyped, CacheTypeOK
<1>3. \A v \in CacheWorker : thread'[v].at \in {"fill", "record", "hit"} => thread'[v] = thread[v]
  OBVIOUS
<1>4. stores \in Nat
  BY NumbersTyped
<1>5. Numbered'
  BY <1>1, <1>2, <1>3, <1>4 DEF TornInv, Numbered, Storing
<1>6. Fresh'
  BY <1>1, <1>2, <1>3, <1>4 DEF TornInv, Numbered, Fresh, Storing
<1>7. \A v \in CacheWorker, j \in CacheKey : Filling(v, j)' <=> Filling(v, j)
  BY <1>1 DEF Filling
<1>8. \A v \in CacheWorker, j \in CacheKey : Removing(v, j)' <=> Removing(v, j)
  BY <1>1 DEF Removing
<1>9. \A j \in CacheKey : Excused(j)' <=> Excused(j)
  BY <1>8 DEF Excused
<1>10. Attended'
  BY <1>1, <1>7, <1>9 DEF TornInv, Attended, Whole
<1>11. Kept'
  <2>1. \A v \in CacheWorker, j \in CacheKey : Filling(v, j)' => thread'[v] = thread[v]
    BY <1>3 DEF Filling
  <2> QED BY <1>1, <1>7, <1>9, <2>1 DEF TornInv, Kept
<1> QED BY <1>5, <1>6, <1>10, <1>11 DEF TornInv

LEMMA UnmetaTorn ==
    ASSUME CacheTyped, TornInv, NEW w \in CacheWorker, Unmeta(w)
    PROVE  TornInv'
<1>0. PICK k \in CacheKey : k = thread[w].key
  BY TaskTyped DEF Unmeta, AtKey
<1>1. /\ thread[w].at = "unmeta" /\ meta' = [meta EXCEPT ![k] = NoMeta]
      /\ UNCHANGED <<files, spoiled>>
  BY <1>0 DEF Unmeta
<1>2. thread'[w].at = "next" /\ \A v \in CacheWorker : v # w => thread'[v] = thread[v]
  <2>1. thread' = [thread EXCEPT ![w] = KeyOf(thread[w], "next", 0)]
    BY DEF Unmeta, Goes, KeyOf
  <2>2. "next" \in Place /\ thread[w] \in CacheTask
    BY TaskTyped DEF Place
  <2>3. /\ thread'[w] = KeyOf(thread[w], "next", 0)
        /\ \A v \in CacheWorker : v # w => thread'[v] = thread[v]
    BY <2>1 DEF CacheTyped, CacheTypeOK
  <2> QED BY <2>2, <2>3, KeyOfTask
<1> QED BY <1>1, <1>2, MetaGoneTorn

LEMMA ClearMetaFirstTorn ==
    ASSUME CacheTyped, TornInv, NEW w \in CacheWorker, ClearMetaFirst(w)
    PROVE  TornInv'
<1>0. PICK k \in CacheKey : k = thread[w].key
  BY TaskTyped DEF ClearMetaFirst, AtKey
<1>1. /\ thread[w].at = "remove" /\ meta' = [meta EXCEPT ![k] = NoMeta]
      /\ UNCHANGED <<files, thread, spoiled>>
  BY <1>0 DEF ClearMetaFirst
<1> QED BY <1>1, MetaGoneTorn

LEMMA EndsAt ==
    ASSUME CacheTyped, NEW w \in CacheWorker, Ends(w)
    PROVE  thread'[w].at = "idle" /\ \A v \in CacheWorker : v # w => thread'[v] = thread[v]
<1>1. thread' = [thread EXCEPT ![w] = Resting]
  BY DEF Ends, Goes
<1> QED BY <1>1, RestingTyped DEF CacheTyped, CacheTypeOK

LEMMA BreaksOffTorn ==
    ASSUME CacheTyped, TornInv, NEW w \in CacheWorker, BreaksOff(w)
    PROVE  TornInv'
<1>0. PICK k : k = thread[w].key
  OBVIOUS
<1>1. thread'[w].at = "idle" /\ \A v \in CacheWorker : v # w => thread'[v] = thread[v]
  BY EndsAt DEF BreaksOff
<1>2. /\ UNCHANGED <<held, copyOf, stores, meta>>
      /\ spoiled \subseteq spoiled'
      /\ thread[w].at = "fill" \/ Removing(w, k) => k \in spoiled'
  BY <1>0 DEF BreaksOff, files, records
<1>3. Numbered'
  BY <1>1, <1>2 DEF TornInv, Numbered, Storing
<1>4. Fresh'
  BY <1>1, <1>2 DEF TornInv, Fresh
<1>5. \A v \in CacheWorker, j \in CacheKey :
        /\ v # w => (Filling(v, j)' <=> Filling(v, j)) /\ (Removing(v, j)' <=> Removing(v, j))
        /\ Filling(w, j) \/ Removing(w, j) => j \in spoiled'
  BY <1>0, <1>1, <1>2 DEF Filling, Removing
<1>6. \A j \in CacheKey : Excused(j) => Excused(j)'
  BY <1>2, <1>5 DEF Excused
<1>7. Attended'
  <2>1. \A j \in CacheKey : j \in spoiled' => Excused(j)'
    BY DEF Excused
  <2> QED BY <1>2, <1>5, <1>6, <2>1 DEF TornInv, Attended, Whole
<1>8. Kept'
  <2>1. \A v \in CacheWorker, j \in CacheKey :
          Filling(v, j)' => thread'[v] = thread[v] /\ Filling(v, j)
    BY <1>1, <1>5 DEF Filling
  <2> QED BY <1>2, <1>6, <2>1 DEF TornInv, Kept
<1> QED BY <1>3, <1>4, <1>7, <1>8 DEF TornInv

LEMMA GetReadsTorn ==
    ASSUME CacheTyped, TornInv, NEW w \in CacheWorker, NEW k \in CacheKey, GetReads(w, k)
    PROVE  TornInv'
<1>1. /\ thread[w].at = "idle" /\ thread'[w].at = "hit" /\ thread'[w].meta = meta[k]
      /\ \A v \in CacheWorker : v # w => thread'[v] = thread[v]
  <2>1. thread[w] = Resting /\ thread' = [thread EXCEPT ![w] = HitOf(Resting, k, meta[k])]
    BY DEF GetReads, Begins, HitOf
  <2>2. meta[k] \in Metadata
    BY DEF CacheTyped, CacheTypeOK
  <2>3. /\ thread'[w] = HitOf(Resting, k, meta[k])
        /\ \A v \in CacheWorker : v # w => thread'[v] = thread[v]
    BY <2>1 DEF CacheTyped, CacheTypeOK
  <2> QED BY <2>1, <2>2, <2>3, RestingTyped, HitOfTask
<1>2. UNCHANGED <<held, copyOf, stores, meta, spoiled>>
  BY DEF GetReads, files, records
<1>3. Numbered'
  BY <1>1, <1>2 DEF TornInv, Numbered, Storing
<1>4. Fresh'
  BY <1>1, <1>2 DEF TornInv, Fresh
<1>5. \A v \in CacheWorker, j \in CacheKey :
        (Filling(v, j)' <=> Filling(v, j)) /\ (Removing(v, j)' <=> Removing(v, j))
  BY <1>1, <1>2 DEF Filling, Removing
<1>6. \A j \in CacheKey : Excused(j)' <=> Excused(j)
  BY <1>2, <1>5 DEF Excused
<1>7. Attended'
  BY <1>2, <1>5, <1>6 DEF TornInv, Attended, Whole
<1>8. Kept'
  <2>1. \A v \in CacheWorker, j \in CacheKey : Filling(v, j)' => thread'[v] = thread[v]
    BY <1>1 DEF Filling
  <2> QED BY <1>2, <1>5, <1>6, <2>1 DEF TornInv, Kept
<1> QED BY <1>3, <1>4, <1>7, <1>8 DEF TornInv

LEMMA GetWritesTorn ==
    ASSUME CacheTyped, TornInv, NEW w \in CacheWorker, GetWrites(w)
    PROVE  TornInv'
<1>1. thread[w].at = "hit" /\ thread'[w].at = "idle"
      /\ \A v \in CacheWorker : v # w => thread'[v] = thread[v]
  BY EndsAt DEF GetWrites
<1>2. UNCHANGED <<held, copyOf, stores, spoiled>>
  BY DEF GetWrites, files
<1>3. \A j \in CacheKey : meta'[j] = meta[j] \/ meta'[j] = thread[w].meta
  BY DEF GetWrites, CacheTyped, CacheTypeOK
<1>4. Numbered'
  <2>1. \A j \in CacheKey : meta'[j].store \in 0 .. stores
    BY <1>1, <1>3 DEF TornInv, Numbered
  <2> QED BY <1>1, <1>2, <2>1 DEF TornInv, Numbered, Storing
<1>5. Fresh'
  <2>1. \A v \in CacheWorker : thread[v].at = "fill" =>
          \A j \in CacheKey : meta'[j].store # thread[v].of
    BY <1>1, <1>3 DEF TornInv, Fresh
  <2> QED BY <1>1, <2>1 DEF TornInv, Fresh
<1>6. \A v \in CacheWorker, j \in CacheKey :
        (Filling(v, j)' <=> Filling(v, j)) /\ (Removing(v, j)' <=> Removing(v, j))
  BY <1>1, <1>2 DEF Filling, Removing
<1>7. \A j \in CacheKey : Excused(j)' <=> Excused(j)
  BY <1>2, <1>6 DEF Excused
<1>8. Attended'
  BY <1>2, <1>6, <1>7 DEF TornInv, Attended, Whole
<1>9. Kept'
  <2>1. \A v \in CacheWorker, j \in CacheKey : Filling(v, j)' => thread'[v] = thread[v]
    BY <1>1 DEF Filling
  <2> QED BY <1>2, <1>6, <1>7, <2>1 DEF TornInv, Kept
<1> QED BY <1>4, <1>5, <1>8, <1>9 DEF TornInv

LEMMA StillTorn ==
    ASSUME TornInv, UNCHANGED <<files, meta, thread, spoiled>>
    PROVE  TornInv'
  BY DEF TornInv, Numbered, Fresh, Attended, Kept, Storing, Whole, Excused, Removing, Filling, files

\* The steps that turn a thread to something else, and leave the rest.
Turns(w) ==
    \/ Measure(w) \/ ListEntries(w) \/ NextEntry(w) \/ LastEntry(w)
    \/ \E k \in CacheKey : PutBegins(w, k)
    \/ \E m \in Mode, K \in SUBSET CacheKey : Removes(w, m, K)

LEMMA TurnsQuietly ==
    ASSUME CacheTyped, NEW w \in CacheWorker, Turns(w)
    PROVE  /\ thread[w].at \notin {"clean", "remove", "fill", "record"}
           /\ thread'[w].at \notin {"fill", "record", "hit"}
           /\ \A v \in CacheWorker \ {w} : thread'[v] = thread[v]
           /\ UNCHANGED <<files, meta>> /\ spoiled' = spoiled
<1>1. UNCHANGED <<files, meta>> /\ spoiled' = spoiled
  BY DEF Turns, Measure, ListEntries, NextEntry, LastEntry, PutBegins, Removes, records
<1>2. thread[w].at \in {"measure", "list", "next", "idle"}
  BY RestingTyped DEF Turns, Measure, ListEntries, NextEntry, LastEntry, PutBegins, Removes, Begins
<1>3. \E job : thread' = [thread EXCEPT ![w] = job]
               /\ job.at \in {"idle", "list", "next", "unmeta", "remove", "copy", "clean"}
  <2> DEFINE Now == {"idle", "list", "next", "unmeta", "remove", "copy", "clean"}
             To(job) == thread' = [thread EXCEPT ![w] = job] /\ job.at \in Now
  <2>1. /\ Resting.at \in Now /\ Resting \in CacheTask /\ thread[w] \in CacheTask
        /\ thread[w].total \in Int /\ thread[w].left \in SUBSET EntryRecord
    BY RestingTyped, TaskTyped DEF EntryRecord
  <2>2. ASSUME Ends(w) PROVE \E job : To(job)
    <3>1. To(Resting)
      BY <2>1, <2>2 DEF Ends, Goes
    <3> QED BY <3>1
  <2>3. ASSUME Measure(w), ~ Ends(w) PROVE \E job : To(job)
    <3> DEFINE x == TotalSize(held)
               n == Units(Overclaims, CacheKey)
               job == ExcessOf(thread[w], "list", x, n)
    <3>1. thread' = [thread EXCEPT ![w] = job]
      BY <2>3 DEF Measure, ExcessOf
    <3>2. x \in Nat /\ n \in Nat
      BY SumsTyped DEF CacheTyped
    <3> HIDE DEF x, n
    <3>3. job \in CacheTask /\ job.at = "list"
      <4>1. "list" \in Place /\ x \in Int
        BY <3>2 DEF Working, Place
      <4>2. thread[w] \in CacheTask
        BY <2>1
      <4> QED BY <3>2, <4>1, <4>2, ExcessOfTask
    <3> HIDE DEF job
    <3>4. To(job)
      BY <3>1, <3>3
    <3> QED BY <3>4
  <2>4. ASSUME ListEntries(w) PROVE \E job : To(job)
    <3> DEFINE L == {Entry(k) : k \in Listed}
               job == ListOf(thread[w], "next", L)
    <3>1. thread' = [thread EXCEPT ![w] = job]
      BY <2>4 DEF ListEntries, Goes, ListOf
    <3>2. L \in SUBSET EntryRecord /\ "next" \in Place
      BY DEF Listed, Entry, EntryRecord, CacheTyped, CacheTypeOK, Metadata, Place
    <3> HIDE DEF L
    <3>3. job.at = "next"
      BY <2>1, <3>2, ListOfTask
    <3> HIDE DEF job
    <3>4. To(job)
      BY <3>1, <3>3
    <3> QED BY <3>4
  <2>5. ASSUME NextEntry(w) PROVE \E job : To(job)
    <3>1. PICK e \in thread[w].left :
            thread' = [thread EXCEPT ![w] =
                         EntryOf(thread[w], IF copyOf[e.key] = 0 THEN "unmeta" ELSE "remove", e.key,
                                 copyOf[e.key], thread[w].left \ {e}, thread[w].total - e.size)]
      BY <2>5 DEF NextEntry, Goes, Turned, EntryOf
    <3> DEFINE p == IF copyOf[e.key] = 0 THEN "unmeta" ELSE "remove"
               L == thread[w].left \ {e}
               x == thread[w].total - e.size
               job == EntryOf(thread[w], p, e.key, copyOf[e.key], L, x)
    <3>2. e.key \in CacheKey /\ e.size \in Nat
      BY <2>1 DEF EntryRecord
    <3>3. p \in Place /\ p \in Now /\ L \in SUBSET EntryRecord /\ x \in Int /\ copyOf[e.key] \in Nat
      BY <2>1, <3>2, NumbersTyped DEF Place, Working
    <3>4. thread' = [thread EXCEPT ![w] = job]
      BY <3>1
    <3> HIDE DEF p, L, x, Now
    <3>5. job.at = p
      BY <2>1, <3>2, <3>3, EntryOfTask
    <3> HIDE DEF job
    <3>6. To(job)
      BY <3>3, <3>4, <3>5
    <3> HIDE DEF To
    <3> QED BY <3>6
  <2>6. ASSUME NEW k \in CacheKey, PutBegins(w, k) PROVE \E job : To(job)
    <3>1. copyOf[k] \in Nat /\ "copy" \in Place /\ "clean" \in Place
      BY NumbersTyped DEF Place, Working
    <3>2. \/ thread' = [thread EXCEPT ![w] = PutOf(Resting, "copy", k)]
          \/ thread' = [thread EXCEPT ![w] = CleanOf(Resting, "clean", k, copyOf[k])]
      BY <2>6 DEF PutBegins, Begins, PutOf, CleanOf
    <3>3. PutOf(Resting, "copy", k).at = "copy" /\ CleanOf(Resting, "clean", k, copyOf[k]).at = "clean"
      BY <2>1, <3>1, PutOfTask, CleanOfTask
    <3>4. To(PutOf(Resting, "copy", k)) \/ To(CleanOf(Resting, "clean", k, copyOf[k]))
      BY <3>2, <3>3
    <3> HIDE DEF To
    <3> QED BY <3>4
  <2>7. ASSUME NEW m \in Mode, NEW K \in SUBSET CacheKey, Removes(w, m, K) PROVE \E job : To(job)
    <3> DEFINE L == {[key |-> k, size |-> 0, born |-> 0] : k \in K}
    <3>1. L \in SUBSET EntryRecord
      BY DEF EntryRecord
    <3>2. thread' = [thread EXCEPT ![w] = RemovalOf(Resting, m, L)]
      BY <2>7 DEF Removes, Begins, Removal, RemovalOf
    <3> HIDE DEF L
    <3>3. RemovalOf(Resting, m, L).at = "next"
      BY <2>1, <3>1, RemovalOfTask
    <3>4. To(RemovalOf(Resting, m, L))
      BY <3>2, <3>3
    <3> HIDE DEF To
    <3> QED BY <3>4
  <2>8. LastEntry(w) => Ends(w)
    BY DEF LastEntry
  <2> HIDE DEF To
  <2>9. \E job : To(job)
    BY <2>2, <2>3, <2>4, <2>5, <2>6, <2>7, <2>8 DEF Turns
  <2> QED BY <2>9 DEF To
<1>4. /\ thread'[w].at \in {"idle", "list", "next", "unmeta", "remove", "copy", "clean"}
      /\ \A v \in CacheWorker \ {w} : thread'[v] = thread[v]
  BY <1>3 DEF CacheTyped, CacheTypeOK
<1> QED BY <1>1, <1>2, <1>4

LEMMA TornStep ==
    ASSUME CacheTyped, TornInv, [CacheNext]_cacheVars
    PROVE  TornInv'
<1>1. ASSUME NEW w \in CacheWorker, Turns(w) PROVE TornInv'
  BY <1>1, TurnsQuietly, QuietTorn
<1>2. ASSUME NEW w \in CacheWorker, NEW k \in CacheKey,
             PutBegins(w, k) \/ GetExpired(w, k) \/ DeleteEntry(w, k)
      PROVE  TornInv'
  <2>1. GetExpired(w, k) \/ DeleteEntry(w, k) =>
          "delete" \in Mode /\ {k} \in SUBSET CacheKey /\ Removes(w, "delete", {k})
    BY DEF GetExpired, DeleteEntry, Mode
  <2>2. Turns(w)
    BY <1>2, <2>1 DEF Turns
  <2> QED BY <1>1, <2>2
<1>3. ASSUME NEW w \in CacheWorker, NEW k \in CacheKey, GetReads(w, k) PROVE TornInv'
  BY <1>3, GetReadsTorn
<1>4. ASSUME NEW w \in CacheWorker, PutMakesPath(w) \/ PutCopies(w) \/ PutMeasures(w) \/ PutRecords(w)
      PROVE  TornInv'
  BY <1>4, PutMakesPathTorn, PutCopiesTorn, PutMeasuresTorn, PutRecordsTorn
<1>5. ASSUME NEW w \in CacheWorker, Measure(w) \/ ListEntries(w) \/ NextEntry(w) \/ LastEntry(w)
      PROVE  TornInv'
  BY <1>1, <1>5 DEF Turns
<1>6. ASSUME NEW w \in CacheWorker, RemoveFile(w) \/ RemovePath(w) \/ Unmeta(w) \/ ClearMetaFirst(w)
      PROVE  TornInv'
  BY <1>6, RemoveFileTorn, RemovePathTorn, UnmetaTorn, ClearMetaFirstTorn
<1>7. ASSUME NEW w \in CacheWorker, BreaksOff(w) \/ GetWrites(w) PROVE TornInv'
  BY <1>7, BreaksOffTorn, GetWritesTorn
<1>8. ASSUME NEW w \in CacheWorker, ClearCache(w) \/ \E b \in CacheBuild : ClearBuild(w, b)
      PROVE  TornInv'
  <2>1. ClearCache(w) => "clear" \in Mode /\ Removes(w, "clear", CacheKey)
    BY DEF ClearCache, Mode
  <2>2. ASSUME NEW b \in CacheBuild, ClearBuild(w, b) PROVE Turns(w)
    <3> DEFINE K == KeysNaming[b] \intersect Listed
    <3>1. Removes(w, "delete", K) /\ "delete" \in Mode /\ K \in SUBSET CacheKey
      BY <2>2 DEF ClearBuild, Mode, Listed
    <3> QED BY <3>1 DEF Turns
  <2>3. Turns(w)
    BY <1>8, <2>1, <2>2 DEF Turns
  <2> QED BY <1>1, <2>3
<1>9. ASSUME NEW k \in CacheKey, Expires(k) PROVE TornInv'
  BY <1>9, StillTorn DEF Expires
<1>10. CASE UNCHANGED cacheVars
  BY <1>10, StillTorn DEF cacheVars, records
<1> QED BY <1>2, <1>3, <1>4, <1>5, <1>6, <1>7, <1>8, <1>9, <1>10 DEF CacheNext

LEMMA TornInit == CacheInit => TornInv
<1> SUFFICES ASSUME CacheInit PROVE TornInv
  OBVIOUS
<1>1. \A w \in CacheWorker : thread[w].at = "idle"
  BY RestingTyped DEF CacheInit
<1>2. \A k \in CacheKey : copyOf[k] = 0 /\ meta[k].store = 0
  BY DEF CacheInit, NoMeta
<1>3. stores = 0
  BY DEF CacheInit
<1> QED BY <1>1, <1>2, <1>3 DEF TornInv, Numbered, Fresh, Attended, Kept, Storing, Filling

\* Whatever puts, deletions, evictions and hits come between each other's
\* operations on the files: what a hit serves is whole, or it is being removed, or
\* a store fills it beside the metadata of an earlier one, or a failure spoiled it.
THEOREM TornIsContested == CacheSpec => []TornEntryIsContested
<1>1. CacheTyped /\ TornInv => TornEntryIsContested
  BY DEF TornInv, Fresh, Attended, Excused, Whole, Filling, Hit, TornEntryIsContested
<1> DEFINE Inv == CacheTyped /\ TornInv
<1>2. CacheInit => Inv
  BY CacheTypedInit, TornInit
<1>3. Inv /\ [CacheNext]_cacheVars => Inv'
  BY CacheTypedStep, TornStep
<1>4. Inv => TornEntryIsContested
  BY <1>1
<1> HIDE DEF Inv
<1> QED BY <1>2, <1>3, <1>4, PTL DEF CacheSpec

-----------------------------------------------------------------------------
(* An eviction that nobody comes between. *)

\* Sums that differ nowhere are the same, larger amounts have larger sums, and the
\* sum of two is the sum of their sums.
LEMMA UnitsCompare ==
    ASSUME NEW f, NEW g, \A k \in CacheKey : f[k] \in Nat /\ g[k] \in Nat,
           NEW S \in SUBSET CacheKey, \A k \in S : f[k] <= g[k]
    PROVE  Units(f, S) <= Units(g, S)
<1> DEFINE C == {T \in SUBSET S : Units(f, T) <= Units(g, T)}
<1>1. {} \in C
  BY UnitsIsSum
<1>2. ASSUME NEW T \in SUBSET S, T # {}, \A x \in T : T \ {x} \in C PROVE T \in C
  <2>1. PICK x \in T : TRUE
    BY <1>2
  <2>2. /\ Units(f, T) = f[x] + Units(f, T \ {x}) /\ Units(g, T) = g[x] + Units(g, T \ {x})
        /\ Units(f, T \ {x}) \in Nat /\ Units(g, T \ {x}) \in Nat
    BY UnitsIsSum
  <2>3. Units(f, T \ {x}) <= Units(g, T \ {x})
    BY <1>2
  <2>4. f[x] \in Nat /\ g[x] \in Nat /\ f[x] <= g[x]
    OBVIOUS
  <2> QED BY <2>2, <2>3, <2>4
<1>3. IsFiniteSet(S)
  BY CacheAssumption, FS_Subset
<1>4. SUBSET S \subseteq C
  <2> HIDE DEF C
  <2> QED BY <1>1, <1>2, <1>3, RemovalInduction
<1> QED BY <1>4

LEMMA UnitsAdd ==
    ASSUME NEW f, NEW g, NEW h, \A k \in CacheKey : f[k] \in Nat /\ g[k] \in Nat /\ h[k] = f[k] + g[k]
    PROVE  Units(h, CacheKey) = Units(f, CacheKey) + Units(g, CacheKey)
<1> DEFINE C == {T \in SUBSET CacheKey : Units(h, T) = Units(f, T) + Units(g, T)}
<1>0. \A k \in CacheKey : h[k] \in Nat
  OBVIOUS
<1>1. {} \in C
  <2>1. Units(f, {}) = 0 /\ Units(g, {}) = 0
    BY UnitsIsSum
  <2>2. Units(h, {}) = 0
    BY <1>0, UnitsIsSum
  <2> QED BY <2>1, <2>2
<1>2. ASSUME NEW T \in SUBSET CacheKey, T # {}, \A x \in T : T \ {x} \in C PROVE T \in C
  <2>1. PICK x \in T : TRUE
    BY <1>2
  <2>2. /\ Units(f, T) = f[x] + Units(f, T \ {x}) /\ Units(g, T) = g[x] + Units(g, T \ {x})
        /\ Units(f, T \ {x}) \in Nat /\ Units(g, T \ {x}) \in Nat
    BY UnitsIsSum
  <2>3. Units(h, T) = h[x] + Units(h, T \ {x})
    BY <1>0, UnitsIsSum
  <2>4. Units(h, T \ {x}) = Units(f, T \ {x}) + Units(g, T \ {x})
    BY <1>2
  <2>5. f[x] \in Nat /\ g[x] \in Nat /\ h[x] = f[x] + g[x]
    OBVIOUS
  <2> QED BY <2>2, <2>3, <2>4, <2>5
<1>3. SUBSET CacheKey \subseteq C
  <2> HIDE DEF C
  <2> QED BY CacheAssumption, <1>1, <1>2, RemovalInduction
<1> QED BY <1>3

\* What the files of a key hold, or its metadata claim if they claim more.
Claim == [k \in CacheKey |-> Amounts(held)[k] + Overclaims[k]]
Bounded(w, S) == Units(Claim, S) <= thread[w].total + thread[w].over
Left(w, S) == thread[w].left = {Entry(k) : k \in S}

\* Nobody but w is at work, and what the others may still hold is accounted for.
Evicting(w) ==
    /\ \A v \in CacheWorker \ {w} : thread[v] = Resting
    /\ \/ thread[w].at = "idle"
       \/ /\ thread[w].mode = "put"
          /\ \/ thread[w].at = "list" /\ Bounded(w, CacheKey)
             \/ thread[w].at = "next" /\ Bounded(w, CacheKey) /\ Left(w, Listed)
             \/ /\ thread[w].at \in {"remove", "unmeta"} /\ HasMeta(thread[w].key)
                /\ thread[w].at = "unmeta" => held[thread[w].key] = {}
                /\ Bounded(w, CacheKey \ {thread[w].key})
                /\ Left(w, Listed \ {thread[w].key})

EvictInv == \A w \in alone : Evicting(w)

LEMMA ClaimTyped ==
    ASSUME CacheTyped
    PROVE  \A k \in CacheKey : /\ Claim[k] \in Nat /\ Claim[k] = Amounts(held)[k] + Overclaims[k]
                               /\ Amounts(held)[k] <= Claim[k]
                               /\ HasMeta(k) => meta[k].size <= Claim[k]
                               /\ held[k] = {} /\ ~ HasMeta(k) => Claim[k] = 0
<1> SUFFICES ASSUME NEW k \in CacheKey
             PROVE  /\ Claim[k] \in Nat /\ Claim[k] = Amounts(held)[k] + Overclaims[k]
                    /\ Amounts(held)[k] <= Claim[k]
                    /\ HasMeta(k) => meta[k].size <= Claim[k]
                    /\ held[k] = {} /\ ~ HasMeta(k) => Claim[k] = 0
  OBVIOUS
<1>1. FilesTyped /\ RecordsTyped
  BY CacheTypeParts DEF CacheTyped
<1>2. Amounts(held)[k] = Cardinality(held[k]) /\ Amounts(held)[k] \in Nat /\ Overclaims[k] \in Nat
  BY <1>1, AmountsTyped, OverclaimsTyped
<1>3. Claim[k] = Amounts(held)[k] + Overclaims[k]
  BY DEF Claim
<1>4. Overclaims[k] = IF HasMeta(k) /\ meta[k].size > Cardinality(held[k])
                      THEN meta[k].size - Cardinality(held[k]) ELSE 0
  BY DEF Overclaims
<1>5. meta[k].size \in Nat
  BY <1>1 DEF RecordsTyped, Metadata
<1>6. held[k] = {} => Cardinality(held[k]) = 0
  BY FS_EmptySet
<1> QED BY <1>2, <1>3, <1>4, <1>5, <1>6

\* A step after which nobody is alone keeps it, and so does one that ends the work.
LEMMA NobodyAlone == alone' = {} => EvictInv'
  BY DEF EvictInv

LEMMA WhoIsAlone ==
    ASSUME CacheTyped, EvictInv, NEW w \in CacheWorker, thread[w].at # "idle"
    PROVE  alone # {} => alone = {w} /\ Evicting(w)
<1> SUFFICES ASSUME NEW v \in alone PROVE v = w /\ Evicting(v)
  BY DEF CacheTyped, CacheTypeOK
<1>1. v \in CacheWorker /\ Evicting(v)
  BY DEF CacheTyped, CacheTypeOK, EvictInv
<1>2. v # w => thread[w] = Resting
  BY <1>1 DEF Evicting
<1> QED BY <1>1, <1>2, RestingTyped

LEMMA NotEvicting ==
    ASSUME CacheTyped, EvictInv, NEW w \in CacheWorker, alone' = alone,
           thread[w].at \notin {"idle", "list", "next", "remove", "unmeta"}
    PROVE  EvictInv'
<1>1. alone = {}
  BY WhoIsAlone DEF Evicting
<1> QED BY <1>1, NobodyAlone

LEMMA EvictionEnds ==
    ASSUME CacheTyped, EvictInv, NEW w \in CacheWorker, thread[w].at # "idle", Ends(w)
    PROVE  EvictInv'
<1>1. thread'[w] = Resting /\ \A v \in CacheWorker : v # w => thread'[v] = thread[v]
  BY DEF Ends, Goes, CacheTyped, CacheTypeOK
<1>2. alone' = alone
  BY DEF Ends, Goes
<1>3. CASE alone = {}
  BY <1>2, <1>3, NobodyAlone
<1>4. CASE alone # {}
  <2>1. alone = {w} /\ Evicting(w)
    BY <1>4, WhoIsAlone
  <2>2. Evicting(w)'
    BY <1>1, <2>1, RestingTyped DEF Evicting
  <2> QED BY <1>2, <2>1, <2>2 DEF EvictInv
<1> QED BY <1>3, <1>4

LEMMA SameClaim == UNCHANGED <<held, meta>> => Claim' = Claim
  BY DEF Claim, Amounts, Overclaims, HasMeta

LEMMA MeasureEvicts ==
    ASSUME CacheTyped, EvictInv, NEW w \in CacheWorker, Measure(w)
    PROVE  EvictInv'
<1> DEFINE x == TotalSize(held)
           n == Units(Overclaims, CacheKey)
<1>1. thread[w].at = "measure" /\ thread[w].mode = "put" /\ UNCHANGED <<held, meta>>
  BY DEF Measure, CacheTyped, ThreadsPlaced, files, records
<1>2. CASE Ends(w)
  BY <1>1, <1>2, EvictionEnds
<1>3. CASE ~ Ends(w)
  <2>1. thread' = [thread EXCEPT ![w] = ExcessOf(thread[w], "list", x, n)]
    BY <1>3 DEF Measure, ExcessOf
  <2>2. alone' = {} \/ (alone' = {w} /\ \A v \in CacheWorker \ {w} : thread[v] = Resting)
    BY <1>3 DEF Measure
  <2>3. x \in Int /\ n \in Nat /\ x \in Nat /\ "list" \in Place /\ thread[w] \in CacheTask
    BY SumsTyped, TaskTyped DEF CacheTyped, Place
  <2>4. /\ thread'[w] = ExcessOf(thread[w], "list", x, n)
        /\ \A v \in CacheWorker : v # w => thread'[v] = thread[v]
    BY <2>1 DEF CacheTyped, CacheTypeOK
  <2>5. Units(Claim, CacheKey) = x + n
    <3>1. /\ \A k \in CacheKey : Amounts(held)[k] \in Nat
          /\ \A k \in CacheKey : Overclaims[k] \in Nat
      BY AmountsTyped, OverclaimsTyped, CacheTypeParts DEF CacheTyped
    <3>2. Units(Claim, CacheKey) = Units(Amounts(held), CacheKey) + Units(Overclaims, CacheKey)
      BY <3>1, UnitsAdd, ClaimTyped
    <3> QED BY <3>2 DEF TotalSize
  <2> HIDE DEF x, n
  <2>6. /\ thread'[w].at = "list" /\ thread'[w].mode = "put"
        /\ thread'[w].total = x /\ thread'[w].over = n
    BY <1>1, <2>3, <2>4, ExcessOfTask
  <2>7. Bounded(w, CacheKey)'
    BY <1>1, <2>3, <2>5, <2>6, SameClaim DEF Bounded
  <2>8. alone' = {w} => Evicting(w)'
    BY <2>2, <2>4, <2>6, <2>7 DEF Evicting
  <2> QED BY <2>2, <2>8 DEF EvictInv
<1> QED BY <1>2, <1>3

LEMMA SameEntries == meta' = meta => Listed' = Listed /\ \A k : Entry(k)' = Entry(k)
  BY DEF Listed, HasMeta, Entry

LEMMA ListEntriesEvicts ==
    ASSUME CacheTyped, EvictInv, NEW w \in CacheWorker, ListEntries(w), alone # {}
    PROVE  EvictInv'
<1> DEFINE L == {Entry(k) : k \in Listed}
<1>1. thread[w].at = "list" /\ UNCHANGED <<held, meta>> /\ alone' = alone
  BY DEF ListEntries, Goes, files, records
<1>2. alone = {w} /\ Evicting(w)
  BY <1>1, WhoIsAlone
<1>3. thread' = [thread EXCEPT ![w] = ListOf(thread[w], "next", L)]
  BY DEF ListEntries, Goes, ListOf
<1>4. L \in SUBSET EntryRecord /\ "next" \in Place /\ thread[w] \in CacheTask
  BY TaskTyped DEF Listed, Entry, EntryRecord, CacheTyped, CacheTypeOK, Metadata, Place
<1>5. L' = L
  BY <1>1, SameEntries
<1> HIDE DEF L
<1>6. /\ thread'[w] = ListOf(thread[w], "next", L)
      /\ \A v \in CacheWorker : v # w => thread'[v] = thread[v]
  BY <1>3 DEF CacheTyped, CacheTypeOK
<1>7. /\ thread'[w].at = "next" /\ thread'[w].mode = thread[w].mode /\ thread'[w].left = L
      /\ thread'[w].total = thread[w].total /\ thread'[w].over = thread[w].over
  BY <1>4, <1>6, ListOfTask
<1>8. /\ thread[w].mode = "put" /\ Bounded(w, CacheKey)
      /\ \A v \in CacheWorker \ {w} : thread[v] = Resting
  BY <1>1, <1>2 DEF Evicting
<1>9. Bounded(w, CacheKey)'
  BY <1>1, <1>7, <1>8, SameClaim DEF Bounded
<1>10. Left(w, Listed)'
  <2>1. thread'[w].left = L'
    BY <1>5, <1>7
  <2> QED BY <2>1 DEF Left, L
<1>11. Evicting(w)'
  BY <1>6, <1>7, <1>8, <1>9, <1>10 DEF Evicting
<1> QED BY <1>1, <1>2, <1>11 DEF EvictInv

LEMMA NextEntryEvicts ==
    ASSUME CacheTyped, EvictInv, NEW w \in CacheWorker, NextEntry(w), alone # {}
    PROVE  EvictInv'
<1>1. /\ thread[w].at = "next" /\ UNCHANGED <<held, meta>> /\ alone' = alone
      /\ thread[w] \in CacheTask /\ thread[w].left \in SUBSET EntryRecord
      /\ thread[w].total \in Int /\ thread[w].over \in Nat
  BY TaskTyped DEF NextEntry, Goes, files, records, EntryRecord
<1>2. alone = {w} /\ Evicting(w)
  BY <1>1, WhoIsAlone
<1>3. /\ thread[w].mode = "put" /\ Bounded(w, CacheKey) /\ Left(w, Listed)
      /\ \A v \in CacheWorker \ {w} : thread[v] = Resting
  BY <1>1, <1>2 DEF Evicting
<1>4. PICK e \in thread[w].left :
        thread' = [thread EXCEPT ![w] =
                     EntryOf(thread[w], IF copyOf[e.key] = 0 THEN "unmeta" ELSE "remove", e.key,
                             copyOf[e.key], thread[w].left \ {e}, thread[w].total - e.size)]
  BY DEF NextEntry, Goes, Turned, EntryOf
<1>5. PICK k \in Listed : e = Entry(k)
  BY <1>3, <1>4 DEF Left
<1>6. /\ k \in CacheKey /\ HasMeta(k) /\ e.key = k /\ e.size = meta[k].size
      /\ meta[k].size \in Nat /\ copyOf[k] \in Nat
  BY <1>5, NumbersTyped DEF Listed, Entry, CacheTyped, CacheTypeOK, Metadata
<1> DEFINE p == IF copyOf[k] = 0 THEN "unmeta" ELSE "remove"
           L == thread[w].left \ {e}
           x == thread[w].total - meta[k].size
<1>7. thread' = [thread EXCEPT ![w] = EntryOf(thread[w], p, k, copyOf[k], L, x)]
  BY <1>4, <1>6
<1>8. p \in Place /\ p \in {"remove", "unmeta"} /\ (p = "unmeta" => copyOf[k] = 0)
  BY DEF Place, Working
<1>9. L \in SUBSET EntryRecord /\ x \in Int
  BY <1>1, <1>6
<1>10. L = {Entry(j) : j \in Listed \ {k}}
  BY <1>3, <1>5, <1>6 DEF Left, Entry
<1>11. x + meta[k].size = thread[w].total
  BY <1>1, <1>6
<1> HIDE DEF p, L, x
<1>12. /\ thread'[w] = EntryOf(thread[w], p, k, copyOf[k], L, x)
       /\ \A v \in CacheWorker : v # w => thread'[v] = thread[v]
  BY <1>7 DEF CacheTyped, CacheTypeOK
<1>13. /\ thread'[w].at = p /\ thread'[w].key = k /\ thread'[w].mode = thread[w].mode
       /\ thread'[w].left = L /\ thread'[w].total = x /\ thread'[w].over = thread[w].over
  BY <1>1, <1>6, <1>8, <1>9, <1>12, EntryOfTask
<1>14. Units(Claim, CacheKey \ {k}) <= x + thread[w].over
  <2>1. \A j \in CacheKey : Claim[j] \in Nat
    BY ClaimTyped
  <2>2. /\ Units(Claim, CacheKey) = Claim[k] + Units(Claim, CacheKey \ {k})
        /\ Units(Claim, CacheKey \ {k}) \in Nat
    BY <1>6, <2>1, UnitsIsSum
  <2>3. meta[k].size <= Claim[k] /\ Claim[k] \in Nat
    BY <1>6, ClaimTyped
  <2>4. Units(Claim, CacheKey) <= thread[w].total + thread[w].over
    BY <1>3 DEF Bounded
  <2> QED BY <1>1, <1>6, <1>9, <1>11, <2>2, <2>3, <2>4
<1>15. (Bounded(w, CacheKey \ {thread[w].key}))'
  BY <1>1, <1>13, <1>14, SameClaim DEF Bounded
<1>16. (Left(w, Listed \ {thread[w].key}))'
  BY <1>1, <1>10, <1>13, SameEntries DEF Left
<1>17. HasMeta(k)' /\ (p = "unmeta" => held'[k] = {})
  BY <1>1, <1>6, <1>8 DEF HasMeta, CacheTyped, CacheTypeOK
<1>18. Evicting(w)'
  <2>1. \A v \in CacheWorker \ {w} : thread'[v] = Resting
    BY <1>3, <1>12
  <2>2. HasMeta(thread[w].key)'
    BY <1>13, <1>17 DEF HasMeta
  <2>3. thread'[w].at = "unmeta" => held'[thread'[w].key] = {}
    BY <1>13, <1>17
  <2>4. thread'[w].mode = "put" /\ thread'[w].at \in {"remove", "unmeta"}
    BY <1>3, <1>8, <1>13
  <2> QED BY <1>15, <1>16, <2>1, <2>2, <2>3, <2>4 DEF Evicting
<1> QED BY <1>1, <1>2, <1>18 DEF EvictInv

ClaimsAreNatural == \A k \in CacheKey : Claim[k] \in Nat

LEMMA ClaimsTyped == CacheTyped => ClaimsAreNatural
  BY ClaimTyped DEF ClaimsAreNatural

LEMMA ClaimsTypedAfter == CacheTyped' => ClaimsAreNatural'
  BY ClaimsTyped, PTL

\* Removing files of k leaves what the other keys claim.
LEMMA OtherClaims ==
    ASSUME CacheTyped, CacheTyped', NEW k \in CacheKey,
           \A j \in CacheKey \ {k} : held'[j] = held[j] /\ meta'[j] = meta[j]
    PROVE  Units(Claim', CacheKey \ {k}) <= Units(Claim, CacheKey \ {k})
<1>1. \A j \in CacheKey : Claim[j] \in Nat
  BY ClaimTyped
<1>2. \A j \in CacheKey : Claim'[j] \in Nat
  BY ClaimsTypedAfter DEF ClaimsAreNatural
<1>3. \A j \in CacheKey \ {k} : Claim'[j] = Claim[j]
  BY DEF Claim, Amounts, Overclaims, HasMeta
<1>4. \A j \in CacheKey \ {k} : Claim'[j] <= Claim[j]
  BY <1>1, <1>3
<1> QED BY <1>1, <1>2, <1>4, UnitsCompare

LEMMA RemoveFileEvicts ==
    ASSUME CacheTyped, EvictInv, NEW w \in CacheWorker, RemoveFile(w)
    PROVE  EvictInv'
<1>0. PICK k \in CacheKey : k = thread[w].key
  BY TaskTyped DEF RemoveFile, Removing, AtKey
<1>1. /\ UNCHANGED <<meta, thread, alone>> /\ thread[w].at \in {"clean", "remove"}
      /\ \E u \in held[k] : held' = [held EXCEPT ![k] = held[k] \ {u}]
  BY <1>0 DEF RemoveFile, Removing, records
<1>2. CASE thread[w].at = "clean"
  BY <1>1, <1>2, NotEvicting
<1>3. CASE alone = {}
  BY <1>1, <1>3, NobodyAlone
<1>4. CASE thread[w].at = "remove" /\ alone # {}
  <2>1. alone = {w} /\ Evicting(w)
    BY <1>4, WhoIsAlone
  <2>2. /\ thread[w].mode = "put" /\ HasMeta(k) /\ Bounded(w, CacheKey \ {k})
        /\ Left(w, Listed \ {k}) /\ \A v \in CacheWorker \ {w} : thread[v] = Resting
    BY <1>0, <1>4, <2>1 DEF Evicting
  <2>3. Units(Claim', CacheKey \ {k}) <= Units(Claim, CacheKey \ {k})
    <3>1. \A j \in CacheKey \ {k} : held'[j] = held[j] /\ meta'[j] = meta[j]
      BY <1>1 DEF CacheTyped, CacheTypeOK
    <3> QED BY <3>1, OtherClaims, RemoveFileTyped
  <2>4. Units(Claim, CacheKey \ {k}) \in Nat /\ Units(Claim', CacheKey \ {k}) \in Nat
    BY UnitsIsSum, ClaimsTyped, ClaimsTypedAfter, RemoveFileTyped DEF ClaimsAreNatural
  <2>5. thread[w].total \in Int /\ thread[w].over \in Nat
    BY TaskTyped
  <2>6. (Bounded(w, CacheKey \ {thread[w].key}))'
    BY <1>0, <1>1, <2>2, <2>3, <2>4, <2>5 DEF Bounded
  <2>7. (Left(w, Listed \ {thread[w].key}))'
    BY <1>0, <1>1, <2>2, SameEntries DEF Left
  <2>8. HasMeta(thread[w].key)'
    BY <1>0, <1>1, <2>2 DEF HasMeta
  <2>9. Evicting(w)'
    BY <1>1, <1>4, <2>2, <2>6, <2>7, <2>8 DEF Evicting
  <2> QED BY <1>1, <2>1, <2>9 DEF EvictInv
<1> QED BY <1>1, <1>2, <1>3, <1>4

LEMMA RemovePathEvicts ==
    ASSUME CacheTyped, EvictInv, NEW w \in CacheWorker, RemovePath(w)
    PROVE  EvictInv'
<1>0. PICK k \in CacheKey : k = thread[w].key
  BY TaskTyped DEF RemovePath, AtKey
<1>1. /\ UNCHANGED <<meta, alone>> /\ thread[w].at \in {"clean", "remove"}
      /\ held' = [held EXCEPT ![k] = {}]
      /\ thread[w].at = "remove" => thread' = [thread EXCEPT ![w] = PathOf(thread[w], "unmeta", 0)]
  BY <1>0 DEF RemovePath, records, Goes, PathOf
<1>2. CASE thread[w].at = "clean"
  BY <1>1, <1>2, NotEvicting
<1>3. CASE alone = {}
  BY <1>1, <1>3, NobodyAlone
<1>4. CASE thread[w].at = "remove" /\ alone # {}
  <2>1. alone = {w} /\ Evicting(w)
    BY <1>4, WhoIsAlone
  <2>2. /\ thread[w].mode = "put" /\ HasMeta(k) /\ Bounded(w, CacheKey \ {k})
        /\ Left(w, Listed \ {k}) /\ \A v \in CacheWorker \ {w} : thread[v] = Resting
    BY <1>0, <1>4, <2>1 DEF Evicting
  <2>3. Units(Claim', CacheKey \ {k}) <= Units(Claim, CacheKey \ {k})
    <3>1. \A j \in CacheKey \ {k} : held'[j] = held[j] /\ meta'[j] = meta[j]
      BY <1>1 DEF CacheTyped, CacheTypeOK
    <3> QED BY <3>1, OtherClaims, RemovePathTyped
  <2>4. Units(Claim, CacheKey \ {k}) \in Nat /\ Units(Claim', CacheKey \ {k}) \in Nat
    BY UnitsIsSum, ClaimsTyped, ClaimsTypedAfter, RemovePathTyped DEF ClaimsAreNatural
  <2>5. thread[w].total \in Int /\ thread[w].over \in Nat /\ thread[w] \in CacheTask
    BY TaskTyped
  <2>6. /\ thread'[w] = PathOf(thread[w], "unmeta", 0)
        /\ \A v \in CacheWorker : v # w => thread'[v] = thread[v]
    BY <1>1, <1>4 DEF CacheTyped, CacheTypeOK
  <2>7. /\ thread'[w].at = "unmeta" /\ thread'[w].mode = "put" /\ thread'[w].key = k
        /\ thread'[w].left = thread[w].left /\ thread'[w].total = thread[w].total
        /\ thread'[w].over = thread[w].over
    <3>1. "unmeta" \in Place
      BY DEF Place, Working
    <3> QED BY <1>0, <2>2, <2>5, <2>6, <3>1, PathOfTask
  <2>8. (Bounded(w, CacheKey \ {thread[w].key}))'
    BY <2>2, <2>3, <2>4, <2>5, <2>7 DEF Bounded
  <2>9. (Left(w, Listed \ {thread[w].key}))'
    BY <1>1, <2>2, <2>7, SameEntries DEF Left
  <2>10. HasMeta(thread[w].key)' /\ held'[thread'[w].key] = {}
    BY <1>1, <2>2, <2>7 DEF HasMeta, CacheTyped, CacheTypeOK
  <2>11. \A v \in CacheWorker \ {w} : thread'[v] = Resting
    BY <2>2, <2>6
  <2>12. Evicting(w)'
    BY <2>7, <2>8, <2>9, <2>10, <2>11 DEF Evicting
  <2> QED BY <1>1, <2>1, <2>12 DEF EvictInv
<1> QED BY <1>1, <1>2, <1>3, <1>4

LEMMA UnmetaEvicts ==
    ASSUME CacheTyped, EvictInv, NEW w \in CacheWorker, Unmeta(w), alone # {}
    PROVE  EvictInv'
<1>0. PICK k \in CacheKey : k = thread[w].key
  BY TaskTyped DEF Unmeta, AtKey
<1>1. /\ thread[w].at = "unmeta" /\ alone' = alone /\ held' = held
      /\ meta' = [meta EXCEPT ![k] = NoMeta]
      /\ thread' = [thread EXCEPT ![w] = KeyOf(thread[w], "next", 0)]
  BY <1>0 DEF Unmeta, Goes, KeyOf, files
<1>2. alone = {w} /\ Evicting(w)
  BY <1>1, WhoIsAlone
<1>3. /\ thread[w].mode = "put" /\ held[k] = {} /\ Bounded(w, CacheKey \ {k})
      /\ Left(w, Listed \ {k}) /\ \A v \in CacheWorker \ {w} : thread[v] = Resting
  BY <1>0, <1>1, <1>2 DEF Evicting
<1>4. /\ ~ HasMeta(k)' /\ held'[k] = {}
      /\ \A j \in CacheKey : j # k => meta'[j] = meta[j] /\ held'[j] = held[j]
  BY <1>1, <1>3 DEF HasMeta, CacheTyped, CacheTypeOK
<1>5. Claim'[k] = 0
  <2>1. Claim'[k] = Cardinality(held'[k]) + 0
    BY <1>4 DEF Claim, Amounts, Overclaims, HasMeta
  <2>2. Cardinality(held'[k]) = 0
    BY <1>4, FS_EmptySet
  <2> QED BY <2>1, <2>2
<1>6. Units(Claim', CacheKey) <= Units(Claim, CacheKey \ {k})
  <2>1. Units(Claim', CacheKey \ {k}) <= Units(Claim, CacheKey \ {k})
    BY <1>4, OtherClaims, UnmetaTyped
  <2>2. /\ Units(Claim', CacheKey) = Claim'[k] + Units(Claim', CacheKey \ {k})
        /\ Units(Claim', CacheKey \ {k}) \in Nat
    BY UnitsIsSum, ClaimsTypedAfter, UnmetaTyped DEF ClaimsAreNatural
  <2> QED BY <1>5, <2>1, <2>2
<1>7. /\ Units(Claim, CacheKey \ {k}) \in Nat /\ Units(Claim', CacheKey) \in Nat
      /\ thread[w].total \in Int /\ thread[w].over \in Nat /\ thread[w] \in CacheTask
  BY TaskTyped, UnitsIsSum, ClaimsTyped, ClaimsTypedAfter, UnmetaTyped DEF ClaimsAreNatural
<1>8. /\ thread'[w] = KeyOf(thread[w], "next", 0)
      /\ \A v \in CacheWorker : v # w => thread'[v] = thread[v]
  BY <1>1 DEF CacheTyped, CacheTypeOK
<1>9. /\ thread'[w].at = "next" /\ thread'[w].mode = "put"
      /\ thread'[w].left = thread[w].left /\ thread'[w].total = thread[w].total
      /\ thread'[w].over = thread[w].over
  <2>1. "next" \in Place
    BY DEF Place
  <2> QED BY <1>3, <1>7, <1>8, <2>1, KeyOfTask
<1>10. Bounded(w, CacheKey)'
  BY <1>3, <1>6, <1>7, <1>9 DEF Bounded
<1>11. Left(w, Listed)'
  <2>1. Listed' = Listed \ {k}
    BY <1>4 DEF Listed, HasMeta
  <2>2. \A j \in Listed \ {k} : Entry(j)' = Entry(j)
    BY <1>4 DEF Listed, Entry
  <2>3. thread'[w].left = {Entry(j) : j \in Listed \ {k}}
    BY <1>3, <1>9 DEF Left
  <2> QED BY <2>1, <2>2, <2>3 DEF Left
<1>12. \A v \in CacheWorker \ {w} : thread'[v] = Resting
  BY <1>3, <1>8
<1>13. Evicting(w)'
  BY <1>9, <1>10, <1>11, <1>12 DEF Evicting
<1> QED BY <1>1, <1>2, <1>13 DEF EvictInv

LEMMA SameEviction ==
    ASSUME EvictInv, UNCHANGED <<held, meta, thread, alone>>
    PROVE  EvictInv'
<1>1. Claim' = Claim /\ Listed' = Listed /\ \A k : Entry(k)' = Entry(k)
  BY SameClaim, SameEntries
<1> SUFFICES ASSUME NEW w \in alone PROVE Evicting(w)'
  BY DEF EvictInv
<1>2. Evicting(w)
  BY DEF EvictInv
<1>3. /\ Bounded(w, CacheKey) => Bounded(w, CacheKey)'
      /\ Left(w, Listed) => Left(w, Listed)'
      /\ Bounded(w, CacheKey \ {thread[w].key}) => (Bounded(w, CacheKey \ {thread[w].key}))'
      /\ Left(w, Listed \ {thread[w].key}) => (Left(w, Listed \ {thread[w].key}))'
  BY <1>1 DEF Bounded, Left
<1>4. HasMeta(thread[w].key) => HasMeta(thread[w].key)'
  BY DEF HasMeta
<1> QED BY <1>2, <1>3, <1>4 DEF Evicting

LEMMA ClearMetaFirstEvicts ==
    ASSUME CacheTyped, EvictInv, NEW w \in CacheWorker, ClearMetaFirst(w)
    PROVE  EvictInv'
<1>1. thread[w].at = "remove" /\ thread[w].mode = "clear" /\ alone' = alone
  BY DEF ClearMetaFirst
<1>2. alone = {}
  BY <1>1, WhoIsAlone DEF Evicting
<1> QED BY <1>1, <1>2, NobodyAlone

LEMMA EvictStep ==
    ASSUME CacheTyped, EvictInv, [CacheNext]_cacheVars
    PROVE  EvictInv'
<1>1. ASSUME NEW w \in CacheWorker, NEW job, Begins(w, job) PROVE EvictInv'
  BY <1>1, NobodyAlone DEF Begins
<1>2. ASSUME NEW w \in CacheWorker, NEW k \in CacheKey,
             PutBegins(w, k) \/ GetReads(w, k) \/ GetExpired(w, k) \/ DeleteEntry(w, k)
      PROVE  EvictInv'
  BY <1>1, <1>2 DEF PutBegins, GetReads, GetExpired, DeleteEntry, Removes
<1>3. ASSUME NEW w \in CacheWorker, PutMakesPath(w) \/ PutCopies(w) \/ PutMeasures(w) \/ PutRecords(w)
      PROVE  EvictInv'
  <2>1. thread[w].at \in {"copy", "fill", "record"} /\ alone' = alone
    BY <1>3 DEF PutMakesPath, PutCopies, PutMeasures, PutRecords, Goes
  <2> QED BY <2>1, NotEvicting
<1>4. ASSUME NEW w \in CacheWorker, GetWrites(w) PROVE EvictInv'
  <2>1. thread[w].at = "hit" /\ alone' = alone
    BY <1>4 DEF GetWrites, Ends, Goes
  <2> QED BY <2>1, NotEvicting
<1>5. ASSUME NEW w \in CacheWorker, LastEntry(w) \/ BreaksOff(w) PROVE EvictInv'
  <2>1. Ends(w) /\ thread[w].at # "idle"
    BY <1>5 DEF LastEntry, BreaksOff, Working
  <2> QED BY <2>1, EvictionEnds
<1>6. ASSUME NEW w \in CacheWorker, ListEntries(w) \/ NextEntry(w) \/ Unmeta(w) PROVE EvictInv'
  <2>1. alone' = alone
    BY <1>6 DEF ListEntries, NextEntry, Unmeta, Goes
  <2> QED BY <1>6, <2>1, NobodyAlone, ListEntriesEvicts, NextEntryEvicts, UnmetaEvicts
<1>7. ASSUME NEW w \in CacheWorker,
             Measure(w) \/ RemoveFile(w) \/ RemovePath(w) \/ ClearMetaFirst(w)
      PROVE  EvictInv'
  BY <1>7, MeasureEvicts, RemoveFileEvicts, RemovePathEvicts, ClearMetaFirstEvicts
<1>8. ASSUME NEW w \in CacheWorker, ClearCache(w) \/ \E b \in CacheBuild : ClearBuild(w, b)
      PROVE  EvictInv'
  BY <1>1, <1>8 DEF ClearCache, ClearBuild, Removes
<1>9. ASSUME NEW k \in CacheKey, Expires(k) PROVE EvictInv'
  BY <1>9, SameEviction DEF Expires, files
<1>10. CASE UNCHANGED cacheVars
  BY <1>10, SameEviction DEF cacheVars, files, records
<1> QED BY <1>2, <1>3, <1>4, <1>5, <1>6, <1>7, <1>8, <1>9, <1>10 DEF CacheNext

\* What an eviction that nobody comes between leaves is within nine tenths of the
\* limit, but for what the metadata claimed above the files there were.
THEOREM EvictionHolds == CacheSpec => []EvictionOverrun
<1> DEFINE Inv == CacheTyped /\ EvictInv
<1>1. CacheInit => Inv
  BY CacheTypedInit DEF CacheInit, EvictInv
<1>2. Inv /\ [CacheNext]_cacheVars => Inv'
  BY CacheTypedStep, EvictStep
<1>3. Inv => EvictionOverrun
  <2> SUFFICES ASSUME CacheTyped, EvictInv, NEW w \in alone, thread[w].at = "next", Through(w)
               PROVE  TotalSize(held) <= LowBytes + thread[w].over \/ Listed = {}
    BY DEF EvictionOverrun
  <2>1. thread[w].mode = "put" /\ Bounded(w, CacheKey) /\ Left(w, Listed)
    BY DEF EvictInv, Evicting
  <2>2. CASE thread[w].left = {}
    BY <2>1, <2>2 DEF Left
  <2>3. CASE Enough(thread[w].total)
    <3>1. Units(Amounts(held), CacheKey) <= Units(Claim, CacheKey)
      <4>1. \A k \in CacheKey : Amounts(held)[k] \in Nat
        BY AmountsTyped, CacheTypeParts DEF CacheTyped
      <4> QED BY <4>1, ClaimTyped, UnitsCompare
    <3>2. TotalSize(held) \in Nat /\ Units(Claim, CacheKey) \in Nat
      BY SumsTyped, ClaimTyped, UnitsIsSum DEF CacheTyped
    <3>3. w \in CacheWorker
      BY DEF CacheTyped, CacheTypeOK
    <3>4. thread[w].total \in Int /\ thread[w].over \in Nat /\ thread[w].total <= LowBytes
          /\ LowBytes \in Nat
      BY <2>3, <3>3, TaskTyped, CacheAssumption DEF Enough
    <3> QED BY <2>1, <3>1, <3>2, <3>4 DEF Bounded, TotalSize
  <2> QED BY <2>2, <2>3 DEF Through
<1> HIDE DEF Inv
<1> QED BY <1>1, <1>2, <1>3, PTL DEF CacheSpec
=============================================================================
