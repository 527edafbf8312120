----------------------------- MODULE BuildCache -----------------------------
(***************************************************************************)
(* LocalCache (ci_engine/core/cache.py): for each key files under a path   *)
(* and a metadata file beside it, without a lock.  The handlers of         *)
(* /api/cache run on threads, and a step here is one operation on the file *)
(* system: rmtree and copytree go file by file, a put removes, copies,     *)
(* measures, writes the metadata and evicts, and a hit reads the metadata  *)
(* and writes them back.  BuildCacheManager's save, restore and clear do   *)
(* the same to this cache; the bucket they use beside it is left out.      *)
(*                                                                         *)
(* A path that is made gets a number, so that a thread that removes or     *)
(* fills one can be told from a thread that does so to the next.  Sizes    *)
(* are numbers of files, or of blocks of a single file; metadata count for *)
(* nothing and are written in one step.                                    *)
(***************************************************************************)
EXTENDS Integers, FiniteSetsExt

CONSTANTS
    CacheKey,      \* the keys
    SizeOfKey,     \* [CacheKey -> size of the source of that key]
    FileKey,       \* the keys whose source is a single file
    CacheBuild,    \* the builds that have a BuildCacheManager
    KeysNaming,    \* [CacheBuild -> keys whose text contains the build's id]
    CacheWorker,   \* threads of the server in a handler
    MaxBytes,      \* max_size_gb, in units
    LowBytes,      \* nine tenths of MaxBytes
    MaxStores      \* bound: paths made in a behaviour

ASSUME CacheAssumption ==
    /\ IsFiniteSet(CacheKey)
    /\ SizeOfKey \in [CacheKey -> Nat \ {0}]
    /\ FileKey \subseteq CacheKey
    /\ KeysNaming \in [CacheBuild -> SUBSET CacheKey]
    /\ MaxBytes \in Nat /\ LowBytes \in Nat /\ LowBytes <= MaxBytes
    /\ MaxStores \in Nat

VARIABLES
    held,       \* [CacheKey -> the files under the key's path]
    copyOf,     \* [CacheKey -> the number of that path, 0: there is none]
    meta,       \* [CacheKey -> the metadata file]
    expired,    \* the metadata, by birth, whose expires_at has passed
    births,     \* how often metadata were written
    stores,     \* how many paths were made
    thread,     \* [CacheWorker -> what the thread is doing]
    spoiled,    \* history: keys whose path a failed operation left as it was then
    alone       \* history: the thread nobody came between since it measured the cache

files == <<held, copyOf, stores>>
records == <<meta, births, expired>>
cacheVars == <<files, records, thread, spoiled, alone>>

NoMeta == [store |-> 0, size |-> 0, born |-> 0]
Resting == [at |-> "idle", mode |-> "none", key |-> 0, of |-> 0, done |-> 0,
            meta |-> NoMeta, left |-> {}, total |-> 0, over |-> 0]

CacheInit ==
    /\ held = [k \in CacheKey |-> {}]
    /\ copyOf = [k \in CacheKey |-> 0]
    /\ meta = [k \in CacheKey |-> NoMeta]
    /\ expired = {} /\ births = 0 /\ stores = 0
    /\ thread = [w \in CacheWorker |-> Resting]
    /\ spoiled = {} /\ alone = {}

Units(f, S) == MapThenSumSet(LAMBDA k : f[k], S)
Amounts(h) == [k \in CacheKey |-> Cardinality(h[k])]
TotalSize(h) == Units(Amounts(h), CacheKey)

HasMeta(k) == meta[k] # NoMeta
Listed == {k \in CacheKey : HasMeta(k)}

\* Thread w begins, goes on, or ends.
Begins(w, job) ==
    /\ thread[w] = Resting
    /\ thread' = [thread EXCEPT ![w] = job]
    /\ alone' = {}
Goes(w, job) == thread' = [thread EXCEPT ![w] = job] /\ UNCHANGED alone
Ends(w) == Goes(w, Resting)

\* Thread w turns to the entry of k to delete it: files first, if there are any.
Turned(job, k) ==
    [job EXCEPT !.at = IF copyOf[k] = 0 THEN "unmeta" ELSE "remove", !.key = k, !.of = copyOf[k]]

-----------------------------------------------------------------------------
(* Putting: w is the thread, k the key.                                    *)

\* What is there is removed first, by rmtree, which refuses a single file.
PutBegins(w, k) ==
    LET job == [Resting EXCEPT !.mode = "put", !.key = k]
    IN  /\ stores < MaxStores
        /\ IF copyOf[k] = 0
           THEN Begins(w, [job EXCEPT !.at = "copy"])
           ELSE k \notin FileKey /\ Begins(w, [job EXCEPT !.at = "clean", !.of = copyOf[k]])
        /\ UNCHANGED <<files, records, spoiled>>

\* copytree makes the directory and refuses one that is there; copy2 empties
\* the file that is there.
PutMakesPath(w) ==
    LET k == thread[w].key
    IN  /\ thread[w].at = "copy" /\ stores < MaxStores
        /\ k \in FileKey \/ copyOf[k] = 0
        /\ stores' = stores + 1
        /\ copyOf' = [copyOf EXCEPT ![k] = stores + 1]
        /\ held' = [held EXCEPT ![k] = {}]
        /\ spoiled' = spoiled \ {k}
        /\ Goes(w, [thread[w] EXCEPT !.at = "fill", !.of = stores + 1])
        /\ UNCHANGED records

\* The next file comes under the path, whoever has made it; an open file may be
\* one that has lost its path.
PutCopies(w) ==
    LET k == thread[w].key
        more == held[k] \union {thread[w].done + 1}
    IN  /\ thread[w].at = "fill" /\ thread[w].done < SizeOfKey[k]
        /\ k \in FileKey \/ copyOf[k] # 0
        /\ \E got \in {held[k], more} :
            /\ copyOf[k] = thread[w].of => got = more
            /\ copyOf[k] = 0 => got = held[k]
            /\ held' = [held EXCEPT ![k] = got]
        /\ Goes(w, [thread[w] EXCEPT !.done = @ + 1])
        /\ UNCHANGED <<copyOf, stores, records, spoiled>>

\* A mutant: a copy that ends before it has copied all.
SomeCopied(w) == thread[w].done > 0
AllCopied(w) == thread[w].done = SizeOfKey[thread[w].key]

PutMeasures(w) ==
    LET k == thread[w].key
    IN  /\ thread[w].at = "fill" /\ AllCopied(w) /\ copyOf[k] # 0
        /\ Goes(w, [thread[w] EXCEPT !.at = "record", !.total = Cardinality(held[k])])
        /\ UNCHANGED <<files, records, spoiled>>

PutRecords(w) ==
    LET k == thread[w].key
    IN  /\ thread[w].at = "record"
        /\ births' = births + 1
        /\ meta' = [meta EXCEPT ![k] = [store |-> thread[w].of, size |-> thread[w].total,
                                        born |-> births + 1]]
        /\ Goes(w, [Resting EXCEPT !.at = "measure", !.mode = "put"])
        /\ UNCHANGED <<files, expired, spoiled>>

\* What metadata claim above what is there.
Overclaims ==
    [k \in CacheKey |-> IF HasMeta(k) /\ meta[k].size > Cardinality(held[k])
                        THEN meta[k].size - Cardinality(held[k]) ELSE 0]

\* _enforce_max_size: the files are measured, the metadata are listed, and the
\* oldest entries are deleted until their recorded sizes make up for the excess.
Measure(w) ==
    /\ thread[w].at = "measure"
    /\ IF TotalSize(held) <= MaxBytes
       THEN Ends(w)
       ELSE /\ thread' = [thread EXCEPT ![w] = [@ EXCEPT !.at = "list", !.total = TotalSize(held),
                                                         !.over = Units(Overclaims, CacheKey)]]
            /\ alone' = IF \A v \in CacheWorker \ {w} : thread[v] = Resting THEN {w} ELSE {}
    /\ UNCHANGED <<files, records, spoiled>>

Entry(k) == [key |-> k, size |-> meta[k].size, born |-> meta[k].born]

ListEntries(w) ==
    /\ thread[w].at = "list"
    /\ Goes(w, [thread[w] EXCEPT !.at = "next", !.left = {Entry(k) : k \in Listed}])
    /\ UNCHANGED <<files, records, spoiled>>

\* A mutant: a tenth is not taken off the limit.
BelowLimit(total) == total <= MaxBytes
Enough(total) == total <= LowBytes

Through(w) == thread[w].left = {} \/ (thread[w].mode = "put" /\ Enough(thread[w].total))

NextEntry(w) ==
    /\ thread[w].at = "next" /\ ~ Through(w)
    /\ \E e \in thread[w].left :
        /\ \A d \in thread[w].left : e.born <= d.born
        /\ Goes(w, Turned([thread[w] EXCEPT !.left = @ \ {e}, !.total = @ - e.size], e.key))
    /\ UNCHANGED <<files, records, spoiled>>

LastEntry(w) ==
    /\ thread[w].at = "next" /\ Through(w)
    /\ Ends(w)
    /\ UNCHANGED <<files, records, spoiled>>

-----------------------------------------------------------------------------
(* Removing.                                                               *)

\* Thread w takes the present path of k away.
Removing(w, k) ==
    thread[w].at \in {"clean", "remove"} /\ thread[w].key = k /\ thread[w].of = copyOf[k]

\* rmtree takes the files of the directory it has opened, in any order.
RemoveFile(w) ==
    LET k == thread[w].key
    IN  /\ k \notin FileKey /\ Removing(w, k)
        /\ \E u \in held[k] : held' = [held EXCEPT ![k] = @ \ {u}]
        /\ UNCHANGED <<copyOf, stores, records, thread, spoiled, alone>>

\* In the end the path goes, by its name, if it is a file or an empty directory.
RemovePath(w) ==
    LET k == thread[w].key
    IN  /\ thread[w].at \in {"clean", "remove"} /\ copyOf[k] # 0
        /\ k \in FileKey \/ held[k] = {}
        /\ held' = [held EXCEPT ![k] = {}]
        /\ copyOf' = [copyOf EXCEPT ![k] = 0]
        /\ spoiled' = spoiled \ {k}
        /\ Goes(w, [thread[w] EXCEPT !.at = IF @ = "clean" THEN "copy" ELSE "unmeta", !.of = 0])
        /\ UNCHANGED <<stores, records>>

Unmeta(w) ==
    LET k == thread[w].key
    IN  /\ thread[w].at = "unmeta"
        /\ meta' = [meta EXCEPT ![k] = NoMeta]
        /\ Goes(w, [thread[w] EXCEPT !.at = "next", !.key = 0])
        /\ UNCHANGED <<files, births, expired, spoiled>>

\* LocalCache.clear takes the metadata as they come, before or after the files.
ClearMetaFirst(w) ==
    LET k == thread[w].key
    IN  /\ thread[w].at = "remove" /\ thread[w].mode = "clear"
        /\ meta' = [meta EXCEPT ![k] = NoMeta]
        /\ UNCHANGED <<files, births, expired, thread, spoiled, alone>>

Removal(mode, keys) ==
    [Resting EXCEPT !.at = "next", !.mode = mode,
                    !.left = {[key |-> k, size |-> 0, born |-> 0] : k \in keys}]

Removes(w, mode, keys) ==
    Begins(w, Removal(mode, keys)) /\ UNCHANGED <<files, records, spoiled>>

DeleteEntry(w, k) == Removes(w, "delete", {k})
ClearCache(w) == Removes(w, "clear", CacheKey)

\* The keys on the list whose text contains the digits of the build's id.
ClearBuild(w, b) == Removes(w, "delete", KeysNaming[b] \intersect Listed)

\* Any call may raise: the disk is full, a source is gone, or another thread has
\* taken what this one was about to open, to copy into or to remove.
Working == {"clean", "copy", "fill", "record", "measure", "remove", "unmeta"}

BreaksOff(w) ==
    LET k == thread[w].key
    IN  /\ thread[w].at \in Working
        /\ spoiled' = IF thread[w].at = "fill" \/ Removing(w, k) THEN spoiled \union {k} ELSE spoiled
        /\ Ends(w)
        /\ UNCHANGED <<files, records>>

-----------------------------------------------------------------------------
(* Reading.                                                                *)

\* What LocalCache.get answers with a path.
Hit(k) == copyOf[k] # 0 /\ HasMeta(k) /\ meta[k].born \notin expired

\* get_cache_entry: a hit reads the metadata, adds to the hit_count and writes
\* them back, over or after what others have done to them meanwhile.
GetReads(w, k) ==
    /\ Hit(k)
    /\ Begins(w, [Resting EXCEPT !.at = "hit", !.mode = "get", !.key = k, !.meta = meta[k]])
    /\ UNCHANGED <<files, records, spoiled>>

GetWrites(w) ==
    /\ thread[w].at = "hit"
    /\ meta' \in {meta, [meta EXCEPT ![thread[w].key] = thread[w].meta]}
    /\ Ends(w)
    /\ UNCHANGED <<files, births, expired, spoiled>>

\* A get that finds the entry expired deletes it.
GetExpired(w, k) ==
    /\ copyOf[k] # 0 /\ HasMeta(k) /\ meta[k].born \in expired
    /\ Removes(w, "delete", {k})

Expires(k) ==
    /\ HasMeta(k)
    /\ expired' = expired \union {meta[k].born}
    /\ UNCHANGED <<files, meta, births, thread, spoiled, alone>>

CacheNext ==
    \/ \E w \in CacheWorker, k \in CacheKey :
        PutBegins(w, k) \/ GetReads(w, k) \/ GetExpired(w, k) \/ DeleteEntry(w, k)
    \/ \E w \in CacheWorker :
        \/ PutMakesPath(w) \/ PutCopies(w) \/ PutMeasures(w) \/ PutRecords(w)
        \/ Measure(w) \/ ListEntries(w) \/ NextEntry(w) \/ LastEntry(w)
        \/ RemoveFile(w) \/ RemovePath(w) \/ Unmeta(w) \/ ClearMetaFirst(w)
        \/ ClearCache(w) \/ BreaksOff(w) \/ GetWrites(w)
        \/ \E b \in CacheBuild : ClearBuild(w, b)
    \/ \E k \in CacheKey : Expires(k)

CacheSpec == CacheInit /\ [][CacheNext]_cacheVars

-----------------------------------------------------------------------------
(* Properties.                                                             *)

Metadata == [store : Nat, size : Nat, born : Nat]
CacheTask ==
    [at : Working \union {"idle", "list", "next", "hit"},
     mode : {"none", "put", "clear", "delete", "get"},
     key : CacheKey \union {0}, of : Nat, done : Nat, meta : Metadata,
     left : SUBSET [key : CacheKey, size : Nat, born : Nat], total : Int, over : Nat]

CacheTypeOK ==
    /\ held \in [CacheKey -> SUBSET Nat]
    /\ \A k \in CacheKey : held[k] \subseteq 1 .. SizeOfKey[k] /\ (copyOf[k] = 0 => held[k] = {})
    /\ copyOf \in [CacheKey -> 0 .. stores]
    /\ meta \in [CacheKey -> Metadata]
    /\ births \in Nat /\ stores \in 0 .. MaxStores
    /\ expired \subseteq Nat
    /\ thread \in [CacheWorker -> CacheTask]
    /\ spoiled \subseteq CacheKey /\ alone \subseteq CacheWorker

\* Thread w fills the present path of k.
Filling(w, k) == thread[w].at = "fill" /\ thread[w].key = k /\ thread[w].of = copyOf[k]

\* A path is served with a part of its files only while somebody is removing it,
\* while it is filled beside the metadata of an earlier one, or after an operation
\* on it has failed.  Between stores that end well, whatever they come between,
\* nothing torn is left behind (put measures and records after it has copied).
TornEntryIsContested ==
    \A k \in CacheKey : Hit(k) /\ held[k] # 1 .. SizeOfKey[k] =>
        \/ k \in spoiled
        \/ \E w \in CacheWorker : Removing(w, k)
        \/ meta[k].store # copyOf[k] /\ \E w \in CacheWorker : Filling(w, k)

\* An eviction that nobody comes between brings the files down to nine tenths of
\* the limit, but for what the metadata claimed and did not have when it measured,
\* or it leaves no metadata at all: files without them are found by no eviction.
EvictionOverrun ==
    \A w \in alone : thread[w].at = "next" /\ Through(w) =>
        TotalSize(held) <= LowBytes + thread[w].over \/ Listed = {}
=============================================================================
