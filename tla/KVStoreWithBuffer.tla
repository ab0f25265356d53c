-------------------------- MODULE KVStoreWithBuffer --------------------------
(***************************************************************************)
(* kvStoreWithBuffer and its flusher (src/unnamed/part_002, package db):  *)
(* writes are appended to a buffer (batch.CachedBatch) and reach the      *)
(* underlying store only when Flush writes the whole buffer as one batch  *)
(* and then clears it.  Get reads through the buffer, Filter merges the   *)
(* store's range query with the buffer's entries.                         *)
(*                                                                         *)
(* One namespace is modelled; keys are 1..N so that ranges have meaning.  *)
(* CachedBatch (Get, Snapshot, RevertSnapshot, ResetSnapshots, Clear) is  *)
(* not under src/ and is modelled from the spec: a snapshot is the buffer *)
(* length when it was taken, reverting truncates the buffer to it.        *)
(* Callers serialize their use of one buffer (spec §5) unless             *)
(* ConcurrentWriters, when a write may land while a Flush is under way.   *)
(***************************************************************************)
EXTENDS Naturals, Sequences, FiniteSets

CONSTANTS
    Keys,               \* the keys, 1..N
    Vals,               \* the values callers write
    Missing,            \* ErrNotExist
    NilValue,           \* entry.Value() of a Delete entry
    Batches,            \* the batches callers hand to WriteBatch
    CondHolds,          \* the pairs <<k, v>> for which the Filter condition holds
    MaxEntries,         \* bound on the buffer length
    MaxSnapshots,       \* bound on the number of snapshots
    StoreCanFail,       \* the store's WriteBatch may fail
    ConcurrentWriters   \* a write may run while Flush is under way

Writes == [type : {"Put"}, key : Keys, value : Vals]
            \cup [type : {"Delete"}, key : Keys]

ASSUME StoreAssumption ==
    /\ Keys \subseteq Nat
    /\ IsFiniteSet(Keys)
    /\ Missing \notin Vals
    /\ NilValue \notin Vals
    /\ Batches \subseteq Seq(Writes)
    /\ CondHolds \subseteq Keys \X (Vals \cup {NilValue})
    /\ MaxEntries \in Nat
    /\ MaxSnapshots \in Nat
    /\ StoreCanFail \in BOOLEAN
    /\ ConcurrentWriters \in BOOLEAN

VARIABLES
    store,      \* the underlying KVStore: store[k], Missing if absent
    buffer,     \* the CachedBatch write queue, oldest first
    tags,       \* tags[i + 1]: the buffer length at snapshot i
    flushing    \* Flush has written the batch and not yet cleared the buffer

vars == <<store, buffer, tags, flushing>>

-----------------------------------------------------------------------------
(* Mutant: a buffer read that answers from the oldest entry for k.      *)
LastWriteOldest(buf, k) ==
    LET idx == {i \in 1..Len(buf) : buf[i].key = k} IN
    IF idx = {} THEN 0 ELSE CHOOSE i \in idx : \A j \in idx : i <= j

(* The index of the newest entry for k in buffer buf, 0 if none: the     *)
(* entry CachedBatch.Get answers from.                                    *)
LastWrite(buf, k) ==
    LET idx == {i \in 1..Len(buf) : buf[i].key = k} IN
    IF idx = {} THEN 0 ELSE CHOOSE i \in idx : \A j \in idx : j <= i

(* kvb.Get over buffer buf: the newest buffered write shadows the store; *)
(* a buffered Delete (ErrAlreadyDeleted) reads as ErrNotExist; no entry  *)
(* reads the store.                                                       *)
GetIn(buf, k) ==
    LET i == LastWrite(buf, k) IN
    IF i = 0 THEN store[k]
    ELSE IF buf[i].type = "Put" THEN buf[i].value ELSE Missing

Get(k) == GetIn(buffer, k)

(* What Get returns for every key, and what it returned when the buffer  *)
(* was its first n entries.                                               *)
View == [k \in Keys |-> Get(k)]

ViewAt(n) == [k \in Keys |-> GetIn(SubSeq(buffer, 1, n), k)]

(* entry.Value(): nil for a Delete. *)
EntryValue(e) == IF e.type = "Put" THEN e.value ELSE NilValue

Cond(k, v) == <<k, v>> \in CondHolds

(* A key inside [minKey, maxKey]; 0 stands for an empty bound. *)
InRange(k, mn, mx) == (mn = 0 \/ mn <= k) /\ (mx = 0 \/ k <= mx)

(* Mutant: the buffer scan of Filter without the checkMin test.           *)
BufferInRangeNoMin(k, mn, mx) == mx = 0 \/ k <= mx

(* The checkMin and checkMax tests of Filter's buffer scan. *)
BufferInRange(k, mn, mx) ==
    /\ ~(mn # 0 /\ k < mn)
    /\ ~(mx # 0 /\ k > mx)

(* kvb.store.Filter: the store's pairs in range satisfying cond, in key  *)
(* order.                                                                 *)
StoreFilter(mn, mx) ==
    LET hits == {k \in Keys : store[k] # Missing /\ InRange(k, mn, mx)
                                /\ Cond(k, store[k])}
        f[n \in 0..Cardinality(hits)] ==
          IF n = 0 THEN << >>
          ELSE Append(f[n - 1],
                 LET k == CHOOSE x \in hits :
                            Cardinality({y \in hits : y <= x}) = n
                 IN <<k, store[k]>>)
    IN f[Cardinality(hits)]

(* Remove the first pair with key k, keeping keys and values together.   *)
RemoveKey(fs, k) ==
    LET idx == {i \in 1..Len(fs) : fs[i][1] = k} IN
    IF idx = {} THEN fs
    ELSE LET i == CHOOSE x \in idx : \A y \in idx : x <= y IN
         SubSeq(fs, 1, i - 1) \o SubSeq(fs, i + 1, Len(fs))

(* kvb.Filter: the store's result, then each buffer entry in order that  *)
(* is in range and satisfies cond: a Put replaces the key's pair, a      *)
(* Delete removes it.                                                     *)
Filter(mn, mx) ==
    LET f[i \in 0..Len(buffer)] ==
          IF i = 0 THEN StoreFilter(mn, mx)
          ELSE LET e == buffer[i] IN
               IF BufferInRange(e.key, mn, mx) /\ Cond(e.key, EntryValue(e))
               THEN IF e.type = "Put"
                    THEN Append(RemoveKey(f[i - 1], e.key), <<e.key, e.value>>)
                    ELSE RemoveKey(f[i - 1], e.key)
               ELSE f[i - 1]
    IN f[Len(buffer)]

-----------------------------------------------------------------------------
Init ==
    /\ store = [k \in Keys |-> Missing]
    /\ buffer = << >>
    /\ tags = << >>
    /\ flushing = FALSE

(* Callers use the buffer only while no Flush is under way, unless       *)
(* ConcurrentWriters.                                                     *)
MayWrite == ~flushing \/ ConcurrentWriters

(* Put, MustPut, Delete, MustDelete: one entry appended to the buffer;   *)
(* the store is not touched.                                              *)
Put(k, v) ==
    /\ MayWrite
    /\ Len(buffer) < MaxEntries
    /\ buffer' = Append(buffer, [type |-> "Put", key |-> k, value |-> v])
    /\ UNCHANGED <<store, tags, flushing>>

Delete(k) ==
    /\ MayWrite
    /\ Len(buffer) < MaxEntries
    /\ buffer' = Append(buffer, [type |-> "Delete", key |-> k])
    /\ UNCHANGED <<store, tags, flushing>>

(* WriteBatch: buffer.Append(b), the batch's writes queued in order. *)
WriteBatch(b) ==
    /\ MayWrite
    /\ Len(buffer) + Len(b) <= MaxEntries
    /\ buffer' = buffer \o b
    /\ UNCHANGED <<store, tags, flushing>>

Snapshot ==
    /\ MayWrite
    /\ Len(tags) < MaxSnapshots
    /\ tags' = Append(tags, Len(buffer))
    /\ UNCHANGED <<store, buffer, flushing>>

(* Mutant: a revert that also forgets the snapshot it reverted to.       *)
RevertSnapshotDropOwn(sid) ==
    /\ MayWrite
    /\ sid \in 0..Len(tags) - 1
    /\ buffer' = SubSeq(buffer, 1, tags[sid + 1])
    /\ tags' = SubSeq(tags, 1, sid)
    /\ UNCHANGED <<store, flushing>>

RevertSnapshot(sid) ==
    /\ MayWrite
    /\ sid \in 0..Len(tags) - 1
    /\ buffer' = SubSeq(buffer, 1, tags[sid + 1])
    /\ tags' = SubSeq(tags, 1, sid + 1)
    /\ UNCHANGED <<store, flushing>>

ResetSnapshots ==
    /\ MayWrite
    /\ tags' = << >>
    /\ UNCHANGED <<store, buffer, flushing>>

(* Mutant: a Translate that writes a buffered Delete as a Put of its nil *)
(* value instead of a delete.                                             *)
FlushWriteNilDeletes ==
    /\ ~flushing
    /\ \/ /\ store' = [k \in Keys |->
                       LET i == LastWrite(buffer, k) IN
                       IF i = 0 THEN store[k] ELSE EntryValue(buffer[i])]
          /\ flushing' = TRUE
       \/ /\ StoreCanFail
          /\ UNCHANGED <<store, flushing>>
    /\ UNCHANGED <<buffer, tags>>

(* Flush, first half: store.WriteBatch(buffer.Translate(...)) writes the *)
(* whole buffer atomically, or fails and Flush returns the error with    *)
(* the buffer intact.                                                     *)
FlushWrite ==
    /\ ~flushing
    /\ \/ /\ store' = View
          /\ flushing' = TRUE
       \/ /\ StoreCanFail
          /\ UNCHANGED <<store, flushing>>
    /\ UNCHANGED <<buffer, tags>>

(* Flush, second half: buffer.Lock(); buffer.ClearAndUnlock(). *)
FlushClear ==
    /\ flushing
    /\ buffer' = << >>
    /\ tags' = << >>
    /\ flushing' = FALSE
    /\ UNCHANGED store

Next ==
    \/ \E k \in Keys : Delete(k) \/ \E v \in Vals : Put(k, v)
    \/ \E b \in Batches : WriteBatch(b)
    \/ Snapshot
    \/ \E sid \in 0..Len(tags) - 1 : RevertSnapshot(sid)
    \/ ResetSnapshots
    \/ FlushWrite
    \/ FlushClear

Spec == Init /\ [][Next]_vars

-----------------------------------------------------------------------------
TypeOK ==
    /\ store \in [Keys -> Vals \cup {Missing}]
    /\ buffer \in Seq(Writes)
    /\ tags \in Seq(0..MaxEntries)
    /\ flushing \in BOOLEAN

(* Filter agrees with Get: over every key range it returns, once each,   *)
(* exactly the keys in range whose current value (buffer over store) is  *)
(* present and satisfies cond, each with that value.  Buffered Puts      *)
(* override the store's pair and buffered Deletes remove it.             *)
FilterMatchesGet ==
    \A mn, mx \in {0} \cup Keys :
        LET fs == Filter(mn, mx) IN
        /\ \A i, j \in 1..Len(fs) : fs[i][1] = fs[j][1] => i = j
        /\ {fs[i] : i \in 1..Len(fs)} =
             {<<k, Get(k)>> : k \in {x \in Keys : /\ InRange(x, mn, mx)
                                                /\ Get(x) # Missing
                                                /\ Cond(x, Get(x))}}

(* The snapshots as the caller sees them: none while a Flush is under    *)
(* way (its write has reset them), else the view at each tag.            *)
Shots == IF flushing THEN << >> ELSE [i \in 1..Len(tags) |-> ViewAt(tags[i])]

Abstract == INSTANCE KVMap WITH map <- View, shots <- Shots

(* The buffered store implements the plain snapshot map of KVMap: Get    *)
(* reflects every write at once (read-your-writes), a revert restores    *)
(* the snapshot's view, and Flush changes nothing a caller can read.     *)
KVMapRefinement == Abstract!Spec

(* Read-your-writes: a step that queues writes in the buffer (Put,       *)
(* Delete, WriteBatch) changes what Get returns exactly as applying       *)
(* those writes in order to the map would, even when the buffer already  *)
(* holds older writes of the same keys or a flushed store lies beneath.  *)
(* With KVMapRefinement this maps every write step to the matching       *)
(* abstract write instead of a stutter.                                   *)
WritesVisible ==
    [][Len(buffer') > Len(buffer) =>
         View' = Abstract!Applied(View,
                    SubSeq(buffer', Len(buffer) + 1, Len(buffer')))]_vars

=============================================================================
