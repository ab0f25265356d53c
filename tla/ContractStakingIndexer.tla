------------------------ MODULE ContractStakingIndexer ------------------------
(***************************************************************************)
(* The incremental indexer of src/blockindex/contractstaking/indexer.go:  *)
(* an in-memory cache built block by block, committed together with a     *)
(* persisted checkpoint, reloaded from the store when a commit fails.     *)
(*                                                                         *)
(* Data is abstracted to what the properties tell apart: the effect of    *)
(* block h's contract events on the index is the entry h, so the content  *)
(* of the cache and of the store is the sequence of heights whose events *)
(* were applied, in order.  A correct index at checkpoint h holds exactly *)
(* DeployHeight, ..., h.  The cache methods (Merge, LoadFromDB) and the    *)
(* KV store are not under src/ and are modelled from the spec: each may   *)
(* fail, a failed load leaves the fresh cache, a stopped store refuses    *)
(* writes and reads.                                                      *)
(***************************************************************************)
EXTENDS Naturals, Sequences

CONSTANTS
    DeployHeight,    \* config.ContractDeployHeight
    MaxHeight,       \* the chain tip the environment grows to
    HandleCanFail,   \* handler.HandleEvent may return an error
    MergeCanFail,    \* cache.Merge may return an error
    WriteCanFail,    \* kvstore.WriteBatch may return an error
    StartCanFail,    \* kvstore.Start or the loadFromDB of start may fail
    StopCanFail,     \* kvstore.Stop may fail
    ReloadCanFail    \* the loadFromDB of reloadCache may fail

ASSUME IndexerAssumption ==
    /\ DeployHeight \in Nat
    /\ MaxHeight \in Nat
    /\ HandleCanFail \in BOOLEAN
    /\ MergeCanFail \in BOOLEAN
    /\ WriteCanFail \in BOOLEAN
    /\ StartCanFail \in BOOLEAN
    /\ StopCanFail \in BOOLEAN
    /\ ReloadCanFail \in BOOLEAN

VARIABLES
    tip,        \* height of the last block the chain has committed
    cache,      \* s.cache: [height, log] as the in-memory index holds it
    store,      \* the KV store: [height, log], height = _stakingHeightKey
    storeOpen,  \* the KV store has been started and not stopped
    ready,      \* lifecycle.Readiness
    view,       \* the clone of the cache StartView last returned
    viewHeld,   \* a reader holds that view
    lostReload  \* history: a reload's load failed while the store held an
                \* index, and commit carried on with the fresh cache

vars == <<tip, cache, store, storeOpen, ready, view, viewHeld, lostReload>>

(* An index: a checkpoint height and the heights of the blocks applied. *)
Index == [height : Nat, log : Seq(DeployHeight..MaxHeight)]

(* newContractStakingCache: empty, at height 0. *)
Fresh == [height |-> 0, log |-> << >>]

(* The first height PutBlock can expect: cache height + 1 >= 1, floored  *)
(* at the deploy height.                                                  *)
FirstIndexed == IF DeployHeight > 1 THEN DeployHeight ELSE 1

(* The content of a correct index whose checkpoint is h: FirstIndexed..h. *)
ExpectedLog(h) == [i \in 1..(h - FirstIndexed + 1) |-> FirstIndexed + i - 1]

-----------------------------------------------------------------------------
Init ==
    /\ tip = 0
    /\ cache = Fresh
    /\ store = Fresh
    /\ storeOpen = FALSE
    /\ ready = FALSE
    /\ view = Fresh
    /\ viewHeld = FALSE
    /\ lostReload = FALSE

(* The chain commits its next block (the environment of the indexer). *)
NewBlock ==
    /\ tip < MaxHeight
    /\ tip' = tip + 1
    /\ UNCHANGED <<cache, store, storeOpen, ready, view, viewHeld, lostReload>>

(* Mutant: reloadCache that keeps the cache c it was called on.          *)
reloadCacheKeep(c) == cache' = c /\ UNCHANGED lostReload

(* reloadCache, called when the cache is c: c is replaced by a fresh      *)
(* cache, then loadFromDB, which reads the store's content or fails and   *)
(* leaves the fresh cache; its error is ignored.                          *)
reloadCache(c) ==
    \/ /\ cache' = store
       /\ UNCHANGED lostReload
    \/ /\ ReloadCanFail
       /\ cache' = Fresh
       /\ lostReload' = (lostReload \/ store # Fresh)

(* commit(handler, h): Merge the delta into the cache, then write the     *)
(* batch with the new checkpoint; either failure reloads the cache.       *)
commit(h) ==
    LET merged == [height |-> h, log |-> Append(cache.log, h)] IN
    \/ /\ MergeCanFail
       /\ reloadCache(cache)
       /\ UNCHANGED store
    \/ /\ WriteCanFail
       /\ reloadCache(merged)
       /\ UNCHANGED store
    \/ /\ cache' = merged
       /\ store' = [height |-> h, log |-> Append(store.log, h)]
       /\ UNCHANGED lostReload

(* Mutant: the expected height without the ContractDeployHeight floor.   *)
ExpectHeightNoFloor == cache.height + 1

(* expectHeight in PutBlock: cache height + 1, floored at the deploy     *)
(* height.                                                               *)
ExpectHeight ==
    IF cache.height + 1 < DeployHeight THEN DeployHeight ELSE cache.height + 1

(* PutBlock(h): a lower height returns nil, a higher one an error; at    *)
(* the expected height the events are handled (which may fail, leaving   *)
(* the cache alone) and the result committed.  The block DAO delivers    *)
(* blocks only to a started indexer (the code itself does not check      *)
(* readiness), any committed height: re-deliveries and gaps both occur.  *)
(* While ready the store is open, so WriteBatch fails only by error.     *)
PutBlock(h) ==
    /\ ready
    /\ \/ /\ h < ExpectHeight
          /\ UNCHANGED <<cache, store, lostReload>>
       \/ /\ h > ExpectHeight
          /\ UNCHANGED <<cache, store, lostReload>>
       \/ /\ h = ExpectHeight
          /\ HandleCanFail
          /\ UNCHANGED <<cache, store, lostReload>>
       \/ /\ h = ExpectHeight
          /\ commit(h)
    /\ UNCHANGED <<tip, storeOpen, ready, view, viewHeld>>

(* start: kvstore.Start, then loadFromDB into the current cache, then    *)
(* TurnOn; an error at either step returns before TurnOn.                *)
start ==
    \/ /\ StartCanFail
       /\ UNCHANGED <<cache, storeOpen, ready>>
    \/ /\ storeOpen' = TRUE
       /\ StartCanFail
       /\ UNCHANGED <<cache, ready>>
    \/ /\ storeOpen' = TRUE
       /\ cache' = store
       /\ ready' = TRUE

(* Start: nothing to do when ready, start otherwise. *)
Start ==
    /\ ~ready
    /\ start
    /\ UNCHANGED <<tip, store, view, viewHeld, lostReload>>

(* Mutant: StartView that clones the cache without starting the indexer. *)
StartViewNoStart ==
    /\ view' = cache
    /\ viewHeld' = TRUE
    /\ UNCHANGED <<tip, cache, store, storeOpen, ready, lostReload>>

(* StartView: start first when not ready (its error is returned and no  *)
(* view is handed out), then a clone of the cache pinned at the cache's  *)
(* height; later commits do not reach the clone.                          *)
StartView ==
    /\ \/ /\ ready
          /\ view' = cache
          /\ viewHeld' = TRUE
          /\ UNCHANGED <<cache, storeOpen, ready>>
       \/ /\ ~ready
          /\ start
          /\ IF ready' THEN view' = cache' /\ viewHeld' = TRUE
                       ELSE UNCHANGED <<view, viewHeld>>
    /\ UNCHANGED <<tip, store, lostReload>>

(* Stop: kvstore.Stop, then a fresh cache and TurnOff; if the store     *)
(* fails to stop, Stop returns its error and changes nothing.             *)
Stop ==
    /\ \/ /\ storeOpen' = FALSE
          /\ cache' = Fresh
          /\ ready' = FALSE
       \/ /\ StopCanFail
          /\ UNCHANGED <<cache, storeOpen, ready>>
    /\ UNCHANGED <<tip, store, view, viewHeld, lostReload>>

(* The process dies: everything in memory is lost, views included; the  *)
(* store survives.                                                       *)
Crash ==
    /\ ready \/ storeOpen
    /\ cache' = Fresh
    /\ ready' = FALSE
    /\ storeOpen' = FALSE
    /\ viewHeld' = FALSE
    /\ UNCHANGED <<tip, store, view, lostReload>>

Next ==
    \/ NewBlock
    \/ \E h \in 1..tip : PutBlock(h)
    \/ Start
    \/ StartView
    \/ Stop
    \/ Crash

Spec == Init /\ [][Next]_vars

(* Bound for TLC: once a reload has lost the index, re-indexed blocks    *)
(* make the store's log grow without end; runs stop it at MaxHeight       *)
(* entries, more than a correct index at MaxHeight holds.                 *)
StoreLogBound == Len(store.log) <= MaxHeight

-----------------------------------------------------------------------------
TypeOK ==
    /\ tip \in 0..MaxHeight
    /\ cache \in Index
    /\ store \in Index
    /\ storeOpen \in BOOLEAN
    /\ ready \in BOOLEAN
    /\ view \in Index
    /\ viewHeld \in BOOLEAN
    /\ lostReload \in BOOLEAN

(* Until a reload loses the index (the discarded reloadCache error of    *)
(* commit, which run indexer_reload_fails shows to break every property   *)
(* below), the indexer behaves as the spec says.                          *)
ReloadsKept == ~lostReload

(* No partially merged state is reachable: whenever the indexer is ready *)
(* to serve queries its cache is exactly the persisted index, after a    *)
(* successful commit and after a failed Merge or WriteBatch alike, as    *)
(* long as no reload has lost the index.                                 *)
CacheMatchesStore ==
    ReloadsKept /\ ready => cache = store

(* The store holds each block's events exactly once and in order: at     *)
(* checkpoint h it is the index of DeployHeight..h, through failed        *)
(* commits, reloads, restarts and re-delivered blocks (the spec's claim,  *)
(* with no exception).                                                    *)
IndexedExactlyOnce ==
    store.log = ExpectedLog(store.height)

(* IndexedExactlyOnce as long as no reload has lost the index.           *)
IndexExactWhileReloadsKept ==
    ReloadsKept => IndexedExactlyOnce

(* StartView hands out the durable index: a view a reader newly receives  *)
(* equals the store's checkpoint and content at that moment, also when   *)
(* StartView had to start a stopped or crashed indexer first (a clone of  *)
(* the fresh cache of a stopped indexer would present the chain as if    *)
(* nothing had been indexed), as long as no reload has lost the index.   *)
ViewIsCurrent ==
    [][ReloadsKept /\ viewHeld' /\ <<view, viewHeld>>' # <<view, viewHeld>>
         => view' = store]_vars

=============================================================================
