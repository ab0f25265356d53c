# TLA+ models of iotex-core's block lifecycle, staking indexer and buffered store

This directory holds TLA+ specifications of four parts of the code under
`src/`, TLC configurations that model-check them on small instances, and TLAPS
proofs, for every instance, of the block lifecycle's and the staking indexer's
invariants and of the buffered store's type invariant, read-your-writes and
refinement of its abstract snapshot map.

## The system

| Part | Source | What it does |
|---|---|---|
| Block lifecycle | `src/blockchain/blockchain.go` | `MintNewBlock` builds a block on the tip with a producer key. `ValidateBlock` checks a block against the tip. `CommitBlock` stores it through the block DAO and notifies subscribers. `Pause` stops commits. Subscribers are added and removed. `ValidateBlock`, `CommitBlock`, `Pause` and `MintNewBlock` hold `bc.mu` (read or write) for their whole body. `AddSubscriber` and `RemoveSubscriber` take no `bc.mu`; they are one call of the pub-sub manager, which has its own lock. |
| Contract staking indexer | `src/blockindex/contractstaking/indexer.go` | Receives committed blocks through `PutBlock`. It applies their staking events to an in-memory cache and persists the delta together with a height checkpoint. When either step fails it rebuilds the cache from the store. `StartView` hands readers a clone of the cache. |
| Buffered KV store | `src/unnamed/part_002` (package `db`) | Queues writes in a `CachedBatch` with snapshots. `Get` and `Filter` read through it. `Flush` writes the buffer to the underlying store and clears it. |
| Config, producer keys | `src/unnamed/part_000` | `SetProducerPrivKey` may replace the configured key by one from a vault. `ProducerPrivateKeys` decodes the comma-separated keys, checks their signature scheme and selects the range `ProducerPrivKeyRange`. |
| Docker workflow | `src/unnamed/part_001` | CI build file. Not modelled. |

The parts interact as follows:
- The chain's block DAO delivers each committed block to the indexers, including the staking indexer.
- The indexers and the state database keep their data in KV stores such as the buffered one.
- `MintNewBlock` signs with the first key `ProducerPrivateKeys` returns, and fails when there is none.

Each part is modelled separately. Their interfaces are modelled from the spec:
- blockdao `PutBlock`;
- the pub-sub manager;
- `CachedBatch`;
- the indexer cache's `Merge` and `LoadFromDB`;
- the block builder `bbf.Mint`.

Those parts are not under `src/`; the map in `PROJECT.json` marks them `spec_modelled`.

## Modules

- **`Blockchain`** is the block lifecycle.
  - State:
    - `chain`: the archive; its length is the tip height.
    - `paused`.
    - `pending[c]`: the block that caller `c` validated and will commit.
    - `subs`.
    - `received[s]`.
    - `since[s]`: the tip when `s` registered. This is a history variable: the code records no height, and `SubscribersInOrder` uses it to name the blocks committed since registration.
    - `minted[c]`: the block `MintNewBlock` last returned to caller `c`.
  - Actions:
    - `MintNewBlock(c, withKey)`: with no key in its options and none configured (`KeysAvailable`) it errors. `dao.Height`, `tipInfo` and the builder may fail (`MintCanFail`). Otherwise the builder returns a signed block at `NewBlockHeight` (tip+1) whose previous hash is the tip hash.
    - `ValidateBlock(c, b)`: the height, link and signature checks of lines 313–390, under the read lock.
    - `CommitBlock(c)`: the `bc.pause` check, then `commitBlock`. `commitBlock` follows the outcomes of `dao.PutBlock`:
      - `ErrAlreadyExist` is swallowed.
      - A stored block at tip+1 is emitted to subscribers.
      - A wrong height is an error.
      - A storage failure is an error.
    - `Pause`, `AddSubscriber`, `RemoveSubscriber`.
  - Blocks are model values with a height and a previous hash. A block's hash is the block itself.
  - Interleaving comes from several callers. Each caller validates and later commits, and other callers' steps can fall in between.
- **`ContractStakingIndexer`** is the indexer.
  - State:
    - `cache` and `store` are each a checkpoint height plus the sequence of block heights whose events were applied. This is the data abstraction: block h's events are the entry h.
    - `storeOpen`, `ready`, and the chain `tip`.
    - `view` and `viewHeld`: the clone `StartView` last handed out, and whether a reader holds it.
    - `lostReload`, a history variable: a reload's `loadFromDB` failed while the store held an index, and the indexer carried on with the fresh cache. The code discards that error (finding 1).
  - Actions:
    - `PutBlock(h)` has four outcomes: ignore a lower height, reject a higher one, fail in the handler, or `commit`.
    - `commit` has three outcomes: Merge fails, WriteBatch fails, or both succeed. Either failure calls `reloadCache`, which replaces the cache by a fresh one and loads the store into it, or leaves it fresh when the load fails (`ReloadCanFail`).
    - `Start`/`start`: store start fails, load fails, or the indexer turns on.
    - `StartView`: clone the cache if ready; otherwise `start` first, and hand out a clone only if it succeeded.
    - `Stop`: the store stops, the cache is reset and the indexer turns off; or `kvstore.Stop` fails and nothing changes.
    - Environment actions: `NewBlock` (the chain grows) and `Crash` (memory lost).
- **`KVStoreWithBuffer`** is the buffered store over one namespace with integer keys.
  - State: `store`, `buffer` (a sequence of Put/Delete records), `tags` (the buffer length at each snapshot), `flushing`.
  - `Get` reads the newest buffered write for a key.
  - `Filter` is translated loop by loop from lines 196–247. A recursive function walks the buffer; `RemoveKey` removes the first match.
  - `Flush` is split at the point where the code releases nothing but also holds nothing:
    - `FlushWrite` is the store `WriteBatch`. The buffer is written as it is: `Translate` is modelled as the identity, which is what it does with the default flusher that has no `FlushTranslateOption`. A flusher built with a translate that rewrites entries is not covered.
    - `FlushClear` is `Lock` followed by `ClearAndUnlock`.
  - `ConcurrentWriters` says whether a caller may write between the two halves.
- **`KVMap`** is the abstract promise of the buffered store: one map, read-your-writes, nested snapshots, and revert.
  - `KVStoreWithBuffer` instantiates it with `map <- View` (what `Get` returns) and `shots <- Shots` (the view at each snapshot).
- **`ProducerKeys`** is the producer key configuration.
  - State: `cfg` (the three config fields, as strings) and `phase` (`loaded`, then `ready` or `failed`).
  - Strings are sequences of one-character strings. `Split`, `Trim` and `Atoi` (optional sign, then digits) are modelled by what they do. A key's hex text is abstracted to one character; `Scheme` gives its signature scheme.
  - `ProducerPrivateKeys` is an operator translated line by line. `SetProducerPrivKey` is the action: `hex` or empty keeps the key; `hashiCorpVault` loads a key or fails; any other schema is an error. `LoadConfig` is the environment: the node is started with a new configuration file.
  - `Reference` defines the documented result by *formatting*: a well-formed key list is keys joined by `,`; a documented range is `FmtRange(lo, hi)` for bounds in {omitted} ∪ -1..len+1. It does not use `Split`, `Trim` or `Atoi`.
- **`MCBlockchain`**, **`MCKVStoreWithBuffer`** and **`MCProducerKeys`** give the constants their values.
- **`BlockchainProofs`**, **`IndexerProofs`**, **`KVStoreProofs`** and **`KVFilterProofs`** hold the TLAPS proofs. `KVFilterProofs` extends `KVStoreProofs` and holds the proof about `Filter`.

## Runs

| Run | Checks | Result |
|---|---|---|
| `blockchain_interleaving` (`MCBlockchain.cfg`) | `ChainValid`, `SubscribersInOrder` | pass, 52,298 states |
| `indexer_failures` (`MCContractStakingIndexer.cfg`) | `TypeOK`, `CacheMatchesStore`, `IndexExactWhileReloadsKept`, `ViewIsCurrent` | pass, 240,933 states |
| `indexer_reload_fails` (`MCIndexerReloadFails.cfg`) | `IndexedExactlyOnce` | violation (finding) |
| `kvstore_buffer` (`MCKVStoreWithBuffer.cfg`) | `TypeOK`, `FilterMatchesGet`, `KVMapRefinement`, `WritesVisible` | pass, 38,466 states |
| `kvstore_filter_value_cond` (`MCKVFilterValueCond.cfg`) | `FilterMatchesGet` | violation (finding) |
| `kvstore_concurrent_flush` (`MCKVConcurrentFlush.cfg`) | `KVMapRefinement` | violation (finding) |
| `producer_keys` (`MCProducerKeys.cfg`) | `KeysMatchReference` | pass, 2,146 states |

What the properties say:
- **`ChainValid`**: every stored block has the right height, links to the block below it, and passed validation. `CommitBlock` itself re-checks none of this.
- **`SubscribersInOrder`**: each subscriber receives exactly the committed blocks since it registered, once each and in height order.
- **`IndexedExactlyOnce`**: the store at checkpoint h holds exactly the blocks from the deploy height to h. This is the spec's claim, with no exception. The violation run `indexer_reload_fails` checks it.
- The indexer's passing run checks three properties with every failure switch on, failed reloads included. Each holds until a reload loses the index (`ReloadsKept`, that is, `~lostReload`). Without that guard, TLC finds each of them violated within a few steps of a lost reload.
  - **`CacheMatchesStore`**: a ready indexer's cache equals its store.
  - **`IndexExactWhileReloadsKept`**: `IndexedExactlyOnce`.
  - **`ViewIsCurrent`** (an action property): a view `StartView` newly hands out equals the store. This includes a `StartView` that had to start a stopped or crashed indexer first.
- **`KeysMatchReference`**: for every documented configuration that `SetProducerPrivKey` accepted, `ProducerPrivateKeys` equals `Reference`.
- **`FilterMatchesGet`**: over every key range, `Filter` returns each key whose value `Get` reports and `cond` accepts, once, with that value.
- **`KVMapRefinement`** and **`WritesVisible`**, together: every step of the buffered store is the matching step of `KVMap`, and `Flush` is invisible.

Each property has a mutant in `PROJECT.json`: a plausible bug in the mapped code that TLC catches with the run's own configuration.

**Bounds.**
- **Blockchain:**
  - The block set is chosen so every case happens:
    - two competing blocks at heights 1 and 2;
    - a block that links to genesis but claims height 2;
    - an invalid block;
    - a height-0 block that links to a height-1 block;
    - a height-3 block;
    - a height-1 block `y1` that links to `a1`, so it claims its parent's height.
  - Two callers and one subscriber, with storage failures enabled. This is enough for one caller to commit a block that another validated against an older tip, and for duplicate commits. One subscriber suffices because the notification happens inside the commit step and subscribers do not interact. It is added, removed and re-added.
  - No key is configured, so a mint without an option key errors and one with a key succeeds.
- **Indexer:** the chain grows to height 9 with the deploy height at 2. Every failure switch is on, reloads included, so failures, restarts and re-deliveries happen at, below and above the deploy height. After a lost reload the store's log grows without end, because blocks are indexed again. The constraint `StoreLogBound` stops it at `MaxHeight` entries, more than a correct index holds, so it cuts only states reached after the loss.
- **Producer keys:**
  - The key lists are `a`, `a,b`, `b,a`, `a,s` (`s` is an sm2 key, not whitelisted), the empty list, `a,` and `x` (not a key).
  - The schemas are `hex`, empty, `hashiCorpVault` (loading key `b` or `s`, or failing) and `pem`.
  - Every documented range with bounds from -1 to 3 is included. This covers start = end, end = len, and every out-of-bounds case.
- **KV store:**
  - Two keys and two values.
  - At most 3 buffered entries and 2 snapshots.
  - Two batches: one touches two keys, one touches the same key twice.
  - Ranges take every bound in {none} ∪ keys.
- All runs check for deadlock. The indexer can always crash and restart. The chain can always validate, and the store can always flush or reset. A node can always be started with another configuration.

**Fairness.** No run assumes any, and no liveness property is checked. The natural one is that the indexer catches up with the chain after a failed `PutBlock`. That needs the failed height to be delivered again, and nothing under `src/` does so:
- The DAO delivers each block once.
- A retried `CommitBlock` stops at `ErrAlreadyExist` before the indexers.
- Re-delivery happens only when a restarted node syncs its indexers, and that code is outside `src/`.

Strong fairness on a successful re-delivery would therefore assume the very progress the property states.

## Findings

1. **The indexer ignores a failed reload** (`indexer.go:233`, `:239`). `commit` discards `reloadCache`'s error. If `LoadFromDB` fails, the indexer stays ready with an empty cache at height 0, and the next delivery of the deploy-height block is indexed again on top of the stored index. TLC finds this in 7 steps.
2. **Filter tests `cond` before a buffered entry overrides the store** (`part_002:222`). A buffered Delete carries a nil value. With a condition that decodes the value, the Delete is skipped and the deleted key is still returned.
3. **Flush writes the store before it locks the buffer** (`part_002:114–119`). A write queued between `WriteBatch` and `Lock` is cleared without reaching the store. It only matters if callers write while a flush runs. The spec says the buffer's users are serialized, which the passing run assumes.

## Proofs (TLAPS)

**`BlockchainProofs`**, for any sets of blocks, callers and subscribers and any height/link assignment satisfying `BlockAssumption`:
- `TypeCorrect`: `Spec => []TypeOK`.
- `ChainAlwaysValid`: `Spec => []ChainValid`.
- `SubscribersAlwaysInOrder`: `Spec => []SubscribersInOrder`.

`ChainValid` is not inductive by itself. A caller's pending block was checked against an older tip. The proof strengthens the invariant to `IInv == TypeOK /\ ChainValid /\ PendingValid`. `PendingValid` says that a pending block:
- is valid;
- is at most one above the tip;
- links to the block the archive holds one below its own height.

`PendingValid` stays true because commits only append (lemma `HashAtAppend`: appending keeps every hash below the old tip). A committed pending block therefore sits exactly at tip+1 and links correctly. `CommitBlock` does not validate its block, despite the comment at `blockchain.go:483`. The model lets a caller commit only a block it validated (`pending`), which stands for the callers that validate first (`ValidateBlock`, then `CommitBlock`). TLC checked `IInv` as an invariant before it was proved.

`SubscribersInOrder` is inductive together with `TypeOK` alone (lemmas `SubscribersAppend` and `SubscribersStep`). A commit appends block b at height `Len(chain)+1`. Every height a subscriber has already received is at most `Len(chain)`, so appending b keeps the received heights increasing. The received heights still cover every height from `since[s]+1` up to the new tip. `AddSubscriber` sets `since` to the tip and an empty received list, and `RemoveSubscriber` drops the subscriber.

**`IndexerProofs`**, for every deploy height and chain bound and every combination of failures, failed reloads included. No assumption is made on `ReloadCanFail`:
- `IndexerTypeCorrect` (`TypeOK`);
- `CacheAlwaysMatchesStore` (`CacheMatchesStore`);
- `IndexAlwaysExact` (`IndexExactWhileReloadsKept`);
- `ViewAlwaysCurrent` (the action property `ViewIsCurrent`).

The last three are about the behaviour up to the first lost reload, which finding 1 shows breaks all of them. The history variable `lostReload` marks that point. It is set only by `reloadCache`'s failure branch when the store is not empty, and it never goes back to false (lemma `LostSticky`). The inductive invariant is `IInv == TypeInv /\ (ReloadsKept => GoodInv)`. Type correctness holds in every state. `GoodInv` holds while no reload was lost: a failed reload over an empty store leaves a fresh cache equal to the store, so it stays good. `GoodInv` says that the cache, the store and the last view are each `Good`, and that the cache equals the store while ready. An index is `Good` if its checkpoint is a committed height h and its content is `ExpectedLog(h)`: the heights from `FirstIndexed` to h. Strengthening is needed because a failed `WriteBatch` or a `Stop` changes the cache while the store stays put, so the cache must be known correct on its own. The key lemma is `ExpectedLogAppend`: committing the expected height to a correct index gives the correct index at that height, including the case where the cache height is below the deploy height. `ViewAlwaysCurrent` follows from the invariant step by step: a ready indexer's cache is the store, and a successful `start` loads the store.

**`KVStoreProofs`**, for any keys, values, batches, Filter conditions and bounds satisfying `StoreAssumption`:
- `KVTypeCorrect`: `Spec => []TypeOK`.
- `WritesAlwaysVisible`: `Spec => WritesVisible` (an action property), with or without concurrent writers.
- `KVRefinement`: under `~ConcurrentWriters`, `Spec => KVMapRefinement`, that is, `Abstract!Spec` of `KVMap` under the mapping `map <- View`, `shots <- Shots` (finding 3 shows it fails with concurrent writers).

`TypeOK` is not inductive by itself: `RevertSnapshot` truncates the buffer to `tags[sid+1]`, which is a sequence of writes only if the tag is within the buffer. The proof adds `TagsInBuffer`:
- the buffer is at most `MaxEntries` long;
- every tag is at most `Len(buffer)`;
- the tags never decrease, so the snapshots a revert keeps still point into the kept prefix.

The refinement adds `FlushedStore`: while a Flush is under way the store equals the view. Without concurrent writers no caller writes between the two halves of a Flush, and the write stores exactly the view (lemma `ViewOfIdem`). Each action has its own step lemma:
- Put and Delete map to KVMap's Put and Delete (`ViewOfAppend`: appending a write changes the view at its key only).
- WriteBatch maps to KVMap's WriteBatch (`AppliedIsConcat`).
- Snapshot maps to Snapshot, RevertSnapshot to Revert, and ResetSnapshots to Reset.
- A successful Flush write maps to Reset, because it ends the caller's snapshots and leaves the view unchanged.
- A failed Flush write and the Flush clear are stutters.

`ShotsKept` and `PrefixSame` show that queued writes leave every snapshot's view unchanged. TLC checked `TagsInBuffer` and `FlushedStore` as invariants before they were proved.

Two proofs need facts about recursion for every input:
- the newest entry of a key (`LastWrite`, a `CHOOSE` of the maximum index) exists;
- KVMap's `Applied`, a recursive function over the batch, equals the view of the buffer with the batch appended.

The library's induction theorems take an operator parameter (`NEW P(_)`) that the provers cannot instantiate. `WFMin` and `NatLessThanWellFounded` take none, and together they give the least-number principle (`NatMin`). `LastWriteSpec` uses it to find the maximum. `AppliedIsConcat` shows that an explicit function satisfies `Applied`'s recursive equation, so `Applied`'s `CHOOSE` is well defined. A least counterexample then shows the two functions agree at every index.

**`KVFilterProofs`**, for the same constants, where `StoreAssumption` also says the key set is finite (a store holds finitely many keys):
- `FilterAlwaysMatchesGet`: `CondOnKey => (Spec => []FilterMatchesGet)`.

`CondOnKey` says that the caller's `cond` decides on the key alone, whatever the value, nil included. The run's `KeyCond` satisfies it. Without it the property fails: run `kvstore_filter_value_cond` (finding 2) shows that a buffered entry rejected by a value condition leaves the store's older pair in the result. The argument has four parts:
- **The store's result.** `StoreFilter` orders the selected keys by their rank, the number of selected keys at most as large. `RankMono` and `RankBij` show that rank is a bijection onto `1..n` (this needs the key set finite). `StoreFilterIs` then gives the result a closed form, and `StoreFilterProps` shows it holds each selected key once, with its stored value.
- **`RemoveKey`.** `RemoveKeyProps` shows that removing a key keeps the other keys unique and drops exactly that key's pair. It uses the lemma `CutOut` on cutting one element out of a sequence.
- **The scan.** `Filter`'s `LET` recursive function is a `CHOOSE`. `FilterFunExists` builds a solution by least-counterexample induction, and `FilterFunEq` shows that the `CHOOSE` satisfies the equation.
- **Induction over buffer prefixes.** `FilterStepOK` shows that one buffer entry keeps the result equal to the expected pairs of the view after that entry. `ViewOfAppend` says that this view differs from the earlier one at the entry's key only. Under `CondOnKey`, an entry that `cond` rejects means the key was not selected before either. `FilterAllOK` carries this through every prefix, and `FilterMatchesGetHolds` applies it to the whole buffer in any state satisfying `TypeOK`.

The invariant needs no strengthening beyond `TypeOK`, because `Filter` is a function of the current state.

**Only model-checked:**
- `KeysMatchReference`: a proof needs induction over digit strings (`Atoi` against formatting) and over `Split`. It is not written.

## Not modelled, and plan

- **Not modelled:**
  - Read-only queries (bucket queries, headers, contexts) change no state.
  - The blockchain's `Start`/`Stop` only forward to the registered services.
  - Event decoding is abstracted to a height.
  - The rest of the config is defaults and read-only accessors.
- **Next:**
  - A composed chain + indexer model with the node's start-up sync, where a failed height is delivered again, so that the indexer's catching up can be stated as liveness.
  - A proof of `KeysMatchReference` by least-counterexample induction (`NatMin`) over digit strings.
