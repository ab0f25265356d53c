--------------------------- MODULE IndexerProofs ---------------------------
(***************************************************************************)
(* Proofs about the contract staking indexer, for every deploy height,    *)
(* chain length and combination of failures, failed reloads included.     *)
(* commit discards reloadCache's error, so a failed reload can leave a    *)
(* ready indexer with the fresh cache while the store holds an index (run *)
(* indexer_reload_fails); the properties are proved up to that moment,    *)
(* which the history variable lostReload marks, and the type invariant in *)
(* every state.                                                           *)
(***************************************************************************)
EXTENDS ContractStakingIndexer, SequenceTheorems, TLAPS

(* An index x that is correct: its content is the blocks FirstIndexed..h  *)
(* for its checkpoint h, and h is a block the chain has committed.        *)
Good(x) ==
    /\ x.height \in 0..tip
    /\ x = [height |-> x.height, log |-> ExpectedLog(x.height)]

(* An index of heights in range whose checkpoint the chain has reached:   *)
(* what every index is, a lost reload included.                           *)
Typed(x) == x \in Index /\ x.height \in 0..tip

TypeInv ==
    /\ tip \in 0..MaxHeight
    /\ storeOpen \in BOOLEAN
    /\ ready \in BOOLEAN
    /\ viewHeld \in BOOLEAN
    /\ lostReload \in BOOLEAN
    /\ Typed(cache)
    /\ Typed(store)
    /\ Typed(view)

(* The cache, the store and the last view are correct indexes, and the   *)
(* cache equals the store while ready.                                    *)
GoodInv ==
    /\ Good(cache)
    /\ Good(store)
    /\ Good(view)
    /\ ready => cache = store

(* The inductive invariant: always typed, and correct until a reload has  *)
(* lost the index.                                                        *)
IInv == TypeInv /\ (ReloadsKept => GoodInv)

-----------------------------------------------------------------------------
(* FirstIndexed is a positive height at or above the deploy height.       *)
LEMMA FirstIndexedFacts ==
    FirstIndexed \in Nat /\ FirstIndexed >= 1 /\ FirstIndexed >= DeployHeight
  BY IndexerAssumption DEF FirstIndexed

(* Committing the expected block to a correct index at checkpoint c gives *)
(* the correct index at the expected height: Merge and the store's batch  *)
(* both append exactly the one missing block.                             *)
LEMMA ExpectedLogAppend ==
    ASSUME NEW c \in Nat,
           NEW h \in Nat,
           h = IF c + 1 < DeployHeight THEN DeployHeight ELSE c + 1
    PROVE  Append(ExpectedLog(c), h) = ExpectedLog(h)
<1>1. CASE c + 1 < DeployHeight
  <2>1. ExpectedLog(c) = << >> /\ h = FirstIndexed
    BY <1>1, IndexerAssumption DEF ExpectedLog, FirstIndexed
  <2>2. ExpectedLog(h) = << FirstIndexed >>
    BY <2>1, FirstIndexedFacts DEF ExpectedLog
  <2>3. QED
    BY <2>1, <2>2
<1>2. CASE ~(c + 1 < DeployHeight)
  <2>1. h = c + 1 /\ c + 1 >= FirstIndexed
    BY <1>2, IndexerAssumption DEF FirstIndexed
  <2> DEFINE n == c - FirstIndexed + 1
  <2>2. n \in Nat /\ h - FirstIndexed + 1 = n + 1
    BY <2>1, FirstIndexedFacts
  <2>3. ExpectedLog(c) = [i \in 1..n |-> FirstIndexed + i - 1]
    BY DEF ExpectedLog
  <2>4. ExpectedLog(h) = [i \in 1..n + 1 |-> FirstIndexed + i - 1]
    BY <2>2 DEF ExpectedLog
  <2>5. FirstIndexed + (n + 1) - 1 = h
    BY <2>1, FirstIndexedFacts
  <2>6. QED
    BY <2>2, <2>3, <2>4, <2>5, FirstIndexedFacts
<1>3. QED
  BY <1>1, <1>2

(* The fresh cache is the correct index at checkpoint 0. *)
LEMMA FreshGood == tip \in Nat => Good(Fresh)
  BY FirstIndexedFacts DEF Good, Fresh, ExpectedLog

-----------------------------------------------------------------------------
(* The fresh cache is a typed index. *)
LEMMA FreshTyped == tip \in Nat => Typed(Fresh)
  BY DEF Typed, Fresh, Index

(* The initial state satisfies the invariant. *)
LEMMA InitIInv == Init => IInv
<1> SUFFICES ASSUME Init PROVE IInv
  OBVIOUS
<1>1. Good(cache) /\ Good(store) /\ Good(view)
  BY FreshGood DEF Init
<1>2. tip \in 0..MaxHeight
  BY IndexerAssumption DEF Init
<1>3. Typed(cache) /\ Typed(store) /\ Typed(view)
  BY <1>2, FreshTyped DEF Init
<1>4. QED
  BY <1>1, <1>2, <1>3 DEF Init, IInv, TypeInv, GoodInv

(* The block the indexer expects is a height in range: at or above the    *)
(* deploy height, and at most the delivered height's bound.              *)
LEMMA ExpectHeightRange ==
    ASSUME TypeInv, NEW h \in 1..tip, h = ExpectHeight
    PROVE  h \in DeployHeight..MaxHeight
<1>1. cache.height \in Nat
  BY DEF TypeInv, Typed
<1>2. h >= DeployHeight
  BY <1>1, IndexerAssumption DEF ExpectHeight
<1>3. QED
  BY <1>2, IndexerAssumption DEF TypeInv

(* Every step keeps the indexes typed, whatever fails. *)
LEMMA NextTypeInv ==
    ASSUME TypeInv, [Next]_vars
    PROVE  TypeInv'
<1>0. tip \in Nat
  BY IndexerAssumption DEF TypeInv
<1>1. CASE NewBlock
  BY <1>1, IndexerAssumption DEF NewBlock, TypeInv, Typed
<1>2. ASSUME NEW h \in 1..tip, PutBlock(h) PROVE TypeInv'
  <2>1. CASE UNCHANGED <<cache, store, lostReload>>
    BY <1>2, <2>1 DEF PutBlock, TypeInv, Typed
  <2>2. CASE h = ExpectHeight /\ commit(h)
    <3>1. h \in DeployHeight..MaxHeight
      BY <2>2, ExpectHeightRange
    <3>2. cache.log \in Seq(DeployHeight..MaxHeight)
          /\ store.log \in Seq(DeployHeight..MaxHeight)
      BY DEF TypeInv, Typed, Index
    <3>3. [height |-> h, log |-> Append(cache.log, h)] \in Index
          /\ [height |-> h, log |-> Append(store.log, h)] \in Index
      BY <3>1, <3>2 DEF Index
    <3>4. lostReload' \in BOOLEAN
      BY <2>2 DEF commit, reloadCache, TypeInv
    <3>5. Typed(cache)' /\ Typed(store)'
      <4>1. tip' = tip /\ h \in 0..tip
        BY <1>2 DEF PutBlock
      <4>2. Fresh \in Index /\ Fresh.height \in 0..tip'
        BY <1>0, <4>1 DEF Fresh, Index
      <4>3. store \in Index /\ store.height \in 0..tip'
        BY <4>1 DEF TypeInv, Typed
      <4>4. /\ [height |-> h, log |-> Append(cache.log, h)].height \in 0..tip'
            /\ [height |-> h, log |-> Append(store.log, h)].height \in 0..tip'
        BY <4>1
      <4>5. QED
        BY <2>2, <3>3, <4>1, <4>2, <4>3, <4>4 DEF commit, reloadCache, Typed
    <3>6. QED
      BY <1>2, <3>4, <3>5 DEF PutBlock, TypeInv, Typed
  <2>3. QED
    BY <1>2, <2>1, <2>2 DEF PutBlock
<1>3. CASE Start
  BY <1>3 DEF Start, start, TypeInv, Typed
<1>4. CASE StartView
  BY <1>4 DEF StartView, start, TypeInv, Typed
<1>5. CASE Stop
  BY <1>5, <1>0, FreshTyped DEF Stop, TypeInv, Typed
<1>6. CASE Crash
  BY <1>6, <1>0, FreshTyped DEF Crash, TypeInv, Typed
<1>7. CASE UNCHANGED vars
  BY <1>7 DEF vars, TypeInv, Typed
<1>8. QED
  BY <1>1, <1>2, <1>3, <1>4, <1>5, <1>6, <1>7 DEF Next

(* A lost reload stays lost: the history variable only ever turns on. *)
LEMMA LostSticky ==
    ASSUME [Next]_vars, ~lostReload'
    PROVE  ~lostReload
BY DEF Next, vars, NewBlock, PutBlock, commit, reloadCache, Start, StartView, Stop, Crash

(* Every step keeps the indexes correct unless it is the one that loses  *)
(* the index: a reload that fails while the store is still empty leaves   *)
(* the fresh cache, which is then the store.                              *)
LEMMA NextGoodInv ==
    ASSUME TypeInv, GoodInv, [Next]_vars, ~lostReload'
    PROVE  GoodInv'
<1>0. tip \in Nat
  BY IndexerAssumption DEF TypeInv
<1>1. CASE NewBlock
  <2>1. tip' \in 0..MaxHeight /\ tip <= tip'
    BY <1>1, <1>0, IndexerAssumption DEF NewBlock, TypeInv
  <2>2. Good(cache)' /\ Good(store)' /\ Good(view)'
    BY <1>1, <1>0, <2>1 DEF NewBlock, GoodInv, Good
  <2>3. QED
    BY <1>1, <2>1, <2>2 DEF NewBlock, GoodInv
<1>2. ASSUME NEW h \in 1..tip, PutBlock(h) PROVE GoodInv'
  <2>1. ready /\ cache = store
    BY <1>2 DEF PutBlock, GoodInv
  <2>2. CASE UNCHANGED <<cache, store>>
    BY <1>2, <2>2 DEF PutBlock, GoodInv, Good
  <2>3. CASE h = ExpectHeight /\ cache' = store /\ UNCHANGED store
    BY <1>2, <2>1, <2>3 DEF PutBlock, GoodInv, Good
  <2>4. CASE /\ h = ExpectHeight
             /\ cache' = [height |-> h, log |-> Append(cache.log, h)]
             /\ store' = [height |-> h, log |-> Append(store.log, h)]
    <3>1. cache.height \in Nat /\ cache.log = ExpectedLog(cache.height)
      BY DEF GoodInv, Good
    <3>2. Append(cache.log, h) = ExpectedLog(h)
      <4>1. h \in Nat /\ h = IF cache.height + 1 < DeployHeight
                                THEN DeployHeight ELSE cache.height + 1
        BY <2>4 DEF ExpectHeight
      <4>2. QED
        BY <3>1, <4>1, ExpectedLogAppend
    <3>3. Good(cache)' /\ Good(store)' /\ Good(view)'
      BY <1>2, <2>1, <2>4, <3>2 DEF PutBlock, GoodInv, Good
    <3>4. QED
      BY <1>2, <2>1, <2>4, <3>3 DEF PutBlock, GoodInv
  <2>5. CASE h = ExpectHeight /\ cache' = Fresh /\ ~(lostReload \/ store # Fresh)
             /\ UNCHANGED store
    BY <1>2, <2>1, <2>5 DEF PutBlock, GoodInv, Good
  <2>6. QED
    BY <1>2, <2>2, <2>3, <2>4, <2>5
    DEF PutBlock, commit, reloadCache
<1>3. CASE Start
  <2>1. CASE UNCHANGED <<cache, ready>> /\ storeOpen' \in BOOLEAN
    BY <1>3, <2>1 DEF Start, GoodInv, Good
  <2>2. CASE storeOpen' = TRUE /\ cache' = store /\ ready' = TRUE
    BY <1>3, <2>2 DEF Start, GoodInv, Good
  <2>3. QED
    BY <1>3, <2>1, <2>2 DEF Start, start, TypeInv
<1>8. CASE StartView
  <2>1. CASE ready /\ view' = cache /\ viewHeld' = TRUE
             /\ UNCHANGED <<cache, storeOpen, ready>>
    BY <1>8, <2>1 DEF StartView, GoodInv, Good
  <2>2. CASE ~ready /\ start
    <3>1. UNCHANGED <<tip, store>>
      BY <1>8 DEF StartView
    <3>2. Good(view)'
      BY <1>8, <2>2, <3>1 DEF StartView, start, GoodInv, Good
    <3>3. CASE UNCHANGED <<cache, ready>> /\ storeOpen' \in BOOLEAN
      BY <3>1, <3>2, <3>3, <1>8, <2>2 DEF StartView, start, GoodInv, Good
    <3>4. CASE storeOpen' = TRUE /\ cache' = store /\ ready' = TRUE
      BY <3>1, <3>2, <3>4, <1>8, <2>2 DEF StartView, GoodInv, Good
    <3>5. QED
      BY <2>2, <3>3, <3>4 DEF start, TypeInv
  <2>3. \/ ready /\ view' = cache /\ viewHeld' = TRUE
           /\ UNCHANGED <<cache, storeOpen, ready>>
        \/ ~ready /\ start
    BY <1>8 DEF StartView
  <2>4. QED
    BY <2>1, <2>2, <2>3
<1>4. CASE Stop
  <2>1. CASE storeOpen' = FALSE /\ cache' = Fresh /\ ready' = FALSE
    BY <1>4, <2>1, <1>0, FreshGood DEF Stop, GoodInv, Good
  <2>2. CASE UNCHANGED <<cache, storeOpen, ready>>
    BY <1>4, <2>2 DEF Stop, GoodInv, Good
  <2>3. QED
    BY <1>4, <2>1, <2>2 DEF Stop
<1>5. CASE Crash
  BY <1>5, <1>0, FreshGood DEF Crash, GoodInv, Good
<1>6. CASE UNCHANGED vars
  BY <1>6 DEF vars, GoodInv, Good
<1>7. QED
  BY <1>1, <1>2, <1>3, <1>4, <1>5, <1>6, <1>8 DEF Next

(* Every step keeps the invariant. *)
LEMMA NextIInv == IInv /\ [Next]_vars => IInv'
<1> SUFFICES ASSUME IInv, [Next]_vars PROVE IInv'
  OBVIOUS
<1>1. TypeInv'
  BY NextTypeInv DEF IInv
<1>2. ASSUME ~lostReload' PROVE GoodInv'
  <2>1. ~lostReload
    BY <1>2, LostSticky
  <2>2. GoodInv
    BY <2>1 DEF IInv, ReloadsKept
  <2>3. QED
    BY <1>2, <2>2, NextGoodInv DEF IInv
<1>3. QED
  BY <1>1, <1>2 DEF IInv, ReloadsKept

(* The invariant holds in every reachable state. *)
LEMMA IInvHolds == Spec => []IInv
  BY InitIInv, NextIInv, PTL DEF Spec

-----------------------------------------------------------------------------
(* The indexer is always well typed: the cache, the store and the views   *)
(* only hold heights from the deploy height to the chain's bound, whatever *)
(* fails, a reload that loses the index included.                         *)
THEOREM IndexerTypeCorrect == Spec => []TypeOK
<1>1. IInv => TypeOK
  BY DEF IInv, TypeInv, Typed, TypeOK
<1>2. QED
  BY <1>1, IInvHolds, PTL

(* Until a reload loses the index, a ready indexer serves queries from    *)
(* exactly its persisted index, after successful commits and after failed *)
(* Merges and WriteBatches alike.                                         *)
THEOREM CacheAlwaysMatchesStore == Spec => []CacheMatchesStore
<1>1. IInv => CacheMatchesStore
  BY DEF IInv, GoodInv, CacheMatchesStore
<1>2. QED
  BY <1>1, IInvHolds, PTL

(* Until a reload loses the index, the store holds each block's events    *)
(* exactly once and in order, through failures, restarts and re-delivered *)
(* blocks.                                                                *)
THEOREM IndexAlwaysExact == Spec => []IndexExactWhileReloadsKept
<1>1. IInv => IndexExactWhileReloadsKept
  BY DEF IInv, GoodInv, Good, IndexExactWhileReloadsKept, IndexedExactlyOnce
<1>2. QED
  BY <1>1, IInvHolds, PTL

(* Until a reload loses the index, a view StartView newly hands out is    *)
(* the durable index (ViewIsCurrent), whether the indexer was ready or    *)
(* StartView had to start it first.                                       *)
THEOREM ViewAlwaysCurrent == Spec => ViewIsCurrent
<1> DEFINE A == ReloadsKept /\ viewHeld' /\ <<view, viewHeld>>' # <<view, viewHeld>>
                => view' = store
<1>1. IInv /\ [Next]_vars => [A]_vars
  <2> SUFFICES ASSUME IInv, [Next]_vars PROVE A
    OBVIOUS
  <2> SUFFICES ASSUME ReloadsKept, viewHeld', <<view, viewHeld>>' # <<view, viewHeld>>
               PROVE  view' = store
    OBVIOUS
  <2>0. GoodInv
    BY DEF IInv
  <2>1. CASE StartView
    <3>1. CASE ready /\ view' = cache
      BY <2>0, <3>1 DEF GoodInv
    <3>2. CASE ~ready /\ start
               /\ IF ready' THEN view' = cache' /\ viewHeld' = TRUE
                            ELSE UNCHANGED <<view, viewHeld>>
      <4>1. ready'
        BY <3>2
      <4>2. cache' = store /\ view' = cache'
        BY <3>2, <4>1 DEF start
      <4>3. QED
        BY <4>2
    <3>3. QED
      BY <2>1, <3>1, <3>2 DEF StartView
  <2>2. CASE Crash
    BY <2>2 DEF Crash
  <2>3. CASE ~StartView /\ ~Crash
    BY <2>3 DEF Next, NewBlock, PutBlock, Start, Stop, vars
  <2>4. QED
    BY <2>1, <2>2, <2>3
<1>2. QED
  BY <1>1, IInvHolds, PTL DEF ViewIsCurrent, Spec

=============================================================================
