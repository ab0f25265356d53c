---------------------------- MODULE KVStoreProofs ----------------------------
(***************************************************************************)
(* Proofs about the buffered key-value store of KVStoreWithBuffer.        *)
(* The recursion in the model (the newest entry of a key, KVMap's Applied *)
(* fold) is handled by least-counterexample arguments on Nat, taken from  *)
(* the well-foundedness of < (WFMin, NatLessThanWellFounded).             *)
(***************************************************************************)
EXTENDS KVStoreWithBuffer, WellFoundedInduction, SequenceTheorems, TLAPS

(* Every non-empty set of naturals has a least element. *)
LEMMA NatMin ==
    ASSUME NEW T \in SUBSET Nat, T # {}
    PROVE  \E m \in T : \A y \in T : m <= y
<1>1. \E x \in T : \A y \in T : ~(<<y, x>> \in OpToRel(<, Nat))
  BY NatLessThanWellFounded, WFMin
<1>2. PICK x \in T : \A y \in T : ~(<<y, x>> \in OpToRel(<, Nat))
  BY <1>1
<1>3. \A y \in T : x <= y
  <2> SUFFICES ASSUME NEW y \in T PROVE x <= y
    OBVIOUS
  <2>1. y < x => <<y, x>> \in OpToRel(<, Nat)
    BY Zenon DEF OpToRel
  <2>2. ~(y < x)
    BY Zenon, <1>2, <2>1
  <2>3. QED
    BY <2>2
<1>4. QED
  BY <1>3

(* A sequence that extends s is s followed by its own tail. *)
LEMMA SplitAt ==
    ASSUME NEW S, NEW s \in Seq(S), NEW t \in Seq(S), Len(t) >= Len(s),
           \A i \in 1..Len(s) : t[i] = s[i]
    PROVE  /\ SubSeq(t, Len(s) + 1, Len(t)) \in Seq(S)
           /\ t = s \o SubSeq(t, Len(s) + 1, Len(t))
<1> DEFINE d == SubSeq(t, Len(s) + 1, Len(t))
<1>1. d \in Seq(S) /\ Len(d) = Len(t) - Len(s)
  BY SubSeqProperties
<1>2. \A i \in 1..Len(d) : d[i] = t[Len(s) + i]
  BY SubSeqProperties
<1>3. s \o d \in Seq(S) /\ Len(s \o d) = Len(t)
  BY <1>1
<1>4. \A i \in 1..Len(t) : (s \o d)[i] = t[i]
  BY <1>1, <1>2
<1>5. QED
  BY <1>1, <1>3, <1>4, SeqEqual

(* The index LastWrite chooses: 0 when buf has no entry for k, else the  *)
(* position of the newest entry for k.  This is the entry kvb.Get         *)
(* answers from.                                                          *)
LEMMA LastWriteSpec ==
    ASSUME NEW buf \in Seq(Writes), NEW k
    PROVE  LET i == LastWrite(buf, k) IN
           \/ /\ i = 0
              /\ \A j \in 1..Len(buf) : buf[j].key # k
           \/ /\ i \in 1..Len(buf)
              /\ buf[i].key = k
              /\ \A j \in i + 1..Len(buf) : buf[j].key # k
<1> DEFINE idx == {j \in 1..Len(buf) : buf[j].key = k}
<1>1. CASE idx = {}
  BY <1>1 DEF LastWrite
<1>2. CASE idx # {}
  <2> DEFINE T == {Len(buf) - j : j \in idx}
  <2>1. T \in SUBSET Nat /\ T # {}
    BY <1>2
  <2>2. PICK m \in T : \A y \in T : m <= y
    BY <2>1, NatMin
  <2>3. \E i \in idx : \A j \in idx : j <= i
    <3>1. PICK i \in idx : m = Len(buf) - i
      BY <2>2
    <3>2. \A j \in idx : j <= i
      <4> SUFFICES ASSUME NEW j \in idx PROVE j <= i
        OBVIOUS
      <4>1. Len(buf) - j \in T
        OBVIOUS
      <4>2. m <= Len(buf) - j
        BY <2>2, <4>1
      <4>3. QED
        BY <3>1, <4>2
    <3>3. QED
      BY <3>1, <3>2
  <2>4. LastWrite(buf, k) \in idx /\ \A j \in idx : j <= LastWrite(buf, k)
    BY <1>2, <2>3 DEF LastWrite
  <2>5. QED
    BY <2>4
<1>3. QED
  BY <1>1, <1>2

(* kvb.Get over a well-typed buffer and store returns a value or         *)
(* ErrNotExist.                                                           *)
LEMMA GetInType ==
    ASSUME store \in [Keys -> Vals \cup {Missing}],
           NEW buf \in Seq(Writes), NEW k \in Keys
    PROVE  GetIn(buf, k) \in Vals \cup {Missing}
<1> DEFINE i == LastWrite(buf, k)
<1>1. i = 0 \/ i \in 1..Len(buf)
  BY LastWriteSpec
<1>2. CASE i = 0
  BY <1>2 DEF GetIn
<1>3. CASE i \in 1..Len(buf)
  <2>1. buf[i] \in Writes
    BY <1>3
  <2>2. buf[i].type = "Put" => buf[i].value \in Vals
    BY <2>1 DEF Writes
  <2>3. i # 0
    BY <1>3
  <2>4. QED
    BY <2>2, <2>3 DEF GetIn
<1>4. QED
  BY <1>1, <1>2, <1>3

(* What Get returns for every key is a map of KVMap. *)
LEMMA ViewType ==
    ASSUME store \in [Keys -> Vals \cup {Missing}], buffer \in Seq(Writes)
    PROVE  View \in [Keys -> Vals \cup {Missing}]
BY GetInType DEF View, Get

-----------------------------------------------------------------------------
(* The snapshot tags never point past the buffer and never decrease:     *)
(* RevertSnapshot truncates the buffer to a prefix it really has, and    *)
(* the snapshots it keeps still point into that prefix.                  *)
TagsInBuffer ==
    /\ Len(buffer) <= MaxEntries
    /\ \A i \in 1..Len(tags) : tags[i] <= Len(buffer)
    /\ \A i, j \in 1..Len(tags) : i <= j => tags[i] <= tags[j]

IInv == TypeOK /\ TagsInBuffer

LEMMA IInvInit == Init => IInv
<1> SUFFICES ASSUME Init PROVE IInv
  OBVIOUS
<1>1. store \in [Keys -> Vals \cup {Missing}]
  BY DEF Init
<1>2. buffer \in Seq(Writes) /\ tags \in Seq(0..MaxEntries) /\ Len(buffer) = 0
      /\ Len(tags) = 0
  BY DEF Init
<1>3. flushing \in BOOLEAN
  BY DEF Init
<1>4. QED
  BY <1>1, <1>2, <1>3, StoreAssumption DEF IInv, TypeOK, TagsInBuffer

LEMMA IInvStep == IInv /\ [Next]_vars => IInv'
<1> SUFFICES ASSUME IInv, [Next]_vars PROVE IInv'
  OBVIOUS
<1> USE StoreAssumption DEF IInv, TypeOK, TagsInBuffer
<1>1. ASSUME NEW k \in Keys, NEW v \in Vals, Put(k, v) PROVE IInv'
  BY <1>1 DEF Put, Writes
<1>2. ASSUME NEW k \in Keys, Delete(k) PROVE IInv'
  BY <1>2 DEF Delete, Writes
<1>3. ASSUME NEW b \in Batches, WriteBatch(b) PROVE IInv'
  <2>1. b \in Seq(Writes)
    OBVIOUS
  <2>2. buffer' \in Seq(Writes) /\ Len(buffer') = Len(buffer) + Len(b)
    BY <1>3, <2>1 DEF WriteBatch
  <2>3. QED
    BY <1>3, <2>2 DEF WriteBatch
<1>4. CASE Snapshot
  BY <1>4 DEF Snapshot
<1>5. ASSUME NEW sid \in 0..Len(tags) - 1, RevertSnapshot(sid) PROVE IInv'
  <2> DEFINE t == tags[sid + 1]
  <2>1. t \in 0..Len(buffer)
    OBVIOUS
  <2>2. buffer' \in Seq(Writes) /\ Len(buffer') = t
    BY <1>5, <2>1 DEF RevertSnapshot
  <2>3. tags' \in Seq(0..MaxEntries) /\ Len(tags') = sid + 1
        /\ \A i \in 1..sid + 1 : tags'[i] = tags[i]
    BY <1>5 DEF RevertSnapshot
  <2>4. \A i \in 1..Len(tags') : tags'[i] <= Len(buffer')
    <3> SUFFICES ASSUME NEW i \in 1..sid + 1 PROVE tags'[i] <= t
      BY <2>2, <2>3
    <3>1. tags[i] <= tags[sid + 1]
      OBVIOUS
    <3>2. QED
      BY <2>3, <3>1
  <2>5. \A i, j \in 1..Len(tags') : i <= j => tags'[i] <= tags'[j]
    <3> SUFFICES ASSUME NEW i \in 1..sid + 1, NEW j \in 1..sid + 1, i <= j
                 PROVE  tags'[i] <= tags'[j]
      BY <2>3
    <3>1. tags[i] <= tags[j]
      OBVIOUS
    <3>2. QED
      BY <2>3, <3>1
  <2>6. QED
    BY <1>5, <2>2, <2>3, <2>4, <2>5 DEF RevertSnapshot
<1>6. CASE ResetSnapshots
  BY <1>6 DEF ResetSnapshots
<1>7. CASE FlushWrite
  <2>1. View \in [Keys -> Vals \cup {Missing}]
    BY ViewType
  <2>2. QED
    BY <1>7, <2>1 DEF FlushWrite
<1>8. CASE FlushClear
  <2>1. buffer' \in Seq(Writes) /\ tags' \in Seq(0..MaxEntries)
        /\ Len(buffer') = 0 /\ Len(tags') = 0
    BY <1>8 DEF FlushClear
  <2>2. store' = store /\ flushing' = FALSE
    BY <1>8 DEF FlushClear
  <2>3. TypeOK'
    BY <2>1, <2>2
  <2>4. TagsInBuffer'
    BY <2>1
  <2>5. QED
    BY <2>3, <2>4
<1>9. CASE UNCHANGED vars
  BY <1>9 DEF vars
<1>10. QED
  BY <1>1, <1>2, <1>3, <1>4, <1>5, <1>6, <1>7, <1>8, <1>9 DEF Next

(* Every write queued through Put, Delete or WriteBatch, every snapshot, *)
(* revert and Flush leaves a store of values, a buffer of writes, and    *)
(* snapshot tags within the buffer bound, for every choice of keys,      *)
(* values, batches and bounds.                                            *)
THEOREM KVTypeCorrect == Spec => []TypeOK
<1>1. Spec => []IInv
  BY IInvInit, IInvStep, PTL DEF Spec
<1>2. QED
  BY <1>1, PTL DEF IInv

-----------------------------------------------------------------------------
(* Get as a function of the store it reads through: ValueIn(st, buf, k)  *)
(* is GetIn(buf, k) over store st, and ViewOf(st, buf) is the view.      *)
(* Stating the lemmas over st makes them usable before and after a step. *)
ValueIn(st, buf, k) ==
    LET i == LastWrite(buf, k) IN
    IF i = 0 THEN st[k]
    ELSE IF buf[i].type = "Put" THEN buf[i].value ELSE Missing

ViewOf(st, buf) == [k \in Keys |-> ValueIn(st, buf, k)]

(* The value a write leaves for its key in KVMap. *)
Written(e) == IF e.type = "Put" THEN e.value ELSE Missing

(* LastWrite is the only index with the property LastWriteSpec states:  *)
(* an entry for k with no later one.                                     *)
LEMMA LastWriteIs ==
    ASSUME NEW buf \in Seq(Writes), NEW k, NEW i \in 1..Len(buf),
           buf[i].key = k,
           \A j \in i + 1..Len(buf) : buf[j].key # k
    PROVE  LastWrite(buf, k) = i
<1> DEFINE l == LastWrite(buf, k)
<1>1. \/ l = 0 /\ \A j \in 1..Len(buf) : buf[j].key # k
      \/ /\ l \in 1..Len(buf)
         /\ buf[l].key = k
         /\ \A j \in l + 1..Len(buf) : buf[j].key # k
  BY LastWriteSpec
<1>2. QED
  BY <1>1

(* Appending a write changes the view at the write's key only, to the  *)
(* value the write leaves: kvb.Get answers from the newest entry.         *)
LEMMA ViewOfAppend ==
    ASSUME NEW st, NEW buf \in Seq(Writes), NEW e \in Writes
    PROVE  ViewOf(st, Append(buf, e)) = [ViewOf(st, buf) EXCEPT ![e.key] = Written(e)]
<1> DEFINE nb == Append(buf, e)
<1>1. nb \in Seq(Writes) /\ Len(nb) = Len(buf) + 1
      /\ nb[Len(buf) + 1] = e /\ \A j \in 1..Len(buf) : nb[j] = buf[j]
  OBVIOUS
<1>2. e.key \in Keys
  BY DEF Writes
<1> SUFFICES ASSUME NEW k \in Keys
             PROVE  ValueIn(st, nb, k) = [ViewOf(st, buf) EXCEPT ![e.key] = Written(e)][k]
  BY DEF ViewOf
<1>3. CASE k = e.key
  <2>1. LastWrite(nb, k) = Len(buf) + 1
    <3>1. /\ Len(buf) + 1 \in 1..Len(nb)
          /\ nb[Len(buf) + 1].key = k
          /\ \A j \in Len(buf) + 1 + 1..Len(nb) : nb[j].key # k
      BY <1>1, <1>3
    <3>2. QED
      BY <1>1, <3>1, LastWriteIs
  <2>2. ValueIn(st, nb, k) = Written(e)
    BY <1>1, <2>1 DEF ValueIn, Written
  <2>3. QED
    BY <1>2, <1>3, <2>2 DEF ViewOf
<1>4. CASE k # e.key
  <2>1. LastWrite(nb, k) = LastWrite(buf, k)
    <3>1. \/ LastWrite(buf, k) = 0 /\ \A j \in 1..Len(buf) : buf[j].key # k
          \/ /\ LastWrite(buf, k) \in 1..Len(buf)
             /\ buf[LastWrite(buf, k)].key = k
             /\ \A j \in LastWrite(buf, k) + 1..Len(buf) : buf[j].key # k
      BY LastWriteSpec
    <3>2. CASE LastWrite(buf, k) = 0
      <4>1. \A j \in 1..Len(nb) : nb[j].key # k
        BY <1>1, <1>4, <3>1, <3>2
      <4>2. \A j \in 1..Len(nb) : j \notin {x \in 1..Len(nb) : nb[x].key = k}
        BY <4>1
      <4>3. QED
        BY <3>2, <4>2 DEF LastWrite
    <3>3. CASE LastWrite(buf, k) # 0
      <4> DEFINE l == LastWrite(buf, k)
      <4>1. /\ l \in 1..Len(nb)
            /\ nb[l].key = k
            /\ \A j \in l + 1..Len(nb) : nb[j].key # k
        BY <1>1, <1>4, <3>1, <3>3
      <4>2. QED
        BY <1>1, <4>1, LastWriteIs
    <3>4. QED
      BY <3>2, <3>3
  <2>2. ValueIn(st, nb, k) = ValueIn(st, buf, k)
    <3>1. LastWrite(buf, k) = 0 \/ LastWrite(buf, k) \in 1..Len(buf)
      BY LastWriteSpec
    <3>2. QED
      BY <1>1, <2>1, <3>1 DEF ValueIn
  <2>3. QED
    BY <1>4, <2>2 DEF ViewOf
<1>5. QED
  BY <1>3, <1>4

(* KVMap's Applied, the fold of a batch over a map, applied to the view  *)
(* of a buffer is the view of the buffer with the batch appended: the    *)
(* buffer's batch.Append of WriteBatch is read back exactly as applying  *)
(* the writes in order.                                                   *)
LEMMA AppliedIsConcat ==
    ASSUME NEW st, NEW buf \in Seq(Writes), NEW s \in Seq(Writes)
    PROVE  Abstract!Applied(ViewOf(st, buf), s) = ViewOf(st, buf \o s)
<1> DEFINE m == ViewOf(st, buf)
           Body(g, i) == IF i = 0 THEN m
                         ELSE [g[i - 1] EXCEPT ![s[i].key] =
                                 IF s[i].type = "Put" THEN s[i].value ELSE Missing]
           F == CHOOSE f : f = [i \in 0..Len(s) |-> Body(f, i)]
           G == [i \in 0..Len(s) |-> ViewOf(st, buf \o SubSeq(s, 1, i))]
<1>1. Abstract!Applied(m, s) = F[Len(s)]
  BY DEF Abstract!Applied
<1>2. G = [i \in 0..Len(s) |-> Body(G, i)]
  <2> SUFFICES ASSUME NEW i \in 0..Len(s) PROVE G[i] = Body(G, i)
    OBVIOUS
  <2>1. CASE i = 0
    <3>1. buf \o SubSeq(s, 1, 0) = buf
      OBVIOUS
    <3>2. QED
      BY <2>1, <3>1
  <2>2. CASE i # 0
    <3>1. buf \o SubSeq(s, 1, i) = Append(buf \o SubSeq(s, 1, i - 1), s[i])
      BY <2>2
    <3>2. buf \o SubSeq(s, 1, i - 1) \in Seq(Writes) /\ s[i] \in Writes
      BY <2>2
    <3>3. G[i] = [G[i - 1] EXCEPT ![s[i].key] = Written(s[i])]
      <4> DEFINE X == buf \o SubSeq(s, 1, i - 1)
      <4>1. G[i] = ViewOf(st, Append(X, s[i]))
        BY <3>1
      <4>2. G[i - 1] = ViewOf(st, X)
        BY <2>2
      <4>3. ViewOf(st, Append(X, s[i])) = [ViewOf(st, X) EXCEPT ![s[i].key] = Written(s[i])]
        <5>1. \A xx \in Seq(Writes), ee \in Writes :
                ViewOf(st, Append(xx, ee)) = [ViewOf(st, xx) EXCEPT ![ee.key] = Written(ee)]
          BY ViewOfAppend
        <5>2. QED
          BY <3>2, <5>1
      <4>4. QED
        BY <4>1, <4>2, <4>3
    <3>4. QED
      BY <2>2, <3>3 DEF Written
  <2>3. QED
    BY <2>1, <2>2
<1>3. F = [i \in 0..Len(s) |-> Body(F, i)]
  BY <1>2
<1>4. \A i \in 0..Len(s) : F[i] = G[i]
  <2> DEFINE T == {i \in 0..Len(s) : F[i] # G[i]}
  <2> SUFFICES ASSUME T # {} PROVE FALSE
    OBVIOUS
  <2>0. T \in SUBSET Nat
    OBVIOUS
  <2>1. PICK n \in T : \A y \in T : n <= y
    BY <2>0, NatMin
  <2>2. n # 0
    <3>0. 0 \in 0..Len(s)
      OBVIOUS
    <3>1. F[0] = Body(F, 0) /\ G[0] = Body(G, 0)
      BY <3>0, <1>2, <1>3
    <3>2. Body(F, 0) = m /\ Body(G, 0) = m
      OBVIOUS
    <3>3. QED
      BY <2>1, <3>1, <3>2
  <2>3. F[n - 1] = G[n - 1]
    BY <2>1, <2>2
  <2>4. F[n] = G[n]
    <3>1. F[n] = Body(F, n) /\ G[n] = Body(G, n)
      BY <1>2, <1>3
    <3>2. QED
      BY <2>2, <2>3, <3>1
  <2>5. QED
    BY <2>1, <2>4
<1>5. G[Len(s)] = ViewOf(st, buf \o s)
  <2>1. SubSeq(s, 1, Len(s)) = s
    OBVIOUS
  <2>2. QED
    BY <2>1
<1>6. QED
  BY <1>1, <1>4, <1>5

(* Get, the view and the snapshot views of the model are ViewOf over the *)
(* current store, before and after a step.                               *)
LEMMA ViewIsViewOf ==
    /\ View = ViewOf(store, buffer)
    /\ View' = ViewOf(store', buffer')
    /\ \A n \in Nat : ViewAt(n) = ViewOf(store, SubSeq(buffer, 1, n))
    /\ \A n \in Nat : ViewAt(n)' = ViewOf(store', SubSeq(buffer', 1, n))
BY DEF View, Get, GetIn, ViewAt, ViewOf, ValueIn

(* A step that lengthens the buffer is a Put, Delete or WriteBatch: it   *)
(* keeps the store and the entries already queued.                        *)
LEMMA GrowingStep ==
    ASSUME IInv, [Next]_vars, Len(buffer') > Len(buffer)
    PROVE  /\ store' = store
           /\ buffer' \in Seq(Writes)
           /\ \A i \in 1..Len(buffer) : buffer'[i] = buffer[i]
<1> USE DEF IInv, TypeOK, TagsInBuffer
<1>1. ASSUME NEW k \in Keys, Delete(k) PROVE
                /\ store' = store
                /\ buffer' \in Seq(Writes)
                /\ \A i \in 1..Len(buffer) : buffer'[i] = buffer[i]
  BY <1>1 DEF Delete, Writes
<1>2. ASSUME NEW k \in Keys, NEW v \in Vals, Put(k, v) PROVE
                /\ store' = store
                /\ buffer' \in Seq(Writes)
                /\ \A i \in 1..Len(buffer) : buffer'[i] = buffer[i]
  BY <1>2 DEF Put, Writes
<1>3. ASSUME NEW b \in Batches, WriteBatch(b) PROVE
                /\ store' = store
                /\ buffer' \in Seq(Writes)
                /\ \A i \in 1..Len(buffer) : buffer'[i] = buffer[i]
  <2>1. b \in Seq(Writes)
    BY StoreAssumption
  <2>2. QED
    BY <1>3, <2>1 DEF WriteBatch
<1>4. ASSUME NEW sid \in 0..Len(tags) - 1, RevertSnapshot(sid)
      PROVE  Len(buffer') <= Len(buffer)
  <2>1. tags[sid + 1] \in 0..Len(buffer)
    BY StoreAssumption
  <2>2. QED
    BY <1>4, <2>1 DEF RevertSnapshot
<1>5. CASE Snapshot \/ ResetSnapshots \/ FlushWrite \/ UNCHANGED vars
  BY <1>5 DEF Snapshot, ResetSnapshots, FlushWrite, vars
<1>6. CASE FlushClear
  BY <1>6 DEF FlushClear
<1>7. QED
  BY <1>1, <1>2, <1>3, <1>4, <1>5, <1>6 DEF Next

(* Every step that queues writes (Put, Delete, WriteBatch) changes the   *)
(* view as KVMap's Applied of the queued writes, whatever the buffer     *)
(* held before and whether or not a Flush is under way.                   *)
LEMMA WritesVisibleStep ==
    ASSUME IInv, [Next]_vars
    PROVE  Len(buffer') > Len(buffer) =>
             View' = Abstract!Applied(View,
                       SubSeq(buffer', Len(buffer) + 1, Len(buffer')))
<1> SUFFICES ASSUME Len(buffer') > Len(buffer)
             PROVE  View' = Abstract!Applied(View,
                              SubSeq(buffer', Len(buffer) + 1, Len(buffer')))
  OBVIOUS
<1>1. /\ store' = store
      /\ buffer' \in Seq(Writes)
      /\ \A i \in 1..Len(buffer) : buffer'[i] = buffer[i]
  BY GrowingStep
<1>2. buffer \in Seq(Writes)
  BY DEF IInv, TypeOK
<1> DEFINE d == SubSeq(buffer', Len(buffer) + 1, Len(buffer'))
<1>3. d \in Seq(Writes) /\ buffer' = buffer \o d
  BY <1>1, <1>2, SplitAt
<1>4. Abstract!Applied(ViewOf(store, buffer), d) = ViewOf(store, buffer \o d)
  BY <1>2, <1>3, AppliedIsConcat
<1>5. QED
  BY <1>1, <1>3, <1>4, ViewIsViewOf

(* Read-your-writes holds on every behaviour, for every choice of keys,  *)
(* values, batches and bounds, and with or without concurrent writers.   *)
THEOREM WritesAlwaysVisible == Spec => WritesVisible
<1>1. Spec => []IInv
  BY IInvInit, IInvStep, PTL DEF Spec
<1>2. IInv /\ [Next]_vars =>
        [Len(buffer') > Len(buffer) =>
           View' = Abstract!Applied(View,
                     SubSeq(buffer', Len(buffer) + 1, Len(buffer')))]_vars
  BY WritesVisibleStep
<1>3. QED
  BY <1>1, <1>2, PTL DEF Spec, WritesVisible

-----------------------------------------------------------------------------
(* Lemmas for the refinement of KVMap.                                    *)

(* Flush writes the view to the store: reading the same buffer over that *)
(* store gives the same view again.                                       *)
LEMMA ViewOfIdem ==
    ASSUME NEW st, NEW buf \in Seq(Writes)
    PROVE  ViewOf(ViewOf(st, buf), buf) = ViewOf(st, buf)
BY DEF ViewOf, ValueIn

(* With nothing buffered Get reads the store. *)
LEMMA ViewOfEmpty ==
    ASSUME NEW st
    PROVE  ViewOf(st, << >>) = [k \in Keys |-> st[k]]
<1>1. \A k \in Keys : LastWrite(<< >>, k) = 0
  BY DEF LastWrite
<1>2. QED
  BY <1>1 DEF ViewOf, ValueIn

(* Two sequences that agree on their first n elements have the same      *)
(* prefix of length n.                                                    *)
LEMMA PrefixSame ==
    ASSUME NEW S, NEW s \in Seq(S), NEW t \in Seq(S), NEW n \in 0..Len(s),
           n <= Len(t), \A i \in 1..n : t[i] = s[i]
    PROVE  SubSeq(t, 1, n) = SubSeq(s, 1, n)
<1>1. SubSeq(t, 1, n) \in Seq(S) /\ SubSeq(s, 1, n) \in Seq(S)
      /\ Len(SubSeq(t, 1, n)) = n /\ Len(SubSeq(s, 1, n)) = n
  BY SubSeqProperties
<1>2. \A i \in 1..n : SubSeq(t, 1, n)[i] = SubSeq(s, 1, n)[i]
  BY SubSeqProperties
<1>3. QED
  BY <1>1, <1>2, SeqEqual

(* The snapshots as the caller sees them, in terms of ViewOf. *)
LEMMA ShotsIs ==
    /\ Shots = IF flushing THEN << >>
               ELSE [i \in 1..Len(tags) |-> ViewOf(store, SubSeq(buffer, 1, tags[i]))]
    /\ Shots' = IF flushing' THEN << >>
                ELSE [i \in 1..Len(tags') |-> ViewOf(store', SubSeq(buffer', 1, tags'[i]))]
BY DEF Shots, ViewAt, GetIn, ViewOf, ValueIn

(* While a Flush is under way the store holds exactly the view Flush     *)
(* wrote.  It holds when callers are serialized against Flush, that is   *)
(* without ConcurrentWriters.                                             *)
FlushedStore == flushing => store = View

RInv == IInv /\ FlushedStore

(* Only the write of a Flush starts a Flush; while one is under way no   *)
(* caller writes and the clear ends it.                                   *)
LEMMA RInvStep ==
    ASSUME ~ConcurrentWriters, RInv, [Next]_vars
    PROVE  RInv'
<1>1. IInv'
  BY IInvStep DEF RInv
<1>2. FlushedStore'
  <2> SUFFICES ASSUME flushing' PROVE store' = View'
    BY DEF FlushedStore
  <2>1. buffer \in Seq(Writes)
    BY DEF RInv, IInv, TypeOK
  <2>2. CASE flushing
    <3>1. ~MayWrite
      BY <2>2 DEF MayWrite
    <3>2. UNCHANGED vars
      BY <2>2, <3>1 DEF Next, Put, Delete, WriteBatch, Snapshot, RevertSnapshot,
                        ResetSnapshots, FlushWrite, FlushClear
    <3>3. store = View
      BY <2>2 DEF RInv, FlushedStore
    <3>4. View' = View
      BY <3>2, ViewIsViewOf DEF vars
    <3>5. QED
      BY <3>2, <3>3, <3>4 DEF vars
  <2>3. CASE ~flushing
    <3>1. store' = View /\ buffer' = buffer
      BY <2>3 DEF Next, Put, Delete, WriteBatch, Snapshot, RevertSnapshot,
                  ResetSnapshots, FlushWrite, FlushClear, vars
    <3>2. View' = ViewOf(ViewOf(store, buffer), buffer)
      BY <3>1, ViewIsViewOf
    <3>3. QED
      BY <2>1, <3>1, <3>2, ViewOfIdem, ViewIsViewOf
  <2>4. QED
    BY <2>2, <2>3
<1>3. QED
  BY <1>1, <1>2 DEF RInv

(* Queuing writes leaves every snapshot's view as it was: a snapshot     *)
(* reads the buffer's prefix up to its tag, which the step keeps.         *)
LEMMA ShotsKept ==
    ASSUME IInv, store' = store, tags' = tags, flushing' = flushing,
           buffer' \in Seq(Writes), Len(buffer') >= Len(buffer),
           \A i \in 1..Len(buffer) : buffer'[i] = buffer[i]
    PROVE  Shots' = Shots
<1>1. CASE flushing
  BY <1>1, ShotsIs
<1>2. CASE ~flushing
  <2>1. \A i \in 1..Len(tags) :
          SubSeq(buffer', 1, tags[i]) = SubSeq(buffer, 1, tags[i])
    <3> SUFFICES ASSUME NEW i \in 1..Len(tags)
                 PROVE  SubSeq(buffer', 1, tags[i]) = SubSeq(buffer, 1, tags[i])
      OBVIOUS
    <3>1. buffer \in Seq(Writes) /\ tags[i] \in 0..Len(buffer)
      BY StoreAssumption DEF IInv, TypeOK, TagsInBuffer
    <3>2. QED
      BY <3>1, PrefixSame
  <2>2. QED
    BY <1>2, <2>1, ShotsIs
<1>3. QED
  BY <1>1, <1>2

(* Put and Delete of kvStoreWithBuffer are KVMap's Put and Delete. *)
LEMMA RefinePutDelete ==
    ASSUME ~ConcurrentWriters, RInv, NEW k \in Keys,
           \/ \E v \in Vals : Put(k, v)
           \/ Delete(k)
    PROVE  \/ \E v \in Vals : Abstract!Put(k, v)
           \/ Abstract!Delete(k)
<1> USE DEF RInv, IInv, TypeOK
<1>1. ~flushing
  BY DEF Put, Delete, MayWrite
<1>2. ASSUME NEW e \in Writes, e.key = k,
             buffer' = Append(buffer, e), UNCHANGED <<store, tags, flushing>>
      PROVE  View' = [View EXCEPT ![k] = Written(e)] /\ Shots' = Shots
  <2>1. View' = [View EXCEPT ![k] = Written(e)]
    BY <1>2, ViewOfAppend, ViewIsViewOf
  <2>2. Shots' = Shots
    BY <1>2, ShotsKept
  <2>3. QED
    BY <2>1, <2>2
<1>3. CASE \E v \in Vals : Put(k, v)
  <2>1. PICK v \in Vals : Put(k, v)
    BY <1>3
  <2> DEFINE e == [type |-> "Put", key |-> k, value |-> v]
  <2>2. e \in Writes /\ e.key = k /\ Written(e) = v
    BY DEF Writes, Written
  <2>3. View' = [View EXCEPT ![k] = v] /\ Shots' = Shots
    BY <2>1, <2>2, <1>2 DEF Put
  <2>4. QED
    BY <2>3 DEF Abstract!Put
<1>4. CASE Delete(k)
  <2> DEFINE e == [type |-> "Delete", key |-> k]
  <2>2. e \in Writes /\ e.key = k /\ Written(e) = Missing
    BY DEF Writes, Written
  <2>3. View' = [View EXCEPT ![k] = Missing] /\ Shots' = Shots
    BY <1>4, <2>2, <1>2 DEF Delete
  <2>4. QED
    BY <2>3 DEF Abstract!Delete
<1>5. QED
  BY <1>3, <1>4

(* WriteBatch of kvStoreWithBuffer is KVMap's WriteBatch of the same     *)
(* batch.                                                                 *)
LEMMA RefineWriteBatch ==
    ASSUME ~ConcurrentWriters, RInv, NEW b \in Batches, WriteBatch(b)
    PROVE  Abstract!WriteBatch(b)
<1> USE DEF RInv, IInv, TypeOK
<1>1. b \in Seq(Writes)
  BY StoreAssumption
<1>2. buffer' = buffer \o b /\ UNCHANGED <<store, tags, flushing>>
  BY DEF WriteBatch
<1>3. View' = Abstract!Applied(View, b)
  BY <1>1, <1>2, AppliedIsConcat, ViewIsViewOf
<1>4. Shots' = Shots
  BY <1>1, <1>2, ShotsKept
<1>5. QED
  BY <1>3, <1>4 DEF Abstract!WriteBatch

(* Snapshot records the buffer length; its view is the current map. *)
LEMMA RefineSnapshot ==
    ASSUME ~ConcurrentWriters, RInv, Snapshot
    PROVE  Abstract!Snapshot
<1> USE DEF RInv, IInv, TypeOK, TagsInBuffer
<1>1. ~flushing /\ ~flushing'
  BY DEF Snapshot, MayWrite
<1>2. tags' = Append(tags, Len(buffer)) /\ UNCHANGED <<store, buffer, flushing>>
  BY DEF Snapshot
<1>3. View' = View
  BY <1>2, ViewIsViewOf
<1>4. SubSeq(buffer, 1, Len(buffer)) = buffer
  OBVIOUS
<1>5. Shots' = Append(Shots, View)
  <2>1. Shots = [i \in 1..Len(tags) |-> ViewOf(store, SubSeq(buffer, 1, tags[i]))]
    BY <1>1, ShotsIs
  <2>2. Shots' = [i \in 1..Len(tags) + 1 |->
                    ViewOf(store, SubSeq(buffer, 1, tags'[i]))]
    BY <1>1, <1>2, ShotsIs
  <2>3. View = ViewOf(store, SubSeq(buffer, 1, Len(buffer)))
    BY <1>4, ViewIsViewOf
  <2>4. QED
    BY <1>2, <2>1, <2>2, <2>3
<1>6. QED
  BY <1>3, <1>5 DEF Abstract!Snapshot

(* ResetSnapshots is KVMap's Reset. *)
LEMMA RefineReset ==
    ASSUME ~ConcurrentWriters, RInv, ResetSnapshots
    PROVE  Abstract!Reset
<1>1. ~flushing' /\ tags' = << >> /\ UNCHANGED <<store, buffer>>
  BY DEF ResetSnapshots, MayWrite
<1>2. Shots' = << >>
  BY <1>1, ShotsIs
<1>3. View' = View
  BY <1>1, ViewIsViewOf
<1>4. QED
  BY <1>2, <1>3 DEF Abstract!Reset

(* RevertSnapshot(sid) is KVMap's Revert(sid): the buffer truncated to   *)
(* the snapshot's tag reads as the snapshot's view, and the snapshots    *)
(* kept read as before since their tags lie within the kept prefix.      *)
LEMMA RefineRevert ==
    ASSUME ~ConcurrentWriters, RInv, NEW sid \in 0..Len(tags) - 1,
           RevertSnapshot(sid)
    PROVE  Abstract!Revert(sid)
<1> USE StoreAssumption DEF RInv, IInv, TypeOK, TagsInBuffer
<1> DEFINE t == tags[sid + 1]
<1>1. ~flushing /\ ~flushing' /\ store' = store
  BY DEF RevertSnapshot, MayWrite
<1>2. t \in 0..Len(buffer)
  OBVIOUS
<1>3. /\ buffer' = SubSeq(buffer, 1, t)
      /\ tags' = SubSeq(tags, 1, sid + 1)
  BY DEF RevertSnapshot
<1>4. /\ buffer' \in Seq(Writes) /\ Len(buffer') = t
      /\ \A i \in 1..t : buffer'[i] = buffer[i]
  BY <1>2, <1>3
<1>5. Len(tags') = sid + 1 /\ \A i \in 1..sid + 1 : tags'[i] = tags[i]
  BY <1>3
<1>6. Shots = [i \in 1..Len(tags) |-> ViewOf(store, SubSeq(buffer, 1, tags[i]))]
  BY <1>1, ShotsIs
<1>7. View' = Shots[sid + 1]
  BY <1>1, <1>3, <1>6, ViewIsViewOf
<1>8. Shots' = SubSeq(Shots, 1, sid + 1)
  <2>1. \A i \in 1..sid + 1 :
          SubSeq(buffer', 1, tags[i]) = SubSeq(buffer, 1, tags[i])
    <3> SUFFICES ASSUME NEW i \in 1..sid + 1
                 PROVE  SubSeq(buffer', 1, tags[i]) = SubSeq(buffer, 1, tags[i])
      OBVIOUS
    <3>1. tags[i] \in 0..t /\ t <= Len(buffer)
      BY <1>2
    <3>2. QED
      BY <1>4, <3>1, PrefixSame
  <2>2. Shots' = [i \in 1..sid + 1 |-> ViewOf(store, SubSeq(buffer, 1, tags[i]))]
    BY <1>1, <1>5, <2>1, ShotsIs
  <2>3. QED
    BY <1>6, <2>2
<1>9. sid \in 0..Len(Shots) - 1
  BY <1>6
<1>10. QED
  BY <1>7, <1>8, <1>9 DEF Abstract!Revert

(* A Flush writes the view to the store and ends the caller's snapshots *)
(* (KVMap's Reset), or fails and changes nothing; its clear changes      *)
(* nothing the caller can read.                                           *)
LEMMA RefineFlush ==
    ASSUME ~ConcurrentWriters, RInv, FlushWrite \/ FlushClear
    PROVE  Abstract!Reset \/ UNCHANGED <<View, Shots>>
<1> USE DEF RInv, IInv, TypeOK
<1>1. CASE FlushWrite /\ flushing' = TRUE
  <2>1. store' = View /\ buffer' = buffer
    BY <1>1 DEF FlushWrite
  <2>2. View' = View
    BY <2>1, ViewOfIdem, ViewIsViewOf
  <2>3. Shots' = << >>
    BY <1>1, ShotsIs
  <2>4. QED
    BY <2>2, <2>3 DEF Abstract!Reset
<1>2. CASE FlushWrite /\ flushing' # TRUE
  <2>1. UNCHANGED vars
    BY <1>2 DEF FlushWrite, vars
  <2>2. QED
    BY <2>1, ViewIsViewOf, ShotsIs DEF vars
<1>3. CASE FlushClear
  <2>1. flushing /\ store = View /\ store' = store /\ buffer' = << >>
        /\ tags' = << >> /\ ~flushing'
    BY <1>3 DEF FlushClear, RInv, FlushedStore
  <2>2. View' = [k \in Keys |-> store[k]]
    BY <2>1, ViewOfEmpty, ViewIsViewOf
  <2>3. View' = View
    BY <2>1, <2>2
  <2>4. Shots' = Shots
    BY <2>1, ShotsIs
  <2>5. QED
    BY <2>3, <2>4
<1>4. QED
  BY <1>1, <1>2, <1>3

(* Every step of the buffered store is a step of KVMap or leaves the map *)
(* and the snapshots as the caller sees them unchanged.                  *)
LEMMA RefineStep ==
    ASSUME ~ConcurrentWriters, RInv, [Next]_vars
    PROVE  [Abstract!Next]_<<View, Shots>>
<1>1. CASE \E k \in Keys : Delete(k) \/ \E v \in Vals : Put(k, v)
  <2>1. PICK k \in Keys : Delete(k) \/ \E v \in Vals : Put(k, v)
    BY <1>1
  <2>2. (\E v \in Vals : Abstract!Put(k, v)) \/ Abstract!Delete(k)
    BY <2>1, RefinePutDelete
  <2>3. QED
    BY <2>2 DEF Abstract!Next
<1>2. CASE \E b \in Batches : WriteBatch(b)
  BY <1>2, RefineWriteBatch DEF Abstract!Next
<1>3. CASE Snapshot
  BY <1>3, RefineSnapshot DEF Abstract!Next
<1>4. CASE \E sid \in 0..Len(tags) - 1 : RevertSnapshot(sid)
  <2>1. PICK sid \in 0..Len(tags) - 1 : RevertSnapshot(sid)
    BY <1>4
  <2>2. Abstract!Revert(sid)
    BY <2>1, RefineRevert
  <2>3. sid \in 0..Len(Shots) - 1
    BY <2>2 DEF Abstract!Revert
  <2>4. QED
    BY <2>2, <2>3 DEF Abstract!Next
<1>5. CASE ResetSnapshots
  BY <1>5, RefineReset DEF Abstract!Next
<1>6. CASE FlushWrite \/ FlushClear
  BY <1>6, RefineFlush DEF Abstract!Next
<1>7. CASE UNCHANGED vars
  BY <1>7, ViewIsViewOf, ShotsIs DEF vars
<1>8. QED
  BY <1>1, <1>2, <1>3, <1>4, <1>5, <1>6, <1>7 DEF Next

(* The initial store and empty buffer read as KVMap's empty map with no *)
(* snapshots.                                                             *)
LEMMA RefineInit ==
    Init => Abstract!Init /\ RInv
<1> SUFFICES ASSUME Init PROVE Abstract!Init /\ RInv
  OBVIOUS
<1>1. View = [k \in Keys |-> Missing]
  <2>1. View = [k \in Keys |-> store[k]]
    BY ViewOfEmpty, ViewIsViewOf DEF Init
  <2>2. QED
    BY <2>1 DEF Init
<1>2. Shots = << >>
  BY ShotsIs DEF Init
<1>3. RInv
  BY IInvInit DEF Init, RInv, FlushedStore
<1>4. QED
  BY <1>1, <1>2, <1>3 DEF Abstract!Init

(* With callers serialized against Flush (no ConcurrentWriters), the     *)
(* buffered store of kvStoreWithBuffer implements KVMap for every choice *)
(* of keys, values, batches and bounds: Get reflects every Put, Delete   *)
(* and WriteBatch at once, a revert restores its snapshot's view, and    *)
(* Flush changes nothing a caller reads beyond ending the snapshots.     *)
THEOREM KVRefinement ==
    ASSUME ~ConcurrentWriters
    PROVE  Spec => KVMapRefinement
<1>1. Spec => []RInv
  BY RefineInit, RInvStep, PTL DEF Spec
<1>2. RInv /\ [Next]_vars => [Abstract!Next]_<<View, Shots>>
  BY RefineStep
<1>3. QED
  BY <1>1, <1>2, RefineInit, PTL DEF Spec, KVMapRefinement, Abstract!Spec

=============================================================================
