--------------------------- MODULE KVFilterProofs ---------------------------
(***************************************************************************)
(* Proof that kvb.Filter agrees with kvb.Get (FilterMatchesGet) whenever   *)
(* the Filter condition looks at the key only.  Filter and the store's     *)
(* Filter are recursive functions (folds over the buffer and over the      *)
(* rank of each key); each is unfolded by showing that its recursive       *)
(* equation has a solution, and reasoned about by least-counterexample     *)
(* induction (NatMin).                                                     *)
(***************************************************************************)
EXTENDS KVStoreProofs, FiniteSetTheorems

-----------------------------------------------------------------------------
(* The rank of x in a set H of naturals: how many members are <= x.  The  *)
(* store's Filter emits the key of rank n as its n-th pair.              *)
Rank(H, x) == Cardinality({y \in H : y <= x})

(* A member of a finite set of naturals has a rank in 1..Cardinality(H), *)
(* and a larger member has a larger rank.                                 *)
LEMMA RankMono ==
    ASSUME NEW H \in SUBSET Nat, IsFiniteSet(H)
    PROVE  /\ \A x \in H : Rank(H, x) \in 1..Cardinality(H)
           /\ \A x, y \in H : x < y => Rank(H, x) < Rank(H, y)
<1>1. ASSUME NEW x \in H PROVE Rank(H, x) \in 1..Cardinality(H)
  <2> DEFINE A == {y \in H : y <= x}
  <2>1. IsFiniteSet(A) /\ Cardinality(A) <= Cardinality(H)
    BY FS_Subset
  <2>2. Cardinality(A) \in Nat /\ Cardinality(H) \in Nat
    BY <2>1, FS_CardinalityType
  <2>3. A # {}
    BY <1>1
  <2>4. Cardinality(A) # 0
    BY <2>1, <2>3, FS_EmptySet
  <2>5. QED
    BY <2>1, <2>2, <2>4 DEF Rank
<1>2. ASSUME NEW x \in H, NEW y \in H, x < y PROVE Rank(H, x) < Rank(H, y)
  <2> DEFINE A == {z \in H : z <= x}
             B == {z \in H : z <= y}
  <2>1. IsFiniteSet(B)
    BY FS_Subset
  <2>2. A \subseteq B
    <3> SUFFICES ASSUME NEW z \in H, z <= x PROVE z <= y
      OBVIOUS
    <3>1. z \in Nat /\ x \in Nat /\ y \in Nat
      OBVIOUS
    <3>2. QED
      BY <1>2, <3>1
  <2>3. Cardinality(A) <= Cardinality(B) /\ (Cardinality(B) = Cardinality(A) => A = B)
    BY <2>1, <2>2, FS_Subset
  <2>4. A # B
    BY <1>2
  <2>5. Cardinality(A) \in Nat /\ Cardinality(B) \in Nat
    BY <2>1, <2>2, FS_Subset, FS_CardinalityType
  <2>6. QED
    BY <2>3, <2>4, <2>5 DEF Rank
<1>3. QED
  BY <1>1, <1>2

(* Rank is a bijection from H onto 1..Cardinality(H): every position of  *)
(* the store's result is filled by exactly one key.                       *)
LEMMA RankBij ==
    ASSUME NEW H \in SUBSET Nat, IsFiniteSet(H)
    PROVE  /\ \A x, y \in H : Rank(H, x) = Rank(H, y) => x = y
           /\ \A j \in 1..Cardinality(H) : \E x \in H : Rank(H, x) = j
<1>1. \A x, y \in H : Rank(H, x) = Rank(H, y) => x = y
  <2> SUFFICES ASSUME NEW x \in H, NEW y \in H, x # y PROVE Rank(H, x) # Rank(H, y)
    OBVIOUS
  <2>1. x < y \/ y < x
    OBVIOUS
  <2>2. \A u, v \in H : u < v => Rank(H, u) < Rank(H, v)
    BY RankMono
  <2>3. Rank(H, x) \in Nat /\ Rank(H, y) \in Nat
    BY RankMono
  <2>4. QED
    BY <2>1, <2>2, <2>3
<1> DEFINE C == Cardinality(H)
           rk == [x \in H |-> Rank(H, x)]
<1>2. C \in Nat
  BY FS_CardinalityType
<1>3. rk \in Injection(H, 1..C)
  BY <1>1, RankMono DEF Injection, IsInjective
<1>4. IsFiniteSet(1..C) /\ Cardinality(1..C) = C
  BY <1>2, FS_Interval
<1>5. rk \in Surjection(H, 1..C)
  BY <1>3, <1>4, FS_Injection
<1>6. QED
  BY <1>1, <1>5 DEF Surjection

-----------------------------------------------------------------------------
(* The keys the store's Filter returns, and the key it puts n-th. *)
Hits(mn, mx) == {k \in Keys : store[k] # Missing /\ InRange(k, mn, mx)
                                /\ Cond(k, store[k])}

KeyOfRank(H, n) == CHOOSE x \in H : Cardinality({y \in H : y <= x}) = n

StorePair(H, n) == <<KeyOfRank(H, n), store[KeyOfRank(H, n)]>>

(* kvb.store.Filter's result in closed form: its n-th pair is the key of *)
(* rank n with its stored value.                                          *)
LEMMA StoreFilterIs ==
    ASSUME NEW mn, NEW mx
    PROVE  StoreFilter(mn, mx) =
             [j \in 1..Cardinality(Hits(mn, mx)) |-> StorePair(Hits(mn, mx), j)]
<1> DEFINE H == Hits(mn, mx)
           C == Cardinality(H)
           Body(g, n) == IF n = 0 THEN << >> ELSE Append(g[n - 1], StorePair(H, n))
           F == CHOOSE f : f = [n \in 0..C |-> Body(f, n)]
           G == [n \in 0..C |-> [j \in 1..n |-> StorePair(H, j)]]
<1>1. C \in Nat
  <2>1. IsFiniteSet(H)
    BY StoreAssumption, FS_Subset DEF Hits
  <2>2. QED
    BY <2>1, FS_CardinalityType
<1>2. StoreFilter(mn, mx) = F[C]
  BY DEF StoreFilter, Hits, StorePair, KeyOfRank
<1>3. G = [n \in 0..C |-> Body(G, n)]
  <2> SUFFICES ASSUME NEW n \in 0..C PROVE G[n] = Body(G, n)
    OBVIOUS
  <2>1. CASE n = 0
    BY <2>1
  <2>2. CASE n # 0
    <3>1. G[n - 1] = [j \in 1..n - 1 |-> StorePair(H, j)]
      BY <1>1, <2>2
    <3>2. [j \in 1..n |-> StorePair(H, j)] = Append([j \in 1..n - 1 |-> StorePair(H, j)], StorePair(H, n))
      BY <1>1, <2>2
    <3>3. QED
      BY <2>2, <3>1, <3>2
  <2>3. QED
    BY <2>1, <2>2
<1>4. F = [n \in 0..C |-> Body(F, n)]
  BY <1>3
<1>5. \A n \in 0..C : F[n] = G[n]
  <2> DEFINE T == {n \in 0..C : F[n] # G[n]}
  <2> SUFFICES ASSUME T # {} PROVE FALSE
    OBVIOUS
  <2>1. T \in SUBSET Nat
    BY <1>1
  <2>2. PICK n \in T : \A y \in T : n <= y
    BY <2>1, NatMin
  <2>3. CASE n = 0
    <3>1. 0 \in 0..C
      BY <1>1
    <3>2. F[0] = Body(F, 0) /\ G[0] = Body(G, 0)
      BY <3>1, <1>3, <1>4
    <3>3. QED
      BY <2>2, <2>3, <3>2
  <2>4. CASE n # 0
    <3>0. n \in 1..C /\ F[n] # G[n]
      BY <1>1, <2>2, <2>4
    <3>1. F[n - 1] = G[n - 1]
      <4>1. n - 1 \in 0..C /\ ~(n <= n - 1)
        BY <1>1, <3>0
      <4>2. n - 1 \notin T
        BY <2>2, <4>1
      <4>3. QED
        BY <4>1, <4>2
    <3>2. F[n] = Body(F, n) /\ G[n] = Body(G, n)
      BY <3>0, <1>3, <1>4
    <3>3. Body(F, n) = Body(G, n)
      BY <3>0, <3>1
    <3>4. QED
      BY <3>0, <3>2, <3>3
  <2>5. QED
    BY <2>3, <2>4
<1>6. C \in 0..C
  BY <1>1
<1>7. F[C] = [j \in 1..C |-> StorePair(H, j)]
  BY <1>5, <1>6
<1>8. QED
  BY <1>2, <1>7

(* A Filter result: a sequence of key-value pairs, each key once. *)
KeysUnique(fs) == \A i, j \in 1..Len(fs) : fs[i][1] = fs[j][1] => i = j

PairSet(fs) == {fs[i] : i \in 1..Len(fs)}

(* The key of each rank is a hit, and has that rank. *)
LEMMA KeyOfRankIs ==
    ASSUME NEW H \in SUBSET Nat, IsFiniteSet(H), NEW j \in 1..Cardinality(H)
    PROVE  KeyOfRank(H, j) \in H /\ Rank(H, KeyOfRank(H, j)) = j
<1>1. \E x \in H : Rank(H, x) = j
  BY RankBij
<1>2. QED
  BY <1>1 DEF KeyOfRank, Rank

(* kvb.store.Filter returns each hit once, with its stored value, and     *)
(* nothing else.                                                          *)
LEMMA StoreFilterProps ==
    ASSUME store \in [Keys -> Vals \cup {Missing}], NEW mn, NEW mx
    PROVE  LET fs == StoreFilter(mn, mx) IN
           /\ fs \in Seq(Keys \X Vals)
           /\ KeysUnique(fs)
           /\ PairSet(fs) = {<<k, store[k]>> : k \in Hits(mn, mx)}
<1> DEFINE H == Hits(mn, mx)
           C == Cardinality(H)
           fs == [j \in 1..C |-> StorePair(H, j)]
<1>1. H \in SUBSET Nat /\ IsFiniteSet(H) /\ H \subseteq Keys
  BY StoreAssumption, FS_Subset DEF Hits
<1>2. C \in Nat
  BY <1>1, FS_CardinalityType
<1>3. \A j \in 1..C : KeyOfRank(H, j) \in H /\ Rank(H, KeyOfRank(H, j)) = j
  BY <1>1, KeyOfRankIs
<1>4. \A k \in H : store[k] \in Vals
  BY DEF Hits
<1>5. StoreFilter(mn, mx) = fs
  BY StoreFilterIs
<1>6. fs \in Seq(Keys \X Vals) /\ Len(fs) = C
  <2>1. \A j \in 1..C : StorePair(H, j) \in Keys \X Vals
    BY <1>1, <1>3, <1>4 DEF StorePair
  <2>2. QED
    BY <1>2, <2>1
<1>7. KeysUnique(fs)
  <2> SUFFICES ASSUME NEW i \in 1..C, NEW j \in 1..C,
                      KeyOfRank(H, i) = KeyOfRank(H, j)
               PROVE  i = j
    BY <1>6 DEF KeysUnique, StorePair
  <2>1. QED
    BY <1>3
<1>8. PairSet(fs) = {<<k, store[k]>> : k \in H}
  <2>1. \A k \in H : \E j \in 1..C : KeyOfRank(H, j) = k
    <3> SUFFICES ASSUME NEW k \in H PROVE \E j \in 1..C : KeyOfRank(H, j) = k
      OBVIOUS
    <3>1. Rank(H, k) \in 1..C
      BY <1>1, RankMono
    <3>2. Rank(H, KeyOfRank(H, Rank(H, k))) = Rank(H, k)
          /\ KeyOfRank(H, Rank(H, k)) \in H
      BY <1>3, <3>1
    <3>3. \A x, y \in H : Rank(H, x) = Rank(H, y) => x = y
      BY <1>1, RankBij
    <3>4. QED
      BY <3>1, <3>2, <3>3
  <2>2. QED
    BY <1>3, <1>6, <2>1 DEF PairSet, StorePair
<1>9. QED
  BY <1>5, <1>6, <1>7, <1>8

(* Cutting out the i0-th element of s with SubSeq, as RemoveKey does,    *)
(* leaves the elements before i0 in place and moves the later ones down. *)
LEMMA CutOut ==
    ASSUME NEW P, NEW s \in Seq(P), NEW i0 \in 1..Len(s)
    PROVE  SubSeq(s, 1, i0 - 1) \o SubSeq(s, i0 + 1, Len(s)) =
             [j \in 1..Len(s) - 1 |-> IF j < i0 THEN s[j] ELSE s[j + 1]]
<1> DEFINE u == SubSeq(s, 1, i0 - 1)
           v == SubSeq(s, i0 + 1, Len(s))
           g == [j \in 1..Len(s) - 1 |-> IF j < i0 THEN s[j] ELSE s[j + 1]]
<1>1. u \in Seq(P) /\ Len(u) = i0 - 1 /\ \A j \in 1..i0 - 1 : u[j] = s[j]
  BY SubSeqProperties
<1>2. v \in Seq(P) /\ Len(v) = Len(s) - i0 /\ \A j \in 1..Len(s) - i0 : v[j] = s[i0 + j]
  BY SubSeqProperties
<1> HIDE DEF u, v
<1>3. u \o v \in Seq(P) /\ Len(u \o v) = Len(u) + Len(v)
      /\ \A j \in 1..Len(u) + Len(v) : (u \o v)[j] = IF j <= Len(u) THEN u[j] ELSE v[j - Len(u)]
  BY <1>1, <1>2, ConcatProperties
<1>4. g \in Seq(P) /\ Len(g) = Len(s) - 1
  OBVIOUS
<1>5. ASSUME NEW j \in 1..Len(s) - 1 PROVE (u \o v)[j] = g[j]
  <2>1. CASE j < i0
    BY <1>1, <1>3, <2>1
  <2>2. CASE j >= i0
    <3>1. j - Len(u) \in 1..Len(s) - i0 /\ i0 + (j - Len(u)) = j + 1
      BY <1>1, <2>2
    <3>2. (u \o v)[j] = v[j - Len(u)]
      BY <1>1, <1>2, <1>3, <2>2
    <3>3. v[j - Len(u)] = s[j + 1]
      BY <1>2, <3>1
    <3>4. QED
      BY <2>2, <3>2, <3>3
  <2>3. j < i0 \/ j >= i0
    OBVIOUS
  <2>4. QED
    BY <2>1, <2>2, <2>3, Zenon
<1>6. Len(u \o v) = Len(g)
  BY <1>1, <1>2, <1>3, <1>4
<1>7. u \o v = g
  BY <1>3, <1>4, <1>5, <1>6, SeqEqual
<1>8. QED
  BY <1>7 DEF u, v

(* Removing key k from a result with unique keys drops exactly the pair  *)
(* with key k and keeps the others, each once: the removal Filter makes  *)
(* before it appends a buffered Put and for a buffered Delete.            *)
LEMMA RemoveKeyProps ==
    ASSUME NEW P, NEW fs \in Seq(P), KeysUnique(fs), NEW k
    PROVE  LET r == RemoveKey(fs, k) IN
           /\ r \in Seq(P)
           /\ KeysUnique(r)
           /\ PairSet(r) = {p \in PairSet(fs) : p[1] # k}
<1> DEFINE L == Len(fs)
           idx == {i \in 1..L : fs[i][1] = k}
<1>1. CASE idx = {}
  <2>1. RemoveKey(fs, k) = fs
    BY <1>1 DEF RemoveKey
  <2>2. \A i \in 1..L : fs[i][1] # k
    BY <1>1
  <2>3. QED
    BY <2>1, <2>2 DEF PairSet
<1>2. CASE idx # {}
  <2>1. PICK i0 \in idx : TRUE
    BY <1>2
  <2>0. i0 \in 1..L /\ fs[i0][1] = k /\ L \in Nat
    BY <2>1
  <2>2. \A y \in idx : y = i0
    BY <2>1 DEF KeysUnique
  <2>3. (CHOOSE x \in idx : \A y \in idx : x <= y) = i0
    BY <2>1, <2>2
  <2>4. RemoveKey(fs, k) = SubSeq(fs, 1, i0 - 1) \o SubSeq(fs, i0 + 1, L)
    BY <1>2, <2>3 DEF RemoveKey
  <2> DEFINE g == [j \in 1..L - 1 |-> IF j < i0 THEN fs[j] ELSE fs[j + 1]]
  <2>5. SubSeq(fs, 1, i0 - 1) \o SubSeq(fs, i0 + 1, L) = g
    BY <2>0, CutOut
  <2>6. g \in Seq(P) /\ Len(g) = L - 1
    BY <2>1
  <2>7. KeysUnique(g)
    <3> SUFFICES ASSUME NEW i \in 1..L - 1, NEW j \in 1..L - 1, g[i][1] = g[j][1]
                 PROVE  i = j
      BY <2>6 DEF KeysUnique
    <3> DEFINE a == IF i < i0 THEN i ELSE i + 1
               b == IF j < i0 THEN j ELSE j + 1
    <3>1. a \in 1..L /\ b \in 1..L /\ g[i] = fs[a] /\ g[j] = fs[b]
      BY <2>1
    <3>2. a = b
      BY <3>1 DEF KeysUnique
    <3>3. QED
      BY <2>1, <3>2
  <2>8. PairSet(g) = {p \in PairSet(fs) : p[1] # k}
    <3>1. \A i \in 1..L : i # i0 <=> fs[i][1] # k
      BY <2>1, <2>2
    <3>2. \A j \in 1..L - 1 : \E i \in 1..L : i # i0 /\ g[j] = fs[i]
      BY <2>1
    <3>3. \A i \in 1..L : i # i0 => \E j \in 1..L - 1 : g[j] = fs[i]
      <4> SUFFICES ASSUME NEW i \in 1..L, i # i0 PROVE \E j \in 1..L - 1 : g[j] = fs[i]
        OBVIOUS
      <4>1. CASE i < i0
        <5>1. i \in 1..L - 1 /\ g[i] = fs[i]
          BY <2>0, <4>1
        <5>2. QED
          BY <5>1
      <4>2. CASE i > i0
        <5>1. i - 1 \in 1..L - 1 /\ g[i - 1] = fs[i]
          BY <2>0, <4>2
        <5>2. QED
          BY <5>1
      <4>3. QED
        BY <2>0, <4>1, <4>2
    <3>4. ASSUME NEW p \in PairSet(g) PROVE p \in PairSet(fs) /\ p[1] # k
      <4>1. PICK j \in 1..L - 1 : p = g[j]
        BY <2>6 DEF PairSet
      <4>2. PICK i \in 1..L : i # i0 /\ g[j] = fs[i]
        BY <3>2
      <4>3. QED
        BY <3>1, <4>1, <4>2 DEF PairSet
    <3>5. ASSUME NEW p \in PairSet(fs), p[1] # k PROVE p \in PairSet(g)
      <4>1. PICK i \in 1..L : p = fs[i]
        BY DEF PairSet
      <4>2. i # i0
        BY <3>1, <3>5, <4>1
      <4>3. PICK j \in 1..L - 1 : g[j] = fs[i]
        BY <3>3, <4>2
      <4>4. QED
        BY <2>6, <4>1, <4>3 DEF PairSet
    <3>6. QED
      BY <3>4, <3>5
  <2>9. QED
    BY <2>4, <2>5, <2>6, <2>7, <2>8
<1>3. QED
  BY <1>1, <1>2

(* Removing a key keeps a sequence of pairs a sequence of pairs. *)
LEMMA RemoveKeyType ==
    ASSUME NEW P, NEW fs \in Seq(P), NEW k
    PROVE  RemoveKey(fs, k) \in Seq(P)
<1> DEFINE idx == {i \in 1..Len(fs) : fs[i][1] = k}
<1>1. CASE idx = {}
  BY <1>1 DEF RemoveKey
<1>2. CASE idx # {}
  <2>0. idx \in SUBSET Nat
    OBVIOUS
  <2>1. \E m \in idx : \A y \in idx : m <= y
    BY <1>2, <2>0, NatMin
  <2> DEFINE i == CHOOSE x \in idx : \A y \in idx : x <= y
  <2>2. i \in 1..Len(fs)
    BY <2>1
  <2>3. RemoveKey(fs, k) = SubSeq(fs, 1, i - 1) \o SubSeq(fs, i + 1, Len(fs))
    BY <1>2 DEF RemoveKey
  <2>4. SubSeq(fs, 1, i - 1) \o SubSeq(fs, i + 1, Len(fs)) =
          [j \in 1..Len(fs) - 1 |-> IF j < i THEN fs[j] ELSE fs[j + 1]]
    BY <2>2, CutOut
  <2>5. [j \in 1..Len(fs) - 1 |-> IF j < i THEN fs[j] ELSE fs[j + 1]] \in Seq(P)
    BY <2>2
  <2>6. QED
    BY <2>3, <2>4, <2>5
<1>3. QED
  BY <1>1, <1>2

-----------------------------------------------------------------------------
(* The Filter condition of the caller looks at the key only: it holds of *)
(* a key for every value or for none, nil (a Delete's value) included.    *)
CondOnKey == \A k \in Keys, v, w \in Vals \cup {NilValue} : Cond(k, v) <=> Cond(k, w)

(* What a Filter over [mn, mx] should return when Get reads V: the keys   *)
(* in range whose value is present and satisfies cond, with that value.  *)
Sel(V, mn, mx) == {x \in Keys : InRange(x, mn, mx) /\ V[x] # Missing /\ Cond(x, V[x])}

Expected(V, mn, mx) == {<<k, V[k]>> : k \in Sel(V, mn, mx)}

(* ViewOf over a well-typed store and buffer is a map of values and      *)
(* ErrNotExist.                                                           *)
LEMMA ViewOfType ==
    ASSUME NEW st \in [Keys -> Vals \cup {Missing}], NEW buf \in Seq(Writes)
    PROVE  ViewOf(st, buf) \in [Keys -> Vals \cup {Missing}]
<1> SUFFICES ASSUME NEW k \in Keys PROVE ValueIn(st, buf, k) \in Vals \cup {Missing}
  BY DEF ViewOf
<1> DEFINE i == LastWrite(buf, k)
<1>1. i = 0 \/ i \in 1..Len(buf)
  BY LastWriteSpec
<1>2. CASE i = 0
  BY <1>2 DEF ValueIn
<1>3. CASE i \in 1..Len(buf)
  <2>1. buf[i].type = "Put" => buf[i].value \in Vals
    BY <1>3 DEF Writes
  <2>2. i # 0
    BY <1>3
  <2>3. QED
    BY <2>1, <2>2 DEF ValueIn
<1>4. QED
  BY <1>1, <1>2, <1>3

(* A pair of the expected result for key k means k is selected. *)
LEMMA ExpectedKey ==
    ASSUME NEW V, NEW mn, NEW mx, NEW p \in Expected(V, mn, mx)
    PROVE  p[1] \in Sel(V, mn, mx) /\ p = <<p[1], V[p[1]]>>
BY DEF Expected

-----------------------------------------------------------------------------
(* One step of kvb.Filter's scan of the buffer: entry i applied to the   *)
(* result x so far.                                                       *)
FilterStep(mn, mx, i, x) ==
    LET e == buffer[i] IN
    IF BufferInRange(e.key, mn, mx) /\ Cond(e.key, EntryValue(e))
    THEN IF e.type = "Put"
         THEN Append(RemoveKey(x, e.key), <<e.key, e.value>>)
         ELSE RemoveKey(x, e.key)
    ELSE x

(* The results of the scan after each prefix of the buffer. *)
FilterFun(mn, mx) ==
    CHOOSE f : f = [i \in 0..Len(buffer) |->
                      IF i = 0 THEN StoreFilter(mn, mx)
                      ELSE FilterStep(mn, mx, i, f[i - 1])]

LEMMA FilterIsFun ==
    ASSUME NEW mn, NEW mx
    PROVE  Filter(mn, mx) = FilterFun(mn, mx)[Len(buffer)]
BY DEF Filter, FilterFun, FilterStep

(* A buffer entry applied to a result of pairs leaves a result of pairs. *)
LEMMA FilterStepType ==
    ASSUME buffer \in Seq(Writes), NEW mn, NEW mx, NEW i \in 1..Len(buffer),
           NEW x \in Seq(Keys \X Vals)
    PROVE  FilterStep(mn, mx, i, x) \in Seq(Keys \X Vals)
<1> DEFINE e == buffer[i]
<1>1. e \in Writes
  OBVIOUS
<1>2. RemoveKey(x, e.key) \in Seq(Keys \X Vals)
  BY RemoveKeyType
<1>3. e.type = "Put" => <<e.key, e.value>> \in Keys \X Vals
  BY <1>1 DEF Writes
<1>4. QED
  BY <1>2, <1>3 DEF FilterStep

(* The scan has a result for every prefix of the buffer: the recursive  *)
(* definition in Filter has a solution (least-counterexample induction   *)
(* on the length of the prefix).                                          *)
LEMMA FilterFunExists ==
    ASSUME store \in [Keys -> Vals \cup {Missing}], buffer \in Seq(Writes),
           NEW mn, NEW mx
    PROVE  \E f \in [0..Len(buffer) -> Seq(Keys \X Vals)] :
             \A i \in 0..Len(buffer) :
               f[i] = IF i = 0 THEN StoreFilter(mn, mx) ELSE FilterStep(mn, mx, i, f[i - 1])
<1> DEFINE PS == Seq(Keys \X Vals)
           NB == Len(buffer)
           P(n) == \E f \in [0..n -> PS] :
                     \A i \in 0..n : f[i] = IF i = 0 THEN StoreFilter(mn, mx)
                                            ELSE FilterStep(mn, mx, i, f[i - 1])
<1>0. StoreFilter(mn, mx) \in PS
  BY StoreFilterProps
<1>1. \A n \in 0..NB : P(n)
  <2> DEFINE T == {n \in 0..NB : ~P(n)}
  <2> SUFFICES ASSUME T # {} PROVE FALSE
    OBVIOUS
  <2>1. T \in SUBSET Nat
    OBVIOUS
  <2>2. PICK m \in T : \A y \in T : m <= y
    BY <2>1, NatMin
  <2>3. CASE m = 0
    <3> DEFINE f == [i \in 0..0 |-> StoreFilter(mn, mx)]
    <3>1. f \in [0..0 -> PS] /\ \A i \in 0..0 : f[i] = StoreFilter(mn, mx)
      BY <1>0
    <3>2. P(0)
      <4> USE <3>1
      <4> WITNESS f \in [0..0 -> PS]
      <4> QED
        BY <3>1
    <3>3. QED
      BY <2>2, <2>3, <3>2
  <2>4. CASE m # 0
    <3>0. m \in 1..NB
      BY <2>2, <2>4
    <3>1. P(m - 1)
      <4>1. m - 1 \in 0..NB /\ ~(m <= m - 1)
        BY <3>0
      <4>2. m - 1 \notin T
        BY <2>2, <4>1
      <4>3. QED
        BY <4>1, <4>2
    <3>2. PICK g \in [0..m - 1 -> PS] :
            \A i \in 0..m - 1 : g[i] = IF i = 0 THEN StoreFilter(mn, mx)
                                       ELSE FilterStep(mn, mx, i, g[i - 1])
      BY <3>1
    <3> DEFINE f == [i \in 0..m |-> IF i < m THEN g[i] ELSE FilterStep(mn, mx, m, g[m - 1])]
    <3>3. FilterStep(mn, mx, m, g[m - 1]) \in PS
      <4>1. g[m - 1] \in PS
        BY <3>0, <3>2
      <4>2. QED
        BY <3>0, <4>1, FilterStepType
    <3>4. f \in [0..m -> PS]
      BY <3>0, <3>2, <3>3
    <3>5. \A i \in 0..m : f[i] = IF i = 0 THEN StoreFilter(mn, mx)
                                 ELSE FilterStep(mn, mx, i, f[i - 1])
      <4> SUFFICES ASSUME NEW i \in 0..m
                   PROVE  f[i] = IF i = 0 THEN StoreFilter(mn, mx)
                                 ELSE FilterStep(mn, mx, i, f[i - 1])
        OBVIOUS
      <4>1. CASE i < m
        <5>1. f[i] = g[i]
          BY <4>1
        <5>2. i # 0 => f[i - 1] = g[i - 1]
          BY <4>1
        <5>3. i \in 0..m - 1
          BY <3>0, <4>1
        <5>4. g[i] = IF i = 0 THEN StoreFilter(mn, mx) ELSE FilterStep(mn, mx, i, g[i - 1])
          BY <3>2, <5>3
        <5>5. QED
          BY <5>1, <5>2, <5>4
      <4>2. CASE i = m
        <5>1. f[i] = FilterStep(mn, mx, m, g[m - 1])
          BY <4>2
        <5>2. f[i - 1] = g[m - 1]
          BY <3>0, <4>2
        <5>3. QED
          BY <2>4, <4>2, <5>1, <5>2
      <4>3. QED
        BY <3>0, <4>1, <4>2
    <3>6. P(m)
      <4> USE <3>4, <3>5
      <4> WITNESS f \in [0..m -> PS]
      <4> QED
        BY <3>4, <3>5
    <3>7. QED
      BY <2>2, <3>6
  <2>5. QED
    BY <2>3, <2>4
<1>2. QED
  BY <1>1

(* The scan's results satisfy the recursive equation Filter defines them *)
(* by: the CHOOSE in Filter picks a solution, since one exists.          *)
LEMMA FilterFunEq ==
    ASSUME store \in [Keys -> Vals \cup {Missing}], buffer \in Seq(Writes),
           NEW mn, NEW mx
    PROVE  FilterFun(mn, mx) =
             [i \in 0..Len(buffer) |->
                IF i = 0 THEN StoreFilter(mn, mx)
                ELSE FilterStep(mn, mx, i, FilterFun(mn, mx)[i - 1])]
<1>1. PICK g \in [0..Len(buffer) -> Seq(Keys \X Vals)] :
        \A i \in 0..Len(buffer) :
          g[i] = IF i = 0 THEN StoreFilter(mn, mx) ELSE FilterStep(mn, mx, i, g[i - 1])
  BY FilterFunExists
<1>2. g = [i \in 0..Len(buffer) |->
             IF i = 0 THEN StoreFilter(mn, mx) ELSE FilterStep(mn, mx, i, g[i - 1])]
  BY <1>1
<1>3. QED
  BY <1>2 DEF FilterFun

-----------------------------------------------------------------------------
(* A scan result is right for view V: pairs, each key once, exactly the *)
(* expected pairs.                                                        *)
ResultOK(fs, V, mn, mx) ==
    /\ fs \in Seq(Keys \X Vals)
    /\ KeysUnique(fs)
    /\ PairSet(fs) = Expected(V, mn, mx)

(* Before the scan looks at the buffer, the store's Filter is right for *)
(* the store's view.                                                      *)
LEMMA StoreFilterOK ==
    ASSUME store \in [Keys -> Vals \cup {Missing}], NEW mn, NEW mx
    PROVE  ResultOK(StoreFilter(mn, mx), ViewOf(store, << >>), mn, mx)
<1>1. ViewOf(store, << >>) = store
  BY ViewOfEmpty
<1>2. Expected(store, mn, mx) = {<<k, store[k]>> : k \in Hits(mn, mx)}
  BY DEF Expected, Sel, Hits
<1>3. QED
  BY <1>1, <1>2, StoreFilterProps DEF ResultOK

(* The buffer scan's range test agrees with the range of the store's     *)
(* Filter on natural keys and bounds.                                     *)
LEMMA BufferInRangeIs ==
    ASSUME NEW k \in Nat, NEW mn \in Nat, NEW mx \in Nat
    PROVE  BufferInRange(k, mn, mx) <=> InRange(k, mn, mx)
BY DEF BufferInRange, InRange

(* One buffer entry applied by the scan keeps the result right for the  *)
(* view after that entry: a Put in range replaces the key's pair, a      *)
(* Delete in range removes it, and an entry out of range or failing cond *)
(* leaves a key that, the condition looking at the key only, was not in  *)
(* the result before it either.                                           *)
LEMMA FilterStepOK ==
    ASSUME store \in [Keys -> Vals \cup {Missing}], buffer \in Seq(Writes), CondOnKey,
           NEW mn \in {0} \cup Keys, NEW mx \in {0} \cup Keys,
           NEW i \in 1..Len(buffer), NEW x,
           ResultOK(x, ViewOf(store, SubSeq(buffer, 1, i - 1)), mn, mx)
    PROVE  ResultOK(FilterStep(mn, mx, i, x), ViewOf(store, SubSeq(buffer, 1, i)), mn, mx)
<1> DEFINE ent == buffer[i]
           ek == ent.key
           b0 == SubSeq(buffer, 1, i - 1)
           V0 == ViewOf(store, b0)
           V1 == ViewOf(store, SubSeq(buffer, 1, i))
           E0 == Expected(V0, mn, mx)
           Rem == RemoveKey(x, ek)
<1>1. ent \in Writes /\ ek \in Keys /\ ek \in Nat /\ mn \in Nat /\ mx \in Nat
  <2>1. ent \in Writes
    OBVIOUS
  <2>2. ek \in Keys
    BY <2>1 DEF Writes
  <2>3. Keys \subseteq Nat
    BY StoreAssumption
  <2>4. ek \in Nat
    BY <2>2, <2>3
  <2>5. mn \in Nat /\ mx \in Nat
    BY <2>3
  <2>6. QED
    BY <2>1, <2>2, <2>4, <2>5
<1>2. b0 \in Seq(Writes) /\ SubSeq(buffer, 1, i) = Append(b0, ent)
  OBVIOUS
<1>3. V1 = [V0 EXCEPT ![ek] = Written(ent)]
  <2>1. \A xx \in Seq(Writes), ee \in Writes :
          ViewOf(store, Append(xx, ee)) = [ViewOf(store, xx) EXCEPT ![ee.key] = Written(ee)]
    BY ViewOfAppend
  <2>2. QED
    BY <1>1, <1>2, <2>1
<1>4. V0 \in [Keys -> Vals \cup {Missing}] /\ Written(ent) \in Vals \cup {Missing}
  BY <1>1, <1>2, ViewOfType DEF Written, Writes
<1>5. Expected(V1, mn, mx) =
        {p \in E0 : p[1] # ek}
        \cup {q \in {<<ek, Written(ent)>>} : InRange(ek, mn, mx) /\ Written(ent) # Missing
                                           /\ Cond(ek, Written(ent))}
  BY <1>1, <1>3, <1>4 DEF Expected, Sel
<1>6. x \in Seq(Keys \X Vals) /\ KeysUnique(x) /\ PairSet(x) = E0
  BY DEF ResultOK
<1>7. Rem \in Seq(Keys \X Vals) /\ KeysUnique(Rem) /\ PairSet(Rem) = {p \in E0 : p[1] # ek}
  BY <1>6, RemoveKeyProps
<1>8. BufferInRange(ek, mn, mx) <=> InRange(ek, mn, mx)
  BY <1>1, BufferInRangeIs
<1>9. EntryValue(ent) \in Vals \cup {NilValue}
  BY <1>1 DEF EntryValue, Writes
(* No pair of the old result has key ek when ek cannot be selected. *)
<1>10. ASSUME ~(InRange(ek, mn, mx) /\ V0[ek] # Missing /\ Cond(ek, V0[ek]))
       PROVE  {p \in E0 : p[1] # ek} = E0
  <2>1. \A p \in E0 : p[1] \in Sel(V0, mn, mx)
    BY ExpectedKey
  <2>2. ek \notin Sel(V0, mn, mx)
    BY <1>10 DEF Sel
  <2>3. QED
    BY <2>1, <2>2
<1>11. CASE ~InRange(ek, mn, mx)
  <2>1. FilterStep(mn, mx, i, x) = x
    BY <1>8, <1>11 DEF FilterStep
  <2>2. Expected(V1, mn, mx) = E0
    BY <1>5, <1>10, <1>11
  <2>3. QED
    BY <1>6, <2>1, <2>2 DEF ResultOK
<1>12. CASE InRange(ek, mn, mx) /\ ~Cond(ek, EntryValue(ent))
  <2>1. FilterStep(mn, mx, i, x) = x
    BY <1>8, <1>12 DEF FilterStep
  <2>2. \A w \in Vals \cup {NilValue} : ~Cond(ek, w)
    BY <1>1, <1>9, <1>12 DEF CondOnKey
  <2>3. ~(InRange(ek, mn, mx) /\ V0[ek] # Missing /\ Cond(ek, V0[ek]))
    BY <1>1, <1>4, <2>2
  <2>4. ~(Written(ent) # Missing /\ Cond(ek, Written(ent)))
    BY <1>4, <2>2
  <2>5. Expected(V1, mn, mx) = E0
    BY <1>5, <1>10, <2>3, <2>4
  <2>6. QED
    BY <1>6, <2>1, <2>5 DEF ResultOK
<1>13. CASE InRange(ek, mn, mx) /\ Cond(ek, EntryValue(ent)) /\ ent.type = "Put"
  <2>1. FilterStep(mn, mx, i, x) = Append(Rem, <<ek, ent.value>>)
    BY <1>8, <1>13 DEF FilterStep
  <2>2. ent.value \in Vals /\ Written(ent) = ent.value /\ EntryValue(ent) = ent.value
    BY <1>1, <1>13 DEF Writes, Written, EntryValue
  <2>3. ent.value # Missing
    BY <2>2, StoreAssumption
  <2>4. Expected(V1, mn, mx) = PairSet(Rem) \cup {<<ek, ent.value>>}
    BY <1>5, <1>7, <1>13, <2>2, <2>3
  <2>5. \A j \in 1..Len(Rem) : Rem[j][1] # ek
    BY <1>7 DEF PairSet
  <2>6. <<ek, ent.value>> \in Keys \X Vals
    BY <1>1, <2>2
  <2>7. /\ Append(Rem, <<ek, ent.value>>) \in Seq(Keys \X Vals)
        /\ KeysUnique(Append(Rem, <<ek, ent.value>>))
        /\ PairSet(Append(Rem, <<ek, ent.value>>)) = PairSet(Rem) \cup {<<ek, ent.value>>}
    <3>1. Append(Rem, <<ek, ent.value>>) \in Seq(Keys \X Vals)
          /\ Len(Append(Rem, <<ek, ent.value>>)) = Len(Rem) + 1
          /\ Append(Rem, <<ek, ent.value>>)[Len(Rem) + 1] = <<ek, ent.value>>
          /\ \A j \in 1..Len(Rem) : Append(Rem, <<ek, ent.value>>)[j] = Rem[j]
      BY <1>7, <2>6
    <3>2. KeysUnique(Append(Rem, <<ek, ent.value>>))
      BY <1>7, <2>5, <3>1 DEF KeysUnique
    <3>3. PairSet(Append(Rem, <<ek, ent.value>>)) = PairSet(Rem) \cup {<<ek, ent.value>>}
      <4> DEFINE App == Append(Rem, <<ek, ent.value>>)
      <4>1. Len(Rem) \in Nat
        BY <1>7
      <4>2. \A j \in 1..Len(Rem) + 1 : j \in 1..Len(Rem) \/ j = Len(Rem) + 1
        BY <4>1
      <4>3. PairSet(App) \subseteq PairSet(Rem) \cup {<<ek, ent.value>>}
        <5> SUFFICES ASSUME NEW j \in 1..Len(App)
                     PROVE  App[j] \in PairSet(Rem) \cup {<<ek, ent.value>>}
          BY DEF PairSet
        <5>1. j \in 1..Len(Rem) \/ j = Len(Rem) + 1
          BY <3>1, <4>2
        <5>2. CASE j \in 1..Len(Rem)
          BY <3>1, <5>2 DEF PairSet
        <5>3. CASE j = Len(Rem) + 1
          BY <3>1, <5>3
        <5>4. QED
          BY <5>1, <5>2, <5>3
      <4>4. PairSet(Rem) \subseteq PairSet(App)
        <5> SUFFICES ASSUME NEW j \in 1..Len(Rem)
                     PROVE  Rem[j] \in PairSet(App)
          BY DEF PairSet
        <5>1. j \in 1..Len(App) /\ App[j] = Rem[j]
          BY <3>1, <4>1
        <5>2. QED
          BY <5>1 DEF PairSet
      <4>5. <<ek, ent.value>> \in PairSet(App)
        <5>1. Len(Rem) + 1 \in 1..Len(App) /\ App[Len(Rem) + 1] = <<ek, ent.value>>
          BY <3>1, <4>1
        <5>2. QED
          BY <5>1 DEF PairSet
      <4>6. QED
        BY <4>3, <4>4, <4>5
    <3>4. QED
      BY <3>1, <3>2, <3>3
  <2>8. QED
    BY <2>1, <2>4, <2>7 DEF ResultOK
<1>14. CASE InRange(ek, mn, mx) /\ Cond(ek, EntryValue(ent)) /\ ent.type # "Put"
  <2>1. FilterStep(mn, mx, i, x) = Rem
    BY <1>8, <1>14 DEF FilterStep
  <2>2. Written(ent) = Missing
    BY <1>14 DEF Written
  <2>3. Expected(V1, mn, mx) = PairSet(Rem)
    BY <1>5, <1>7, <2>2
  <2>4. QED
    BY <1>7, <2>1, <2>3 DEF ResultOK
<1>15. QED
  BY <1>11, <1>12, <1>13, <1>14


(* Induction over the buffer: the scan's result after the first n        *)
(* entries is the expected result of the view those n entries leave.     *)
LEMMA FilterAllOK ==
    ASSUME store \in [Keys -> Vals \cup {Missing}], buffer \in Seq(Writes), CondOnKey,
           NEW mn \in {0} \cup Keys, NEW mx \in {0} \cup Keys
    PROVE  \A n \in 0..Len(buffer) :
             ResultOK(FilterFun(mn, mx)[n], ViewOf(store, SubSeq(buffer, 1, n)), mn, mx)
<1> DEFINE F == FilterFun(mn, mx)
           NB == Len(buffer)
           Bad == {n \in 0..NB : ~ResultOK(F[n], ViewOf(store, SubSeq(buffer, 1, n)), mn, mx)}
<1>1. F = [n \in 0..NB |-> IF n = 0 THEN StoreFilter(mn, mx) ELSE FilterStep(mn, mx, n, F[n - 1])]
  BY FilterFunEq
<1>2. \A ii \in 1..NB : \A xx :
        ResultOK(xx, ViewOf(store, SubSeq(buffer, 1, ii - 1)), mn, mx)
          => ResultOK(FilterStep(mn, mx, ii, xx), ViewOf(store, SubSeq(buffer, 1, ii)), mn, mx)
  BY FilterStepOK
<1> SUFFICES ASSUME Bad # {} PROVE FALSE
  OBVIOUS
<1>3. NB \in Nat /\ Bad \in SUBSET Nat
  OBVIOUS
<1>4. PICK m \in Bad : \A y \in Bad : m <= y
  BY <1>3, NatMin
<1>5. CASE m = 0
  <2>1. F[0] = StoreFilter(mn, mx)
    BY <1>1, <1>3
  <2>2. SubSeq(buffer, 1, 0) = << >>
    OBVIOUS
  <2>3. ResultOK(F[0], ViewOf(store, SubSeq(buffer, 1, 0)), mn, mx)
    BY <2>1, <2>2, StoreFilterOK
  <2>4. QED
    BY <1>4, <1>5, <2>3
<1>6. CASE m # 0
  <2>1. m \in 1..NB /\ m - 1 \in 0..NB /\ ~(m <= m - 1)
    BY <1>3, <1>4, <1>6
  <2>2. m - 1 \notin Bad
    BY <1>4, <2>1
  <2>3. ResultOK(F[m - 1], ViewOf(store, SubSeq(buffer, 1, m - 1)), mn, mx)
    BY <2>1, <2>2
  <2>4. F[m] = FilterStep(mn, mx, m, F[m - 1])
    BY <1>1, <2>1
  <2>5. ResultOK(F[m], ViewOf(store, SubSeq(buffer, 1, m)), mn, mx)
    BY <1>2, <2>1, <2>3, <2>4
  <2>6. QED
    BY <1>4, <2>5
<1>7. QED
  BY <1>5, <1>6

(* In every state, when cond looks at the key only, kvb.Filter returns    *)
(* each key once and exactly the pairs kvb.Get reports in range.         *)
LEMMA FilterMatchesGetHolds ==
    ASSUME TypeOK, CondOnKey
    PROVE  FilterMatchesGet
<1> SUFFICES ASSUME NEW mn \in {0} \cup Keys, NEW mx \in {0} \cup Keys
             PROVE  LET fs == Filter(mn, mx) IN
                    /\ \A i, j \in 1..Len(fs) : fs[i][1] = fs[j][1] => i = j
                    /\ {fs[i] : i \in 1..Len(fs)} =
                         {<<k, Get(k)>> : k \in {x \in Keys : /\ InRange(x, mn, mx)
                                                            /\ Get(x) # Missing
                                                            /\ Cond(x, Get(x))}}
  BY DEF FilterMatchesGet
<1>1. store \in [Keys -> Vals \cup {Missing}] /\ buffer \in Seq(Writes)
  BY DEF TypeOK
<1>2. Filter(mn, mx) = FilterFun(mn, mx)[Len(buffer)]
  BY FilterIsFun
<1>3. SubSeq(buffer, 1, Len(buffer)) = buffer
  BY <1>1
<1>4. ResultOK(FilterFun(mn, mx)[Len(buffer)], ViewOf(store, buffer), mn, mx)
  <2>1. Len(buffer) \in 0..Len(buffer)
    BY <1>1
  <2>2. QED
    BY <1>1, <1>3, <2>1, FilterAllOK
<1>5. View = ViewOf(store, buffer)
  BY ViewIsViewOf
<1>6. Expected(View, mn, mx) =
        {<<k, Get(k)>> : k \in {x \in Keys : /\ InRange(x, mn, mx)
                                           /\ Get(x) # Missing
                                           /\ Cond(x, Get(x))}}
  BY DEF Expected, Sel, View
<1>7. QED
  BY <1>2, <1>4, <1>5, <1>6 DEF ResultOK, KeysUnique, PairSet

(* kvb.Filter agrees with kvb.Get in every reachable state, whatever the  *)
(* sequence of Put, Delete, Snapshot, Revert and Flush calls, provided the *)
(* filter's cond decides on the key alone.  With a cond that looks at the *)
(* value, a buffered entry that fails cond leaves the store's pair in the *)
(* result (run kvstore_filter_value_cond), so the hypothesis is needed.   *)
THEOREM FilterAlwaysMatchesGet == CondOnKey => (Spec => []FilterMatchesGet)
<1> SUFFICES ASSUME CondOnKey PROVE Spec => []FilterMatchesGet
  OBVIOUS
<1>1. TypeOK => FilterMatchesGet
  BY FilterMatchesGetHolds
<1>2. QED
  BY <1>1, KVTypeCorrect, PTL

=============================================================================
