-------------------------- MODULE BlockchainProofs --------------------------
(***************************************************************************)
(* Proofs about the block lifecycle of Blockchain, for every set of       *)
(* blocks, callers and subscribers.                                        *)
(***************************************************************************)
EXTENDS Blockchain, TLAPS

(* What a caller holds between ValidateBlock and CommitBlock: a block     *)
(* that passed the signature and validator checks and, unless it is a     *)
(* height-0 block, sits at most one above the tip and links to the block  *)
(* the archive holds one below it.  Commits by other callers may have     *)
(* moved the tip past it since; they never change the blocks below.       *)
PendingValid ==
    \A c \in Callers :
        LET p == pending[c] IN
        p # NoBlock =>
            /\ p \notin Invalid
            /\ Height[p] # 0 =>
                  /\ Height[p] <= Len(chain) + 1
                  /\ Prev[p] = HashAt(Height[p] - 1)

(* The inductive invariant behind ChainValid. *)
IInv == TypeOK /\ ChainValid /\ PendingValid

-----------------------------------------------------------------------------
(* Every step of Next keeps the type invariant. *)
LEMMA TypeStep == TypeOK /\ [Next]_vars => TypeOK'
<1> SUFFICES ASSUME TypeOK, [Next]_vars PROVE TypeOK'
  OBVIOUS
<1>1. ASSUME NEW c \in Callers, NEW b \in Blocks, ValidateBlock(c, b)
      PROVE TypeOK'
  BY <1>1 DEF ValidateBlock, TypeOK
<1>2. ASSUME NEW c \in Callers, CommitBlock(c)
      PROVE TypeOK'
  <2>1. pending[c] \in Blocks
    BY <1>2 DEF CommitBlock, TypeOK
  <2>2. Append(chain, pending[c]) \in Seq(Blocks)
    BY <2>1 DEF TypeOK
  <2>3. \A s \in Subscribers :
          Append(received[s], pending[c]) \in Seq(Blocks)
    BY <2>1 DEF TypeOK
  <2>4. chain' \in Seq(Blocks)
    BY <1>2, <2>2 DEF CommitBlock, commitBlock, AlreadyExist, TypeOK
  <2>5. received' \in [Subscribers -> Seq(Blocks)]
    BY <1>2, <2>3
    DEF CommitBlock, commitBlock, AlreadyExist, emitToSubscribers, TypeOK
  <2>6. pending' \in [Callers -> Blocks \cup {NoBlock}]
    BY <1>2 DEF CommitBlock, TypeOK
  <2>7. UNCHANGED <<paused, subs, since, minted>>
    BY <1>2 DEF CommitBlock
  <2>8. QED
    BY <2>4, <2>5, <2>6, <2>7 DEF TypeOK
<1>3. ASSUME NEW p \in BOOLEAN, Pause(p) PROVE TypeOK'
  BY <1>3 DEF Pause, TypeOK
<1>4. ASSUME NEW s \in Subscribers, AddSubscriber(s) PROVE TypeOK'
  BY <1>4 DEF AddSubscriber, TypeOK, TipHeight
<1>5. ASSUME NEW s \in Subscribers, RemoveSubscriber(s) PROVE TypeOK'
  BY <1>5 DEF RemoveSubscriber, TypeOK
<1>6. CASE UNCHANGED vars
  BY <1>6 DEF vars, TypeOK
<1>7. ASSUME NEW c \in Callers, NEW k \in BOOLEAN, MintNewBlock(c, k)
      PROVE TypeOK'
  BY <1>7 DEF MintNewBlock, TypeOK
<1>8. QED
  BY <1>1, <1>2, <1>3, <1>4, <1>5, <1>6, <1>7 DEF Next
(* The initial state is well typed. *)
LEMMA TypeInit == Init => TypeOK
<1> SUFFICES ASSUME Init PROVE TypeOK
  OBVIOUS
<1>0. chain \in Seq(Blocks)
  BY DEF Init
<1>1. paused \in BOOLEAN /\ subs \subseteq Subscribers
  BY DEF Init
<1>2. pending \in [Callers -> Blocks \cup {NoBlock}]
  BY DEF Init
<1>3. received \in [Subscribers -> Seq(Blocks)]
  BY DEF Init
<1>4. since \in [Subscribers -> Nat] /\ minted \in [Callers -> Blocks \cup {NoBlock}]
  BY DEF Init
<1>5. QED
  BY <1>0, <1>1, <1>2, <1>3, <1>4 DEF TypeOK

(* The type invariant holds in every reachable state. *)
THEOREM TypeCorrect == Spec => []TypeOK
<1>1. Init => TypeOK
  BY TypeInit
<1>2. QED
  BY <1>1, TypeStep, PTL DEF Spec

-----------------------------------------------------------------------------
(* Appending a block keeps every hash below the old tip. *)
LEMMA HashAtAppend ==
    ASSUME NEW b, chain \in Seq(Blocks), chain' = Append(chain, b),
           NEW h \in 0..Len(chain)
    PROVE  HashAt(h)' = HashAt(h)
  BY DEF HashAt

(* The inductive invariant holds in every reachable state. *)
LEMMA BlockchainIInv == Spec => []IInv
<1>1. Init => IInv
  <2> SUFFICES ASSUME Init PROVE IInv
    OBVIOUS
  <2>1. chain = << >> /\ pending = [c \in Callers |-> NoBlock]
    BY DEF Init
  <2>2. ChainValid /\ PendingValid
    BY <2>1 DEF ChainValid, PendingValid
  <2>3. QED
    BY <2>2, TypeInit DEF IInv
<1>2. IInv /\ [Next]_vars => IInv'
  <2> SUFFICES ASSUME IInv, [Next]_vars PROVE IInv'
    OBVIOUS
  <2>. USE BlockAssumption
  <2>0. TypeOK'
    BY TypeStep DEF IInv
  <2>1. ASSUME NEW c \in Callers, NEW b \in Blocks, ValidateBlock(c, b)
        PROVE IInv'
    <3>1. ChainValid'
      BY <2>1 DEF ValidateBlock, IInv, ChainValid, HashAt
    <3>2. PendingValid'
      BY <2>1 DEF ValidateBlock, IInv, TypeOK, PendingValid, IsValid,
                  HeightOK, LinkOK, Verified, TipHash, TipHeight, HashAt
    <3>3. QED
      BY <2>0, <3>1, <3>2 DEF IInv
  <2>2. ASSUME NEW c \in Callers, CommitBlock(c)
        PROVE IInv'
    <3> DEFINE b == pending[c]
    <3>1. b \in Blocks /\ b \notin Invalid
          /\ (Height[b] # 0 => /\ Height[b] <= Len(chain) + 1
                               /\ Prev[b] = HashAt(Height[b] - 1))
      BY <2>2 DEF CommitBlock, IInv, TypeOK, PendingValid
    <3>2. CASE UNCHANGED chain
      <4>1. ChainValid'
        BY <3>2 DEF IInv, ChainValid, HashAt
      <4>2. PendingValid'
        BY <2>2, <3>2 DEF CommitBlock, IInv, TypeOK, PendingValid, HashAt
      <4>3. QED
        BY <2>0, <4>1, <4>2 DEF IInv
    <3>3. CASE chain' = Append(chain, b) /\ Height[b] = Len(chain) + 1
      <4>1. \A h \in 0..Len(chain) : HashAt(h)' = HashAt(h)
        BY <3>3, HashAtAppend DEF IInv, TypeOK
      <4>2. ChainValid'
        BY <3>1, <3>3, <4>1 DEF IInv, TypeOK, ChainValid
      <4>3. PendingValid'
        BY <2>2, <3>3, <4>1 DEF CommitBlock, IInv, TypeOK, PendingValid
      <4>4. QED
        BY <2>0, <4>2, <4>3 DEF IInv
    <3>4. QED
      BY <2>2, <3>2, <3>3
      DEF CommitBlock, commitBlock, AlreadyExist, Running, TipHeight
  <2>3. ASSUME NEW p \in BOOLEAN, Pause(p) PROVE IInv'
    BY <2>0, <2>3 DEF Pause, IInv, ChainValid, PendingValid,
                      TipHeight, HashAt
  <2>4. ASSUME NEW s \in Subscribers, AddSubscriber(s) PROVE IInv'
    BY <2>0, <2>4 DEF AddSubscriber, IInv, ChainValid, PendingValid,
                      TipHeight, HashAt
  <2>5. ASSUME NEW s \in Subscribers, RemoveSubscriber(s) PROVE IInv'
    BY <2>0, <2>5 DEF RemoveSubscriber, IInv, ChainValid, PendingValid,
                      TipHeight, HashAt
  <2>6. CASE UNCHANGED vars
    BY <2>6 DEF vars, IInv, TypeOK, ChainValid, PendingValid,
                TipHeight, HashAt
  <2>7. ASSUME NEW c \in Callers, NEW k \in BOOLEAN, MintNewBlock(c, k)
        PROVE IInv'
    <3>1. UNCHANGED <<chain, pending>>
      BY <2>7 DEF MintNewBlock
    <3>2. ChainValid' /\ PendingValid'
      BY <3>1 DEF IInv, ChainValid, PendingValid, HashAt
    <3>3. QED
      BY <2>0, <3>2 DEF IInv
  <2>8. QED
    BY <2>1, <2>2, <2>3, <2>4, <2>5, <2>6, <2>7 DEF Next
<1>3. QED
  BY <1>1, <1>2, PTL DEF Spec

(* The archive is always one valid chain (ChainValid), whatever order     *)
(* the callers' validations and commits interleave in.                   *)
THEOREM ChainAlwaysValid == Spec => []ChainValid
<1>1. IInv => ChainValid
  BY DEF IInv
<1>2. QED
  BY <1>1, BlockchainIInv, PTL

-----------------------------------------------------------------------------
(* A commit that stores b at the new tip delivers it to every registered  *)
(* subscriber, after every block it received before.                      *)
LEMMA SubscribersAppend ==
    ASSUME TypeOK, SubscribersInOrder, BlockAssumption,
           NEW b \in Blocks,
           Height[b] = Len(chain) + 1,
           chain' = Append(chain, b),
           emitToSubscribers(b),
           UNCHANGED <<subs, since>>
    PROVE  SubscribersInOrder'
<1> SUFFICES ASSUME NEW s \in Subscribers
             PROVE  SubscribersInOrder!(s)'
  BY DEF SubscribersInOrder
<1> DEFINE r == received[s]
<1>1. chain' \in Seq(Blocks) /\ Len(chain') = Len(chain) + 1
      /\ chain'[Len(chain) + 1] = b
      /\ \A h \in 1..Len(chain) : chain'[h] = chain[h]
  BY DEF TypeOK
<1>2. r \in Seq(Blocks)
  BY DEF TypeOK
<1>3. \A i \in 1..Len(r) : Height[r[i]] \in 1..Len(chain) /\ chain[Height[r[i]]] = r[i]
  BY DEF SubscribersInOrder
<1>4. CASE s \in subs
  <2>1. received'[s] = Append(r, b)
    BY <1>4 DEF emitToSubscribers
  <2>2. \A i \in 1..Len(received'[s]) :
          LET x == received'[s][i] IN
          Height[x] \in 1..Len(chain') /\ chain'[Height[x]] = x
    BY <1>1, <1>2, <1>3, <2>1
  <2>3. \A i \in 1..Len(received'[s]) - 1 :
          Height[received'[s][i]] < Height[received'[s][i + 1]]
    <3>1. \A i \in 1..Len(r) - 1 : Height[r[i]] < Height[r[i + 1]]
      BY DEF SubscribersInOrder
    <3>2. Height \in [Blocks -> Nat]
      BY BlockAssumption
    <3>3. SUFFICES ASSUME NEW i \in 1..Len(received'[s]) - 1
                   PROVE  Height[received'[s][i]] < Height[received'[s][i + 1]]
      OBVIOUS
    <3>4. i \in 1..Len(r) /\ received'[s][i] = r[i]
      BY <1>2, <2>1
    <3>5. CASE i < Len(r)
      BY <1>2, <2>1, <3>1, <3>4, <3>5
    <3>6. CASE i = Len(r)
      <4>1. received'[s][i + 1] = b
        BY <1>2, <2>1, <3>6
      <4>2. Height[r[i]] \in 1..Len(chain)
        BY <1>3, <3>4
      <4>3. QED
        BY <3>2, <3>4, <4>1, <4>2
    <3>7. QED
      BY <3>4, <3>5, <3>6
  <2>4. \A h \in since'[s] + 1..Len(chain') :
          \E i \in 1..Len(received'[s]) : received'[s][i] = chain'[h]
    <3>1. \A h \in since[s] + 1..Len(chain) :
            \E i \in 1..Len(r) : r[i] = chain[h]
      BY <1>4 DEF SubscribersInOrder
    <3>2. since[s] \in Nat
      BY DEF TypeOK
    <3>3. SUFFICES ASSUME NEW h \in since[s] + 1..Len(chain')
                   PROVE  \E i \in 1..Len(received'[s]) : received'[s][i] = chain'[h]
      OBVIOUS
    <3>4. CASE h <= Len(chain)
      <4>1. PICK i \in 1..Len(r) : r[i] = chain[h]
        BY <1>1, <3>1, <3>2, <3>4
      <4>2. i \in 1..Len(received'[s]) /\ received'[s][i] = chain'[h]
        BY <1>1, <1>2, <2>1, <3>2, <3>4, <4>1
      <4>3. QED
        BY <4>2
    <3>5. CASE h = Len(chain) + 1
      <4>1. Len(r) + 1 \in 1..Len(received'[s])
            /\ received'[s][Len(r) + 1] = chain'[h]
        BY <1>1, <1>2, <2>1, <3>5
      <4>2. QED
        BY <4>1
    <3>6. QED
      BY <1>1, <3>2, <3>4, <3>5
  <2>5. QED
    BY <2>2, <2>3, <2>4, <1>4
<1>5. CASE s \notin subs
  <2>1. received'[s] = r
    BY <1>5 DEF emitToSubscribers
  <2>2. QED
    BY <1>1, <1>2, <1>3, <1>5, <2>1 DEF SubscribersInOrder
<1>6. QED
  BY <1>4, <1>5

(* Every step keeps the subscribers in step with the archive. *)
LEMMA SubscribersStep ==
    TypeOK /\ SubscribersInOrder /\ [Next]_vars => SubscribersInOrder'
<1> SUFFICES ASSUME TypeOK, SubscribersInOrder, [Next]_vars
             PROVE  SubscribersInOrder'
  OBVIOUS
<1> USE BlockAssumption
<1>1. ASSUME NEW c \in Callers, NEW b \in Blocks, ValidateBlock(c, b)
      PROVE SubscribersInOrder'
  <2>1. UNCHANGED <<chain, received, subs, since>>
    BY <1>1 DEF ValidateBlock
  <2>2. QED
    BY <2>1 DEF SubscribersInOrder
<1>2. ASSUME NEW c \in Callers, CommitBlock(c)
      PROVE SubscribersInOrder'
  <2> DEFINE b == pending[c]
  <2>1. b \in Blocks /\ UNCHANGED <<subs, since>>
    BY <1>2 DEF CommitBlock, TypeOK
  <2>2. CASE UNCHANGED <<chain, received>>
    BY <2>1, <2>2 DEF SubscribersInOrder
  <2>3. CASE /\ Height[b] = Len(chain) + 1
             /\ chain' = Append(chain, b)
             /\ emitToSubscribers(b)
    BY <2>1, <2>3, SubscribersAppend
  <2>4. QED
    BY <1>2, <2>2, <2>3
    DEF CommitBlock, commitBlock, AlreadyExist, TipHeight
<1>3. ASSUME NEW p \in BOOLEAN, Pause(p) PROVE SubscribersInOrder'
  BY <1>3 DEF Pause, SubscribersInOrder
<1>4. ASSUME NEW s \in Subscribers, AddSubscriber(s) PROVE SubscribersInOrder'
  <2>1. since'[s] = Len(chain) /\ \A t \in Subscribers \ {s} : since'[t] = since[t]
    BY <1>4 DEF AddSubscriber, TypeOK, TipHeight
  <2>2. QED
    BY <1>4, <2>1 DEF AddSubscriber, SubscribersInOrder
<1>5. ASSUME NEW s \in Subscribers, RemoveSubscriber(s) PROVE SubscribersInOrder'
  BY <1>5 DEF RemoveSubscriber, SubscribersInOrder
<1>6. CASE UNCHANGED vars
  BY <1>6 DEF vars, SubscribersInOrder
<1>7. ASSUME NEW c \in Callers, NEW k \in BOOLEAN, MintNewBlock(c, k)
      PROVE SubscribersInOrder'
  BY <1>7 DEF MintNewBlock, SubscribersInOrder
<1>8. QED
  BY <1>1, <1>2, <1>3, <1>4, <1>5, <1>6, <1>7 DEF Next

(* Subscribers see exactly the committed chain, once each and in height  *)
(* order, from the tip at which they registered (SubscribersInOrder):    *)
(* the notification follows a successful store, is skipped on           *)
(* ErrAlreadyExist and on every error, and registration starts at the tip. *)
THEOREM SubscribersAlwaysInOrder == Spec => []SubscribersInOrder
<1>1. Init => SubscribersInOrder
  BY DEF Init, SubscribersInOrder
<1>2. TypeOK /\ SubscribersInOrder /\ [Next]_vars
        => (TypeOK /\ SubscribersInOrder)'
  BY TypeStep, SubscribersStep
<1>3. QED
  BY <1>1, <1>2, TypeInit, PTL DEF Spec

=============================================================================
