----------------------------- MODULE Blockchain -----------------------------
(***************************************************************************)
(* The block lifecycle of src/blockchain/blockchain.go: ValidateBlock,     *)
(* CommitBlock, Pause, AddSubscriber and RemoveSubscriber, driven by       *)
(* several callers (consensus, block sync) that each validate a block and  *)
(* later commit it.  ValidateBlock, CommitBlock, Pause and MintNewBlock   *)
(* hold bc.mu (read or write) for their whole body, and AddSubscriber and  *)
(* RemoveSubscriber are one call of the pub-sub manager, which takes its  *)
(* own lock; so each is one atomic step, and what may interleave is the   *)
(* gap between one caller's ValidateBlock and its CommitBlock.            *)
(* MintNewBlock builds a block on the tip for the caller to propose.      *)
(*                                                                         *)
(* The block archive (blockdao) is not under src/: its PutBlock is         *)
(* modelled from the spec (height must be tip+1, an already stored block   *)
(* is reported as ErrAlreadyExist, storage may fail).  So is the pub-sub   *)
(* manager: subscribers receive the block synchronously, after the store. *)
(* So is the block builder (bbf.Mint): it executes the pending actions    *)
(* on the context of the tip and signs a block at the context's height   *)
(* whose previous hash is the tip hash, or fails.                         *)
(***************************************************************************)
EXTENDS Naturals, Sequences

CONSTANTS
    Blocks,         \* candidate blocks; a block's hash is the block itself
    Height,         \* Height[b]: the height in b's header
    Prev,           \* Prev[b]: the previous-hash in b's header
    Invalid,        \* blocks that fail the signature, tx-root or validator checks
    Genesis,        \* the genesis hash, the tip hash at height 0
    Callers,        \* goroutines that call ValidateBlock then CommitBlock
    Subscribers,    \* block-creation subscribers
    NoBlock,        \* a caller with no validated block in hand
    StorageCanFail, \* whether dao.PutBlock may fail with a storage error
    KeysAvailable,  \* len(bc.config.ProducerPrivateKeys()) > 0
    MintCanFail     \* whether dao.Height, tipInfo or bbf.Mint may fail

ASSUME BlockAssumption ==
    /\ Genesis \notin Blocks
    /\ NoBlock \notin Blocks \cup {Genesis}
    /\ Height \in [Blocks -> Nat]
    /\ Prev \in [Blocks -> Blocks \cup {Genesis}]
    /\ Invalid \subseteq Blocks
    /\ StorageCanFail \in BOOLEAN
    /\ KeysAvailable \in BOOLEAN
    /\ MintCanFail \in BOOLEAN

VARIABLES
    chain,      \* the archive: chain[h] is the block stored at height h
    paused,     \* bc.pause
    pending,    \* pending[c]: the block c validated and will commit
    subs,       \* the registered subscribers
    received,   \* received[s]: the blocks delivered to s, in order
    since,      \* history: the tip height when s was last registered (the
                \* code records none; SubscribersInOrder refers to it)
    minted      \* minted[c]: the block MintNewBlock last returned to c

vars == <<chain, paused, pending, subs, received, since, minted>>

-----------------------------------------------------------------------------
(* tip as bc.dao.Height() reports it, and its hash as tipInfo builds it.  *)
TipHeight == Len(chain)

HashAt(h) == IF h = 0 THEN Genesis ELSE chain[h]

TipHash == HashAt(TipHeight)

(* The checks of ValidateBlock against the tip read under the read lock. *)
(* Height 0 is exempt from the height check, not from the link check.   *)
HeightOK(b) == Height[b] = 0 \/ Height[b] = TipHeight + 1

(* Mutant: ValidateBlock without the previous-hash check.                 *)
LinkOKMutant(b) == TRUE

LinkOK(b) == Prev[b] = TipHash

Verified(b) == b \notin Invalid

IsValid(b) == HeightOK(b) /\ LinkOK(b) /\ Verified(b)

-----------------------------------------------------------------------------
Init ==
    /\ chain = << >>
    /\ paused = FALSE
    /\ pending = [c \in Callers |-> NoBlock]
    /\ subs = {}
    /\ received = [s \in Subscribers |-> << >>]
    /\ since = [s \in Subscribers |-> 0]
    /\ minted = [c \in Callers |-> NoBlock]

(* ValidateBlock(b) by caller c: read-only for the chain; on success c    *)
(* keeps b to commit it, on any error it drops what it held.             *)
ValidateBlock(c, b) ==
    /\ pending' = [pending EXCEPT ![c] = IF IsValid(b) THEN b ELSE NoBlock]
    /\ UNCHANGED <<chain, paused, subs, received, since, minted>>

(* bc.pubSubManager.SendBlockToSubscribers: every registered subscriber  *)
(* receives b.                                                           *)
emitToSubscribers(b) ==
    received' = [s \in Subscribers |->
                   IF s \in subs THEN Append(received[s], b) ELSE received[s]]

(* Mutant: the ErrAlreadyExist case falls through to the notification.   *)
AlreadyExistMutant(b) ==
    /\ emitToSubscribers(b)
    /\ UNCHANGED chain

(* The ErrAlreadyExist case of commitBlock: swallowed, returns nil.       *)
AlreadyExist(b) == UNCHANGED <<chain, received>>

(* dao.PutBlock(b): ErrAlreadyExist for a stored block; a block at tip+1 *)
(* is stored (the tip moves); another height is ErrInvalidTipHeight; a    *)
(* storage error may occur instead.  Only after a successful store does   *)
(* commitBlock emit b to the subscribers.                                  *)
commitBlock(b) ==
    \/ /\ \E i \in 1..Len(chain) : chain[i] = b
       /\ AlreadyExist(b)
    \/ /\ \A i \in 1..Len(chain) : chain[i] # b
       /\ Height[b] = TipHeight + 1
       /\ chain' = Append(chain, b)
       /\ emitToSubscribers(b)
    \/ /\ \A i \in 1..Len(chain) : chain[i] # b
       /\ Height[b] # TipHeight + 1
       /\ UNCHANGED <<chain, received>>
    \/ /\ StorageCanFail
       /\ UNCHANGED <<chain, received>>

(* The bc.pause check at the top of CommitBlock.                           *)
Running == ~paused

(* CommitBlock(pending[c]) under the write lock: ErrPaused when paused,   *)
(* otherwise commitBlock.  The caller is done with the block either way.  *)
CommitBlock(c) ==
    LET b == pending[c] IN
    /\ b # NoBlock
    /\ pending' = [pending EXCEPT ![c] = NoBlock]
    /\ \/ /\ ~Running
          /\ UNCHANGED <<chain, received>>
       \/ /\ Running
          /\ commitBlock(b)
    /\ UNCHANGED <<paused, subs, since, minted>>

Pause(p) ==
    /\ paused' = p
    /\ UNCHANGED <<chain, pending, subs, received, since, minted>>

AddSubscriber(s) ==
    /\ s \notin subs
    /\ subs' = subs \cup {s}
    /\ since' = [since EXCEPT ![s] = TipHeight]
    /\ UNCHANGED <<chain, paused, pending, received, minted>>

RemoveSubscriber(s) ==
    /\ s \in subs
    /\ subs' = subs \ {s}
    /\ UNCHANGED <<chain, paused, pending, received, since, minted>>

(* newblockHeight := tipHeight + 1 in MintNewBlock.                       *)
NewBlockHeight == TipHeight + 1

(* MintNewBlock by caller c under the read lock, with or without a       *)
(* producer key in its options: with none and no configured key it       *)
(* errors; dao.Height, tipInfo and the builder may fail; otherwise the   *)
(* builder returns a signed block at newblockHeight on the tip hash.      *)
(* On an error the caller holds no block.                                 *)
MintNewBlock(c, withKey) ==
    /\ \/ /\ ~withKey
          /\ ~KeysAvailable
          /\ minted' = [minted EXCEPT ![c] = NoBlock]
       \/ /\ withKey \/ KeysAvailable
          /\ MintCanFail
          /\ minted' = [minted EXCEPT ![c] = NoBlock]
       \/ /\ withKey \/ KeysAvailable
          /\ \E b \in Blocks \ Invalid :
                /\ Height[b] = NewBlockHeight
                /\ Prev[b] = TipHash
                /\ minted' = [minted EXCEPT ![c] = b]
    /\ UNCHANGED <<chain, paused, pending, subs, received, since>>

Next ==
    \/ \E c \in Callers, b \in Blocks : ValidateBlock(c, b)
    \/ \E c \in Callers : CommitBlock(c)
    \/ \E p \in BOOLEAN : Pause(p)
    \/ \E s \in Subscribers : AddSubscriber(s) \/ RemoveSubscriber(s)
    \/ \E c \in Callers, k \in BOOLEAN : MintNewBlock(c, k)

Spec == Init /\ [][Next]_vars

-----------------------------------------------------------------------------
TypeOK ==
    /\ chain \in Seq(Blocks)
    /\ paused \in BOOLEAN
    /\ pending \in [Callers -> Blocks \cup {NoBlock}]
    /\ subs \subseteq Subscribers
    /\ received \in [Subscribers -> Seq(Blocks)]
    /\ since \in [Subscribers -> Nat]
    /\ minted \in [Callers -> Blocks \cup {NoBlock}]

(* The archive is one valid chain: the block at height h carries height  *)
(* h, links to the block at h-1 (genesis for h = 1) and passed the       *)
(* signature and validator checks, although CommitBlock itself checks   *)
(* none of this and callers commit what they validated against a tip    *)
(* that other callers' commits may since have moved.                     *)
ChainValid ==
    \A h \in 1..Len(chain) :
        /\ Height[chain[h]] = h
        /\ Prev[chain[h]] = HashAt(h - 1)
        /\ chain[h] \notin Invalid

(* Subscribers see exactly the committed chain, once and in order: each  *)
(* delivered block is the archive's block at its height, heights strictly *)
(* increase, and a registered subscriber has received every block        *)
(* committed since it registered (emitToSubscribers after PutBlock, and  *)
(* never on the ErrAlreadyExist path).                                   *)
SubscribersInOrder ==
    \A s \in Subscribers :
        /\ \A i \in 1..Len(received[s]) :
              LET b == received[s][i] IN
              /\ Height[b] \in 1..Len(chain)
              /\ chain[Height[b]] = b
        /\ \A i \in 1..Len(received[s]) - 1 :
              Height[received[s][i]] < Height[received[s][i + 1]]
        /\ s \in subs =>
              \A h \in since[s] + 1..Len(chain) :
                  \E i \in 1..Len(received[s]) : received[s][i] = chain[h]

=============================================================================
