------------------------------- MODULE KVMap -------------------------------
(***************************************************************************)
(* What a buffered key-value store promises its caller (spec §3, §4.2):   *)
(* one map that every Put and Delete changes at once (read-your-writes),  *)
(* nested snapshots of that map, and reverting to snapshot i restores the *)
(* map as it was when i was taken and forgets the later snapshots.        *)
(* Flushing is invisible at this level.                                    *)
(***************************************************************************)
EXTENDS Naturals, Sequences

CONSTANTS
    Keys,       \* the keys of the one namespace modelled
    Vals,       \* the values a caller writes
    Missing,    \* Get's not-found
    Batches     \* the write batches callers hand to WriteBatch

(* A write: a put of value v to key k, or a delete of k. *)
Writes == [type : {"Put"}, key : Keys, value : Vals]
            \cup [type : {"Delete"}, key : Keys]

(* The constants are expected to satisfy Missing \notin Vals and        *)
(* Batches \subseteq Seq(Writes); the implementation that instantiates    *)
(* this module assumes (and TLC checks) both.                             *)

VARIABLES
    map,    \* map[k]: what Get(k) returns, Missing for not found
    shots   \* shots[i + 1]: the map when snapshot i was taken

Maps == [Keys -> Vals \cup {Missing}]

Init ==
    /\ map = [k \in Keys |-> Missing]
    /\ shots = << >>

Put(k, v) ==
    /\ map' = [map EXCEPT ![k] = v]
    /\ UNCHANGED shots

Delete(k) ==
    /\ map' = [map EXCEPT ![k] = Missing]
    /\ UNCHANGED shots

(* The map after the writes of batch b, in order. *)
Applied(m, b) ==
    LET f[i \in 0..Len(b)] ==
          IF i = 0 THEN m
          ELSE [f[i - 1] EXCEPT ![b[i].key] =
                  IF b[i].type = "Put" THEN b[i].value ELSE Missing]
    IN f[Len(b)]

(* A batch of writes applied at once. *)
WriteBatch(b) ==
    /\ map' = Applied(map, b)
    /\ UNCHANGED shots

Snapshot ==
    /\ shots' = Append(shots, map)
    /\ UNCHANGED map

Revert(i) ==
    /\ i \in 0..Len(shots) - 1
    /\ map' = shots[i + 1]
    /\ shots' = SubSeq(shots, 1, i + 1)

Reset ==
    /\ shots' = << >>
    /\ UNCHANGED map

Next ==
    \/ \E k \in Keys : Delete(k) \/ \E v \in Vals : Put(k, v)
    \/ \E b \in Batches : WriteBatch(b)
    \/ Snapshot
    \/ \E i \in 0..Len(shots) - 1 : Revert(i)
    \/ Reset

Spec == Init /\ [][Next]_<<map, shots>>

=============================================================================
