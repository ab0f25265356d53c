------------------------ MODULE MCKVStoreWithBuffer ------------------------
(* Two keys, two values, two batches that touch one key twice or two   *)
(* keys at once, and two Filter conditions: one that looks at the key    *)
(* only, one that looks at the value the way a decoding filter does.      *)
EXTENDS KVStoreWithBuffer

CONSTANTS v1, v2

MCKeys == 1..2

MCBatches ==
    { << [type |-> "Put", key |-> 1, value |-> v1],
         [type |-> "Delete", key |-> 2] >>,
      << [type |-> "Delete", key |-> 2],
         [type |-> "Put", key |-> 2, value |-> v2] >> }

(* cond(k, v) == k is odd: the key decides, whatever the value. *)
KeyCond == {<<k, v>> \in MCKeys \X {v1, v2, NilValue} : k % 2 = 1}

(* cond(k, v) == v decodes to v1: a Delete's nil value fails it. *)
ValueCond == {<<k, v>> \in MCKeys \X {v1, v2, NilValue} : v = v1}
=============================================================================
