--------------------------- MODULE MCProducerKeys ---------------------------
(* Key lists of up to two keys (one of them an sm2 key, which is not     *)
(* whitelisted), malformed key lists, every documented range over them,  *)
(* and the four kinds of key schema.                                      *)
EXTENDS ProducerKeys

MCScheme == [c \in {"a", "b", "s"} |-> IF c = "s" THEN "sm2" ELSE "secp256k1"]

PrivKeys == {<<"a">>, <<"a", ",", "b">>, <<"b", ",", "a">>, <<"a", ",", "s">>,
             << >>, <<"a", ",">>, <<"x">>}

Schemas == {"hex", "", "hashiCorpVault", "pem"}

DocumentedRanges == {<< >>} \cup {FmtRange(lo, hi) : lo, hi \in Bound(2)}

MCConfigs == [privKey : PrivKeys, schema : Schemas, range : DocumentedRanges]

=============================================================================
