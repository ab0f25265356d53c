---------------------------- MODULE ProducerKeys ----------------------------
(***************************************************************************)
(* Producer key configuration of the blockchain package                   *)
(* (src/unnamed/part_000): SetProducerPrivKey, which may replace the      *)
(* configured key by one loaded from a vault, and ProducerPrivateKeys,    *)
(* which decodes the comma-separated keys, checks their signature scheme  *)
(* and selects the sub-range ProducerPrivKeyRange "[$start:$end]".        *)
(*                                                                         *)
(* Strings are sequences of one-character strings, so that splitting,    *)
(* trimming and integer parsing are modelled by what they do.  A private  *)
(* key's hex text is abstracted to one character naming the key; its      *)
(* signature scheme is Scheme[c].  A panic is the value Panic.            *)
(***************************************************************************)
EXTENDS Integers, Sequences

CONSTANTS
    KeyChars,         \* characters that are the hex text of one key each
    Scheme,           \* Scheme[c]: the signature scheme of key c
    SignatureScheme,  \* cfg.SignatureScheme: the whitelisted schemes
    VaultKeys,        \* keys the vault loader may return
    Panic,            \* log.L().Panic: the process stops
    Configs           \* the configuration files the node may be started with

ASSUME KeysAssumption ==
    /\ Scheme \in [KeyChars -> {"secp256k1", "sm2"}]
    /\ VaultKeys \subseteq KeyChars
    /\ Panic \notin Seq(KeyChars)

VARIABLES
    cfg,    \* [privKey, schema, range]: the fields SetProducerPrivKey and
            \* ProducerPrivateKeys read, as strings
    phase   \* "loaded", then "ready" or "failed" after SetProducerPrivKey

vars == <<cfg, phase>>

DigitChar == <<"0", "1", "2", "3", "4", "5", "6", "7", "8", "9">>

Digit == [d \in {DigitChar[i] : i \in 1..10} |->
            CHOOSE n \in 0..9 : DigitChar[n + 1] = d]

-----------------------------------------------------------------------------
(* strings.Split(s, sep): the fields between the separators; "" is one    *)
(* empty field.                                                           *)
Split(s, sep) ==
    LET f[i \in 0..Len(s)] ==
          IF i = 0 THEN << << >> >>
          ELSE IF s[i] = sep THEN Append(f[i - 1], << >>)
          ELSE [f[i - 1] EXCEPT ![Len(f[i - 1])] = Append(@, s[i])]
    IN f[Len(s)]

(* strings.Trim(s, cutset): s without its leading and trailing characters *)
(* from cutset.                                                           *)
Trim(s, cutset) ==
    LET keep == {i \in 1..Len(s) : s[i] \notin cutset} IN
    IF keep = {} THEN << >>
    ELSE SubSeq(s, CHOOSE i \in keep : \A j \in keep : i <= j,
                   CHOOSE i \in keep : \A j \in keep : j <= i)

(* strconv.Atoi on a short string: an optional sign, then one or more    *)
(* decimal digits; anything else is a syntax error.                       *)
Atoi(s) ==
    LET signed == Len(s) > 0 /\ s[1] \in {"-", "+"}
        ds == IF signed THEN Tail(s) ELSE s
        val[i \in 0..Len(ds)] ==
          IF i = 0 THEN 0 ELSE 10 * val[i - 1] + Digit[ds[i]]
    IN IF ds = << >> \/ \E i \in 1..Len(ds) : ds[i] \notin DOMAIN Digit
       THEN [ok |-> FALSE, val |-> 0]
       ELSE [ok |-> TRUE,
             val |-> IF s[1] = "-" THEN -val[Len(ds)] ELSE val[Len(ds)]]

(* whitelistSignatureScheme: the key's scheme is in cfg.SignatureScheme. *)
whitelistSignatureScheme(k) == Scheme[k] \in SignatureScheme

(* crypto.HexStringToPrivateKey then whitelistSignatureScheme: a key, or *)
(* a panic for a text that is not one key or a scheme not whitelisted.    *)
DecodeKey(t) ==
    IF Len(t) = 1 /\ t[1] \in KeyChars /\ whitelistSignatureScheme(t[1])
    THEN t[1] ELSE Panic

(* Mutant: the bounds check that also rejects end = len(privateKeys).     *)
RangeInBoundsStrict(start, end, n) == ~(start < 0 \/ end >= n \/ start > end)

(* The ProducerPrivKeyRange bounds check. *)
RangeInBounds(start, end, n) == ~(start < 0 \/ end > n \/ start > end)

(* ProducerPrivateKeys: decode every key (any failure panics); no range   *)
(* selects them all; otherwise the range, trimmed of brackets, must be   *)
(* two fields around one ":", each empty (the default 0 and len) or an   *)
(* integer, within bounds; the result is privateKeys[start:end].          *)
ProducerPrivateKeys(c) ==
    LET pks == Split(c.privKey, ",")
        keys == [i \in 1..Len(pks) |-> DecodeKey(pks[i])]
        parts == Split(Trim(c.range, {"[", "]"}), ":")
        start == IF parts[1] = << >> THEN [ok |-> TRUE, val |-> 0]
                 ELSE Atoi(parts[1])
        end == IF parts[2] = << >> THEN [ok |-> TRUE, val |-> Len(keys)]
               ELSE Atoi(parts[2])
    IN IF Len(pks) = 0 \/ \E i \in 1..Len(keys) : keys[i] = Panic THEN Panic
       ELSE IF c.range = << >> THEN keys
       ELSE IF Len(parts) # 2 THEN Panic
       ELSE IF ~start.ok \/ ~end.ok THEN Panic
       ELSE IF ~RangeInBounds(start.val, end.val, Len(keys)) THEN Panic
       ELSE SubSeq(keys, start.val + 1, end.val)

-----------------------------------------------------------------------------
(* The node loads its configuration file (the environment of this module) *)
(* and, before using the keys, calls SetProducerPrivKey once.             *)
LoadConfig ==
    /\ cfg' \in Configs
    /\ phase' = "loaded"

(* SetProducerPrivKey: "hex" or "" keeps the key; "hashiCorpVault" reads *)
(* the key file, the vault config and the key (each step may fail, the    *)
(* error is returned and the node stops) and replaces ProducerPrivKey by *)
(* the key loaded; any other schema is ErrConfig.                         *)
SetProducerPrivKey ==
    /\ phase = "loaded"
    /\ \/ /\ cfg.schema \in {"hex", ""}
          /\ phase' = "ready"
          /\ UNCHANGED cfg
       \/ /\ cfg.schema = "hashiCorpVault"
          /\ \E k \in VaultKeys : cfg' = [cfg EXCEPT !.privKey = <<k>>]
          /\ phase' = "ready"
       \/ /\ cfg.schema = "hashiCorpVault"
          /\ phase' = "failed"
          /\ UNCHANGED cfg
       \/ /\ cfg.schema \notin {"hex", "", "hashiCorpVault"}
          /\ phase' = "failed"
          /\ UNCHANGED cfg

Init ==
    /\ cfg \in Configs
    /\ phase = "loaded"

Next == SetProducerPrivKey \/ LoadConfig

Spec == Init /\ [][Next]_vars

-----------------------------------------------------------------------------
(* The documented configuration, defined by formatting rather than by     *)
(* parsing: ProducerPrivKey is key texts joined by ",", and the range is  *)
(* "[$start:$end]" where either number may be left out.                   *)
Decimal(n) ==
    LET f[m \in 0..n] ==
          IF m < 10 THEN << DigitChar[m + 1] >>
          ELSE f[m \div 10] \o << DigitChar[(m % 10) + 1] >>
    IN f[n]

FmtInt(x) ==
    IF x = << >> THEN << >>
    ELSE IF x[1] < 0 THEN << "-" >> \o Decimal(-x[1]) ELSE Decimal(x[1])

FmtRange(lo, hi) == << "[" >> \o FmtInt(lo) \o << ":" >> \o FmtInt(hi) \o << "]" >>

(* The bounds a documented range may write, for a list of n keys: left   *)
(* out, or one below 0 to one above n.                                    *)
Bound(n) == {<< >>} \cup {<<x>> : x \in -1..n + 1}

Documented(c, n) ==
    c.range = << >> \/ \E lo, hi \in Bound(n) : c.range = FmtRange(lo, hi)

(* What the documentation says ProducerPrivateKeys returns: every key of *)
(* a well-formed, whitelisted list, or exactly keys start..end-1 when     *)
(* 0 <= start <= end <= len, and a panic otherwise.                      *)
Reference(c) ==
    LET t == c.privKey
        ks == [i \in 1..((Len(t) + 1) \div 2) |-> t[2 * i - 1]]
        n == Len(ks)
        wellFormed ==
          /\ Len(t) % 2 = 1
          /\ \A i \in 1..Len(t) : IF i % 2 = 1 THEN t[i] \in KeyChars
                                               ELSE t[i] = ","
    IN IF ~wellFormed \/ \E i \in 1..n : Scheme[ks[i]] \notin SignatureScheme
       THEN Panic
       ELSE IF c.range = << >> THEN ks
       ELSE LET b == CHOOSE b \in Bound(n) \X Bound(n) :
                       c.range = FmtRange(b[1], b[2])
                s == IF b[1] = << >> THEN 0 ELSE b[1][1]
                e == IF b[2] = << >> THEN n ELSE b[2][1]
            IN IF 0 <= s /\ s <= e /\ e <= n THEN SubSeq(ks, s + 1, e)
               ELSE Panic

(* The keys the node signs blocks with are the documented ones: for every *)
(* configuration in the documented format that SetProducerPrivKey         *)
(* accepted (vault keys included), splitting, trimming, integer parsing   *)
(* (signs and defaults) and the bounds check select exactly the keys the  *)
(* range denotes, an empty list when start = end, and panic exactly when  *)
(* the range is out of bounds or a key is bad.                            *)
KeysMatchReference ==
    (phase = "ready" /\ Documented(cfg, (Len(cfg.privKey) + 1) \div 2))
        => ProducerPrivateKeys(cfg) = Reference(cfg)

=============================================================================
