------------------------------ MODULE TxJSON -------------------------------
(***************************************************************************)
(* The JSON codec of transactions (core/types transaction_marshalling.go,  *)
(* concatenated into src/trie/stacktrie.go at lines 5314-5756):            *)
(* MarshalJSON, UnmarshalJSON and yParityValue.                            *)
(*                                                                         *)
(* A JSON object is a record with one field per txJSON field; an absent or *)
(* null field (a nil pointer after json.Unmarshal) is Nil.  Scalars are    *)
(* small integers, and hexutil.Big admits at most 256 bits, so the         *)
(* uint256.MustFromBig conversions cannot overflow on decoded input and are *)
(* kept as plain copies.  Byte strings, addresses, access lists and blobs  *)
(* are model values; only the zero address is told apart.  A transaction   *)
(* is a record with exactly the fields of its Go struct; "panic" is the    *)
(* outcome of a nil pointer dereference.                                   *)
(***************************************************************************)
EXTENDS Integers, Sequences, TLC

CONSTANTS
    Nil,          \* an absent JSON field, a nil pointer
    ZeroAddress,  \* common.Address{}
    SecpN,        \* secp256k1N; r and s must lie in 1..SecpN-1
    Txs,          \* transactions a node holds and serves as JSON
    Inputs,       \* JSON objects a peer may send
    MaxHops,      \* bound on decode/encode round trips of one object
    Word64        \* 2^64, the range of a uint64 (scaled down for TLC)

\* The txJSON fields, in declaration order (hash is only written).
Fields == {"type", "nonce", "gasPrice", "maxPriorityFeePerGas", "maxFeePerGas",
           "maxFeePerBlobGas", "gas", "value", "input", "v", "r", "s", "to",
           "authorizationList", "yParity", "chainId", "accessList", "expiredTime",
           "payerV", "payerR", "payerS", "blobVersionedHashes", "blobs",
           "commitments", "proofs"}

\* The empty txJSON: every pointer nil.
EmptyJSON == [f \in Fields |-> Nil]

Ok(tx)  == [ok |-> TRUE, tx |-> tx]
Err(m)  == [ok |-> FALSE, err |-> m]

-----------------------------------------------------------------------------
(* sanityCheckSignature (core/types/transaction.go, not in src/).          *)

\* isProtectedV: an 8-bit v other than 0, 1, 27, 28 carries a chain id.
IsProtectedV(v) == v >= 256 \/ v \notin {0, 1, 27, 28}

\* crypto.ValidateSignatureValues(v, r, s, homestead = false).
ValidSignatureValues(v, r, s) ==
    v \in {0, 1} /\ r >= 1 /\ s >= 1 /\ r < SecpN /\ s < SecpN

\* The recovery id: v - 35 - 2*chainId when protected, v - 27 for an
\* unprotected legacy v, v itself otherwise; byte() keeps 8 bits of the
\* uint64 difference.
SanityCheckSignature(v, r, s, maybeProtected) ==
    LET plainV == CASE IsProtectedV(v) -> (v - 35 - 2 * ((v - 35) \div 2)) % 256
                    [] maybeProtected  -> (v - 27) % 256
                    [] OTHER           -> v % 256
    IN  CASE IsProtectedV(v) /\ ~maybeProtected     -> "unexpected protection"
          [] ~ValidSignatureValues(plainV, r, s)   -> "invalid signature"
          [] OTHER                                 -> "ok"

-----------------------------------------------------------------------------
(* yParityValue and MarshalJSON.                                           *)

\* yParity must be 0 or 1 and agree with v when both are given; otherwise
\* v is used; neither is an error.
YParityValue(dec) ==
    CASE dec.yParity # Nil /\ dec.yParity \notin {0, 1}      -> Err("invalid yParity")
      [] dec.yParity # Nil /\ dec.v # Nil /\ dec.v # dec.yParity -> Err("v/yParity mismatch")
      [] dec.yParity # Nil                                  -> Ok(dec.yParity)
      [] dec.v # Nil                                        -> Ok(dec.v)
      [] OTHER                                              -> Err("missing v/yParity")

\* MarshalJSON: the common fields, then those of the transaction's type.
MarshalJSON(tx) ==
    LET common == [EmptyJSON EXCEPT
                     !.type = tx.type, !.nonce = tx.nonce, !.gas = tx.gas,
                     !.value = tx.value, !.input = tx.data, !.to = tx.to,
                     !.v = tx.v, !.r = tx.r, !.s = tx.s]
    IN  CASE tx.type = "legacy" -> [common EXCEPT !.gasPrice = tx.gasPrice]
          [] tx.type = "accesslist" ->
                [common EXCEPT !.gasPrice = tx.gasPrice, !.chainId = tx.chainId,
                               !.accessList = tx.accessList]
          [] tx.type = "dynamicfee" ->
                [common EXCEPT !.chainId = tx.chainId, !.accessList = tx.accessList,
                               !.maxFeePerGas = tx.feeCap,
                               !.maxPriorityFeePerGas = tx.tipCap]
          [] tx.type = "sponsored" ->
                [common EXCEPT !.chainId = tx.chainId, !.maxFeePerGas = tx.feeCap,
                               !.maxPriorityFeePerGas = tx.tipCap,
                               !.expiredTime = tx.expiredTime, !.payerV = tx.payerV,
                               !.payerR = tx.payerR, !.payerS = tx.payerS]
          [] tx.type = "blob" ->
                [common EXCEPT !.chainId = tx.chainId, !.accessList = tx.accessList,
                               !.maxFeePerGas = tx.feeCap,
                               !.maxPriorityFeePerGas = tx.tipCap,
                               !.maxFeePerBlobGas = tx.blobFeeCap,
                               !.blobVersionedHashes = tx.blobHashes,
                               !.blobs = tx.sidecar, !.commitments = tx.sidecar,
                               !.proofs = tx.sidecar]
          [] tx.type = "setcode" ->
                [common EXCEPT !.chainId = tx.chainId, !.maxFeePerGas = tx.feeCap,
                               !.maxPriorityFeePerGas = tx.tipCap,
                               !.accessList = tx.accessList,
                               !.authorizationList = tx.authList,
                               !.yParity = tx.v]

-----------------------------------------------------------------------------
(* UnmarshalJSON.                                                          *)

\* The first field of fs (in order) that is absent, or Nil.
FirstMissing(dec, fs) ==
    LET miss == {i \in DOMAIN fs : dec[fs[i]] = Nil}
    IN  IF miss = {} THEN Nil ELSE fs[CHOOSE i \in miss : \A j \in miss : i <= j]

\* The fields every type's case reads after the common ones, in the order
\* the case tests them (access lists are optional and never tested).
TypeFields(t) ==
    CASE t = "legacy"     -> <<"gasPrice">>
      [] t = "accesslist" -> <<"chainId", "gasPrice">>
      [] t = "dynamicfee" -> <<"chainId", "maxPriorityFeePerGas", "maxFeePerGas">>
      [] t = "sponsored"  -> <<"chainId", "maxPriorityFeePerGas", "maxFeePerGas",
                              "expiredTime", "payerV", "payerR", "payerS">>
      [] t = "blob"       -> <<"chainId", "maxPriorityFeePerGas", "maxFeePerGas">>
      [] t = "setcode"    -> <<"chainId", "nonce", "to", "gas", "maxPriorityFeePerGas",
                              "maxFeePerGas", "value">>

\* Mutant of FeeFields: tip and fee cap read from each other's field.
FeeFieldsSwapped(dec) ==
    [chainId |-> dec.chainId, tipCap |-> dec.maxFeePerGas,
     feeCap |-> dec.maxPriorityFeePerGas]

\* The fee fields of the EIP-1559 style types.
FeeFields(dec) ==
    [chainId |-> dec.chainId, tipCap |-> dec.maxPriorityFeePerGas,
     feeCap |-> dec.maxFeePerGas]

\* The transaction a successful decode builds: the fields of the type's
\* struct, copied from the JSON.  The set-code case starts from a zero
\* SetCodeTx and never assigns Data, so its input stays empty; its chain
\* id is ToInt().Uint64(), the low 64 bits.
Built(dec) ==
    LET base == [type |-> dec.type, nonce |-> dec.nonce, gas |-> dec.gas, to |-> dec.to,
                 value |-> dec.value, data |-> dec.input, v |-> dec.v, r |-> dec.r,
                 s |-> dec.s]
        fees == FeeFields(dec)
    IN  CASE dec.type = "legacy"     -> base @@ [gasPrice |-> dec.gasPrice]
          [] dec.type = "accesslist" -> base @@ [gasPrice |-> dec.gasPrice,
                                                chainId |-> dec.chainId,
                                                accessList |-> dec.accessList]
          [] dec.type = "dynamicfee" -> base @@ fees @@ [accessList |-> dec.accessList]
          [] dec.type = "sponsored"  -> base @@ fees @@
                                        [expiredTime |-> dec.expiredTime, payerV |-> dec.payerV,
                                         payerR |-> dec.payerR, payerS |-> dec.payerS]
          [] dec.type = "blob"       -> base @@ fees @@
                                        [accessList |-> dec.accessList,
                                         blobFeeCap |-> dec.maxFeePerBlobGas,
                                         blobHashes |-> dec.blobVersionedHashes,
                                         sidecar |-> Nil]
          [] dec.type = "setcode"    -> [base EXCEPT !.data = "0x"] @@
                                        [fees EXCEPT !.chainId = dec.chainId % Word64] @@
                                        [accessList |-> dec.accessList,
                                         authList |-> dec.authorizationList]

\* The signature of a set-code tx: v from yParityValue; checked only when
\* one of v, r, s is non-zero.
SetCodeSignature(dec) ==
    LET yp == YParityValue(dec)
    IN  CASE dec.authorizationList = Nil -> Err("missing authorizationList")
          [] dec.r = Nil                 -> Err("missing r")
          [] dec.s = Nil                 -> Err("missing s")
          [] ~yp.ok                      -> yp
          [] (yp.tx # 0 \/ dec.r # 0 \/ dec.s # 0) /\
             SanityCheckSignature(yp.tx, dec.r, dec.s, FALSE) # "ok"
                                         -> Err(SanityCheckSignature(yp.tx, dec.r, dec.s, FALSE))
          [] OTHER -> Ok([Built(dec) EXCEPT !.v = yp.tx])

\* Mutant of TypeChecks: the payer signature of a sponsored transaction
\* is not checked.
TypeChecksNoPayer(dec) ==
    CASE dec.type = "blob" /\ dec.to = Nil          -> Err("panic")
      [] dec.type = "blob" /\ dec.to = ZeroAddress  -> Err("missing to")
      [] dec.type = "blob" /\ dec.maxFeePerBlobGas = Nil    -> Err("missing maxFeePerBlobGas")
      [] dec.type = "blob" /\ dec.blobVersionedHashes = Nil -> Err("missing blobVersionedHashes")
      [] dec.type = "setcode" -> SetCodeSignature(dec)
      [] OTHER -> Ok(Built(dec))

\* The type-specific checks after the fields of TypeFields: the blob case
\* dereferences the decoded 'to' pointer, the sponsored case checks the
\* payer signature, the set-code case its own signature.
TypeChecks(dec) ==
    CASE dec.type = "sponsored" /\
         SanityCheckSignature(dec.payerV, dec.payerR, dec.payerS, FALSE) # "ok"
             -> Err(SanityCheckSignature(dec.payerV, dec.payerR, dec.payerS, FALSE))
      [] dec.type = "blob" /\ dec.to = Nil          -> Err("panic")
      [] dec.type = "blob" /\ dec.to = ZeroAddress  -> Err("missing to")
      [] dec.type = "blob" /\ dec.maxFeePerBlobGas = Nil    -> Err("missing maxFeePerBlobGas")
      [] dec.type = "blob" /\ dec.blobVersionedHashes = Nil -> Err("missing blobVersionedHashes")
      [] dec.type = "setcode" -> SetCodeSignature(dec)
      [] OTHER -> Ok(Built(dec))

\* UnmarshalJSON: the common required fields in order, the signature check
\* when any of v, r, s is non-zero (a legacy v may carry a chain id), then
\* the case of the type.
UnmarshalJSON(dec) ==
    LET common  == FirstMissing(dec, <<"nonce", "gas", "value", "input", "v", "r", "s">>)
        signed  == dec.v # 0 \/ dec.r # 0 \/ dec.s # 0
        sanity  == SanityCheckSignature(dec.v, dec.r, dec.s, dec.type = "legacy")
        known   == dec.type \in {"legacy", "accesslist", "dynamicfee", "sponsored",
                                 "blob", "setcode"}
    IN  CASE common # Nil              -> Err("missing " \o common)
          [] signed /\ sanity # "ok"   -> Err(sanity)
          [] ~known                    -> Err("type not supported")
          [] FirstMissing(dec, TypeFields(dec.type)) # Nil
                                       -> Err("missing " \o FirstMissing(dec, TypeFields(dec.type)))
          [] OTHER                     -> TypeChecks(dec)
-----------------------------------------------------------------------------
(* A relay of one JSON object: it is decoded, and what decodes is encoded  *)
(* and decoded again, as a JSON-RPC client forwarding a transaction does.  *)
(* The object is either a transaction a node marshalled, or any input.     *)

VARIABLES
    json,      \* the JSON object in flight
    decoded,   \* the result of the last UnmarshalJSON, or Nil
    source,    \* the transaction first marshalled, or Nil for an input
    hops       \* round trips done

tvars == <<json, decoded, source, hops>>

TInit ==
    /\ \/ \E t \in Txs : source = t /\ json = MarshalJSON(t)
       \/ source = Nil /\ json \in Inputs
    /\ decoded = Nil /\ hops = 0

Decode ==
    /\ decoded = Nil
    /\ decoded' = UnmarshalJSON(json)
    /\ UNCHANGED <<json, source, hops>>

Encode ==
    /\ decoded # Nil /\ decoded.ok /\ hops < MaxHops
    /\ json' = MarshalJSON(decoded.tx)
    /\ decoded' = Nil
    /\ hops' = hops + 1
    /\ UNCHANGED source

TNext == Decode \/ Encode

TSpec == TInit /\ [][TNext]_tvars

-----------------------------------------------------------------------------
(* Properties.                                                             *)

\* What the JSON form carries of a transaction: the sidecar of a blob
\* transaction is written (blobs, commitments, proofs) but never read back.
Carried(tx) == IF tx.type = "blob" THEN [tx EXCEPT !.sidecar = Nil] ELSE tx

\* A transaction a node marshalled decodes to itself (less the blob
\* sidecar): MarshalJSON writes every field UnmarshalJSON requires of the
\* type, under the name it reads it from, and the decoder rebuilds every
\* field of the type's struct.
RoundTrip ==
    (source # Nil /\ decoded # Nil) => decoded = Ok(Carried(source))

\* No transaction leaves the decoder with a signature that fails the
\* sanity check, unless it is unsigned (v, r, s all zero), and no
\* sponsored transaction leaves it with a bad payer signature: the common
\* check, the set-code check on the yParity value and the payer check
\* together cover every type.
DecodedSignaturesSane ==
    (decoded # Nil /\ decoded.ok) =>
        LET tx == decoded.tx
        IN  /\ \/ tx.v = 0 /\ tx.r = 0 /\ tx.s = 0
               \/ SanityCheckSignature(tx.v, tx.r, tx.s, tx.type = "legacy") = "ok"
            /\ tx.type = "sponsored" =>
                   SanityCheckSignature(tx.payerV, tx.payerR, tx.payerS, FALSE) = "ok"

\* UnmarshalJSON reports malformed input as an error ("missing required
\* field ..."); it never panics.
DecodeNeverPanics ==
    decoded = Nil \/ decoded.ok \/ decoded.err # "panic"

\* yParityValue's comment: the parity "can be given in the 'v' field or
\* the 'yParity' field".  A set-code object that gives only a valid
\* yParity is not rejected for lacking v.
YParityMayReplaceV ==
    (decoded # Nil /\ json.type = "setcode" /\ json.v = Nil /\ json.yParity \in {0, 1})
        => (decoded.ok \/ decoded.err # "missing v")
=============================================================================
