---------------------------- MODULE MPTEncoding ----------------------------
(***************************************************************************)
(* The encoding side of the Merkle Patricia trie that the StackTrie        *)
(* builds: the nibble codec (keybytesToHex, hexToCompactInPlace), the RLP  *)
(* sizes of the short and full node layouts, and the idealised hash.       *)
(*                                                                         *)
(* A node encoding ("blob") is kept as a structured record together with   *)
(* its exact RLP byte length.  Only the length decides anything in the     *)
(* StackTrie (inline below 32 bytes, hashed otherwise); the structure      *)
(* stands for the bytes, so two blobs are equal exactly when their         *)
(* encodings are.  Keccak-256 is modelled as collision free: the digest   *)
(* of a blob is a record that holds the blob.                              *)
(***************************************************************************)
EXTENDS Integers, Sequences, Functions

\* The terminator nibble that marks a leaf key in hex form.
Terminator == 16

\* The sixteen child slots of a full node.
Slots == 0..15

\* keybytesToHex: every byte becomes two nibbles, high first, and the
\* terminator is appended.
KeybytesToHex(bytes) ==
    [i \in 1..2 * Len(bytes) |->
        IF i % 2 = 1 THEN bytes[(i + 1) \div 2] \div 16
                     ELSE bytes[i \div 2] % 16]
    \o <<Terminator>>

\* hexToCompactInPlace: one flag byte (leaf flag << 5 | odd flag << 4 |
\* first nibble when odd), then the remaining nibbles packed pairwise.
HexToCompact(hex) ==
    LET term == IF hex # <<>> /\ hex[Len(hex)] = Terminator THEN 1 ELSE 0
        h    == IF term = 1 THEN SubSeq(hex, 1, Len(hex) - 1) ELSE hex
        odd  == Len(h) % 2
        rest == IF odd = 1 THEN Tail(h) ELSE h
        flag == 32 * term + 16 * odd + (IF odd = 1 THEN h[1] ELSE 0)
    IN  <<flag>> \o [i \in 1..(Len(rest) \div 2) |-> 16 * rest[2*i - 1] + rest[2*i]]

\* Number of bytes of the big-endian form of n (n > 0).
RECURSIVE ByteLen(_)
ByteLen(n) == IF n < 256 THEN 1 ELSE 1 + ByteLen(n \div 256)

\* Size of an RLP string or list header for a payload of n bytes.
HeadSize(n) == IF n <= 55 THEN 1 ELSE 1 + ByteLen(n)

\* Size of the RLP encoding of a byte string: a single byte below 0x80 is
\* its own encoding.
StringSize(bytes) ==
    IF Len(bytes) = 1 /\ bytes[1] < 128 THEN 1 ELSE HeadSize(Len(bytes)) + Len(bytes)

ListSize(payload) == HeadSize(payload) + payload

(***************************************************************************)
(* References to a child inside a parent's encoding: an empty slot         *)
(* (nilValueNode), a value (valueNode), an inline encoding (rawNode, the   *)
(* blob itself) or a digest (hashNode, written as a 32-byte string).       *)
(***************************************************************************)
NilRef         == [ref |-> "nil"]
ValueRef(v)    == [ref |-> "value", value |-> v]
InlineRef(b)   == [ref |-> "inline", blob |-> b]
DigestRef(b)   == [ref |-> "digest", blob |-> b]

RefSize(r) ==
    CASE r.ref = "nil"    -> 1
      [] r.ref = "value"  -> StringSize(r.value)
      [] r.ref = "inline" -> r.blob.size
      [] r.ref = "digest" -> 33

\* Length of what a hashed node keeps in its val field: the inline blob or
\* the 32-byte digest (the code's len(child.val)).
ValLen(r) == IF r.ref = "inline" THEN r.blob.size ELSE 32

\* shortNode{Key, Val}.encode: a 2-list of the compact key and the child.
ShortBlob(compact, r) ==
    [kind |-> "short", key |-> compact, child |-> r,
     size |-> ListSize(StringSize(compact) + RefSize(r))]

\* fullNode.encode: a 17-list, slots 0..15 then an empty value slot.
FullBlob(refs) ==
    [kind |-> "full", children |-> refs,
     size |-> ListSize(SumFunction([s \in Slots |-> RefSize(refs[s])]) + 1)]

\* The RLP encoding of the empty string, whose digest is emptyRoot.
EmptyBlob == [kind |-> "empty", size |-> 1]
EmptyRoot == DigestRef(EmptyBlob)

\* The blob of a leaf: the key gets the terminator before compacting.
LeafBlob(key, value) == ShortBlob(HexToCompact(key \o <<Terminator>>), ValueRef(value))

\* The blob of an extension over a child that is already hashed.
ExtBlob(key, childVal) == ShortBlob(HexToCompact(key), childVal)

\* The inline-or-hash decision for a non-root node.
RefOf(b) == IF b.size < 32 THEN InlineRef(b) ELSE DigestRef(b)
=============================================================================
