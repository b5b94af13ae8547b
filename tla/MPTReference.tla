--------------------------- MODULE MPTReference ----------------------------
(***************************************************************************)
(* A reference Merkle Patricia trie, defined directly from the set of      *)
(* (hex key, value) pairs it holds rather than from a sequence of          *)
(* inserts.  It is what the StackTrie must agree with: the root reference  *)
(* its Hash() returns, and the nodes a committing StackTrie hands to its   *)
(* writer.  Keys have equal length, so no key is a prefix of another and   *)
(* no branch carries a value (the StackTrie never fills slot 16).          *)
(***************************************************************************)
EXTENDS Integers, Sequences, FiniteSets, MPTEncoding

\* The longest c such that all keys of kvs agree on nibbles d+1 .. d+c.
CommonLen(kvs, d) ==
    LET k0 == (CHOOSE kv \in kvs : TRUE)[1]
        Agree(c) == \A kv \in kvs : SubSeq(kv[1], d + 1, d + c) = SubSeq(k0, d + 1, d + c)
    IN  CHOOSE c \in 0..(Len(k0) - d) :
            Agree(c) /\ (c = Len(k0) - d \/ ~Agree(c + 1))

\* The pairs of kvs whose nibble at depth d+1 is s.
Under(kvs, d, s) == {kv \in kvs : kv[1][d + 1] = s}

\* The key prefix of length d shared by all pairs of kvs.
PathOf(kvs, d) == SubSeq((CHOOSE kv \in kvs : TRUE)[1], 1, d)

(***************************************************************************)
(* NodeBlob(kvs, d): the encoding of the node at depth d that holds kvs.   *)
(* One pair is a leaf; pairs that agree on further nibbles sit under an    *)
(* extension over a branch; otherwise they sit under a branch.             *)
(***************************************************************************)
RECURSIVE NodeBlob(_, _), BranchBlob(_, _)
NodeBlob(kvs, d) ==
    LET c  == CommonLen(kvs, d)
        k0 == (CHOOSE kv \in kvs : TRUE)
    IN  CASE Cardinality(kvs) = 1 -> LeafBlob(SubSeq(k0[1], d + 1, Len(k0[1])), k0[2])
          [] c > 0 -> ExtBlob(SubSeq(k0[1], d + 1, d + c), RefOf(BranchBlob(kvs, d + c)))
          [] OTHER -> BranchBlob(kvs, d)

BranchBlob(kvs, d) ==
    FullBlob([s \in Slots |->
                IF Under(kvs, d, s) = {} THEN NilRef
                ELSE RefOf(NodeBlob(Under(kvs, d, s), d + 1))])

\* The value Hash() must return for the pairs kvs.
RootRef(kvs) == IF kvs = {} THEN EmptyRoot ELSE DigestRef(NodeBlob(kvs, 0))

(***************************************************************************)
(* Every node of the trie, with its path, its blob, whether it is stored   *)
(* on its own (it is the root, or its encoding is 32 bytes or more) and,   *)
(* for an extension whose branch is stored on its own, the paths strictly  *)
(* inside the extension's key.                                             *)
(***************************************************************************)
NodeRec(kvs, d, blob, internal) ==
    [path |-> PathOf(kvs, d), blob |-> blob, internal |-> internal,
     stored |-> d = 0 \/ blob.size >= 32]

RECURSIVE Nodes(_, _), BranchNodes(_, _)
Nodes(kvs, d) ==
    LET c == CommonLen(kvs, d)
        k0 == (CHOOSE kv \in kvs : TRUE)[1]
        br == BranchBlob(kvs, d + c)
        inside == IF br.size >= 32
                  THEN {SubSeq(k0, 1, d + i) : i \in 1..(c - 1)}
                  ELSE {}
    IN  CASE Cardinality(kvs) = 1 -> {NodeRec(kvs, d, NodeBlob(kvs, d), {})}
          [] c > 0 -> {NodeRec(kvs, d, NodeBlob(kvs, d), inside)} \cup BranchNodes(kvs, d + c)
          [] OTHER -> BranchNodes(kvs, d)

BranchNodes(kvs, d) ==
    {NodeRec(kvs, d, BranchBlob(kvs, d), {})}
    \cup UNION {Nodes(Under(kvs, d, s), d + 1) : s \in {t \in Slots : Under(kvs, d, t) # {}}}

AllNodes(kvs) == IF kvs = {} THEN {} ELSE Nodes(kvs, 0)
=============================================================================
