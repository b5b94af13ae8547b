------------------------- MODULE AbstractStackTrie -------------------------
(***************************************************************************)
(* What a StackTrie promises its caller, with no nodes in it: it holds a   *)
(* set of (hex key, value) pairs; Hash() yields the Merkle Patricia root   *)
(* of exactly that set and seals the trie; any misuse (an empty value, a   *)
(* key already present, an insert after Hash()) fails the trie, and only   *)
(* Reset() brings it back.  StackTrie implements this under the documented *)
(* key order (see StackTrie!Abs).                                          *)
(***************************************************************************)
EXTENDS Integers, Sequences, FiniteSets, MPTReference

CONSTANTS
    HexKeys,   \* the hex keys (no terminator) a caller may insert
    Values,    \* the non-empty values a caller may insert
    Nil        \* "not hashed yet"

VARIABLES
    pairs,     \* the set of (hex key, value) pairs inserted since Reset
    digest,    \* the root Hash() returned, or Nil before Hash()
    failed     \* a call panicked; only Reset is allowed

avars == <<pairs, digest, failed>>

KeysOf(S) == {kv[1] : kv \in S}

AInit == pairs = {} /\ digest = Nil /\ failed = FALSE

\* A fresh key with a non-empty value joins the set; the trie is not sealed.
Add(k, v) ==
    /\ ~failed /\ digest = Nil
    /\ Len(v) > 0 /\ k \notin KeysOf(pairs)
    /\ pairs' = pairs \cup {<<k, v>>}
    /\ UNCHANGED <<digest, failed>>

\* A misuse fails the trie and leaves the pairs and the digest as they were.
Fail(k, v) ==
    /\ ~failed
    /\ Len(v) = 0 \/ k \in KeysOf(pairs) \/ digest # Nil
    /\ failed' = TRUE
    /\ UNCHANGED <<pairs, digest>>

\* Hash() seals the trie with the root of exactly its pairs.
Seal ==
    /\ ~failed
    /\ digest' = RootRef(pairs)
    /\ UNCHANGED <<pairs, failed>>

ResetAll == pairs' = {} /\ digest' = Nil /\ failed' = FALSE

ANext ==
    \/ \E k \in HexKeys, v \in Values \cup {<<>>} : Add(k, v) \/ Fail(k, v)
    \/ Seal
    \/ ResetAll

ASpec == AInit /\ [][ANext]_avars
=============================================================================
