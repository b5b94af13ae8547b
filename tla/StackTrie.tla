----------------------------- MODULE StackTrie -----------------------------
(***************************************************************************)
(* The StackTrie of trie/stacktrie.go: an append-only Merkle Patricia trie *)
(* builder that hashes (and hands to a writer) every subtree as soon as    *)
(* the sorted insertion order guarantees it is final.                      *)
(*                                                                         *)
(* The node graph is kept as a value: a node is a record with the fields   *)
(* of stNode (typ, key, val, children[16]), and the recursive insert() and *)
(* hash() of the code are recursive operators that return the new node     *)
(* together with the sink calls (Cleaner, Writer, boundary skips) made on  *)
(* the way, in the order the code makes them.  Update and Hash are one     *)
(* atomic step each: the trie is single threaded and its callbacks run     *)
(* synchronously inside them.  The node pool only recycles memory; with    *)
(* value semantics a released node cannot be observed, so it is left out.  *)
(***************************************************************************)
EXTENDS Integers, Sequences, FiniteSets, SequencesExt, MPTEncoding

CONSTANTS
    Keys,         \* the byte-string keys a caller may insert (equal length)
    Values,       \* the non-empty byte-string values a caller may insert
    MaxInserts,   \* bound on the number of Update calls between Resets
    InitOptions,  \* the StackTrieOptions a trie may be constructed with
    Nil,          \* a Go nil pointer or slice
    CallerOrdersKeys   \* the caller keeps the documented key order

ASSUME MaxInserts \in Nat
ASSUME CallerOrdersKeys \in BOOLEAN
ASSUME \A v \in Values : Len(v) > 0

VARIABLES
    root,      \* t.root
    first,     \* t.first: hex key (no terminator) of the first insert, or Nil
    last,      \* t.last: hex key (no terminator) of the latest insert, or Nil
    options,   \* t.options: which callbacks are configured, and the flags
    log,       \* history: every call to the configured Cleaner and Writer
    gauge,     \* the configured boundaryGauge counter
    inserted,  \* history: the (hex key, value) pairs inserted since Reset
    status     \* "ok", or the panic that aborted the last Update

vars == <<root, first, last, options, log, gauge, inserted, status>>

\* NewStackTrieOptions(): nothing configured.
NoOptions == [writer |-> FALSE, cleaner |-> FALSE, skipLeft |-> FALSE,
              skipRight |-> FALSE, gauge |-> FALSE]

-----------------------------------------------------------------------------
(* stNode and its constructors.                                            *)

NilKids == [s \in Slots |-> Nil]

EmptyNode == [typ |-> "empty", key |-> <<>>, val |-> Nil, children |-> NilKids]

\* newLeaf(key, val)
NewLeaf(k, v) == [typ |-> "leaf", key |-> k, val |-> v, children |-> NilKids]

\* newExt(key, child)
NewExt(k, c) == [typ |-> "ext", key |-> k, val |-> Nil,
                 children |-> [NilKids EXCEPT ![0] = c]]

\* A branch fresh from the pool holding two children.
NewBranch(i, a, j, b) == [typ |-> "branch", key |-> <<>>, val |-> Nil,
                          children |-> [NilKids EXCEPT ![i] = a, ![j] = b]]

\* A node after hash(): key cleared, children released, val the reference.
HashedNode(r) == [typ |-> "hashed", key |-> <<>>, val |-> r, children |-> NilKids]

\* getDiffIndex: the first index (0-based) where the node's key and key
\* differ, or the length of the node's key.
DiffIndex(nkey, key) ==
    LET D == {i \in 1..Len(nkey) : nkey[i] # key[i]}
    IN  IF D = {} THEN Len(nkey) ELSE (CHOOSE i \in D : \A j \in D : i <= j) - 1

-----------------------------------------------------------------------------
(* hash(): the sink coordination at its end, then the walk itself.         *)

WriteCall(p, b) == [kind |-> "write", path |-> p, blob |-> b]
CleanCall(p)    == [kind |-> "clean", path |-> p, blob |-> Nil]
SkipCall(p)     == [kind |-> "skip",  path |-> p, blob |-> Nil]

\* The sink calls for a node committed at path with the given blob: nothing
\* without a writer; a boundary skip; or the dangling-path cleanups
\* followed by the write.
Sink(b, path, internal, cfg) ==
    CASE ~cfg.writer                                   -> <<>>
      [] cfg.skipLeft /\ IsPrefix(path, cfg.first)     -> <<SkipCall(path)>>
      [] cfg.skipRight /\ IsPrefix(path, cfg.last)     -> <<SkipCall(path)>>
      [] OTHER -> [i \in 1..Len(internal) |-> CleanCall(internal[i])]
                  \o <<WriteCall(path, b)>>

\* Mutant of Commit: the node is handed to the sink before the calls its
\* children made (parent committed first).
CommitParentFirst(b, path, childCalls, internal, cfg) ==
    IF b.size < 32 /\ path # <<>>
    THEN [n |-> HashedNode(InlineRef(b)), ev |-> childCalls]
    ELSE [n |-> HashedNode(DigestRef(b)),
          ev |-> Sink(b, path, internal, cfg) \o childCalls]

\* The tail of hash(): a non-root blob under 32 bytes stays inline and is
\* not committed; anything else is hashed and goes to the sink, after the
\* calls its children made.
Commit(b, path, childCalls, internal, cfg) ==
    IF b.size < 32 /\ path # <<>>
    THEN [n |-> HashedNode(InlineRef(b)), ev |-> childCalls]
    ELSE [n |-> HashedNode(DigestRef(b)),
          ev |-> childCalls \o Sink(b, path, internal, cfg)]

RECURSIVE HashNode(_, _, _), HashKids(_, _, _, _)

\* hash(st, path)
HashNode(st, path, cfg) ==
    CASE st.typ = "hashed" -> [n |-> st, ev |-> <<>>]
      [] st.typ = "empty"  -> [n |-> HashedNode(EmptyRoot), ev |-> <<>>]
      [] st.typ = "leaf"   -> Commit(LeafBlob(st.key, st.val), path, <<>>, <<>>, cfg)
      [] st.typ = "ext" ->
            LET c == HashNode(st.children[0], path \o st.key, cfg)
                internal == IF ValLen(c.n.val) >= 32 /\ cfg.cleaner
                            THEN [i \in 1..(Len(st.key) - 1) |-> path \o SubSeq(st.key, 1, i)]
                            ELSE <<>>
            IN  Commit(ExtBlob(st.key, c.n.val), path, c.ev, internal, cfg)
      [] st.typ = "branch" ->
            LET k == HashKids(st, path, cfg, 0)
            IN  Commit(FullBlob([s \in Slots |-> k.refs[s + 1]]), path, k.ev, <<>>, cfg)

\* The loop of hash() over the branch children i..15, in slot order.
HashKids(st, path, cfg, i) ==
    IF i > 15 THEN [refs |-> <<>>, ev |-> <<>>]
    ELSE LET c    == st.children[i]
             h    == IF c = Nil THEN [n |-> Nil, ev |-> <<>>]
                     ELSE HashNode(c, Append(path, i), cfg)
             rest == HashKids(st, path, cfg, i + 1)
         IN  [refs |-> <<IF c = Nil THEN NilRef ELSE h.n.val>> \o rest.refs,
              ev   |-> h.ev \o rest.ev]

-----------------------------------------------------------------------------
(* insert(): returns the new node, the sink calls made, and the panic (if  *)
(* any) that aborted it.                                                   *)

Done(n, ev)     == [n |-> n, ev |-> ev, err |-> "none"]
Panic(n, ev, m) == [n |-> n, ev |-> ev, err |-> m]

RECURSIVE Insert(_, _, _, _, _), InsertBranch(_, _, _, _, _)

\* Mutant of ElderSibling: only the slot right before idx is looked at.
ElderAdjacentOnly(st, idx) ==
    IF idx > 0 /\ st.children[idx - 1] # Nil THEN idx - 1 ELSE -1

\* Mutant of ElderSibling: the scan starts at idx itself (i := idx rather
\* than idx-1), so the child the key descends into can be hashed first.
ElderFromIdx(st, idx) ==
    LET occ == {i \in 0..idx : st.children[i] # Nil}
    IN  IF occ = {} THEN -1 ELSE CHOOSE i \in occ : \A j \in occ : j <= i

\* The nearest occupied slot left of idx, or -1.
ElderSibling(st, idx) ==
    LET occ == {i \in 0..(idx - 1) : st.children[i] # Nil}
    IN  IF occ = {} THEN -1 ELSE CHOOSE i \in occ : \A j \in occ : j <= i

\* case branchNode: hash the nearest elder sibling unless already hashed,
\* then add a leaf in the empty slot idx or descend into it.
InsertBranch(st, key, value, path, cfg) ==
    LET idx   == key[1]
        e     == ElderSibling(st, idx)
        h     == IF e >= 0 /\ st.children[e].typ # "hashed"
                 THEN HashNode(st.children[e], Append(path, e), cfg)
                 ELSE [n |-> Nil, ev |-> <<>>]
        st1   == IF h.n = Nil THEN st ELSE [st EXCEPT !.children[e] = h.n]
        r     == Insert(st1.children[idx], Tail(key), value, Append(path, idx), cfg)
    IN  IF st1.children[idx] = Nil
        THEN Done([st1 EXCEPT !.children[idx] = NewLeaf(Tail(key), value)], h.ev)
        ELSE [r EXCEPT !.n = [st1 EXCEPT !.children[idx] = r.n], !.ev = h.ev \o @]

\* case extNode: descend on a full match; otherwise hash the preserved tail
\* (a new extension over the old child, or the old child itself) and split
\* into a branch, kept under a shortened extension when d > 0.
InsertExt(st, key, value, path, cfg, d) ==
    LET tail == IF d < Len(st.key) - 1
                THEN HashNode(NewExt(SubSeq(st.key, d + 2, Len(st.key)), st.children[0]),
                              path \o SubSeq(st.key, 1, d + 1), cfg)
                ELSE HashNode(st.children[0], path \o st.key, cfg)
        p    == NewBranch(st.key[d + 1], tail.n,
                          key[d + 1], NewLeaf(SubSeq(key, d + 2, Len(key)), value))
    IN  Done(IF d = 0 THEN p ELSE NewExt(SubSeq(st.key, 1, d), p), tail.ev)

\* Mutant of InsertLeaf: the moved leaf keeps the nibble its branch slot
\* already stands for (st.key[diffidx:] instead of st.key[diffidx+1:]).
InsertLeafKeepNibble(st, key, value, path, cfg, d) ==
    IF d >= Len(st.key)
    THEN Panic(st, <<>>, "existing key")
    ELSE LET old == HashNode(NewLeaf(SubSeq(st.key, d + 1, Len(st.key)), st.val),
                             path \o SubSeq(st.key, 1, d + 1), cfg)
             p   == NewBranch(st.key[d + 1], old.n,
                              key[d + 1], NewLeaf(SubSeq(key, d + 2, Len(key)), value))
         IN  Done(IF d = 0 THEN p ELSE NewExt(SubSeq(st.key, 1, d), p), old.ev)

\* Mutant of InsertLeaf: the moved leaf is hashed at path+key[:diffidx],
\* one nibble short of the slot it is placed in.
InsertLeafPathShort(st, key, value, path, cfg, d) ==
    IF d >= Len(st.key)
    THEN Panic(st, <<>>, "existing key")
    ELSE LET old == HashNode(NewLeaf(SubSeq(st.key, d + 2, Len(st.key)), st.val),
                             path \o SubSeq(st.key, 1, d), cfg)
             p   == NewBranch(st.key[d + 1], old.n,
                              key[d + 1], NewLeaf(SubSeq(key, d + 2, Len(key)), value))
         IN  Done(IF d = 0 THEN p ELSE NewExt(SubSeq(st.key, 1, d), p), old.ev)

\* case leafNode: an equal key panics; otherwise the old value moves to a
\* leaf that is hashed at once, next to a leaf for the new value.
InsertLeaf(st, key, value, path, cfg, d) ==
    IF d >= Len(st.key)
    THEN Panic(st, <<>>, "existing key")
    ELSE LET old == HashNode(NewLeaf(SubSeq(st.key, d + 2, Len(st.key)), st.val),
                             path \o SubSeq(st.key, 1, d + 1), cfg)
             p   == NewBranch(st.key[d + 1], old.n,
                              key[d + 1], NewLeaf(SubSeq(key, d + 2, Len(key)), value))
         IN  Done(IF d = 0 THEN p ELSE NewExt(SubSeq(st.key, 1, d), p), old.ev)

\* Mutant of Insert: a hashed node is left as it is and the insert is
\* dropped without a panic.
InsertIgnoresHashed(st, key, value, path, cfg) ==
    CASE st.typ = "branch" -> InsertBranch(st, key, value, path, cfg)
      [] st.typ = "ext" ->
            LET d == DiffIndex(st.key, key)
                r == Insert(st.children[0], SubSeq(key, d + 1, Len(key)), value,
                            path \o SubSeq(key, 1, d), cfg)
            IN  IF d = Len(st.key)
                THEN [r EXCEPT !.n = [st EXCEPT !.children[0] = r.n]]
                ELSE InsertExt(st, key, value, path, cfg, d)
      [] st.typ = "leaf"   -> InsertLeaf(st, key, value, path, cfg, DiffIndex(st.key, key))
      [] st.typ = "empty"  -> Done(NewLeaf(key, value), <<>>)
      [] st.typ = "hashed" -> Done(st, <<>>)

\* insert(st, key, value, path)
Insert(st, key, value, path, cfg) ==
    CASE st.typ = "branch" -> InsertBranch(st, key, value, path, cfg)
      [] st.typ = "ext" ->
            LET d == DiffIndex(st.key, key)
                r == Insert(st.children[0], SubSeq(key, d + 1, Len(key)), value,
                            path \o SubSeq(key, 1, d), cfg)
            IN  IF d = Len(st.key)
                THEN [r EXCEPT !.n = [st EXCEPT !.children[0] = r.n]]
                ELSE InsertExt(st, key, value, path, cfg, d)
      [] st.typ = "leaf"   -> InsertLeaf(st, key, value, path, cfg, DiffIndex(st.key, key))
      [] st.typ = "empty"  -> Done(NewLeaf(key, value), <<>>)
      [] st.typ = "hashed" -> Panic(st, <<>>, "insert into hash")

-----------------------------------------------------------------------------
(* The public operations.                                                  *)

\* The options together with the boundary keys the sink compares against.
Cfg(f, l) == [writer |-> options.writer, cleaner |-> options.cleaner,
              skipLeft |-> options.skipLeft, skipRight |-> options.skipRight,
              first |-> f, last |-> l]

\* Mutant of Emit: boundary skips are recorded as if they were sink calls.
EmitSkipsToo(ev) ==
    /\ log' = log \o ev
    /\ gauge' = gauge

\* Apply sink calls: Cleaner and Writer calls are recorded, skips count on
\* the gauge when one is configured.
Emit(ev) ==
    /\ log' = log \o SelectSeq(ev, LAMBDA c : c.kind # "skip")
    /\ gauge' = gauge + (IF options.gauge
                         THEN Len(SelectSeq(ev, LAMBDA c : c.kind = "skip")) ELSE 0)

\* Lexicographic order of equal-length hex keys.
KeyLeq(a, b) == a = b \/ \E i \in 1..Len(a) : SubSeq(a, 1, i - 1) = SubSeq(b, 1, i - 1) /\ a[i] < b[i]

\* Mutant of InsertCfg: t.last is advanced only after insert() has run, so
\* the right-boundary test during the insert sees the previous key.
InsertCfgStaleLast(k) ==
    Cfg(IF first = Nil THEN k ELSE first, IF last = Nil THEN k ELSE last)

\* TryUpdate records k as t.first (on the first insert) and as t.last
\* before insert() runs; the sink reads both during the insert.
InsertCfg(k) == Cfg(IF first = Nil THEN k ELSE first, k)

\* Update / TryUpdate(key, value).  The documented caller contract is that
\* keys come in non-decreasing order (an equal key reaches the duplicate
\* key panic); TryUpdate itself does not check it.
Update(key, value) ==
    LET k  == SubSeq(KeybytesToHex(key), 1, 2 * Len(key))
        r  == Insert(root, k, value, <<>>, InsertCfg(k))
    IN  /\ status = "ok"
        /\ Len(inserted) < MaxInserts
        /\ IF CallerOrdersKeys /\ last # Nil THEN KeyLeq(last, k) ELSE TRUE
        /\ IF Len(value) = 0
           THEN /\ status' = "deletion not supported"
                /\ UNCHANGED <<root, first, last, options, log, gauge, inserted>>
           ELSE /\ first' = IF first = Nil THEN k ELSE first
                /\ last' = k
                /\ Emit(r.ev)
                /\ UNCHANGED options
                /\ IF r.err = "none"
                   THEN /\ root' = r.n
                        /\ inserted' = Append(inserted, <<k, value>>)
                        /\ UNCHANGED status
                   ELSE /\ status' = r.err
                        /\ UNCHANGED <<root, inserted>>

\* Hash() / Commit(): hash whatever is not hashed yet, from the root.
Hash ==
    LET r == HashNode(root, <<>>, Cfg(first, last))
    IN  /\ status = "ok"
        /\ root' = r.n
        /\ Emit(r.ev)
        /\ UNCHANGED <<first, last, options, inserted, status>>

\* Mutant of Reset: the old root is kept instead of a fresh one.
ResetKeepsRoot ==
    /\ options' = NoOptions
    /\ first' = Nil
    /\ last' = Nil
    /\ inserted' = <<>>
    /\ status' = "ok"
    /\ log' = <<>>
    /\ gauge' = 0
    /\ UNCHANGED root

\* Reset(): fresh options and root, boundaries forgotten.  It is also the
\* only way on after a panic.  The new options carry no callbacks, so the
\* histories of calls to the old ones start over.
Reset ==
    /\ root' = EmptyNode
    /\ options' = NoOptions
    /\ first' = Nil
    /\ last' = Nil
    /\ inserted' = <<>>
    /\ status' = "ok"
    /\ log' = <<>>
    /\ gauge' = 0

\* NewStackTrie(options)
Init ==
    /\ root = EmptyNode
    /\ options \in InitOptions
    /\ first = Nil
    /\ last = Nil
    /\ log = <<>>
    /\ gauge = 0
    /\ inserted = <<>>
    /\ status = "ok"

Next ==
    \/ \E key \in Keys, value \in Values \cup {<<>>} : Update(key, value)
    \/ Hash
    \/ Reset

Spec == Init /\ [][Next]_vars

-----------------------------------------------------------------------------
(* Properties.                                                             *)

Ref == INSTANCE MPTReference

\* The pairs inserted since the last Reset.
KVSet == {inserted[i] : i \in DOMAIN inserted}

RECURSIVE IsNode(_)
IsNode(n) ==
    /\ n.typ \in {"empty", "leaf", "ext", "branch", "hashed"}
    /\ n.key \in Seq(0..15)
    /\ DOMAIN n.children = Slots
    /\ \A s \in Slots : n.children[s] = Nil \/ IsNode(n.children[s])

TypeOK ==
    /\ IsNode(root)
    /\ first = Nil \/ first \in Seq(0..15)
    /\ last = Nil \/ last \in Seq(0..15)
    /\ options \in [writer : BOOLEAN, cleaner : BOOLEAN, skipLeft : BOOLEAN,
                    skipRight : BOOLEAN, gauge : BOOLEAN]
    /\ \A i \in DOMAIN log : log[i].kind \in {"write", "clean"}
    /\ gauge \in Nat
    /\ Len(inserted) <= MaxInserts

\* Hash() (and every later Hash()) returns the root reference that a
\* Merkle Patricia trie holding exactly the inserted pairs has: the eager
\* hashing of elder siblings and old leaves during insert(), the extension
\* splits and the inline-or-hash decisions of hash() lose nothing.
RootMatchesReference ==
    (status = "ok" /\ root.typ = "hashed") => root.val = Ref!RootRef(KVSet)

\* On the boundary the sink was told to skip: a prefix of the first key
\* (left) or of the latest key (right).
OnBoundary(p) ==
    \/ options.skipLeft /\ IsPrefix(p, first)
    \/ options.skipRight /\ IsPrefix(p, last)

Writes == SelectSeq(log, LAMBDA c : c.kind = "write")
Cleans == SelectSeq(log, LAMBDA c : c.kind = "clean")

\* Once the trie is hashed, its writer has received every node of the
\* reference trie that is stored on its own and not on a skipped boundary,
\* each exactly once and nothing else; and its cleaner has received, once
\* each, the paths inside exactly those committed extensions whose branch
\* is stored on its own.  The boundary test in hash() reads t.last as
\* TryUpdate left it before insert() ran.
CommitsMatchReference ==
    (options.writer /\ status = "ok" /\ root.typ = "hashed") =>
        LET expected == {n \in Ref!AllNodes(KVSet) : n.stored /\ ~OnBoundary(n.path)}
            dangling == IF options.cleaner THEN UNION {n.internal : n \in expected} ELSE {}
        IN  /\ {<<Writes[i].path, Writes[i].blob>> : i \in DOMAIN Writes}
                 = {<<n.path, n.blob>> : n \in expected}
            /\ Len(Writes) = Cardinality(expected)
            /\ {Cleans[i].path : i \in DOMAIN Cleans} = dangling
            /\ Len(Cleans) = Cardinality(dangling)

\* The writer sees a node only after every stored node below it, and the
\* cleanups of an extension's inner paths come right before that
\* extension's write, with only other cleanups in between.
CommitOrder ==
    /\ \A i, j \in DOMAIN log :
          (/\ log[i].kind = "write" /\ log[j].kind = "write"
           /\ IsStrictPrefix(log[j].path, log[i].path)) => i < j
    /\ \A i \in DOMAIN log :
          log[i].kind = "clean" =>
             \E j \in (i + 1)..Len(log) :
                /\ log[j].kind = "write"
                /\ IsStrictPrefix(log[j].path, log[i].path)
                /\ \A m \in (i + 1)..(j - 1) : log[m].kind = "clean"

\* Only one path of the trie is live: in every node, each child left of
\* the rightmost one is already hashed, so memory stays proportional to
\* the key length however many keys are inserted.
RECURSIVE FrontierIsPath(_)
FrontierIsPath(n) ==
    LET kids == {s \in Slots : n.children[s] # Nil}
    IN  \A s \in kids :
           /\ (\E t \in kids : t > s) => n.children[s].typ = "hashed"
           /\ FrontierIsPath(n.children[s])

LiveFrontier == status = "ok" => FrontierIsPath(root)

\* Whatever the writer has been handed, also by an Update that panicked
\* afterwards and whatever order the caller used, is a node (path and
\* encoding) of the trie holding exactly the pairs inserted successfully:
\* a subtree is hashed and written only once no accepted key can reach it,
\* and a failed Update leaves no node of its key behind in the database.
WritesAreFinal ==
    LET final == {<<n.path, n.blob>> : n \in Ref!AllNodes(KVSet)}
    IN  \A i \in DOMAIN Writes : <<Writes[i].path, Writes[i].blob>> \in final

\* Spec section 5, guarantee 3: the nodes an Update commits (writes and
\* cleanups alike) are off the path of the key it inserts; that path stays
\* live until a later key or Hash() moves past it.
UpdateCommitsOffPath ==
    [][(inserted' # inserted \/ status' # status) =>
          \A i \in (Len(log) + 1)..Len(log') : ~IsPrefix(log'[i].path, last')]_vars

\* The hex forms (no terminator) of the keys a caller may insert.
HexKeys == {SubSeq(KeybytesToHex(k), 1, 2 * Len(k)) : k \in Keys}

\* The refinement mapping: the pairs are those inserted since Reset, the
\* digest is the root once hash() has turned it into a hashed node, and
\* the trie has failed while a panic is pending.
Abs == INSTANCE AbstractStackTrie
           WITH HexKeys <- HexKeys,
                pairs   <- KVSet,
                digest  <- IF root.typ = "hashed" THEN root.val ELSE Nil,
                failed  <- status # "ok"

\* Under the key order the caller promises, every behaviour of Update,
\* Hash and Reset is one of the abstract trie: Update adds a fresh pair or
\* fails (empty value, key present, trie already hashed), Hash seals the
\* trie with the root of exactly its pairs (a second Hash changes nothing),
\* and Reset forgets all of it.
ImplementsAbstract == Abs!ASpec

\* Spec section 8 (and its scenario 2): the writer receives only nodes
\* whose encoding is 32 bytes or more.  hash() skips the size test for the
\* root (len(path) > 0), so a trie whose root encodes to fewer bytes has it
\* written all the same.
WritesAreLarge == \A i \in DOMAIN Writes : Writes[i].blob.size >= 32
=============================================================================
