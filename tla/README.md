# TLA+ models of the Ronin StackTrie, state transition and transaction codec

The repository's core, as the spec describes it, is `trie/stacktrie.go`. The file in
`src/trie/stacktrie.go` runs to line 477. Everything after that line is other files
concatenated into it:
- blockchain tests, lines 478-5313;
- the transaction JSON codec, lines 5314-5756.

`src/unnamed/part_000` is `core/state_transition.go`.
`src/core/txpool/legacypool/legacypool_test.go` is a test file.
`src/p2p/simulations/dht/dht.sh` is a benchmark script plus a mock p2p service.

## 1. Inventory

### StackTrie (src/trie/stacktrie.go:1-477)

The StackTrie builds a Merkle Patricia trie from keys inserted in non-decreasing order.
It hashes each subtree as soon as no later key can reach it, and hands the hashed
nodes to a writer.

| Component | Code | State | Operations |
|---|---|---|---|
| C1 Nibble codec | `keybytesToHex`, `hexToCompactInPlace` (trie/encoding.go, not in src/) | none | key bytes to nibbles; nibble path to compact form |
| C2 Node pool | `stPool`, `stNode.reset` | free nodes | Get, Put |
| C3 Encoder | `shortNode`/`fullNode.encode` (node_enc.go, not in src/) | scratch buffer | encode a short (2-list) or full (17-list) node |
| C4 Hasher | `StackTrie.hash` | node kinds, `val` | hash children bottom-up, inline below 32 bytes (not the root), otherwise digest and commit |
| C5 Insertion engine | `StackTrie.insert`, `getDiffIndex`, `newLeaf`, `newExt` | the node tree `root` | descend/split by node kind; hash the nearest elder sibling; hash the old leaf on a leaf split |
| C6 Sink coordinator | tail of `hash` | `options`, `first`, `last` | no writer; left/right boundary skip (gauge); cleaner calls for the paths inside an extension; writer call |
| API | `NewStackTrie`, `Update`/`TryUpdate`, `Hash`/`Commit`, `Reset`, option builders | `root`, `first`, `last`, `options` | |

**How the parts interact.**
- `Update` records the key as `first` (on the first insert) and as `last`, before `insert` runs.
- `insert` calls `hash` on subtrees it will never revisit.
- `hash` recurses into children, encodes each node, and decides between inline and digest.
- Every committed node then goes through the sink logic, which calls the user's `Writer` and `Cleaner` synchronously.

**What is hard.**
- There is no concurrency: the trie is single threaded, and its callbacks run inside `Update` and `Hash`.
- The difficulty is the protocol across calls:
  - which subtree may be hashed when;
  - the off-by-one slice offsets of the splits;
  - the 32-byte inline threshold and its root exception;
  - boundary tests that read `first`/`last`, which `Update` mutates before the insert runs;
  - the order of cleaner calls, writer calls and children;
  - repeated `Hash`, and `Update` after `Hash` (a panic).
- A panic can happen after some sink calls were already made.
- Unordered keys are not detected.

**Properties that make it correct.**
- The root equals that of a Merkle Patricia trie over the same pairs.
- The writer receives exactly the reference's stored nodes (minus skipped boundaries), each once.
- The cleaner receives exactly the paths inside those extensions.
- Commits are bottom-up, with each extension's cleanups right before its write.
- Only one path of nodes is ever live (the memory bound).

### Other source files
- **State transition** (`part_000`). `preCheck`, `buyGas`, `TransitionDb`, `refundGas` and `IntrinsicGas` do gas and balance accounting, with uint64 overflow guards, sponsored (payer ≠ sender) transactions, blob fees and refund quotients. It is sequential. Its hazards are numeric edges (overflow, refund cap), partial failure (an error after gas was bought) and the order of the nonce bump and the EIP-7702 authorizations. It is modelled in `IntrinsicGas.tla` and `StateTransition.tla`, and what it promises the balances in `AbstractLedger.tla`.
- **Transaction JSON codec** (stacktrie.go 5314-5756).
  - `MarshalJSON` writes the common fields and then those of the transaction's type.
  - `UnmarshalJSON` checks the common required fields in order, sanity-checks a non-zero signature, then checks and copies the type's fields. It ends with a type-specific check: the sponsored payer signature, the blob recipient, or the set-code signature taken through `yParityValue`.
  - It is a pure conversion, modelled in `TxJSON.tla`.
- **Blockchain tests** (stacktrie.go 478-5313). Four of them assert balances, nonces or code after `TransitionDb`: `testEIP1559Transition`, `testEIP3651`, `TestEIP7702` and `testSponsoredTxTransition`. Their genesis, blocks and messages are written out in `TransitionTests.tla`, and their assertions are invariants of the state-transition run. The others exercise `blockchain.go` (reorgs, snapshots, pruning), which is not in src/.
- **Tx pool test and the DHT script**. These are not part of the implementation and are not modelled.

## 2. Modules

| Module | Models |
|---|---|
| `MPTEncoding.tla` | C1 and C3: `KeybytesToHex`, `HexToCompact`, RLP sizes of short and full nodes, and child references (nil, value, raw inline, hash). Keccak is modelled as injective: a digest record holds its blob. |
| `MPTReference.tla` | Not code. A reference MPT defined directly from the set of pairs: `RootRef`, and `AllNodes` (path, blob, stored?, paths inside an extension). It is what the StackTrie is checked against. |
| `StackTrie.tla` | C4, C5, C6 and the API. The details follow this table. |
| `AbstractStackTrie.tla` | Not code. What the trie promises its caller: a set of pairs, a digest that `Hash()` seals with the reference root, a failed flag after any misuse, and `Reset`. |
| `MC_StackTrie.tla` | The constants for TLC. |
| `TxJSON.tla` | The transaction JSON codec: `MarshalJSON`, `UnmarshalJSON`, `yParityValue`, plus `sanityCheckSignature` from its contract (that file is not in src/). A relay (decode, re-encode, decode) drives it. |
| `MC_TxJSON.tla` | Transactions of all six types and peer inputs derived from them. |
| `IntrinsicGas.tla` | `IntrinsicGas` and `toWordSize` as pure operators over words of width `Word` (uint64 wraps modulo `Word`). Data is abstracted to its length and its count of non-zero bytes. |
| `IntrinsicGasCheck.tla` | Not code. An exact, unbounded reference cost for every input up to `MaxData` bytes, and `GuardsExact`, which compares `IntrinsicGas` with it. |
| `StateTransition.tla` | `TransitionDb` and everything it calls, one action per message. The details follow this table. |
| `AbstractLedger.tla` | Not code. What `TransitionDb` promises the balances: each applied message is settled in one step by its receipt's `UsedGas` and failure. The payer pays that gas at the EIP-1559 price plus the blob fee, the value moves only on success, the tip goes to the coinbase (the system address after ConsortiumV2), and the treasury gets the blob fee and, after Venoki, the base fee. A refund is at most the block's quotient of the gas used before it (EIP-3529). |
| `TransitionTests.tla` | The genesis, blocks and messages of the four repository tests above, plus their assertions (`CoinbaseGetsOnlyTip`, `DelegationsInstalled`, `SponsoredTransferSettles`). |
| `MC_StateTransition.tla` | Four chains for one run: a Ronin scenario across the Venoki fork, a chain of messages at the limits, the Ethereum tests and the sponsored test. It also instantiates `IntrinsicGasCheck` with 8-bit words. |

How `StackTrie.tla` corresponds to the code:
- **Nodes.** A node is the record `stNode` (`typ`, `key`, `val`, `children[0..15]`), held by value.
- **Recursion.** `insert` becomes `Insert`/`InsertBranch`/`InsertExt`/`InsertLeaf`, and `hash` becomes `HashNode`/`HashKids`/`Commit`/`Sink`. Each returns the new node plus the sink calls it made, in the code's order.
- **Actions.** `Update`, `Hash` and `Reset` are each one action, because the code is synchronous.
- **Panics.** A panic sets `status`. After a panic only `Reset` is enabled, since the spec says a failed trie may only be reused via `Reset`.
- **Caller mode.** The constant `CallerOrdersKeys` describes the caller rather than the code: it turns the documented key order (stacktrie.go:70) on or off.
- **Refinement.** `Abs` instantiates `AbstractStackTrie` with this mapping:
  - `pairs` ← the inserted set;
  - `digest` ← the root once it is hashed, else `Nil`;
  - `failed` ← a panic is pending.

  `ImplementsAbstract` is the abstract `ASpec`, checked as a `PROPERTY`.
- **Histories.** `log` records the Writer and Cleaner calls, and `inserted` records the pairs since the last `Reset`. `Reset` installs fresh options with no callbacks, so both histories restart.

How `StateTransition.tla` corresponds to the code:
- **State.** `balance`, `nonce` and `code` are the StateDB. `gp` is the block's GasPool, `receipts` is what was applied, and `lastErr` is the last error `TransitionDb` returned.
- **Actions.** `Include(m)` is one whole `TransitionDb` call that succeeds. In the code's order it does:
  - `preCheck`;
  - `buyGas` (the payer buys the gas, the sender checks the value);
  - the intrinsic-gas and transfer clauses;
  - the nonce bump and then the EIP-7702 authorizations (`BumpNonceAndAuthorize`);
  - an abstract EVM call that burns gas from `Spend` and may leave a refund from `Refunds`;
  - `refundGas`, which pays the payer back;
  - the tip to the coinbase or the system address, and the base and blob fee to the treasury.
- **Caller guarantee.** `Admissible(m)` keeps blob messages out of blocks before Cancun. The block's signer (outside src/) does this in the code. `buyGas` relies on it: it multiplies the blob gas by the context's `BlobBaseFee` (part_000:269), which is nil before Cancun, and only `preCheck`'s Cancun branch looks at the blob fee.
- **Errors.** `Reject(m)` is a call that returns an error. Its callers (the miner and the state processor) discard the state snapshot, so only `lastErr` changes.
- **Blocks.** `EndBlock` moves to the next block and gives it a fresh GasPool.
- **EVM.** The EVM is not modelled. Its effects are the nondeterministic gas and refund above.
- **Refinement.** `Ledger` instantiates `AbstractLedger` with `blk` and `balance` as they are, and `settled` ← the receipts (block, message, `UsedGas`, `RefundedGas`, failure). `Include` is the abstract `Apply`, `Reject` a stutter and `EndBlock` the abstract `NewBlock`. `ImplementsLedger` is the abstract `LSpec`, checked as a `PROPERTY`. The detailed model buys all the gas up front and refunds the rest, so the refinement says that buying, refunding, tipping and the treasury payments add up, account by account, to paying for the receipt's gas.

## 3. Runs

| Run | Cfg | Expect | Shows |
|---|---|---|---|
| `stacktrie_sorted` | `MC_StackTrie.cfg` | pass | `TypeOK`, `RootMatchesReference`, `CommitsMatchReference`, `CommitOrder`, `LiveFrontier`, over every non-decreasing run of up to 3 inserts interleaved with `Hash` and `Reset`, under every option setting |
| `stacktrie_root_write` | `MC_StackTrie_root_write.cfg` | violation | `WritesAreLarge`: the root is written even when it encodes to fewer than 32 bytes |
| `stacktrie_unordered` | `MC_StackTrie_unordered.cfg` | pass | With keys in any order, `RootMatchesReference` and `WritesAreFinal` still hold: an out-of-order key either panics or lands outside the hashed part |
| `txjson_roundtrip` | `MC_TxJSON.cfg` | pass | `RoundTrip`: marshalled transactions decode to themselves, less the blob sidecar. `DecodedSignaturesSane`: no peer input yields a transaction with a bad signature or payer signature |
| `txjson_setcode_data` | `MC_TxJSON_setcode_data.cfg` | violation | `RoundTrip`: set-code calldata is lost on decode |
| `txjson_blob_zero_to` | `MC_TxJSON_blob_zero_to.cfg` | violation | `RoundTrip`: a blob tx to the zero address cannot be decoded |
| `txjson_blob_no_to` | `MC_TxJSON_blob_no_to.cfg` | violation | `DecodeNeverPanics`: a blob object without `to` makes the decoder panic |
| `txjson_yparity` | `MC_TxJSON_yparity.cfg` | violation | `YParityMayReplaceV`: `yParity` alone is rejected as "missing v" |
| `statetransition` | `MC_StateTransition.cfg` | pass | Every order of every chain's messages (see below) is checked for the following. `RoninSupplyConserved`: on Ronin chains the sum of balances never changes. `TransferNeverShort`: `buyGas`'s check always leaves the value affordable. `ImplementsLedger`: the refinement of `AbstractLedger`, so every balance (a sponsored sender's included) moves exactly as the receipt settles it, and no refund exceeds the block's quotient (a half before London, a fifth after) of the gas used before it. `CoinbaseGetsOnlyTip`, `DelegationsInstalled` and `SponsoredTransferSettles`: the repository tests' assertions. `IntrinsicGasExact`: the three overflow guards of `IntrinsicGas` fire exactly when the data cost exceeds `MaxUint64`. `BlockGasAccounted`: the block's gas pool is its limit less each receipt's `UsedGas`, or less the whole gas of a system message, which `refundGas` never returns. `NoncesNeverDecrease`, an action property: no nonce wraps at the uint64 limit, neither a sender's nor an authority's |
| `statetransition_delegated_sender` | `MC_StateTransition_delegated_sender.cfg` | violation | `DelegatedSenderMaySend`: once an account has delegated itself, `preCheck` rejects its transactions as "sender not an eoa" |

The sorted run also checks two more properties:
- `UpdateCommitsOffPath`, an action property: an `Update` commits nothing on its own key's path (spec §5, guarantee 3);
- `ImplementsAbstract`: the refinement.

**Bounds.**
- **Keys.** Two bytes drawn from {0x00, 0x01, 0x03, 0x21}, giving 16 keys of four nibbles. Among them are:
  - keys sharing 3 nibbles, which make extensions of length 3, split at offsets 0, 1 and 2 (both split cases);
  - leaf splits at every depth;
  - a branch whose live child at slot 1 is followed by an insert at slot 3, so the elder-sibling scan has to cross an empty slot.
- **Values.** `<<1>>` is a 1-byte value, so leaves stay inline. A 30-byte value makes leaves, branches and extensions stored on their own, which is what makes cleaner calls and boundary skips happen.
- **Inserts.** Three inserts reach all of the above. Four multiply the state space by about 7 (checked: no error, 4 minutes).
- **Options.** The writer is always configured. Cleaner, left skip and right skip each take both values, and the gauge is configured only when a skip is.
- **Inputs beyond the keys.** Empty values (the "deletion not supported" panic) and equal keys (the duplicate-key panic) are inputs too.
- **Size.** About 218k distinct states, checked in about a minute. The unordered run reaches about 956k states in 2 minutes.
- **TxJSON.**
  - Each type appears signed and unsigned, with and without an access list, to an address and, where allowed, creating a contract. Blob transactions appear with and without a sidecar.
  - Tip and fee cap differ, so a swap shows.
  - Peer inputs are every marshalled transaction with one field removed, with an unknown type, with `r` or the payer's `r`/`v` out of range, and set-code objects with every combination of `v` ∈ {absent, 0, 1} and `yParity` ∈ {absent, 0, 1, 2}.
  - Two relays suffice, because decoding is a function of the object.
  - `secp256k1N` is scaled to 5, and `2^64` to `2^16` (no chain id in the model reaches it).
  - The relay stops when an object fails to decode, so deadlock is not checked.

- **State transition.**
  - Each chain has its own bound on messages. The Ronin scenario has 3. The Ethereum tests have 2, because no test sends more. The sponsored test has 6, because its assertion follows the admin's three fundings.
  - The limit chain reuses the scenario's two blocks with a gas limit of 100000, so a block's messages do not all fit. Its account MAX starts at nonce `Word - 1`, the model's `MaxUint64`. The chain has four messages: one from MAX at that nonce, a set-code message by C carrying MAX's authorization at that nonce, a later message by C, and a system message from the block producer at gas price 0. With the system message first, C's later message fails with "gas limit reached". Its bound is 3 messages.
  - The Ronin scenario's 12 messages cover the following, each on both sides of the Venoki fork: a plain transfer, an access list, a valid sponsored message, an expired one, a sponsored message whose fee cap and tip cap differ, a creation with init code, a blob fee cap both below and at the blob base fee (after the fork only, as `Admissible` requires), a data-only call, a value the sender cannot afford, a set-code message, and a stale nonce.
  - Gas amounts and the gas schedule are the code's own. Prices are a few wei, and the tests' amounts are scaled (gwei for the Ethereum tests, 10^4 wei for the sponsored test), so balances stay within TLC's 32-bit integers. `Word` is 2^30 for the same reason. No gas amount reaches it.
  - `IntrinsicGasExact` uses 8-bit words and `params.*` divided by 1000. With these, every one of the three guards flips within 64 bytes of data, so all inputs up to 64 bytes are checked.
  - The run has 14,648 distinct states and takes about 45 seconds.

**Fairness.** None is assumed. The caller decides whether and when to call `Hash`, so no property is a liveness property. The TxJSON relay is likewise driven by its caller.

**Findings.**
- **Root written below 32 bytes.** `hash()` keeps a blob inline only when `len(blob) < 32 && len(path) > 0` (stacktrie.go:422), so a short root is still written. Spec §4.4 agrees with the code. Spec §8 ("the writer receives the nodes whose encoding is ≥ 32 bytes") and scenario 2 ("no writer call for the leaf itself") contradict it.
- **Set-code calldata.** `UnmarshalJSON`'s set-code case never assigns `Data` (stacktrie.go:5677).
- **Blob recipient.** The blob case tests `*to == common.Address{}` (stacktrie.go:5661). A transaction to the zero address cannot be decoded, and an object without `to` makes the decoder panic.
- **Delegated senders.** `preCheck` rejects any sender with code, with "sender not an eoa" (part_000:318). An EIP-7702 delegation designator is code. So once an account has delegated itself, it can send no further transaction. `validateAuthorization`, by contrast, treats a delegated account as an EOA (part_000:577), and EIP-7702 lets such accounts keep sending transactions.
- **Blob fee before Cancun (no run).** `buyGas` multiplies the blob gas by `Context.BlobBaseFee` (part_000:269) for any message with blob hashes. Before Cancun that field is nil, and `preCheck` looks at the blob fee only from Cancun on. Block processing is safe only because the signer, outside src/, refuses blob transactions before Cancun. The model takes this as the caller's guarantee (`Admissible`).
- **`yParity` without `v`.** The common part requires `v` before any case runs (stacktrie.go:5497), so `yParityValue`'s "v or yParity" is only half reachable.

## 4. Not modelled, and why
- **Node pool.** Nodes are values, so a released node cannot be observed. Every release in the code detaches the child before `Put`.
- **Byte slices.** `newLeaf` keeps the caller's value slice, which its comment says the caller must not modify afterwards (stacktrie.go:144), so a refilled buffer is outside the contract. Slice aliasing and in-place compact encoding of byte buffers are not modelled. The model has no byte slices, and the `internal` path slices only ever get the same bytes written into them.
- **Key lengths.** All keys have the same length. A key that extends an earlier key would panic with "existing key", and the spec excludes it.

- **TxJSON.**
  - The JSON text, hexutil parsing and hashing are left out. `hexutil.Big` rejects more than 256 bits, so the `uint256.MustFromBig` conversions and the set-code overflow checks cannot fire on decoded input.
  - The set-code chain id keeps only its low 64 bits. This is modelled, but no property says what should happen instead.
  - A sponsored transaction whose payer has not signed yet cannot be decoded, since the payer check is unconditional. This looks deliberate, and nothing in the source says otherwise.

- **State transition.**
  - The EVM, the access-list warm-up, `Prepare` and logs are left out, and so is the blob sidecar.
  - The gas-used assertions of `testEIP1559Transition` and `testEIP2718Transition` are not checked. They add the EVM's opcode costs to the intrinsic gas, and the model abstracts the EVM to a choice of burnt gas.
  - A transaction that errors is assumed to be reverted whole by its caller. That caller code is not in src/.

- **The other blockchain tests.** The rest of stacktrie.go 478-5313 tests `blockchain.go`, the header chain, rawdb, the tx indexer, the freezer and the EVM: fork choice, reorgs, bad hashes, receipts, sidecars, pruning, and self-destruct and transient storage. None of that code is in src/, and spec.md does not describe it, so there is nothing to translate those tests against. The four tests whose assertions depend only on `TransitionDb` are modelled.

## 5. Open work
1. The sponsored test's expired-payer and Before-Miko variants. Their checks (the Miko signer, the payer's expiry at the tx pool) are outside part_000.
2. The node pool as a heap of node addresses, to check that no released node stays reachable. Nodes are values here (see section 4).
3. A run that shows the set-code chain id truncation (stacktrie.go:5683). `Built` already models `ToInt().Uint64()`, so a peer input with a chain id of `Word64` or more would show it.
