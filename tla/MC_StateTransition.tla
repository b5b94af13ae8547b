------------------------- MODULE MC_StateTransition -------------------------
(***************************************************************************)
(* StateTransition over four chains, a run starting at the first block    *)
(* of one of them: the repository's tests of TransitionTests, messages at  *)
(* the nonce and gas-pool limits, and a Ronin scenario of two blocks with  *)
(* messages from a sender A, a sponsor B and a contract R:                 *)
(* transfers, a call with an access list, sponsored messages (valid,       *)
(* expired, with differing caps), a contract creation, blob messages and   *)
(* an EIP-7702 set-code message with authorizations by A and by B.  Gas    *)
(* amounts and the gas schedule are the code's; prices are a few wei so    *)
(* that balances stay within TLC's integers.                               *)
(***************************************************************************)
EXTENDS TransitionTests, TLC

\* MAX has used every nonce but the last (Word - 1 is math.MaxUint64).
MCGenesis ==
    [a \in {"A", "B", "C", "R", "CB", "SYS", "T", "NEW", "MAX"} |->
        [balance |-> CASE a \in {"A", "C"} -> 400000
                       [] a \in {"B", "MAX"} -> 70000 [] OTHER -> 0,
         nonce   |-> IF a = "MAX" THEN Word - 1 ELSE 0,
         code    |-> IF a = "R" THEN "contract" ELSE "empty"]]

\* Block 1 before and block 2 after the Venoki fork (consortium v2, London,
\* Shanghai and Cancun active; base fee 1 wei).  Ronin's base fee is 0
\* before Venoki.
MCBlocks ==
    { [number |-> 21, coinbase |-> "CB",
       london |-> FALSE, venoki |-> FALSE, cancun |-> FALSE, shanghai |-> FALSE,
       homestead |-> TRUE, istanbul |-> TRUE, consortiumV2 |-> FALSE,
       baseFee |-> 0, blobBaseFee |-> 0, time |-> 2000, gasLimit |-> 200000],
      [number |-> 22, coinbase |-> "CB",
       london |-> TRUE, venoki |-> TRUE, cancun |-> TRUE, shanghai |-> TRUE,
       homestead |-> TRUE, istanbul |-> TRUE, consortiumV2 |-> TRUE,
       baseFee |-> 1, blobBaseFee |-> 2, time |-> 2003, gasLimit |-> 200000] }

MCMsgs ==
    { Msg("A", "A", "R", 0, 30000, 2, 2, 5),
      [Msg("A", "A", "R", 1, 40000, 2, 1, 0)
         EXCEPT !.accessList = [addrs |-> 1, keys |-> 1]],
      Msg("A", "B", "R", 0, 30000, 2, 2, 5),
      Msg("A", "B", "R", 1, 25000, 2, 1, 0),
      [Msg("A", "B", "R", 0, 30000, 2, 2, 0) EXCEPT !.expiredTime = 1000],
      [Msg("A", "A", Nil, 1, 70000, 1, 1, 3)
         EXCEPT !.dataLen = 10, !.nz = 5],
      [Msg("A", "A", "R", 0, 30000, 3, 1, 0)
         EXCEPT !.blobs = 1, !.blobFeeCap = 1],
      [Msg("A", "A", "R", 0, 30000, 3, 1, 0)
         EXCEPT !.blobs = 1, !.blobFeeCap = 2],
      [Msg("B", "B", "R", 0, 21000, 1, 1, 0) EXCEPT !.dataLen = 4, !.nz = 4],
      Msg("B", "B", "R", 0, 21000, 2, 2, 60000),
      [Msg("A", "A", "R", 1, 80000, 2, 1, 0)
         EXCEPT !.authList = << Auth("A", ChainID, 2, "R"), Auth("B", ChainID, 0, "R") >>],
      Msg("A", "A", "R", 3, 21000, 2, 2, 1) }

\* The same two blocks, for the messages at the limits: MAX's last nonce,
\* an authorization by MAX, and a system message by the block producer
\* (gas price 0, as the consortium engine sends them).  The gas limit is
\* lowered so that the messages of a block do not all fit in its pool.
LimitBlocks ==
    {[b EXCEPT !.number = b.number + 10, !.gasLimit = 100000] : b \in MCBlocks}

LimitMsgs ==
    { Msg("MAX", "MAX", "R", Word - 1, 21000, 1, 1, 0),
      [Msg("C", "C", "R", 0, 50000, 1, 1, 0)
         EXCEPT !.authList = << Auth("MAX", ChainID, Word - 1, "R") >>],
      Msg("C", "C", "R", 1, 30000, 1, 1, 0),
      [Msg("CB", "CB", "R", 0, 40000, 0, 0, 0) EXCEPT !.system = TRUE] }

-----------------------------------------------------------------------------
\* The chains, the senders whose messages are signed for each, and
\* the messages a run of each applies (each Ethereum test sends at most
\* two).
Chains ==
    { [blocks |-> MCBlocks, senders |-> {"A", "B"}, maxTxs |-> 3],
      [blocks |-> LimitBlocks, senders |-> {"C", "CB", "MAX"}, maxTxs |-> 3],
      [blocks |-> EthTestBlocks, senders |-> {"addr1", "addr2", "eoa1"},
       maxTxs |-> 2],
      [blocks |-> SponsoredBlocks, senders |-> {"admin", "sender"},
       maxTxs |-> 6] }

AllGenesis == MCGenesis @@ TestGenesis
AllAccounts == DOMAIN AllGenesis
AllBlocks == MCBlocks \cup LimitBlocks \cup TestBlocks
AllMsgs == MCMsgs \cup LimitMsgs \cup TestMsgs
MaxChainTxs == 6

\* Gas an EVM execution may burn, and refund counters it may leave.
MCSpend == TestSpend
MCRefunds == {0, 4800}

\* A message never reaches TransitionDb on a chain it is not signed for
\* (Reject and Include both record its sender), and each chain's run
\* applies at most its bound of messages.
OnItsChain ==
    \E c \in Chains :
        /\ blk' \in c.blocks
        /\ lastErr'.from # Nil => lastErr'.from \in c.senders
        /\ txs' <= c.maxTxs

\* StateTransition's steps, each on its chain.
MCNext == Next /\ OnItsChain

-----------------------------------------------------------------------------
\* SupplyConserved on the Ronin chains; the Ethereum tests' London blocks
\* burn the base fee.
RoninSupplyConserved == blk \notin EthTestBlocks => SupplyConserved

\* params.* scaled by 1/1000 (TxGas 21000 -> 21, TxAccessListAddressGas
\* 2400 -> 24, ...) for 8-bit words.
SmallSchedule ==
    [TxGas |-> 21, TxGasContractCreation |-> 53,
     TxDataZeroGas |-> 4, TxDataNonZeroGasFrontier |-> 68,
     TxDataNonZeroGasEIP2028 |-> 16, InitCodeWordGas |-> 2,
     TxAccessListAddressGas |-> 24, TxAccessListStorageKeyGas |-> 19,
     CallNewAccountGas |-> 25]

IG == INSTANCE IntrinsicGasCheck WITH Word <- 256, P <- SmallSchedule,
                                      MaxData <- 64

\* IntrinsicGas with 8-bit words: its three overflow guards fire exactly
\* when the data cost overflows, and otherwise it returns the exact cost
\* (every guard flips within 64 bytes of data).  The formula is about
\* constants; it is evaluated in the states before any message.
IntrinsicGasExact == txs = 0 => IG!GuardsExact
=============================================================================
