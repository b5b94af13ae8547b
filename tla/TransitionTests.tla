--------------------------- MODULE TransitionTests ---------------------------
(***************************************************************************)
(* The blockchain tests of core (src/trie/stacktrie.go 494-5329) that      *)
(* assert balances, nonces or code after TransitionDb, as instances of     *)
(* StateTransition: each test's genesis, block contexts and messages, and  *)
(* its assertions as a property checked in every state, over every order   *)
(* and block placement of the test's messages and every EVM outcome (the  *)
(* tests check one).  Amounts are scaled so that balances fit TLC's       *)
(* integers: the Ethereum tests count in gwei (their tip caps of 2 wei     *)
(* become 2 and their base fees small whole numbers, as the assertions     *)
(* are linear relations between tip, base fee and gas used), the Ronin     *)
(* test in units of 10^4 wei.  Block rewards of the ethash faker are left  *)
(* out of the coinbase balances.                                           *)
(***************************************************************************)
EXTENDS StateTransition, TLC

\* params.* of the code.
Schedule ==
    [TxGas |-> 21000, TxGasContractCreation |-> 53000,
     TxDataZeroGas |-> 4, TxDataNonZeroGasFrontier |-> 68,
     TxDataNonZeroGasEIP2028 |-> 16, InitCodeWordGas |-> 2,
     TxAccessListAddressGas |-> 2400, TxAccessListStorageKeyGas |-> 1900,
     CallNewAccountGas |-> 25000, TxAuthTupleGas |-> 12500,
     RefundQuotient |-> 2, RefundQuotientEIP3529 |-> 5,
     MaxInitCodeSize |-> 49152, BlobTxBlobGasPerBlob |-> 131072]

\* The genesis funds of the tests' senders (1 ether): any amount above their
\* messages' fee caps, as the assertions are differences from it.
Ether == 10000000

\* A message with no data, access list, blobs or authorizations.
Msg(from, payer, to, nonceV, gas, feeCap, tipCap, value) ==
    [from |-> from, payer |-> payer, to |-> to, nonce |-> nonceV, gas |-> gas,
     feeCap |-> feeCap, tipCap |-> tipCap, value |-> value,
     fake |-> FALSE, system |-> FALSE, dataLen |-> 0, nz |-> 0,
     accessList |-> Nil, authList |-> Nil, expiredTime |-> 0,
     blobs |-> Nil, blobFeeCap |-> 0, blobHashesValid |-> TRUE]

\* A block context of an Ethereum fork set (no Ronin fork active).
EthBlock(number, coinbase, baseFee) ==
    [number |-> number, coinbase |-> coinbase,
     london |-> TRUE, venoki |-> FALSE, cancun |-> FALSE, shanghai |-> TRUE,
     homestead |-> TRUE, istanbul |-> TRUE, consortiumV2 |-> FALSE,
     baseFee |-> baseFee, blobBaseFee |-> 0, time |-> 10 * number,
     gasLimit |-> 8000000]

\* Gas a contract of the tests burns, from the cheapest (aa's two SLOADs)
\* to the dearest (aa's call into addr2 running bb's SSTORE).
TestSpend == {2204, 27500}

Account(bal, codeV) == [balance |-> bal, nonce |-> 0, code |-> codeV]

-----------------------------------------------------------------------------
(* testEIP1559Transition: addr1 sends a dynamic-fee message with an access *)
(* list to the contract aa in block 1 (coinbase cb1); addr2 a legacy one   *)
(* to aa in block 2 (coinbase cb2).                                        *)

EIP1559Accounts == {"addr1", "addr2", "aa", "cb1", "cb2", "SYS", "NEW"}

EIP1559Genesis ==
    [a \in EIP1559Accounts |->
        CASE a \in {"addr1", "addr2"} -> Account(Ether, "empty")
          [] a = "aa" -> Account(0, "contract")
          [] OTHER -> Account(0, "empty")]

EIP1559Blocks == {EthBlock(1, "cb1", 2), EthBlock(2, "cb2", 1)}

EIP1559Msgs ==
    { [Msg("addr1", "addr1", "aa", 0, 30000, 5, 2, 0)
         EXCEPT !.accessList = [addrs |-> 1, keys |-> 1]],
      Msg("addr2", "addr2", "aa", 0, 30000, 5, 5, 0) }

-----------------------------------------------------------------------------
(* testEIP3651: addr1 sends a dynamic-fee message to bb, which calls aa,   *)
(* in a block whose coinbase is aa.                                        *)

EIP3651Genesis ==
    [a \in {"addr1", "addr2", "aa", "bb"} |->
        IF a \in {"addr1", "addr2"} THEN Account(Ether, "empty")
        ELSE Account(0, "contract")]

EIP3651Blocks == {EthBlock(1, "aa", 2)}

EIP3651Msgs == { Msg("addr1", "addr1", "bb", 0, 500000, 5, 2, 0) }

-----------------------------------------------------------------------------
(* TestEIP7702: addr1 sends itself a set-code message whose authorizations *)
(* delegate addr1 (nonce 1, this chain) to aa and addr2 (nonce 0, any      *)
(* chain) to bb.  Its accounts are named eoa1 and eoa2 here, apart from    *)
(* the fee tests' addr1 and addr2 of another chain.  It shares the block  *)
(* of testEIP3651, whose coinbase is aa as well.                           *)

Auth(authority, chainId, nonceV, address) ==
    [chainId |-> chainId, nonce |-> nonceV, authority |-> authority,
     address |-> address]

EIP7702Genesis == [a \in {"eoa1", "eoa2"} |-> Account(Ether, "empty")]

EIP7702Msgs ==
    { [Msg("eoa1", "eoa1", "eoa1", 0, 500000, 5, 2, 0)
         EXCEPT !.authList = << Auth("eoa1", ChainID, 1, "aa"),
                                Auth("eoa2", 0, 0, "bb") >>] }

\* The three Ethereum tests in one chain: the two first blocks are alternatives, so
\* that addr1's nonce-0 message of either fee test may be included in
\* either.
EthTestGenesis == EIP1559Genesis @@ EIP3651Genesis @@ EIP7702Genesis
EthTestBlocks == EIP1559Blocks \cup EIP3651Blocks
EthTestMsgs == EIP1559Msgs \cup EIP3651Msgs \cup EIP7702Msgs

-----------------------------------------------------------------------------
(* testSponsoredTxTransition: Miko from genesis (time 2000), Venoki from   *)
(* block 2, no London; blocks are 10 s apart.  admin funds payer with gas  *)
(* * fee cap and sender with the value by legacy transfers at gas price 0  *)
(* (no base fee); sender's sponsored transfer to recipient is tried        *)
(* expired, with tip cap # fee cap, unfunded and valid (cases 2-6); case   *)
(* 7, after a third funding, has fee cap = tip cap + 1.  Unit: 10^4 wei,   *)
(* so the fee cap of 100000 wei is 10; the value of 10 wei is not scaled.  *)
(* Its blocks 1-3 are numbered 11-13, apart from the Ethereum tests'       *)
(* chain; its accounts are its own.                                        *)

RoninBlock(number) ==
    [number |-> 10 + number, coinbase |-> "CB",
     london |-> FALSE, venoki |-> number >= 2, cancun |-> FALSE,
     shanghai |-> FALSE, homestead |-> TRUE, istanbul |-> FALSE,
     consortiumV2 |-> FALSE, baseFee |-> 0, blobBaseFee |-> 0,
     time |-> 2000 + 10 * number, gasLimit |-> 4712388]

SponsoredGenesis ==
    [a \in {"admin", "sender", "payer", "recipient", "CB", "SYS", "NEW"} |->
        Account(IF a = "admin" THEN Ether ELSE 0, "empty")]

SponsoredBlocks == {RoninBlock(1), RoninBlock(2), RoninBlock(3)}

\* The sponsored transfer of cases 2-6 with its expiry time and tip cap.
SponsoredTransfer(expired, tipCap) ==
    [Msg("sender", "payer", "recipient", 0, 30000, 10, tipCap, 10)
       EXCEPT !.expiredTime = expired]

SponsoredMsgs ==
    { Msg("admin", "admin", "payer", 0, 21000, 0, 0, 30000 * 10),
      Msg("admin", "admin", "sender", 1, 21000, 0, 0, 10),
      Msg("admin", "admin", "payer", 2, 21000, 0, 0, 21000 * 11),
      SponsoredTransfer(1000, 10), SponsoredTransfer(3000, 11),
      SponsoredTransfer(3000, 10), SponsoredTransfer(0, 10),
      Msg("sender", "payer", "recipient", 1, 21000, 11, 10, 0) }

\* testSponsoredTxTransition, case 6: once admin has funded payer with gas *
\* fee cap and sender with the value, and sender's sponsored transfer is
\* included, sender has nothing left and payer holds fee cap * 9000, the
\* unused gas refunded to it: buyGas charged payer, not sender, and
\* refundGas paid payer back.
SponsoredTransferSettles ==
    nonce["admin"] = 2 /\ nonce["sender"] = 1
      => balance["sender"] = 0 /\ balance["payer"] = 10 * 9000

-----------------------------------------------------------------------------
\* The tip the tests expect per gas: the tip cap of a dynamic-fee
\* transaction; for a legacy one (tip cap = fee cap = gas price) the gas
\* price less the base fee.
TestTip(tx) == IF tx.tipCap = tx.feeCap THEN tx.tipCap - blk.baseFee ELSE tx.tipCap

\* testEIP1559Transition and testEIP3651, assertions 3-6: in a block of
\* their chain, the block's
\* coinbase has received exactly gasUsed * tip for the block's transactions
\* (only the tip, only the realised part of a legacy price), and every
\* sender has paid gasUsed * (tip + baseFee) of its funds.
CoinbaseGetsOnlyTip ==
  blk \in EthTestBlocks =>
    /\ balance[blk.coinbase]
         = SumFunction([i \in InBlock |->
                          receipts[i].usedGas * TestTip(receipts[i].tx)])
    /\ \A i \in InBlock :
         Ether - balance[receipts[i].tx.from]
           = receipts[i].usedGas * (TestTip(receipts[i].tx) + blk.baseFee)

\* TestEIP7702's assertions on code: once the set-code message is included,
\* both delegation designators are installed.  addr1's authorization
\* carries nonce 1 and is valid only because TransitionDb bumps the
\* sender's nonce before it applies the authorization list.
DelegationsInstalled ==
    (\E i \in DOMAIN receipts : receipts[i].tx \in EIP7702Msgs)
      => code["eoa1"] = "aa" /\ code["eoa2"] = "bb"
-----------------------------------------------------------------------------
\* Both chains.
TestGenesis == EthTestGenesis @@ SponsoredGenesis
TestBlocks == EthTestBlocks \cup SponsoredBlocks
TestMsgs == EthTestMsgs \cup SponsoredMsgs
=============================================================================
