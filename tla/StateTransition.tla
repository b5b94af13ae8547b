--------------------------- MODULE StateTransition ---------------------------
(***************************************************************************)
(* core/state_transition.go (src/unnamed/part_000): TransitionDb applied   *)
(* to the messages of a run of blocks, each step the whole call: preCheck, *)
(* buyGas, the intrinsic-gas and transfer clauses, the nonce bump, EIP-7702 *)
(* authorizations, the EVM call, refundGas and the fee payments to the     *)
(* block producer and the Ronin treasury.                                  *)
(*                                                                         *)
(* The EVM is abstracted: a call to code or a create succeeds, reverts or  *)
(* fails; it burns an amount of gas from Spend and, when it succeeds,      *)
(* leaves a refund counter from Refunds.  A message whose TransitionDb     *)
(* returns an error is dropped by the caller together with every change    *)
(* buyGas had already made (the miner reverts its state snapshot and gas   *)
(* pool; the state processor rejects the block), so such a step changes    *)
(* only lastErr.  Amounts are small integers; big.Int never wraps.         *)
(***************************************************************************)
EXTENDS Integers, Sequences, FiniteSets, Functions, SequencesExt, IntrinsicGas

CONSTANTS
    Accounts,       \* every address the block touches
    SystemAddress,  \* consensus.SystemAddress, paid the tips after ConsortiumV2
    Treasury,       \* ChainConfig.RoninTreasuryAddress, or Nil
    Created,        \* the address a contract creation deploys to
    ChainID,        \* ChainConfig.ChainID
    Genesis,        \* [balance, nonce, code] of every account at the block start
    Blocks,         \* block contexts: number, coinbase, fork rules, fees, time,
                    \* gas limit
    Msgs,           \* the messages the block may contain
    Spend,          \* gas an EVM execution may burn
    Refunds,        \* refund counters a successful execution may leave
    MaxTxs          \* bound on the messages applied

ASSUME Treasury \in Accounts \cup {Nil}

VARIABLES
    blk,        \* the block context, fixed by Init
    balance,    \* StateDB balances
    nonce,      \* StateDB nonces (uint64)
    code,       \* "empty", "contract", or the account a 7702 delegation points to
    gp,         \* the block's GasPool
    receipts,   \* every message included, in order, with its block number
                \* and ExecutionResult
    lastErr,    \* the error of the latest TransitionDb ("none") and its sender
    txs         \* messages applied so far

vars == <<blk, balance, nonce, code, gp, receipts, lastErr, txs>>

BigMin(a, b) == IF a < b THEN a ELSE b

\* A sponsored message: its payer is not its sender.
Sponsored(m) == m.payer # m.from

\* msg.GasPrice() as types.AsMessage computes it: the fee cap before London,
\* min(tip + base fee, fee cap) after.
GasPrice(m) ==
    IF blk.london THEN BigMin(m.tipCap + blk.baseFee, m.feeCap) ELSE m.feeCap

\* blobGasUsed
BlobGasUsed(m) == IF m.blobs = Nil THEN 0 ELSE m.blobs * P.BlobTxBlobGasPerBlob

\* Mutant: no check that the sender's nonce + 1 does not wrap.
PreCheckErrsNoNonceMax(m) ==
    LET n == nonce[m.from] IN
    << <<~m.fake /\ n < m.nonce, "nonce too high">>,
       <<~m.fake /\ n > m.nonce, "nonce too low">>,
       <<~m.fake /\ code[m.from] # "empty", "sender not an eoa">>,
       <<~m.system /\ blk.london /\ m.feeCap < m.tipCap, "tip above fee cap">>,
       <<~m.system /\ blk.london /\ m.feeCap < blk.baseFee, "fee cap too low">>,
       <<Sponsored(m) /\ m.expiredTime # 0 /\ m.expiredTime <= blk.time,
         "expired sponsored transaction">>,
       <<Sponsored(m) /\ ~blk.venoki /\ m.tipCap # m.feeCap,
         "different fee cap and tip cap">>,
       <<m.blobs # Nil /\ m.to = Nil, "blob transaction of type create">>,
       <<m.blobs # Nil /\ m.blobs = 0, "missing blob hashes">>,
       <<m.blobs # Nil /\ ~m.blobHashesValid, "invalid blob hash version">>,
       <<blk.cancun /\ BlobGasUsed(m) > 0 /\ m.blobFeeCap < blk.blobBaseFee,
         "blob fee cap too low">>,
       <<m.authList # Nil /\ m.to = Nil, "set code transaction of type create">>,
       <<m.authList # Nil /\ Len(m.authList) = 0, "empty auth list">> >>

\* The checks of preCheck before buyGas, in the order the code makes them.
PreCheckErrs(m) ==
    LET n == nonce[m.from] IN
    << <<~m.fake /\ n < m.nonce, "nonce too high">>,
       <<~m.fake /\ n > m.nonce, "nonce too low">>,
       <<~m.fake /\ (n + 1) % Word < n, "nonce has max value">>,
       <<~m.fake /\ code[m.from] # "empty", "sender not an eoa">>,
       <<~m.system /\ blk.london /\ m.feeCap < m.tipCap, "tip above fee cap">>,
       <<~m.system /\ blk.london /\ m.feeCap < blk.baseFee, "fee cap too low">>,
       <<Sponsored(m) /\ m.expiredTime # 0 /\ m.expiredTime <= blk.time,
         "expired sponsored transaction">>,
       <<Sponsored(m) /\ ~blk.venoki /\ m.tipCap # m.feeCap,
         "different fee cap and tip cap">>,
       <<m.blobs # Nil /\ m.to = Nil, "blob transaction of type create">>,
       <<m.blobs # Nil /\ m.blobs = 0, "missing blob hashes">>,
       <<m.blobs # Nil /\ ~m.blobHashesValid, "invalid blob hash version">>,
       <<blk.cancun /\ BlobGasUsed(m) > 0 /\ m.blobFeeCap < blk.blobBaseFee,
         "blob fee cap too low">>,
       <<m.authList # Nil /\ m.to = Nil, "set code transaction of type create">>,
       <<m.authList # Nil /\ Len(m.authList) = 0, "empty auth list">> >>

\* The first failing check, or "none".
FirstErr(checks) ==
    LET i == SelectInSeq(checks, LAMBDA c : c[1]) IN
    IF i = 0 THEN "none" ELSE checks[i][2]

\* Mutant: the non-sponsored balance check leaves out the value.
BuyGasNoValue(m, bal) ==
    LET blobGas  == IF m.blobs # Nil /\ ~Sponsored(m) THEN BlobGasUsed(m) ELSE 0
        blobFee  == blobGas * blk.blobBaseFee
        check    == m.gas * m.feeCap + blobGas * m.blobFeeCap
        fee      == m.gas * GasPrice(m) + blobFee
        err == FirstErr(
            << <<Sponsored(m) /\ bal[m.payer] < check, "insufficient payer funds">>,
               <<Sponsored(m) /\ bal[m.from] < m.value, "insufficient sender funds">>,
               <<~Sponsored(m) /\ bal[m.from] < check, "insufficient funds">>,
               <<gp < m.gas, "gas limit reached">> >>)
        toTreasury == Treasury # Nil /\ blobFee > 0
        bal1 == IF toTreasury
                THEN [bal EXCEPT ![Treasury] = @ + blobFee] ELSE bal
    IN  [err |-> err, balance |-> [bal1 EXCEPT ![m.payer] = @ - fee]]

\* Mutant: the fee is taken from the sender, as in upstream geth.
BuyGasChargesSender(m, bal) ==
    LET blobGas  == IF m.blobs # Nil /\ ~Sponsored(m) THEN BlobGasUsed(m) ELSE 0
        blobFee  == blobGas * blk.blobBaseFee
        check    == m.gas * m.feeCap + blobGas * m.blobFeeCap
        fee      == m.gas * GasPrice(m) + blobFee
        err == FirstErr(
            << <<Sponsored(m) /\ bal[m.payer] < check, "insufficient payer funds">>,
               <<Sponsored(m) /\ bal[m.from] < m.value, "insufficient sender funds">>,
               <<~Sponsored(m) /\ bal[m.from] < check + m.value, "insufficient funds">>,
               <<gp < m.gas, "gas limit reached">> >>)
        toTreasury == Treasury # Nil /\ blobFee > 0
        bal1 == IF toTreasury
                THEN [bal EXCEPT ![Treasury] = @ + blobFee] ELSE bal
    IN  [err |-> err, balance |-> [bal1 EXCEPT ![m.from] = @ - fee]]

\* Mutant: a sponsored message's fee check reads the sender's balance.
BuyGasChecksSender(m, bal) ==
    LET blobGas  == IF m.blobs # Nil /\ ~Sponsored(m) THEN BlobGasUsed(m) ELSE 0
        blobFee  == blobGas * blk.blobBaseFee
        check    == m.gas * m.feeCap + blobGas * m.blobFeeCap
        fee      == m.gas * GasPrice(m) + blobFee
        err == FirstErr(
            << <<Sponsored(m) /\ bal[m.from] < check, "insufficient payer funds">>,
               <<Sponsored(m) /\ bal[m.from] < m.value, "insufficient sender funds">>,
               <<~Sponsored(m) /\ bal[m.from] < check + m.value, "insufficient funds">>,
               <<gp < m.gas, "gas limit reached">> >>)
        toTreasury == Treasury # Nil /\ blobFee > 0
        bal1 == IF toTreasury
                THEN [bal EXCEPT ![Treasury] = @ + blobFee] ELSE bal
    IN  [err |-> err, balance |-> [bal1 EXCEPT ![m.payer] = @ - fee]]

\* buyGas: the fee the payer is charged, the blob fee, and the balance check
\* against the fee caps (payer and sender apart for a sponsored message).
BuyGas(m, bal) ==
    LET blobGas  == IF m.blobs # Nil /\ ~Sponsored(m) THEN BlobGasUsed(m) ELSE 0
        blobFee  == blobGas * blk.blobBaseFee
        check    == m.gas * m.feeCap + blobGas * m.blobFeeCap
        fee      == m.gas * GasPrice(m) + blobFee
        err == FirstErr(
            << <<Sponsored(m) /\ bal[m.payer] < check, "insufficient payer funds">>,
               <<Sponsored(m) /\ bal[m.from] < m.value, "insufficient sender funds">>,
               <<~Sponsored(m) /\ bal[m.from] < check + m.value, "insufficient funds">>,
               <<gp < m.gas, "gas limit reached">> >>)
        toTreasury == Treasury # Nil /\ blobFee > 0
        bal1 == IF toTreasury
                THEN [bal EXCEPT ![Treasury] = @ + blobFee] ELSE bal
    IN  [err |-> err, balance |-> [bal1 EXCEPT ![m.payer] = @ - fee]]

\* The StateDB as TransitionDb sees it between steps, with its refund counter.
World == [balance |-> balance, nonce |-> nonce, code |-> code, refund |-> 0]

\* Exist: the account is in the state (empty accounts are deleted at the end
\* of every transaction, EIP-158).
Exist(w, a) == w.balance[a] > 0 \/ w.nonce[a] > 0 \/ w.code[a] # "empty"

\* validateAuthorization: the first reason to skip an authorization, or "none".
ValidateAuthorization(w, auth) ==
    FirstErr(
      << <<auth.chainId # 0 /\ auth.chainId # ChainID, "wrong chain id">>,
         <<(auth.nonce + 1) % Word < auth.nonce, "authorization nonce overflow">>,
         <<auth.authority = Nil, "invalid authorization signature">>,
         <<auth.authority # Nil /\ w.code[auth.authority] = "contract",
           "authority has code">>,
         <<auth.authority # Nil /\ w.nonce[auth.authority] # auth.nonce,
           "authorization nonce mismatch">> >>)

\* applyAuthorization: an invalid authorization is skipped; a valid one
\* refunds the new-account cost when the authority exists, bumps its nonce
\* and installs (or, to the zero address Nil, clears) the delegation.
ApplyAuthorization(w, auth) ==
    LET a == auth.authority IN
    IF ValidateAuthorization(w, auth) # "none" THEN w
    ELSE [w EXCEPT
            !.refund  = @ + (IF Exist(w, a)
                             THEN P.CallNewAccountGas - P.TxAuthTupleGas ELSE 0),
            !.nonce[a] = (auth.nonce + 1) % Word,
            !.code[a]  = IF auth.address = Nil THEN "empty" ELSE auth.address]

\* The consensus checks of TransitionDb in order: preCheck, buyGas, then
\* clauses 4-6 and the init-code size; the first failing one, or "none".
TransitionErr(m) ==
    LET ig == IntrinsicGas(m.dataLen, m.nz, m.accessList, m.authList,
                           m.to = Nil, blk.homestead, blk.istanbul, blk.shanghai)
        pre == FirstErr(PreCheckErrs(m))
        buy == BuyGas(m, balance)
    IN  FirstErr(
          << <<pre # "none", pre>>,
             <<buy.err # "none", buy.err>>,
             <<~m.system /\ ig.err # "none", ig.err>>,
             <<~m.system /\ m.gas < ig.gas, "intrinsic gas too low">>,
             <<m.value > 0 /\ buy.balance[m.from] < m.value,
               "insufficient funds for transfer">>,
             <<blk.shanghai /\ m.to = Nil /\ m.dataLen > P.MaxInitCodeSize,
               "max initcode size exceeded">> >>)

\* A message whose TransitionDb fails: the caller drops it with buyGas's
\* changes, and only the error remains.
Reject(m) ==
    /\ TransitionErr(m) # "none"
    /\ lastErr' = [err |-> TransitionErr(m), from |-> m.from]
    /\ txs' = txs + 1
    /\ UNCHANGED <<blk, balance, nonce, code, gp, receipts>>

\* Mutant: the tip is the tip cap, not capped by fee cap - base fee.
EffectiveTipUncapped(m) ==
    IF blk.london THEN m.tipCap ELSE GasPrice(m)

\* The tip per gas the block producer receives: the gas price before London,
\* min(tip cap, fee cap - base fee) after.
EffectiveTip(m) ==
    IF blk.london THEN BigMin(m.tipCap, m.feeCap - blk.baseFee) ELSE GasPrice(m)

\* Mutant: the authorizations are applied before the sender's nonce bump.
AuthorizeThenBumpNonce(m, w) ==
    LET w1 == IF m.to = Nil \/ m.authList = Nil THEN w
              ELSE FoldLeft(ApplyAuthorization, w, m.authList)
    IN  [w1 EXCEPT !.nonce[m.from] = (@ + 1) % Word]

\* The sender's nonce bump (SetNonce in TransitionDb, inside evm.Create for
\* a creation) and then, for a call, the authorizations in list order, so
\* that the sender's own authorization must carry its nonce + 1.
BumpNonceAndAuthorize(m, w) ==
    LET w1 == [w EXCEPT !.nonce[m.from] = (@ + 1) % Word] IN
    IF m.to = Nil \/ m.authList = Nil THEN w1
    ELSE FoldLeft(ApplyAuthorization, w1, m.authList)

\* Mutant: the remaining gas is paid back to the sender, as in upstream geth.
RefundGasToSender(m, counter, bal, pool, left, quot) ==
    LET refund == BigMin((m.gas - left) \div quot, counter)
        gas    == left + refund
    IN  [refund |-> refund, gas |-> gas,
         balance |-> [bal EXCEPT ![m.from] = @ + gas * GasPrice(m)],
         gp |-> pool + gas]

\* Mutant: the gas pool gets back the gas left before the refund is added.
RefundGasPoolBeforeRefund(m, counter, bal, pool, left, quot) ==
    LET refund == BigMin((m.gas - left) \div quot, counter)
        gas    == left + refund
    IN  [refund |-> refund, gas |-> gas,
         balance |-> [bal EXCEPT ![m.payer] = @ + gas * GasPrice(m)],
         gp |-> pool + left]

\* refundGas: the refund counter, capped to gasUsed / quot, is added to the
\* gas left; that gas, exchanged at the original gas price, goes back to the
\* payer that bought it, and returns to the block's gas pool.
RefundGas(m, counter, bal, pool, left, quot) ==
    LET refund == BigMin((m.gas - left) \div quot, counter)
        gas    == left + refund
    IN  [refund |-> refund, gas |-> gas,
         balance |-> [bal EXCEPT ![m.payer] = @ + gas * GasPrice(m)],
         gp |-> pool + gas]

\* The EVM's verdict on the call or create.
Outcomes == {"ok", "revert", "fail"}

\* A message whose TransitionDb succeeds.  buyGas charges the payer and the
\* gas pool; the intrinsic gas is taken; the sender's nonce is bumped (by
\* evm.Create for a creation) and, for a call, the authorizations applied;
\* the EVM moves the value only when it succeeds, and burns all the gas when
\* it fails; a call to an account without code runs nothing and succeeds.  refundGas returns min(gasUsed / quotient, refund counter) with
\* the unused gas, at the gas price, to the payer and to the gas pool; the
\* tip goes to the coinbase (the system address after ConsortiumV2) and,
\* after Venoki, gasUsed * baseFee to the treasury.
Include(m) ==
    LET creation == m.to = Nil
        ig   == IntrinsicGas(m.dataLen, m.nz, m.accessList, m.authList,
                             creation, blk.homestead, blk.istanbul, blk.shanghai)
        gas1 == IF m.system THEN m.gas ELSE m.gas - ig.gas
        w2   == BumpNonceAndAuthorize(m, [World EXCEPT
                                          !.balance = BuyGas(m, balance).balance])
        dest == IF creation THEN Created ELSE m.to
        collision == creation /\ w2.code[Created] # "empty"
        codeless  == ~creation /\ w2.code[dest] = "empty"
    IN
    /\ TransitionErr(m) = "none"
    /\ \E out \in (IF collision THEN {"fail"} ELSE IF codeless THEN {"ok"}
                   ELSE Outcomes),
         s \in (IF codeless THEN {0} ELSE Spend),
         r \in (IF codeless THEN {0} ELSE Refunds) :
       LET left    == IF out = "fail" THEN 0 ELSE gas1 - BigMin(s, gas1)
           counter == w2.refund + (IF out = "ok" THEN r ELSE 0)
           moved   == IF out = "ok" THEN m.value ELSE 0
           bal0    == [w2.balance EXCEPT ![m.from] = @ - moved]
           bal1    == [bal0 EXCEPT ![dest] = @ + moved]
           quot    == IF blk.london THEN P.RefundQuotientEIP3529
                                    ELSE P.RefundQuotient
           rg      == RefundGas(m, counter, bal1, gp - m.gas, left, quot)
           refund  == IF m.system THEN 0 ELSE rg.refund
           final   == IF m.system THEN left ELSE rg.gas
           used    == m.gas - final
           tip     == EffectiveTip(m)
           tipTo   == IF blk.consortiumV2 THEN SystemAddress ELSE blk.coinbase
           bal3    == [rg.balance EXCEPT ![tipTo] = @ + used * tip]
           bal4    == IF blk.venoki /\ Treasury # Nil
                      THEN [bal3 EXCEPT ![Treasury] = @ + used * blk.baseFee]
                      ELSE bal3
       IN  /\ balance' = IF m.system THEN bal1 ELSE bal4
           /\ gp' = IF m.system THEN gp - m.gas ELSE rg.gp
           /\ nonce' = w2.nonce
           /\ code' = IF creation /\ out = "ok"
                      THEN [w2.code EXCEPT ![Created] = "contract"] ELSE w2.code
           /\ receipts' = Append(receipts,
                 [block |-> blk.number, tx |-> m, usedGas |-> used,
                  refundedGas |-> refund, failed |-> out # "ok"])
           /\ lastErr' = [err |-> "none", from |-> m.from]
           /\ txs' = txs + 1
           /\ UNCHANGED blk

\* A run starts at a block whose parent is not among Blocks (the first block
\* after a genesis).
Init ==
    /\ blk \in {b \in Blocks : \A c \in Blocks : c.number # b.number - 1}
    /\ balance = [a \in Accounts |-> Genesis[a].balance]
    /\ nonce = [a \in Accounts |-> Genesis[a].nonce]
    /\ code = [a \in Accounts |-> Genesis[a].code]
    /\ gp = blk.gasLimit
    /\ receipts = <<>>
    /\ lastErr = [err |-> "none", from |-> Nil]
    /\ txs = 0

\* The next block starts with a fresh GasPool of its gas limit, as the state
\* processor and the miner create one per block.
EndBlock ==
    /\ \E b \in Blocks :
         /\ b.number = blk.number + 1
         /\ blk' = b
         /\ gp' = b.gasLimit
    /\ lastErr' = [err |-> "none", from |-> Nil]
    /\ UNCHANGED <<balance, nonce, code, receipts, txs>>

\* The messages a caller can hand to ApplyMessage in the current block: the
\* block's signer (types.MakeSigner, outside src/) turns a blob transaction
\* into a message only from Cancun on.  Before Cancun the block context's
\* BlobBaseFee is nil, and buyGas would multiply by it.
Admissible(m) == m.blobs # Nil => blk.cancun

\* ApplyMessage for each message, until MaxTxs were applied.
Next ==
    \/ txs < MaxTxs /\ \E m \in Msgs : Admissible(m) /\ (Reject(m) \/ Include(m))
    \/ EndBlock

Spec == Init /\ [][Next]_vars

-----------------------------------------------------------------------------
Receipt == [block : Nat, tx : Msgs, usedGas : Nat,
            refundedGas : Nat, failed : BOOLEAN]

\* Balances are never negative: buyGas's checks against the fee caps cover
\* every amount later charged at the (lower) gas price and blob base fee.
TypeOK ==
    /\ balance \in [Accounts -> Nat]
    /\ nonce \in [Accounts -> 0..(Word - 1)]
    /\ code \in [Accounts -> {"empty", "contract"} \cup Accounts]
    /\ gp \in Nat
    /\ receipts \in Seq(Receipt)
    /\ txs \in 0..MaxTxs

\* The total of all balances at the block start.
GenesisSupply == SumFunction([a \in Accounts |-> Genesis[a].balance])

\* No wei is created or destroyed by TransitionDb when the treasury is set
\* (and, as on Ronin, the base fee is 0 before Venoki): what buyGas takes
\* from the payer at the gas price and blob base fee comes back as refund,
\* goes to the coinbase or system address as tip, or to the treasury as
\* base and blob fee; the value only moves.  Breaking it takes the fee
\* formulas of buyGas, refundGas and the tip/treasury payments to disagree.
SupplyConserved == SumFunction(balance) = GenesisSupply

\* buyGas's balance check (fee cap times gas, blob fee cap, plus the value,
\* or the sender's value for a sponsored message) leaves the sender able to
\* transfer the value, so clause 6 of TransitionDb never fails.
TransferNeverShort == lastErr.err # "insufficient funds for transfer"

\* A nonce never goes back.  The sender's bump in TransitionDb and an
\* authority's SetNonce(auth.Nonce + 1) are uint64 additions; preCheck
\* refuses a sender at nonce 2^64 - 1 and validateAuthorization an
\* authorization whose nonce + 1 wraps (EIP-2681), and the authority's
\* nonce must equal the authorization's.
NoncesNeverDecrease ==
    [][\A a \in Accounts : nonce'[a] >= nonce[a]]_nonce

\* The receipts of the current block.
InBlock == {i \in DOMAIN receipts : receipts[i].block = blk.number}

\* The block's gas pool is its gas limit less what its messages took:
\* buyGas takes the message's gas, and refundGas returns the gas left with
\* the refund, so a message takes its receipt's UsedGas.  A system message
\* is never refunded (TransitionDb skips refundGas), so it takes all its gas
\* whatever it used.
BlockGasAccounted ==
    gp = blk.gasLimit
         - SumFunction([i \in InBlock |->
                          IF receipts[i].tx.system THEN receipts[i].tx.gas
                          ELSE receipts[i].usedGas])

\* The ledger view of the run: the receipts are the settlements.
Ledger == INSTANCE AbstractLedger
            WITH BlobGasPerBlob <- P.BlobTxBlobGasPerBlob,
                 RefundQuotient <- P.RefundQuotient,
                 RefundQuotientEIP3529 <- P.RefundQuotientEIP3529,
                 settled <- [i \in DOMAIN receipts |->
                               [block |-> receipts[i].block, tx |-> receipts[i].tx,
                                usedGas |-> receipts[i].usedGas,
                                refundedGas |-> receipts[i].refundedGas,
                                failed |-> receipts[i].failed]]

\* TransitionDb settles every message by its receipt: buying all the gas,
\* the refund of the rest with the refund counter, the tip, the treasury
\* payments and the value transfer together move each balance exactly as
\* AbstractLedger's Settle does for the receipt's UsedGas and failure, and
\* a rejected message moves nothing.  Unlike SupplyConserved this names
\* who pays and who is paid, per account.
ImplementsLedger == Ledger!LSpec

\* A sender whose code is only an EIP-7702 delegation is still an EOA:
\* validateAuthorization lets such an account re-delegate, and EIP-7702
\* lets it keep sending transactions.
DelegatedSenderMaySend ==
    lastErr.err = "sender not an eoa" => code[lastErr.from] = "contract"
=============================================================================
