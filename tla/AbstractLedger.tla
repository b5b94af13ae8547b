--------------------------- MODULE AbstractLedger ---------------------------
(***************************************************************************)
(* What TransitionDb promises the ledger, with no gas pool, refund counter *)
(* or EVM in it: a block applies messages one at a time, and each applied  *)
(* message is settled in a single step by the gas its receipt reports.     *)
(* The payer pays that gas at the message's gas price (a system message    *)
(* pays for all the gas it bought) and its blob fee; the sender's value    *)
(* reaches the recipient (or the created account) only when the message   *)
(* did not fail; the block producer (the system address after              *)
(* ConsortiumV2) gets the tip on that gas; the Ronin treasury, when one is *)
(* configured, gets the blob fee and, after Venoki, the base fee on that   *)
(* gas.  What is paid and not credited is burnt.  A refund is at most half *)
(* the gas used before it (a fifth from London on, EIP-3529).              *)
(* StateTransition buys all the gas up front and returns the rest; it      *)
(* implements this ledger (see StateTransition!ImplementsLedger).          *)
(***************************************************************************)
EXTENDS Integers, SequencesExt

CONSTANTS
    Accounts,        \* the addresses
    SystemAddress,   \* receives the tips after ConsortiumV2
    Treasury,        \* the Ronin treasury, or Nil
    Created,         \* the address a contract creation deploys to
    Nil,             \* no address
    Genesis,         \* [balance, ...] of every account at the start
    Blocks,          \* block contexts (number, coinbase, fork rules, fees)
    Msgs,            \* the messages a block may contain
    BlobGasPerBlob,  \* blob gas of one blob
    RefundQuotient,  \* params.RefundQuotient (before London)
    RefundQuotientEIP3529  \* params.RefundQuotientEIP3529 (London on)

VARIABLES
    blk,        \* the current block context
    balance,    \* the ledger
    settled     \* the settlement of every applied message, in order

lvars == <<blk, balance, settled>>

LMin(a, b) == IF a < b THEN a ELSE b

\* EIP-1559: the price per gas a message pays in block b, and the part of
\* it that is a tip.
PriceIn(b, m) == IF b.london THEN LMin(m.tipCap + b.baseFee, m.feeCap) ELSE m.feeCap
TipIn(b, m)   == IF b.london THEN LMin(m.tipCap, m.feeCap - b.baseFee) ELSE PriceIn(b, m)

\* The share of the gas used that a refund may return in block b.
QuotientIn(b) == IF b.london THEN RefundQuotientEIP3529 ELSE RefundQuotient

\* The blob fee: blob gas at the block's blob base fee (sponsored messages
\* carry no blobs).
BlobFeeIn(b, m) ==
    IF m.blobs = Nil \/ m.payer # m.from THEN 0
    ELSE m.blobs * BlobGasPerBlob * b.blobBaseFee

\* The ledger after message r.tx is settled in block b with r.usedGas used.
Settle(b, bal, r) ==
    LET m       == r.tx
        paid    == (IF m.system THEN m.gas ELSE r.usedGas) * PriceIn(b, m)
                   + BlobFeeIn(b, m)
        moved   == IF r.failed THEN 0 ELSE m.value
        dest    == IF m.to = Nil THEN Created ELSE m.to
        tipTo   == IF b.consortiumV2 THEN SystemAddress ELSE b.coinbase
        tip     == IF m.system THEN 0 ELSE r.usedGas * TipIn(b, m)
        treas   == BlobFeeIn(b, m)
                   + (IF ~m.system /\ b.venoki THEN r.usedGas * b.baseFee ELSE 0)
        Delta(a, x, y) == IF a = x THEN y ELSE 0
    IN  [a \in Accounts |->
            bal[a] - Delta(a, m.payer, paid) - Delta(a, m.from, moved)
                   + Delta(a, dest, moved) + Delta(a, tipTo, tip)
                   + Delta(a, Treasury, treas)]

LInit ==
    /\ blk \in {b \in Blocks : \A c \in Blocks : c.number # b.number - 1}
    /\ balance = [a \in Accounts |-> Genesis[a].balance]
    /\ settled = <<>>

\* One message is applied: a settlement record r is appended (a message
\* of the block, with no more gas used than it bought and a refund within
\* the block's quotient of the gas used before it) and the ledger moves by
\* exactly r.
Apply ==
    /\ Len(settled') = Len(settled) + 1
    /\ settled = SubSeq(settled', 1, Len(settled))
    /\ LET r == Last(settled') IN
         /\ r.tx \in Msgs
         /\ r.block = blk.number
         /\ r.usedGas \in 0..r.tx.gas
         /\ r.refundedGas * QuotientIn(blk) <= r.usedGas + r.refundedGas
         /\ r.failed \in BOOLEAN
         /\ balance' = Settle(blk, balance, r)
    /\ UNCHANGED blk

\* The next block.
NewBlock ==
    /\ \E b \in Blocks : b.number = blk.number + 1 /\ blk' = b
    /\ UNCHANGED <<balance, settled>>

LNext == Apply \/ NewBlock

LSpec == LInit /\ [][LNext]_lvars
=============================================================================
