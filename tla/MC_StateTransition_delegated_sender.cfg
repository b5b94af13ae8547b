CONSTANTS
    Nil = Nil
    Word = 1073741824
    P <- Schedule
    Accounts <- AllAccounts
    SystemAddress = "SYS"
    Treasury = "T"
    Created = "NEW"
    ChainID = 2020
    Genesis <- AllGenesis
    Blocks <- AllBlocks
    Msgs <- AllMsgs
    Spend <- MCSpend
    Refunds <- MCRefunds
    MaxTxs <- MaxChainTxs
INIT Init
NEXT MCNext
\* A chain ends after its blocks and its bound of messages.
CHECK_DEADLOCK FALSE
INVARIANT DelegatedSenderMaySend
