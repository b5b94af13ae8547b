\* Peer inputs, among them set-code objects with yParity and no v.
CONSTANTS
    Nil = Nil
    ZeroAddress = ZeroAddress
    SecpN <- MCSecpN
    Txs <- MCTxs
    Inputs <- MCInputs
    MaxHops = 2
    Word64 = 65536

INIT TInit
NEXT TNext

\* A relay stops when an object fails to decode or after MaxHops.
CHECK_DEADLOCK FALSE

INVARIANT YParityMayReplaceV
