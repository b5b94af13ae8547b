\* Every transaction the node may hold, and peer inputs, through 2 relays.
CONSTANTS
    Nil = Nil
    ZeroAddress = ZeroAddress
    SecpN <- MCSecpN
    Txs <- MCTxs
    Inputs <- MCInputs
    MaxHops = 2
    Word64 = 65536

INIT TInit
NEXT TNext

\* A relay stops when an object fails to decode or after MaxHops.
CHECK_DEADLOCK FALSE

INVARIANTS
    RoundTrip
    DecodedSignaturesSane
