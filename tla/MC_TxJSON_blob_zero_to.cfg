\* Blob transactions to the zero address.
CONSTANTS
    Nil = Nil
    ZeroAddress = ZeroAddress
    SecpN <- MCSecpN
    Txs <- MCTxs
    Inputs <- MCInputs
    MaxHops = 2
    Word64 = 65536

CONSTANT BlobTo <- BlobToAll

INIT TInit
NEXT TNext

\* A relay stops when an object fails to decode or after MaxHops.
CHECK_DEADLOCK FALSE

INVARIANT RoundTrip
