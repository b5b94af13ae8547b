\* A caller that ignores the key order: any key, in any order.
CONSTANTS
    Keys <- MCKeys
    Values <- MCValues
    InitOptions <- MCInitOptions
    MaxInserts = 3
    Nil = Nil
    CallerOrdersKeys = FALSE

INIT Init
NEXT Next

INVARIANTS
    RootMatchesReference
    WritesAreFinal
