\* One short key/value pair and a Hash(): the root leaf is under 32 bytes.
CONSTANTS
    Keys <- MCKeys
    Values <- MCValues
    InitOptions <- MCInitOptions
    MaxInserts = 1
    Nil = Nil
    CallerOrdersKeys = TRUE

INIT Init
NEXT Next

INVARIANT WritesAreLarge
