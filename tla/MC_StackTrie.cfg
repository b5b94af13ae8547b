CONSTANTS
    Keys <- MCKeys
    Values <- MCValues
    InitOptions <- MCInitOptions
    MaxInserts = 3
    Nil = Nil
    CallerOrdersKeys = TRUE

INIT Init
NEXT Next

INVARIANTS
    TypeOK
    RootMatchesReference
    CommitsMatchReference
    CommitOrder
    LiveFrontier

PROPERTIES
    UpdateCommitsOffPath
    ImplementsAbstract
