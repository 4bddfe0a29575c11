SPECIFICATION FairSpec
CONSTANTS
    a = a
    b = b
    Clients = {p, q}
    NoClient = NoClient
    NoChange = NoChange
    Changes <- MCChanges
    Contents <- MCContents
    Empty <- MCEmpty
    Effect <- MCEffect
    Refuses <- MCRefuses
    BackupKeep = 2
    MaxSecond = 2
    Faults = {"write"}
INVARIANTS
    StoreTypeOK
PROPERTIES
    EditsAreAtomic
    NewerIsKept
    UndoIsThere
    LockComesBack
    EveryCallReturns
