CONSTANTS
    A = A
    B = B
    a1 = a1
    a2 = a2
    b1 = b1
    None = None
    Torn = Torn
    Empty = Empty
    Vaults = {A, B}
    Records = {a1, a2, b1}
    Owner <- MCOwner
    InitVault = A
    InitRecs = {a1}
    InitBackups <- MCInitBackups
    Faults = {"capture", "stage", "mark", "preserve", "install", "dirsync", "publish", "unmark", "clear", "reopen", "sync", "config", "walrename"}
    LastFaults = {}
    Races = {}
    MaxFaults = 1
    MaxCrashes = 0
    MaxSwitches = 1
    MaxWrites = 1
    MaxStarts = 2
SPECIFICATION FairSpec
INVARIANTS
    ReplicaIsOwed
    ConfigFollowsBrain
CHECK_DEADLOCK FALSE
PROPERTIES
    SwitchEnds
    CaptureIsSynced
