CONSTANTS
    A = A
    B = B
    a1 = a1
    a2 = a2
    b1 = b1
    None = None
    Torn = Torn
    Empty = Empty
    Vaults = {A, B}
    Records = {a1, b1}
    Owner <- MCOwner
    InitVault = A
    InitRecs = {a1}
    InitBackups <- MCDrainedBackup
    Faults = {"capture", "stage", "mark", "preserve", "install", "clear"}
    LastFaults = {"dirsync", "sync"}
    Races = {}
    MaxFaults = 1
    MaxCrashes = 2
    MaxSwitches = 2
    MaxWrites = 1
    MaxStarts = 1
SPECIFICATION Spec
INVARIANTS
    TypeOK
    FilesAreSound
    CaptureBelongsToReplacedFile
    BrainWhole
    ReplicaIsOwed
CHECK_DEADLOCK FALSE
PROPERTIES
    PublishedCaptureIsKept
    OwedCaptureIsPublished
