SPECIFICATION Spec
CONSTANTS
  Docs = {d1}
  Binaries <- AnyKind
  Versions <- Three
  ChunksOf <- Chunked
  Starts = {"new", "legacy"}
  RespawnCap = 2
  MaxEdits = 1
  MaxOverruns = 2
  MaxFaults = 1
  MaxCommands = 1
  c0 = c0
  c1 = c1
  c2 = c2
  c3 = c3
  OldChunks <- Old
  StampCurrent = FALSE
  Capacity = 1
INVARIANT IndexIsOneVersion
INVARIANT IndexedHashIsCurrent
INVARIANT BlamedForItsOwn
INVARIANT NewWedgeIsSeen
INVARIANT ClaimsOutliveNoChannel
CHECK_DEADLOCK FALSE
