SPECIFICATION FairSpec
CONSTANTS
  Docs = {d1}
  Binaries = {{}}
  Versions <- Two
  ChunksOf <- Disjoint
  Starts = {"new", "indexed"}
  RespawnCap = 1
  MaxEdits = 1
  MaxOverruns = 0
  MaxFaults = 0
  MaxCommands = 0
  c0 = c0
  c1 = c1
  c2 = c2
  c3 = c3
  OldChunks <- Old
  StampCurrent = FALSE
  Capacity = 1
PROPERTY PendingIsSwept
CHECK_DEADLOCK FALSE
