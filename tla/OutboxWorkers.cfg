SPECIFICATION Spec
CONSTANTS
  first = first
  second = second
  Workers <- BothWorkers
  Setups <- PlainAndNot
  WriterTable = "llm_wiki_outbox"
  Default = "outbox"
  WorkerTables <- Polled
  BatchSize = 2
  Chunk = 1
  MaxEvents = 3
  MaxStamp = 1
  MaxFaults = 2
INVARIANT NothingLost
INVARIANT ExactlyOnce
PROPERTY ImplementsEventLog
