SPECIFICATION LifecycleFairSpec
CONSTANTS
  t1 = t1
  t2 = t2
  t3 = t3
  t4 = t4
  urlA = urlA
  urlB = urlB
  None = None
  Starts <- TwoStarts
  Tasks <- FourTasks
  Configs <- TwoConfigs
  FromEnv = urlA
  Overlap = TRUE
  MaxCommands = 3
INVARIANT SerialCommandsAreSafe
PROPERTY CommandsReturn
CHECK_DEADLOCK FALSE
