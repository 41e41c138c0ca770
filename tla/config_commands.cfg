SPECIFICATION FairSpec
CONSTANTS
  root = root
  sub = sub
  cmdA = cmdA
  cmdB = cmdB
  startup = startup
  t1 = t1
  t2 = t2
  None = None
  Projects <- RootOnly
  Root <- root
  Cmds <- MCCmds
  Choices <- RootChoices
  Start <- RootStart
  Tasks <- MCTasks
  Startup <- startup
  MaxChanges = 2
CHECK_DEADLOCK FALSE
INVARIANTS
  Stage3NeverStale
  ResolvingIsRunning
PROPERTIES
  Settles
