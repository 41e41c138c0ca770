SPECIFICATION Spec
CONSTANTS
  root = root
  sub = sub
  cmdA = cmdA
  cmdB = cmdB
  startup = startup
  t1 = t1
  t2 = t2
  None = None
  Projects <- MCProjects
  Root <- root
  Cmds <- MCCmds
  Choices <- MCChoices
  Start <- MCStart
  Tasks <- MCTasks
  Startup <- startup
  MaxChanges = 2
CHECK_DEADLOCK FALSE
SYMMETRY TaskSymmetry
INVARIANTS
  TypeOK
  LibsAreUnion
  QuietIsApplied
