\* An AGI of three instance types, one of them beyond the limit; two accepted
\* events; one command of the user or halt after the first agi create.  The
\* events may never come: the system may stop anywhere.
SPECIFICATION Spec
CONSTANTS
  Makers <- MCMakers
  Insts <- MCInsts
  Tasks <- MCTasks
  Sizes <- MCSizes
  MaxOthers = 1
  MaxRam = 2
  MaxDisk = 2
  NoInst = NoInst
  Gone = Gone
  NoVol = NoVol
  NoTask = NoTask
INVARIANTS FailedCreateLeavesNothing
CHECK_DEADLOCK FALSE
