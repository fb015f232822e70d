\* Three commands contend for one slot and one place in the queue, in one life of the server.
CONSTANTS
  Jobs = {c1, c2, c3}
  InvJobs <- MCNone
  RefreshJobs = {c1, c2, c3}
  Watched <- MCNone
  Cancellable <- MCNone
  MaxConcurrent = 1
  MaxQueued = 1
  MaxRestarts = 0
  StatusPage = TRUE
  NoJob = NoJob
  Empty = Empty
  Torn = Torn
  NoOne = NoOne
  AgiStatus = AgiStatus
SPECIFICATION Spec
SYMMETRY MCSymmetry
CHECK_DEADLOCK FALSE
INVARIANTS QueueAccounted EndShowsInInventory
