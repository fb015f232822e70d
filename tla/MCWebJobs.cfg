\* One inventory action that is watched and cancelled, in two lives of the server.
CONSTANTS
  Jobs <- MCJob
  InvJobs <- MCJob
  RefreshJobs <- MCJob
  Watched <- MCJob
  Cancellable <- MCJob
  MaxConcurrent = 1
  MaxQueued = 1
  MaxRestarts = 1
  StatusPage = FALSE
  NoJob = NoJob
  Empty = Empty
  Torn = Torn
  NoOne = NoOne
  AgiStatus = AgiStatus
SPECIFICATION FairSpec
CHECK_DEADLOCK FALSE
INVARIANTS FileTellsTheTruth CompleteStreamIsWhole
PROPERTY EndsAreFinal JobsEnd
