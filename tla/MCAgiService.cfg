\* The merged service from start to exit, with one SIGTERM and one SIGUSR1.
CONSTANTS
  Reqs <- MCReqs
  MaxRequests = 2
  MaxJobs = 1
  MaxTerm = 1
  MaxUsr = 1
SPECIFICATION FairSpec
CHECK_DEADLOCK FALSE
INVARIANTS CloseWaitsForReaders
PROPERTY ProfilesKept TermStopsService RequestsAnswered
