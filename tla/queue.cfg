\* Two callers that peek, one of which dequeues as well; two jobs, one of them
\* without a hash, the other perhaps malformed; commands fail, locks
\* expire.
CONSTANTS
  c1 = c1  c2 = c2  j1 = j1  j2 = j2  j3 = j3
  Jobs = {j1, j2}
  Callers = {c1, c2}
  Dequeuers = {c2}
  Recorded = {j1}
  Malformed = {j1}
  Faults = {"error", "expire"}
  NoJob = NoJob
SPECIFICATION FairSpec
INVARIANTS TypeOK HandedOutOnce ListKept
PROPERTIES OpenGetsTaken
CHECK_DEADLOCK FALSE
