\* Two uploaders, three files, two attempts; cancellation and failures.
CONSTANTS
  u1 = u1  u2 = u2
  Uploaders <- Uploaders2
  Walk <- Walk3
  MaxRetries = 2
  Faults = {"cancel", "vanish", "put"}
SPECIFICATION FairSpec
INVARIANTS TypeOK SuccessMeansStored NothingLeftBehind
PROPERTIES CallReturns
