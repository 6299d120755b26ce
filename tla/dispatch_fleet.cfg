\* Two services, a job published twice; one is shut down, both may crash, Redis
\* may answer SETNX with an error, locks expire.
CONSTANTS
  s1 = s1  s2 = s2  m1 = m1  m2 = m2  m3 = m3  m4 = m4  a = a
  Services <- Services2
  Msgs <- Msgs2
  Jobs = {a}
  JobOf <- SameJob
  Malformed = {}
  WorkerCount = 1
  JobChanCap = 1
  JobsCap = 1
  Signalled = {s1}
  Faults = {"crash", "lockerror", "expire"}
  Free = Free
SYMMETRY SymMsgs
SPECIFICATION Spec
INVARIANTS ClaimHoldsLock NoDoubleClaim
PROPERTIES ImplementsLease
