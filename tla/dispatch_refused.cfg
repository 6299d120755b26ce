\* One service, a job published twice, nothing fails.
CONSTANTS
  s1 = s1  s2 = s2  m1 = m1  m2 = m2  m3 = m3  m4 = m4  a = a
  Services <- Services1
  Msgs <- Msgs2
  Jobs = {a}
  JobOf <- SameJob
  Malformed = {}
  WorkerCount = 1
  JobChanCap = 1
  JobsCap = 1
  Signalled = {}
  Faults = {}
  Free = Free
SPECIFICATION Spec
PROPERTIES RefusedMeansBusy
CHECK_DEADLOCK FALSE
