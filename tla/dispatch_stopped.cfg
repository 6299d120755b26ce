\* One service, a job published twice, a stop signal.
CONSTANTS
  s1 = s1  s2 = s2  m1 = m1  m2 = m2  m3 = m3  m4 = m4  a = a
  Services <- Services1
  Msgs <- Msgs2
  Jobs = {a}
  JobOf <- SameJob
  Malformed = {}
  WorkerCount = 1
  JobChanCap = 1
  JobsCap = 1
  Signalled <- Services1
  Faults = {}
  Free = Free
SPECIFICATION Spec
INVARIANTS StoppedMeansIdle
