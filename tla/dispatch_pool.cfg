\* One service that may be stopped at any time, three different jobs and a
\* message that does not parse, two slots, channels of one place, a busy CPU,
\* a connection that breaks.
CONSTANTS
  s1 = s1  s2 = s2  m1 = m1  m2 = m2  m3 = m3  m4 = m4  a = a
  Services <- Services1
  Msgs <- Msgs4
  Jobs <- Jobs4
  JobOf <- Distinct
  Malformed = {m4}
  WorkerCount = 2
  JobChanCap = 1
  JobsCap = 1
  Signalled <- Services1
  Faults = {"cpu", "conn"}
  Free = Free
SPECIFICATION FairSpec
INVARIANTS TypeOK Ledger SlotsAccounted AtMostWorkerCount
PROPERTIES DropOnlyOverCommitted NoTaskAfterStop ReceivedGetsEncoded StopCompletes
CONSTRAINTS SentInOrder MissedOnce
