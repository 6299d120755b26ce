\* Two clients who want the same mailbox; every call may fail.
CONSTANTS
  c1 = c1  c2 = c2  k1 = k1  k2 = k2  k3 = k3  m = m
  Clients = {c1, c2}
  Mailbox <- Shared
  Keys = {k1, k2, k3}
  Faults = {"db", "redis"}
  None = None
SPECIFICATION FairSpec
INVARIANTS TypeOK OneAccountPerMailbox SessionIsOwn RegistrationReported
PROPERTIES OwnerGetsIn
