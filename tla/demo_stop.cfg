SPECIFICATION FairSpec
CONSTANTS
  t1 = t1
  t2 = t2
  t3 = t3
  N = 2
  Tasks <- Tasks3
  Malformed = {t3}
  CPUPercent <- Percent3
  Breaks = 0
  None = None
PROPERTY StopReturns
\* The program stops; and it waits for ever in Stop (what this run shows).
CHECK_DEADLOCK FALSE
