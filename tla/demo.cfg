SPECIFICATION FairSpec
CONSTANTS
  t1 = t1
  t2 = t2
  t3 = t3
  N = 2
  Tasks <- Tasks3
  Malformed = {t3}
  CPUPercent <- Percent3
  Breaks = 2
  None = None
INVARIANTS TypeOK CgroupOutlivesTask
PROPERTY QueuedIsTaken
\* The program stops; and it may wait for ever in Stop (run demo_stop).
CHECK_DEADLOCK FALSE
