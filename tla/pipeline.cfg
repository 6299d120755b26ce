\* Two tasks in two slots: alone, side by side, and beside stragglers, in a
\* directory where things may be left behind, by a process that may exit.
CONSTANTS
  t1 = t1  t2 = t2  
  Tasks <- Tasks2
  WorkerCount = 2
  MaxSegs = 2
  MinSegmentDuration = 2
  Durations <- Lengths
  MaxParallel = 1
  NoOutputKey = {t1}
  Torn = Torn
  Former = Former
  Residue <- Leftovers
  None = None
SPECIFICATION Spec
INVARIANTS TypeOK OwnOutput  CleanWhenIdle
PROPERTIES TasksUseCall
