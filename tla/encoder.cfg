\* Four segments, two ffmpeg processes at once; any segment may fail.
CONSTANTS
  NSegs = 4
  MaxParallel = 2
SPECIFICATION FairSpec
INVARIANTS TypeOK
PROPERTIES ImplementsCall NoGoroutineLeaks CallReturns
