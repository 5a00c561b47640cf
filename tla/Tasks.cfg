SPECIFICATION FairSpec
CONSTANTS
  c1 = c1
  c2 = c2
  k1 = k1
  Callers = {c1, c2}
  Keys = {k1}
  NoKey = NoKey
  Submitters <- OneSubmitter
  Plain = {c1}
  Cancellers = {c2}
  MayPanic = {1}
  MayShutdown = TRUE
  MaxTasks = 3
  MaxPlain = 1
  TrimAbove = 1
CHECK_DEADLOCK FALSE
INVARIANTS
  OneLivePerKey
  NothingLeftOver
PROPERTIES
  CancelTakesEffect
  DrainsInTime
