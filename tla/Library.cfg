SPECIFICATION FairSpec
CONSTANTS
  outer = outer
  inner = inner
  link = link
  f1 = f1
  f2 = f2
  Libs = {outer, inner, link}
  Files = {f1, f2}
  Sees <- Nested
  Depth <- Depths
  Dir <- Targets
  Media = {f1}
  Batch = 2
  Scans = {s1, s2}
  Starts <- AllStarts
  MaxId = 9
CHECK_DEADLOCK FALSE
INVARIANTS
  InSync
PROPERTIES
  SweepsOnlyGone
  RowsAreProbed
  HeardFilesAreFound
