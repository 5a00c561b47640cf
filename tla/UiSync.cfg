SPECIFICATION Spec
CONSTANTS
  d1 = d1
  d2 = d2
  r1 = r1
  r2 = r2
  l1 = l1
  a = a
  b = b
  None = None
  Displays = {d1, d2}
  Renderers = {r1, r2}
  Libraries = {l1}
  Writers = {a, b}
  FirstDisplays = {d1}
  FirstRenderers = {r1}
  Changes = 2
  Drops = 1
  RouterCap = 2
  BusCap = 1
INVARIANTS TruthIsAnnounced
PROPERTIES UiCatchesUp
CHECK_DEADLOCK FALSE
