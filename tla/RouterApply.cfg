SPECIFICATION Spec
CONSTANTS
  Displays = {d1, d2}
  Renderers = {r1, r2}
  NoRenderer = NoRenderer
  GlobalApply = {}
  Recalls = {}
  UiClients = {u1}
  Negotiates = {}
  MayCrash = {r2}
  MayKill = {r2}
  MayLeave = {d1, d2}
  MayCancel = {}
  MaxApplies = 2
  MaxGeneration = 1
CHECK_DEADLOCK FALSE
SYMMETRY Symmetry
INVARIANTS
  SyncComplete
  MapsAgree
