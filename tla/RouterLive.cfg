SPECIFICATION FairSpec
CONSTANTS
  Displays = {d1}
  Renderers = {r1}
  NoRenderer = NoRenderer
  GlobalApply = {g1}
  Recalls = {c1}
  UiClients = {}
  Negotiates = {r1}
  MayCrash = {r1}
  MayKill = {}
  MayLeave = {d1}
  MayCancel = {g1}
  MaxApplies = 2
  MaxGeneration = 1
CHECK_DEADLOCK FALSE
PROPERTIES
  
  CommandsEnd
INVARIANTS
  LinksOnlyPresent
