SPECIFICATION LayoutSpec
CONSTANTS
  d1 = d1
  d2 = d2
  Displays = {d1, d2}
  Renderers = {r1, r2}
  NoRenderer = NoRenderer
  Geometries = {black, blue}
  DefaultGeometry = black
  MaxLinks = 3
  Unit = 8
  Sizes <- MCSizes
  Unset = Unset
  Clients = {u1}
  InstanceId <- MCInstanceId
  Name <- MCName
  FirstSize <- MCFirstSize
  FirstPrefs <- MCFirstPrefs
  DisplayEdits <- MCDisplayEdits
  GlobalEdits <- MCGlobalEdits
  WallpaperEdits <- MCWallpaperEdits
  MaxChanges = 2
  MaxComings = 4
SYMMETRY Symmetry
CHECK_DEADLOCK FALSE
INVARIANTS
  IndexesAgree
  ProjectionsFit
  ConfigsAreCurrent
PROPERTIES
  ImplementsLinkMap
