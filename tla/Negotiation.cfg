SPECIFICATION Spec
CONSTANTS
  Scenes <- MCScenes
  d1 = d1
  d2 = d2
  A = A
  L = L
  Displays = {d1, d2}
  Speaking = {d1, d2}
  None = None
  Refused = Refused
  Unknown = Unknown
  Fourccs = {1, 2}
  Modifiers = {A, L}
  Linear = L
  Uuids = {"gpu0", "gpu1"}
  Nodes = {"render0"}
  Lists <- MCLists
  RendererCaps <- MCRendererCaps
  DisplayCaps <- MCDisplayCaps
  Possible <- MCPossible
  Importable <- MCImportable
  Base = 8
  MaxFds = 2
  Protocol <- MCProtocol
  Payloads <- MCPayloads
INVARIANTS MessagesSurvive WinnerIsServed PicksAreUsable CapsSurviveTheWire
PROPERTIES NegotiationEnds
CHECK_DEADLOCK FALSE
