SPECIFICATION FairSpec
CONSTANTS
  Displays = {d1, d2}
  Slots = {0, 1}
  Scenarios <- AllScenarios
  Retention = 2
  EventCapacity = 2
  MaxPoint = 3
  MaxPool = 2
CHECK_DEADLOCK FALSE
INVARIANTS
  NoTearing
PROPERTIES
  FramesAreConfigured
  SlotsAreReleased
