SPECIFICATION FairPlaySpec
CONSTANTS
  w1 = w1
  w2 = w2
  w3 = w3
  Displays = {d1, d2}
  Items = {w1, w2, w3}
  Clients = {u1, u2}
  Steppers = {s1}
  Lists <- SomeLists
  Queue <- SomeQueue
  Scenarios <- AllScenarios
  MaxRots = 3
CHECK_DEADLOCK FALSE
INVARIANTS
  SettingsFollowEngine
  PlaysTheList
PROPERTIES
  EveryItemPlays
