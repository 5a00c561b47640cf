SPECIFICATION PlaySpec
CONSTANTS
  w1 = w1
  w2 = w2
  w3 = w3
  Displays = {d1}
  Items = {w1, w2, w3}
  Clients = {u1}
  Steppers = {s1}
  Lists <- SomeLists
  Queue <- SomeQueue
  Scenarios <- ResetScenarios
  MaxRots = 2
CHECK_DEADLOCK FALSE
INVARIANT
  EmptyRoundIsRebuilt
