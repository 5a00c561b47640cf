SPECIFICATION FairPauseSpec
CONSTANTS
  DisplayIds = {d1, d2}
  Renderers = {r1}
  NoRenderer = none
  MaxInputs = 3
INVARIANTS ResumePending PauseComplete
PROPERTIES Unpauses
CHECK_DEADLOCK FALSE
