SPECIFICATION Spec
CONSTANTS
  InputCap = 1
  ActionCap = 2
  Files = {"mixed", "wrong"}
  Program <- MixedPrograms
  Runs = {r1}
  MaxLine = 2
  Limits = TRUE
  ECSEnabled = TRUE
  MaxFaults = 0
  Presses = {"stop", "mode", "reset", "line"}
  MaxMoves = 1
  MaxPresses = 2
INVARIANT TrialSilent
CHECK_DEADLOCK FALSE
