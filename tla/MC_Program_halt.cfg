SPECIFICATION Spec
CONSTANTS
  InputCap = 2
  ActionCap = 2
  Files = {"pair"}
  Program <- MovePrograms
  Runs = {r1}
  MaxLine = 2
  Limits = FALSE
  ECSEnabled = TRUE
  MaxFaults = 0
  Presses = {"stop", "reset"}
  MaxMoves = 1
  MaxPresses = 2
INVARIANT EndsWhenTold
CHECK_DEADLOCK FALSE
