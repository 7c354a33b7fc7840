SPECIFICATION Spec
CONSTANTS
  InputCap = 2
  ActionCap = 2
  Files = {"pair"}
  Program <- MovePrograms
  Runs = {r1}
  MaxLine = 2
  Limits = FALSE
  ECSEnabled = FALSE
  MaxFaults = 0
  Presses = {}
  MaxMoves = 1
  MaxPresses = 1
INVARIANT WaitsForMotor
CHECK_DEADLOCK FALSE
