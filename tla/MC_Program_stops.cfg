SPECIFICATION Spec
CONSTANTS
  InputCap = 1
  ActionCap = 2
  Files = {"moves"}
  Program <- StopPrograms
  Runs = {r1}
  MaxLine = 2
  Limits = FALSE
  ECSEnabled = FALSE
  MaxFaults = 0
  Presses = {"stop", "mode"}
  MaxMoves = 1
  MaxPresses = 3
INVARIANTS LateMoves NothingSkipped
CHECK_DEADLOCK FALSE
