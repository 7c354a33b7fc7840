SPECIFICATION FairSpec
CONSTANTS
  InputCap = 1
  ActionCap = 1
  Files = {"table", "twice", "again"}
  Program <- LoopPrograms
  Runs = {r1}
  MaxLine = 2
  Limits = TRUE
  ECSEnabled = FALSE
  MaxFaults = 1
  Presses = {}
  MaxMoves = 1
  MaxPresses = 1
INVARIANTS TypeOK ProgramOrder LateMoves CompletesWholeProgram DivideMovesN
PROPERTY TrialEnds
CHECK_DEADLOCK FALSE
