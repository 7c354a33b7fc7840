SPECIFICATION FairSpec
CONSTANTS
  Settle = 2
  AckLimit = 3
  MaxPos = 1
  MaxFaults = 1
  MaxAttempts = 2
  MaxLag = 1
  Events = {"move", "emergency", "jog", "settings", "reset"}
  MaxEvents = 2
INVARIANTS TypeOK RestsAtGoal PosOnlyInMove
PROPERTY MoveEnds
