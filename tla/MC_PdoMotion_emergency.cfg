SPECIFICATION Spec
CONSTANTS
  Settle = 2
  AckLimit = 3
  MaxPos = 1
  MaxFaults = 1
  MaxAttempts = 2
  MaxLag = 1
  Events = {"move", "emergency"}
  MaxEvents = 2
INVARIANT EmergencyStops
