SPECIFICATION Spec
CONSTANTS
  Devices <- Drives
  Pollers <- Drives
  DeviceOf <- PollerOf
  Codes = {c80, c87}
  Capacity = 2
  MaxFaults = 4
  Blank = Blank
INVARIANTS TypeOK RingShape Chronological NoRepeats
PROPERTY ImplementsLog
