SPECIFICATION Spec
CONSTANTS
  Drives = {A, B}
  Gens = {g1, g2}
  Codes = {e1}
  Clients = {p1, p2}
  Runs = {r1, r2}
  Clear = Clear
  Notice = Notice
  Budgets <- Few
  InputCap = 1
INVARIANTS TypeOK AlarmHasOwner NobodyMisses AlwaysWatched AlarmStops
PROPERTY GateShut
SYMMETRY Symmetry
VIEW AllButShows
CHECK_DEADLOCK FALSE
