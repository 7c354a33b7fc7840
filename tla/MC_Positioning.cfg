SPECIFICATION Spec
CONSTANTS
  Turn = 6
  Near = 2
  Tolerance = 1
  Angles <- SmallAngles
  Jogs <- SmallJogs
  Slips <- SmallSlips
  BackLash = 1
  PitchError <- SmallErrors
  HomeDirection = 1
INVARIANTS TypeOK WayIsRight GoalIsRight
PROPERTY MovesWhereTold
VIEW ButResult
