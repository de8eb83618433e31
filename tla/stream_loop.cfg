CONSTANTS
  Interval = 2
  Limit = 6
  Capacity = 1
  MaxPongs = 2
  MaxHeld = 3
SPECIFICATION LiveSpec
INVARIANTS
  IdleWasSlow
  DroppedInTime
PROPERTIES
  ClosedEnds
CHECK_DEADLOCK FALSE
