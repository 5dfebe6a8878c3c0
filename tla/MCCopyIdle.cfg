SPECIFICATION Spec
CONSTANTS
  Total <- MCTotalIdle
  Size = 2
  Room = 1
PROPERTY IdleTimesOut
CHECK_DEADLOCK FALSE
