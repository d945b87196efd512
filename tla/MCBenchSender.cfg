\* The last command may start at tick 3, in the tick before the reserve is used up.
SPECIFICATION Spec
CONSTANTS
  Timeout = 2
  Grace = 1
  Deadline = 8
  Count = 2
  Skew = 1
INVARIANTS RecordsAreTrue EndsByDeadline
PROPERTIES SignalsOnlyTheOverdue HarnessEnds
CHECK_DEADLOCK FALSE
