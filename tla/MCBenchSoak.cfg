\* A tick is 5 s, so that the limits are those of the code; the first phase can run into
\* the deadline's reserve and the second can still be reached.
SPECIFICATION Spec
CONSTANTS
  Phases = 2
  Duration = 3
  Chunk = 2
  Deadline = 82
  Overhead = 18
  Analysis = 24
  Io = 4
  Reap = 3
  Retrieve = 12
  Kill = 1
  Reserve = 36
  Skew = 1
INVARIANTS NothingIsAbandoned PassIsEarned ReservesSuffice
PROPERTIES SupervisorEnds
CHECK_DEADLOCK FALSE
