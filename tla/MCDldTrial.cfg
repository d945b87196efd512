SPECIFICATION Spec
CONSTANTS
  Launchers = {l1, l2}
  Receivers = {r1, r2, r3}
  Nobody = Nobody
  MaxTries = 1
SYMMETRY TrialSymmetry
INVARIANTS
  InitOnPreparedBoard
PROPERTIES
  ReadyIsServing
  StopsBeforeTaking
CHECK_DEADLOCK FALSE
