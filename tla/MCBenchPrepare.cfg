\* Three frequencies: a policy below 1 GHz, one that reaches it and one fixed at it.
\* Two LEDs: one is restored while the other still is not.
SPECIFICATION Spec
CONSTANTS
  Freqs = {300, 600, 1000}
  Full = 1000
  Leds = 2
INVARIANTS RestoreRecovers
CHECK_DEADLOCK FALSE
