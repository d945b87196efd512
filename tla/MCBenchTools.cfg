\* The clock runs long enough for two hold-ups of the UDP load, for a ring that wraps and for
\* three frames of the panels.
SPECIFICATION Spec
CONSTANTS
  Horizon = 12
  Unit = 2
  Credit = 2
  UdpSeconds = 9
  MaxErrors = 2
  UdpNap = 1
  Slots = 2
  Parts = 2
  Interval = 3
  StorageSeconds = 10
  StorageNap = 2
  Panels = 2
  FrameInterval = 3
  PanelSeconds = 7
  PanelNap = 2
INVARIANTS TrafficIsBounded StorageIsSpared PanelsAreSpared
CHECK_DEADLOCK FALSE
