SPECIFICATION FairSpec
CONSTANTS
  Colors = {"blue", "white"}
  Half = 2
  Idle = 5
  Milli = 2
  Cap = 1
  Batch = 2
  Room = 2
INVARIANTS
  NewestIsShown
  PollSleeps
PROPERTIES
  FlashIsWhole
  SignalStops
  ColorsAreSent
  ReadyIsAnnounced
  SilenceIsShown
