SPECIFICATION FairSpec
CONSTANTS
  SeqMod = 3
  MaxTries = 2
  Colors = {black, red}
  Black = black
  Layouts <- SomeLayouts
INVARIANTS
  StreamsOnlyInQuietWindow
  FailedFrameIsWithdrawn
  SessionIsSound
PROPERTIES
  RequestIsFollowed
  SuccessMeansSent
  CpswResumedOrReported
  ImplementsService
