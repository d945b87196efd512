SPECIFICATION FairSpec
CONSTANTS
  Launchers = {l1}
  Receivers = {r1, r2}
  Nobody = Nobody
  MaxTries = 2
PROPERTIES
  FailureLeavesNoReceiver
  DeploymentLockIsFreed
CHECK_DEADLOCK FALSE
