SPECIFICATION Spec
CONSTANTS
  MinReset = 3
  Separator = 2
  Layouts <- MCLayouts
  Count = 2
  Stream = 3
  BankGap = 2
  Settle = 4
INVARIANTS CaseIsExact NoFalseAlarm FaultsAreReported
CHECK_DEADLOCK FALSE
