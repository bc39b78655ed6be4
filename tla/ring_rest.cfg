SPECIFICATION SessionSpec
CONSTANTS
  Participants <- Two
  OnMention <- Nobody
  Gates <- NoGates
  RoundCap = 2
  MaxTurnBatches = 2
  RxCap = 4
  LongBacklogs = FALSE
  SpinDetection = FALSE
  StorageFaults = FALSE
  Budget <- RestBudget
  TurnOutcomes <- AllOutcomes
CHECK_DEADLOCK FALSE
INVARIANTS RestsOnlyVisibly StoppedRingIsNotBusy StageHasABoundary
PROPERTIES NoDealUnderAHalt
VIEW Ranked
