SPECIFICATION SessionSpec
CONSTANTS
  Participants <- Two
  OnMention <- Nobody
  Gates <- NoGates
  RoundCap = 1
  MaxTurnBatches = 2
  RxCap = 4
  LongBacklogs = FALSE
  SpinDetection = FALSE
  StorageFaults = FALSE
  Budget <- StopBudget
  TurnOutcomes <- Talk
CHECK_DEADLOCK FALSE
INVARIANTS PauseIsVisible
VIEW Ranked
