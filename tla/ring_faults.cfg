SPECIFICATION SessionSpec
CONSTANTS
  Participants <- Two
  OnMention <- Nobody
  Gates <- NoGates
  RoundCap = 1
  MaxTurnBatches = 2
  RxCap = 3
  LongBacklogs = TRUE
  SpinDetection = TRUE
  StorageFaults = TRUE
  Budget <- FaultBudget
  TurnOutcomes <- Talk
CHECK_DEADLOCK FALSE
INVARIANTS RingInv
PROPERTIES RefinesToken
VIEW Ranked
