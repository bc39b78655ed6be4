SPECIFICATION SessionSpec
CONSTANTS
  Participants <- Three
  OnMention <- TheThird
  Gates <- NoGates
  RoundCap = 1
  MaxTurnBatches = 2
  RxCap = 4
  LongBacklogs = FALSE
  SpinDetection = FALSE
  StorageFaults = FALSE
  Budget <- SummonBudget
  TurnOutcomes <- Talk
CHECK_DEADLOCK FALSE
PROPERTIES SummonsGoFirst
VIEW Ranked
