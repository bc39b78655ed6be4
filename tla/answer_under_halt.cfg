SPECIFICATION SessionSpec
CONSTANTS
  Participants <- Two
  OnMention <- Nobody
  Gates <- OneGate
  RoundCap = 1
  MaxTurnBatches = 2
  RxCap = 4
  LongBacklogs = FALSE
  SpinDetection = FALSE
  StorageFaults = FALSE
  Budget <- AnswerBudget
  TurnOutcomes <- Posting
CHECK_DEADLOCK FALSE
PROPERTIES NoDealUnderAHalt
VIEW Ranked
