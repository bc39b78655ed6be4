SPECIFICATION SessionFairSpec
CONSTANTS
  Participants <- Two
  OnMention <- Nobody
  Gates <- NoGates
  RoundCap = 2
  MaxTurnBatches = 2
  RxCap = 4
  LongBacklogs = FALSE
  SpinDetection = FALSE
  StorageFaults = FALSE
  Budget <- LiveBudget
  TurnOutcomes <- Talk
CHECK_DEADLOCK FALSE
PROPERTIES StashIsReplayed StagedIsDelivered SessionSettles
