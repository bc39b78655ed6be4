SPECIFICATION SessionSpec
CONSTANTS
  Participants <- Two
  OnMention <- Nobody
  Gates <- OneGate
  RoundCap = 2
  MaxTurnBatches = 2
  RxCap = 4
  LongBacklogs = FALSE
  SpinDetection = FALSE
  StorageFaults = FALSE
  Budget <- TalkBudget
  TurnOutcomes <- QuietDone
CHECK_DEADLOCK FALSE
INVARIANTS RoundCapHolds
PROPERTIES ConsensusIsUnanimous AllPassIsUnanimous GateHolds
VIEW Ranked
