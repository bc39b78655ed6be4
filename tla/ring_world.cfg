SPECIFICATION SessionSpec
CONSTANTS
  Participants <- Two
  OnMention <- Nobody
  Gates <- NoGates
  RoundCap = 1
  MaxTurnBatches = 2
  RxCap = 3
  LongBacklogs = FALSE
  SpinDetection = FALSE
  StorageFaults = FALSE
  Budget <- WorldBudget
  TurnOutcomes <- Talk
CHECK_DEADLOCK FALSE
CONSTRAINT FewInputs
INVARIANTS SessionTypeOK
PROPERTIES StopCutsDelivery
VIEW Ranked
