SPECIFICATION LifeSpec
CONSTANTS
  MaxLifeCalls = 2
  CallKinds = {"ensure", "userClose"}
  MaxDeaths = 1
  RowFaults = FALSE
INVARIANT ClosedMeansGone
CHECK_DEADLOCK FALSE
