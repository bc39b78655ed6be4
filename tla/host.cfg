SPECIFICATION HostSpec
CONSTANTS
  Readers = {r1, r2}
  HostAuthor = host
  RowKinds <- MCRowKinds
  PageLimit = 2
  MaxPages = 2
  MaxRows = 3
  MaxLosses = 1
  MaxRetries = 1
  MaxTurns = 2
  MaxLines = 1
  MaxRespawns = 2
  Agents = {a, b}
  MaxPresses = 2
  MaxSteers = 1
  MaxTurnsDealt = 2
  MaxHalts = 1
  MaxLifeCalls = 2
  CallKinds = {"ensure", "restart", "reopen", "userClose", "archiveClose", "agentClose"}
  MaxDeaths = 1
  RowFaults = TRUE
  Rungs = 1
  MaxHandovers = 5
  MaxMessages = 2
  MaxAsks = 2
  MaxAnswers = 2
  MaxMishaps = 1
  Timers = {t1, t2}
  MaxDeclared = 2
  MaxChanges = 2
  GateWaits = 1
  Sessions = {s1, s2}
  FlushAtN = 3
  MaxPersisted = 3
  MaxReadFaults = 1
  Voters = {v1, v2}
  Phases = {plan, apply}
  MaxCalls = 2
  MaxEdits = 1
  MaxPicks = 1
  MaxVoteFaults = 2
  GracePolls = 1
  StallPolls = 1
  MaxPrompts = 2
  MaxIncidents = 1
  MaxWatchFaults = 1
INVARIANTS
  HostTypeOK NothingSkipped RepeatsNeedALoss VerdictOnTheLastResult RetriesAreBounded NudgeComesFirst
  ScreenIsCurrent NoOrphanRoster TailIsOwned FailuresReachTheUser
  RunsOnceIfApproved PendingGateHolds ShownInOrderWithoutGaps
PROPERTIES
  FirstReadsInOrder KillIsFinal FreshTurnIsNotCondemned StopStopsTheTurn CallsReturn
  OnlyTheInterruptedIsExcused LatchLifts ApprovalTakesEffect TimedHaltEnds  WedgeIsDeclared
CHECK_DEADLOCK FALSE
