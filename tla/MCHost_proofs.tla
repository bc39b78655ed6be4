---------------------------- MODULE MCHost_proofs ----------------------------
(****************************************************************************)
(* The components beside the turn ring, all together: each behaviour of the *)
(* host is a behaviour of every one of them, so that what is proved of a    *)
(* component holds of the host; and the types of the two components whose   *)
(* promises are only liveness, the temporary halts and the watchdog.        *)
(****************************************************************************)
EXTENDS MCHost, Rows_proofs, Lifecycle_proofs, Decisions_proofs
-----------------------------------------------------------------------------
(* Temporary halts *)

\* A timer that runs is for a halt, and so is a declaration under way.
TimersAreForHalts ==
  /\ declaring => declaredHalts \in HaltIds
  /\ \A t \in Timers : timer[t].step # "over" => timer[t].of \in HaltIds

TimedInv == TimedTypeOK /\ TimersAreForHalts

LEMMA TimedInitEstablishes == TimedInit => TimedInv
<1> SUFFICES ASSUME TimedInit PROVE TimedInv
  OBVIOUS
<1>1. 0 \in 0..MaxDeclared /\ 0 \in 0..MaxChanges /\ 0 \in 0..GateWaits
  BY TimedHaltAssumption
<1> QED
  BY <1>1 DEF TimedInit, TimedInv, TimedTypeOK, TimersAreForHalts, NoTimer, TimerSteps, NoHalt

\* A timer that goes on keeps its halt.
LEMMA FiresPreserves ==
  ASSUME TimedInv, NEW t \in Timers, Fires(t)
  PROVE  TimedInv'
<1>1. TimedTypeOK /\ TimersAreForHalts
  BY DEF TimedInv
<1>2. CASE WakeUp(t)
  BY <1>1, <1>2 DEF WakeUp, IsAt, Reaches, declareVars, worldVars, TimedInv, TimedTypeOK,
                    TimersAreForHalts, TimerSteps
<1>3. CASE CheckSlot(t)
  BY <1>1, <1>3 DEF CheckSlot, IsAt, Reaches, declareVars, worldVars, TimedInv, TimedTypeOK,
                    TimersAreForHalts, TimerSteps
<1>4. CASE CheckGates(t)
  <2>1. UNCHANGED <<haltSlot, declareVars, ringUp, rearming, worldVars>>
    BY <1>4 DEF CheckGates
  <2>2. timer[t].step = "pauseRead" /\ timer[t].of \in HaltIds
    BY <1>1, <1>4 DEF CheckGates, IsAt, TimersAreForHalts
  <2>3. CASE ~gateOpen /\ Reaches(t, "announced") /\ UNCHANGED gaveUp
    BY <1>1, <2>1, <2>2, <2>3 DEF Reaches, declareVars, worldVars, TimedInv, TimedTypeOK,
                            TimersAreForHalts, TimerSteps
  <2>4. CASE /\ gateOpen /\ timer[t].waits < GateWaits
             /\ timer' = [timer EXCEPT ![t].step = "due", ![t].waits = @ + 1]
             /\ UNCHANGED gaveUp
    <3>1. timer[t].waits + 1 \in 0..GateWaits
      BY <1>1, <2>4, TimedHaltAssumption DEF TimedTypeOK
    <3> QED
      BY <1>1, <2>1, <2>2, <2>4, <3>1 DEF declareVars, worldVars, TimedInv, TimedTypeOK,
                                          TimersAreForHalts, TimerSteps
  <2>5. CASE /\ gateOpen /\ timer[t].waits = GateWaits
             /\ Reaches(t, "over") /\ gaveUp' = gaveUp \cup {timer[t].of}
    BY <1>1, <2>1, <2>2, <2>5 DEF Reaches, declareVars, worldVars, TimedInv, TimedTypeOK,
                                  TimersAreForHalts, TimerSteps
  <2> QED
    BY <1>4, <2>3, <2>4, <2>5 DEF CheckGates
<1>5. CASE ClearForWake(t)
  BY <1>1, <1>5 DEF ClearForWake, IsAt, Reaches, declareVars, worldVars, TimedInv, TimedTypeOK,
                    TimersAreForHalts, TimerSteps
<1> QED
  BY <1>2, <1>3, <1>4, <1>5 DEF Fires

\* A timer is armed for a halt.
LEMMA ArmPreserves ==
  ASSUME TimedInv, NEW t \in Timers, NEW h \in HaltIds, Arm(t, h),
         UNCHANGED <<haltSlot, wakes, declaredHalts, ringUp, gaveUp, gateOpen, userPaused, changes>>,
         declaring' \in BOOLEAN, rearming' \in BOOLEAN, declaring' => declaring
  PROVE  TimedInv'
<1>1. [of |-> h, step |-> "sleeping", waits |-> 0]
        \in [of : HaltIds \cup {NoHalt}, step : TimerSteps, waits : 0..GateWaits]
  BY TimedHaltAssumption DEF TimerSteps
<1>2. timer' \in [Timers -> [of : HaltIds \cup {NoHalt}, step : TimerSteps, waits : 0..GateWaits]]
  BY <1>1 DEF Arm, TimedInv, TimedTypeOK
<1>3. TimersAreForHalts'
  BY DEF Arm, TimedInv, TimedTypeOK, TimersAreForHalts, HaltIds
<1> QED
  BY <1>2, <1>3 DEF TimedInv, TimedTypeOK

LEMMA TimedNextPreserves == TimedInv /\ [TimedNext]_timedVars => TimedInv'
<1> SUFFICES ASSUME TimedInv, [TimedNext]_timedVars PROVE TimedInv'
  OBVIOUS
<1>1. TimedTypeOK /\ TimersAreForHalts
  BY DEF TimedInv
<1>2. CASE UNCHANGED timedVars
  BY <1>1, <1>2 DEF timedVars, TimedInv, TimedTypeOK, TimersAreForHalts
<1>3. ASSUME NEW temporary \in BOOLEAN, WriteHalt(temporary)
      PROVE  TimedInv'
  <2>1. declaredHalts + 1 \in HaltIds /\ declaredHalts' = declaredHalts + 1
        /\ declaredHalts' \in 0..MaxDeclared
    BY <1>1, <1>3, TimedHaltAssumption DEF WriteHalt, TimedTypeOK, HaltIds
  <2> QED
    BY <1>1, <1>3, <2>1 DEF WriteHalt, worldVars, TimedInv, TimedTypeOK, TimersAreForHalts
<1>4. ASSUME NEW t \in Timers, ArmAtDeclaration(t)
      PROVE  TimedInv'
  <2>1. declaredHalts \in HaltIds /\ Arm(t, declaredHalts) /\ declaring' = FALSE
        /\ UNCHANGED <<haltSlot, wakes, declaredHalts, ringUp, gaveUp, gateOpen, userPaused, changes>>
        /\ rearming' \in BOOLEAN
    BY <1>1, <1>4 DEF ArmAtDeclaration, TimersAreForHalts, TimedTypeOK, worldVars
  <2> QED
    BY <2>1, ArmPreserves
<1>5. ASSUME NEW t \in Timers, Fires(t)
      PROVE  TimedInv'
  BY <1>5, FiresPreserves
<1>6. ASSUME Change
      PROVE  changes' \in 0..MaxChanges
  BY <1>1, <1>6, TimedHaltAssumption DEF Change, TimedTypeOK
<1>7. CASE UserWrites \/ UserPauses \/ GateOpensOrCloses
  <2>1. changes' \in 0..MaxChanges
    BY <1>6, <1>7 DEF UserWrites, UserPauses, GateOpensOrCloses
  <2>2. gateOpen' \in BOOLEAN /\ userPaused' \in BOOLEAN
    BY <1>1, <1>7 DEF UserWrites, UserPauses, GateOpensOrCloses, TimedTypeOK
  <2>3. haltSlot' \in {haltSlot, NoHalt}
    BY <1>7 DEF UserWrites, UserPauses, GateOpensOrCloses
  <2>4. UNCHANGED <<wakes, declaredHalts, declaring, timer, ringUp, rearming, gaveUp>>
    BY <1>7 DEF UserWrites, UserPauses, GateOpensOrCloses, declareVars
  <2>5. TimersAreForHalts'
    BY <1>1, <2>4 DEF TimersAreForHalts
  <2>6. {declaring', ringUp', rearming', gateOpen', userPaused'} \subseteq BOOLEAN
    BY <1>1, <2>2, <2>4 DEF TimedTypeOK
  <2> QED
    BY <1>1, <2>1, <2>3, <2>4, <2>5, <2>6 DEF TimedInv, TimedTypeOK
<1>8. CASE GoDown
  <2>1. changes' \in 0..MaxChanges
    BY <1>6, <1>8 DEF GoDown
  <2>2. /\ timer' \in [Timers -> [of : HaltIds \cup {NoHalt}, step : TimerSteps, waits : 0..GateWaits]]
        /\ \A t \in Timers : timer'[t].step # "over" => timer'[t].of \in HaltIds
    BY <1>1, <1>8 DEF GoDown, TimedTypeOK, TimersAreForHalts, TimerSteps
  <2>3. UNCHANGED <<haltSlot, wakes, declaredHalts, gateOpen, userPaused, gaveUp>>
    BY <1>8 DEF GoDown
  <2>4. declaring \in BOOLEAN /\ rearming \in BOOLEAN /\ gateOpen \in BOOLEAN /\ userPaused \in BOOLEAN
    BY <1>1 DEF TimedTypeOK
  <2>5. /\ ringUp' = FALSE
        /\ \/ declaring' = declaring /\ rearming' = rearming
           \/ declaring' = FALSE /\ rearming' = FALSE
    BY <1>8 DEF GoDown
  <2>6. (declaring' => declaring) /\ declaring' \in BOOLEAN /\ rearming' \in BOOLEAN
    <3>1. CASE declaring' = declaring /\ rearming' = rearming
      BY <2>4, <3>1
    <3>2. CASE declaring' = FALSE /\ rearming' = FALSE
      BY <3>2
    <3> QED
      BY <2>5, <3>1, <3>2
  <2>7. TimersAreForHalts'
    BY <1>1, <2>2, <2>3, <2>6 DEF TimersAreForHalts
  <2>8. {declaring', ringUp', rearming', gateOpen', userPaused'} \subseteq BOOLEAN
    BY <2>3, <2>4, <2>5, <2>6
  <2> QED
    BY <1>1, <2>1, <2>2, <2>3, <2>7, <2>8 DEF TimedInv, TimedTypeOK
<1>9. CASE RegisterRing
  BY <1>1, <1>9 DEF RegisterRing, declareVars, worldVars, TimedInv, TimedTypeOK, TimersAreForHalts
<1>10. CASE Rearm
  <2>1. CASE haltSlot \in wakes
    <3>1. PICK t \in Timers : Arm(t, haltSlot)
      BY <1>10, <2>1 DEF Rearm
    <3>2. haltSlot \in HaltIds /\ rearming' = FALSE /\ declaring' = declaring /\ declaring' \in BOOLEAN
          /\ UNCHANGED <<haltSlot, wakes, declaredHalts, ringUp, gaveUp, gateOpen, userPaused, changes>>
      BY <1>1, <1>10, <2>1 DEF Rearm, declareVars, worldVars, TimedTypeOK
    <3> QED
      BY <3>1, <3>2, ArmPreserves
  <2>2. CASE haltSlot \notin wakes
    BY <1>1, <1>10, <2>2 DEF Rearm, declareVars, worldVars, TimedInv, TimedTypeOK, TimersAreForHalts
  <2> QED
    BY <2>1, <2>2
<1> QED
  BY <1>2, <1>3, <1>4, <1>5, <1>7, <1>8, <1>9, <1>10 DEF TimedNext, Declares

LEMMA TimedInvAlways == TimedSpec => []TimedInv
<1> QED
  BY TimedInitEstablishes, TimedNextPreserves, PTL DEF TimedSpec

\* The state of the temporary halts keeps its type: a timer gives up only a halt that exists, in
\* whatever order halts, restarts, gates and messages come.
THEOREM TimedTypeCorrect == TimedSpec => []TimedTypeOK
<1>1. TimedInv => TimedTypeOK
  BY DEF TimedInv
<1> QED
  BY <1>1, TimedInvAlways, PTL
-----------------------------------------------------------------------------
(* The watchdog *)

\* A message is counted only after it has gone out, and no other goes out in between: the count
\* stays in its bound.
MessagesAreCounted == uncounted => prompts < MaxPrompts

IdleWatchInv == IdleWatchTypeOK /\ MessagesAreCounted

LEMMA IdleWatchInitEstablishes == IdleWatchInit => IdleWatchInv
<1> SUFFICES ASSUME IdleWatchInit PROVE IdleWatchInv
  OBVIOUS
<1>1. /\ 0 \in 0..(StallPolls + 1) /\ 0 \in 0..MaxPrompts /\ 0 \in 0..MaxIncidents
      /\ 0 \in 0..MaxWatchFaults
      /\ NotIdle \in NotIdle..GracePolls /\ NotNudged \in NotNudged..MaxPrompts
  BY IdleWatchAssumption DEF NotIdle, NotNudged
<1>2. NothingSeen \in [prompts : 0..MaxPrompts, tray : BOOLEAN]
  BY <1>1 DEF NothingSeen
<1> QED
  BY <1>1, <1>2 DEF IdleWatchInit, IdleWatchInv, IdleWatchTypeOK, MessagesAreCounted, Down

\* The parts of the type that the watchdog's poll and the session's steps change.
CountersInBounds ==
  /\ quiet \in 0..(StallPolls + 1)
  /\ prompts \in 0..MaxPrompts
  /\ idleFor \in NotIdle..GracePolls /\ nudgedAt \in NotNudged..MaxPrompts
  /\ seen \in [prompts : 0..MaxPrompts, tray : BOOLEAN]
  /\ incidents \in 0..MaxIncidents /\ watchFaults \in 0..MaxWatchFaults

NamesInRange ==
  /\ turnAt \in {"nobody", "executor", "peer"}
  /\ health \in Down \cup {"none", "running"}
  /\ poll \in {"asleep", "slot", "nudging", "declaring"}

FlagsAreBoolean ==
  /\ toolOut \in BOOLEAN /\ pumpUp \in BOOLEAN /\ declared \in BOOLEAN /\ trayPending \in BOOLEAN
  /\ awaitingFlag \in BOOLEAN /\ heldBack \in BOOLEAN /\ uncounted \in BOOLEAN
  /\ ringWoken \in BOOLEAN /\ chip \in BOOLEAN

LEMMA TypeIsItsParts ==
  IdleWatchTypeOK <=> CountersInBounds /\ NamesInRange /\ FlagsAreBoolean
BY DEF IdleWatchTypeOK, CountersInBounds, NamesInRange, FlagsAreBoolean

LEMMA IdleWatchNextPreserves == IdleWatchInv /\ [IdleWatchNext]_idleWatchVars => IdleWatchInv'
<1> SUFFICES ASSUME IdleWatchInv, [IdleWatchNext]_idleWatchVars PROVE IdleWatchInv'
  OBVIOUS
<1> USE DEF CountersInBounds, NamesInRange, FlagsAreBoolean, MessagesAreCounted
<1>1. CountersInBounds /\ NamesInRange /\ FlagsAreBoolean /\ MessagesAreCounted
  BY TypeIsItsParts DEF IdleWatchInv
<1>2. GracePolls \in Nat /\ StallPolls \in Nat /\ MaxPrompts \in Nat /\ MaxIncidents \in Nat
      /\ MaxWatchFaults \in Nat /\ NotIdle = -1 /\ NotNudged = -1
  BY IdleWatchAssumption DEF NotIdle, NotNudged
<1>3. CASE UNCHANGED idleWatchVars
  BY <1>3 DEF idleWatchVars, IdleWatchInv, IdleWatchTypeOK
<1>4. CASE WakesToPoll
  <2>1. CountersInBounds'
    <3>1. quiet' \in 0..(StallPolls + 1)
      BY <1>1, <1>2, <1>4 DEF WakesToPoll, Capped
    <3>2. idleFor' \in NotIdle..GracePolls
      BY <1>1, <1>2, <1>4 DEF WakesToPoll, Capped
    <3>3. UNCHANGED <<prompts, nudgedAt, incidents>>
      BY <1>4 DEF WakesToPoll, WatchUnchanged, promptVars
    <3>4. seen' \in [prompts : 0..MaxPrompts, tray : BOOLEAN]
      <4>1. seen' \in {seen, [prompts |-> prompts, tray |-> trayPending],
                      [prompts |-> prompts, tray |-> TRUE]}
        BY <1>4 DEF WakesToPoll
      <4>2. prompts \in 0..MaxPrompts /\ trayPending \in BOOLEAN
        BY <1>1
      <4>3. /\ [prompts |-> prompts, tray |-> trayPending] \in [prompts : 0..MaxPrompts, tray : BOOLEAN]
            /\ [prompts |-> prompts, tray |-> TRUE] \in [prompts : 0..MaxPrompts, tray : BOOLEAN]
        BY <4>2
      <4> QED
        BY <1>1, <4>1, <4>3
    <3>5. watchFaults' \in 0..MaxWatchFaults
      BY <1>1, <1>2, <1>4 DEF WakesToPoll, Faulty
    <3> QED
      BY <1>1, <3>1, <3>2, <3>3, <3>4, <3>5
  <2>2. NamesInRange'
    BY <1>1, <1>4 DEF WakesToPoll, WatchUnchanged, StallDecision, Faulty, promptVars, Down
  <2>3. FlagsAreBoolean'
    BY <1>1, <1>4 DEF WakesToPoll, WatchUnchanged, StallDecision, Faulty, promptVars, Down
  <2>4. MessagesAreCounted'
    BY <1>1, <1>2, <1>4 DEF WakesToPoll, WatchUnchanged, StallDecision, Faulty, promptVars, Down
  <2> QED
    BY <2>1, <2>2, <2>3, <2>4, TypeIsItsParts, PTL DEF IdleWatchInv
<1>5. CASE ReadsTheSlot
  <2>1. CountersInBounds'
    BY <1>1, <1>2, <1>5 DEF ReadsTheSlot, WatchUnchanged, Decision, Faulty, promptVars, NothingSeen, Down
  <2>2. NamesInRange'
    BY <1>1, <1>5 DEF ReadsTheSlot, WatchUnchanged, Decision, Faulty, promptVars, NothingSeen, Down
  <2>3. FlagsAreBoolean'
    BY <1>1, <1>5 DEF ReadsTheSlot, WatchUnchanged, Decision, Faulty, promptVars, NothingSeen, Down
  <2>4. MessagesAreCounted'
    BY <1>1, <1>2, <1>5 DEF ReadsTheSlot, WatchUnchanged, Decision, Faulty, promptVars, NothingSeen, Down
  <2> QED
    BY <2>1, <2>2, <2>3, <2>4, TypeIsItsParts, PTL DEF IdleWatchInv
<1>6. CASE Nudges
  <2>1. CountersInBounds'
    BY <1>1, <1>2, <1>6 DEF Nudges, WatchUnchanged, Faulty, promptVars
  <2>2. NamesInRange'
    BY <1>1, <1>6 DEF Nudges, WatchUnchanged, Faulty, promptVars
  <2>3. FlagsAreBoolean'
    BY <1>1, <1>6 DEF Nudges, WatchUnchanged, Faulty, promptVars
  <2>4. MessagesAreCounted'
    BY <1>1, <1>2, <1>6 DEF Nudges, WatchUnchanged, Faulty, promptVars
  <2> QED
    BY <2>1, <2>2, <2>3, <2>4, TypeIsItsParts, PTL DEF IdleWatchInv
<1>7. CASE DeclaresTheWedge
  <2>1. CountersInBounds'
    BY <1>1, <1>2, <1>7 DEF DeclaresTheWedge, WatchUnchanged, Faulty, promptVars
  <2>2. NamesInRange'
    BY <1>1, <1>7 DEF DeclaresTheWedge, WatchUnchanged, Faulty, promptVars
  <2>3. FlagsAreBoolean'
    BY <1>1, <1>7 DEF DeclaresTheWedge, WatchUnchanged, Faulty, promptVars
  <2>4. MessagesAreCounted'
    BY <1>1, <1>2, <1>7 DEF DeclaresTheWedge, WatchUnchanged, Faulty, promptVars
  <2> QED
    BY <2>1, <2>2, <2>3, <2>4, TypeIsItsParts, PTL DEF IdleWatchInv
<1>8. CASE RingHears
  <2>1. CountersInBounds'
    BY <1>1, <1>2, <1>8 DEF RingHears, WatchIsElsewhere, watchVars, promptVars
  <2>2. NamesInRange'
    BY <1>1, <1>8 DEF RingHears, WatchIsElsewhere, watchVars, promptVars
  <2>3. FlagsAreBoolean'
    BY <1>1, <1>8 DEF RingHears, WatchIsElsewhere, watchVars, promptVars
  <2>4. MessagesAreCounted'
    BY <1>1, <1>2, <1>8 DEF RingHears, WatchIsElsewhere, watchVars, promptVars
  <2> QED
    BY <2>1, <2>2, <2>3, <2>4, TypeIsItsParts, PTL DEF IdleWatchInv
<1>9. CASE ExecutorEvent
  <2>1. CountersInBounds'
    BY <1>1, <1>2, <1>9 DEF ExecutorEvent, WatchIsElsewhere, watchVars, promptVars
  <2>2. NamesInRange'
    BY <1>1, <1>9 DEF ExecutorEvent, WatchIsElsewhere, watchVars, promptVars
  <2>3. FlagsAreBoolean'
    BY <1>1, <1>9 DEF ExecutorEvent, WatchIsElsewhere, watchVars, promptVars
  <2>4. MessagesAreCounted'
    BY <1>1, <1>2, <1>9 DEF ExecutorEvent, WatchIsElsewhere, watchVars, promptVars
  <2> QED
    BY <2>1, <2>2, <2>3, <2>4, TypeIsItsParts, PTL DEF IdleWatchInv
<1>10. CASE TurnIsOver
  <2>1. CountersInBounds'
    BY <1>1, <1>2, <1>10 DEF TurnIsOver, WatchIsElsewhere, watchVars, promptVars, Down
  <2>2. NamesInRange'
    BY <1>1, <1>10 DEF TurnIsOver, WatchIsElsewhere, watchVars, promptVars, Down
  <2>3. FlagsAreBoolean'
    BY <1>1, <1>10 DEF TurnIsOver, WatchIsElsewhere, watchVars, promptVars, Down
  <2>4. MessagesAreCounted'
    BY <1>1, <1>2, <1>10 DEF TurnIsOver, WatchIsElsewhere, watchVars, promptVars, Down
  <2> QED
    BY <2>1, <2>2, <2>3, <2>4, TypeIsItsParts, PTL DEF IdleWatchInv
<1>11. CASE UserPrompts
  <2>1. CountersInBounds'
    BY <1>1, <1>2, <1>11 DEF UserPrompts, WatchIsElsewhere, watchVars, executorVars
  <2>2. NamesInRange'
    BY <1>1, <1>11 DEF UserPrompts, WatchIsElsewhere, watchVars, executorVars
  <2>3. FlagsAreBoolean'
    BY <1>1, <1>11 DEF UserPrompts, WatchIsElsewhere, watchVars, executorVars
  <2>4. MessagesAreCounted'
    BY <1>1, <1>2, <1>11 DEF UserPrompts, WatchIsElsewhere, watchVars, executorVars
  <2> QED
    BY <2>1, <2>2, <2>3, <2>4, TypeIsItsParts, PTL DEF IdleWatchInv
<1>12. CASE PromptIsCounted
  <2>1. CountersInBounds'
    BY <1>1, <1>2, <1>12 DEF PromptIsCounted, WatchIsElsewhere, watchVars, executorVars
  <2>2. NamesInRange'
    BY <1>1, <1>12 DEF PromptIsCounted, WatchIsElsewhere, watchVars, executorVars
  <2>3. FlagsAreBoolean'
    BY <1>1, <1>12 DEF PromptIsCounted, WatchIsElsewhere, watchVars, executorVars
  <2>4. MessagesAreCounted'
    BY <1>1, <1>2, <1>12 DEF PromptIsCounted, WatchIsElsewhere, watchVars, executorVars
  <2> QED
    BY <2>1, <2>2, <2>3, <2>4, TypeIsItsParts, PTL DEF IdleWatchInv
<1>13. CASE UserStops
  <2>1. CountersInBounds'
    BY <1>1, <1>2, <1>13 DEF UserStops, WatchIsElsewhere, watchVars, executorVars, promptVars, Incident
  <2>2. NamesInRange'
    BY <1>1, <1>13 DEF UserStops, WatchIsElsewhere, watchVars, executorVars, promptVars, Incident
  <2>3. FlagsAreBoolean'
    BY <1>1, <1>13 DEF UserStops, WatchIsElsewhere, watchVars, executorVars, promptVars, Incident
  <2>4. MessagesAreCounted'
    BY <1>1, <1>2, <1>13 DEF UserStops, WatchIsElsewhere, watchVars, executorVars, promptVars, Incident
  <2> QED
    BY <2>1, <2>2, <2>3, <2>4, TypeIsItsParts, PTL DEF IdleWatchInv
<1>14. CASE UserResumes
  <2>1. CountersInBounds'
    BY <1>1, <1>2, <1>14 DEF UserResumes, WatchIsElsewhere, watchVars, executorVars, promptVars
  <2>2. NamesInRange'
    BY <1>1, <1>14 DEF UserResumes, WatchIsElsewhere, watchVars, executorVars, promptVars
  <2>3. FlagsAreBoolean'
    BY <1>1, <1>14 DEF UserResumes, WatchIsElsewhere, watchVars, executorVars, promptVars
  <2>4. MessagesAreCounted'
    BY <1>1, <1>2, <1>14 DEF UserResumes, WatchIsElsewhere, watchVars, executorVars, promptVars
  <2> QED
    BY <2>1, <2>2, <2>3, <2>4, TypeIsItsParts, PTL DEF IdleWatchInv
<1>15. CASE TrayIsAnswered
  <2>1. CountersInBounds'
    BY <1>1, <1>2, <1>15 DEF TrayIsAnswered, WatchIsElsewhere, watchVars, executorVars, promptVars
  <2>2. NamesInRange'
    BY <1>1, <1>15 DEF TrayIsAnswered, WatchIsElsewhere, watchVars, executorVars, promptVars
  <2>3. FlagsAreBoolean'
    BY <1>1, <1>15 DEF TrayIsAnswered, WatchIsElsewhere, watchVars, executorVars, promptVars
  <2>4. MessagesAreCounted'
    BY <1>1, <1>2, <1>15 DEF TrayIsAnswered, WatchIsElsewhere, watchVars, executorVars, promptVars
  <2> QED
    BY <2>1, <2>2, <2>3, <2>4, TypeIsItsParts, PTL DEF IdleWatchInv
<1>16. CASE ExecutorRetries
  <2>1. CountersInBounds'
    BY <1>1, <1>2, <1>16 DEF ExecutorRetries, WatchIsElsewhere, watchVars, promptVars, Incident, Down
  <2>2. NamesInRange'
    BY <1>1, <1>16 DEF ExecutorRetries, WatchIsElsewhere, watchVars, promptVars, Incident, Down
  <2>3. FlagsAreBoolean'
    BY <1>1, <1>16 DEF ExecutorRetries, WatchIsElsewhere, watchVars, promptVars, Incident, Down
  <2>4. MessagesAreCounted'
    BY <1>1, <1>2, <1>16 DEF ExecutorRetries, WatchIsElsewhere, watchVars, promptVars, Incident, Down
  <2> QED
    BY <2>1, <2>2, <2>3, <2>4, TypeIsItsParts, PTL DEF IdleWatchInv
<1>17. CASE ExecutorDies
  <2>1. CountersInBounds'
    BY <1>1, <1>2, <1>17 DEF ExecutorDies, WatchIsElsewhere, watchVars, promptVars, Incident, Down
  <2>2. NamesInRange'
    BY <1>1, <1>17 DEF ExecutorDies, WatchIsElsewhere, watchVars, promptVars, Incident, Down
  <2>3. FlagsAreBoolean'
    BY <1>1, <1>17 DEF ExecutorDies, WatchIsElsewhere, watchVars, promptVars, Incident, Down
  <2>4. MessagesAreCounted'
    BY <1>1, <1>2, <1>17 DEF ExecutorDies, WatchIsElsewhere, watchVars, promptVars, Incident, Down
  <2> QED
    BY <2>1, <2>2, <2>3, <2>4, TypeIsItsParts, PTL DEF IdleWatchInv
<1>18. ASSUME NEW host \in BOOLEAN, RespawnRoster(host)
       PROVE  IdleWatchInv'
  <2>1. CountersInBounds'
    BY <1>1, <1>2, <1>18 DEF RespawnRoster, Incident, Faulty, NothingSeen
  <2>2. NamesInRange'
    BY <1>1, <1>18 DEF RespawnRoster, Down
  <2>3. FlagsAreBoolean'
    BY <1>1, <1>18 DEF RespawnRoster
  <2>4. MessagesAreCounted'
    BY <1>1, <1>18 DEF RespawnRoster
  <2> QED
    BY <2>1, <2>2, <2>3, <2>4, TypeIsItsParts, PTL DEF IdleWatchInv
<1> QED
  BY <1>3, <1>4, <1>5, <1>6, <1>7, <1>8, <1>9, <1>10, <1>11, <1>12, <1>13, <1>14, <1>15, <1>16,
     <1>17, <1>18 DEF IdleWatchNext

LEMMA IdleWatchInvAlways == IdleWatchSpec => []IdleWatchInv
<1> QED
  BY IdleWatchInitEstablishes, IdleWatchNextPreserves, PTL DEF IdleWatchSpec

\* The watchdog's state keeps its type, whatever the user, the ring and the processes do between
\* its reads.
THEOREM IdleWatchTypeCorrect == IdleWatchSpec => []IdleWatchTypeOK
<1>1. IdleWatchInv => IdleWatchTypeOK
  BY DEF IdleWatchInv
<1> QED
  BY <1>1, IdleWatchInvAlways, PTL
-----------------------------------------------------------------------------
(* The host *)

\* Each behaviour of the host is one of every component: a step of the host is a step of the
\* component in focus and leaves the others where they are.
THEOREM HostIsItsComponents ==
  HostSpec => /\ DeliverySpec /\ EmitterSpec /\ SupervisorSpec /\ LadderSpec /\ LifeSpec
              /\ CancelSpec /\ GatesSpec /\ VoteSpec /\ TimedSpec /\ IdleWatchSpec
<1>1. HostInit => /\ DeliveryInit /\ EmitterInit /\ SupervisorInit /\ LadderInit /\ LifeInit
                  /\ CancelInit /\ GatesInit /\ VoteInit /\ TimedInit /\ IdleWatchInit
  BY DEF HostInit
<1>2. [HostNext]_hostVars =>
        /\ [DeliveryNext]_deliveryVars /\ [EmitterNext]_emitterVars
        /\ [SupervisorNext]_supervisorVars /\ [LadderNext]_ladderVars /\ [LifeNext]_lifeVars
        /\ [CancelNext]_cancelVars /\ [GatesNext]_gatesVars /\ [VoteNext]_voteVars
        /\ [TimedNext]_timedVars /\ [IdleWatchNext]_idleWatchVars
  BY DEF HostNext, hostVars
<1>3. HostSpec => HostInit /\ [][HostNext]_hostVars
  BY PTL DEF HostSpec
<1> QED
  BY <1>1, <1>2, <1>3, PTL DEF DeliverySpec, EmitterSpec, SupervisorSpec, LadderSpec, LifeSpec,
                               CancelSpec, GatesSpec, VoteSpec, TimedSpec, IdleWatchSpec

\* Every component of the host keeps its types.
THEOREM HostTypesHold == HostSpec => []HostTypeOK
<1>1. /\ DeliveryTypeOK /\ EmitterTypeOK /\ SupervisorTypeOK /\ LadderTypeOK /\ LifeTypeOK
      /\ CancelTypeOK /\ GatesTypeOK /\ VoteTypeOK /\ TimedTypeOK /\ IdleWatchTypeOK
      => HostTypeOK
  BY DEF HostTypeOK
<1> QED
  BY <1>1, HostIsItsComponents, DeliveryTypeCorrect, EmitterTypeCorrect, SupervisorTypeCorrect,
     LadderTypeCorrect, LifeTypeCorrect, CancelTypeCorrect, GatesTypeCorrect, VoteTypeCorrect,
     TimedTypeCorrect, IdleWatchTypeCorrect, PTL

\* What the host promises of its components holds in one system of all of them.
THEOREM HostIsSafe ==
  HostSpec => [](/\ NothingSkipped /\ RepeatsNeedALoss /\ VerdictOnTheLastResult
                 /\ RetriesAreBounded /\ NudgeComesFirst /\ ScreenIsCurrent /\ NoOrphanRoster
                 /\ TailIsOwned /\ FailuresReachTheUser /\ RunsOnceIfApproved
                 /\ PendingGateHolds /\ ShownInOrderWithoutGaps)
BY HostIsItsComponents, DeliverySkipsNothing, DeliveryRepeatsNeedALoss, VerdictIsOnTheLast,
   RetriesStayBounded, ResumeStartsWithTheNudge, ScreenFollowsTheTracker, OneRosterAtATime,
   TailHasOneOwner, FailingTurnsHalt, ApprovedRunsOnce, LatchHoldsPendingGates, EmitterShowsAll, PTL
=============================================================================
