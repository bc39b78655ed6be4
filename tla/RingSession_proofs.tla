------------------------- MODULE RingSession_proofs -------------------------
(***************************************************************************)
(* Proofs about a live session: the ring of TurnRing with the processes,    *)
(* the pumps and the application that really surround it, for every roster, *)
(* every set of gates, every channel and every budget of inputs.            *)
(*                                                                         *)
(* The first part puts the session in the place of TurnRing's environment:  *)
(* whatever a process, a pump or the user does, it is a step TurnRing       *)
(* allows for, so its theorems hold of the session.  The second part says   *)
(* once what each step does to the turn, and what it appends to the         *)
(* channel; the properties of RingProperties then follow from those lemmas. *)
(***************************************************************************)
EXTENDS RingProperties, TurnRing_proofs

\* What every step of the session has to establish beside the ring's own invariant.
OthersTypeOK == PumpTypeOK /\ AppTypeOK
SessionInv == StateInv /\ OthersTypeOK

\* What a step that is not the ring's has to establish: it leaves the ring's state alone.
OthersKeep == UNCHANGED ringVars /\ WorldTypeOK' /\ OthersTypeOK'
-----------------------------------------------------------------------------
(* The channel *)

\* A notify leaves a queue of commands, whether or not it finds room.
LEMMA TrySendTypes ==
  ASSUME NEW queue \in Seq(Command), NEW c \in Command
  PROVE  TrySend(queue, c) \in Seq(Command)
BY AppendProperties DEF TrySend

\* What the tasks of a session send are commands.
LEMMA SentCommands ==
  /\ \A p \in Participants, e \in Nat, ending \in Endings :
       [type |-> "TurnComplete", participant |-> p, ending |-> ending, epoch |-> e] \in Command
  /\ \A ms \in Seq(Participants) : [type |-> "UserMessage", mentions |-> ms] \in Command
  /\ \A p \in Participants :
       /\ [type |-> "HaltDeclared", participant |-> p] \in Command
       /\ [type |-> "Summon", participant |-> p] \in Command
       /\ [type |-> "ParticipantJoined", participant |-> p] \in Command
  /\ \A g \in Gates :
       /\ [type |-> "GateOpened", gate |-> g] \in Command
       /\ [type |-> "GateResolved", gate |-> g] \in Command
  /\ [type |-> "MessageStaged"] \in Command /\ [type |-> "MessageUnstaged"] \in Command
  /\ [type |-> "Pause"] \in Command /\ [type |-> "Resume"] \in Command
BY DEF Command, Someone
-----------------------------------------------------------------------------
(* Processes and pumps keep their types and leave the ring alone *)

\* What spending an input or nothing at all leaves of the application's state.
LEMMA Inputs ==
  ASSUME AppTypeOK, UNCHANGED appVars, Free \/ \E kind \in Kinds : Spend(kind)
  PROVE  AppTypeOK'
BY DEF AppTypeOK, appVars, Free, Spend

\* The epoch a pump reports is an epoch.
LEMMA BindingTypes ==
  ASSUME TypeOK, PumpTypeOK, NEW p \in Participants
  PROVE  Binding(p) \in Nat \cup {NoEpoch}
BY DEF Binding, TypeOK, RingTypeOK, PumpTypeOK

\* A turn that ends reports itself to the ring.
LEMMA ReportKeeps ==
  ASSUME TypeOK, PumpTypeOK, NEW p \in Participants, NEW ending \in Endings,
         NEW posts \in BOOLEAN, ReportsEnd(p, ending, posts), retry' \in SUBSET Participants
  PROVE  UNCHANGED ringVars /\ WorldTypeOK' /\ PumpTypeOK'
<1>1. rx' \in Seq(Command)
  <2> DEFINE e == IF Binding(p) = NoEpoch THEN 0 ELSE Binding(p)
             c == [type |-> "TurnComplete", participant |-> p, ending |-> ending, epoch |-> e]
  <2>1. e \in Nat
    BY BindingTypes DEF NoEpoch
  <2>2. c \in Command
    BY <2>1, SentCommands
  <2>3. rx' = Append(rx, c) /\ rx \in Seq(Command)
    BY DEF ReportsEnd, TypeOK, WorldTypeOK
  <2> QED
    BY <2>2, <2>3, AppendProperties
<1>2. UNCHANGED ringVars /\ WorldTypeOK'
  BY <1>1 DEF ReportsEnd, TypeOK, WorldTypeOK, worldVars, RowFrom
<1>3. PumpTypeOK'
  BY BindingTypes DEF ReportsEnd, PumpTypeOK
<1> QED
  BY <1>2, <1>3

\* Steps of a process and its pump, one at a time.
LEMMA ProcessKeeps ==
  ASSUME TypeOK, OthersTypeOK, NEW p \in Participants, ProcessStep(p)
  PROVE  OthersKeep
<1> USE DEF OthersTypeOK, OthersKeep
<1>1. CASE AgentStarts(p) /\ Free /\ UNCHANGED appVars
  BY <1>1, Inputs DEF AgentStarts, TypeOK, WorldTypeOK, PumpTypeOK, worldVars
<1>2. CASE AgentFolds(p) /\ Free /\ UNCHANGED appVars
  BY <1>2, Inputs DEF AgentFolds, TypeOK, WorldTypeOK, PumpTypeOK, worldVars, pumpVars
<1>3. CASE FirstEvent(p) /\ Free /\ UNCHANGED appVars
  BY <1>3, Inputs, BindingTypes
     DEF FirstEvent, TypeOK, WorldTypeOK, PumpTypeOK, worldVars, sharedVars
<1>4. CASE EndsTurn(p)
  <2>1. PICK o \in TurnOutcomes : TurnEnds(p, o[1], o[2])
    BY <1>4 DEF EndsTurn
  <2>2. o[1] \in Endings /\ o[2] \in BOOLEAN
    BY InputsAssumption
  <2>3. retry' \in SUBSET Participants
    BY <2>1 DEF TurnEnds, PumpTypeOK
  <2> QED
    BY <1>4, <2>1, <2>2, <2>3, ReportKeeps, Inputs DEF TurnEnds, EndsTurn
<1>5. CASE TurnErrs(p) /\ Spend("error") /\ UNCHANGED appVars
  <2>1. retry' \in SUBSET Participants /\ ReportsEnd(p, "Spoke", TRUE)
    BY <1>5 DEF TurnErrs, PumpTypeOK
  <2>2. "Spoke" \in Endings /\ "error" \in Kinds
    BY DEF Endings, Kinds
  <2> QED
    BY <1>5, <2>1, <2>2, ReportKeeps, Inputs
<1>6. CASE PumpClearsBusy(p) /\ Free /\ UNCHANGED appVars
  BY <1>6, Inputs DEF PumpClearsBusy, TypeOK, WorldTypeOK, PumpTypeOK, worldVars
<1>7. CASE RetryFires(p) /\ Free /\ UNCHANGED appVars
  <2>1. rx' \in Seq(Command)
    BY <1>7, SentCommands, AppendProperties DEF RetryFires, TypeOK, WorldTypeOK
  <2> QED
    BY <1>7, <2>1, Inputs DEF RetryFires, TypeOK, WorldTypeOK, PumpTypeOK, worldVars
<1>8. CASE HaltTool(p) /\ Spend("halt") /\ UNCHANGED appVars
  <2>1. "halt" \in Kinds /\ "participant" \in HaltReasons
    BY DEF Kinds, HaltReasons
  <2> QED
    BY <1>8, <2>1, Inputs DEF HaltTool, TypeOK, WorldTypeOK, PumpTypeOK, worldVars
<1>9. CASE HaltReachesRing(p) /\ Free /\ UNCHANGED appVars
  <2>1. rx' \in Seq(Command)
    BY <1>9, SentCommands, TrySendTypes DEF HaltReachesRing, TypeOK, WorldTypeOK
  <2> QED
    BY <1>9, <2>1, Inputs DEF HaltReachesRing, TypeOK, WorldTypeOK, PumpTypeOK, worldVars
<1>10. CASE HaltInterrupts(p) /\ Free /\ UNCHANGED appVars
  BY <1>10, Inputs
     DEF HaltInterrupts, TypeOK, RingTypeOK, WorldTypeOK, PumpTypeOK, worldVars, sharedVars
<1>11. CASE /\ Dies(p) /\ Spend("death")
            /\ waiter' = [g \in Gates |-> IF waiter[g] = p THEN NoOne ELSE waiter[g]]
            /\ UNCHANGED <<sending, stopping, stagedContent, answered>>
  <2>1. UNCHANGED ringVars /\ WorldTypeOK'
    BY <1>11 DEF Dies, TypeOK, WorldTypeOK, worldVars, HaltReasons
  <2>2. PumpTypeOK'
    BY <1>11 DEF Dies, PumpTypeOK
  <2>3. waiter' \in [Gates -> Someone]
    BY <1>11 DEF AppTypeOK, Someone
  <2>4. "death" \in Kinds
    BY DEF Kinds
  <2>5. AppTypeOK'
    BY <1>11, <2>3, <2>4 DEF AppTypeOK, Spend
  <2> QED
    BY <2>1, <2>2, <2>5
<1> QED
  BY <1>1, <1>2, <1>3, <1>4, <1>5, <1>6, <1>7, <1>8, <1>9, <1>10, <1>11 DEF ProcessStep
-----------------------------------------------------------------------------
(* The user and the application *)

\* A steer takes the latch down and interrupts whoever works.
LEMMA PreemptsKeeps ==
  ASSUME TypeOK, OthersTypeOK, NEW kind \in Kinds, Spend(kind), Preempts
  PROVE  OthersKeep
<1>1. UNCHANGED ringVars /\ WorldTypeOK'
  BY DEF Preempts, TypeOK, WorldTypeOK, sharedVars
<1>2. PumpTypeOK'
  BY DEF Preempts, OthersTypeOK, PumpTypeOK, TypeOK, RingTypeOK
<1>3. AppTypeOK'
  BY DEF Preempts, OthersTypeOK, AppTypeOK, Spend
<1> QED
  BY <1>1, <1>2, <1>3 DEF OthersKeep, OthersTypeOK

\* A step of the application that leaves the processes alone.
LEMMA ApplicationKeeps ==
  ASSUME TypeOK, OthersTypeOK, Free \/ \E kind \in Kinds : Spend(kind),
         UNCHANGED <<ringVars, stdin, votes, busy, input, enabled, pumpVars>>,
         rx' \in Seq(Command), unread' \in SUBSET Participants, haltSlot' \in HaltReasons,
         deliveryDue' \in Nat, latch' \in BOOLEAN, gateRows' \in SUBSET Gates,
         sending' \in {"idle", "steered", "posted", "cleared"}, stopping' \in BOOLEAN,
         stagedContent' \in {"none", "staged", "delivering"},
         waiter' \in [Gates -> Someone], answered' \in SUBSET Gates
  PROVE  OthersKeep
<1>1. WorldTypeOK'
  BY DEF TypeOK, WorldTypeOK
<1>2. PumpTypeOK'
  BY DEF OthersTypeOK, PumpTypeOK, pumpVars
<1>3. AppTypeOK'
  BY DEF OthersTypeOK, AppTypeOK, Free, Spend
<1> QED
  BY <1>1, <1>2, <1>3 DEF OthersKeep, OthersTypeOK

\* Steps of the user and of the calls made on the user's behalf.
LEMMA UserKeeps ==
  ASSUME TypeOK, OthersTypeOK, UserStep
  PROVE  OthersKeep
<1> USE DEF TypeOK, WorldTypeOK, OthersTypeOK, AppTypeOK
<1>1. CASE UserSends \/ UserSendsInGap \/ HostPrompts
  BY <1>1, PreemptsKeeps DEF UserSends, UserSendsInGap, HostPrompts, Kinds
<1>2. CASE UserRowPosted
  BY <1>2, ApplicationKeeps DEF UserRowPosted, worldVars
<1>3. CASE HaltCleared
  BY <1>3, ApplicationKeeps DEF HaltCleared, worldVars, HaltReasons
<1>4. CASE ReleasesRing
  <2>1. PICK ms \in Seq(Participants) :
          RingReleased(ms) /\ (Free \/ \E kind \in Kinds : Spend(kind))
    <3>1. <<>> \in Seq(Participants) /\ \A p \in Participants : <<p>> \in Seq(Participants)
      BY EmptySeq
    <3>2. "mention" \in Kinds
      BY DEF Kinds
    <3> QED
      BY <1>4, <3>1, <3>2 DEF ReleasesRing
  <2>2. rx' \in Seq(Command)
    BY <2>1, SentCommands, TrySendTypes DEF RingReleased
  <2>3. stagedContent' \in {"none", "staged", "delivering"}
    BY <2>1 DEF RingReleased
  <2> QED
    BY <2>1, <2>2, <2>3, ApplicationKeeps DEF RingReleased, worldVars
<1>5. CASE StopLatches
  <2>1. "stop" \in Kinds
    BY DEF Kinds
  <2> QED
    BY <1>5, <2>1, ApplicationKeeps DEF StopLatches, sharedVars
<1>6. CASE StopReachesRing
  <2>1. rx' \in Seq(Command)
    BY <1>6, SentCommands, TrySendTypes DEF StopReachesRing
  <2> QED
    BY <1>6, <2>1, ApplicationKeeps DEF StopReachesRing, worldVars
<1>7. CASE Stage
  <2>1. rx' \in Seq(Command) /\ "stage" \in Kinds
    BY <1>7, SentCommands, TrySendTypes DEF Stage, Kinds
  <2> QED
    BY <1>7, <2>1, ApplicationKeeps DEF Stage, worldVars
<1>8. CASE Unstage
  <2>1. rx' \in Seq(Command) /\ "unstage" \in Kinds
    BY <1>8, SentCommands, TrySendTypes DEF Unstage, Kinds
  <2> QED
    BY <1>8, <2>1, ApplicationKeeps DEF Unstage, worldVars
<1>9. CASE DeliverStaged
  <2>1. deliveryDue' \in Nat
    BY <1>9 DEF DeliverStaged
  <2>2. /\ stagedContent' \in {"none", "staged", "delivering"} /\ latch' \in BOOLEAN
        /\ sending' \in {"idle", "steered", "posted", "cleared"}
    BY <1>9 DEF DeliverStaged
  <2> QED
    BY <1>9, <2>1, <2>2, ApplicationKeeps DEF DeliverStaged
<1>10. ASSUME NEW g \in Gates, GateAnswered(g)
       PROVE  OthersKeep
  <2>1. rx' \in Seq(Command)
    BY <1>10, SentCommands, TrySendTypes DEF GateAnswered
  <2>2. /\ waiter' \in [Gates -> Someone] /\ answered' \in SUBSET Gates
        /\ unread' \in SUBSET Participants /\ gateRows' \in SUBSET Gates
    BY <1>10 DEF GateAnswered, Someone
  <2> QED
    BY <1>10, <2>1, <2>2, ApplicationKeeps DEF GateAnswered
<1>11. ASSUME NEW g \in Gates, TrayWakes(g)
       PROVE  OthersKeep
  <2>1. rx' \in Seq(Command)
    BY <1>11, SentCommands, TrySendTypes, EmptySeq DEF TrayWakes
  <2> QED
    BY <1>11, <2>1, ApplicationKeeps DEF TrayWakes, worldVars
<1>12. ASSUME NEW g \in Gates, WaiterTimesOut(g)
       PROVE  OthersKeep
  <2>1. waiter' \in [Gates -> Someone]
    BY <1>12 DEF WaiterTimesOut, Someone
  <2> QED
    BY <1>12, <2>1, ApplicationKeeps DEF WaiterTimesOut, vars, sharedVars, worldVars
<1> QED
  BY <1>1, <1>2, <1>3, <1>4, <1>5, <1>6, <1>7, <1>8, <1>9, <1>10, <1>11, <1>12 DEF UserStep

\* A gate parks its row, then tells the ring.
LEMMA GateParksKeeps ==
  ASSUME TypeOK, OthersTypeOK, NEW p \in Participants, NEW g \in Gates, GateParks(p, g)
  PROVE  OthersKeep
<1>1. "gate" \in Kinds
  BY DEF Kinds
<1>2. rx' \in Seq(Command)
  BY SentCommands, TrySendTypes DEF GateParks, TypeOK, WorldTypeOK
<1>3. waiter' \in [Gates -> Someone] /\ gateRows' \in SUBSET Gates
  BY DEF GateParks, OthersTypeOK, AppTypeOK, TypeOK, WorldTypeOK, Someone
<1> QED
  BY <1>1, <1>2, <1>3, ApplicationKeeps
     DEF GateParks, TypeOK, WorldTypeOK, OthersTypeOK, AppTypeOK

\* A process started anew, and the resume nobody sends.
LEMMA RestartsKeep ==
  ASSUME TypeOK, OthersTypeOK, ResumeSent \/ \E p \in Participants : Respawns(p)
  PROVE  OthersKeep
<1>1. "resume" \in Kinds /\ "join" \in Kinds
  BY DEF Kinds
<1>2. CASE ResumeSent
  <2>1. rx' \in Seq(Command)
    BY <1>2, SentCommands, TrySendTypes DEF ResumeSent, TypeOK, WorldTypeOK
  <2> QED
    BY <1>1, <1>2, <2>1, ApplicationKeeps
       DEF ResumeSent, TypeOK, WorldTypeOK, OthersTypeOK, AppTypeOK, appVars
<1>3. ASSUME NEW p \in Participants, Respawns(p)
      PROVE  OthersKeep
  <2>1. rx' \in Seq(Command)
    BY <1>3, SentCommands, TrySendTypes DEF Respawns, TypeOK, WorldTypeOK
  <2>2. UNCHANGED ringVars /\ WorldTypeOK'
    BY <1>3, <2>1 DEF Respawns, TypeOK, WorldTypeOK, worldVars
  <2>3. PumpTypeOK'
    BY <1>3 DEF Respawns, OthersTypeOK, PumpTypeOK
  <2>4. AppTypeOK'
    BY <1>1, <1>3, Inputs DEF Respawns, OthersTypeOK
  <2> QED
    BY <2>2, <2>3, <2>4 DEF OthersKeep, OthersTypeOK
<1> QED
  BY <1>2, <1>3

\* Whatever is not the ring's own step leaves the ring's state alone and every type in place.
LEMMA SessionStepKeeps ==
  ASSUME TypeOK, OthersTypeOK, SessionStep
  PROVE  OthersKeep
BY ProcessKeeps, UserKeeps, GateParksKeeps, RestartsKeep DEF SessionStep
-----------------------------------------------------------------------------
(* A session is a ring in one of TurnRing's environments *)

\* The states a session starts in.
LEMMA SessionInitTypes == SessionInit => Init /\ OthersTypeOK
<1> SUFFICES ASSUME SessionInit PROVE Init /\ OthersTypeOK
  OBVIOUS
<1>1. rx \in Seq(Command)
  <2>1. [type |-> "UserMessage", mentions |-> <<>>] \in Command
    BY SentCommands, EmptySeq
  <2> QED
    BY <2>1 DEF SessionInit
<1>2. \E late \in SUBSET Participants :
        /\ alive = Participants \ late
        /\ input = [p \in Participants |-> IF p \in late THEN "none" ELSE "open"]
  BY DEF SessionInit
<1>3. input \in [Participants -> {"none", "open", "closed"}] /\ alive \subseteq Participants
  BY <1>2
<1>4. WorldTypeOK
  BY <1>1, <1>3 DEF SessionInit, WorldTypeOK, HaltReasons
<1>5. PumpTypeOK
  BY <1>3 DEF SessionInit, PumpInit, PumpTypeOK
<1>6. AppTypeOK
  BY InputsAssumption DEF SessionInit, AppTypeOK, Someone
<1> QED
  BY <1>4, <1>5, <1>6 DEF SessionInit, Init, OthersTypeOK

\* The ring's step leaves the others' types in place.
LEMMA RingTurnKeeps ==
  ASSUME SessionInv, RingTurn
  PROVE  SessionInv'
<1>1. StateInv'
  BY RingStepKeeps DEF SessionInv, RingTurn
<1>2. PumpTypeOK'
  BY DEF SessionInv, OthersTypeOK, PumpTypeOK, RingTurn, pumpVars
<1>3. AppTypeOK'
  <2>1. silent' \in SUBSET Participants
    <3>1. CASE CompletesLive
      <4>1. RestTypeOK
        BY TypeOKParts DEF SessionInv, StateInv
      <4>2. Next1.participant \in Participants
        BY <3>1, <4>1, Dispatched, CommandFields DEF CompletesLive
      <4> QED
        BY <3>1, <4>2 DEF RingTurn, SilentAfter, SessionInv, OthersTypeOK, AppTypeOK
    <3>2. CASE ~CompletesLive
      BY <3>2 DEF RingTurn, SilentAfter, SessionInv, OthersTypeOK, AppTypeOK
    <3> QED
      BY <3>1, <3>2
  <2>2. dealt' \in Nat
    BY DEF RingTurn, SessionInv, OthersTypeOK, AppTypeOK
  <2> QED
    BY <2>1, <2>2 DEF SessionInv, OthersTypeOK, AppTypeOK, RingTurn, appVars
<1> QED
  BY <1>1, <1>2, <1>3 DEF SessionInv, OthersTypeOK

\* A step of the session is a step of the ring or of its environment.
LEMMA SessionStepsAreRingSteps ==
  SessionInv /\ [SessionNext]_allVars => SessionInv' /\ [Next]_vars
<1> SUFFICES ASSUME SessionInv, [SessionNext]_allVars PROVE SessionInv' /\ [Next]_vars
  OBVIOUS
<1>1. CASE RingTurn
  BY <1>1, RingTurnKeeps DEF RingTurn, Next
<1>2. CASE SessionStep
  <2>1. OthersKeep
    BY <1>2, SessionStepKeeps DEF SessionInv, StateInv
  <2>2. EnvStep
    BY <2>1 DEF OthersKeep, EnvStep
  <2> QED
    BY <2>1, <2>2, EnvStepKeeps DEF SessionInv, OthersKeep, Next
<1>3. CASE UNCHANGED allVars
  <2>1. UNCHANGED vars
    BY <1>3 DEF allVars
  <2>2. OthersTypeOK'
    BY <1>3
       DEF allVars, pumpVars, appVars, SessionInv, OthersTypeOK, PumpTypeOK, AppTypeOK
  <2> QED
    BY <2>1, <2>2, EnvStepKeeps DEF SessionInv
<1> QED
  BY <1>1, <1>2, <1>3 DEF SessionNext

\* The session's inductive invariant.
LEMMA SessionInvariance == SessionSpec => []SessionInv
<1>1. SessionInit => SessionInv
  BY SessionInitTypes, InitStateInv DEF SessionInv
<1>2. SessionInv /\ [SessionNext]_allVars => SessionInv'
  BY SessionStepsAreRingSteps
<1> QED
  BY <1>1, <1>2, PTL DEF SessionSpec

\* Every variable of a session keeps its type in every behaviour: a process in a turn is alive,
\* only a working process is told to stop, and every command on the channel is well formed.
THEOREM SessionTypeCorrect == SessionSpec => []SessionTypeOK
<1>1. SessionInv => SessionTypeOK
  BY DEF SessionInv, StateInv, OthersTypeOK, SessionTypeOK
<1> QED
  BY <1>1, SessionInvariance, PTL

\* The processes, the pumps and the application are one of the environments TurnRing allows
\* for: a session is a behaviour of the ring's specification.
THEOREM SessionIsARing == SessionSpec => Spec
<1>1. SessionInit => Init
  BY SessionInitTypes
<1>2. SessionInv /\ [SessionNext]_allVars => [Next]_vars
  BY SessionStepsAreRingSteps
<1> QED
  BY <1>1, <1>2, SessionInvariance, PTL DEF SessionSpec, Spec

\* So the ring's invariant holds in a session: a delivery has a holder, nobody has the turn while
\* a halted holder winds down, and the current epoch is the holder's alone.
THEOREM SessionRingInvariant == SessionSpec => []RingInv
BY SessionIsARing, RingInvariant, PTL

\* And a session implements the lease of TurnToken.
THEOREM SessionImplementsToken == SessionSpec => RefinesToken
BY SessionIsARing, RingImplementsToken, PTL
-----------------------------------------------------------------------------
(* What a step of the ring does to the turn: five kinds *)

\* A live completion is followed by the next turn.
GoesOn(c, tally) ==
  /\ LiveCompletion(c) /\ CompletesLive /\ ~stagedPending
  /\ NoArrival(c, tally)
  /\ ReseedGates
  /\ Advance(FALSE, summons, SpokeAfter(c), tally)

\* The user's release, as it arrives or after it was held back, naming `ms`.
Released(ms) ==
  /\ drain = "none"
  /\ Releases /\ ~CompletesLive
  /\ \/ Dispatches("UserMessage") /\ ms = Next1.mentions /\ UNCHANGED stashedRelease
     \/ ms = stashedRelease.mentions /\ stashedRelease' = NoStash
  /\ ReleaseRing(ms)

\* A summons that finds nobody at work is dealt at once.
Summoned ==
  /\ Dispatches("Summon") /\ ~Releases /\ ~CompletesLive
  /\ holder = NoOne /\ windingDown = NoOne
  /\ UNCHANGED haltedPendingUser /\ ReseedGates
  /\ Advance(FALSE, Append(summons, Next1.participant), spokeThisLap, votes)

\* A live completion after which the ring stops: everyone is done, the turn spun, or a staged
\* message was waiting for this boundary.
TurnStops(c) ==
  /\ LiveCompletion(c) /\ CompletesLive
  /\ \/ CompletionConsensus(c)
     \/ CompletionSpins(c)
     \/ CompletionAtStage(c)

\* Everything else deals no turn.
Quiet ==
  /\ ~Releases /\ ~CompletesLive
  /\ UNCHANGED <<laps, anchor, spokeThisLap, votes>>
  /\ Halt \/ UNCHANGED <<holder, epoch>>
  /\ \/ UNCHANGED summons
     \/ Dispatches("Summon") /\ summons' = Append(summons, Next1.participant)
  /\ UNCHANGED haltSlot \/ haltSlot' = "wedged"

\* A dispatch is of the command at the head, and of no other.
LEMMA OneArm ==
  ASSUME NEW a, NEW b, Dispatches(a), Dispatches(b)
  PROVE  a = b
BY DEF Dispatches

\* A completion: the turn goes on, stops, is released, or nothing is moved.
LEMMA CompletionKinds ==
  ASSUME RestTypeOK, ReleaseWaits, NEW c \in {Next1},
         \/ CompletionConsensus(c) \/ CompletionSpins(c) \/ CompletionAtStage(c)
         \/ CompletionSteps(c) \/ CompletionDiscarded(c) \/ CompletionReplays(c)
  PROVE  \/ \E tally \in SUBSET Participants : GoesOn(c, tally)
         \/ \E ms \in Seq(Participants) : Released(ms)
         \/ TurnStops(c)
         \/ Quiet
<1>1. LiveCompletion(c) => CompletesLive
  BY DEF LiveCompletion, CompletesLive
<1>2. CASE CompletionConsensus(c) \/ CompletionSpins(c) \/ CompletionAtStage(c)
  BY <1>1, <1>2
     DEF TurnStops, CompletionConsensus, CompletionSpins, CompletionAtStage
<1>3. CASE CompletionSteps(c)
  BY <1>1, <1>3 DEF GoesOn, CompletionSteps
<1>4. CASE CompletionDiscarded(c)
  <2>1. ~Releases
    <3>1. Dispatches("TurnComplete") /\ UNCHANGED stashedRelease
      BY <1>4 DEF CompletionDiscarded
    <3> QED
      BY <3>1, OneArm DEF Releases
  <2> QED
    BY <1>4, <2>1 DEF CompletionDiscarded, CompletesLive, Quiet, dealVars
<1>5. CASE CompletionReplays(c)
  <2>1. drain = "none"
    BY <1>5 DEF CompletionReplays, Dispatches, HasCommand
  <2>2. stashedRelease.mentions \in Seq(Participants)
    BY StashFields
  <2>3. Releases
    BY <1>5, NoStashTypes DEF CompletionReplays, Releases
  <2> QED
    BY <1>5, <2>1, <2>2, <2>3 DEF CompletionReplays, CompletesLive, Released
<1> QED
  BY <1>2, <1>3, <1>4, <1>5

\* Every step of the ring is of one of the kinds.
LEMMA RingStepKinds ==
  ASSUME StateInv, RingStep
  PROVE  \/ \E c \in {Next1}, tally \in SUBSET Participants : GoesOn(c, tally)
         \/ \E ms \in Seq(Participants) : Released(ms)
         \/ Summoned
         \/ \E c \in {Next1} : TurnStops(c)
         \/ Quiet
<1>1. DealTypeOK /\ RestTypeOK /\ DrainHasAHolder /\ ReleaseWaits
  BY TypeOKParts DEF StateInv, WindDownHasNoHolder, ReleaseWaits
<1>2. CASE Completion
  BY <1>1, <1>2, CompletionKinds DEF Completion
<1>3. CASE UserSteers \/ HoldForPause
  BY <1>3
     DEF UserSteers, HoldForPause, Quiet, Releases, CompletesLive, Dispatches, dealVars,
         releaseVars
<1>4. CASE GraceHolds
  BY <1>4 DEF GraceHolds, Quiet, Releases, CompletesLive, Dispatches, HasCommand, dealVars,
              releaseVars
<1>5. CASE GraceExpires
  <2>1. Releases
    BY <1>5, NoStashTypes DEF GraceExpires, Releases
  <2>2. ~CompletesLive /\ drain = "none"
    BY <1>5 DEF GraceExpires, CompletesLive, Dispatches, HasCommand
  <2> QED
    BY <1>1, <1>5, <2>1, <2>2, StashFields DEF GraceExpires, Released
<1>6. CASE UserMessageStashed
  <2>1. Dispatches("UserMessage") /\ windingDown # NoOne /\ stashedRelease'.some
    BY <1>6 DEF UserMessageStashed
  <2>2. ~Releases /\ ~CompletesLive
    BY <2>1, OneArm DEF Releases, CompletesLive
  <2> QED
    BY <1>6, <2>2 DEF UserMessageStashed, Quiet, dealVars
<1>7. CASE UserMessageReleases
  <2>1. Dispatches("UserMessage") /\ windingDown = NoOne
    BY <1>7 DEF UserMessageReleases
  <2>2. Releases /\ ~CompletesLive
    BY <2>1, OneArm DEF Releases, CompletesLive
  <2>3. Next1.mentions \in Seq(Participants) /\ drain = "none"
    BY <1>1, <2>1, Dispatched, CommandFields
  <2> QED
    BY <1>7, <2>1, <2>2, <2>3 DEF UserMessageReleases, Released, releaseVars
<1>8. CASE MessageStaged \/ MessageUnstaged \/ GateOpened \/ GateResolved \/ Pause \/ Resume
  <2>1. PICK type \in {"MessageStaged", "MessageUnstaged", "GateOpened", "GateResolved", "Pause",
                       "Resume"} : Dispatches(type)
    BY <1>8 DEF MessageStaged, MessageUnstaged, GateOpened, GateResolved, Pause, Resume
  <2>2. UNCHANGED stashedRelease
    BY <1>8 DEF MessageStaged, MessageUnstaged, GateOpened, GateResolved, Pause, Resume,
                releaseVars
  <2>3. ~Releases /\ ~CompletesLive
    BY <2>1, <2>2, OneArm DEF Releases, CompletesLive
  <2> QED
    BY <1>8, <2>3 DEF MessageStaged, MessageUnstaged, GateOpened, GateResolved, Pause, Resume,
                      Quiet, dealVars
<1>9. CASE HaltDeclared
  <2>1. Dispatches("HaltDeclared") /\ UNCHANGED stashedRelease
    BY <1>9 DEF HaltDeclared
  <2>2. ~Releases /\ ~CompletesLive
    BY <2>1, OneArm DEF Releases, CompletesLive
  <2> QED
    BY <1>9, <2>2 DEF HaltDeclared, Quiet
<1>10. CASE Summon
  <2>1. Dispatches("Summon") /\ UNCHANGED stashedRelease
    BY <1>10 DEF Summon, releaseVars
  <2>2. ~Releases /\ ~CompletesLive
    BY <2>1, OneArm DEF Releases, CompletesLive
  <2>3. CASE holder = NoOne /\ windingDown = NoOne
    BY <1>10, <2>1, <2>2, <2>3 DEF Summon, Summoned
  <2>4. CASE ~(holder = NoOne /\ windingDown = NoOne)
    BY <1>10, <2>1, <2>2, <2>4 DEF Summon, Quiet
  <2> QED
    BY <2>3, <2>4
<1>11. CASE ParticipantJoined
  <2> DEFINE replays == windingDown = Next1.participant /\ stashedRelease.some
  <2>1. Dispatches("ParticipantJoined") /\ drain = "none"
    BY <1>11 DEF ParticipantJoined, Dispatches, HasCommand
  <2>2. ~CompletesLive /\ ~Dispatches("UserMessage")
    BY <2>1, OneArm DEF CompletesLive
  <2>3. CASE replays
    <3>1. stashedRelease' = NoStash /\ ReleaseRing(stashedRelease.mentions)
      BY <1>11, <2>3 DEF ParticipantJoined
    <3>2. Releases
      BY <2>3, <3>1, NoStashTypes DEF Releases
    <3> QED
      BY <1>1, <2>1, <2>2, <3>1, <3>2, StashFields DEF Released
  <2>4. CASE ~replays
    <3>1. UNCHANGED <<holder, epoch, laps, summons, anchor, spokeThisLap, votes, haltSlot,
                      stashedRelease>>
      BY <1>11, <2>4 DEF ParticipantJoined
    <3> QED
      BY <2>2, <3>1 DEF Quiet, Releases
  <2> QED
    BY <2>3, <2>4
<1>12. CASE Drain
  <2>1. drain # "none" /\ UNCHANGED drainKeeps
    BY <1>12 DEF Drain, DrainNoInput, DrainReadFails, DrainEmpty, DrainReadsCommand, DrainLands,
                 DrainUnreachable, Drains, UnwindWedgedTurn
  <2>2. ~Releases /\ ~CompletesLive
    BY <2>1 DEF Releases, CompletesLive, Dispatches, HasCommand, drainKeeps, releaseVars
  <2>3. UNCHANGED <<laps, anchor, spokeThisLap, votes, summons>>
    BY <2>1 DEF drainKeeps
  <2>4. \/ Halt /\ haltSlot' = "wedged"
        \/ UNCHANGED <<holder, epoch, haltSlot>>
    BY <1>12 DEF Drain, DrainNoInput, DrainReadFails, DrainEmpty, DrainReadsCommand, DrainLands,
                 DrainUnreachable, UnwindWedgedTurn, DeclareHostHalt
  <2> QED
    BY <2>2, <2>3, <2>4 DEF Quiet
<1> QED
  BY <1>2, <1>3, <1>4, <1>5, <1>6, <1>7, <1>8, <1>9, <1>10, <1>11, <1>12
     DEF RingStep, Dispatch
-----------------------------------------------------------------------------
(* What the other tasks do to the variables the ring shares with them *)

\* They deal no turn, cast no vote and change no roster, feed no process, and append one command
\* to the channel at most.
LEMMA OthersFrame ==
  ASSUME SessionInv, SessionStep
  PROVE  /\ UNCHANGED <<ringVars, votes, enabled>>
         /\ \A p \in Participants : stdin'[p] <= stdin[p]
         /\ rx' = rx \/ \E c \in Command : rx' = Append(rx, c)
<1>1. UNCHANGED ringVars
  BY SessionStepKeeps DEF SessionInv, StateInv, OthersKeep
<1>2. stdin \in [Participants -> Nat] /\ TypeOK /\ PumpTypeOK
  BY DEF SessionInv, StateInv, TypeOK, WorldTypeOK, OthersTypeOK
<1>3. \A c \in Command : TrySend(rx, c) = rx \/ TrySend(rx, c) = Append(rx, c)
  BY DEF TrySend
<1>4. ASSUME NEW p \in Participants, ProcessStep(p)
      PROVE  /\ UNCHANGED <<votes, enabled>>
             /\ \A q \in Participants : stdin'[q] <= stdin[q]
             /\ rx' = rx \/ \E c \in Command : rx' = Append(rx, c)
  <2>1. UNCHANGED <<votes, enabled>>
    BY <1>4 DEF ProcessStep, AgentStarts, AgentFolds, FirstEvent, EndsTurn, TurnEnds, TurnErrs,
                ReportsEnd, PumpClearsBusy, RetryFires, HaltTool, HaltReachesRing,
                HaltInterrupts, Dies, worldVars, sharedVars
  <2>2. \A q \in Participants : stdin'[q] <= stdin[q]
    <3>1. CASE AgentStarts(p) \/ AgentFolds(p) \/ Dies(p)
      BY <1>2, <3>1 DEF AgentStarts, AgentFolds, Dies
    <3>2. CASE UNCHANGED stdin
      BY <1>2, <3>2
    <3> QED
      BY <1>4, <3>1, <3>2
         DEF ProcessStep, FirstEvent, EndsTurn, TurnEnds, TurnErrs, ReportsEnd, PumpClearsBusy,
             RetryFires, HaltTool, HaltReachesRing, HaltInterrupts, sharedVars
  <2>3. rx' = rx \/ \E c \in Command : rx' = Append(rx, c)
    <3>1. ASSUME NEW ending \in Endings, NEW posts \in BOOLEAN, ReportsEnd(p, ending, posts)
          PROVE  \E c \in Command : rx' = Append(rx, c)
      <4> DEFINE e == IF Binding(p) = NoEpoch THEN 0 ELSE Binding(p)
      <4>1. e \in Nat
        BY <1>2, BindingTypes DEF NoEpoch
      <4> QED
        BY <3>1, <4>1, SentCommands DEF ReportsEnd
    <3>2. CASE EndsTurn(p)
      <4>1. PICK o \in TurnOutcomes : ReportsEnd(p, o[1], o[2])
        BY <3>2 DEF EndsTurn, TurnEnds
      <4>2. o[1] \in Endings /\ o[2] \in BOOLEAN
        BY InputsAssumption
      <4> QED
        BY <3>1, <4>1, <4>2
    <3>3. CASE TurnErrs(p)
      <4>1. "Spoke" \in Endings
        BY DEF Endings
      <4> QED
        BY <3>1, <3>3, <4>1 DEF TurnErrs
    <3>4. CASE RetryFires(p) \/ HaltReachesRing(p)
      BY <1>3, <3>4, SentCommands DEF RetryFires, HaltReachesRing
    <3> QED
      BY <1>4, <3>2, <3>3, <3>4
         DEF ProcessStep, AgentStarts, AgentFolds, FirstEvent, PumpClearsBusy, HaltTool,
             HaltInterrupts, Dies, sharedVars
  <2> QED
    BY <2>1, <2>2, <2>3
<1>5. ASSUME UserStep
      PROVE  /\ UNCHANGED <<votes, enabled, stdin>>
             /\ rx' = rx \/ \E c \in Command : rx' = Append(rx, c)
  <2>1. UNCHANGED <<votes, enabled, stdin>>
    BY <1>5 DEF UserStep, UserSends, UserSendsInGap, HostPrompts, Preempts, UserRowPosted,
                HaltCleared, ReleasesRing, RingReleased, StopLatches, StopReachesRing, Stage,
                Unstage, DeliverStaged, GateAnswered, TrayWakes, WaiterTimesOut, vars,
                sharedVars, worldVars
  <2>2. CASE ReleasesRing
    <3>1. PICK ms \in Seq(Participants) : RingReleased(ms)
      <4>1. <<>> \in Seq(Participants) /\ \A p \in Participants : <<p>> \in Seq(Participants)
        BY EmptySeq
      <4> QED
        BY <2>2, <4>1 DEF ReleasesRing
    <3> QED
      BY <1>3, <2>1, <3>1, SentCommands DEF RingReleased
  <2>3. CASE StopReachesRing \/ Stage \/ Unstage
    BY <1>3, <2>1, <2>3, SentCommands DEF StopReachesRing, Stage, Unstage
  <2>4. ASSUME NEW g \in Gates, GateAnswered(g) \/ TrayWakes(g)
        PROVE  rx' = rx \/ \E c \in Command : rx' = Append(rx, c)
    BY <1>3, <2>4, SentCommands, EmptySeq DEF GateAnswered, TrayWakes
  <2>5. CASE rx' = rx
    BY <2>1, <2>5
  <2> QED
    BY <1>5, <2>1, <2>2, <2>3, <2>4, <2>5
       DEF UserStep, UserSends, UserSendsInGap, HostPrompts, Preempts, UserRowPosted,
           HaltCleared, StopLatches, DeliverStaged, WaiterTimesOut, vars, sharedVars
<1>6. ASSUME \/ \E p \in Participants, g \in Gates : GateParks(p, g)
             \/ \E p \in Participants : Respawns(p)
             \/ ResumeSent
      PROVE  /\ UNCHANGED <<votes, enabled, stdin>>
             /\ rx' = rx \/ \E c \in Command : rx' = Append(rx, c)
  <2>1. UNCHANGED <<votes, enabled, stdin>>
    BY <1>6 DEF GateParks, Respawns, ResumeSent, worldVars
  <2> QED
    BY <1>3, <1>6, <2>1, SentCommands DEF GateParks, Respawns, ResumeSent
<1> QED
  BY <1>1, <1>2, <1>4, <1>5, <1>6 DEF SessionStep
-----------------------------------------------------------------------------
(* A Stop the ring was told of cuts the delivery *)

\* Every command but the pause.
Calm == {c \in Command : c.type # "Pause"}

\* A pause the ring has read waits at the very front of what is set aside, for the end of the
\* drain it ended; a drain runs only while neither it nor the ring's flag says otherwise.
PauseComesFirst ==
  /\ held \in Seq(Calm)
  /\ deferred # <<>> => Tail(deferred) \in Seq(Calm)
  /\ drain # "none" => deferred \in Seq(Calm) /\ ~paused

\* What is behind the command at the head is calm.
LEMMA RestIsCalm ==
  ASSUME RestTypeOK, PauseComesFirst, HasCommand
  PROVE  DeferredRest \in Seq(Calm)
<1>1. <<>> \in Seq(Calm)
  BY EmptySeq
<1> QED
  BY <1>1 DEF DeferredRest, Fresh, PauseComesFirst

\* A queue of calm commands has a calm rest, if it has one.
LEMMA CalmTail ==
  ASSUME NEW queue \in Seq(Calm)
  PROVE  queue # <<>> => Tail(queue) \in Seq(Calm)
BY HeadTailProperties

\* A handler that dispatches the head leaves a calm queue and begins a drain only unpaused.
LEMMA DispatchIsCalm ==
  ASSUME RestTypeOK, PauseComesFirst, Dispatch
  PROVE  /\ deferred' \in Seq(Calm) /\ held' \in Seq(Calm)
         /\ drain' # "none" => ~paused'
         /\ UNCHANGED stdin
<1>1. drain = "none" /\ held \in Seq(Calm) /\ <<>> \in Seq(Calm)
  BY EmptySeq
     DEF Dispatch, Completion, UserSteers, HoldForPause, UserMessageStashed,
         UserMessageReleases, MessageStaged, MessageUnstaged, HaltDeclared, GateOpened,
         GateResolved, Summon, Pause, Resume, ParticipantJoined, GraceExpires, GraceHolds,
         Dispatches, HasCommand, PauseComesFirst
<1>2. CASE \/ Completion \/ UserMessageStashed \/ UserMessageReleases \/ MessageStaged
           \/ MessageUnstaged \/ HaltDeclared \/ GateOpened \/ GateResolved \/ Summon
           \/ ParticipantJoined
  <2>1. PICK type \in {"TurnComplete", "UserMessage", "MessageStaged", "MessageUnstaged",
                       "HaltDeclared", "GateOpened", "GateResolved", "Summon",
                       "ParticipantJoined"} : Dispatches(type)
    BY <1>2
       DEF Completion, CompletionConsensus, CompletionSpins, CompletionAtStage,
           CompletionSteps, CompletionDiscarded, CompletionReplays, LiveCompletion,
           UserMessageStashed, UserMessageReleases, MessageStaged, MessageUnstaged,
           HaltDeclared, GateOpened, GateResolved, Summon, ParticipantJoined
  <2>2. ~paused /\ HasCommand
    BY <2>1 DEF Dispatches, HeldByPause
  <2>3. deferred' = DeferredRest /\ UNCHANGED <<held, paused, stdin>>
    <3>1. CASE Completion
      BY <3>1
         DEF Completion, CompletionConsensus, CompletionSpins, CompletionAtStage,
             CompletionSteps, CompletionDiscarded, CompletionReplays, LiveCompletion, Consume,
             pauseVars, deliveryVars
    <3> QED
      BY <1>2, <3>1
         DEF UserMessageStashed, UserMessageReleases, MessageStaged, MessageUnstaged,
             HaltDeclared, GateOpened, GateResolved, Summon, ParticipantJoined, Consume,
             pauseVars, deliveryVars
  <2> QED
    BY <1>1, <2>2, <2>3, RestIsCalm
<1>3. CASE UserSteers \/ HoldForPause
  <2>1. HasCommand /\ Next1 \in Calm
    <3>1. Next1 \in Command /\ HasCommand
      BY <1>3, ReadTypes DEF UserSteers, HoldForPause
    <3>2. Next1.type # "Pause"
      BY <1>3 DEF UserSteers, HoldForPause, Steers, HeldByPause
    <3> QED
      BY <3>1, <3>2 DEF Calm
  <2>2. Append(held, Next1) \in Seq(Calm) /\ DeferredRest \in Seq(Calm)
    BY <1>1, <2>1, RestIsCalm, AppendProperties
  <2> QED
    BY <1>1, <1>3, <2>2 DEF UserSteers, HoldForPause, Consume, dealVars, deliveryVars
<1>4. CASE Pause
  <2>1. HasCommand
    BY <1>4 DEF Pause, Dispatches
  <2> QED
    BY <1>1, <1>4, <2>1, RestIsCalm DEF Pause, Consume, dealVars, deliveryVars
<1>5. CASE Resume
  <2>1. HasCommand
    BY <1>5 DEF Resume, Dispatches
  <2>2. held \o DeferredRest \in Seq(Calm)
    BY <1>1, <2>1, RestIsCalm, ConcatProperties
  <2> QED
    BY <1>1, <1>5, <2>2 DEF Resume, deliveryVars
<1>6. CASE GraceExpires
  <2>1. deferred' = <<>> /\ ~paused' /\ UNCHANGED <<held, stdin>>
    BY <1>6 DEF GraceExpires, pauseVars, deliveryVars
  <2> QED
    BY <1>1, <2>1
<1>7. CASE GraceHolds
  <2>1. deferred' = <<>> /\ drain' = "none" /\ UNCHANGED <<held, stdin>>
    BY <1>7 DEF GraceHolds, dealVars, pauseVars, deliveryVars
  <2> QED
    BY <1>1, <2>1
<1> QED
  BY <1>2, <1>3, <1>4, <1>5, <1>6, <1>7 DEF Dispatch

\* A drain sets a pause at the front and ends with it; a page lands only while there is none.
LEMMA DrainIsCalm ==
  ASSUME DealTypeOK, RestTypeOK, DrainHasAHolder, PauseComesFirst, Drain
  PROVE  /\ PauseComesFirst'
         /\ UNCHANGED stdin \/ rx = <<>>
         /\ ~paused /\ deferred \in Seq(Calm) /\ held \in Seq(Calm)
<1>1. drain # "none"
  BY DEF Drain, DrainNoInput, DrainReadFails, DrainEmpty, DrainReadsCommand, DrainLands,
         DrainUnreachable, Drains
<1>2. ~paused /\ deferred \in Seq(Calm) /\ held \in Seq(Calm)
  BY <1>1 DEF PauseComesFirst
<1>3. UNCHANGED <<held, paused>>
  BY DEF Drain, DrainNoInput, DrainReadFails, DrainEmpty, DrainReadsCommand, DrainLands,
         DrainUnreachable, UnwindWedgedTurn, drainKeeps, pauseVars
<1>4. deferred' \in Seq(Calm) => PauseComesFirst'
  <2>1. deferred' \in Seq(Calm) /\ deferred' # <<>> => Tail(deferred') \in Seq(Calm)
    BY CalmTail
  <2> QED
    BY <1>2, <1>3, <2>1 DEF PauseComesFirst
<1>5. CASE DrainEmpty
  <2> DEFINE pass == [type |-> "TurnComplete", participant |-> holder,
                      epoch |-> epoch, ending |-> "Passed"]
  <2>1. pass \in Calm
    BY <1>1, DrainFeedsSomeone DEF Calm, Command, Endings, DealTypeOK
  <2>2. Append(deferred, pass) \in Seq(Calm)
    BY <1>2, <2>1, AppendProperties
  <2> QED
    BY <1>2, <1>4, <1>5, <2>2 DEF DrainEmpty
<1>6. CASE DrainReadsCommand
  <2>1. Head(rx) \in Command
    BY <1>6, HeadTailProperties DEF DrainReadsCommand, RestTypeOK
  <2>2. CASE Head(rx).type = "Pause"
    <3>1. drain' = "none" /\ deferred' = <<Head(rx)>> \o deferred
      BY <1>6, <2>2 DEF DrainReadsCommand, EndDrain
    <3>2. Tail(deferred') = deferred
      BY <1>2, <2>1, <3>1, HeadTailProperties
    <3> QED
      BY <1>2, <1>3, <1>6, <3>1, <3>2 DEF PauseComesFirst, DrainReadsCommand
  <2>3. CASE Head(rx).type # "Pause"
    <3>1. Append(deferred, Head(rx)) \in Seq(Calm)
      BY <1>2, <2>1, <2>3, AppendProperties DEF Calm
    <3> QED
      BY <1>2, <1>4, <1>6, <2>3, <3>1 DEF DrainReadsCommand
  <2> QED
    BY <2>2, <2>3
<1>7. CASE DrainLands
  BY <1>2, <1>4, <1>7 DEF DrainLands
<1>8. CASE DrainNoInput \/ DrainReadFails \/ DrainUnreachable
  BY <1>2, <1>4, <1>8 DEF DrainNoInput, DrainReadFails, DrainUnreachable, UnwindWedgedTurn
<1> QED
  BY <1>5, <1>6, <1>7, <1>8 DEF Drain

\* A step of the ring keeps the pause first, and lands a page only with none in flight.
LEMMA RingStepIsCalm ==
  ASSUME StateInv, PauseComesFirst, RingStep
  PROVE  /\ PauseComesFirst'
         /\ \/ UNCHANGED stdin
            \/ ~paused /\ rx = <<>> /\ deferred \in Seq(Calm) /\ held \in Seq(Calm)
<1>1. DealTypeOK /\ RestTypeOK /\ DrainHasAHolder
  BY TypeOKParts DEF StateInv
<1>2. CASE Dispatch
  <2>1. /\ deferred' \in Seq(Calm) /\ held' \in Seq(Calm)
        /\ drain' # "none" => ~paused'
        /\ UNCHANGED stdin
    BY <1>1, <1>2, DispatchIsCalm
  <2>2. deferred' # <<>> => Tail(deferred') \in Seq(Calm)
    BY <2>1, CalmTail
  <2> QED
    BY <2>1, <2>2 DEF PauseComesFirst
<1>3. CASE Drain
  BY <1>1, <1>3, DrainIsCalm
<1> QED
  BY <1>2, <1>3 DEF RingStep

\* In a session nobody but the ring puts a pause, or anything else, in front of the others.
LEMMA PauseStaysFirst ==
  SessionInv /\ PauseComesFirst /\ [SessionNext]_allVars => PauseComesFirst'
<1> SUFFICES ASSUME SessionInv, PauseComesFirst, [SessionNext]_allVars
             PROVE  PauseComesFirst'
  OBVIOUS
<1>1. CASE RingTurn
  BY <1>1, RingStepIsCalm DEF RingTurn, SessionInv
<1>2. CASE UNCHANGED ringVars
  BY <1>2 DEF ringVars, PauseComesFirst
<1> QED
  BY <1>1, <1>2, OthersFrame DEF SessionNext, allVars, vars

\* Once the ring has been told of a Stop no process is fed another page, whatever was queued
\* ahead of it and whatever storage does: the drain that reads the Pause ends, and everything
\* that would begin another one is held (deliver_backlog, the pause gate of run_sequencer).
THEOREM StopCutsTheDelivery == SessionSpec => StopCutsDelivery
<1>1. SessionInit => PauseComesFirst
  <2>1. <<>> \in Seq(Calm)
    BY EmptySeq
  <2> QED
    BY <2>1 DEF SessionInit, RingInit, PauseComesFirst
<1>2. SessionInv /\ PauseComesFirst /\ [SessionNext]_allVars
        => [(\E p \in Participants : stdin'[p] > stdin[p])
              => ~paused /\ \A c \in InFlight : c.type # "Pause"]_allVars
  <2> SUFFICES ASSUME SessionInv, PauseComesFirst, SessionNext,
                      NEW p \in Participants, stdin'[p] > stdin[p]
               PROVE  ~paused /\ \A c \in InFlight : c.type # "Pause"
    OBVIOUS
  <2>1. stdin[p] \in Nat
    BY DEF SessionInv, StateInv, TypeOK, WorldTypeOK
  <2>2. CASE RingTurn
    <3>1. ~paused /\ rx = <<>> /\ deferred \in Seq(Calm) /\ held \in Seq(Calm)
      BY <2>1, <2>2, RingStepIsCalm DEF RingTurn, SessionInv
    <3>2. \A q \in Seq(Calm) : \A i \in DOMAIN q : q[i].type # "Pause"
      BY ElementOfSeq DEF Calm
    <3> QED
      BY <3>1, <3>2 DEF InFlight
  <2>3. CASE SessionStep
    <3>1. stdin'[p] <= stdin[p]
      BY <2>3, OthersFrame
    <3>2. stdin'[p] \in Nat
      BY <2>3, SessionStepKeeps DEF SessionInv, StateInv, OthersKeep, WorldTypeOK
    <3> QED
      BY <2>1, <3>1, <3>2
  <2> QED
    BY <2>2, <2>3 DEF SessionNext
<1> QED
  BY <1>1, <1>2, PauseStaysFirst, SessionInvariance, PTL DEF SessionSpec, StopCutsDelivery
-----------------------------------------------------------------------------
(* The roster of a session *)

\* The ring reads the roster, the latch and the gate rows, and writes none of them.
LEMMA RingKeepsTheWorld ==
  ASSUME RingStep
  PROVE  UNCHANGED worldVars
<1>1. CASE Completion
  BY <1>1 DEF Completion, CompletionConsensus, CompletionSpins, CompletionAtStage,
              CompletionSteps, CompletionDiscarded, CompletionReplays, LiveCompletion
<1>2. CASE Drain
  BY <1>2 DEF Drain, DrainNoInput, DrainReadFails, DrainEmpty, DrainReadsCommand, DrainLands,
              DrainUnreachable, UnwindWedgedTurn, drainKeeps
<1> QED
  BY <1>1, <1>2
     DEF RingStep, Dispatch, UserSteers, HoldForPause, UserMessageStashed, UserMessageReleases,
         MessageStaged, MessageUnstaged, HaltDeclared, GateOpened, GateResolved, Summon, Pause,
         Resume, ParticipantJoined, GraceExpires, GraceHolds

\* Nothing disables a participant while its session runs.
RosterStands == enabled = Participants

LEMMA RosterInvariance == SessionSpec => []RosterStands
<1>1. SessionInit => RosterStands
  BY DEF SessionInit, RosterStands
<1>2. SessionInv /\ RosterStands /\ [SessionNext]_allVars => RosterStands'
  BY OthersFrame, RingKeepsTheWorld
     DEF SessionNext, RingTurn, RosterStands, allVars, vars, worldVars
<1> QED
  BY <1>1, <1>2, SessionInvariance, PTL DEF SessionSpec
-----------------------------------------------------------------------------
(* Summons go first *)

\* With everyone enabled and readable, hand_to_summoned drops nobody.
LEMMA NobodyIsDropped ==
  ASSUME RosterStands, ~StorageFaults, NEW queue \in Seq(Participants),
         NEW k \in 0..Len(queue), Dropped(queue, k)
  PROVE  k = 0
<1>1. Len(queue) \in Nat
  BY LenProperties
<1>2. ASSUME k > 0
      PROVE  FALSE
  <2>1. 1 \in 1..k /\ 1 \in 1..Len(queue)
    BY <1>1, <1>2
  <2>2. queue[1] \in Participants
    BY <2>1, ElementOfSeq
  <2> QED
    BY <2>1, <2>2 DEF Dropped, RosterStands
<1> QED
  BY <1>1, <1>2

\* What SummonsGoFirst says of one step.
SummonsKept ==
  /\ (\E p \in Participants : Waits(p)) /\ Deals => Waits(holder')
  /\ \A p \in Participants : Waits(p) /\ ~Waits(p)' => Deals /\ holder' = p

\* A queue that only grows at its end loses nobody.
LEMMA GrowingQueue ==
  ASSUME NEW queue \in Seq(Participants), NEW more \in Seq(Participants),
         NEW i \in DOMAIN queue
  PROVE  i \in DOMAIN (queue \o more) /\ (queue \o more)[i] = queue[i]
BY ConcatProperties, LenProperties

\* The turn goes out of the queue after `k` entries were dropped, or, with the queue empty, to the
\* next in the rotation after `from`.
HandsOut(userSpoke, queue, spoke, tally, k, from, lap, cleared) ==
  /\ from = IF userSpoke /\ queue = <<>> THEN NoOne ELSE anchor
  /\ lap = IF userSpoke \/ from = NoOne THEN 0 ELSE laps
  /\ \/ cleared = {} /\ (userSpoke \/ from = NoOne)
     \/ cleared = tally /\ (StorageFaults \/ ~(userSpoke \/ from = NoOne))
  /\ Dropped(queue, k)
  /\ summons' = SubSeq(queue, k + 2, Len(queue))
  /\ \/ /\ k < Len(queue)
        /\ laps' = lap /\ votes' = cleared /\ spokeThisLap' = spoke /\ UNCHANGED anchor
        /\ StartTurn(queue[k + 1])
     \/ k = Len(queue) /\ StepRing(from, lap, spoke, cleared)

\* advance_turn parks, or hands the turn out.
LEMMA AdvanceArms ==
  ASSUME NEW userSpoke \in BOOLEAN, NEW queue \in Seq(Participants), NEW spoke, NEW tally,
         Advance(userSpoke, queue, spoke, tally)
  PROVE  \/ Parked /\ Park(queue, spoke, tally)
         \/ ~Parked /\ \E k \in 0..Len(queue) : \E from, lap, cleared :
              HandsOut(userSpoke, queue, spoke, tally, k, from, lap, cleared)
<1>1. CASE ~Parked
  <2>1. PICK k \in 0..Len(queue), clearFails \in MayFail :
          LET restart == userSpoke /\ queue = <<>>
              from == IF restart THEN NoOne ELSE anchor
              newStretch == userSpoke \/ from = NoOne
              lap == IF newStretch THEN 0 ELSE laps
              cleared == IF newStretch /\ ~clearFails THEN {} ELSE tally
          IN
          /\ Dropped(queue, k)
          /\ summons' = SubSeq(queue, k + 2, Len(queue))
          /\ \/ /\ k < Len(queue)
                /\ laps' = lap /\ votes' = cleared
                /\ spokeThisLap' = spoke /\ UNCHANGED anchor
                /\ StartTurn(queue[k + 1])
             \/ /\ k = Len(queue)
                /\ StepRing(from, lap, spoke, cleared)
    BY <1>1 DEF Advance
  <2> DEFINE from == IF userSpoke /\ queue = <<>> THEN NoOne ELSE anchor
             newStretch == userSpoke \/ from = NoOne
             lap == IF newStretch THEN 0 ELSE laps
             cleared == IF newStretch /\ ~clearFails THEN {} ELSE tally
  <2>2. clearFails => StorageFaults
    BY DEF MayFail
  <2>3. HandsOut(userSpoke, queue, spoke, tally, k, from, lap, cleared)
    BY <2>1, <2>2 DEF HandsOut
  <2> QED
    BY <1>1, <2>3
<1> QED
  BY <1>1 DEF Advance

\* advance_turn deals the first in the queue, and whoever was waiting is ahead of whoever the
\* caller adds.
LEMMA AdvanceHonoursTheQueue ==
  ASSUME DealTypeOK, RosterStands, ~StorageFaults, NEW userSpoke \in BOOLEAN,
         NEW more \in Seq(Participants), NEW spoke, NEW tally,
         Advance(userSpoke, summons \o more, spoke, tally)
  PROVE  SummonsKept
<1> DEFINE queue == summons \o more
<1>1. /\ summons \in Seq(Participants) /\ queue \in Seq(Participants)
      /\ Len(summons) \in Nat /\ Len(queue) \in Nat /\ epoch \in Nat
      /\ DOMAIN summons = 1..Len(summons) /\ DOMAIN queue = 1..Len(queue)
      /\ Len(queue) = Len(summons) + Len(more) /\ Len(more) \in Nat
  BY ConcatProperties, LenProperties DEF DealTypeOK
<1>2. \A i \in DOMAIN summons : i \in DOMAIN queue /\ queue[i] = summons[i]
  BY <1>1, GrowingQueue
<1> HIDE DEF queue
<1>3. CASE Park(queue, spoke, tally)
  <2>1. summons' = queue /\ holder' = NoOne
    BY <1>3 DEF Park, Halt
  <2>2. \A p \in Participants : Waits(p) => Waits(p)'
    BY <1>2, <2>1 DEF Waits
  <2> QED
    BY <2>1, <2>2 DEF SummonsKept, Deals
<1>4. CASE ~Parked
  <2>1. PICK k \in 0..Len(queue) :
          /\ Dropped(queue, k)
          /\ summons' = SubSeq(queue, k + 2, Len(queue))
          /\ k = Len(queue) \/ StartTurn(queue[k + 1])
    <3>1. Advance(userSpoke, queue, spoke, tally) /\ queue \in Seq(Participants)
      BY <1>1 DEF queue
    <3> QED
      BY <1>4, <3>1, AdvanceArms DEF HandsOut
  <2>2. k = 0
    BY <1>1, <2>1, NobodyIsDropped
  <2>3. CASE summons = <<>>
    BY <2>3 DEF SummonsKept, Waits
  <2>4. CASE summons # <<>>
    <3>1. Len(summons) > 0 /\ 1 \in DOMAIN summons /\ queue[1] = summons[1]
      BY <1>1, <1>2, <2>4, EmptySeq
    <3>2. summons[1] \in Participants
      BY <1>1, <3>1, ElementOfSeq
    <3>3. holder' = summons[1] /\ Deals
      BY <1>1, <2>1, <2>2, <3>1, <3>2, NoOneIsNotHere DEF StartTurn, Deals
    <3>4. ASSUME NEW p \in Participants, Waits(p), p # summons[1]
          PROVE  Waits(p)'
      <4>1. PICK i \in DOMAIN summons : summons[i] = p
        BY <3>4 DEF Waits
      <4>2. i \in 2..Len(queue) /\ queue[i] = p
        BY <1>1, <1>2, <3>4, <4>1
      <4>3. \A j \in 2..Len(queue) : queue[j] \in Participants
        BY <1>1, ElementOfSeq
      <4>4. /\ Len(SubSeq(queue, 2, Len(queue))) = Len(queue) - 1
            /\ \A j \in 1..(Len(queue) - 1) : SubSeq(queue, 2, Len(queue))[j] = queue[j + 1]
            /\ SubSeq(queue, 2, Len(queue)) \in Seq(Participants)
        BY <1>1, <4>2, <4>3, SubSeqProperties
      <4>5. i - 1 \in DOMAIN summons' /\ summons'[i - 1] = p
        BY <1>1, <2>1, <2>2, <4>2, <4>4, LenProperties
      <4> QED
        BY <4>5 DEF Waits
    <3>5. Waits(summons[1])
      BY <3>1 DEF Waits
    <3> QED
      BY <3>3, <3>4, <3>5 DEF SummonsKept
  <2> QED
    BY <2>3, <2>4
<1> QED
  BY <1>3, <1>4 DEF Advance, queue

\* A step of the ring keeps everyone who waits.
LEMMA RingStepKeepsSummons ==
  ASSUME StateInv, RosterStands, ~StorageFaults, RingStep
  PROVE  SummonsKept
<1>1. /\ DealTypeOK /\ RestTypeOK
      /\ summons \in Seq(Participants) /\ <<>> \in Seq(Participants)
  BY TypeOKParts, EmptySeq DEF StateInv, DealTypeOK
<1>2. ASSUME NEW c \in {Next1}, NEW tally \in SUBSET Participants, GoesOn(c, tally)
      PROVE  SummonsKept
  <2>1. summons \o <<>> = summons
    BY <1>1, ConcatEmptySeq
  <2>2. Advance(FALSE, summons \o <<>>, SpokeAfter(c), tally)
    BY <1>2, <2>1 DEF GoesOn
  <2> QED
    BY <1>1, <2>2, AdvanceHonoursTheQueue
<1>3. ASSUME NEW ms \in Seq(Participants), Released(ms)
      PROVE  SummonsKept
  BY <1>1, <1>3, AdvanceHonoursTheQueue DEF Released, ReleaseRing
<1>4. CASE Summoned
  <2>1. Next1.participant \in Participants
    BY <1>1, <1>4, Dispatched, CommandFields DEF Summoned
  <2>2. Append(summons, Next1.participant) = summons \o <<Next1.participant>>
    BY <1>1, <2>1, AppendIsConcat
  <2>3. Advance(FALSE, summons \o <<Next1.participant>>, spokeThisLap, votes)
    BY <1>4, <2>2 DEF Summoned
  <2>4. <<Next1.participant>> \in Seq(Participants)
    BY <2>1
  <2> QED
    BY <1>1, <2>3, <2>4, AdvanceHonoursTheQueue
<1>5. ASSUME NEW c \in {Next1}, TurnStops(c)
      PROVE  SummonsKept
  <2>1. holder' = NoOne /\ UNCHANGED summons
    BY <1>5 DEF TurnStops, CompletionConsensus, CompletionSpins, CompletionAtStage,
                YieldToUser, Halt
  <2> QED
    BY <2>1 DEF SummonsKept, Deals, Waits
<1>6. CASE Quiet
  <2>1. ~Deals
    BY <1>6 DEF Quiet, Halt, Deals
  <2>2. CASE UNCHANGED summons
    BY <2>1, <2>2 DEF SummonsKept, Waits
  <2>3. CASE Dispatches("Summon") /\ summons' = Append(summons, Next1.participant)
    <3>1. Next1.participant \in Participants
      BY <1>1, <2>3, Dispatched, CommandFields
    <3>2. summons' = summons \o <<Next1.participant>> /\ <<Next1.participant>> \in Seq(Participants)
      BY <1>1, <2>3, <3>1, AppendIsConcat
    <3>3. \A i \in DOMAIN summons : i \in DOMAIN summons' /\ summons'[i] = summons[i]
      BY <1>1, <3>2, GrowingQueue
    <3> QED
      BY <2>1, <3>3 DEF SummonsKept, Waits
  <2> QED
    BY <1>6, <2>2, <2>3 DEF Quiet
<1> QED
  BY <1>2, <1>3, <1>4, <1>5, <1>6, RingStepKinds

\* As long as storage answers, whoever is summoned goes before the rotation, in the order of the
\* summons, and no halt, gate, pause or message in between loses one (hand_to_summoned).  A read
\* that fails drops a summons, and the code says so.
THEOREM SummonsAreHonoured == ~StorageFaults => (SessionSpec => SummonsGoFirst)
<1> SUFFICES ASSUME ~StorageFaults PROVE SessionSpec => SummonsGoFirst
  OBVIOUS
<1>1. SessionInv /\ RosterStands /\ [SessionNext]_allVars => [SummonsKept]_allVars
  <2> SUFFICES ASSUME SessionInv, RosterStands, SessionNext PROVE SummonsKept
    OBVIOUS
  <2>1. CASE RingTurn
    BY <2>1, RingStepKeepsSummons DEF RingTurn, SessionInv
  <2>2. CASE UNCHANGED ringVars
    BY <2>2 DEF ringVars, SummonsKept, Deals, Waits
  <2> QED
    BY <2>1, <2>2, OthersFrame DEF SessionNext
<1>2. SummonsGoFirst <=> [][SummonsKept]_allVars
  BY DEF SummonsGoFirst, SummonsKept
<1> QED
  BY <1>1, <1>2, SessionInvariance, RosterInvariance, PTL DEF SessionSpec
=============================================================================
