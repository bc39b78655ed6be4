--------------------------- MODULE TurnRing_proofs ---------------------------
(***************************************************************************)
(* Proofs about the turn ring, for every roster, every set of gates and     *)
(* every environment: what the ring keeps true of its own state             *)
(* (RingInv), and that it implements the lease of TurnToken.                *)
(*                                                                         *)
(* A turn moves only in advance_turn, in halt and in unwind_wedged_turn, so *)
(* the lemmas of the first part say once what each of them does to the      *)
(* types and to the lease; the step of every command then cites them.       *)
(***************************************************************************)
EXTENDS TurnRing, SequenceTheorems, FiniteSetTheorems, WellFoundedInduction, TLAPS

\* The lease moves by a step of TurnToken, or not at all.
LeaseStep == [Token!TokenNext]_Token!tokenVars

\* The type invariant in two parts: what advance_turn may change, and the rest.
DealTypeOK ==
  /\ holder \in Someone
  /\ epoch \in Nat
  /\ laps \in Nat
  /\ summons \in Seq(Participants)
  /\ anchor \in Someone
  /\ spokeThisLap \in BOOLEAN
  /\ stagedPending \in BOOLEAN
  /\ drain \in {"none", "deal", "redrain"}
  /\ batch \in Nat
  /\ cell \in [Participants -> Nat]
  /\ votes \subseteq Participants
  /\ busy \subseteq Participants
  /\ haltSlot \in HaltReasons
  /\ deliveryDue \in Nat
  /\ unread \subseteq Participants

RestTypeOK ==
  /\ deferred \in Seq(Command)
  /\ held \in Seq(Command)
  /\ paused \in BOOLEAN
  /\ windingDown \in Someone
  /\ stashedRelease \in Stash
  /\ haltedPendingUser \in BOOLEAN
  /\ openGates \subseteq Gates
  /\ gateSeedFailed \in BOOLEAN
  /\ rx \in Seq(Command)
  /\ stdin \in [Participants -> Nat]
  /\ input \in [Participants -> {"none", "open", "closed"}]
  /\ enabled \subseteq Participants
  /\ latch \in BOOLEAN
  /\ gateRows \subseteq Gates

\* The release half of WindDownHasNoHolder, without the clock.
ReleaseWaits ==
  /\ windingDown # NoOne => holder = NoOne
  /\ stashedRelease.some => windingDown # NoOne

\* What every step of the ring has to establish about the turn, and about everything else.
DealKeeps == DealTypeOK' /\ DrainHasAHolder' /\ LeaseStep
RestKeeps == RestTypeOK' /\ ReleaseWaits'

\* The parts of the type invariant are all of it.
LEMMA TypeOKParts == TypeOK <=> DealTypeOK /\ RestTypeOK /\ graceArmed \in BOOLEAN
BY DEF TypeOK, RingTypeOK, WorldTypeOK, DealTypeOK, RestTypeOK
-----------------------------------------------------------------------------
(* The roster and the ring order *)

Below(S, x) == {y \in S : y < x}

\* Every nonempty part of the roster has a first participant in ring order, so CHOOSE finds
\* it: among the sets of a member's predecessors one is minimal for inclusion, and it is empty.
LEMMA SmallestIsMember ==
  ASSUME NEW S \in SUBSET Participants, S # {}
  PROVE  Smallest(S) \in S /\ \A y \in S : Smallest(S) <= y
<1> DEFINE belows == {Below(S, x) : x \in S}
<1>1. S \subseteq Nat /\ IsFiniteSet(S)
  BY RosterAssumption, FS_Subset
<1>2. belows \subseteq FiniteSubsetsOf(S) /\ belows # {}
  <2>1. FiniteSubsetsOf(S) = SUBSET S
    BY <1>1, FS_FiniteSubsetsOfFinite
  <2>2. \A x \in S : Below(S, x) \in SUBSET S
    BY DEF Below
  <2>3. belows \subseteq SUBSET S
    BY <2>2
  <2>4. belows # {}
    OBVIOUS
  <2> QED
    BY <2>1, <2>3, <2>4
<1>3. PICK T \in belows : \A U \in belows : <<U, T>> \notin StrictSubsetOrdering(S)
  <2>1. IsWellFoundedOn(StrictSubsetOrdering(S), FiniteSubsetsOf(S))
    BY FS_StrictSubsetOrderingWellFounded
  <2> HIDE DEF belows
  <2> QED
    BY <1>2, <2>1, WFMin
<1>4. PICK m \in S : T = Below(S, m)
  OBVIOUS
<1>5. ASSUME NEW y \in S, y < m
      PROVE  FALSE
  <2>1. \A x \in S : x \in Nat
    BY <1>1
  <2>2. Below(S, y) \subseteq Below(S, m)
    BY <2>1, <1>5 DEF Below
  <2>3. y \in Below(S, m) /\ y \notin Below(S, y)
    BY <2>1, <1>5 DEF Below
  <2>4. Below(S, y) \in SUBSET S /\ Below(S, m) \in SUBSET S
    BY DEF Below
  <2>5. <<Below(S, y), Below(S, m)>> \in StrictSubsetOrdering(S)
    BY <2>2, <2>3, <2>4 DEF StrictSubsetOrdering
  <2> QED
    BY <1>3, <1>4, <2>5
<1>6. \A y \in S : m <= y
  BY <1>1, <1>5
<1> QED
  BY <1>6 DEF Smallest

\* The ring step lands on somebody of the rotation, or on nobody when the rotation is empty.
LEMMA NextInRingIsSomeone ==
  ASSUME NEW ring \in SUBSET Participants, NEW current \in Someone
  PROVE  NextInRing(ring, current) \in ring \cup {NoOne}
<1> DEFINE after == {p \in ring : p > current}
<1>1. CASE ring = {}
  BY <1>1 DEF NextInRing
<1>2. CASE ring # {}
  <2>1. Smallest(ring) \in ring
    BY <1>2, SmallestIsMember
  <2>2. after # {} => Smallest(after) \in ring
    BY SmallestIsMember
  <2> QED
    BY <1>2, <2>1, <2>2 DEF NextInRing
<1> QED
  BY <1>1, <1>2
-----------------------------------------------------------------------------
(* Commands *)

\* What the type of a command says of its fields.
LEMMA CommandFields ==
  ASSUME NEW c \in Command
  PROVE  /\ c.type = "TurnComplete" => /\ c.participant \in Participants
                                       /\ c.epoch \in Nat
                                       /\ c.ending \in Endings
         /\ c.type = "UserMessage" => c.mentions \in Seq(Participants)
         /\ c.type = "HaltDeclared" => c.participant \in Someone
         /\ c.type \in {"Summon", "ParticipantJoined"} => c.participant \in Participants
         /\ c.type \in {"GateOpened", "GateResolved"} => c.gate \in Gates
BY DEF Command

\* The command at the head is a command, and taking it leaves two queues of commands.
LEMMA ReadTypes ==
  ASSUME RestTypeOK, HasCommand
  PROVE  /\ Next1 \in Command
         /\ DeferredRest \in Seq(Command)
         /\ RxRest \in Seq(Command)
<1>1. CASE Fresh
  <2>1. rx # <<>> /\ rx \in Seq(Command)
    BY <1>1 DEF HasCommand, Fresh, RestTypeOK
  <2>2. Head(rx) \in Command /\ Tail(rx) \in Seq(Command)
    BY <2>1, HeadTailProperties
  <2> QED
    BY <1>1, <2>2 DEF Next1, DeferredRest, RxRest, RestTypeOK
<1>2. CASE ~Fresh
  <2>1. deferred # <<>> /\ deferred \in Seq(Command)
    BY <1>2 DEF Fresh, RestTypeOK
  <2>2. Head(deferred) \in Command /\ Tail(deferred) \in Seq(Command)
    BY <2>1, HeadTailProperties
  <2> QED
    BY <1>2, <2>2 DEF Next1, DeferredRest, RxRest, RestTypeOK
<1> QED
  BY <1>1, <1>2
-----------------------------------------------------------------------------
(* The turn: halt, and what advance_turn does with it *)

\* NoOne is no participant: ids start at 1.
LEMMA NoOneIsNotHere == NoOne \notin Participants
BY RosterAssumption DEF NoOne

\* A step that leaves the turn and what goes with it alone.
LEMMA KeepingTheTurn ==
  ASSUME DealTypeOK, DrainHasAHolder, UNCHANGED dealVars
  PROVE  DealKeeps
<1>1. DealTypeOK' /\ DrainHasAHolder'
  BY DEF DealTypeOK, DrainHasAHolder, dealVars
<1>2. LeaseStep
  BY DEF LeaseStep, Token!tokenVars, dealVars
<1> QED
  BY <1>1, <1>2 DEF DealKeeps

\* halt() withdraws the lease.
LEMMA HaltWithdraws ==
  ASSUME Halt, UNCHANGED cell
  PROVE  LeaseStep
BY DEF Halt, LeaseStep, Token!TokenNext, Token!Withdraw

\* start_turn grants the lease, or withdraws it when the ring is empty.
LEMMA StartTurnGrants ==
  ASSUME NEW to \in Someone, StartTurn(to)
  PROVE  LeaseStep
<1>1. CASE to = NoOne
  BY <1>1 DEF StartTurn, LeaseStep, Token!TokenNext, Token!Withdraw
<1>2. CASE to # NoOne
  <2>1. to \in Participants
    BY <1>2 DEF Someone
  <2>2. Token!Grant(to)
    BY <1>2 DEF StartTurn, Token!Grant
  <2> QED
    BY <2>1, <2>2 DEF LeaseStep, Token!TokenNext
<1> QED
  BY <1>1, <1>2

\* A dealt turn is well typed, and a drain is begun only for a holder.
LEMMA StartTurnKeeps ==
  ASSUME DealTypeOK, drain = "none", NEW to \in Someone, StartTurn(to),
         laps' \in Nat, summons' \in Seq(Participants), anchor' \in Someone,
         spokeThisLap' \in BOOLEAN, votes' \in SUBSET Participants
  PROVE  DealKeeps
<1>1. LeaseStep
  BY StartTurnGrants
<1>2. CASE to = NoOne
  BY <1>1, <1>2 DEF DealKeeps, DealTypeOK, DrainHasAHolder, StartTurn, Someone
<1>3. CASE to # NoOne
  <2>1. to \in Participants
    BY <1>3 DEF Someone
  <2>2. cell' \in [Participants -> Nat] /\ busy' \subseteq Participants
    BY <1>3, <2>1 DEF DealTypeOK, StartTurn
  <2> QED
    BY <1>1, <1>3, <2>1, <2>2 DEF DealKeeps, DealTypeOK, DrainHasAHolder, StartTurn, Someone
<1> QED
  BY <1>2, <1>3

\* So is a turn that ends in a stop, whatever else the stop sets.
LEMMA HaltKeeps ==
  ASSUME DealTypeOK, drain = "none", Halt, NoDrain, UNCHANGED <<cell, busy>>,
         laps' \in Nat, summons' \in Seq(Participants), anchor' \in Someone,
         spokeThisLap' \in BOOLEAN, votes' \in SUBSET Participants,
         haltSlot' \in HaltReasons, unread' \in SUBSET Participants,
         stagedPending' \in BOOLEAN, deliveryDue' \in Nat
  PROVE  DealKeeps
<1>1. LeaseStep
  BY HaltWithdraws
<1> QED
  BY <1>1 DEF DealKeeps, DealTypeOK, DrainHasAHolder, Halt, NoDrain, Someone

\* Handing staged messages over keeps the flag a flag and the events counted.
LEMMA DeliverStagedTypes ==
  ASSUME DealTypeOK, DeliverStagedIfPending
  PROVE  stagedPending' \in BOOLEAN /\ deliveryDue' \in Nat
<1>1. stagedPending' \in BOOLEAN
  BY DEF DeliverStagedIfPending
<1>2. deliveryDue' \in {deliveryDue, deliveryDue + 1}
  BY DEF DeliverStagedIfPending
<1> QED
  BY <1>1, <1>2 DEF DealTypeOK

\* The stops the ring takes by itself.
LEMMA YieldKeeps ==
  ASSUME DealTypeOK, drain = "none", NEW reason \in HaltReasons, YieldToUser(reason),
         laps' \in Nat, summons' \in Seq(Participants), anchor' \in Someone,
         spokeThisLap' \in BOOLEAN, votes' \in SUBSET Participants,
         unread' \in SUBSET Participants
  PROVE  DealKeeps
<1>1. stagedPending' \in BOOLEAN /\ deliveryDue' \in Nat
  BY DeliverStagedTypes DEF YieldToUser
<1>2. Halt /\ NoDrain /\ UNCHANGED <<cell, busy>> /\ haltSlot' \in HaltReasons
  BY DEF YieldToUser, DeclareHostHalt
<1> QED
  BY <1>1, <1>2, HaltKeeps

\* The ring step: held, yielded or dealt.
LEMMA StepRingKeeps ==
  ASSUME DealTypeOK, drain = "none", enabled \subseteq Participants,
         NEW from \in Someone, NEW lap \in Nat, NEW spoke \in BOOLEAN,
         NEW tally \in SUBSET Participants, summons' \in Seq(Participants),
         StepRing(from, lap, spoke, tally)
  PROVE  DealKeeps
<1> DEFINE to == NextInRing(Rotation, from)
           wraps == Wraps(from, to)
           nextLap == IF wraps THEN lap + 1 ELSE lap
           allPassed == wraps /\ ~spoke
           capped == wraps /\ spoke /\ RoundCap # 0 /\ nextLap >= RoundCap
<1>1. to \in Someone
  BY NextInRingIsSomeone DEF Rotation, Someone
<1>2. nextLap \in Nat
  BY RosterAssumption, <1>1 DEF Wraps
<1>3. votes' \in SUBSET Participants
  BY DEF StepRing
<1>4. CASE /\ laps' = lap /\ spokeThisLap' = spoke
           /\ NoDrain
           /\ UNCHANGED <<holder, epoch, anchor, busy, cell, haltSlot, stagedPending,
                          deliveryDue, unread>>
  <2>1. LeaseStep
    BY <1>4 DEF LeaseStep, Token!tokenVars
  <2> QED
    BY <1>3, <1>4, <2>1 DEF DealKeeps, DealTypeOK, DrainHasAHolder, NoDrain
<1>5. CASE /\ laps' = nextLap
           /\ spokeThisLap' = IF capped THEN FALSE ELSE spoke
           /\ UNCHANGED anchor
           /\ YieldToUser(IF capped THEN "roundCap" ELSE "allPassed") /\ AnnounceYield
  <2>1. (IF capped THEN "roundCap" ELSE "allPassed") \in HaltReasons
    BY DEF HaltReasons
  <2>2. spokeThisLap' \in BOOLEAN /\ laps' \in Nat /\ anchor' \in Someone
    BY <1>2, <1>5 DEF DealTypeOK
  <2>3. unread' \in SUBSET Participants
    BY <1>5 DEF AnnounceYield
  <2> HIDE DEF capped
  <2> QED
    BY <1>3, <1>5, <2>1, <2>2, <2>3, YieldKeeps
<1>6. CASE /\ laps' = nextLap
           /\ spokeThisLap' = (spoke /\ ~wraps)
           /\ anchor' = to
           /\ StartTurn(to)
  <2>1. spokeThisLap' \in BOOLEAN /\ laps' \in Nat /\ anchor' \in Someone
    BY <1>1, <1>2, <1>6
  <2> HIDE DEF to
  <2> QED
    BY <1>1, <1>3, <1>6, <2>1, StartTurnKeeps
<1> QED
  BY <1>4, <1>5, <1>6 DEF StepRing

\* advance_turn, from any queue, tally and lap flag its callers pass it.
LEMMA AdvanceKeeps ==
  ASSUME DealTypeOK, drain = "none", enabled \subseteq Participants,
         NEW userSpoke \in BOOLEAN, NEW queue \in Seq(Participants),
         NEW spoke \in BOOLEAN, NEW tally \in SUBSET Participants,
         Advance(userSpoke, queue, spoke, tally)
  PROVE  DealKeeps
<1>1. CASE Park(queue, spoke, tally)
  BY <1>1, HaltKeeps DEF Park, DealTypeOK
<1>2. CASE ~Parked
  <2>1. PICK k \in 0..Len(queue), clearFails \in MayFail :
          LET restart == userSpoke /\ queue = <<>>
              from == IF restart THEN NoOne ELSE anchor
              newStretch == userSpoke \/ from = NoOne
              lap == IF newStretch THEN 0 ELSE laps
              cleared == IF newStretch /\ ~clearFails THEN {} ELSE tally
          IN
          /\ summons' = SubSeq(queue, k + 2, Len(queue))
          /\ \/ /\ k < Len(queue)
                /\ laps' = lap /\ votes' = cleared
                /\ spokeThisLap' = spoke /\ UNCHANGED anchor
                /\ StartTurn(queue[k + 1])
             \/ /\ k = Len(queue)
                /\ StepRing(from, lap, spoke, cleared)
    BY <1>2 DEF Advance
  <2> DEFINE from == IF userSpoke /\ queue = <<>> THEN NoOne ELSE anchor
             newStretch == userSpoke \/ from = NoOne
             lap == IF newStretch THEN 0 ELSE laps
             cleared == IF newStretch /\ ~clearFails THEN {} ELSE tally
  <2>2. from \in Someone /\ lap \in Nat /\ cleared \in SUBSET Participants
    BY DEF DealTypeOK, Someone
  <2>3. Len(queue) \in Nat /\ k \in Nat
    BY LenProperties
  <2>4. summons' \in Seq(Participants)
    <3>1. \A i \in (k + 2)..Len(queue) : queue[i] \in Participants
      BY <2>3, ElementOfSeq
    <3> QED
      BY <2>1, <2>3, <3>1, SubSeqProperties
  <2>5. CASE /\ k < Len(queue)
             /\ laps' = lap /\ votes' = cleared
             /\ spokeThisLap' = spoke /\ UNCHANGED anchor
             /\ StartTurn(queue[k + 1])
    <3>1. queue[k + 1] \in Someone
      BY <2>3, <2>5, ElementOfSeq DEF Someone
    <3>2. anchor' \in Someone
      BY <2>5 DEF DealTypeOK
    <3> QED
      BY <2>2, <2>4, <2>5, <3>1, <3>2, StartTurnKeeps
  <2>6. CASE StepRing(from, lap, spoke, cleared)
    <3> HIDE DEF from, lap, cleared
    <3> QED
      BY <2>2, <2>4, <2>6, StepRingKeeps
  <2> QED
    BY <2>1, <2>5, <2>6
<1> QED
  BY <1>1, <1>2 DEF Advance

\* reseed_gates_if_needed keeps the gate latch over gates.
LEMMA ReseedTypes ==
  ASSUME RestTypeOK, ReseedGates
  PROVE  openGates' \in SUBSET Gates /\ gateSeedFailed' \in BOOLEAN
BY DEF RestTypeOK, ReseedGates

\* release_ring.
LEMMA ReleaseKeeps ==
  ASSUME DealTypeOK, RestTypeOK, drain = "none", NEW mentions \in Seq(Participants),
         ReleaseRing(mentions)
  PROVE  /\ DealKeeps
         /\ haltedPendingUser' = FALSE
         /\ openGates' \in SUBSET Gates
         /\ gateSeedFailed' \in BOOLEAN
<1>1. summons \o mentions \in Seq(Participants)
  BY ConcatProperties DEF DealTypeOK
<1>2. Advance(TRUE, summons \o mentions, spokeThisLap, votes)
  BY DEF ReleaseRing
<1>3. spokeThisLap \in BOOLEAN /\ votes \in SUBSET Participants /\ enabled \subseteq Participants
  BY DEF DealTypeOK, RestTypeOK
<1>4. DealKeeps
  BY <1>1, <1>2, <1>3, AdvanceKeeps
<1> QED
  BY <1>4, ReseedTypes DEF ReleaseRing
-----------------------------------------------------------------------------
(* The commands *)

\* A stashed release is a list of mentions.
LEMMA StashFields ==
  ASSUME RestTypeOK
  PROVE  stashedRelease.some \in BOOLEAN /\ stashedRelease.mentions \in Seq(Participants)
BY DEF RestTypeOK, Stash

LEMMA NoStashTypes == NoStash \in Stash /\ NoStash.some = FALSE
<1>1. <<>> \in Seq(Participants)
  BY EmptySeq
<1> QED
  BY <1>1 DEF NoStash, Stash

\* A command that reached its arm was read off one of the two queues between two drains.
LEMMA Dispatched ==
  ASSUME RestTypeOK, NEW type, Dispatches(type)
  PROVE  /\ drain = "none"
         /\ Next1 \in Command /\ Next1.type = type
         /\ DeferredRest \in Seq(Command) /\ RxRest \in Seq(Command)
BY ReadTypes DEF Dispatches, HasCommand

\* The vote of a completion leaves a tally of participants.
LEMMA TallyTypes ==
  ASSUME DealTypeOK, NEW p \in Participants, NEW ending \in Endings
  PROVE  Tally(p, ending) \in SUBSET Participants
BY DEF DealTypeOK, Tally, Endings

\* What a live completion leaves behind it, and that no release was waiting for one.
LEMMA LiveCompletionKeeps ==
  ASSUME DealTypeOK, RestTypeOK, ReleaseWaits, NEW c, LiveCompletion(c)
  PROVE  /\ drain = "none"
         /\ c \in Command /\ c.participant \in Participants /\ c.ending \in Endings
         /\ RxRest \in Seq(Command)
         /\ SpokeAfter(c) \in BOOLEAN
         /\ Tally(c.participant, c.ending) \in SUBSET Participants
         /\ ReleaseWaits'
         /\ openGates' \subseteq Gates /\ gateSeedFailed' \in BOOLEAN
              /\ rx' \in Seq(Command) => RestTypeOK'
<1>1. /\ drain = "none" /\ c = Next1 /\ Next1 \in Command /\ Next1.type = "TurnComplete"
      /\ DeferredRest \in Seq(Command) /\ RxRest \in Seq(Command)
  BY Dispatched DEF LiveCompletion
<1>2. c.participant \in Participants /\ c.ending \in Endings
  BY <1>1, CommandFields
<1>3. Tally(c.participant, c.ending) \in SUBSET Participants
  BY <1>2, TallyTypes
<1>4. windingDown = NoOne /\ windingDown' = NoOne /\ ~stashedRelease.some
  <2>1. holder # NoOne
    BY <1>2, NoOneIsNotHere DEF LiveCompletion, Live
  <2>2. windingDown = NoOne
    BY <2>1 DEF ReleaseWaits
  <2>3. windingDown' = NoOne
    BY <2>2 DEF LiveCompletion, ClearWindDown
  <2> QED
    BY <2>2, <2>3 DEF ReleaseWaits
<1>5. ReleaseWaits'
  BY <1>4 DEF LiveCompletion, ReleaseWaits
<1>6. openGates' \subseteq Gates /\ gateSeedFailed' \in BOOLEAN
        /\ rx' \in Seq(Command) => RestTypeOK'
  BY <1>1, <1>4 DEF LiveCompletion, RestTypeOK, pauseVars, deliveryVars, worldVars, Someone
<1>7. SpokeAfter(c) \in BOOLEAN
  BY DEF SpokeAfter
<1> QED
  BY <1>1, <1>2, <1>3, <1>5, <1>6, <1>7

\* The answer to the vote is the tally with it or without it.
LEMMA NoArrivalTypes ==
  ASSUME DealTypeOK, NEW c, Tally(c.participant, c.ending) \in SUBSET Participants,
         NEW tally, NoArrival(c, tally)
  PROVE  tally \in SUBSET Participants
BY DEF NoArrival, DealTypeOK

\* Every way a completion is answered.
LEMMA CompletionKeeps ==
  ASSUME DealTypeOK, RestTypeOK, DrainHasAHolder, ReleaseWaits, NEW c,
         \/ CompletionConsensus(c) \/ CompletionSpins(c) \/ CompletionAtStage(c)
         \/ CompletionSteps(c) \/ CompletionDiscarded(c) \/ CompletionReplays(c)
  PROVE  DealKeeps /\ RestKeeps
<1>1. CASE CompletionConsensus(c)
  <2>1. LiveCompletion(c)
    BY <1>1 DEF CompletionConsensus
  <2>2. RestKeeps
    BY <1>1, <2>1, LiveCompletionKeeps
       DEF CompletionConsensus, RestKeeps, gateVars, RestTypeOK
  <2>3. /\ laps' \in Nat /\ summons' \in Seq(Participants) /\ anchor' \in Someone
        /\ spokeThisLap' \in BOOLEAN /\ votes' \in SUBSET Participants
        /\ unread' \in SUBSET Participants
    BY <1>1, <2>1, LiveCompletionKeeps DEF CompletionConsensus, DealTypeOK
  <2>4. "consensus" \in HaltReasons /\ YieldToUser("consensus")
    BY <1>1 DEF CompletionConsensus, HaltReasons
  <2> QED
    BY <2>1, <2>2, <2>3, <2>4, YieldKeeps, LiveCompletionKeeps
<1>2. CASE CompletionSpins(c)
  <2>1. LiveCompletion(c)
    BY <1>2 DEF CompletionSpins
  <2>2. RxRest \in Seq(Command) /\ c.participant \in Participants
    BY <2>1, LiveCompletionKeeps
  <2>3. rx' \in Seq(Command)
    <3>1. [type |-> "HaltDeclared", participant |-> c.participant] \in Command
      BY <2>2 DEF Command, Someone
    <3> QED
      BY <1>2, <2>2, <3>1, AppendProperties DEF CompletionSpins
  <2>4. RestKeeps
    BY <1>2, <2>1, <2>3, LiveCompletionKeeps
       DEF CompletionSpins, RestKeeps, gateVars, RestTypeOK
  <2>5. votes' \in SUBSET Participants
    BY <1>2, <2>1, LiveCompletionKeeps, NoArrivalTypes DEF CompletionSpins
  <2>6. /\ laps' \in Nat /\ summons' \in Seq(Participants) /\ anchor' \in Someone
        /\ spokeThisLap' \in BOOLEAN /\ unread' \in SUBSET Participants
    BY <1>2, <2>1, LiveCompletionKeeps DEF CompletionSpins, DealTypeOK
  <2>7. "participant" \in HaltReasons /\ YieldToUser("participant")
    BY <1>2 DEF CompletionSpins, HaltReasons
  <2> QED
    BY <2>1, <2>4, <2>5, <2>6, <2>7, YieldKeeps, LiveCompletionKeeps
<1>3. CASE CompletionAtStage(c)
  <2>1. LiveCompletion(c)
    BY <1>3 DEF CompletionAtStage
  <2>2. RestKeeps
    BY <1>3, <2>1, LiveCompletionKeeps
       DEF CompletionAtStage, RestKeeps, gateVars, RestTypeOK
  <2>3. votes' \in SUBSET Participants
    BY <1>3, <2>1, LiveCompletionKeeps, NoArrivalTypes DEF CompletionAtStage
  <2>4. /\ laps' \in Nat /\ summons' \in Seq(Participants) /\ anchor' \in Someone
        /\ spokeThisLap' \in BOOLEAN /\ unread' \in SUBSET Participants
        /\ haltSlot' \in HaltReasons
    BY <1>3, <2>1, LiveCompletionKeeps DEF CompletionAtStage, DealTypeOK
  <2>5. Halt /\ NoDrain /\ UNCHANGED <<cell, busy>> /\ DeliverStagedIfPending
    BY <1>3 DEF CompletionAtStage
  <2> QED
    BY <2>1, <2>2, <2>3, <2>4, <2>5, HaltKeeps, DeliverStagedTypes, LiveCompletionKeeps
<1>4. CASE CompletionSteps(c)
  <2>1. LiveCompletion(c) /\ ReseedGates /\ rx' = RxRest
    BY <1>4 DEF CompletionSteps
  <2>2. RestKeeps
    BY <2>1, LiveCompletionKeeps, ReseedTypes DEF RestKeeps
  <2>3. PICK tally \in SUBSET Participants : Advance(FALSE, summons, SpokeAfter(c), tally)
    BY <1>4 DEF CompletionSteps
  <2>4. summons \in Seq(Participants) /\ enabled \subseteq Participants
    BY DEF DealTypeOK, RestTypeOK
  <2> QED
    BY <2>1, <2>2, <2>3, <2>4, AdvanceKeeps, LiveCompletionKeeps
<1>5. CASE CompletionDiscarded(c)
  <2>1. DealKeeps
    BY <1>5, KeepingTheTurn DEF CompletionDiscarded
  <2>2. DeferredRest \in Seq(Command) /\ RxRest \in Seq(Command)
    BY <1>5, Dispatched DEF CompletionDiscarded
  <2>3. RestTypeOK'
    BY <1>5, <2>2
       DEF CompletionDiscarded, Consume, ClearWindDown, RestTypeOK, pauseVars, gateVars,
           deliveryVars, worldVars, Someone
  <2>4. ReleaseWaits'
    BY <1>5 DEF CompletionDiscarded, ClearWindDown, ReleaseWaits, dealVars
  <2> QED
    BY <2>1, <2>3, <2>4 DEF RestKeeps
<1>6. CASE CompletionReplays(c)
  <2>1. /\ drain = "none"
        /\ DeferredRest \in Seq(Command) /\ RxRest \in Seq(Command)
    BY <1>6, Dispatched DEF CompletionReplays
  <2>2. stashedRelease.mentions \in Seq(Participants)
    BY StashFields
  <2>3. /\ DealKeeps /\ haltedPendingUser' = FALSE
        /\ openGates' \in SUBSET Gates /\ gateSeedFailed' \in BOOLEAN
    BY <1>6, <2>1, <2>2, ReleaseKeeps DEF CompletionReplays
  <2>4. RestTypeOK'
    BY <1>6, <2>1, <2>3, NoStashTypes
       DEF CompletionReplays, Consume, RestTypeOK, pauseVars, deliveryVars, worldVars, Someone
  <2>5. ReleaseWaits'
    BY <1>6, NoStashTypes DEF CompletionReplays, ReleaseWaits
  <2> QED
    BY <2>3, <2>4, <2>5 DEF RestKeeps
<1> QED
  BY <1>1, <1>2, <1>3, <1>4, <1>5, <1>6

\* A command that only moves between queues, or sets a flag of its own.
LEMMA QueueingKeeps ==
  ASSUME DealTypeOK, RestTypeOK, DrainHasAHolder, ReleaseWaits,
         UserSteers \/ HoldForPause \/ GateResolved \/ Pause \/ GraceHolds
  PROVE  DealKeeps /\ RestKeeps
<1>1. DealKeeps
  BY KeepingTheTurn DEF UserSteers, HoldForPause, GateResolved, Pause, GraceHolds
<1>2. ReleaseWaits'
  BY DEF UserSteers, HoldForPause, GateResolved, Pause, GraceHolds, ReleaseWaits, dealVars,
         releaseVars
<1>3. CASE UserSteers
  <2>1. Append(held, Next1) \in Seq(Command) /\ RxRest \in Seq(Command)
    BY <1>3, ReadTypes, AppendProperties DEF UserSteers, RestTypeOK
  <2> QED
    BY <1>1, <1>2, <1>3, <2>1, EmptySeq
       DEF UserSteers, RestKeeps, RestTypeOK, releaseVars, gateVars, deliveryVars, worldVars
<1>4. CASE HoldForPause
  <2>1. Append(held, Next1) \in Seq(Command) /\ RxRest \in Seq(Command)
        /\ DeferredRest \in Seq(Command)
    BY <1>4, ReadTypes, AppendProperties DEF HoldForPause, RestTypeOK
  <2> QED
    BY <1>1, <1>2, <1>4, <2>1
       DEF HoldForPause, Consume, RestKeeps, RestTypeOK, releaseVars, gateVars, deliveryVars,
           worldVars
<1>5. CASE GateResolved
  <2>1. RxRest \in Seq(Command) /\ DeferredRest \in Seq(Command)
    BY <1>5, Dispatched DEF GateResolved
  <2> QED
    BY <1>1, <1>2, <1>5, <2>1
       DEF GateResolved, Consume, RestKeeps, RestTypeOK, pauseVars, releaseVars, deliveryVars,
           worldVars
<1>6. CASE Pause
  <2>1. RxRest \in Seq(Command) /\ DeferredRest \in Seq(Command)
    BY <1>6, Dispatched DEF Pause
  <2> QED
    BY <1>1, <1>2, <1>6, <2>1
       DEF Pause, Consume, RestKeeps, RestTypeOK, releaseVars, gateVars, deliveryVars, worldVars
<1>7. CASE GraceHolds
  BY <1>1, <1>2, <1>7
     DEF GraceHolds, RestKeeps, RestTypeOK, pauseVars, releaseVars, gateVars, deliveryVars,
         worldVars
<1> QED
  BY <1>3, <1>4, <1>5, <1>6, <1>7

\* The user's release: held back for the halted holder, or dealt now or at the grace.
LEMMA ReleasingKeeps ==
  ASSUME DealTypeOK, RestTypeOK, DrainHasAHolder, ReleaseWaits,
         UserMessageStashed \/ UserMessageReleases \/ GraceExpires
  PROVE  DealKeeps /\ RestKeeps
<1>1. CASE UserMessageStashed
  <2>1. /\ Next1.mentions \in Seq(Participants)
        /\ RxRest \in Seq(Command) /\ DeferredRest \in Seq(Command)
    BY <1>1, Dispatched, CommandFields DEF UserMessageStashed
  <2>2. stashedRelease' \in Stash /\ stashedRelease'.some
    <3>1. stashedRelease.mentions \o Next1.mentions \in Seq(Participants)
      BY <2>1, StashFields, ConcatProperties
    <3> QED
      BY <1>1, <3>1 DEF UserMessageStashed, Stash
  <2>3. DealKeeps
    BY <1>1, KeepingTheTurn DEF UserMessageStashed
  <2>4. RestTypeOK'
    BY <1>1, <2>1, <2>2
       DEF UserMessageStashed, Consume, RestTypeOK, pauseVars, gateVars, deliveryVars, worldVars
  <2>5. ReleaseWaits'
    BY <1>1 DEF UserMessageStashed, ReleaseWaits, dealVars
  <2> QED
    BY <2>3, <2>4, <2>5 DEF RestKeeps
<1>2. CASE UserMessageReleases
  <2>1. /\ drain = "none" /\ Next1.mentions \in Seq(Participants)
        /\ RxRest \in Seq(Command) /\ DeferredRest \in Seq(Command)
    BY <1>2, Dispatched, CommandFields DEF UserMessageReleases
  <2>2. /\ DealKeeps /\ haltedPendingUser' = FALSE
        /\ openGates' \in SUBSET Gates /\ gateSeedFailed' \in BOOLEAN
    BY <1>2, <2>1, ReleaseKeeps DEF UserMessageReleases
  <2>3. RestTypeOK'
    BY <1>2, <2>1, <2>2
       DEF UserMessageReleases, Consume, RestTypeOK, pauseVars, releaseVars, deliveryVars,
           worldVars
  <2>4. ReleaseWaits'
    BY <1>2 DEF UserMessageReleases, ReleaseWaits, releaseVars
  <2> QED
    BY <2>2, <2>3, <2>4 DEF RestKeeps
<1>3. CASE GraceExpires
  <2>1. /\ DealKeeps /\ haltedPendingUser' = FALSE
        /\ openGates' \in SUBSET Gates /\ gateSeedFailed' \in BOOLEAN
    BY <1>3, StashFields, ReleaseKeeps DEF GraceExpires
  <2>2. RestTypeOK'
    BY <1>3, <2>1, NoStashTypes
       DEF GraceExpires, RestTypeOK, pauseVars, deliveryVars, worldVars, Someone
  <2>3. ReleaseWaits'
    BY <1>3, NoStashTypes DEF GraceExpires, ReleaseWaits
  <2> QED
    BY <2>1, <2>2, <2>3 DEF RestKeeps
<1> QED
  BY <1>1, <1>2, <1>3

\* The staging commands touch the flag and the events alone.
LEMMA StagingKeeps ==
  ASSUME DealTypeOK, RestTypeOK, DrainHasAHolder, ReleaseWaits,
         MessageStaged \/ MessageUnstaged
  PROVE  DealKeeps /\ RestKeeps
<1>1. /\ UNCHANGED <<holder, epoch, laps, summons, anchor, spokeThisLap, cell, votes, busy,
                     haltSlot, unread, pauseVars, releaseVars, gateVars, haltedPendingUser,
                     deliveryVars, worldVars>>
      /\ NoDrain /\ Consume
  BY DEF MessageStaged, MessageUnstaged
<1>2. RxRest \in Seq(Command) /\ DeferredRest \in Seq(Command)
  BY Dispatched DEF MessageStaged, MessageUnstaged
<1>3. stagedPending' \in BOOLEAN /\ deliveryDue' \in Nat
  <2>1. deliveryDue' \in {deliveryDue, deliveryDue + 1}
    BY DEF MessageStaged, MessageUnstaged
  <2>2. stagedPending' = TRUE \/ stagedPending' = FALSE \/ UNCHANGED stagedPending
    BY DEF MessageStaged, MessageUnstaged
  <2>3. stagedPending' \in BOOLEAN
    BY <2>2, Zenon DEF DealTypeOK
  <2> QED
    BY <2>1, <2>3 DEF DealTypeOK
<1>4. DealKeeps
  <2>1. LeaseStep
    BY <1>1 DEF LeaseStep, Token!tokenVars
  <2> QED
    BY <1>1, <1>3, <2>1 DEF DealKeeps, DealTypeOK, DrainHasAHolder, NoDrain
<1>5. RestKeeps
  BY <1>1, <1>2
     DEF RestKeeps, RestTypeOK, ReleaseWaits, Consume, pauseVars, releaseVars, gateVars,
         deliveryVars, worldVars
<1> QED
  BY <1>4, <1>5

\* A halt: of the holder it ends the turn and awaits the completion, of nobody's turn it moves
\* the epoch, of another's it leaves the turn in flight.
LEMMA HaltDeclaredKeeps ==
  ASSUME DealTypeOK, RestTypeOK, DrainHasAHolder, ReleaseWaits, HaltDeclared
  PROVE  DealKeeps /\ RestKeeps
<1> DEFINE declarer == Next1.participant
           ends == holder # NoOne /\ holder = declarer
<1>1. /\ drain = "none" /\ declarer \in Someone
      /\ RxRest \in Seq(Command) /\ DeferredRest \in Seq(Command)
  BY Dispatched, CommandFields DEF HaltDeclared
<1>2. openGates' \in SUBSET Gates /\ gateSeedFailed' \in BOOLEAN
  <2>1. CASE ends
    BY <2>1, ReseedTypes DEF HaltDeclared
  <2>2. CASE ~ends
    BY <2>2 DEF HaltDeclared, RestTypeOK, gateVars
  <2> QED
    BY <2>1, <2>2
<1>3. DealKeeps
  <2>1. /\ laps' \in Nat /\ summons' \in Seq(Participants) /\ anchor' \in Someone
        /\ spokeThisLap' \in BOOLEAN /\ votes' \in SUBSET Participants
        /\ haltSlot' \in HaltReasons /\ unread' \in SUBSET Participants
        /\ NoDrain /\ UNCHANGED <<cell, busy>> /\ DeliverStagedIfPending
    BY DEF HaltDeclared, DealTypeOK
  <2>2. CASE Halt
    BY <1>1, <2>1, <2>2, HaltKeeps, DeliverStagedTypes
  <2>3. CASE UNCHANGED <<holder, epoch>>
    <3>1. LeaseStep
      BY <2>1, <2>3 DEF LeaseStep, Token!tokenVars
    <3>2. stagedPending' \in BOOLEAN /\ deliveryDue' \in Nat
      BY <2>1, DeliverStagedTypes
    <3> QED
      BY <2>1, <2>3, <3>1, <3>2 DEF DealKeeps, DealTypeOK, DrainHasAHolder, NoDrain
  <2> QED
    BY <2>2, <2>3 DEF HaltDeclared
<1>4. RestTypeOK'
  BY <1>1, <1>2
     DEF HaltDeclared, Consume, RestTypeOK, pauseVars, deliveryVars, worldVars
<1>5. ReleaseWaits'
  BY DEF HaltDeclared, Halt, ReleaseWaits
<1> QED
  BY <1>3, <1>4, <1>5 DEF RestKeeps

\* A gate opened in nobody's turn moves the epoch.
LEMMA GateOpenedKeeps ==
  ASSUME DealTypeOK, RestTypeOK, DrainHasAHolder, ReleaseWaits, GateOpened
  PROVE  DealKeeps /\ RestKeeps
<1>1. /\ drain = "none" /\ Next1.gate \in Gates
      /\ RxRest \in Seq(Command) /\ DeferredRest \in Seq(Command)
  BY Dispatched, CommandFields DEF GateOpened
<1>2. DealKeeps
  <2>1. CASE Halt
    BY <1>1, <2>1, HaltKeeps DEF GateOpened, DealTypeOK
  <2>2. CASE UNCHANGED <<holder, epoch>>
    BY <2>2, KeepingTheTurn DEF GateOpened, dealVars, NoDrain
  <2> QED
    BY <2>1, <2>2 DEF GateOpened
<1>3. RestTypeOK'
  BY <1>1
     DEF GateOpened, Consume, RestTypeOK, pauseVars, releaseVars, deliveryVars, worldVars
<1>4. ReleaseWaits'
  BY DEF GateOpened, Halt, ReleaseWaits, releaseVars
<1> QED
  BY <1>2, <1>3, <1>4 DEF RestKeeps

\* A retry wake is queued, and dealt when nobody has the turn and none is winding down.
LEMMA SummonKeeps ==
  ASSUME DealTypeOK, RestTypeOK, DrainHasAHolder, ReleaseWaits, Summon
  PROVE  DealKeeps /\ RestKeeps
<1>1. /\ drain = "none" /\ Next1.participant \in Participants
      /\ RxRest \in Seq(Command) /\ DeferredRest \in Seq(Command)
  BY Dispatched, CommandFields DEF Summon
<1>2. Append(summons, Next1.participant) \in Seq(Participants)
  BY <1>1, AppendProperties DEF DealTypeOK
<1>3. CASE holder = NoOne /\ windingDown = NoOne
  <2>1. /\ ReseedGates /\ UNCHANGED haltedPendingUser
        /\ Advance(FALSE, Append(summons, Next1.participant), spokeThisLap, votes)
    BY <1>3 DEF Summon
  <2>2. /\ spokeThisLap \in BOOLEAN /\ votes \in SUBSET Participants
        /\ enabled \subseteq Participants
    BY DEF DealTypeOK, RestTypeOK
  <2>3. DealKeeps
    BY <1>1, <1>2, <2>1, <2>2, AdvanceKeeps
  <2>4. openGates' \in SUBSET Gates /\ gateSeedFailed' \in BOOLEAN
    BY <2>1, ReseedTypes
  <2>5. RestTypeOK'
    BY <1>1, <2>1, <2>4
       DEF Summon, Consume, RestTypeOK, pauseVars, releaseVars, deliveryVars, worldVars
  <2>6. ReleaseWaits'
    BY <1>3 DEF Summon, ReleaseWaits, releaseVars
  <2> QED
    BY <2>3, <2>5, <2>6 DEF RestKeeps
<1>4. CASE ~(holder = NoOne /\ windingDown = NoOne)
  <2>1. /\ summons' = Append(summons, Next1.participant) /\ NoDrain
        /\ UNCHANGED <<holder, epoch, laps, anchor, spokeThisLap, stagedPending, cell, votes,
                       busy, haltSlot, deliveryDue, unread, gateVars, haltedPendingUser>>
    BY <1>4 DEF Summon
  <2>2. LeaseStep
    BY <2>1 DEF LeaseStep, Token!tokenVars
  <2>3. DealKeeps
    BY <1>2, <2>1, <2>2 DEF DealKeeps, DealTypeOK, DrainHasAHolder, NoDrain
  <2>4. RestKeeps
    BY <1>1, <2>1
       DEF Summon, Consume, RestKeeps, RestTypeOK, ReleaseWaits, gateVars, pauseVars,
           releaseVars, deliveryVars, worldVars
  <2> QED
    BY <2>3, <2>4
<1> QED
  BY <1>3, <1>4

\* A drain is begun for the holder, if there is one.
LEMMA BeginDrainKeeps ==
  ASSUME DealTypeOK, NEW kind \in {"deal", "redrain"}, BeginDrain(kind),
         UNCHANGED <<holder, epoch, laps, summons, anchor, spokeThisLap, stagedPending, cell,
                     votes, busy, haltSlot, deliveryDue, unread>>
  PROVE  DealKeeps
<1>1. LeaseStep
  BY DEF LeaseStep, Token!tokenVars
<1> QED
  BY <1>1 DEF DealKeeps, DealTypeOK, DrainHasAHolder, BeginDrain

\* The resume replays the queue the pause held.
LEMMA ResumeKeeps ==
  ASSUME DealTypeOK, RestTypeOK, DrainHasAHolder, ReleaseWaits, Resume
  PROVE  DealKeeps /\ RestKeeps
<1>1. RxRest \in Seq(Command) /\ DeferredRest \in Seq(Command)
  BY Dispatched DEF Resume
<1>2. held \o DeferredRest \in Seq(Command) /\ <<>> \in Seq(Command)
  BY <1>1, ConcatProperties, EmptySeq DEF RestTypeOK
<1>3. DealKeeps
  BY BeginDrainKeeps DEF Resume
<1>4. RestKeeps
  BY <1>1, <1>2
     DEF Resume, RestKeeps, RestTypeOK, ReleaseWaits, gateVars, releaseVars, deliveryVars,
         worldVars
<1> QED
  BY <1>3, <1>4

\* A fresh stdin feeds the holder, or ends the wait for the halted one.
LEMMA ParticipantJoinedKeeps ==
  ASSUME DealTypeOK, RestTypeOK, DrainHasAHolder, ReleaseWaits, ParticipantJoined
  PROVE  DealKeeps /\ RestKeeps
<1> DEFINE p == Next1.participant
           replays == windingDown = p /\ stashedRelease.some
<1>1. /\ drain = "none" /\ p \in Participants
      /\ RxRest \in Seq(Command) /\ DeferredRest \in Seq(Command)
  BY Dispatched, CommandFields DEF ParticipantJoined
<1>2. /\ input' \in [Participants -> {"none", "open", "closed"}]
      /\ windingDown' \in Someone
  BY <1>1 DEF ParticipantJoined, RestTypeOK, Someone
<1>3. CASE replays
  <2>1. stashedRelease' = NoStash /\ ReleaseRing(stashedRelease.mentions)
    BY <1>3 DEF ParticipantJoined
  <2>2. /\ DealKeeps /\ haltedPendingUser' = FALSE
        /\ openGates' \in SUBSET Gates /\ gateSeedFailed' \in BOOLEAN
    BY <1>1, <2>1, StashFields, ReleaseKeeps
  <2>3. RestTypeOK'
    BY <1>1, <1>2, <2>1, <2>2, NoStashTypes
       DEF ParticipantJoined, Consume, RestTypeOK, pauseVars, worldVars
  <2>4. ReleaseWaits'
    BY <1>3, <2>1, NoStashTypes DEF ParticipantJoined, ReleaseWaits
  <2> QED
    BY <2>2, <2>3, <2>4 DEF RestKeeps
<1>4. CASE ~replays
  <2>1. /\ IF holder = p THEN BeginDrain("deal") ELSE NoDrain
        /\ UNCHANGED <<holder, epoch, laps, summons, anchor, spokeThisLap, stagedPending, cell,
                       votes, busy, haltSlot, deliveryDue, unread, gateVars, stashedRelease,
                       haltedPendingUser>>
    BY <1>4 DEF ParticipantJoined
  <2>2. DealKeeps
    <3>1. CASE holder = p
      BY <2>1, <3>1, BeginDrainKeeps
    <3>2. CASE holder # p
      BY <2>1, <3>2, KeepingTheTurn DEF dealVars, NoDrain
    <3> QED
      BY <3>1, <3>2
  <2>3. RestTypeOK'
    BY <1>1, <1>2, <2>1
       DEF ParticipantJoined, Consume, RestTypeOK, gateVars, pauseVars, worldVars
  <2>4. ReleaseWaits'
    BY <1>4, <2>1 DEF ParticipantJoined, ReleaseWaits
  <2> QED
    BY <2>2, <2>3, <2>4 DEF RestKeeps
<1> QED
  BY <1>3, <1>4
-----------------------------------------------------------------------------
(* The drain *)

\* A participant's rows: the drain has a holder to feed.
LEMMA DrainFeedsSomeone ==
  ASSUME DealTypeOK, DrainHasAHolder, drain # "none"
  PROVE  holder \in Participants
BY DEF DealTypeOK, DrainHasAHolder, Someone

\* What every way through the drain leaves alone.
LEMMA DrainFrame ==
  ASSUME RestTypeOK, ReleaseWaits, UNCHANGED drainKeeps,
         holder' = holder \/ holder' = NoOne,
         deferred' \in Seq(Command), rx' \in Seq(Command),
         stdin' \in [Participants -> Nat]
  PROVE  RestKeeps
<1>1. UNCHANGED <<held, paused, windingDown, stashedRelease, haltedPendingUser, openGates,
                  gateSeedFailed, input, enabled, latch, gateRows>>
  BY DEF drainKeeps, pauseVars, releaseVars, gateVars, worldVars
<1> QED
  BY <1>1 DEF RestKeeps, RestTypeOK, ReleaseWaits

\* The turn goes on: the pages move and the drain ends or stays.
LEMMA DrainKeepsTheTurn ==
  ASSUME DealTypeOK, DrainHasAHolder, UNCHANGED drainKeeps,
         UNCHANGED <<holder, epoch, haltSlot>>,
         drain' = drain \/ drain' = "none", batch' \in Nat,
         busy' \in SUBSET Participants, unread' \in SUBSET Participants
  PROVE  DealKeeps
<1>1. UNCHANGED <<laps, summons, anchor, spokeThisLap, stagedPending, votes, cell, deliveryDue>>
  BY DEF drainKeeps
<1>2. LeaseStep
  BY <1>1 DEF LeaseStep, Token!tokenVars
<1> QED
  BY <1>1, <1>2 DEF DealKeeps, DealTypeOK, DrainHasAHolder

\* unwind_wedged_turn withdraws the lease and stops the drain.
LEMMA UnwindKeeps ==
  ASSUME DealTypeOK, RestTypeOK, ReleaseWaits, UnwindWedgedTurn
  PROVE  DealKeeps /\ RestKeeps
<1>1. UNCHANGED <<laps, summons, anchor, spokeThisLap, stagedPending, votes, cell, deliveryDue,
                  unread>>
  BY DEF UnwindWedgedTurn, drainKeeps
<1>2. LeaseStep
  BY <1>1, HaltWithdraws DEF UnwindWedgedTurn
<1>3. DealKeeps
  BY <1>1, <1>2
     DEF UnwindWedgedTurn, Halt, DeclareHostHalt, EndDrain, DealKeeps, DealTypeOK,
         DrainHasAHolder, Someone, HaltReasons
<1>4. RestKeeps
  BY DrainFrame DEF UnwindWedgedTurn, Halt, RestTypeOK
<1> QED
  BY <1>3, <1>4

\* Every way through the drain.
LEMMA DrainKeeps ==
  ASSUME DealTypeOK, RestTypeOK, DrainHasAHolder, ReleaseWaits, Drain
  PROVE  DealKeeps /\ RestKeeps
<1>1. holder \in Participants
  BY DrainFeedsSomeone
     DEF Drain, DrainNoInput, DrainReadFails, DrainEmpty, DrainReadsCommand, DrainLands,
         DrainUnreachable, Drains
<1>2. CASE DrainReadFails \/ DrainUnreachable
  BY <1>2, UnwindKeeps DEF DrainReadFails, DrainUnreachable
<1>3. CASE DrainNoInput
  <2>1. DealKeeps
    BY <1>3, DrainKeepsTheTurn DEF DrainNoInput, EndDrain, DealTypeOK
  <2>2. RestKeeps
    BY <1>3, DrainFrame DEF DrainNoInput, RestTypeOK
  <2> QED
    BY <2>1, <2>2
<1>4. CASE DrainEmpty
  <2>1. busy' \in SUBSET Participants
    BY <1>4 DEF DrainEmpty, DealTypeOK
  <2>2. deferred' \in Seq(Command)
    <3> DEFINE pass == [type |-> "TurnComplete", participant |-> holder,
                        epoch |-> epoch, ending |-> "Passed"]
    <3>1. pass \in Command
      BY <1>1 DEF Command, Endings, DealTypeOK
    <3>2. Append(deferred, pass) \in Seq(Command)
      BY <3>1, AppendProperties DEF RestTypeOK
    <3> QED
      BY <1>4, <3>2 DEF DrainEmpty, RestTypeOK
  <2>3. DealKeeps
    BY <1>4, <2>1, DrainKeepsTheTurn DEF DrainEmpty, EndDrain, DealTypeOK
  <2>4. RestKeeps
    BY <1>4, <2>2, DrainFrame DEF DrainEmpty, RestTypeOK
  <2> QED
    BY <2>3, <2>4
<1>5. CASE DrainReadsCommand
  <2>1. Head(rx) \in Command /\ Tail(rx) \in Seq(Command)
    BY <1>5, HeadTailProperties DEF DrainReadsCommand, RestTypeOK
  <2>2. deferred' \in Seq(Command) /\ rx' \in Seq(Command)
    <3>1. Append(deferred, Head(rx)) \in Seq(Command)
      BY <2>1, AppendProperties DEF RestTypeOK
    <3>2. <<Head(rx)>> \o deferred \in Seq(Command)
      BY <2>1, ConcatProperties DEF RestTypeOK
    <3> QED
      BY <1>5, <2>1, <3>1, <3>2 DEF DrainReadsCommand
  <2>3. (drain' = drain \/ drain' = "none") /\ batch' \in Nat
    BY <1>5 DEF DrainReadsCommand, EndDrain, NoDrain, DealTypeOK
  <2>4. DealKeeps
    BY <1>5, <2>3, DrainKeepsTheTurn DEF DrainReadsCommand, DealTypeOK
  <2>5. RestKeeps
    BY <1>5, <2>2, DrainFrame DEF DrainReadsCommand, RestTypeOK
  <2> QED
    BY <2>4, <2>5
<1>6. CASE DrainLands
  <2>1. stdin' \in [Participants -> Nat]
    BY <1>1, <1>6 DEF DrainLands, RestTypeOK
  <2>2. (drain' = drain \/ drain' = "none") /\ batch' \in Nat /\ unread' \in SUBSET Participants
    BY <1>6 DEF DrainLands, EndDrain, DealTypeOK
  <2>3. DealKeeps
    BY <1>6, <2>2, DrainKeepsTheTurn DEF DrainLands, DealTypeOK
  <2>4. RestKeeps
    BY <1>6, <2>1, DrainFrame DEF DrainLands, RestTypeOK
  <2> QED
    BY <2>3, <2>4
<1> QED
  BY <1>2, <1>3, <1>4, <1>5, <1>6 DEF Drain
-----------------------------------------------------------------------------
(* The invariant and the refinement *)

\* The part of the invariant that is inductive by itself.
StateInv == TypeOK /\ WindDownHasNoHolder /\ DrainHasAHolder

\* The states the ring starts in.
LEMMA InitStateInv == Init => StateInv /\ Token!TokenInit
<1> SUFFICES ASSUME Init PROVE StateInv /\ Token!TokenInit
  OBVIOUS
<1>1. <<>> \in Seq(Command) /\ <<>> \in Seq(Participants)
  BY EmptySeq
<1>2. openGates \subseteq Gates /\ gateSeedFailed \in BOOLEAN
  BY DEF Init, RingInit, WorldTypeOK, MayFail
<1>3. TypeOK
  BY <1>1, <1>2, NoStashTypes DEF Init, RingInit, TypeOK, RingTypeOK, Someone
<1>4. WindDownHasNoHolder /\ DrainHasAHolder /\ Token!TokenInit
  BY NoStashTypes
     DEF Init, RingInit, WindDownHasNoHolder, DrainHasAHolder, Token!TokenInit
<1> QED
  BY <1>3, <1>4 DEF StateInv

\* One command, or one step of a delivery: the invariant, and a step of the lease.
LEMMA RingStepKeeps == StateInv /\ RingStep => StateInv' /\ LeaseStep
<1> SUFFICES ASSUME StateInv, RingStep PROVE StateInv' /\ LeaseStep
  OBVIOUS
<1>1. DealTypeOK /\ RestTypeOK /\ DrainHasAHolder /\ ReleaseWaits
  BY TypeOKParts DEF StateInv, WindDownHasNoHolder, ReleaseWaits
<1>2. DealKeeps /\ RestKeeps
  <2>1. CASE Completion
    <3>1. PICK c \in {Next1} :
            \/ CompletionConsensus(c) \/ CompletionSpins(c) \/ CompletionAtStage(c)
            \/ CompletionSteps(c) \/ CompletionDiscarded(c) \/ CompletionReplays(c)
      BY <2>1 DEF Completion
    <3> QED
      BY <1>1, <3>1, CompletionKeeps
  <2>2. CASE UserSteers \/ HoldForPause \/ GateResolved \/ Pause \/ GraceHolds
    BY <1>1, <2>2, QueueingKeeps
  <2>3. CASE UserMessageStashed \/ UserMessageReleases \/ GraceExpires
    BY <1>1, <2>3, ReleasingKeeps
  <2>4. CASE MessageStaged \/ MessageUnstaged
    BY <1>1, <2>4, StagingKeeps
  <2>5. CASE HaltDeclared
    BY <1>1, <2>5, HaltDeclaredKeeps
  <2>6. CASE GateOpened
    BY <1>1, <2>6, GateOpenedKeeps
  <2>7. CASE Summon
    BY <1>1, <2>7, SummonKeeps
  <2>8. CASE Resume
    BY <1>1, <2>8, ResumeKeeps
  <2>9. CASE ParticipantJoined
    BY <1>1, <2>9, ParticipantJoinedKeeps
  <2>10. CASE Drain
    BY <1>1, <2>10, DrainKeeps
  <2> QED
    BY <2>1, <2>2, <2>3, <2>4, <2>5, <2>6, <2>7, <2>8, <2>9, <2>10 DEF RingStep, Dispatch
<1>3. graceArmed' \in BOOLEAN /\ (graceArmed' => stashedRelease'.some)
  <2>1. graceArmed' = (drain' = "none" /\ stashedRelease'.some /\ ~paused' /\ ~latch)
    BY DEF RingStep
  <2> QED
    BY <2>1, Zenon
<1>4. TypeOK'
  BY <1>2, <1>3
     DEF DealKeeps, RestKeeps, DealTypeOK, RestTypeOK, TypeOK, RingTypeOK, WorldTypeOK
<1> QED
  BY <1>2, <1>3, <1>4 DEF DealKeeps, RestKeeps, StateInv, WindDownHasNoHolder, ReleaseWaits

\* Whatever the other tasks do, they do it to their own state.
LEMMA EnvStepKeeps == StateInv /\ (EnvStep \/ UNCHANGED vars) => StateInv' /\ LeaseStep
<1> SUFFICES ASSUME StateInv, EnvStep \/ UNCHANGED vars PROVE StateInv' /\ LeaseStep
  OBVIOUS
<1>1. UNCHANGED ringVars /\ WorldTypeOK'
  BY DEF StateInv, TypeOK, WorldTypeOK, EnvStep, vars, sharedVars, worldVars
<1>2. RingTypeOK'
  BY <1>1 DEF StateInv, TypeOK, RingTypeOK, ringVars
<1>3. WindDownHasNoHolder' /\ DrainHasAHolder'
  BY <1>1 DEF StateInv, WindDownHasNoHolder, DrainHasAHolder, ringVars
<1>4. LeaseStep
  BY <1>1 DEF LeaseStep, Token!tokenVars, ringVars
<1> QED
  BY <1>1, <1>2, <1>3, <1>4 DEF StateInv, TypeOK

\* Every step of the ring or of its environment.
LEMMA StepKeeps == StateInv /\ [Next]_vars => StateInv' /\ LeaseStep
BY RingStepKeeps, EnvStepKeeps DEF Next

\* A step of the lease keeps the epoch the name of one turn: it is fresh, so no cell but the
\* new holder's can hold it.
LEMMA LeaseKeepsTheName ==
  ASSUME TypeOK, EpochNamesTheHolder, LeaseStep
  PROVE  EpochNamesTheHolder'
<1>1. /\ epoch \in Nat /\ cell \in [Participants -> Nat] /\ holder \in Someone
  BY DEF TypeOK, RingTypeOK
<1>2. CASE UNCHANGED <<holder, epoch, cell>>
  BY <1>2 DEF EpochNamesTheHolder, Token!EpochNamesTheHolder
<1>3. CASE Token!Withdraw
  BY <1>1, <1>3 DEF Token!Withdraw, EpochNamesTheHolder, Token!EpochNamesTheHolder
<1>4. ASSUME NEW p \in Participants, Token!Grant(p)
      PROVE  EpochNamesTheHolder'
  <2>1. /\ cell'[p] = epoch'
        /\ \A q \in Participants \ {p} : cell'[q] = cell[q] /\ cell[q] < epoch'
    BY <1>1, <1>4 DEF Token!Grant, EpochNamesTheHolder, Token!EpochNamesTheHolder
  <2> QED
    BY <1>1, <1>4, <2>1 DEF Token!Grant, EpochNamesTheHolder, Token!EpochNamesTheHolder
<1> QED
  BY <1>2, <1>3, <1>4 DEF LeaseStep, Token!TokenNext, Token!tokenVars

\* The state invariant holds throughout, with every step a step of the lease.
LEMMA StateInvariance == Spec => []StateInv
<1>1. Init => StateInv
  BY InitStateInv
<1>2. StateInv /\ [Next]_vars => StateInv'
  BY StepKeeps
<1> QED
  BY <1>1, <1>2, PTL DEF Spec

\* The ring's state is well typed in every reachable state, for every roster and whatever the
\* other tasks put on the channel: no command is ever misread, no drain has no holder.
THEOREM TypeCorrect == Spec => []TypeOK
<1>1. StateInv => TypeOK
  BY DEF StateInv
<1> QED
  BY <1>1, StateInvariance, PTL

\* RingInv: no holder while a halted turn winds down, no drain without a holder, and the
\* current epoch in no cell but the holder's (on_turn_complete's test of a live completion).
THEOREM RingInvariant == Spec => []RingInv
<1> DEFINE Inv == StateInv /\ EpochNamesTheHolder
<1>1. Init => Inv
  <2>1. Token!TokenInit => EpochNamesTheHolder
    BY DEF Token!TokenInit, EpochNamesTheHolder, Token!EpochNamesTheHolder
  <2> QED
    BY <2>1, InitStateInv
<1>2. Inv /\ [Next]_vars => Inv'
  BY StepKeeps, LeaseKeepsTheName DEF StateInv
<1>3. Inv => RingInv
  BY DEF StateInv, RingInv
<1> QED
  BY <1>1, <1>2, <1>3, PTL DEF Spec

\* The ring implements the lease of TurnToken: every deal, stop and unwinding is a grant or a
\* withdrawal under a fresh epoch, and nothing else moves holder, epoch or a cell.
THEOREM RingImplementsToken == Spec => RefinesToken
<1>1. Init => Token!TokenInit
  BY InitStateInv
<1>2. StateInv /\ [Next]_vars => [Token!TokenNext]_Token!tokenVars
  BY StepKeeps DEF LeaseStep
<1> QED
  BY <1>1, <1>2, StateInvariance, PTL DEF Spec, RefinesToken, Token!TokenSpec
=============================================================================
