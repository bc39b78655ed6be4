------------------------------ MODULE TurnRing ------------------------------
(***************************************************************************)
(* The turn sequencer of one session: core/sequencer.rs, run_sequencer.     *)
(*                                                                         *)
(* One task owns the ring.  It reads commands, one at a time, off a bounded *)
(* control channel and deals turns to the session's participants: exactly   *)
(* one participant holds the turn, every deal moves the epoch, and the ring *)
(* steps on a completion that names the turn in flight.  The task awaits in *)
(* the middle of a command only while it delivers the holder's backlog      *)
(* (deliver_backlog), and there it also reads the channel: the model cuts a *)
(* command there, into the handler (one action) and the drain that follows  *)
(* it (one action per command read, per page landed, per way out).          *)
(*                                                                         *)
(* This module is the component alone.  Everything another task writes      *)
(* (the channel, the roster, the pause latch, the gate rows, the processes) *)
(* is an environment variable, and the environment may change it to any     *)
(* well-typed value at any time: RingSession puts the real producers there. *)
(***************************************************************************)
EXTENDS Integers, Sequences, FiniteSets

CONSTANTS
  Participants,     \* the roster's ids; their order is the ring's own key, (turn_position, id)
  OnMention,        \* participants outside the rotation: they hold a turn only when summoned
  Gates,            \* choice ids of approval gates
  RoundCap,         \* round_cap_laps: laps before the ring yields to the user, 0 is off
  MaxTurnBatches,   \* MAX_TURN_BATCHES: pages one drain may deliver
  RxCap,            \* capacity of the control channel
  LongBacklogs,     \* TRUE lets a backlog run past one page
  SpinDetection,    \* TRUE lets the spin detector trip on a turn that spoke
  StorageFaults     \* TRUE lets any storage call of the ring fail

ASSUME RosterAssumption ==
  /\ Participants \subseteq Nat \ {0}
  /\ IsFiniteSet(Participants)
  /\ OnMention \subseteq Participants
ASSUME BoundsAssumption ==
  /\ RoundCap \in Nat
  /\ MaxTurnBatches \in Nat \ {0}
  /\ RxCap \in Nat \ {0}
  /\ LongBacklogs \in BOOLEAN
  /\ SpinDetection \in BOOLEAN
  /\ StorageFaults \in BOOLEAN

NoOne == 0                          \* Option<Participant>::None
Endings == {"Spoke", "Passed", "Done"}      \* TurnEnding
Someone == Participants \cup {NoOne}

\* Who filled the halt slot and why: a participant's own halt (or one declared in its name), or
\* one of the stops the ring takes by itself.
HaltReasons == {"none", "participant", "consensus", "allPassed", "roundCap", "wedged"}

Command ==
  [type : {"TurnComplete"}, participant : Participants, epoch : Nat, ending : Endings]
    \cup [type : {"UserMessage"}, mentions : Seq(Participants)]
    \cup [type : {"HaltDeclared"}, participant : Someone]
    \cup [type : {"Summon", "ParticipantJoined"}, participant : Participants]
    \cup [type : {"GateOpened", "GateResolved"}, gate : Gates]
    \cup [type : {"MessageStaged", "MessageUnstaged", "Pause", "Resume"}]

\* stashed_release: Option<Vec<i64>>, as a record so that None differs from an empty list.
NoStash == [some |-> FALSE, mentions |-> <<>>]
Stash == [some : BOOLEAN, mentions : Seq(Participants)]

VARIABLES
  \* RingState, private to the task
  holder,           \* who holds the turn, or NoOne
  epoch,            \* stamped anew by every deal and every halt
  deferred,         \* commands read during a drain, dispatched before the channel is read again
  held,             \* commands the pause gate keeps for the resume
  paused,           \* the ring's own pause flag
  laps,             \* laps since the user last spoke
  summons,          \* Summons::queue
  anchor,           \* Summons::anchor, the last holder of a ring turn
  spokeThisLap,
  stagedPending,
  windingDown,      \* the halted holder whose completion is still owed
  stashedRelease,   \* the user's release held back for that completion
  haltedPendingUser,
  openGates,
  gateSeedFailed,
  drain,            \* deliver_backlog in progress: "none", "deal" or "redrain" (Resume)
  batch,            \* pages that drain has delivered
  graceArmed,       \* the loop's blocking read is bounded by HALT_WIND_DOWN_GRACE
  \* written by the ring and by others
  rx,               \* the control channel
  unread,           \* participants with rows past their cursor
  stdin,            \* pages handed to each participant's process and not yet taken up by it
  votes,            \* done votes standing in the roster rows
  cell,             \* each participant's epoch cell
  busy,             \* busy flags of the activity tracker
  haltSlot,         \* the session's halt slot: the reason the banner shows, or "none"
  deliveryDue,      \* StagedDeliveryDue events not yet handled by the app
  input,            \* what the inputs map has for each participant
  \* only read by the ring
  enabled,          \* enabled rows of the roster
  latch,            \* the activity tracker's pause latch
  gateRows          \* approval gates pending in storage

ringVars == <<holder, epoch, deferred, held, paused, laps, summons, anchor, spokeThisLap,
              stagedPending, windingDown, stashedRelease, haltedPendingUser, openGates,
              gateSeedFailed, drain, batch, graceArmed, cell>>
sharedVars == <<rx, unread, stdin, votes, busy, haltSlot, deliveryDue, input>>
worldVars == <<enabled, latch, gateRows>>
vars == <<ringVars, sharedVars, worldVars>>

RingTypeOK ==
  /\ holder \in Someone
  /\ epoch \in Nat
  /\ deferred \in Seq(Command)
  /\ held \in Seq(Command)
  /\ paused \in BOOLEAN
  /\ laps \in Nat
  /\ summons \in Seq(Participants)
  /\ anchor \in Someone
  /\ spokeThisLap \in BOOLEAN
  /\ stagedPending \in BOOLEAN
  /\ windingDown \in Someone
  /\ stashedRelease \in Stash
  /\ haltedPendingUser \in BOOLEAN
  /\ openGates \subseteq Gates
  /\ gateSeedFailed \in BOOLEAN
  /\ drain \in {"none", "deal", "redrain"}
  /\ batch \in Nat
  /\ graceArmed \in BOOLEAN
  /\ cell \in [Participants -> Nat]

WorldTypeOK ==
  /\ rx \in Seq(Command)
  /\ unread \subseteq Participants
  /\ stdin \in [Participants -> Nat]
  /\ votes \subseteq Participants
  /\ busy \subseteq Participants
  /\ haltSlot \in HaltReasons
  /\ deliveryDue \in Nat
  /\ input \in [Participants -> {"none", "open", "closed"}]
  /\ enabled \subseteq Participants
  /\ latch \in BOOLEAN
  /\ gateRows \subseteq Gates

TypeOK == RingTypeOK /\ WorldTypeOK
-----------------------------------------------------------------------------
(* Reading the roster *)

MayFail == IF StorageFaults THEN BOOLEAN ELSE {FALSE}

Rotation == enabled \ OnMention     \* enabled and participation_mode = active

Smallest(S) == CHOOSE x \in S : \A y \in S : x <= y

\* next_in_ring: one place past `current` in ring order, whether or not `current`
\* is still in the rotation; the front when it is NoOne or the last.
NextInRing(ring, current) ==
  LET after == {p \in ring : p > current}
  IN IF ring = {} THEN NoOne
     ELSE Smallest(IF current # NoOne /\ after # {} THEN after ELSE ring)

\* Mutant of Wraps: a lap closes only when the step lands where it started.
WrapsOnItself(from, to) == from # NoOne /\ to = from

\* The step from `from` to `to` closed a lap.
Wraps(from, to) == from # NoOne /\ to # NoOne /\ to <= from

AllActiveVotedDone(tally) == Rotation \subseteq tally

\* Mutant of Tally: a turn that spoke withdraws no vote.
TallyKeepsVotes(p, ending) ==
  CASE ending = "Done"   -> votes \cup {p}
    [] ending = "Spoke"  -> votes
    [] ending = "Passed" -> votes \ {p}

\* halted_on_consensus records the ending in the tally.
Tally(p, ending) ==
  CASE ending = "Done"   -> votes \cup {p}
    [] ending = "Spoke"  -> {}
    [] ending = "Passed" -> votes \ {p}
-----------------------------------------------------------------------------
(* Reading a command: the deferred queue first, then the channel *)

HasCommand == drain = "none" /\ (deferred # <<>> \/ rx # <<>>)
Fresh == deferred = <<>>
Next1 == IF Fresh THEN Head(rx) ELSE Head(deferred)
DeferredRest == IF Fresh THEN deferred ELSE Tail(deferred)
RxRest == IF Fresh THEN Tail(rx) ELSE rx

Steers == paused /\ Fresh /\ Next1.type = "UserMessage"
HeldByPause == paused /\ ~Steers /\ Next1.type \notin {"Pause", "Resume"}

\* The command at the head is of this type and reaches its arm of the match.
Dispatches(type) ==
  HasCommand /\ Next1.type = type /\ ~Steers /\ ~HeldByPause

Consume == deferred' = DeferredRest /\ rx' = RxRest
-----------------------------------------------------------------------------
(* Stopping *)

\* Mutant of Halt: a stop that does not move the epoch.
HaltKeepsEpoch == holder' = NoOne /\ UNCHANGED epoch

\* halt(): the whole of a stop.
Halt == holder' = NoOne /\ epoch' = epoch + 1

\* declare_host_halt fills the slot and sends the ring nothing.
DeclareHostHalt(reason) == haltSlot' = reason

\* Mutant of DeliverStagedIfPending: the flag comes down and nobody is told.
StagedIsForgotten == stagedPending' = FALSE /\ UNCHANGED deliveryDue

\* deliver_staged_if_pending
DeliverStagedIfPending ==
  /\ stagedPending' = FALSE
  /\ deliveryDue' = IF stagedPending THEN deliveryDue + 1 ELSE deliveryDue

NoDrain == UNCHANGED <<drain, batch>>

\* A stop the ring takes by itself: halt, fill the slot, deliver what is staged.
YieldToUser(reason) ==
  Halt /\ DeclareHostHalt(reason) /\ DeliverStagedIfPending /\ NoDrain /\ UNCHANGED <<busy, cell>>

\* The all-pass and round-cap yields also post a system notice, a row for every backlog.
AnnounceYield == unread' = Participants

\* What advance_turn may change.
dealVars == <<holder, epoch, laps, summons, anchor, spokeThisLap, stagedPending, drain, batch,
              cell, votes, busy, haltSlot, deliveryDue, unread>>
\* What it never does, by what each part is about.
pauseVars == <<held, paused>>
releaseVars == <<windingDown, stashedRelease>>
gateVars == <<openGates, gateSeedFailed>>
deliveryVars == <<stdin, input>>
-----------------------------------------------------------------------------
(* Dealing: advance_turn and start_turn.                                    *)
(*                                                                         *)
(* `queue`, `spoke` and `tally` are summons, spokeThisLap and votes as the  *)
(* caller leaves them; haltedPendingUser' and openGates' are already set.   *)

\* start_turn: mark `to` busy, publish the epoch, begin its delivery.
StartTurn(to) ==
  /\ holder' = to
  /\ epoch' = epoch + 1
  /\ IF to = NoOne
       THEN UNCHANGED <<busy, cell, drain, batch>>
       ELSE /\ busy' = busy \cup {to}
            /\ cell' = [cell EXCEPT ![to] = epoch + 1]
            /\ drain' = "deal"
            /\ batch' = 0
  /\ UNCHANGED <<haltSlot, stagedPending, deliveryDue, unread>>

\* Mutant of Parked: the gate latch is not consulted.
ParkedIgnoringGates == haltedPendingUser' \/ latch

Parked == haltedPendingUser' \/ openGates' # {} \/ latch

Park(queue, spoke, tally) ==
  /\ Halt
  /\ summons' = queue /\ spokeThisLap' = spoke /\ votes' = tally
  /\ NoDrain
  /\ UNCHANGED <<laps, anchor, busy, cell, haltSlot, stagedPending, deliveryDue, unread>>

\* Mutant of Dropped: the whole queue goes.
DropsEveryone(queue, k) == k = Len(queue)

\* hand_to_summoned pops entries that cannot take a turn (disabled, or unreadable)
\* until one can: `k` entries go, and the next one is dealt or the queue is empty.
Dropped(queue, k) ==
  /\ \A i \in 1..k : queue[i] \notin enabled \/ StorageFaults
  /\ k < Len(queue) => queue[k + 1] \in enabled

\* The ring step, after the summons queue has come up empty: hand_over and what
\* follows it.  A read that fails leaves the turn where it is (Handover::Held).
StepRing(from, lap, spoke, tally) ==
  LET to == NextInRing(Rotation, from)
      wraps == Wraps(from, to)
      nextLap == IF wraps THEN lap + 1 ELSE lap
      allPassed == wraps /\ ~spoke
      capped == wraps /\ spoke /\ RoundCap # 0 /\ nextLap >= RoundCap
  IN
  /\ votes' = tally
  /\ \/ /\ StorageFaults
        /\ laps' = lap /\ spokeThisLap' = spoke
        /\ NoDrain
        /\ UNCHANGED <<holder, epoch, anchor, busy, cell, haltSlot, stagedPending, deliveryDue,
                       unread>>
     \/ /\ allPassed \/ capped
        /\ laps' = nextLap
        /\ spokeThisLap' = IF capped THEN FALSE ELSE spoke
        /\ UNCHANGED anchor
        /\ YieldToUser(IF capped THEN "roundCap" ELSE "allPassed") /\ AnnounceYield
     \/ /\ ~allPassed /\ ~capped
        /\ laps' = nextLap
        /\ spokeThisLap' = (spoke /\ ~wraps)
        /\ anchor' = to
        /\ StartTurn(to)

Advance(userSpoke, queue, spoke, tally) ==
  \/ Parked /\ Park(queue, spoke, tally)
  \/ /\ ~Parked
     /\ \E k \in 0..Len(queue), clearFails \in MayFail :
          LET restart == userSpoke /\ queue = <<>>
              from == IF restart THEN NoOne ELSE anchor
              newStretch == userSpoke \/ from = NoOne
              lap == IF newStretch THEN 0 ELSE laps
              cleared == IF newStretch /\ ~clearFails THEN {} ELSE tally
          IN
          /\ Dropped(queue, k)
          /\ summons' = SubSeq(queue, k + 2, Len(queue))
          /\ \/ /\ k < Len(queue)
                /\ laps' = lap /\ votes' = cleared
                /\ spokeThisLap' = spoke /\ UNCHANGED anchor
                /\ StartTurn(queue[k + 1])
             \/ /\ k = Len(queue)
                /\ StepRing(from, lap, spoke, cleared)

\* reseed_gates_if_needed: ask storage again for the gates a failed seed missed.
ReseedGates ==
  \/ ~gateSeedFailed /\ UNCHANGED <<openGates, gateSeedFailed>>
  \/ gateSeedFailed /\ openGates' = openGates \cup gateRows /\ gateSeedFailed' = FALSE
  \/ gateSeedFailed /\ StorageFaults /\ UNCHANGED <<openGates, gateSeedFailed>>

\* release_ring: the user spoke and named `mentions`.
ReleaseRing(mentions) ==
  /\ haltedPendingUser' = FALSE
  /\ ReseedGates
  /\ Advance(TRUE, summons \o mentions, spokeThisLap, votes)
-----------------------------------------------------------------------------
(* TurnComplete: a completion is live iff it names the turn in flight *)

Live(c) == c.epoch = epoch /\ c.participant = holder

\* Any completion of the halted holder says its process is idle now.
ClearWindDown(c) ==
  windingDown' = IF windingDown = c.participant THEN NoOne ELSE windingDown

\* A live completion.  No release is held back while somebody holds the turn
\* (TurnRing_proofs, WindDownHasNoHolder), so none is replayed after it.
LiveCompletion(c) ==
  /\ Dispatches("TurnComplete") /\ c = Next1 /\ Live(c)
  /\ ClearWindDown(c)
  /\ deferred' = DeferredRest
  /\ UNCHANGED <<pauseVars, stashedRelease, haltedPendingUser, deliveryVars, worldVars>>

\* Mutant of SpokeAfter: only a vote counts as having spoken.
SpokeOnlyByVote(c) == spokeThisLap \/ c.ending = "Done"

SpokeAfter(c) == spokeThisLap \/ c.ending # "Passed"

\* The two ways the vote of a live completion is answered: all_active_voted_done said yes,
\* or it said no, or the write or the read failed and the cycle goes on.
Arrives(c) == AllActiveVotedDone(Tally(c.participant, c.ending))
NoArrival(c, tally) ==
  \/ ~Arrives(c) /\ tally = Tally(c.participant, c.ending)
  \/ StorageFaults /\ tally \in {votes, Tally(c.participant, c.ending)}

CompletionConsensus(c) ==
  /\ LiveCompletion(c) /\ rx' = RxRest
  /\ Arrives(c)
  /\ votes' = Tally(c.participant, c.ending)
  /\ spokeThisLap' = SpokeAfter(c)
  /\ YieldToUser("consensus")
  /\ UNCHANGED <<laps, summons, anchor, unread, gateVars>>

\* The spin halt goes through mark_awaiting_user_for: it fills the slot and sends the ring its
\* own HaltDeclared, which a full channel drops.
CompletionSpins(c) ==
  /\ LiveCompletion(c)
  /\ SpinDetection /\ c.ending = "Spoke"
  /\ \E tally \in SUBSET Participants : NoArrival(c, tally) /\ votes' = tally
  /\ spokeThisLap' = SpokeAfter(c)
  /\ YieldToUser("participant")
  /\ rx' = IF Len(RxRest) < RxCap
             THEN Append(RxRest, [type |-> "HaltDeclared", participant |-> c.participant])
             ELSE RxRest
  /\ UNCHANGED <<laps, summons, anchor, unread, gateVars>>

\* The boundary a staged message was waiting for: park and hand its delivery to the app.
CompletionAtStage(c) ==
  /\ LiveCompletion(c) /\ rx' = RxRest
  /\ stagedPending
  /\ \E tally \in SUBSET Participants : NoArrival(c, tally) /\ votes' = tally
  /\ spokeThisLap' = SpokeAfter(c)
  /\ Halt /\ DeliverStagedIfPending /\ NoDrain
  /\ UNCHANGED <<laps, summons, anchor, cell, busy, haltSlot, unread, gateVars>>

CompletionSteps(c) ==
  /\ LiveCompletion(c) /\ rx' = RxRest
  /\ ~stagedPending
  /\ ReseedGates
  /\ \E tally \in SUBSET Participants :
       NoArrival(c, tally) /\ Advance(FALSE, summons, SpokeAfter(c), tally)

\* Not the turn in flight, and no release waits for it: nothing moves.
CompletionDiscarded(c) ==
  /\ Dispatches("TurnComplete") /\ c = Next1 /\ ~Live(c)
  /\ Consume
  /\ ClearWindDown(c)
  /\ windingDown' = NoOne => ~stashedRelease.some
  /\ UNCHANGED <<dealVars, pauseVars, gateVars, stashedRelease, haltedPendingUser, deliveryVars,
                 worldVars>>

\* The halted holder's completion: the release held back for it is replayed.
CompletionReplays(c) ==
  /\ Dispatches("TurnComplete") /\ c = Next1 /\ ~Live(c)
  /\ Consume
  /\ ClearWindDown(c) /\ windingDown' = NoOne
  /\ stashedRelease.some /\ stashedRelease' = NoStash
  /\ ReleaseRing(stashedRelease.mentions)
  /\ UNCHANGED <<pauseVars, deliveryVars, worldVars>>
-----------------------------------------------------------------------------
(* UserMessage *)

\* Freshly read while paused: the steer releases the pause, behind what the pause held.
UserSteers ==
  /\ HasCommand /\ Steers
  /\ paused' = FALSE
  /\ deferred' = Append(held, Next1)
  /\ held' = <<>>
  /\ rx' = RxRest
  /\ UNCHANGED <<dealVars, releaseVars, gateVars, haltedPendingUser, deliveryVars, worldVars>>

\* The pause gate: anything but Pause and Resume is kept for the release.
HoldForPause ==
  /\ HasCommand /\ HeldByPause
  /\ held' = Append(held, Next1)
  /\ Consume
  /\ UNCHANGED <<dealVars, paused, releaseVars, gateVars, haltedPendingUser, deliveryVars,
                 worldVars>>

\* The halted holder is still finishing: the release waits for its completion.
UserMessageStashed ==
  /\ Dispatches("UserMessage") /\ windingDown # NoOne
  /\ Consume
  /\ stashedRelease' = [some |-> TRUE,
                        mentions |-> stashedRelease.mentions \o Next1.mentions]
  /\ UNCHANGED <<dealVars, pauseVars, windingDown, gateVars, haltedPendingUser, deliveryVars,
                 worldVars>>

UserMessageReleases ==
  /\ Dispatches("UserMessage") /\ windingDown = NoOne
  /\ Consume
  /\ ReleaseRing(Next1.mentions)
  /\ UNCHANGED <<pauseVars, releaseVars, deliveryVars, worldVars>>

\* HALT_WIND_DOWN_GRACE passed on an empty channel: the held release is dealt anyway.  The
\* latch may have been set since the clock was armed; then the release stays held.
GraceExpires ==
  /\ drain = "none" /\ deferred = <<>> /\ rx = <<>> /\ graceArmed
  /\ ~paused /\ ~latch
  /\ windingDown' = NoOne
  /\ stashedRelease.some /\ stashedRelease' = NoStash
  /\ ReleaseRing(stashedRelease.mentions)
  /\ UNCHANGED <<rx, deferred, pauseVars, deliveryVars, worldVars>>

GraceHolds ==
  /\ drain = "none" /\ deferred = <<>> /\ rx = <<>> /\ graceArmed
  /\ paused \/ latch
  /\ UNCHANGED <<rx, deferred, dealVars, pauseVars, releaseVars, gateVars, haltedPendingUser,
                 deliveryVars, worldVars>>
-----------------------------------------------------------------------------
(* Staging *)

\* Mutant of MessageStaged: an idle ring waits for a boundary too.
MessageStagedWaits ==
  /\ Dispatches("MessageStaged")
  /\ Consume
  /\ stagedPending' = TRUE
  /\ NoDrain
  /\ UNCHANGED <<holder, epoch, laps, summons, anchor, spokeThisLap, cell, votes, busy, haltSlot,
                 deliveryDue, unread, pauseVars, releaseVars, gateVars, haltedPendingUser,
                 deliveryVars, worldVars>>

MessageStaged ==
  /\ Dispatches("MessageStaged")
  /\ Consume
  /\ IF holder = NoOne
       THEN deliveryDue' = deliveryDue + 1 /\ UNCHANGED stagedPending
       ELSE stagedPending' = TRUE /\ UNCHANGED deliveryDue
  /\ NoDrain
  /\ UNCHANGED <<holder, epoch, laps, summons, anchor, spokeThisLap, cell, votes, busy, haltSlot,
                 unread, pauseVars, releaseVars, gateVars, haltedPendingUser, deliveryVars,
                 worldVars>>

MessageUnstaged ==
  /\ Dispatches("MessageUnstaged")
  /\ Consume
  /\ stagedPending' = FALSE
  /\ NoDrain
  /\ UNCHANGED <<holder, epoch, laps, summons, anchor, spokeThisLap, cell, votes, busy, haltSlot,
                 deliveryDue, unread, pauseVars, releaseVars, gateVars, haltedPendingUser,
                 deliveryVars, worldVars>>
-----------------------------------------------------------------------------
(* HaltDeclared, the gates, Summon *)

\* A halt latches the ring.  Declared by the holder it ends the turn, whose process still owes
\* a completion; advance_turn then always takes its parked arm.  With nobody holding, the
\* epoch moves.  Another participant's turn in flight is left alone.
HaltDeclared ==
  /\ Dispatches("HaltDeclared")
  /\ Consume
  /\ haltedPendingUser' = TRUE
  /\ LET declarer == Next1.participant
         ends == holder # NoOne /\ holder = declarer
     IN
     /\ windingDown' = IF ends THEN declarer ELSE windingDown
     /\ IF ends THEN ReseedGates ELSE UNCHANGED gateVars
     /\ IF ends \/ holder = NoOne THEN Halt ELSE UNCHANGED <<holder, epoch>>
  /\ DeliverStagedIfPending /\ NoDrain
  /\ UNCHANGED <<laps, summons, anchor, spokeThisLap, cell, votes, busy, haltSlot, unread,
                 pauseVars, stashedRelease, deliveryVars, worldVars>>

GateOpened ==
  /\ Dispatches("GateOpened")
  /\ Consume
  /\ openGates' = openGates \cup {Next1.gate}
  /\ IF holder = NoOne THEN Halt ELSE UNCHANGED <<holder, epoch>>
  /\ NoDrain
  /\ UNCHANGED <<laps, summons, anchor, spokeThisLap, stagedPending, cell, votes, busy, haltSlot,
                 deliveryDue, unread, gateSeedFailed, pauseVars, releaseVars, haltedPendingUser,
                 deliveryVars, worldVars>>

\* Lifts the latch and deals nothing.
GateResolved ==
  /\ Dispatches("GateResolved")
  /\ Consume
  /\ openGates' = openGates \ {Next1.gate}
  /\ UNCHANGED <<dealVars, gateSeedFailed, pauseVars, releaseVars, haltedPendingUser,
                 deliveryVars, worldVars>>

\* The retry wake: queued like a mention, dealt now only if no turn is in flight.
Summon ==
  /\ Dispatches("Summon")
  /\ Consume
  /\ IF holder = NoOne /\ windingDown = NoOne
       THEN /\ UNCHANGED haltedPendingUser
            /\ ReseedGates
            /\ Advance(FALSE, Append(summons, Next1.participant), spokeThisLap, votes)
       ELSE /\ summons' = Append(summons, Next1.participant)
            /\ NoDrain
            /\ UNCHANGED <<holder, epoch, laps, anchor, spokeThisLap, stagedPending, cell, votes,
                           busy, haltSlot, deliveryDue, unread, gateVars, haltedPendingUser>>
  /\ UNCHANGED <<pauseVars, releaseVars, deliveryVars, worldVars>>
-----------------------------------------------------------------------------
(* Pause, Resume, ParticipantJoined *)

Pause ==
  /\ Dispatches("Pause")
  /\ Consume
  /\ paused' = TRUE
  /\ UNCHANGED <<dealVars, held, releaseVars, gateVars, haltedPendingUser, deliveryVars,
                 worldVars>>

BeginDrain(kind) ==
  /\ drain' = IF holder = NoOne THEN "none" ELSE kind
  /\ batch' = 0

\* Replays what the pause held ahead of what is deferred, then finishes the delivery the pause
\* cut short: the turn in flight stays in flight.
Resume ==
  /\ Dispatches("Resume")
  /\ paused' = FALSE
  /\ deferred' = held \o DeferredRest
  /\ held' = <<>>
  /\ rx' = RxRest
  /\ BeginDrain("redrain")
  /\ UNCHANGED <<holder, epoch, laps, summons, anchor, spokeThisLap, stagedPending, cell, votes,
                 busy, haltSlot, deliveryDue, unread, releaseVars, gateVars, haltedPendingUser,
                 deliveryVars, worldVars>>

\* A fresh stdin.  If its participant holds the turn its backlog goes out now; if it is the
\* halted holder, whose old process will never complete, the release held for it is dealt.
ParticipantJoined ==
  /\ Dispatches("ParticipantJoined")
  /\ Consume
  /\ LET p == Next1.participant
         replays == windingDown = p /\ stashedRelease.some
     IN
     /\ input' = [input EXCEPT ![p] = "open"]
     /\ windingDown' = IF windingDown = p THEN NoOne ELSE windingDown
     /\ IF replays
          THEN stashedRelease' = NoStash /\ ReleaseRing(stashedRelease.mentions)
          ELSE /\ IF holder = p THEN BeginDrain("deal") ELSE NoDrain
               /\ UNCHANGED <<holder, epoch, laps, summons, anchor, spokeThisLap, stagedPending,
                              cell, votes, busy, haltSlot, deliveryDue, unread, gateVars,
                              stashedRelease, haltedPendingUser>>
  /\ UNCHANGED <<pauseVars, stdin, worldVars>>
-----------------------------------------------------------------------------
(* deliver_backlog: the holder's drain *)

EndDrain == drain' = "none" /\ batch' = 0

\* What a drain leaves alone in every case but an unwound turn.
drainKeeps == <<laps, summons, anchor, spokeThisLap, stagedPending, votes, cell, deliveryDue,
                pauseVars, releaseVars, gateVars, haltedPendingUser, input, worldVars>>

\* Mutant of UnwindWedgedTurn: the drain goes on after its turn is unwound.
UnwindKeepsDraining ==
  /\ busy' = busy \ {holder}
  /\ Halt /\ DeclareHostHalt("wedged") /\ NoDrain
  /\ UNCHANGED <<rx, deferred, unread, stdin, drainKeeps>>

\* unwind_wedged_turn: the turn can never complete.  Nothing staged is delivered here.
UnwindWedgedTurn ==
  /\ busy' = busy \ {holder}
  /\ Halt /\ DeclareHostHalt("wedged") /\ EndDrain
  /\ UNCHANGED <<rx, deferred, unread, stdin, drainKeeps>>

\* No stdin registered: the cycle waits for a ParticipantJoined.
DrainNoInput ==
  /\ drain # "none" /\ batch = 0 /\ input[holder] = "none"
  /\ EndDrain
  /\ UNCHANGED <<rx, deferred, unread, stdin, holder, epoch, busy, haltSlot, drainKeeps>>

Drains == drain # "none" /\ input[holder] # "none"

\* The backlog could not be read.
DrainReadFails == Drains /\ StorageFaults /\ UnwindWedgedTurn

\* Mutants of DrainEmpty: an empty turn is never passed on, or leaves its busy flag up.
EmptyTurnIsKept ==
  /\ Drains /\ holder \notin unread
  /\ busy' = IF drain = "deal" /\ batch = 0 THEN busy \ {holder} ELSE busy
  /\ EndDrain
  /\ UNCHANGED <<rx, deferred, unread, stdin, holder, epoch, haltSlot, drainKeeps>>

EmptyTurnStaysBusy ==
  /\ Drains /\ holder \notin unread
  /\ IF drain = "deal" /\ batch = 0
       THEN deferred' = Append(deferred, [type |-> "TurnComplete", participant |-> holder,
                                          epoch |-> epoch, ending |-> "Passed"])
       ELSE UNCHANGED deferred
  /\ EndDrain
  /\ UNCHANGED <<rx, unread, stdin, holder, epoch, busy, haltSlot, drainKeeps>>

\* Nothing unread.  On the first page of a deal there is no turn to end, so the ring passes it
\* on (pass_empty_turn); otherwise the drain is finished.
DrainEmpty ==
  /\ Drains /\ holder \notin unread
  /\ IF drain = "deal" /\ batch = 0
       THEN /\ busy' = busy \ {holder}
            /\ deferred' = Append(deferred, [type |-> "TurnComplete", participant |-> holder,
                                             epoch |-> epoch, ending |-> "Passed"])
       ELSE UNCHANGED <<busy, deferred>>
  /\ EndDrain
  /\ UNCHANGED <<rx, unread, stdin, holder, epoch, haltSlot, drainKeeps>>

\* Mutant of DrainReadsCommand: a pause queues behind what the drain has set aside.
DrainDefersThePause ==
  /\ Drains /\ holder \in unread /\ rx # <<>>
  /\ rx' = Tail(rx)
  /\ LET c == Head(rx)
         ends == \/ c.type \in {"UserMessage", "Pause"}
                 \/ c.type = "HaltDeclared" /\ c.participant = holder
     IN deferred' = Append(deferred, c) /\ (IF ends THEN EndDrain ELSE NoDrain)
  /\ UNCHANGED <<unread, stdin, holder, epoch, busy, haltSlot, drainKeeps>>

\* A command that is waiting always wins over the write.  A user message, the holder's own
\* halt and a pause end the drain, the pause from the FRONT of the deferred queue; any other
\* command is set aside and the page is tried again.
DrainReadsCommand ==
  /\ Drains /\ holder \in unread /\ rx # <<>>
  /\ rx' = Tail(rx)
  /\ LET c == Head(rx)
         ends == \/ c.type \in {"UserMessage", "Pause"}
                 \/ c.type = "HaltDeclared" /\ c.participant = holder
     IN /\ deferred' = IF c.type = "Pause" THEN <<c>> \o deferred ELSE Append(deferred, c)
        /\ IF ends THEN EndDrain ELSE NoDrain
  /\ UNCHANGED <<unread, stdin, holder, epoch, busy, haltSlot, drainKeeps>>

\* One page goes out whole and the cursor moves past it; a commit that fails leaves the page
\* to be offered again, and a page of a long backlog is followed by the next.
DrainLands ==
  /\ Drains /\ holder \in unread /\ rx = <<>> /\ input[holder] = "open"
  /\ stdin' = [stdin EXCEPT ![holder] = @ + 1]
  /\ \/ unread' = unread \ {holder} /\ EndDrain
     \/ StorageFaults /\ UNCHANGED unread /\ EndDrain
     \/ /\ LongBacklogs /\ UNCHANGED unread
        /\ IF batch + 1 < MaxTurnBatches THEN batch' = batch + 1 /\ UNCHANGED drain ELSE EndDrain
  /\ UNCHANGED <<rx, deferred, holder, epoch, busy, haltSlot, drainKeeps>>

\* Mutant of DrainUnreachable: a closed stdin is tried again.
DrainRetriesForever ==
  /\ Drains /\ holder \in unread /\ rx = <<>> /\ input[holder] = "closed"
  /\ UNCHANGED <<rx, deferred, holder, epoch, busy, haltSlot, unread, stdin, drain, batch,
                 drainKeeps>>

\* The process is gone: its stdin refuses the page.
DrainUnreachable ==
  /\ Drains /\ holder \in unread /\ rx = <<>> /\ input[holder] = "closed"
  /\ UnwindWedgedTurn
-----------------------------------------------------------------------------
(* The task and its environment *)

Completion ==
  HasCommand /\ \E c \in {Next1} :
    \/ CompletionConsensus(c)
    \/ CompletionSpins(c)
    \/ CompletionAtStage(c)
    \/ CompletionSteps(c)
    \/ CompletionDiscarded(c)
    \/ CompletionReplays(c)

Dispatch ==
  \/ Completion
  \/ UserSteers \/ HoldForPause \/ UserMessageStashed \/ UserMessageReleases
  \/ MessageStaged \/ MessageUnstaged
  \/ HaltDeclared \/ GateOpened \/ GateResolved \/ Summon
  \/ Pause \/ Resume \/ ParticipantJoined
  \/ GraceExpires \/ GraceHolds

Drain ==
  \/ DrainNoInput \/ DrainReadFails \/ DrainEmpty
  \/ DrainReadsCommand \/ DrainLands \/ DrainUnreachable

\* Mutant of RingStep: the loop's read is never bounded.
RingStepWithoutGrace == (Dispatch \/ Drain) /\ graceArmed' = FALSE

\* At the top of the loop the next read is bounded iff a release is held and nothing pauses
\* the clock.
RingStep ==
  /\ Dispatch \/ Drain
  /\ graceArmed' = (drain' = "none" /\ stashedRelease'.some /\ ~paused' /\ ~latch)

\* Any other task: whatever it does, it does not touch the ring's own state.
EnvStep == UNCHANGED ringVars /\ WorldTypeOK'

\* run_sequencer seeds the gate latch from storage; a seed that fails leaves it empty.
RingInit ==
  /\ holder = NoOne /\ epoch = 0
  /\ deferred = <<>> /\ held = <<>> /\ paused = FALSE
  /\ laps = 0 /\ summons = <<>> /\ anchor = NoOne
  /\ spokeThisLap = FALSE /\ stagedPending = FALSE
  /\ windingDown = NoOne /\ stashedRelease = NoStash
  /\ haltedPendingUser = FALSE
  /\ gateSeedFailed \in MayFail
  /\ openGates = IF gateSeedFailed THEN {} ELSE gateRows
  /\ drain = "none" /\ batch = 0 /\ graceArmed = FALSE
  /\ cell = [p \in Participants |-> 0]

Init == WorldTypeOK /\ RingInit

Next == RingStep \/ EnvStep

Spec == Init /\ [][Next]_vars
-----------------------------------------------------------------------------
(* What the ring keeps true of its own state, whatever the other tasks do *)

\* A release is held back only for a halted holder's completion, and while one is owed nobody
\* has the turn: a live completion never finds a release to replay, and a release is never
\* dealt into the turn the halt ended.
WindDownHasNoHolder ==
  /\ windingDown # NoOne => holder = NoOne
  /\ stashedRelease.some => windingDown # NoOne
  /\ graceArmed => stashedRelease.some

\* A delivery is always somebody's: the drain has a holder to feed, and ends with its turn.
DrainHasAHolder == drain # "none" => holder # NoOne

\* The lease the ring's state amounts to.
Token == INSTANCE TurnToken WITH Holders <- Participants, Nobody <- NoOne

\* The epoch the holder was handed is the current one, and nobody else's is.
EpochNamesTheHolder == Token!EpochNamesTheHolder

RingInv == TypeOK /\ WindDownHasNoHolder /\ DrainHasAHolder /\ EpochNamesTheHolder

\* Whatever a command does, the turn it moves is granted or withdrawn under a fresh epoch.
RefinesToken == Token!TokenSpec

=============================================================================
