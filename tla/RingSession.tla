----------------------------- MODULE RingSession -----------------------------
(***************************************************************************)
(* One live session: the turn ring, its participants' processes and pumps,  *)
(* and what the application does on the user's behalf (core/state.rs and    *)
(* the ring notifies of signaling/bridge).                                  *)
(*                                                                         *)
(* Every notify is a try_send on the bounded control channel, so it is lost *)
(* when the channel is full, and every one is the last of several steps     *)
(* other tasks can run between.                                             *)
(***************************************************************************)
EXTENDS TurnPump

CONSTANTS
  Budget,         \* how often each kind of input happens in a behaviour, see Spend
  TurnOutcomes    \* the <<ending, posts>> pairs a turn may have

\* What the user, the host and bad luck do to a session.
Kinds == {"message", "gapMessage", "prompt", "mention", "stop", "resume", "stage", "unstage",
          "halt", "gate", "error", "death", "join"}

ASSUME InputsAssumption ==
  /\ Budget \in [Kinds -> Nat]
  /\ TurnOutcomes \subseteq Endings \X BOOLEAN

VARIABLES
  sending,        \* broadcast_as in progress: "idle", "steered", "posted" or "cleared"
  stopping,       \* cancel_session_turn has set the latch and not yet told the ring
  stagedContent,  \* the staged response: "none", "staged" or "delivering"
  waiter,         \* per pending gate, the participant whose tool call waits on it, if one does
  answered,       \* gates resolved out of band whose wake is not yet decided
  left,           \* what is left of the budget
  silent,         \* history: who ended a turn without speaking since the last release or speech
  dealt           \* history: turns handed out since the last release

appVars == <<sending, stopping, stagedContent, waiter, answered>>
allVars == <<vars, pumpVars, appVars, left, silent, dealt>>

AppTypeOK ==
  /\ sending \in {"idle", "steered", "posted", "cleared"}
  /\ stopping \in BOOLEAN
  /\ stagedContent \in {"none", "staged", "delivering"}
  /\ waiter \in [Gates -> Someone]
  /\ answered \subseteq Gates
  /\ left \in [Kinds -> Nat]
  /\ silent \subseteq Participants
  /\ dealt \in Nat

SessionTypeOK == TypeOK /\ PumpTypeOK /\ AppTypeOK

Spend(kind) ==
  /\ left[kind] > 0
  /\ left' = [left EXCEPT ![kind] = @ - 1]
  /\ UNCHANGED <<silent, dealt>>
Free == UNCHANGED <<left, silent, dealt>>
-----------------------------------------------------------------------------
(* A message from the user: broadcast_as, under the sessions lock throughout *)

SessionsLocked == sending # "idle"

\* isLocked: while somebody is busy or a Stop settles, the box stages and does not send.  A Stop
\* settles when the last busy flag is down, so Paused unlocks no box that busy keeps locked.
Locked == busy # {} \/ stopping
BoxUnlocked == ~Locked /\ stagedContent = "none"

\* The box is unlocked and the ring is stopped, not between a completion and the next deal.
AtLeisure == BoxUnlocked /\ holder = NoOne /\ rx = <<>> /\ deferred = <<>>

\* A send finds the session live: with a process gone, broadcast_as starts the session anew
\* first, and that is another behaviour of this module.
Deliverable == ~SessionsLocked /\ alive = Participants

\* Mutant of Preempts: idle processes are interrupted too.
PreemptsEveryone ==
  /\ Deliverable
  /\ sending' = "steered"
  /\ latch' = FALSE
  /\ interrupted' = alive
  /\ interruptedEpoch' = cell
  /\ UNCHANGED <<ringVars, sharedVars, enabled, gateRows, alive, working, interruptDue, turnEpoch,
                 lastCompleted, clearing, haltOwed, retry, stopping, stagedContent, waiter,
                 answered>>

\* The steer: the pause latch comes down and every process is interrupted before anything is
\* posted.
Preempts ==
  /\ Deliverable
  /\ sending' = "steered"
  /\ latch' = FALSE
  /\ interrupted' = working
  /\ interruptedEpoch' = cell
  /\ UNCHANGED <<ringVars, sharedVars, enabled, gateRows, alive, working, interruptDue, turnEpoch,
                 lastCompleted, clearing, haltOwed, retry, stopping, stagedContent, waiter,
                 answered>>

\* The user sends from a box at leisure, or in the gap between two turns; a plugin and the
\* close-out prompt send at any time.
UserSends == Spend("message") /\ AtLeisure /\ Preempts
UserSendsInGap == Spend("gapMessage") /\ BoxUnlocked /\ Preempts
HostPrompts == Spend("prompt") /\ Preempts

UserRowPosted ==
  /\ sending = "steered"
  /\ sending' = "posted"
  /\ unread' = Participants
  /\ UNCHANGED <<ringVars, rx, stdin, votes, busy, haltSlot, deliveryDue, input, worldVars,
                 pumpVars, stopping, stagedContent, waiter, answered>>
  /\ Free

\* Mutant of HaltCleared: the release goes on and the banner stays.
HaltIsKept ==
  /\ sending = "posted"
  /\ sending' = "cleared"
  /\ UNCHANGED <<vars, pumpVars, stopping, stagedContent, waiter, answered>>
  /\ Free

\* user_responded: the halt row is cleared first ...
HaltCleared ==
  /\ sending = "posted"
  /\ sending' = "cleared"
  /\ haltSlot' = "none"
  /\ UNCHANGED <<ringVars, rx, unread, stdin, votes, busy, deliveryDue, input, worldVars,
                 pumpVars, stopping, stagedContent, waiter, answered>>
  /\ Free

\* ... and the ring is released after it, with whoever the user named.
RingReleased(mentions) ==
  /\ sending = "cleared"
  /\ sending' = "idle"
  /\ rx' = TrySend(rx, [type |-> "UserMessage", mentions |-> mentions])
  /\ stagedContent' = IF stagedContent = "delivering" THEN "none" ELSE stagedContent
  /\ UNCHANGED <<ringVars, unread, stdin, votes, busy, haltSlot, deliveryDue, input, worldVars,
                 pumpVars, stopping, waiter, answered>>

\* The message may @mention a participant.
ReleasesRing ==
  \/ RingReleased(<<>>) /\ Free
  \/ \E p \in Participants : RingReleased(<<p>>) /\ Spend("mention")
-----------------------------------------------------------------------------
(* Stop: cancel_session_turn *)

\* The Stop button shows while the box is locked.
StopLatches ==
  /\ Spend("stop") /\ Locked /\ ~SessionsLocked /\ ~stopping
  /\ latch' = TRUE /\ stopping' = TRUE
  /\ UNCHANGED <<ringVars, sharedVars, enabled, gateRows, pumpVars, sending, stagedContent,
                 waiter, answered>>

StopReachesRing ==
  /\ stopping /\ stopping' = FALSE
  /\ rx' = TrySend(rx, [type |-> "Pause"])
  /\ UNCHANGED <<ringVars, unread, stdin, votes, busy, haltSlot, deliveryDue, input, worldVars,
                 pumpVars, sending, stagedContent, waiter, answered>>
  /\ Free
-----------------------------------------------------------------------------
(* Staging: stage_user_response, unstage_user_response, deliver_staged *)

\* The box stages while it is locked, one message at a time.
Stage ==
  /\ Spend("stage") /\ Locked /\ stagedContent = "none"
  /\ stagedContent' = "staged"
  /\ rx' = TrySend(rx, [type |-> "MessageStaged"])
  /\ UNCHANGED <<ringVars, unread, stdin, votes, busy, haltSlot, deliveryDue, input, worldVars,
                 pumpVars, sending, stopping, waiter, answered>>

Unstage ==
  /\ Spend("unstage") /\ stagedContent # "none"
  /\ stagedContent' = "none"
  /\ rx' = TrySend(rx, [type |-> "MessageUnstaged"])
  /\ UNCHANGED <<ringVars, unread, stdin, votes, busy, haltSlot, deliveryDue, input, worldVars,
                 pumpVars, sending, stopping, waiter, answered>>

\* The staged content goes out as a message that interrupts nobody, or there is none any more.
DeliverStaged ==
  /\ deliveryDue > 0 /\ Deliverable
  /\ deliveryDue' = deliveryDue - 1
  /\ IF stagedContent = "staged"
       THEN stagedContent' = "delivering" /\ sending' = "steered" /\ latch' = FALSE
       ELSE UNCHANGED <<stagedContent, sending, latch>>
  /\ UNCHANGED <<ringVars, rx, unread, stdin, votes, busy, haltSlot, input, enabled, gateRows,
                 pumpVars, stopping, waiter, answered>>
  /\ Free
-----------------------------------------------------------------------------
(* Approval gates *)

Blocked(p) == \E g \in Gates : waiter[g] = p

\* A gated tool call parks its durable row, then tells the ring.  The push hook's call waits for
\* the answer; a gated command's returns at once, and its process carries on.
GateParks(p, g) ==
  /\ Spend("gate")
  /\ p \in working /\ ~Blocked(p) /\ g \notin gateRows \cup answered
  /\ gateRows' = gateRows \cup {g}
  /\ \E caller \in {p, NoOne} : waiter' = [waiter EXCEPT ![g] = caller]
  /\ rx' = TrySend(rx, [type |-> "GateOpened", gate |-> g])
  /\ UNCHANGED <<ringVars, unread, stdin, votes, busy, haltSlot, deliveryDue, input, enabled,
                 latch, pumpVars, sending, stopping, stagedContent, answered>>

\* The call stops waiting, its client timed out or its process was interrupted; the row stays
\* pending.
WaiterTimesOut(g) ==
  /\ g \in gateRows /\ waiter[g] # NoOne
  /\ waiter' = [waiter EXCEPT ![g] = NoOne]
  /\ UNCHANGED <<vars, pumpVars, sending, stopping, stagedContent, answered>>
  /\ Free

\* The user answers.  In band, the waiting tool call gets its result; out of band the answer
\* is a row, and resolve_choice goes on to decide whether the ring needs waking.
GateAnswered(g) ==
  /\ g \in gateRows
  /\ gateRows' = gateRows \ {g}
  /\ rx' = TrySend(rx, [type |-> "GateResolved", gate |-> g])
  /\ IF waiter[g] # NoOne
       THEN waiter' = [waiter EXCEPT ![g] = NoOne] /\ UNCHANGED <<answered, unread>>
       ELSE answered' = answered \cup {g} /\ unread' = Participants /\ UNCHANGED waiter
  /\ UNCHANGED <<ringVars, stdin, votes, busy, haltSlot, deliveryDue, input, enabled, latch,
                 pumpVars, sending, stopping, stagedContent>>
  /\ Free

\* tray_wake: release an idle ring that nothing pauses; a gate's answer clears no halt.
TrayWakes(g) ==
  /\ g \in answered /\ ~SessionsLocked
  /\ answered' = answered \ {g}
  /\ rx' = IF latch \/ busy # {} THEN rx
           ELSE TrySend(rx, [type |-> "UserMessage", mentions |-> <<>>])
  /\ UNCHANGED <<ringVars, unread, stdin, votes, busy, haltSlot, deliveryDue, input, worldVars,
                 pumpVars, sending, stopping, stagedContent, waiter>>
  /\ Free
-----------------------------------------------------------------------------
(* The commands no producer in the repository sends *)

\* Resume and ParticipantJoined have no producer outside the tests; the loop keeps its arms for
\* one, and this is what its documentation expects of it.
ResumeSent ==
  /\ Spend("resume")
  /\ latch' = FALSE
  /\ rx' = TrySend(rx, [type |-> "Resume"])
  /\ UNCHANGED <<ringVars, unread, stdin, votes, busy, haltSlot, deliveryDue, input, enabled,
                 gateRows, pumpVars, appVars>>

Respawns(p) ==
  /\ Spend("join") /\ p \notin alive
  /\ alive' = alive \cup {p}
  /\ rx' = TrySend(rx, [type |-> "ParticipantJoined", participant |-> p])
  /\ UNCHANGED <<ringVars, unread, stdin, votes, busy, haltSlot, deliveryDue, input, worldVars,
                 working, interrupted, interruptedEpoch, interruptDue, turnEpoch, lastCompleted,
                 clearing, haltOwed, retry, appVars>>
-----------------------------------------------------------------------------
(* Processes and pumps *)

EndsTurn(p) ==
  /\ ~Blocked(p) /\ Free /\ UNCHANGED appVars
  /\ \E o \in TurnOutcomes : TurnEnds(p, o[1], o[2])

ProcessStep(p) ==
  \/ AgentStarts(p) /\ Free /\ UNCHANGED appVars
  \/ AgentFolds(p) /\ Free /\ UNCHANGED appVars
  \/ FirstEvent(p) /\ Free /\ UNCHANGED appVars
  \/ EndsTurn(p)
  \/ ~Blocked(p) /\ TurnErrs(p) /\ Spend("error") /\ UNCHANGED appVars
  \/ PumpClearsBusy(p) /\ Free /\ UNCHANGED appVars
  \/ RetryFires(p) /\ Free /\ UNCHANGED appVars
  \/ ~Blocked(p) /\ HaltTool(p) /\ Spend("halt") /\ UNCHANGED appVars
  \/ HaltReachesRing(p) /\ Free /\ UNCHANGED appVars
  \/ ~SessionsLocked /\ HaltInterrupts(p) /\ Free /\ UNCHANGED appVars
  \/ /\ Dies(p) /\ Spend("death")
     /\ waiter' = [g \in Gates |-> IF waiter[g] = p THEN NoOne ELSE waiter[g]]
     /\ UNCHANGED <<sending, stopping, stagedContent, answered>>
-----------------------------------------------------------------------------
(* The ring, with two histories the properties speak of *)

\* release_ring runs in this step: on a message it reads, or on one it held back.
Releases ==
  \/ Dispatches("UserMessage") /\ windingDown = NoOne
  \/ stashedRelease.some /\ ~stashedRelease'.some

CompletesLive == Dispatches("TurnComplete") /\ Live(Next1)

\* This step hands a turn out.
Deals == holder' # NoOne /\ epoch' # epoch

SilentAfter ==
  CASE Releases      -> {}
    [] CompletesLive -> IF Next1.ending = "Spoke" THEN {} ELSE silent \cup {Next1.participant}
    [] OTHER         -> silent

\* The interrupt makes a halted process complete in milliseconds; HALT_WIND_DOWN_GRACE is three
\* seconds.  So the clock runs out only on a process that died.
GraceOutlastsInterrupt ==
  drain = "none" /\ deferred = <<>> /\ rx = <<>>
    => interruptDue = {} /\ windingDown \notin interrupted

RingTurn ==
  /\ RingStep
  /\ GraceOutlastsInterrupt
  /\ silent' = SilentAfter
  /\ dealt' = (IF Releases THEN 0 ELSE dealt) + (IF Deals THEN 1 ELSE 0)
  /\ UNCHANGED <<pumpVars, appVars, left>>

UserStep ==
  \/ UserSends \/ UserSendsInGap \/ HostPrompts \/ UserRowPosted \/ HaltCleared
  \/ ReleasesRing
  \/ StopLatches \/ StopReachesRing
  \/ Stage \/ Unstage \/ DeliverStaged
  \/ \E g \in Gates : GateAnswered(g) \/ TrayWakes(g) \/ WaiterTimesOut(g)

SessionStep ==
  \/ \E p \in Participants : ProcessStep(p)
  \/ \E p \in Participants, g \in Gates : GateParks(p, g)
  \/ UserStep
  \/ \E p \in Participants : Respawns(p)
  \/ ResumeSent

\* spawn_ring deals nobody: orientation is over and the session's first message is on its way.
\* Nothing changes the roster after spawn; `late` participants have yet to join.
SessionInit ==
  /\ rx = <<[type |-> "UserMessage", mentions |-> <<>>]>>
  /\ unread = Participants
  /\ stdin = [p \in Participants |-> 0]
  /\ votes = {} /\ busy = {} /\ haltSlot = "none" /\ deliveryDue = 0
  /\ enabled = Participants /\ latch = FALSE
  /\ gateRows = {}
  /\ RingInit
  /\ \E late \in SUBSET Participants :
       /\ Budget["join"] = 0 => late = {}
       /\ Participants # {} => late # Participants
       /\ alive = Participants \ late
       /\ input = [p \in Participants |-> IF p \in late THEN "none" ELSE "open"]
  /\ PumpInit
  /\ sending = "idle" /\ stopping = FALSE /\ stagedContent = "none"
  /\ waiter = [g \in Gates |-> NoOne] /\ answered = {}
  /\ left = Budget /\ silent = {} /\ dealt = 0

SessionNext == RingTurn \/ SessionStep

SessionSpec == SessionInit /\ [][SessionNext]_allVars

\* Every task of the application and of the ring gets to run; a working process ends its turn,
\* which no code here can make it do; a waiter gives up after its timeout.  Nothing is owed by
\* the user, and no process is bound to die, to halt or to err.
ProcessFairness(p) ==
  /\ WF_allVars(AgentStarts(p) /\ Free /\ UNCHANGED appVars)
  /\ WF_allVars(FirstEvent(p) /\ Free /\ UNCHANGED appVars)
  /\ WF_allVars(EndsTurn(p))
  /\ WF_allVars(PumpClearsBusy(p) /\ Free /\ UNCHANGED appVars)
  /\ WF_allVars(RetryFires(p) /\ Free /\ UNCHANGED appVars)
  /\ WF_allVars(HaltReachesRing(p) /\ Free /\ UNCHANGED appVars)
  /\ WF_allVars(~SessionsLocked /\ HaltInterrupts(p) /\ Free /\ UNCHANGED appVars)

SessionFairSpec ==
  /\ SessionSpec
  /\ WF_allVars(RingTurn)
  /\ WF_allVars(UserRowPosted) /\ WF_allVars(HaltCleared) /\ WF_allVars(ReleasesRing)
  /\ WF_allVars(StopReachesRing) /\ WF_allVars(DeliverStaged)
  /\ \A g \in Gates : WF_allVars(TrayWakes(g)) /\ WF_allVars(WaiterTimesOut(g))
  /\ \A p \in Participants : ProcessFairness(p)

=============================================================================
