------------------------------- MODULE Cancel -------------------------------
(***************************************************************************)
(* The Stop button end to end: the activity tracker (core/activity.rs) and  *)
(* the escalation of a Stop (core/state.rs), which interrupts the agents,   *)
(* waits, and kills them when they do not stop.  Every press runs an        *)
(* escalation of its own, detached, next to the user's next message and to  *)
(* the turns the ring deals.                                                *)
(*                                                                         *)
(* The sessions lock is held through a whole message and through each of an *)
(* escalation's steps, and not between them.                                *)
(***************************************************************************)
EXTENDS Integers, FiniteSets

CONSTANTS
  Agents,         \* the session's participants
  MaxPresses,     \* bound: Stops, one escalation each
  MaxSteers,      \* bound: messages of the user
  MaxTurnsDealt,  \* bound: turns the ring deals
  MaxHalts        \* bound: halts declared

ASSUME CancelAssumption ==
  /\ IsFiniteSet(Agents)
  /\ {MaxSteers, MaxTurnsDealt, MaxHalts, MaxPresses} \subseteq Nat

VARIABLES
  \* the tracker
  agentBusy,      \* Inner.busy
  cancelling,     \* Inner.cancelling
  shown,          \* what was last emitted: Inner.last and Inner.last_busy
  pauseLatch,     \* ActivityTracker.paused
  awaiting,       \* the shared awaiting flag
  idledSince,     \* idled_since_cancel
  \* the session
  superseded,     \* cancel_superseded
  escalation,     \* per press: where its escalation stands
  steering,       \* a message is being sent, under the sessions lock: "no", "posting"
  ringPaused,     \* the ring has heard a pause and no message since
  reconcile,      \* pending_reconcile holds the session
  \* the agents
  gone,           \* who has been killed and not respawned
  announcing,     \* a halt has set the flag and not yet refreshed the tracker
  \* history and bounds
  fresh,          \* the busy agents whose turn was dealt for a message sent after the last Stop,
                  \* with none of the turns before it still running
  answeredStop,   \* a message was sent since the last Stop
  steers, deals, halts

trackerVars == <<agentBusy, cancelling, shown, pauseLatch, idledSince>>
countVars == <<steers, deals, halts>>
cancelVars == <<trackerVars, awaiting, superseded, escalation, steering, ringPaused, reconcile,
                gone, announcing, fresh, answeredStop, countVars>>

Presses == 1..MaxPresses
Activities == {"idle", "busy", "awaiting_user", "cancelling", "paused"}
Outcomes == {"honored", "superseded", "sigkill"}
Steps == {"none", "pausing", "interrupting", "waiting", "done"} \cup Outcomes

CancelTypeOK ==
  /\ agentBusy \in [Agents -> BOOLEAN]
  /\ {cancelling, pauseLatch, awaiting, idledSince, superseded, ringPaused, reconcile,
      announcing, answeredStop} \subseteq BOOLEAN
  /\ shown \in [state : Activities, busy : SUBSET Agents]
  /\ escalation \in [Presses -> Steps]
  /\ steering \in {"no", "posting"}
  /\ gone \subseteq Agents /\ fresh \subseteq Agents
  /\ steers \in 0..MaxSteers /\ deals \in 0..MaxTurnsDealt /\ halts \in 0..MaxHalts

CancelInit ==
  /\ agentBusy = [a \in Agents |-> FALSE]
  /\ cancelling = FALSE /\ pauseLatch = FALSE /\ awaiting = FALSE /\ idledSince = FALSE
  /\ shown = [state |-> "idle", busy |-> {}]
  /\ superseded = FALSE /\ steering = "no" /\ ringPaused = FALSE /\ reconcile = FALSE
  /\ escalation = [e \in Presses |-> "none"]
  /\ gone = {} /\ announcing = FALSE
  /\ fresh = {} /\ answeredStop = FALSE
  /\ steers = 0 /\ deals = 0 /\ halts = 0
-----------------------------------------------------------------------------
(* The tracker *)

BusyOf(flags) == {a \in Agents : flags[a]}

Derive(busy, isAwaiting, isCancelling, isPaused) ==
  IF isCancelling THEN "cancelling"
  ELSE IF isPaused THEN "paused"
  ELSE IF isAwaiting THEN "awaiting_user"
  ELSE IF busy # {} THEN "busy" ELSE "idle"

\* Mutant of Recompute: a change of who is busy alone is not emitted.
RecomputeOnState(flags, isCancelling, isPaused, idled) ==
  LET busy == BusyOf(flags)
      settled == isCancelling /\ busy # {}
      now == Derive(busy, awaiting', settled, isPaused)
  IN /\ agentBusy' = flags
     /\ cancelling' = settled
     /\ pauseLatch' = isPaused
     /\ idledSince' = (idled \/ busy = {})
     /\ shown' = IF now = shown.state THEN shown ELSE [state |-> now, busy |-> busy]

\* recompute_locked, with the flags as the caller leaves them: an idle session has settled its
\* cancel, and a change of the state or of who is busy is emitted.
Recompute(flags, isCancelling, isPaused, idled) ==
  LET busy == BusyOf(flags)
      settled == isCancelling /\ busy # {}
  IN /\ agentBusy' = flags
     /\ cancelling' = settled
     /\ pauseLatch' = isPaused
     /\ idledSince' = (idled \/ busy = {})
     /\ shown' = [state |-> Derive(busy, awaiting', settled, isPaused), busy |-> busy]

SetBusy(a, isBusy) ==
  Recompute([agentBusy EXCEPT ![a] = isBusy], cancelling, pauseLatch, idledSince)
Refresh == Recompute(agentBusy, cancelling, pauseLatch, idledSince)
\* set_cancelling(true) and then set_paused(true): a fresh Stop has no evidence of an idle yet.
MarkStopped == Recompute(agentBusy, TRUE, TRUE, FALSE)
\* set_cancelling(false) and then set_paused(false).
MarkRunning == Recompute(agentBusy, FALSE, FALSE, idledSince)
-----------------------------------------------------------------------------
(* The agents and the ring *)

Unlocked == steering = "no"

\* The ring deals no turn while it is paused or the latch is up; whether it has heard of a halt that
\* stands is left open.  It does not wait for the holder before: a release deals the next turn
\* whoever is still busy, also to an agent whose own interrupted turn goes on, and leaves that
\* holder's flag to its pump.
TurnStarts(a) ==
  /\ deals < MaxTurnsDealt
  /\ a \notin gone /\ ~ringPaused /\ ~pauseLatch
  /\ deals' = deals + 1
  /\ UNCHANGED awaiting
  /\ SetBusy(a, TRUE)
  /\ fresh' = IF answeredStop /\ BusyOf(agentBusy) \subseteq fresh THEN fresh \cup {a} ELSE fresh
  /\ UNCHANGED <<superseded, escalation, steering, ringPaused, reconcile, gone, announcing,
                 answeredStop, steers, halts>>

\* The turn ends, by itself, for an interrupt or because the process is gone: the pump clears
\* the busy flag.
TurnEnds(a) ==
  /\ agentBusy[a]
  /\ UNCHANGED awaiting
  /\ SetBusy(a, FALSE)
  /\ fresh' = fresh \ {a}
  /\ UNCHANGED <<superseded, escalation, steering, ringPaused, reconcile, gone, announcing,
                 answeredStop, countVars>>

\* set_session_awaiting: the shared flag first, the tracker's refresh some steps later.
DeclareHalt ==
  /\ halts < MaxHalts /\ ~announcing /\ Unlocked
  /\ halts' = halts + 1
  /\ awaiting' = TRUE /\ announcing' = TRUE
  /\ UNCHANGED <<trackerVars, superseded, escalation, steering, ringPaused, reconcile, gone, fresh,
                 answeredStop, steers, deals>>

RefreshAfterHalt ==
  /\ announcing /\ announcing' = FALSE
  /\ UNCHANGED awaiting
  /\ Refresh
  /\ UNCHANGED <<superseded, escalation, steering, ringPaused, reconcile, gone, fresh, answeredStop,
                 countVars>>
-----------------------------------------------------------------------------
(* The user's message: broadcast_as, under the sessions lock throughout *)

\* It respawns who is gone, clears the awaiting flag, supersedes the escalations, releases the
\* latch, consumes the queued reconcile directive and preempts: whether
\* and when an interrupted agent stops is left to TurnEnds.
Steer ==
  /\ Unlocked /\ steers < MaxSteers
  /\ steers' = steers + 1
  /\ steering' = "posting"
  /\ awaiting' = FALSE
  /\ superseded' = TRUE
  /\ MarkRunning
  /\ reconcile' = FALSE
  /\ gone' = {}
  /\ UNCHANGED <<escalation, ringPaused, announcing, fresh, answeredStop, deals, halts>>

\* The row is posted: the ring is told, and the lock is let go.
SteerPosted ==
  /\ steering = "posting"
  /\ steering' = "no"
  /\ ringPaused' = FALSE
  /\ answeredStop' = TRUE
  /\ UNCHANGED <<trackerVars, awaiting, superseded, escalation, reconcile, gone, announcing, fresh,
                 countVars>>
-----------------------------------------------------------------------------
(* The Stop *)

At(e, step) == escalation[e] = step
Goes(e, step) == escalation' = [escalation EXCEPT ![e] = step]

\* cancel_session_turn under the lock: latch the pause and forget an earlier supersede.
PressStop(e) ==
  /\ At(e, "none") /\ Unlocked /\ \A f \in 1..(e - 1) : ~At(f, "none")
  /\ UNCHANGED awaiting
  /\ MarkStopped
  /\ superseded' = FALSE
  /\ Goes(e, "pausing")
  /\ fresh' = {} /\ answeredStop' = FALSE
  /\ UNCHANGED <<steering, ringPaused, reconcile, gone, announcing, countVars>>

\* notify_ring_pause, outside the lock.  Under a git commit, a push or a migration the escalation
\* then waits for it or for a cap (await_atomic_op_or_cap), which only delays the interrupt.
PauseRing(e) ==
  /\ At(e, "pausing")
  /\ ringPaused' = TRUE
  /\ Goes(e, "interrupting")
  /\ UNCHANGED <<trackerVars, awaiting, superseded, steering, reconcile, gone, announcing, fresh,
                 answeredStop, countVars>>

\* The first half of interrupt_then_escalate: every agent is interrupted.
InterruptAll(e) ==
  /\ At(e, "interrupting") /\ Unlocked
  /\ Goes(e, "waiting")
  /\ UNCHANGED <<trackerVars, awaiting, superseded, steering, ringPaused, reconcile, gone,
                 announcing, fresh, answeredStop, countVars>>

\* Mutant of EscalationOutcome: a message that came meanwhile is not looked at.
EscalationOutcomeBlind(bothIdle, isSuperseded, idled) == IF bothIdle THEN "honored" ELSE "sigkill"

\* escalation_outcome.
EscalationOutcome(bothIdle, isSuperseded, idled) ==
  IF bothIdle THEN "honored"
  ELSE IF isSuperseded /\ idled THEN "superseded" ELSE "sigkill"

\* await_both_idle returns: everybody is idle, or the deadline has passed.  The verdict is made
\* here, and acted on after the cancel event is recorded.
Decide(e) ==
  /\ At(e, "waiting")
  /\ Goes(e, EscalationOutcome(BusyOf(agentBusy) = {}, superseded, idledSince))
  /\ UNCHANGED <<trackerVars, awaiting, superseded, steering, ringPaused, reconcile, gone,
                 announcing, fresh, answeredStop, countVars>>

Honored(e) ==
  /\ At(e, "honored")
  /\ reconcile' = TRUE
  /\ Goes(e, "done")
  /\ UNCHANGED <<trackerVars, awaiting, superseded, steering, ringPaused, gone, announcing, fresh,
                 answeredStop, countVars>>

SkipTheKill(e) ==
  /\ At(e, "superseded")
  /\ UNCHANGED awaiting
  /\ MarkRunning
  /\ Goes(e, "done")
  /\ UNCHANGED <<superseded, steering, ringPaused, reconcile, gone, announcing, fresh, answeredStop,
                 countVars>>

\* Mutant of KillNow: the handle goes and the processes stay.
KillNowSpares(e) ==
  /\ At(e, "sigkill") /\ Unlocked
  /\ reconcile' = TRUE
  /\ Goes(e, "done")
  /\ UNCHANGED <<trackerVars, awaiting, superseded, steering, ringPaused, announcing, gone, fresh,
                 answeredStop, countVars>>

\* cancel_kill_now takes the lock again: every process of the session goes.
KillNow(e) ==
  /\ At(e, "sigkill") /\ Unlocked
  /\ gone' = Agents
  /\ reconcile' = TRUE
  /\ Goes(e, "done")
  /\ UNCHANGED <<trackerVars, awaiting, superseded, steering, ringPaused, announcing, fresh,
                 answeredStop, countVars>>

Escalate(e) ==
  PauseRing(e) \/ InterruptAll(e) \/ Decide(e) \/ Honored(e)
    \/ SkipTheKill(e) \/ KillNow(e)

CancelNext ==
  \/ \E a \in Agents : TurnStarts(a) \/ TurnEnds(a)
  \/ DeclareHalt \/ RefreshAfterHalt \/ Steer \/ SteerPosted
  \/ \E e \in Presses : PressStop(e) \/ Escalate(e)

CancelSpec == CancelInit /\ [][CancelNext]_cancelVars

\* The detached tasks run and a process that is gone is noticed; whether an agent stops for an
\* interrupt, and when a turn or a tool call ends, is not owed.
CancelTask ==
  \/ \E e \in Presses : Escalate(e)
  \/ SteerPosted
  \/ \E a \in gone : TurnEnds(a)
CancelFairness == WF_cancelVars(CancelTask)
-----------------------------------------------------------------------------
\* The screen shows the state the session is in: between a halt's flag and its refresh alone
\* can the two differ.  (recompute_locked emits on every change; the awaiting flag is shared
\* with the bridge and changes outside the tracker's lock.)
ScreenIsCurrent ==
  ~announcing =>
    shown = [state |-> Derive(BusyOf(agentBusy), awaiting, cancelling, pauseLatch),
             busy |-> BusyOf(agentBusy)]

\* Whatever order two Stops and the user's messages come in, no escalation condemns a session
\* in which only turns run that the ring dealt for a message after the last Stop and after the
\* turns the Stop was for had ended.  (EscalationOutcome::SupersededByUser: "don't kill the user's
\* fresh turn".)  A fresh turn dealt alongside one of those is not covered: nobody has been seen
\* idle, and the deadline takes it although the other has ended since.
FreshTurnIsNotCondemned ==
  [][\A e \in Presses :
       At(e, "waiting") /\ escalation'[e] = "sigkill" => BusyOf(agentBusy) \ fresh # {}]_cancelVars

\* A Stop that nobody answers ends every turn, also of an agent that ignores the interrupt.
StopStopsTheTurn ==
  (\E e \in Presses : At(e, "pausing"))
    ~> (BusyOf(agentBusy) = {} \/ answeredStop \/ steering # "no")
=============================================================================
