------------------------------ MODULE TimedHalt ------------------------------
(***************************************************************************)
(* Temporary halts (signaling/bridge/tray.rs): a halt that carries the      *)
(* instant at which the session wakes itself.  The slot with the instant is *)
(* durable, the timers are not: one is armed at the declaration and one     *)
(* whenever the session's ring registers.  A timer carries its instant and  *)
(* acts only on the halt it was armed for, while messages of the user,      *)
(* other halts, gates and pauses come and go.                               *)
(***************************************************************************)
EXTENDS Integers, FiniteSets

CONSTANTS
  Timers,         \* bound: the timers that run at a time
  MaxDeclared,    \* bound: halts declared
  MaxChanges,     \* bound: gates, pauses, messages and restarts
  GateWaits       \* how often a due timer looks again behind an open gate

ASSUME TimedHaltAssumption ==
  /\ IsFiniteSet(Timers)
  /\ {MaxDeclared, MaxChanges, GateWaits} \subseteq Nat

VARIABLES
  haltSlot,       \* the halt in the session's slot, NoHalt when none; halts are 1, 2, ...
  wakes,          \* the halts that have a wake instant
  declaredHalts,  \* how many were declared
  declaring,      \* a temporary halt was written and its timer is not yet armed
  timer,          \* per timer, the halt it is for and where it stands
  ringUp,         \* the session's ring is registered
  rearming,       \* a registration has not yet armed its timer
  gateOpen, userPaused,
  gaveUp,         \* history: halts one of whose timers ended under a pause or behind gates
  changes

timedVars == <<haltSlot, wakes, declaredHalts, declaring, timer, ringUp, rearming,
               gateOpen, userPaused, gaveUp, changes>>
worldVars == <<gateOpen, userPaused, changes>>
declareVars == <<wakes, declaredHalts, declaring>>

HaltIds == 1..MaxDeclared
NoHalt == 0
TimerSteps == {"sleeping", "due", "pauseRead", "announced", "over"}
NoTimer == [of |-> NoHalt, step |-> "over", waits |-> 0]

TimedTypeOK ==
  /\ haltSlot \in HaltIds \cup {NoHalt} /\ wakes \subseteq HaltIds
  /\ declaredHalts \in 0..MaxDeclared
  /\ timer \in [Timers -> [of : HaltIds \cup {NoHalt}, step : TimerSteps, waits : 0..GateWaits]]
  /\ {declaring, ringUp, rearming, gateOpen, userPaused} \subseteq BOOLEAN
  /\ gaveUp \subseteq HaltIds
  /\ changes \in 0..MaxChanges

TimedInit ==
  /\ haltSlot = NoHalt /\ wakes = {} /\ declaredHalts = 0 /\ declaring = FALSE
  /\ timer = [t \in Timers |-> NoTimer]
  /\ ringUp = TRUE /\ rearming = FALSE
  /\ gateOpen = FALSE /\ userPaused = FALSE
  /\ gaveUp = {} /\ changes = 0
-----------------------------------------------------------------------------
IsAt(t, step) == timer[t].step = step
Reaches(t, step) == timer' = [timer EXCEPT ![t].step = step]
Arm(t, h) == timer' = [timer EXCEPT ![t] = [of |-> h, step |-> "sleeping", waits |-> 0]]

\* emit_halt_row writes the slot first; a later halt replaces the earlier one, and its instant.
WriteHalt(temporary) ==
  /\ ringUp /\ ~declaring /\ declaredHalts < MaxDeclared
  /\ declaredHalts' = declaredHalts + 1
  /\ haltSlot' = declaredHalts + 1
  /\ wakes' = IF temporary THEN wakes \cup {declaredHalts + 1} ELSE wakes
  /\ declaring' = temporary
  /\ UNCHANGED <<timer, ringUp, rearming, gaveUp, worldVars>>

\* ... the ring is told to stop, and the timer is armed.
ArmAtDeclaration(t) ==
  /\ declaring /\ IsAt(t, "over")
  /\ Arm(t, declaredHalts)
  /\ declaring' = FALSE
  /\ UNCHANGED <<haltSlot, wakes, declaredHalts, ringUp, rearming, gaveUp, worldVars>>
-----------------------------------------------------------------------------
(* fire_temporary_halt: the instant has come *)

\* Without a ring there is nothing to deal to.
WakeUp(t) ==
  /\ IsAt(t, "sleeping")
  /\ Reaches(t, IF ringUp THEN "due" ELSE "over")
  /\ UNCHANGED <<haltSlot, declareVars, ringUp, rearming, gaveUp, worldVars>>

\* The slot is read again: a replaced or released halt lets its old timer expire into nothing.
\* A paused session does not wake.
CheckSlot(t) ==
  /\ IsAt(t, "due")
  /\ \/ haltSlot # timer[t].of /\ Reaches(t, "over") /\ UNCHANGED gaveUp
     \/ /\ haltSlot = timer[t].of /\ userPaused
        /\ Reaches(t, "over") /\ gaveUp' = gaveUp \cup {haltSlot}
     \/ haltSlot = timer[t].of /\ ~userPaused /\ Reaches(t, "pauseRead") /\ UNCHANGED gaveUp
  /\ UNCHANGED <<haltSlot, declareVars, ringUp, rearming, worldVars>>

\* Behind an open gate it looks again later, up to a limit; otherwise the row saying that the
\* halt has ended is posted.
CheckGates(t) ==
  /\ IsAt(t, "pauseRead")
  /\ \/ ~gateOpen /\ Reaches(t, "announced") /\ UNCHANGED gaveUp
     \/ /\ gateOpen /\ timer[t].waits < GateWaits
        /\ timer' = [timer EXCEPT ![t].step = "due", ![t].waits = @ + 1]
        /\ UNCHANGED gaveUp
     \/ /\ gateOpen /\ timer[t].waits = GateWaits
        /\ Reaches(t, "over") /\ gaveUp' = gaveUp \cup {timer[t].of}
  /\ UNCHANGED <<haltSlot, declareVars, ringUp, rearming, worldVars>>

\* clear_session_halt, whichever halt is in the slot by now; then the ring is released with a
\* summons for the declarer.
ClearForWake(t) ==
  /\ IsAt(t, "announced")
  /\ haltSlot' = NoHalt
  /\ Reaches(t, "over")
  /\ UNCHANGED <<declareVars, ringUp, rearming, gaveUp, worldVars>>
-----------------------------------------------------------------------------
(* The user, the gates and the ring's registration *)

Change == changes < MaxChanges /\ changes' = changes + 1

\* A message releases the halt and lifts the pause.
UserWrites ==
  /\ Change
  /\ haltSlot' = NoHalt /\ userPaused' = FALSE
  /\ UNCHANGED <<declareVars, timer, ringUp, rearming, gateOpen, gaveUp>>

UserPauses ==
  /\ Change
  /\ userPaused' = TRUE
  /\ UNCHANGED <<haltSlot, declareVars, timer, ringUp, rearming, gateOpen, gaveUp>>

GateOpensOrCloses ==
  /\ Change
  /\ gateOpen' = ~gateOpen
  /\ UNCHANGED <<haltSlot, declareVars, timer, ringUp, rearming, userPaused, gaveUp>>

\* No ring is registered any more: the session alone goes down and its timers stay, or the host
\* stops and what is in memory is gone.  The slot is durable.
GoDown ==
  /\ Change /\ ringUp
  /\ ringUp' = FALSE
  /\ \/ UNCHANGED <<timer, declaring, rearming>>
     \/ /\ timer' = [t \in Timers |-> [timer[t] EXCEPT !.step = "over"]]
        /\ declaring' = FALSE /\ rearming' = FALSE
  /\ UNCHANGED <<haltSlot, wakes, declaredHalts, gateOpen, userPaused, gaveUp>>

\* Mutant of RegisterRing: no timer is armed again.
RegisterRingOnly ==
  /\ ~ringUp
  /\ ringUp' = TRUE
  /\ UNCHANGED <<haltSlot, declareVars, timer, rearming, gaveUp, worldVars>>

\* register_session_sequencer: the ring first ...
RegisterRing ==
  /\ ~ringUp
  /\ ringUp' = TRUE /\ rearming' = TRUE
  /\ UNCHANGED <<haltSlot, declareVars, timer, gaveUp, worldVars>>

\* ... then rearm_temporary_halt_for.
Rearm ==
  /\ rearming
  /\ rearming' = FALSE
  /\ IF haltSlot \in wakes
     THEN \E t \in Timers : IsAt(t, "over") /\ Arm(t, haltSlot)
     ELSE UNCHANGED timer
  /\ UNCHANGED <<haltSlot, declareVars, ringUp, gaveUp, worldVars>>

Fires(t) == WakeUp(t) \/ CheckSlot(t) \/ CheckGates(t) \/ ClearForWake(t)
Declares == \E t \in Timers : ArmAtDeclaration(t)

TimedNext ==
  \/ \E temporary \in BOOLEAN : WriteHalt(temporary)
  \/ Declares
  \/ \E t \in Timers : Fires(t)
  \/ UserWrites \/ UserPauses \/ GateOpensOrCloses \/ GoDown \/ RegisterRing \/ Rearm

TimedSpec == TimedInit /\ [][TimedNext]_timedVars

\* As long as a timer can fire, or a declaration or a registration is under way, one goes on.
TimedTask == Declares \/ Rearm \/ \E t \in Timers : Fires(t)
TimedFairness == WF_timedVars(TimedTask)
-----------------------------------------------------------------------------
\* A temporary halt ends by itself, also across restarts and respawns that lose its timer: once
\* in the slot it leaves it again, unless its timer met a pause or a gate that would not close,
\* or the session is down.
TimedHaltEnds ==
  \A h \in HaltIds :
    (haltSlot = h /\ h \in wakes) ~> (haltSlot # h \/ h \in gaveUp \/ ~ringUp)
=============================================================================
