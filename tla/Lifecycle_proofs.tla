-------------------------- MODULE Lifecycle_proofs --------------------------
(****************************************************************************)
(* How sessions start, stop and end, and what goes on when a child or a     *)
(* turn fails, for any agents, any budgets and any number of calls.         *)
(*                                                                          *)
(* SessionLife: one roster runs at a time and is in the map, and one        *)
(* teardown owns the tail.  The first rests on the spawn gate: who holds    *)
(* it has evicted what was mapped, and nobody else registers a roster       *)
(* before it is given back.                                                 *)
(*                                                                          *)
(* Cancel: the screen is current, and no escalation condemns a turn the     *)
(* user asked for after the last Stop.  Such a turn is dealt only after a   *)
(* message, so the Stop is superseded, and only to an idle session, so the  *)
(* session has been idle since the Stop.  Both facts are then on record     *)
(* until the next Stop, and they are the two that escalation_outcome asks   *)
(* for.                                                                     *)
(*                                                                          *)
(* Supervisor: the verdict on a child is made on the last result it wrote,  *)
(* retries are bounded, and the nudge comes first.  The last result is the  *)
(* last of the stdout, else the last in the event channel, else the status  *)
(* on record; so a closed channel leaves the status of the last result.     *)
(*                                                                          *)
(* ErrorLadder: failing turns reach the user, and an interrupt excuses only *)
(* the turn it was aimed at. The first counts: every failure since a        *)
(* healthy turn has used up a rung or stands in the streak.  The second     *)
(* orders the epochs: what the pump takes for its turn is never older than  *)
(* the page the process works on.                                           *)
(****************************************************************************)
EXTENDS SessionLife, Cancel, Supervisor, ErrorLadder, TLAPS, FiniteSetTheorems
-----------------------------------------------------------------------------
(* Rosters and teardowns *)

CallRecords == [kind : CallKinds \cup {"none"}, step : CallSteps, wants : BOOLEAN]
Spawning == {"gated", "spawning"}

\* A call that spawns holds the gate.
GateIsHeld == \A c \in Calls : call[c].step \in Spawning => gate = c

\* While a call spawns nothing runs: what was mapped has been evicted.
EvictedFirst == (\E c \in Calls : call[c].step \in Spawning) => alive = {}

\* The closing mark and the tail are one.
OneTail ==
  /\ \A c, d \in Tearing : c = d
  /\ closing <=> Tearing # {}

LifeInv == LifeTypeOK /\ NoOrphanRoster /\ GateIsHeld /\ EvictedFirst /\ OneTail
-----------------------------------------------------------------------------
\* What it is for a call to move on, step by step.
LEMMA MovesOnly ==
  ASSUME LifeTypeOK, NEW c \in Calls, NEW step \in CallSteps, Moves(c, step)
  PROVE  /\ call' \in [Calls -> CallRecords]
         /\ \A d \in Calls : call'[d].step = IF d = c THEN step ELSE call[d].step
<1>1. call \in [Calls -> CallRecords]
  BY DEF LifeTypeOK, CallRecords
<1>2. call' = [call EXCEPT ![c] = [call[c] EXCEPT !.step = step]]
  BY DEF Moves
<1>3. [call[c] EXCEPT !.step = step] \in CallRecords /\ [call[c] EXCEPT !.step = step].step = step
  BY <1>1 DEF CallRecords
<1> QED
  BY <1>1, <1>2, <1>3

LEMMA LifeInitEstablishes == LifeInit => LifeInv
<1> SUFFICES ASSUME LifeInit PROVE LifeInv
  OBVIOUS
<1>1. LifeTypeOK
  <2>1. call \in [Calls -> CallRecords]
    BY DEF LifeInit, CallRecords, CallSteps
  <2>2. deaths \in 0..MaxDeaths /\ alive \subseteq Rosters /\ mapped \in Nat /\ spawned \in Nat
    BY LifeAssumption DEF LifeInit, Rosters, NoRoster
  <2> QED
    BY <2>1, <2>2 DEF LifeInit, LifeTypeOK, CallRecords
<1>2. NoOrphanRoster /\ GateIsHeld /\ EvictedFirst /\ OneTail
  BY DEF LifeInit, NoOrphanRoster, GateIsHeld, EvictedFirst, OneTail, Spawning, Tearing, Stands
<1> QED
  BY <1>1, <1>2 DEF LifeInv

\* A call comes in: it stands at a step that neither spawns nor tears down, and at most a roster
\* is killed.
LEMMA LifeBeginPreserves ==
  ASSUME LifeInv, NEW c \in Calls, NEW kind \in CallKinds, Begin(c, kind)
  PROVE  LifeInv'
<1> USE DEF LifeInv
<1>1. PICK new \in CallRecords :
        new.step \in {"ensuring", "decided"} /\ call' = [call EXCEPT ![c] = new]
  <2>1. CASE call' = [call EXCEPT ![c] = [kind |-> kind, step |-> "ensuring", wants |-> FALSE]]
    BY <2>1 DEF CallRecords, CallSteps
  <2>2. CASE \E wants \in BOOLEAN :
               call' = [call EXCEPT ![c] = [kind |-> kind, step |-> "decided", wants |-> wants]]
    <3>1. PICK wants \in BOOLEAN :
            call' = [call EXCEPT ![c] = [kind |-> kind, step |-> "decided", wants |-> wants]]
      BY <2>2
    <3>2. [kind |-> kind, step |-> "decided", wants |-> wants] \in CallRecords
      BY DEF CallRecords, CallSteps
    <3> QED
      BY <3>1, <3>2
  <2> QED
    BY <2>1, <2>2 DEF Begin, EpilogueDecisions
<1>2. /\ call \in [Calls -> CallRecords] /\ call' \in [Calls -> CallRecords]
      /\ call[c].step = "new"
      /\ \A d \in Calls : call'[d].step = IF d = c THEN new.step ELSE call[d].step
  BY <1>1 DEF LifeTypeOK, CallRecords, Begin, Stands
<1>3. /\ UNCHANGED <<spawned, gate, closing, inFlight, learning, deaths>>
      /\ alive' \subseteq alive
      /\ row' \in {"open", "closed"} /\ archived' \in BOOLEAN
      /\ \/ mapped' = mapped
         \/ mapped' = NoRoster /\ alive' = alive \ {mapped}
  BY DEF Begin, LifeTypeOK
<1>4. LifeTypeOK'
  BY <1>2, <1>3 DEF LifeTypeOK, CallRecords, NoRoster
<1>5. NoOrphanRoster'
  BY <1>3 DEF NoOrphanRoster
<1>6. GateIsHeld' /\ EvictedFirst'
  BY <1>1, <1>2, <1>3 DEF GateIsHeld, EvictedFirst, Spawning
<1>7. OneTail'
  <2>1. Tearing' = Tearing
    BY <1>1, <1>2 DEF Tearing, Stands
  <2> QED
    BY <1>3, <2>1 DEF OneTail
<1> QED
  BY <1>4, <1>5, <1>6, <1>7

LEMMA DeathPreserves == LifeInv /\ RosterDies => LifeInv'
<1> SUFFICES ASSUME LifeInv, RosterDies PROVE LifeInv'
  OBVIOUS
<1>1. /\ UNCHANGED <<row, archived, mapped, spawned, gate, closing, inFlight, call, learning>>
      /\ alive' = alive \ {mapped} /\ deaths' = deaths + 1 /\ deaths < MaxDeaths
  BY DEF RosterDies
<1>2. LifeTypeOK'
  BY <1>1, LifeAssumption DEF LifeInv, LifeTypeOK
<1>3. NoOrphanRoster' /\ GateIsHeld' /\ EvictedFirst'
  BY <1>1 DEF LifeInv, NoOrphanRoster, GateIsHeld, EvictedFirst
<1>4. OneTail'
  BY <1>1 DEF LifeInv, OneTail, Tearing, Stands
<1> QED
  BY <1>2, <1>3, <1>4 DEF LifeInv

\* The steps of a call that touch neither the gate nor the roster nor the tail.
LEMMA QuietPreserves ==
  ASSUME LifeInv, NEW c \in Calls, NEW step \in CallSteps \ (Spawning \cup {"tail"}),
         Moves(c, step), call[c].step \notin {"tail"},
         UNCHANGED <<mapped, alive, spawned, gate, closing, deaths>>,
         row' \in {"open", "closed"}, archived' \in BOOLEAN, inFlight' \in BOOLEAN,
         learning' \in Calls \cup {NoCall}
  PROVE  LifeInv'
<1> USE DEF LifeInv
<1>1. /\ call' \in [Calls -> CallRecords]
      /\ \A d \in Calls : call'[d].step = IF d = c THEN step ELSE call[d].step
  BY MovesOnly
<1>2. LifeTypeOK'
  BY <1>1 DEF LifeTypeOK, CallRecords
<1>3. NoOrphanRoster'
  BY DEF NoOrphanRoster
<1>4. GateIsHeld' /\ EvictedFirst'
  BY <1>1 DEF GateIsHeld, EvictedFirst
<1>5. Tearing' = Tearing
  BY <1>1 DEF Tearing, Stands
<1>6. OneTail'
  BY <1>5 DEF OneTail
<1> QED
  BY <1>2, <1>3, <1>4, <1>6

LEMMA GatePreserves ==
  ASSUME LifeInv, NEW c \in Calls, TakeGate(c)
  PROVE  LifeInv'
<1> USE DEF LifeInv
<1>1. /\ call[c].step = "waiting" /\ gate = NoCall
      /\ UNCHANGED <<row, archived, spawned, closing, inFlight, learning, deaths>>
  BY DEF TakeGate, Stands
<1>2. CASE closing \/ Healthy
  <2>1. Moves(c, "done") /\ UNCHANGED <<mapped, alive, gate>>
    BY <1>1, <1>2 DEF TakeGate, Leaves
  <2> QED
    BY <1>1, <2>1, QuietPreserves DEF LifeTypeOK, CallSteps, Spawning
<1>3. CASE ~(closing \/ Healthy)
  <2>1. gate' = c /\ Moves(c, "gated") /\ mapped' = NoRoster /\ alive' = alive \ {mapped}
    BY <1>3 DEF TakeGate
  <2>2. /\ call' \in [Calls -> CallRecords]
        /\ \A d \in Calls : call'[d].step = IF d = c THEN "gated" ELSE call[d].step
    BY <2>1, MovesOnly DEF CallSteps
  <2>3. alive' = {}
    BY <2>1 DEF NoOrphanRoster
  <2>4. LifeTypeOK'
    BY <1>1, <2>1, <2>2, <2>3 DEF LifeTypeOK, CallRecords, NoRoster
  <2>5. \A d \in Calls : call[d].step \notin Spawning
    BY <1>1 DEF GateIsHeld, NoCall, Calls
  <2>6. NoOrphanRoster' /\ EvictedFirst'
    BY <2>3 DEF NoOrphanRoster, EvictedFirst
  <2>7. GateIsHeld'
    BY <2>1, <2>2, <2>5 DEF GateIsHeld
  <2>8. Tearing' = Tearing
    BY <1>1, <2>2 DEF Tearing, Stands
  <2> QED
    BY <1>1, <2>4, <2>6, <2>7, <2>8 DEF OneTail
<1> QED
  BY <1>2, <1>3

LEMMA ReadRowPreserves ==
  ASSUME LifeInv, NEW c \in Calls, ReadRow(c)
  PROVE  LifeInv'
<1> USE DEF LifeInv
<1>1. PICK step \in {"done", "spawning"} :
        /\ Moves(c, step)
        /\ gate' = IF step = "done" THEN NoCall ELSE gate
        /\ call[c].step = "gated"
        /\ UNCHANGED <<row, archived, mapped, alive, spawned, closing, inFlight, learning, deaths>>
  BY DEF ReadRow, Leaves, Stands
<1>2. /\ call' \in [Calls -> CallRecords]
      /\ \A d \in Calls : call'[d].step = IF d = c THEN step ELSE call[d].step
  BY <1>1, MovesOnly DEF CallSteps
<1>3. gate = c /\ alive = {} /\ \A d \in Calls : d # c => call[d].step \notin Spawning
  BY <1>1 DEF GateIsHeld, EvictedFirst, Spawning
<1>4. LifeTypeOK'
  BY <1>1, <1>2 DEF LifeTypeOK, CallRecords
<1>5. NoOrphanRoster' /\ EvictedFirst'
  BY <1>1, <1>3 DEF NoOrphanRoster, EvictedFirst
<1>6. GateIsHeld'
  BY <1>1, <1>2, <1>3 DEF GateIsHeld, Spawning
<1>7. Tearing' = Tearing
  BY <1>1, <1>2 DEF Tearing, Stands
<1> QED
  BY <1>1, <1>4, <1>5, <1>6, <1>7 DEF OneTail

LEMMA SpawnDonePreserves ==
  ASSUME LifeInv, NEW c \in Calls, SpawnDone(c)
  PROVE  LifeInv'
<1> USE DEF LifeInv
<1>1. /\ Moves(c, "done") /\ gate' = NoCall /\ call[c].step = "spawning"
      /\ UNCHANGED <<row, archived, closing, inFlight, learning, deaths>>
      /\ \/ UNCHANGED <<mapped, alive>> /\ spawned' \in {spawned, spawned + 1}
         \/ spawned' = spawned + 1 /\ mapped' = spawned + 1 /\ alive' = alive \cup {spawned + 1}
  BY DEF SpawnDone, Leaves, Stands
<1>2. /\ call' \in [Calls -> CallRecords]
      /\ \A d \in Calls : call'[d].step = IF d = c THEN "done" ELSE call[d].step
  BY <1>1, MovesOnly DEF CallSteps
<1>3. alive = {} /\ \A d \in Calls : d # c => call[d].step \notin Spawning
  BY <1>1 DEF GateIsHeld, EvictedFirst, Spawning
<1>4. LifeTypeOK'
  <2>1. spawned \in Nat /\ mapped \in Nat /\ alive \subseteq Rosters
    BY DEF LifeTypeOK
  <2>2. spawned + 1 \in Nat /\ spawned + 1 \in Rosters
    BY <2>1 DEF Rosters, NoRoster
  <2>3. spawned' \in Nat
    BY <1>1, <2>1, <2>2
  <2>4. mapped' \in Nat /\ alive' \subseteq Rosters
    BY <1>1, <2>1, <2>2
  <2> QED
    BY <1>1, <1>2, <2>3, <2>4 DEF LifeTypeOK, CallRecords
<1>5. \A d \in Calls : call'[d].step \notin Spawning
  BY <1>2, <1>3 DEF Spawning
<1>6. GateIsHeld' /\ EvictedFirst'
  BY <1>5 DEF GateIsHeld, EvictedFirst
<1>7. NoOrphanRoster'
  BY <1>1, <1>3 DEF NoOrphanRoster
<1>8. Tearing' = Tearing
  BY <1>1, <1>2 DEF Tearing, Stands
<1> QED
  BY <1>1, <1>4, <1>6, <1>7, <1>8 DEF OneTail

\* A teardown finds the mark set and leaves the tail to its owner, or sets it and owns the tail,
\* or gives up before there is one.
LEMMA TearDownPreserves ==
  ASSUME LifeInv, NEW c \in Calls, TearDown(c)
  PROVE  LifeInv'
<1> USE DEF LifeInv
<1>1. /\ call[c].step \in {"teardown", "lastTeardown"}
      /\ UNCHANGED <<spawned, gate, inFlight, learning, deaths>>
      /\ row' \in {"open", "closed"} /\ archived' \in BOOLEAN
  BY DEF TearDown, Stands, LifeTypeOK, RowCloses, Archives
<1>2. CASE closing
  <2>1. Moves(c, "done") /\ UNCHANGED <<mapped, alive, closing>>
    BY <1>2 DEF TearDown
  <2> QED
    BY <1>1, <2>1, QuietPreserves DEF LifeTypeOK, CallSteps, Spawning
<1>3. CASE ~closing
  <2>1. PICK step \in {"done", "tail"} :
          /\ Moves(c, step) /\ closing' = (step = "tail")
          /\ mapped' = NoRoster /\ alive' = alive \ {mapped}
    BY <1>3 DEF TearDown, LifeTypeOK
  <2>2. /\ call' \in [Calls -> CallRecords]
        /\ \A d \in Calls : call'[d].step = IF d = c THEN step ELSE call[d].step
    BY <2>1, MovesOnly DEF CallSteps
  <2>3. alive' = {}
    BY <2>1 DEF NoOrphanRoster
  <2>4. LifeTypeOK'
    BY <1>1, <2>1, <2>2, <2>3 DEF LifeTypeOK, CallRecords, NoRoster
  <2>5. NoOrphanRoster' /\ EvictedFirst'
    BY <2>3 DEF NoOrphanRoster, EvictedFirst
  <2>6. GateIsHeld'
    BY <1>1, <2>2 DEF GateIsHeld, Spawning
  <2>7. Tearing = {}
    BY <1>3 DEF OneTail
  <2>8. \A d \in Tearing' : d = c
    BY <2>2, <2>7 DEF Tearing, Stands
  <2>9. c \in Tearing' <=> step = "tail"
    BY <2>2 DEF Tearing, Stands
  <2>10. OneTail'
    BY <2>1, <2>8, <2>9 DEF OneTail
  <2> QED
    BY <2>4, <2>5, <2>6, <2>10
<1> QED
  BY <1>2, <1>3

LEMMA TailOverPreserves ==
  ASSUME LifeInv, NEW c \in Calls, TailOver(c)
  PROVE  LifeInv'
<1> USE DEF LifeInv
<1>1. /\ Moves(c, "done") /\ call[c].step = "tail" /\ closing' = FALSE
      /\ UNCHANGED <<row, archived, mapped, alive, spawned, gate, inFlight, learning, deaths>>
  BY DEF TailOver, Stands
<1>2. /\ call' \in [Calls -> CallRecords]
      /\ \A d \in Calls : call'[d].step = IF d = c THEN "done" ELSE call[d].step
  BY <1>1, MovesOnly DEF CallSteps
<1>3. LifeTypeOK'
  BY <1>1, <1>2 DEF LifeTypeOK, CallRecords
<1>4. NoOrphanRoster' /\ GateIsHeld' /\ EvictedFirst'
  BY <1>1, <1>2 DEF NoOrphanRoster, GateIsHeld, EvictedFirst, Spawning
<1>5. c \in Tearing
  BY <1>1 DEF Tearing, Stands
<1>6. Tearing' = {}
  BY <1>2, <1>5 DEF OneTail, Tearing, Stands
<1> QED
  BY <1>1, <1>3, <1>4, <1>6 DEF OneTail

LEMMA ProceedsPreserves ==
  ASSUME LifeInv, NEW c \in Calls, Proceeds(c)
  PROVE  LifeInv'
<1> USE DEF LifeInv
<1>1. CASE FastPath(c)
  BY <1>1, QuietPreserves DEF FastPath, Stands, LifeTypeOK, CallSteps, Spawning
<1>2. CASE TakeGate(c)
  BY <1>2, GatePreserves
<1>3. CASE ReadRow(c)
  BY <1>3, ReadRowPreserves
<1>4. CASE SpawnDone(c)
  BY <1>4, SpawnDonePreserves
<1>5. CASE ClaimEpilogue(c)
  <2>1. PICK step \in {"done", "closingRow", "teardown"} :
          /\ Moves(c, step) /\ archived' \in BOOLEAN /\ inFlight' \in BOOLEAN
          /\ call[c].step = "decided"
          /\ UNCHANGED <<row, mapped, alive, spawned, gate, closing, learning, deaths>>
    BY <1>5 DEF ClaimEpilogue, Stands, Archives, LifeTypeOK
  <2> QED
    BY <2>1, QuietPreserves DEF LifeTypeOK, CallSteps, Spawning
<1>6. CASE CloseRowFirst(c)
  <2>1. PICK step \in {"done", "asking"} :
          /\ Moves(c, step) /\ archived' \in BOOLEAN /\ row' \in {"open", "closed"}
          /\ call[c].step = "closingRow"
          /\ UNCHANGED <<mapped, alive, spawned, gate, closing, inFlight, learning, deaths>>
    BY <1>6 DEF CloseRowFirst, RowCloses, Stands, Archives, LifeTypeOK
  <2> QED
    BY <2>1, QuietPreserves DEF LifeTypeOK, CallSteps, Spawning
<1>7. CASE AskForLearnings(c)
  <2>1. PICK step \in {"learning", "releasing"} :
          /\ Moves(c, step) /\ learning' \in Calls \cup {NoCall}
          /\ call[c].step = "asking"
          /\ UNCHANGED <<row, archived, mapped, alive, spawned, gate, closing, inFlight, deaths>>
    BY <1>7 DEF AskForLearnings, Stands, LifeTypeOK
  <2> QED
    BY <2>1, QuietPreserves DEF LifeTypeOK, CallSteps, Spawning
<1>8. CASE LearningOver(c)
  BY <1>8, QuietPreserves DEF LearningOver, Stands, LifeTypeOK, CallSteps, Spawning
<1>9. CASE ReleaseClaim(c)
  BY <1>9, QuietPreserves DEF ReleaseClaim, Stands, LifeTypeOK, CallSteps, Spawning
<1>10. CASE TearDown(c)
  BY <1>10, TearDownPreserves
<1>11. CASE TailOver(c)
  BY <1>11, TailOverPreserves
<1> QED
  BY <1>1, <1>2, <1>3, <1>4, <1>5, <1>6, <1>7, <1>8, <1>9, <1>10, <1>11 DEF Proceeds

LEMMA LifeNextPreserves == LifeInv /\ [LifeNext]_lifeVars => LifeInv'
<1> SUFFICES ASSUME LifeInv, [LifeNext]_lifeVars PROVE LifeInv'
  OBVIOUS
<1>1. CASE \E c \in Calls : \E kind \in CallKinds : Begin(c, kind)
  BY <1>1, LifeBeginPreserves
<1>2. CASE \E c \in Calls : Proceeds(c)
  BY <1>2, ProceedsPreserves
<1>3. CASE RosterDies
  BY <1>3, DeathPreserves
<1>4. CASE UNCHANGED lifeVars
  BY <1>4 DEF lifeVars, LifeInv, LifeTypeOK, NoOrphanRoster, GateIsHeld, EvictedFirst, OneTail,
     Tearing, Stands
<1> QED
  BY <1>1, <1>2, <1>3, <1>4 DEF LifeNext
-----------------------------------------------------------------------------
\* The inductive invariant.
LEMMA LifeInvAlways == LifeSpec => []LifeInv
<1> QED
  BY LifeInitEstablishes, LifeNextPreserves, PTL DEF LifeSpec

\* The variables of starting and closing have their types.
THEOREM LifeTypeCorrect == LifeSpec => []LifeTypeOK
<1>1. LifeInv => LifeTypeOK
  BY DEF LifeInv
<1> QED
  BY <1>1, LifeInvAlways, PTL

\* However many calls overlap, one roster runs at a time and it is the one in the map
\* (ensure_session_started: the spawn gate and the eviction under it).
THEOREM OneRosterAtATime == LifeSpec => []NoOrphanRoster
<1>1. LifeInv => NoOrphanRoster
  BY DEF LifeInv
<1> QED
  BY <1>1, LifeInvAlways, PTL

\* However many closes overlap, one teardown owns the tail and the mark is its mark
\* (teardown_session: the first to insert the mark runs the tail).
THEOREM TailHasOneOwner == LifeSpec => []TailIsOwned
<1>1. LifeInv => TailIsOwned
  <2> SUFFICES ASSUME LifeInv PROVE TailIsOwned
    OBVIOUS
  <2>1. (\A c, d \in Tearing : c = d) /\ (closing <=> Tearing # {})
    BY DEF LifeInv, OneTail
  <2>2. Tearing = {} \/ \E c \in Tearing : Tearing = {c}
    BY <2>1
  <2>3. Cardinality(Tearing) <= 1
    BY <2>2, FS_EmptySet, FS_Singleton
  <2> QED
    BY <2>1, <2>3 DEF TailIsOwned
<1> QED
  BY <1>1, LifeInvAlways, PTL
-----------------------------------------------------------------------------
(* Stops *)

\* A turn dealt for a message after the last Stop, with none of the turns before it running: the
\* Stop is superseded and the idle seen.
FreshIsOnRecord == fresh # {} => superseded /\ idledSince

\* A message on its way or posted supersedes the Stop.
MessageSupersedes == answeredStop \/ steering = "posting" => superseded

\* Once a message is on its way, an idle session has recorded its idle.
IdleIsOnRecord ==
  answeredStop \/ steering = "posting" => idledSince \/ BusyOf(agentBusy) # {}

CancelInv ==
  CancelTypeOK /\ ScreenIsCurrent /\ FreshIsOnRecord /\ MessageSupersedes /\ IdleIsOnRecord

\* The flags of the tracker and of the session that are no one's alone.
SessionTypeOK ==
  /\ {awaiting, superseded, ringPaused, reconcile, announcing, answeredStop} \subseteq BOOLEAN
  /\ escalation \in [Presses -> Steps]
  /\ steering \in {"no", "posting"}
  /\ gone \subseteq Agents /\ fresh \subseteq Agents
  /\ steers \in 0..MaxSteers /\ deals \in 0..MaxTurnsDealt /\ halts \in 0..MaxHalts

TrackerTypeOK ==
  /\ agentBusy \in [Agents -> BOOLEAN]
  /\ {cancelling, pauseLatch, idledSince} \subseteq BOOLEAN
  /\ shown \in [state : Activities, busy : SUBSET Agents]

LEMMA TypeInTwo ==
  /\ CancelTypeOK <=> SessionTypeOK /\ TrackerTypeOK
  /\ CancelTypeOK' <=> SessionTypeOK' /\ TrackerTypeOK'
  BY DEF CancelTypeOK, SessionTypeOK, TrackerTypeOK

\* What the tracker shows is what it holds.
ShownIsDerived ==
  shown = [state |-> Derive(BusyOf(agentBusy), awaiting, cancelling, pauseLatch),
           busy |-> BusyOf(agentBusy)]

LEMMA DeriveIsAnActivity ==
  \A busy, isAwaiting, isCancelling, isPaused :
    Derive(busy, isAwaiting, isCancelling, isPaused) \in Activities
  BY DEF Derive, Activities

\* Every change of the tracker goes through recompute_locked, which leaves it consistent.
LEMMA RecomputeIsConsistent ==
  ASSUME NEW flags \in [Agents -> BOOLEAN], NEW c \in BOOLEAN, NEW p \in BOOLEAN,
         NEW i \in BOOLEAN, Recompute(flags, c, p, i)
  PROVE  /\ TrackerTypeOK' /\ ShownIsDerived'
         /\ agentBusy' = flags
         /\ i => idledSince'
         /\ idledSince' \/ BusyOf(agentBusy') # {}
<1> DEFINE busy == BusyOf(flags)
           settled == c /\ busy # {}
<1>1. /\ agentBusy' = flags /\ cancelling' = settled /\ pauseLatch' = p
      /\ idledSince' = (i \/ busy = {})
      /\ shown' = [state |-> Derive(busy, awaiting', settled, p), busy |-> busy]
  BY DEF Recompute
<1>2. BusyOf(agentBusy') = busy /\ busy \in SUBSET Agents
  BY <1>1 DEF BusyOf
<1>3. settled \in BOOLEAN /\ (i \/ busy = {}) \in BOOLEAN
  OBVIOUS
<1>4. ShownIsDerived'
  BY <1>1, <1>2 DEF ShownIsDerived
<1>5. TrackerTypeOK'
  <2>1. Derive(busy, awaiting', settled, p) \in Activities
    BY DeriveIsAnActivity
  <2> HIDE DEF busy, settled
  <2> QED
    BY <1>1, <1>2, <1>3, <2>1 DEF TrackerTypeOK
<1>6. (i => idledSince') /\ (idledSince' \/ BusyOf(agentBusy') # {})
  <2> HIDE DEF busy
  <2> QED
    BY <1>1, <1>2
<1> QED
  BY <1>1, <1>4, <1>5, <1>6

LEMMA CancelInitEstablishes == CancelInit => CancelInv
<1> SUFFICES ASSUME CancelInit PROVE CancelInv
  OBVIOUS
<1>1. BusyOf(agentBusy) = {}
  BY DEF CancelInit, BusyOf
<1>2. Derive({}, FALSE, FALSE, FALSE) = "idle"
  BY DEF Derive
<1>3. ScreenIsCurrent
  BY <1>1, <1>2 DEF CancelInit, ScreenIsCurrent
<1>4. FreshIsOnRecord /\ MessageSupersedes /\ IdleIsOnRecord
  BY DEF CancelInit, FreshIsOnRecord, MessageSupersedes, IdleIsOnRecord
<1>5. TrackerTypeOK
  BY DEF CancelInit, TrackerTypeOK, Activities
<1>6. SessionTypeOK
  <2>1. 0 \in 0..MaxSteers /\ 0 \in 0..MaxTurnsDealt /\ 0 \in 0..MaxHalts
    BY CancelAssumption
  <2> QED
    BY <2>1 DEF CancelInit, SessionTypeOK, Steps
<1> QED
  BY <1>3, <1>4, <1>5, <1>6, TypeInTwo DEF CancelInv

\* A step of an escalation goes to another of its steps.
LEMMA GoesOn ==
  ASSUME CancelInv, NEW e \in Presses, NEW step \in Steps, Goes(e, step)
  PROVE  escalation' \in [Presses -> Steps]
  BY DEF Goes, CancelInv, CancelTypeOK

\* The turns: TurnStarts and TurnEnds.
LEMMA TurnPreserves ==
  ASSUME CancelInv, NEW a \in Agents, TurnStarts(a) \/ TurnEnds(a)
  PROVE  CancelInv'
<1>0. SessionTypeOK /\ TrackerTypeOK
  BY TypeInTwo DEF CancelInv
<1>1. PICK isBusy \in BOOLEAN : SetBusy(a, isBusy)
  BY DEF TurnStarts, TurnEnds
<1>2. [agentBusy EXCEPT ![a] = isBusy] \in [Agents -> BOOLEAN]
  BY <1>0 DEF TrackerTypeOK
<1>3. /\ TrackerTypeOK' /\ ShownIsDerived'
      /\ idledSince => idledSince'
      /\ idledSince' \/ BusyOf(agentBusy') # {}
  <2>1. cancelling \in BOOLEAN /\ pauseLatch \in BOOLEAN /\ idledSince \in BOOLEAN
    BY <1>0 DEF TrackerTypeOK
  <2> QED
    BY <1>1, <1>2, <2>1, RecomputeIsConsistent DEF SetBusy
<1>4. UNCHANGED <<awaiting, superseded, escalation, steering, ringPaused, reconcile, gone,
                  announcing, answeredStop, steers, halts>>
  BY DEF TurnStarts, TurnEnds, countVars
<1>5. SessionTypeOK'
  <2>1. fresh' \subseteq Agents
    BY <1>0 DEF TurnStarts, TurnEnds, SessionTypeOK
  <2>2. deals' \in 0..MaxTurnsDealt
    <3>1. deals \in 0..MaxTurnsDealt /\ MaxTurnsDealt \in Nat
      BY <1>0, CancelAssumption DEF SessionTypeOK
    <3>2. deals' = deals \/ (deals < MaxTurnsDealt /\ deals' = deals + 1)
      BY DEF TurnStarts, TurnEnds, countVars
    <3> QED
      BY <3>1, <3>2
  <2> QED
    BY <1>0, <1>4, <2>1, <2>2 DEF SessionTypeOK
<1>6. FreshIsOnRecord'
  <2>1. CASE fresh # {}
    BY <1>3, <1>4, <2>1 DEF CancelInv, FreshIsOnRecord
  <2>2. CASE fresh = {} /\ fresh' # {}
    <3>1. answeredStop /\ BusyOf(agentBusy) = {}
      <4>1. answeredStop /\ BusyOf(agentBusy) \subseteq fresh
        BY <2>2 DEF TurnStarts, TurnEnds
      <4> QED
        BY <2>2, <4>1
    <3>2. superseded /\ idledSince
      BY <3>1 DEF CancelInv, MessageSupersedes, IdleIsOnRecord
    <3> QED
      BY <1>3, <1>4, <3>2 DEF FreshIsOnRecord
  <2> QED
    BY <2>1, <2>2 DEF FreshIsOnRecord
<1>7. MessageSupersedes' /\ IdleIsOnRecord' /\ ScreenIsCurrent'
  BY <1>3, <1>4
     DEF CancelInv, MessageSupersedes, IdleIsOnRecord, ScreenIsCurrent, ShownIsDerived
<1> QED
  BY <1>3, <1>5, <1>6, <1>7, TypeInTwo DEF CancelInv

\* The halt: the shared flag, and its refresh.
LEMMA HaltPreserves ==
  ASSUME CancelInv, DeclareHalt \/ RefreshAfterHalt
  PROVE  CancelInv'
<1>0. SessionTypeOK /\ TrackerTypeOK
  BY TypeInTwo DEF CancelInv
<1>1. CASE DeclareHalt
  <2>1. /\ UNCHANGED trackerVars /\ awaiting' = TRUE /\ announcing' = TRUE
        /\ UNCHANGED <<superseded, escalation, steering, ringPaused, reconcile, gone, fresh,
                       answeredStop, steers, deals>>
    BY <1>1 DEF DeclareHalt
  <2>2. halts' \in 0..MaxHalts
    <3>1. halts \in 0..MaxHalts /\ MaxHalts \in Nat /\ halts < MaxHalts /\ halts' = halts + 1
      BY <1>0, <1>1, CancelAssumption DEF SessionTypeOK, DeclareHalt
    <3> QED
      BY <3>1
  <2>3. SessionTypeOK' /\ TrackerTypeOK'
    BY <1>0, <2>1, <2>2 DEF SessionTypeOK, TrackerTypeOK, trackerVars
  <2>4. ScreenIsCurrent' /\ FreshIsOnRecord' /\ MessageSupersedes' /\ IdleIsOnRecord'
    BY <2>1 DEF CancelInv, ScreenIsCurrent, FreshIsOnRecord, MessageSupersedes, IdleIsOnRecord,
                trackerVars
  <2> QED
    BY <2>3, <2>4, TypeInTwo DEF CancelInv
<1>2. CASE RefreshAfterHalt
  <2>1. /\ TrackerTypeOK' /\ ShownIsDerived'
        /\ idledSince => idledSince'
        /\ idledSince' \/ BusyOf(agentBusy') # {}
    <3>1. /\ agentBusy \in [Agents -> BOOLEAN] /\ cancelling \in BOOLEAN
          /\ pauseLatch \in BOOLEAN /\ idledSince \in BOOLEAN
      BY <1>0 DEF TrackerTypeOK
    <3> QED
      BY <1>2, <3>1, RecomputeIsConsistent DEF RefreshAfterHalt, Refresh
  <2>2. /\ announcing' = FALSE
        /\ UNCHANGED <<awaiting, superseded, escalation, steering, ringPaused, reconcile, gone, fresh,
                       answeredStop, steers, deals, halts>>
    BY <1>2 DEF RefreshAfterHalt, countVars
  <2>3. SessionTypeOK'
    BY <1>0, <2>2 DEF SessionTypeOK
  <2>4. ScreenIsCurrent' /\ FreshIsOnRecord' /\ MessageSupersedes' /\ IdleIsOnRecord'
    BY <2>1, <2>2 DEF CancelInv, ScreenIsCurrent, ShownIsDerived, FreshIsOnRecord,
                      MessageSupersedes, IdleIsOnRecord
  <2> QED
    BY <2>1, <2>3, <2>4, TypeInTwo DEF CancelInv
<1> QED
  BY <1>1, <1>2

\* The user's message.
LEMMA SteerPreserves ==
  ASSUME CancelInv, Steer \/ SteerPosted
  PROVE  CancelInv'
<1>0. SessionTypeOK /\ TrackerTypeOK
  BY TypeInTwo DEF CancelInv
<1>1. CASE Steer
  <2>1. /\ TrackerTypeOK' /\ ShownIsDerived'
        /\ idledSince => idledSince'
        /\ idledSince' \/ BusyOf(agentBusy') # {}
    <3>1. agentBusy \in [Agents -> BOOLEAN] /\ idledSince \in BOOLEAN
      BY <1>0 DEF TrackerTypeOK
    <3> QED
      BY <1>1, <3>1, RecomputeIsConsistent DEF Steer, MarkRunning
  <2>2. /\ steering' = "posting" /\ awaiting' = FALSE /\ superseded' = TRUE /\ reconcile' = FALSE
        /\ gone' = {}
        /\ UNCHANGED <<escalation, ringPaused, announcing, fresh, answeredStop, deals, halts>>
    BY <1>1 DEF Steer
  <2>3. steers' \in 0..MaxSteers
    <3>1. steers \in 0..MaxSteers /\ MaxSteers \in Nat /\ steers < MaxSteers /\ steers' = steers + 1
      BY <1>0, <1>1, CancelAssumption DEF SessionTypeOK, Steer
    <3> QED
      BY <3>1
  <2>4. SessionTypeOK'
    BY <1>0, <2>2, <2>3 DEF SessionTypeOK
  <2>5. ScreenIsCurrent' /\ FreshIsOnRecord' /\ MessageSupersedes' /\ IdleIsOnRecord'
    BY <2>1, <2>2 DEF CancelInv, ScreenIsCurrent, ShownIsDerived, FreshIsOnRecord,
                      MessageSupersedes, IdleIsOnRecord
  <2> QED
    BY <2>1, <2>4, <2>5, TypeInTwo DEF CancelInv
<1>2. CASE SteerPosted
  <2>1. /\ steering = "posting" /\ steering' = "no" /\ ringPaused' = FALSE /\ answeredStop' = TRUE
        /\ UNCHANGED <<trackerVars, awaiting, superseded, escalation, reconcile, gone, announcing,
                       fresh, steers, deals, halts>>
    BY <1>2 DEF SteerPosted, countVars
  <2>2. SessionTypeOK' /\ TrackerTypeOK'
    BY <1>0, <2>1 DEF SessionTypeOK, TrackerTypeOK, trackerVars
  <2>3. ScreenIsCurrent' /\ FreshIsOnRecord' /\ MessageSupersedes' /\ IdleIsOnRecord'
    BY <2>1 DEF CancelInv, ScreenIsCurrent, FreshIsOnRecord, MessageSupersedes, IdleIsOnRecord,
                trackerVars
  <2> QED
    BY <2>2, <2>3, TypeInTwo DEF CancelInv
<1> QED
  BY <1>1, <1>2

\* The Stop and its escalation.
LEMMA PressPreserves ==
  ASSUME CancelInv, NEW e \in Presses, PressStop(e)
  PROVE  CancelInv'
<1>0. SessionTypeOK /\ TrackerTypeOK
  BY TypeInTwo DEF CancelInv
<1>1. TrackerTypeOK' /\ ShownIsDerived'
  <2>1. agentBusy \in [Agents -> BOOLEAN]
    BY <1>0 DEF TrackerTypeOK
  <2> QED
    BY <2>1, RecomputeIsConsistent DEF PressStop, MarkStopped
<1>2. /\ superseded' = FALSE /\ fresh' = {} /\ answeredStop' = FALSE /\ steering = "no"
      /\ UNCHANGED <<awaiting, steering, ringPaused, reconcile, gone, announcing, steers, deals, halts>>
  BY DEF PressStop, Unlocked, countVars
<1>3. escalation' \in [Presses -> Steps]
  <2>1. "pausing" \in Steps /\ Goes(e, "pausing")
    BY DEF PressStop, Steps
  <2> QED
    BY <2>1, GoesOn
<1>4. SessionTypeOK'
  BY <1>0, <1>2, <1>3 DEF SessionTypeOK
<1>5. ScreenIsCurrent' /\ FreshIsOnRecord' /\ MessageSupersedes' /\ IdleIsOnRecord'
  BY <1>1, <1>2 DEF ScreenIsCurrent, ShownIsDerived, FreshIsOnRecord, MessageSupersedes,
                    IdleIsOnRecord
<1> QED
  BY <1>1, <1>4, <1>5, TypeInTwo DEF CancelInv

LEMMA OutcomeIsAStep ==
  \A b, s, i : EscalationOutcome(b, s, i) \in Steps
  BY DEF EscalationOutcome, Steps, Outcomes

LEMMA EscalatePreserves ==
  ASSUME CancelInv, NEW e \in Presses, Escalate(e)
  PROVE  CancelInv'
<1>0. SessionTypeOK /\ TrackerTypeOK
  BY TypeInTwo DEF CancelInv
<1>1. CASE SkipTheKill(e)
  <2>1. /\ TrackerTypeOK' /\ ShownIsDerived'
        /\ idledSince => idledSince'
        /\ idledSince' \/ BusyOf(agentBusy') # {}
    <3>1. agentBusy \in [Agents -> BOOLEAN] /\ idledSince \in BOOLEAN
      BY <1>0 DEF TrackerTypeOK
    <3> QED
      BY <1>1, <3>1, RecomputeIsConsistent DEF SkipTheKill, MarkRunning
  <2>2. UNCHANGED <<awaiting, superseded, steering, ringPaused, reconcile, gone, announcing, fresh,
                    answeredStop, steers, deals, halts>>
    BY <1>1 DEF SkipTheKill, countVars
  <2>3. escalation' \in [Presses -> Steps]
    <3>1. "done" \in Steps /\ Goes(e, "done")
      BY <1>1 DEF SkipTheKill, Steps
    <3> QED
      BY <3>1, GoesOn
  <2>4. SessionTypeOK'
    BY <1>0, <2>2, <2>3 DEF SessionTypeOK
  <2>5. ScreenIsCurrent' /\ FreshIsOnRecord' /\ MessageSupersedes' /\ IdleIsOnRecord'
    BY <2>1, <2>2 DEF CancelInv, ScreenIsCurrent, ShownIsDerived, FreshIsOnRecord,
                      MessageSupersedes, IdleIsOnRecord
  <2> QED
    BY <2>1, <2>4, <2>5, TypeInTwo DEF CancelInv
<1>2. CASE PauseRing(e) \/ InterruptAll(e) \/ Decide(e) \/ Honored(e) \/ KillNow(e)
  <2>1. /\ UNCHANGED trackerVars
        /\ UNCHANGED <<awaiting, superseded, steering, announcing, fresh, answeredStop, steers, deals,
                       halts>>
    BY <1>2 DEF PauseRing, InterruptAll, Decide, Honored, KillNow, countVars
  <2>2. PICK step \in Steps : Goes(e, step)
    <3>1. {"interrupting", "waiting", "done"} \subseteq Steps
      BY DEF Steps
    <3> QED
      BY <1>2, <3>1, OutcomeIsAStep DEF PauseRing, InterruptAll, Decide, Honored, KillNow
  <2>3. escalation' \in [Presses -> Steps]
    BY <2>2, GoesOn
  <2>4. ringPaused' \in BOOLEAN /\ reconcile' \in BOOLEAN /\ gone' \subseteq Agents
    <3>1. ringPaused \in BOOLEAN /\ reconcile \in BOOLEAN /\ gone \subseteq Agents
      BY <1>0 DEF SessionTypeOK
    <3> QED
      BY <1>2, <3>1 DEF PauseRing, InterruptAll, Decide, Honored, KillNow
  <2>5. SessionTypeOK' /\ TrackerTypeOK'
    BY <1>0, <2>1, <2>3, <2>4 DEF SessionTypeOK, TrackerTypeOK, trackerVars
  <2>6. ScreenIsCurrent' /\ FreshIsOnRecord' /\ MessageSupersedes' /\ IdleIsOnRecord'
    BY <2>1 DEF CancelInv, ScreenIsCurrent, FreshIsOnRecord, MessageSupersedes, IdleIsOnRecord,
                trackerVars
  <2> QED
    BY <2>5, <2>6, TypeInTwo DEF CancelInv
<1> QED
  BY <1>1, <1>2 DEF Escalate

LEMMA CancelNextPreserves == CancelInv /\ [CancelNext]_cancelVars => CancelInv'
<1> SUFFICES ASSUME CancelInv, [CancelNext]_cancelVars PROVE CancelInv'
  OBVIOUS
<1>1. CASE \E a \in Agents : TurnStarts(a) \/ TurnEnds(a)
  BY <1>1, TurnPreserves
<1>2. CASE DeclareHalt \/ RefreshAfterHalt
  BY <1>2, HaltPreserves
<1>3. CASE Steer \/ SteerPosted
  BY <1>3, SteerPreserves
<1>4. CASE \E e \in Presses : PressStop(e) \/ Escalate(e)
  BY <1>4, PressPreserves, EscalatePreserves
<1>5. CASE UNCHANGED cancelVars
  BY <1>5 DEF cancelVars, trackerVars, countVars, CancelInv, CancelTypeOK, ScreenIsCurrent,
              FreshIsOnRecord, MessageSupersedes, IdleIsOnRecord
<1> QED
  BY <1>1, <1>2, <1>3, <1>4, <1>5 DEF CancelNext
-----------------------------------------------------------------------------
\* The inductive invariant.
LEMMA CancelInvAlways == CancelSpec => []CancelInv
<1> QED
  BY CancelInitEstablishes, CancelNextPreserves, PTL DEF CancelSpec

\* The variables of the tracker and of the Stop have their types.
THEOREM CancelTypeCorrect == CancelSpec => []CancelTypeOK
<1>1. CancelInv => CancelTypeOK
  BY DEF CancelInv
<1> QED
  BY <1>1, CancelInvAlways, PTL

\* What the screen shows is what the tracker holds, except between a halt's flag and its refresh
\* (recompute_locked).
THEOREM ScreenFollowsTheTracker == CancelSpec => []ScreenIsCurrent
<1>1. CancelInv => ScreenIsCurrent
  BY DEF CancelInv
<1> QED
  BY <1>1, CancelInvAlways, PTL

\* No escalation decides to kill a session in which only turns are running that were dealt for a
\* message after the last Stop and after the turns before it had ended (escalation_outcome), also
\* when the ring hands out turns next to ones that still run (release_ring).
THEOREM FreshTurnsAreSpared == CancelSpec => FreshTurnIsNotCondemned
<1>1. ASSUME CancelInv, [CancelNext]_cancelVars, NEW e \in Presses,
             At(e, "waiting"), escalation'[e] = "sigkill"
      PROVE  BusyOf(agentBusy) \ fresh # {}
  <2>0. escalation \in [Presses -> Steps]
    BY <1>1 DEF CancelInv, CancelTypeOK
  <2>1. Decide(e)
    <3>1. PICK f \in Presses : PressStop(f) \/ Escalate(f)
      BY <1>1 DEF CancelNext, cancelVars, TurnStarts, TurnEnds, DeclareHalt, RefreshAfterHalt, Steer,
                  SteerPosted, At
    <3>2. f = e
      <4>1. \A step : Goes(f, step) => f = e
        BY <1>1, <2>0 DEF Goes, At
      <4> QED
        BY <3>1, <4>1 DEF PressStop, Escalate, PauseRing, InterruptAll, Decide, Honored, SkipTheKill,
                          KillNow
    <3> QED
      BY <1>1, <2>0, <3>1, <3>2
         DEF At, Goes, PressStop, Escalate, PauseRing, InterruptAll, Decide, Honored, SkipTheKill,
             KillNow
  <2>2. EscalationOutcome(BusyOf(agentBusy) = {}, superseded, idledSince) = "sigkill"
    BY <1>1, <2>0, <2>1 DEF Decide, Goes
  <2>3. BusyOf(agentBusy) # {} /\ ~(superseded /\ idledSince)
    BY <2>2 DEF EscalationOutcome
  <2>4. fresh = {}
    BY <1>1, <2>3 DEF CancelInv, FreshIsOnRecord
  <2> QED
    BY <2>3, <2>4
<1>2. CancelInv /\ [CancelNext]_cancelVars
        => [\A e \in Presses :
              At(e, "waiting") /\ escalation'[e] = "sigkill" => BusyOf(agentBusy) \ fresh # {}]_cancelVars
  BY <1>1
<1> QED
  BY <1>2, CancelInvAlways, PTL DEF CancelSpec, FreshTurnIsNotCondemned
-----------------------------------------------------------------------------
(* The supervisor *)

\* Where the last result is.
LastIsInStdout == written # <<>> => written[Len(written)] = lastWritten
LastIsInChannel ==
  written = <<>> =>
    \A i \in DOMAIN inEvents :
      inEvents[i] # ExitNotice /\ (\A j \in DOMAIN inEvents : j > i => inEvents[j] = ExitNotice)
        => inEvents[i] = lastWritten
StatusOf(result) == IF result = "ok" THEN NoResult ELSE result
LastIsOnRecord ==
  written = <<>> /\ (\A i \in DOMAIN inEvents : inEvents[i] = ExitNotice)
    => lastStatus = StatusOf(lastWritten)

\* A reader that has finished has read everything, and a watched exit is one.
StdoutIsDrained == "stdout" \notin watching => written = <<>> /\ process = "gone"

\* A verdict is made on a child that is over.
VerdictIsFinal ==
  supervising \in {"backoff", "respawning"} => lastWritten = "transient" /\ watching = {}

\* The bound: a transient result is written only while a respawn is left.
RespawnIsLeft == lastWritten = "transient" => respawns < MaxRespawns

\* A healthy result that has not reached the supervisor has cleared the history already.
HealthIsPending ==
  (\E i \in DOMAIN written : written[i] = "ok") \/ (\E i \in DOMAIN inEvents : inEvents[i] = "ok")
    => failed = 0
FailuresAreTries == failed <= tries

NudgeIsNext ==
  respawns > 0 =>
    IF reads # <<>> THEN Head(reads) = Nudge
    ELSE stdinOpen => inLines # <<>> /\ Head(inLines) = Nudge

SupervisorInv ==
  /\ SupervisorTypeOK
  /\ LastIsInStdout /\ LastIsInChannel /\ LastIsOnRecord
  /\ StdoutIsDrained /\ VerdictIsFinal /\ RespawnIsLeft
  /\ HealthIsPending /\ FailuresAreTries
  /\ NudgeIsNext

\* What an append and the removal of the head do to the elements of a queue.
LEMMA AppendElements ==
  ASSUME NEW S, NEW s \in Seq(S), NEW e \in S
  PROVE  /\ Append(s, e) \in Seq(S) /\ Append(s, e) # <<>>
         /\ Len(Append(s, e)) = Len(s) + 1
         /\ DOMAIN Append(s, e) = 1..(Len(s) + 1) /\ DOMAIN s = 1..Len(s) /\ Len(s) \in Nat
         /\ Append(s, e)[Len(s) + 1] = e
         /\ \A i \in 1..Len(s) : Append(s, e)[i] = s[i]
         /\ s # <<>> => Head(Append(s, e)) = Head(s)
         /\ s = <<>> => Head(Append(s, e)) = e
  OBVIOUS

LEMMA EmptyHasNoLength ==
  ASSUME NEW S, NEW s \in Seq(S)
  PROVE  s = <<>> <=> Len(s) = 0
  OBVIOUS

LEMMA TailElements ==
  ASSUME NEW S, NEW s \in Seq(S), s # <<>>
  PROVE  /\ Tail(s) \in Seq(S) /\ Head(s) \in S /\ Head(s) = s[1]
         /\ Len(s) \in Nat \ {0} /\ DOMAIN s = 1..Len(s) /\ DOMAIN Tail(s) = 1..(Len(s) - 1)
         /\ Len(Tail(s)) = Len(s) - 1
         /\ \A i \in 1..(Len(s) - 1) : Tail(s)[i] = s[i + 1]
         /\ Tail(s) = <<>> <=> Len(s) = 1
<1>1. Tail(s) \in Seq(S) /\ Head(s) \in S /\ Head(s) = s[1] /\ Len(s) \in Nat \ {0}
  OBVIOUS
<1>2. DOMAIN s = 1..Len(s) /\ DOMAIN Tail(s) = 1..(Len(s) - 1) /\ Len(Tail(s)) = Len(s) - 1
  OBVIOUS
<1>3. \A i \in 1..(Len(s) - 1) : Tail(s)[i] = s[i + 1]
  OBVIOUS
<1>4. Tail(s) = <<>> <=> Len(Tail(s)) = 0
  BY <1>1, EmptyHasNoLength
<1> QED
  BY <1>1, <1>2, <1>3, <1>4

LEMMA SupervisorInitEstablishes == SupervisorInit => SupervisorInv
<1> SUFFICES ASSUME SupervisorInit PROVE SupervisorInv
  OBVIOUS
<1>1. SupervisorTypeOK
  <2>1. 0 \in 0..MaxTurns /\ 0 \in 0..MaxRetries /\ 0 \in 0..MaxRespawns /\ 0 \in 0..MaxLines /\ 0 \in Nat
    BY SupervisorAssumption
  <2>2. /\ written \in Seq(Results) /\ inEvents \in Seq(Results \cup {ExitNotice})
        /\ outLines \in Seq(1..MaxLines) /\ inLines \in Seq(0..MaxLines) /\ reads \in Seq(0..MaxLines)
    BY DEF SupervisorInit
  <2>3. /\ process \in {"running", "gone"} /\ watching \subseteq {"stdout", "exit"}
        /\ stdinOpen \in BOOLEAN /\ killSent \in BOOLEAN
        /\ supervising \in {"bridging", "backoff", "respawning", "ended"}
        /\ lastStatus \in Results \cup {NoResult} /\ lastWritten \in Results \cup {NoResult}
    BY DEF SupervisorInit
  <2>4. /\ writes \in 0..MaxTurns /\ tries \in 0..MaxRetries /\ respawns \in 0..MaxRespawns
        /\ sent \in 0..MaxLines /\ failed \in Nat
    BY <2>1 DEF SupervisorInit
  <2> QED
    BY <2>2, <2>3, <2>4 DEF SupervisorTypeOK
<1>2. LastIsInStdout /\ LastIsInChannel /\ LastIsOnRecord
  BY DEF SupervisorInit, LastIsInStdout, LastIsInChannel, LastIsOnRecord, StatusOf, NoResult
<1>3. StdoutIsDrained /\ VerdictIsFinal /\ RespawnIsLeft
  BY DEF SupervisorInit, StdoutIsDrained, VerdictIsFinal, RespawnIsLeft, NoResult
<1>4. HealthIsPending /\ FailuresAreTries /\ NudgeIsNext
  BY DEF SupervisorInit, HealthIsPending, FailuresAreTries, NudgeIsNext
<1> QED
  BY <1>1, <1>2, <1>3, <1>4 DEF SupervisorInv
-----------------------------------------------------------------------------
(* The child *)

LEMMA WritePreserves ==
  ASSUME SupervisorInv, WriteResult
  PROVE  SupervisorInv'
<1>1. PICK r \in Results :
        /\ r = "transient" => respawns < MaxRespawns
        /\ written' = Append(written, r)
        /\ lastWritten' = r
        /\ failed' = IF r = "ok" THEN 0 ELSE failed
  BY DEF WriteResult
<1>2. /\ process = "running" /\ writes < MaxTurns /\ writes' = writes + 1
      /\ UNCHANGED <<process, inEvents, watching, inLines, stdinOpen, reads, supervising, tries,
                     lastStatus, respawns, outLines, killSent, sent>>
  BY DEF WriteResult, outerVars
<1>3. written \in Seq(Results)
  BY DEF SupervisorInv, SupervisorTypeOK
<1>4. /\ written' \in Seq(Results) /\ written' # <<>> /\ Len(written') = Len(written) + 1
      /\ written'[Len(written')] = r
      /\ DOMAIN written' = 1..(Len(written) + 1) /\ DOMAIN written = 1..Len(written)
      /\ Len(written) \in Nat
      /\ \A i \in 1..Len(written) : written'[i] = written[i]
      /\ written'[Len(written) + 1] = r
  BY <1>1, <1>3, AppendElements
<1>5. failed \in Nat /\ tries \in Nat /\ failed <= tries
  BY SupervisorAssumption DEF SupervisorInv, SupervisorTypeOK, FailuresAreTries
<1>6. failed' \in Nat /\ failed' <= tries'
  BY <1>1, <1>2, <1>5
<1>7. SupervisorTypeOK'
  <2>1. writes' \in 0..MaxTurns
    BY <1>2, SupervisorAssumption DEF SupervisorInv, SupervisorTypeOK
  <2> QED
    BY <1>1, <1>2, <1>4, <1>6, <2>1 DEF SupervisorInv, SupervisorTypeOK
<1>8. LastIsInStdout' /\ LastIsInChannel' /\ LastIsOnRecord'
  BY <1>1, <1>4 DEF LastIsInStdout, LastIsInChannel, LastIsOnRecord
<1>9. StdoutIsDrained' /\ VerdictIsFinal' /\ RespawnIsLeft'
  BY <1>1, <1>2 DEF SupervisorInv, StdoutIsDrained, VerdictIsFinal, RespawnIsLeft
<1>10. HealthIsPending'
  <2>1. CASE r = "ok"
    BY <1>1, <2>1 DEF HealthIsPending
  <2>2. CASE r # "ok"
    <3>1. failed' = failed
      BY <1>1, <2>2
    <3>2. ASSUME NEW i \in DOMAIN written', written'[i] = "ok" PROVE failed = 0
      <4>1. i \in DOMAIN written /\ written[i] = "ok"
        BY <1>4, <2>2, <3>2
      <4> QED
        BY <4>1 DEF SupervisorInv, HealthIsPending
    <3>3. ASSUME NEW i \in DOMAIN inEvents', inEvents'[i] = "ok" PROVE failed = 0
      BY <1>2, <3>3 DEF SupervisorInv, HealthIsPending
    <3> QED
      BY <3>1, <3>2, <3>3 DEF HealthIsPending
  <2> QED
    BY <2>1, <2>2
<1>11. NudgeIsNext'
  BY <1>2 DEF SupervisorInv, NudgeIsNext
<1> QED
  BY <1>6, <1>7, <1>8, <1>9, <1>10, <1>11 DEF SupervisorInv, FailuresAreTries

LEMMA PumpStdoutPreserves ==
  ASSUME SupervisorInv, PumpStdout
  PROVE  SupervisorInv'
<1>1. UNCHANGED <<process, writes, inLines, stdinOpen, reads, lastWritten, supervising, tries,
                  lastStatus, respawns, failed, outLines, killSent, sent>>
  BY DEF PumpStdout, superVars, outerVars
<1>2. /\ written \in Seq(Results) /\ inEvents \in Seq(Results \cup {ExitNotice})
      /\ watching \subseteq {"stdout", "exit"}
  BY DEF SupervisorInv, SupervisorTypeOK
<1>3. FailuresAreTries' /\ NudgeIsNext' /\ RespawnIsLeft'
  BY <1>1 DEF SupervisorInv, FailuresAreTries, NudgeIsNext, RespawnIsLeft
<1>4. CASE /\ written # <<>>
           /\ inEvents' = Append(inEvents, Head(written))
           /\ written' = Tail(written)
           /\ UNCHANGED watching
  <2>1. /\ written' \in Seq(Results) /\ Head(written) \in Results /\ Head(written) = written[1]
        /\ Len(written) \in Nat \ {0} /\ DOMAIN written = 1..Len(written)
        /\ DOMAIN written' = 1..(Len(written) - 1) /\ Len(written') = Len(written) - 1
        /\ \A i \in 1..(Len(written) - 1) : written'[i] = written[i + 1]
        /\ written' = <<>> <=> Len(written) = 1
    BY <1>2, <1>4, TailElements
  <2>2. /\ inEvents' \in Seq(Results \cup {ExitNotice})
        /\ DOMAIN inEvents' = 1..(Len(inEvents) + 1) /\ DOMAIN inEvents = 1..Len(inEvents)
        /\ Len(inEvents) \in Nat
        /\ inEvents'[Len(inEvents) + 1] = Head(written)
        /\ \A i \in 1..Len(inEvents) : inEvents'[i] = inEvents[i]
    BY <1>2, <1>4, <2>1, AppendElements
  <2>3. Head(written) # ExitNotice
    BY <2>1 DEF Results, ExitNotice
  <2>4. written[Len(written)] = lastWritten
    BY <1>4 DEF SupervisorInv, LastIsInStdout
  <2>5. LastIsInStdout'
    <3>1. ASSUME written' # <<>> PROVE written'[Len(written')] = lastWritten
      <4>1. Len(written') \in 1..(Len(written) - 1) /\ Len(written') + 1 = Len(written)
        BY <2>1, <3>1
      <4> QED
        BY <2>1, <2>4, <4>1
    <3> QED
      BY <1>1, <3>1 DEF LastIsInStdout
  <2>6. LastIsInChannel'
    <3>1. ASSUME written' = <<>>, NEW i \in DOMAIN inEvents',
                 inEvents'[i] # ExitNotice,
                 \A j \in DOMAIN inEvents' : j > i => inEvents'[j] = ExitNotice
          PROVE  inEvents'[i] = lastWritten
      <4>1. i = Len(inEvents) + 1
        BY <2>2, <2>3, <3>1
      <4> QED
        BY <2>1, <2>2, <2>4, <3>1, <4>1
    <3> QED
      BY <1>1, <3>1 DEF LastIsInChannel
  <2>7. LastIsOnRecord'
    BY <2>2, <2>3 DEF LastIsOnRecord
  <2>8. StdoutIsDrained' /\ VerdictIsFinal'
    BY <1>1, <1>4 DEF SupervisorInv, StdoutIsDrained, VerdictIsFinal
  <2>9. HealthIsPending'
    <3>1. ASSUME NEW i \in DOMAIN written', written'[i] = "ok" PROVE failed = 0
      <4>1. i + 1 \in DOMAIN written /\ written[i + 1] = "ok"
        BY <2>1, <3>1
      <4> QED
        BY <4>1 DEF SupervisorInv, HealthIsPending
    <3>2. ASSUME NEW i \in DOMAIN inEvents', inEvents'[i] = "ok" PROVE failed = 0
      <4>1. CASE i \in 1..Len(inEvents)
        BY <2>2, <3>2, <4>1 DEF SupervisorInv, HealthIsPending
      <4>2. CASE i = Len(inEvents) + 1
        <5>1. 1 \in DOMAIN written /\ written[1] = "ok"
          BY <2>1, <2>2, <3>2, <4>2
        <5> QED
          BY <5>1 DEF SupervisorInv, HealthIsPending
      <4> QED
        BY <2>2, <4>1, <4>2
    <3> QED
      BY <1>1, <3>1, <3>2 DEF HealthIsPending
  <2>10. SupervisorTypeOK'
    BY <1>1, <1>4, <2>1, <2>2 DEF SupervisorInv, SupervisorTypeOK
  <2> QED
    BY <1>3, <2>5, <2>6, <2>7, <2>8, <2>9, <2>10 DEF SupervisorInv
<1>5. CASE /\ written = <<>> /\ process = "gone"
           /\ watching' = watching \ {"stdout"}
           /\ UNCHANGED <<written, inEvents>>
  <2>1. /\ LastIsInStdout' /\ LastIsInChannel' /\ LastIsOnRecord' /\ HealthIsPending'
    BY <1>1, <1>5
       DEF SupervisorInv, LastIsInStdout, LastIsInChannel, LastIsOnRecord, HealthIsPending
  <2>2. StdoutIsDrained' /\ VerdictIsFinal'
    BY <1>1, <1>5 DEF SupervisorInv, StdoutIsDrained, VerdictIsFinal
  <2>3. SupervisorTypeOK'
    BY <1>1, <1>5 DEF SupervisorInv, SupervisorTypeOK
  <2> QED
    BY <1>3, <2>1, <2>2, <2>3 DEF SupervisorInv
<1> QED
  BY <1>4, <1>5 DEF PumpStdout

LEMMA ExitPreserves ==
  ASSUME SupervisorInv, ProcessExits \/ NoticeExit
  PROVE  SupervisorInv'
<1>1. CASE ProcessExits
  <2>1. /\ process' = "gone"
        /\ UNCHANGED <<written, writes, inEvents, watching, inLines, stdinOpen, reads, lastWritten,
                       supervising, tries, lastStatus, respawns, failed, outLines, killSent, sent>>
    BY <1>1 DEF ProcessExits, superVars, outerVars
  <2>2. SupervisorTypeOK'
    BY <2>1 DEF SupervisorInv, SupervisorTypeOK
  <2>3. LastIsInStdout' /\ LastIsInChannel' /\ LastIsOnRecord' /\ HealthIsPending'
    BY <2>1 DEF SupervisorInv, LastIsInStdout, LastIsInChannel, LastIsOnRecord, HealthIsPending
  <2>4. StdoutIsDrained' /\ VerdictIsFinal' /\ RespawnIsLeft' /\ FailuresAreTries' /\ NudgeIsNext'
    BY <2>1 DEF SupervisorInv, StdoutIsDrained, VerdictIsFinal, RespawnIsLeft, FailuresAreTries,
                NudgeIsNext
  <2> QED
    BY <2>2, <2>3, <2>4 DEF SupervisorInv
<1>2. CASE NoticeExit
  <2>1. /\ "exit" \in watching /\ process = "gone"
        /\ inEvents' = Append(inEvents, ExitNotice) /\ watching' = watching \ {"exit"}
        /\ UNCHANGED <<process, written, writes, inLines, stdinOpen, reads, lastWritten,
                       supervising, tries, lastStatus, respawns, failed, outLines, killSent, sent>>
    BY <1>2 DEF NoticeExit, superVars, outerVars
  <2>2. /\ inEvents' \in Seq(Results \cup {ExitNotice})
        /\ DOMAIN inEvents' = 1..(Len(inEvents) + 1) /\ DOMAIN inEvents = 1..Len(inEvents)
        /\ Len(inEvents) \in Nat
        /\ inEvents'[Len(inEvents) + 1] = ExitNotice
        /\ \A i \in 1..Len(inEvents) : inEvents'[i] = inEvents[i]
    <3>1. inEvents \in Seq(Results \cup {ExitNotice})
      BY DEF SupervisorInv, SupervisorTypeOK
    <3> QED
      BY <2>1, <3>1, AppendElements
  <2>3. SupervisorTypeOK'
    BY <2>1, <2>2 DEF SupervisorInv, SupervisorTypeOK
  <2>4. LastIsInStdout' /\ StdoutIsDrained' /\ VerdictIsFinal' /\ RespawnIsLeft'
    BY <2>1 DEF SupervisorInv, LastIsInStdout, StdoutIsDrained, VerdictIsFinal, RespawnIsLeft
  <2>5. FailuresAreTries' /\ NudgeIsNext'
    BY <2>1 DEF SupervisorInv, FailuresAreTries, NudgeIsNext
  <2>6. LastIsInChannel'
    <3>1. ASSUME written = <<>>, NEW i \in DOMAIN inEvents',
                 inEvents'[i] # ExitNotice,
                 \A j \in DOMAIN inEvents' : j > i => inEvents'[j] = ExitNotice
          PROVE  inEvents'[i] = lastWritten
      <4>1. i \in DOMAIN inEvents /\ inEvents[i] # ExitNotice /\ inEvents'[i] = inEvents[i]
        BY <2>2, <3>1
      <4>2. \A j \in DOMAIN inEvents : j > i => inEvents[j] = ExitNotice
        BY <2>2, <3>1
      <4> QED
        BY <3>1, <4>1, <4>2 DEF SupervisorInv, LastIsInChannel
    <3> QED
      BY <2>1, <3>1 DEF LastIsInChannel
  <2>7. LastIsOnRecord'
    <3>1. ASSUME written = <<>>, \A i \in DOMAIN inEvents' : inEvents'[i] = ExitNotice
          PROVE  lastStatus = StatusOf(lastWritten)
      <4>1. \A i \in DOMAIN inEvents : inEvents[i] = ExitNotice
        BY <2>2, <3>1
      <4> QED
        BY <3>1, <4>1 DEF SupervisorInv, LastIsOnRecord
    <3> QED
      BY <2>1, <3>1 DEF LastIsOnRecord
  <2>8. HealthIsPending'
    <3>1. ASSUME NEW i \in DOMAIN inEvents', inEvents'[i] = "ok" PROVE failed = 0
      <4>1. i \in DOMAIN inEvents /\ inEvents[i] = "ok"
        BY <2>2, <3>1 DEF ExitNotice
      <4> QED
        BY <4>1 DEF SupervisorInv, HealthIsPending
    <3> QED
      BY <2>1, <3>1 DEF SupervisorInv, HealthIsPending
  <2> QED
    BY <2>3, <2>4, <2>5, <2>6, <2>7, <2>8 DEF SupervisorInv
<1> QED
  BY <1>1, <1>2

\* Steps that touch neither the results nor the verdict: only the types and the nudge are in play.
LEMMA LinesPreserve ==
  ASSUME SupervisorInv, SupervisorTypeOK', NudgeIsNext',
         UNCHANGED <<written, inEvents, watching, lastWritten, tries, lastStatus, respawns, failed>>,
         process' = "gone" \/ process' = process,
         supervising' \in {"bridging", "ended"} \/ supervising' = supervising
  PROVE  SupervisorInv'
<1>1. LastIsInStdout' /\ LastIsInChannel' /\ LastIsOnRecord' /\ HealthIsPending'
  BY DEF SupervisorInv, LastIsInStdout, LastIsInChannel, LastIsOnRecord, HealthIsPending
<1>2. StdoutIsDrained' /\ VerdictIsFinal' /\ RespawnIsLeft' /\ FailuresAreTries'
  BY DEF SupervisorInv, StdoutIsDrained, VerdictIsFinal, RespawnIsLeft, FailuresAreTries
<1> QED
  BY <1>1, <1>2 DEF SupervisorInv

LEMMA PumpInputPreserves ==
  ASSUME SupervisorInv, PumpInput
  PROVE  SupervisorInv'
<1>1. /\ stdinOpen /\ inLines # <<>> /\ inLines' = Tail(inLines)
      /\ UNCHANGED <<process, written, writes, inEvents, watching, lastWritten, supervising, tries,
                     lastStatus, respawns, failed, outLines, killSent, sent>>
  BY DEF PumpInput, superVars, outerVars
<1>2. inLines \in Seq(0..MaxLines) /\ reads \in Seq(0..MaxLines) /\ stdinOpen \in BOOLEAN
  BY DEF SupervisorInv, SupervisorTypeOK
<1>3. inLines' \in Seq(0..MaxLines) /\ Head(inLines) \in 0..MaxLines
  BY <1>1, <1>2, TailElements
<1>4. CASE reads' = Append(reads, Head(inLines)) /\ UNCHANGED stdinOpen
  <2>1. /\ reads' \in Seq(0..MaxLines) /\ reads' # <<>>
        /\ reads # <<>> => Head(reads') = Head(reads)
        /\ reads = <<>> => Head(reads') = Head(inLines)
    BY <1>2, <1>3, <1>4, AppendElements
  <2>2. SupervisorTypeOK'
    BY <1>1, <1>2, <1>3, <1>4, <2>1 DEF SupervisorInv, SupervisorTypeOK
  <2>3. NudgeIsNext'
    BY <1>1, <2>1 DEF SupervisorInv, NudgeIsNext
  <2> QED
    BY <1>1, <2>2, <2>3, LinesPreserve
<1>5. CASE stdinOpen' = FALSE /\ UNCHANGED reads
  <2>1. SupervisorTypeOK'
    BY <1>1, <1>3, <1>5 DEF SupervisorInv, SupervisorTypeOK
  <2>2. NudgeIsNext'
    BY <1>1, <1>5 DEF SupervisorInv, NudgeIsNext
  <2> QED
    BY <1>1, <2>1, <2>2, LinesPreserve
<1> QED
  BY <1>4, <1>5 DEF PumpInput
-----------------------------------------------------------------------------
(* The application and the supervisor *)

LEMMA OuterPreserves ==
  ASSUME SupervisorInv, QueueLine \/ KillHandle
  PROVE  SupervisorInv'
<1>1. UNCHANGED <<process, written, writes, inEvents, watching, inLines, stdinOpen, reads,
                  lastWritten, supervising, tries, lastStatus, respawns, failed>>
  BY DEF QueueLine, KillHandle, childVars, superVars
<1>2. outLines' \in Seq(1..MaxLines) /\ sent' \in 0..MaxLines /\ killSent' \in BOOLEAN
  <2>0. outLines \in Seq(1..MaxLines) /\ sent \in 0..MaxLines /\ killSent \in BOOLEAN /\ MaxLines \in Nat
    BY SupervisorAssumption DEF SupervisorInv, SupervisorTypeOK
  <2>1. CASE QueueLine
    <3>1. sent < MaxLines /\ sent' = sent + 1 /\ outLines' = Append(outLines, sent + 1) /\ killSent' = killSent
      BY <2>1 DEF QueueLine
    <3>2. sent + 1 \in 1..MaxLines /\ sent + 1 \in 0..MaxLines
      BY <2>0, <3>1
    <3> QED
      BY <2>0, <3>1, <3>2, AppendElements
  <2>2. CASE KillHandle
    BY <2>0, <2>2 DEF KillHandle
  <2> QED
    BY <2>1, <2>2
<1>3. SupervisorTypeOK' /\ NudgeIsNext'
  BY <1>1, <1>2 DEF SupervisorInv, SupervisorTypeOK, NudgeIsNext
<1> QED
  BY <1>1, <1>3, LinesPreserve

LEMMA BridgeLinePreserves ==
  ASSUME SupervisorInv, BridgeKill \/ BridgeLine
  PROVE  SupervisorInv'
<1>0. outLines \in Seq(1..MaxLines) /\ inLines \in Seq(0..MaxLines)
  BY DEF SupervisorInv, SupervisorTypeOK
<1>1. CASE BridgeKill
  <2>1. /\ process' = "gone" /\ supervising' = "ended"
        /\ UNCHANGED <<written, writes, inEvents, watching, inLines, stdinOpen, reads, lastWritten,
                       tries, lastStatus, respawns, failed, outLines, killSent, sent>>
    BY <1>1 DEF BridgeKill, KillChild, outerVars
  <2>2. SupervisorTypeOK' /\ NudgeIsNext'
    BY <2>1 DEF SupervisorInv, SupervisorTypeOK, NudgeIsNext
  <2> QED
    BY <2>1, <2>2, LinesPreserve
<1>2. CASE BridgeLine
  <2>1. /\ outLines # <<>> /\ outLines' = Tail(outLines)
        /\ UNCHANGED <<written, writes, inEvents, watching, stdinOpen, reads, lastWritten,
                       tries, lastStatus, respawns, failed, killSent, sent>>
    BY <1>2 DEF BridgeLine
  <2>2. outLines' \in Seq(1..MaxLines) /\ Head(outLines) \in 0..MaxLines
    <3>1. Head(outLines) \in 1..MaxLines
      BY <1>0, <2>1, TailElements
    <3> QED
      BY <1>0, <2>1, <3>1, TailElements
  <2>3. CASE inLines' = Append(inLines, Head(outLines)) /\ UNCHANGED <<process, supervising>>
    <3>1. /\ inLines' \in Seq(0..MaxLines) /\ inLines' # <<>>
          /\ inLines # <<>> => Head(inLines') = Head(inLines)
      BY <1>0, <2>2, <2>3, AppendElements
    <3>2. SupervisorTypeOK'
      BY <2>1, <2>2, <2>3, <3>1 DEF SupervisorInv, SupervisorTypeOK
    <3>3. NudgeIsNext'
      BY <2>1, <3>1 DEF SupervisorInv, NudgeIsNext
    <3> QED
      BY <2>1, <2>3, <3>2, <3>3, LinesPreserve
  <2>4. CASE process' = "gone" /\ supervising' = "ended" /\ UNCHANGED inLines
    <3>1. SupervisorTypeOK' /\ NudgeIsNext'
      BY <2>1, <2>2, <2>4 DEF SupervisorInv, SupervisorTypeOK, NudgeIsNext
    <3> QED
      BY <2>1, <2>4, <3>1, LinesPreserve
  <2> QED
    BY <1>2, <2>3, <2>4 DEF BridgeLine, KillChild
<1> QED
  BY <1>1, <1>2

LEMMA BridgeEventPreserves ==
  ASSUME SupervisorInv, BridgeEvent
  PROVE  SupervisorInv'
<1> DEFINE e == Head(inEvents)
<1>1. /\ supervising = "bridging" /\ inEvents # <<>> /\ inEvents' = Tail(inEvents)
      /\ UNCHANGED <<process, written, writes, watching, inLines, stdinOpen, reads, lastWritten,
                     supervising, respawns, failed, outLines, killSent, sent>>
  BY DEF BridgeEvent, outerVars
<1>2. \/ e = ExitNotice /\ UNCHANGED <<tries, lastStatus>>
      \/ e = "ok" /\ tries' = 0 /\ lastStatus' = NoResult
      \/ e \in Results \ {"ok"} /\ lastStatus' = e /\ UNCHANGED tries
  BY DEF BridgeEvent
<1>3. /\ inEvents' \in Seq(Results \cup {ExitNotice}) /\ e = inEvents[1]
      /\ Len(inEvents) \in Nat \ {0} /\ DOMAIN inEvents = 1..Len(inEvents)
      /\ DOMAIN inEvents' = 1..(Len(inEvents) - 1)
      /\ \A i \in 1..(Len(inEvents) - 1) : inEvents'[i] = inEvents[i + 1]
  <2>1. inEvents \in Seq(Results \cup {ExitNotice})
    BY DEF SupervisorInv, SupervisorTypeOK
  <2> QED
    BY <1>1, <2>1, TailElements
<1> HIDE DEF e
<1>4. /\ tries \in 0..MaxRetries /\ failed \in Nat /\ failed <= tries /\ MaxRetries \in Nat
      /\ lastStatus \in Results \cup {NoResult}
  BY SupervisorAssumption DEF SupervisorInv, SupervisorTypeOK, FailuresAreTries
<1>5. tries' \in 0..MaxRetries /\ lastStatus' \in Results \cup {NoResult} /\ FailuresAreTries'
  <2>1. CASE e = "ok" /\ tries' = 0 /\ lastStatus' = NoResult
    <3>1. 1 \in DOMAIN inEvents /\ inEvents[1] = "ok"
      BY <1>3, <2>1
    <3>2. failed = 0
      BY <3>1 DEF SupervisorInv, HealthIsPending
    <3>3. tries' \in 0..MaxRetries /\ failed' <= tries'
      BY <1>1, <1>4, <2>1, <3>2
    <3>4. lastStatus' \in Results \cup {NoResult}
      BY <2>1
    <3> QED
      BY <3>3, <3>4 DEF FailuresAreTries
  <2>2. CASE tries' = tries /\ lastStatus' \in Results \cup {NoResult}
    BY <1>1, <1>4, <2>2 DEF FailuresAreTries
  <2>3. \/ e = "ok" /\ tries' = 0 /\ lastStatus' = NoResult
        \/ tries' = tries /\ lastStatus' \in Results \cup {NoResult}
    BY <1>2, <1>4
  <2> QED
    BY <2>1, <2>2, <2>3
<1>6. SupervisorTypeOK'
  BY <1>1, <1>3, <1>5 DEF SupervisorInv, SupervisorTypeOK
<1>7. LastIsInStdout' /\ StdoutIsDrained' /\ VerdictIsFinal' /\ RespawnIsLeft' /\ NudgeIsNext'
  BY <1>1 DEF SupervisorInv, LastIsInStdout, StdoutIsDrained, VerdictIsFinal, RespawnIsLeft, NudgeIsNext
<1>8. LastIsInChannel'
  <2>1. ASSUME written = <<>>, NEW i \in DOMAIN inEvents',
               inEvents'[i] # ExitNotice,
               \A j \in DOMAIN inEvents' : j > i => inEvents'[j] = ExitNotice
        PROVE  inEvents'[i] = lastWritten
    <3>1. i \in 1..(Len(inEvents) - 1) /\ i + 1 \in DOMAIN inEvents /\ inEvents'[i] = inEvents[i + 1]
      BY <1>3, <2>1
    <3>2. ASSUME NEW j \in DOMAIN inEvents, j > i + 1 PROVE inEvents[j] = ExitNotice
      <4>1. j - 1 \in 1..(Len(inEvents) - 1) /\ j - 1 > i /\ (j - 1) + 1 = j
        BY <1>3, <3>1, <3>2
      <4>2. inEvents'[j - 1] = inEvents[(j - 1) + 1]
        BY <1>3, <4>1
      <4>3. inEvents'[j - 1] = ExitNotice
        BY <1>3, <2>1, <4>1
      <4> QED
        BY <4>1, <4>2, <4>3
    <3> QED
      BY <2>1, <3>1, <3>2 DEF SupervisorInv, LastIsInChannel
  <2> QED
    BY <1>1, <2>1 DEF LastIsInChannel
<1>9. LastIsOnRecord'
  <2>1. ASSUME written = <<>>, \A i \in DOMAIN inEvents' : inEvents'[i] = ExitNotice
        PROVE  lastStatus' = StatusOf(lastWritten)
    <3>1. ASSUME NEW j \in DOMAIN inEvents, j > 1 PROVE inEvents[j] = ExitNotice
      <4>1. j - 1 \in 1..(Len(inEvents) - 1) /\ (j - 1) + 1 = j
        BY <1>3, <3>1
      <4>2. inEvents'[j - 1] = inEvents[(j - 1) + 1] /\ inEvents'[j - 1] = ExitNotice
        BY <1>3, <2>1, <4>1
      <4> QED
        BY <4>1, <4>2
    <3>2. CASE e = ExitNotice /\ UNCHANGED <<tries, lastStatus>>
      <4>1. ASSUME NEW i \in DOMAIN inEvents PROVE inEvents[i] = ExitNotice
        <5>1. i = 1 \/ i > 1
          BY <1>3
        <5>2. inEvents[1] = ExitNotice
          BY <1>3, <3>2
        <5> QED
          BY <3>1, <5>1, <5>2
      <4> QED
        BY <2>1, <3>2, <4>1 DEF SupervisorInv, LastIsOnRecord
    <3>3. CASE e # ExitNotice
      <4>1. e = lastWritten
        BY <1>3, <2>1, <3>1, <3>3 DEF SupervisorInv, LastIsInChannel
      <4> QED
        BY <1>2, <3>3, <4>1 DEF StatusOf
    <3>4. e = ExitNotice => UNCHANGED <<tries, lastStatus>>
      BY <1>2 DEF ExitNotice, Results
    <3> QED
      BY <3>2, <3>3, <3>4
  <2> QED
    BY <1>1, <2>1 DEF LastIsOnRecord
<1>10. HealthIsPending'
  <2>1. ASSUME NEW i \in DOMAIN inEvents', inEvents'[i] = "ok" PROVE failed = 0
    <3>1. i + 1 \in DOMAIN inEvents /\ inEvents[i + 1] = "ok"
      BY <1>3, <2>1
    <3> QED
      BY <3>1 DEF SupervisorInv, HealthIsPending
  <2> QED
    BY <1>1, <2>1 DEF SupervisorInv, HealthIsPending
<1> QED
  BY <1>5, <1>6, <1>7, <1>8, <1>9, <1>10 DEF SupervisorInv

LEMMA ChildOverPreserves ==
  ASSUME SupervisorInv, ChildOver
  PROVE  SupervisorInv'
<1>1. /\ inEvents = <<>> /\ watching = {}
      /\ UNCHANGED <<process, written, writes, inEvents, watching, inLines, stdinOpen, reads,
                     lastWritten, lastStatus, respawns, outLines, killSent, sent>>
  BY DEF ChildOver, EventsClosed, childVars, outerVars
<1>2. written = <<>> /\ DOMAIN inEvents = {}
  BY <1>1 DEF SupervisorInv, StdoutIsDrained
<1>3. lastStatus = StatusOf(lastWritten)
  BY <1>2 DEF SupervisorInv, LastIsOnRecord
<1>4. tries \in 0..MaxRetries /\ failed \in Nat /\ failed <= tries /\ MaxRetries \in Nat
  BY SupervisorAssumption DEF SupervisorInv, SupervisorTypeOK, FailuresAreTries
<1>5. /\ supervising' \in {"bridging", "backoff", "respawning", "ended"}
      /\ supervising' \in {"backoff", "respawning"} => lastStatus = "transient"
      /\ tries' \in 0..MaxRetries /\ failed' \in Nat /\ failed' <= tries'
  <2>1. CASE lastStatus = "transient" /\ tries < MaxRetries
    <3>1. supervising' = "backoff" /\ tries' = tries + 1 /\ failed' = failed + 1
      BY <2>1 DEF ChildOver
    <3> QED
      BY <1>4, <2>1, <3>1
  <2>2. CASE ~(lastStatus = "transient" /\ tries < MaxRetries)
    <3>1. supervising' = "ended" /\ tries' = tries /\ failed' = failed
      BY <2>2 DEF ChildOver
    <3> QED
      BY <1>4, <3>1
  <2> QED
    BY <2>1, <2>2
<1>6. lastStatus = "transient" => lastWritten = "transient"
  BY <1>3 DEF StatusOf, NoResult
<1>7. SupervisorTypeOK'
  BY <1>1, <1>5 DEF SupervisorInv, SupervisorTypeOK
<1>8. LastIsInStdout' /\ LastIsInChannel' /\ LastIsOnRecord'
  BY <1>1 DEF SupervisorInv, LastIsInStdout, LastIsInChannel, LastIsOnRecord
<1>9. StdoutIsDrained' /\ VerdictIsFinal' /\ RespawnIsLeft' /\ NudgeIsNext'
  BY <1>1, <1>5, <1>6 DEF SupervisorInv, StdoutIsDrained, VerdictIsFinal, RespawnIsLeft, NudgeIsNext
<1>10. HealthIsPending' /\ FailuresAreTries'
  BY <1>1, <1>2, <1>5 DEF HealthIsPending, FailuresAreTries
<1> QED
  BY <1>7, <1>8, <1>9, <1>10 DEF SupervisorInv

LEMMA BackoffPreserves ==
  ASSUME SupervisorInv, BackoffOver
  PROVE  SupervisorInv'
<1>1. /\ supervising = "backoff" /\ supervising' \in {"respawning", "ended"}
      /\ UNCHANGED <<process, written, writes, inEvents, watching, inLines, stdinOpen, reads,
                     lastWritten, tries, lastStatus, respawns, failed, outLines, killSent, sent>>
  BY DEF BackoffOver, childVars, outerVars
<1>2. SupervisorTypeOK'
  BY <1>1 DEF SupervisorInv, SupervisorTypeOK
<1>3. LastIsInStdout' /\ LastIsInChannel' /\ LastIsOnRecord' /\ HealthIsPending'
  BY <1>1 DEF SupervisorInv, LastIsInStdout, LastIsInChannel, LastIsOnRecord, HealthIsPending
<1>4. StdoutIsDrained' /\ VerdictIsFinal' /\ RespawnIsLeft' /\ FailuresAreTries' /\ NudgeIsNext'
  BY <1>1 DEF SupervisorInv, StdoutIsDrained, VerdictIsFinal, RespawnIsLeft, FailuresAreTries, NudgeIsNext
<1> QED
  BY <1>2, <1>3, <1>4 DEF SupervisorInv

LEMMA RespawnPreserves ==
  ASSUME SupervisorInv, Respawn
  PROVE  SupervisorInv'
<1>1. supervising = "respawning" /\ UNCHANGED <<tries, failed, outLines, killSent, sent>>
  BY DEF Respawn, outerVars
<1>2. CASE /\ FreshChild(<<Nudge>>)
           /\ supervising' = "bridging" /\ lastStatus' = NoResult /\ respawns' = respawns + 1
  <2>1. /\ process' = "running" /\ written' = <<>> /\ writes' = 0
        /\ inEvents' = <<>> /\ watching' = {"stdout", "exit"}
        /\ inLines' = <<Nudge>> /\ stdinOpen' = TRUE /\ reads' = <<>>
        /\ lastWritten' = NoResult
    BY <1>2 DEF FreshChild
  <2>2. respawns' \in 0..MaxRespawns
    <3>1. respawns < MaxRespawns
      BY <1>1 DEF SupervisorInv, VerdictIsFinal, RespawnIsLeft
    <3>2. respawns \in 0..MaxRespawns /\ MaxRespawns \in Nat
      BY SupervisorAssumption DEF SupervisorInv, SupervisorTypeOK
    <3> QED
      BY <1>2, <3>1, <3>2
  <2>3. inLines' \in Seq(0..MaxLines) /\ inLines' # <<>> /\ Head(inLines') = Nudge
    <3>1. Nudge \in 0..MaxLines
      BY SupervisorAssumption DEF Nudge
    <3> QED
      BY <2>1, <3>1
  <2>4. SupervisorTypeOK'
    <3>1. /\ written' \in Seq(Results) /\ inEvents' \in Seq(Results \cup {ExitNotice})
          /\ reads' \in Seq(0..MaxLines)
      BY <2>1
    <3>2. writes' \in 0..MaxTurns
      BY <2>1, SupervisorAssumption
    <3>3. /\ process' \in {"running", "gone"} /\ watching' \subseteq {"stdout", "exit"}
          /\ stdinOpen' \in BOOLEAN
          /\ supervising' \in {"bridging", "backoff", "respawning", "ended"}
          /\ lastStatus' \in Results \cup {NoResult} /\ lastWritten' \in Results \cup {NoResult}
      BY <1>2, <2>1
    <3>4. /\ outLines' \in Seq(1..MaxLines) /\ killSent' \in BOOLEAN /\ tries' \in 0..MaxRetries
          /\ sent' \in 0..MaxLines /\ failed' \in Nat
      BY <1>1 DEF SupervisorInv, SupervisorTypeOK
    <3> QED
      BY <2>2, <2>3, <3>1, <3>2, <3>3, <3>4 DEF SupervisorTypeOK
  <2>5. LastIsInStdout' /\ LastIsInChannel' /\ LastIsOnRecord' /\ HealthIsPending'
    <3>1. DOMAIN inEvents' = {} /\ DOMAIN written' = {}
      BY <2>1
    <3> QED
      BY <1>2, <2>1, <3>1
         DEF LastIsInStdout, LastIsInChannel, LastIsOnRecord, HealthIsPending, StatusOf, NoResult
  <2>6. StdoutIsDrained' /\ VerdictIsFinal' /\ RespawnIsLeft'
    BY <1>2, <2>1 DEF StdoutIsDrained, VerdictIsFinal, RespawnIsLeft, NoResult
  <2>7. FailuresAreTries' /\ NudgeIsNext'
    BY <1>1, <2>1, <2>3 DEF SupervisorInv, FailuresAreTries, NudgeIsNext
  <2> QED
    BY <2>4, <2>5, <2>6, <2>7 DEF SupervisorInv
<1>3. CASE supervising' = "ended" /\ UNCHANGED <<childVars, lastStatus, respawns>>
  <2>1. UNCHANGED <<process, written, writes, inEvents, watching, inLines, stdinOpen, reads, lastWritten>>
    BY <1>3 DEF childVars
  <2>2. SupervisorTypeOK' /\ NudgeIsNext'
    BY <1>1, <1>3, <2>1 DEF SupervisorInv, SupervisorTypeOK, NudgeIsNext
  <2> QED
    BY <1>1, <1>3, <2>1, <2>2, LinesPreserve
<1> QED
  BY <1>2, <1>3 DEF Respawn

LEMMA SupervisorNextPreserves == SupervisorInv /\ [SupervisorNext]_supervisorVars => SupervisorInv'
<1> SUFFICES ASSUME SupervisorInv, [SupervisorNext]_supervisorVars PROVE SupervisorInv'
  OBVIOUS
<1>1. CASE WriteResult
  BY <1>1, WritePreserves
<1>2. CASE ProcessExits \/ NoticeExit
  BY <1>2, ExitPreserves
<1>3. CASE PumpStdout
  BY <1>3, PumpStdoutPreserves
<1>4. CASE PumpInput
  BY <1>4, PumpInputPreserves
<1>5. CASE QueueLine \/ KillHandle
  BY <1>5, OuterPreserves
<1>6. CASE BridgeKill \/ BridgeLine
  BY <1>6, BridgeLinePreserves
<1>7. CASE BridgeEvent
  BY <1>7, BridgeEventPreserves
<1>8. CASE ChildOver
  BY <1>8, ChildOverPreserves
<1>9. CASE BackoffOver
  BY <1>9, BackoffPreserves
<1>10. CASE Respawn
  BY <1>10, RespawnPreserves
<1>11. CASE UNCHANGED supervisorVars
  <2>1. UNCHANGED <<process, written, writes, inEvents, watching, inLines, stdinOpen, reads,
                    lastWritten, supervising, tries, lastStatus, respawns, failed, outLines, killSent,
                    sent>>
    BY <1>11 DEF supervisorVars, childVars, superVars, outerVars
  <2>2. SupervisorTypeOK' /\ NudgeIsNext'
    BY <2>1 DEF SupervisorInv, SupervisorTypeOK, NudgeIsNext
  <2> QED
    BY <2>1, <2>2, LinesPreserve
<1> QED
  BY <1>1, <1>2, <1>3, <1>4, <1>5, <1>6, <1>7, <1>8, <1>9, <1>10, <1>11
     DEF SupervisorNext, ChildTasks, Supervise
-----------------------------------------------------------------------------
\* The inductive invariant.
LEMMA SupervisorInvAlways == SupervisorSpec => []SupervisorInv
<1> QED
  BY SupervisorInitEstablishes, SupervisorNextPreserves, PTL DEF SupervisorSpec

\* The variables of the supervisor and of its child have their types.
THEOREM SupervisorTypeCorrect == SupervisorSpec => []SupervisorTypeOK
<1>1. SupervisorInv => SupervisorTypeOK
  BY DEF SupervisorInv
<1> QED
  BY <1>1, SupervisorInvAlways, PTL

\* A child is judged on the last result it wrote, in whatever order its two watchers report
\* (bridge_incarnation, classify_exit).
THEOREM VerdictIsOnTheLast == SupervisorSpec => []VerdictOnTheLastResult
<1>1. SupervisorInv => VerdictOnTheLastResult
  BY DEF SupervisorInv, VerdictIsFinal, VerdictOnTheLastResult
<1> QED
  BY <1>1, SupervisorInvAlways, PTL

\* No more than MaxRetries children in a row fail on a transient error and are resumed
\* (consecutive_transient against policy.max_retries).
THEOREM RetriesStayBounded == SupervisorSpec => []RetriesAreBounded
<1>1. SupervisorInv => RetriesAreBounded
  BY SupervisorAssumption DEF SupervisorInv, SupervisorTypeOK, FailuresAreTries, RetriesAreBounded
<1> QED
  BY <1>1, SupervisorInvAlways, PTL

\* A resumed child reads the nudge before everything else (supervise: the nudge is sent before
\* the bridge is entered again).
THEOREM ResumeStartsWithTheNudge == SupervisorSpec => []NudgeComesFirst
<1>1. SupervisorInv => NudgeComesFirst
  BY DEF SupervisorInv, NudgeIsNext, NudgeComesFirst
<1> QED
  BY <1>1, SupervisorInvAlways, PTL
-----------------------------------------------------------------------------
(* The error ladder *)

\* Every failure is on the ladder or in the streak.
FailuresAreCounted == failures <= attempt + streak

\* Unless an event between two turns has bound it, the pump is bound to the turn the process is in
\* or is about to read, or to a later handover.  A page unread is of the latest handover.
BoundIsNotOlder ==
  /\ turnOf <= cell /\ boundTo <= cell
  /\ pageIn # NoTurn => pageIn = cell
  /\ boundTo # NoTurn /\ ~strayed =>
       /\ turnOf <= boundTo
       /\ turnOf = NoTurn => pageIn # NoTurn /\ pageIn <= boundTo

LadderInv == LadderTypeOK /\ FailuresAreCounted /\ BoundIsNotOlder

LEMMA LadderInitEstablishes == LadderInit => LadderInv
<1> SUFFICES ASSUME LadderInit PROVE LadderInv
  OBVIOUS
<1>1. LadderTypeOK
  <2>1. 0 \in 0..MaxHandovers /\ 0 \in 0..Rungs /\ 0 \in 0..MaxMessages /\ 0 \in 0..1 /\ 0 \in Nat
    BY LadderAssumption
  <2> QED
    BY <2>1 DEF LadderInit, LadderTypeOK
<1>2. FailuresAreCounted /\ BoundIsNotOlder
  BY DEF LadderInit, FailuresAreCounted, BoundIsNotOlder, NoTurn
<1> QED
  BY <1>1, <1>2 DEF LadderInv

\* What the pump binds to at an event.
LEMMA BindIsNotOlder ==
  ASSUME LadderInv, turnOf # NoTurn
  PROVE  /\ Bind \in (0..MaxHandovers) \cup {NoTurn} /\ Bind <= cell
         /\ ~strayed /\ Bind # NoTurn => turnOf <= Bind
         /\ ~strayed => turnOf <= ThisTurn
  BY LadderAssumption DEF LadderInv, LadderTypeOK, BoundIsNotOlder, Bind, ThisTurn, NoTurn

\* An error either is excused, or uses up a rung, or counts, or halts and starts over.
LEMMA ErroredCounts ==
  ASSUME LadderInv, NEW transient \in BOOLEAN, Errored(transient)
  PROVE  /\ streak' \in 0..1 /\ attempt' \in 0..Rungs /\ timers' \in Nat /\ banner' \in BOOLEAN
         /\ HostInterrupted => attempt' + streak' = attempt + streak
         /\ ~HostInterrupted => banner' \/ attempt' + streak' = attempt + streak + 1
         /\ banner' \/ attempt' + streak' >= attempt + streak
<1>0. streak \in 0..1 /\ attempt \in 0..Rungs /\ timers \in Nat /\ banner \in BOOLEAN /\ Rungs \in Nat
  BY LadderAssumption DEF LadderInv, LadderTypeOK
<1>1. CASE HostInterrupted
  BY <1>0, <1>1 DEF Errored, Excused
<1>2. CASE ~HostInterrupted /\ transient /\ attempt < Rungs
  BY <1>0, <1>2 DEF Errored, Retried
<1>3. CASE ~HostInterrupted /\ ~(transient /\ attempt < Rungs)
  <2>1. Counted(transient)
    BY <1>3 DEF Errored
  <2>2. CASE transient \/ streak + 1 >= 2
    <3>1. streak' = 0 /\ attempt' = attempt /\ timers' = timers
      BY <2>1, <2>2 DEF Counted
    <3>2. banner' = TRUE
      BY <2>1, <2>2 DEF Counted
    <3>3. streak' \in 0..1 /\ attempt' \in 0..Rungs /\ timers' \in Nat
      BY <1>0, <3>1
    <3> QED
      BY <1>3, <3>2, <3>3, Zenon
  <2>3. CASE ~(transient \/ streak + 1 >= 2)
    <3>1. streak' = streak + 1 /\ attempt' = attempt /\ timers' = timers
      BY <2>1, <2>3 DEF Counted
    <3>2. banner' \in BOOLEAN
      BY <1>0, <2>1, <2>3 DEF Counted
    <3>3. /\ streak' \in 0..1 /\ attempt' \in 0..Rungs /\ timers' \in Nat
          /\ attempt' + streak' = attempt + streak + 1
          /\ attempt' + streak' >= attempt + streak
      BY <1>0, <2>3, <3>1
    <3> QED
      BY <1>3, <3>2, <3>3, Zenon
  <2> QED
    BY <2>2, <2>3
<1> QED
  BY <1>1, <1>2, <1>3

\* The arithmetic of the counting: `f` failures against `a` rungs and a streak of `s`, before
\* and after.
LEMMA SumOfCounts ==
  ASSUME NEW a \in Nat, NEW s \in Nat, NEW a1 \in Nat, NEW s1 \in Nat
  PROVE  /\ 0 <= a1 + s1
         /\ \A f \in Nat : f <= a + s /\ a1 + s1 >= a + s => f <= a1 + s1
         /\ \A f \in Nat : f <= a + s /\ a1 + s1 = a + s => f <= a1 + s1
         /\ \A f \in Nat : f <= a + s /\ a1 + s1 = a + s + 1 => f + 1 <= a1 + s1 /\ f + 1 \in Nat
  OBVIOUS

LEMMA EndPreserves ==
  ASSUME LadderInv, EndTurn
  PROVE  LadderInv'
<1>1. /\ turnOf # NoTurn /\ turnOf' = NoTurn /\ toldToStop' = FALSE
      /\ lastEnded' = Bind /\ boundTo' = NoTurn /\ strayed' = FALSE /\ holds' \in BOOLEAN
      /\ UNCHANGED <<cell, pageIn, stamp, messages>>
  BY DEF EndTurn, LadderInv, LadderTypeOK
<1>2. banner' \in BOOLEAN
  <2>1. banner \in BOOLEAN
    BY DEF LadderInv, LadderTypeOK
  <2>2. CASE Recovered
    BY <2>1, <2>2 DEF Recovered
  <2>3. CASE \E transient \in BOOLEAN : Errored(transient)
    BY <2>3, ErroredCounts
  <2> QED
    BY <2>2, <2>3 DEF EndTurn
<1>3. /\ streak' \in 0..1 /\ attempt' \in 0..Rungs /\ timers' \in Nat
      /\ failures' \in Nat /\ failures' <= attempt' + streak'
  <2>0. /\ failures \in Nat /\ failures <= attempt + streak
        /\ streak \in 0..1 /\ attempt \in 0..Rungs /\ timers \in Nat /\ Rungs \in Nat
    BY LadderAssumption DEF LadderInv, LadderTypeOK, FailuresAreCounted
  <2>1. CASE Recovered
    BY <2>0, <2>1 DEF Recovered
  <2>2. CASE Errored(FALSE) /\ failures' = IF banner' THEN 0 ELSE failures
    <3>1. streak' \in 0..1 /\ attempt' \in 0..Rungs /\ timers' \in Nat
      BY <2>2, ErroredCounts
    <3>2. attempt' \in Nat /\ streak' \in Nat /\ attempt \in Nat /\ streak \in Nat
      BY <2>0, <3>1
    <3>3. banner' \/ attempt' + streak' >= attempt + streak
      BY <2>2, ErroredCounts
    <3>4. CASE banner'
      <4>1. failures' = 0
        BY <2>2, <3>4
      <4> QED
        BY <3>1, <3>2, <4>1, SumOfCounts
    <3>5. CASE ~banner'
      <4>1. failures' = failures
        BY <2>2, <3>5
      <4>2. attempt' + streak' >= attempt + streak
        BY <3>3, <3>5, Zenon
      <4> QED
        BY <2>0, <3>1, <3>2, <4>1, <4>2, SumOfCounts
    <3> QED
      BY <3>4, <3>5
  <2>3. CASE \E transient \in BOOLEAN :
               /\ Errored(transient)
               /\ failures' = IF banner' THEN 0
                              ELSE IF HostInterrupted THEN failures ELSE failures + 1
    <3>0. PICK transient \in BOOLEAN :
             /\ Errored(transient)
             /\ failures' = IF banner' THEN 0
                            ELSE IF HostInterrupted THEN failures ELSE failures + 1
      BY <2>3
    <3>1. streak' \in 0..1 /\ attempt' \in 0..Rungs /\ timers' \in Nat
      BY <3>0, ErroredCounts
    <3>2. attempt' \in Nat /\ streak' \in Nat /\ attempt \in Nat /\ streak \in Nat
      BY <2>0, <3>1
    <3>3. /\ HostInterrupted => attempt' + streak' = attempt + streak
          /\ ~HostInterrupted => banner' \/ attempt' + streak' = attempt + streak + 1
      BY <3>0, ErroredCounts
    <3>4. CASE banner'
      <4>1. failures' = 0
        BY <3>0, <3>4
      <4> QED
        BY <3>1, <3>2, <4>1, SumOfCounts
    <3>5. CASE ~banner' /\ HostInterrupted
      <4>1. failures' = failures
        BY <3>0, <3>5
      <4>2. attempt' + streak' = attempt + streak
        BY <3>3, <3>5, Zenon
      <4> QED
        BY <2>0, <3>1, <3>2, <4>1, <4>2, SumOfCounts
    <3>6. CASE ~banner' /\ ~HostInterrupted
      <4>1. failures' = failures + 1
        BY <3>0, <3>6
      <4>2. attempt' + streak' = attempt + streak + 1
        BY <3>3, <3>6, Zenon
      <4> QED
        BY <2>0, <3>1, <3>2, <4>1, <4>2, SumOfCounts
    <3> QED
      BY <3>4, <3>5, <3>6
  <2> QED
    BY <2>1, <2>2, <2>3 DEF EndTurn
<1>4. LadderTypeOK'
  <2>1. /\ cell' \in 0..MaxHandovers
        /\ {pageIn, turnOf, boundTo, lastEnded, stamp}' \subseteq (0..MaxHandovers) \cup {NoTurn}
    <3>1. Bind \in (0..MaxHandovers) \cup {NoTurn}
      BY <1>1, BindIsNotOlder
    <3>2. cell \in 0..MaxHandovers /\ {pageIn, stamp} \subseteq (0..MaxHandovers) \cup {NoTurn}
      BY DEF LadderInv, LadderTypeOK
    <3> QED
      BY <1>1, <3>1, <3>2
  <2>2. messages' \in 0..MaxMessages
    BY <1>1 DEF LadderInv, LadderTypeOK
  <2> QED
    BY <1>1, <1>2, <1>3, <2>1, <2>2 DEF LadderTypeOK
<1>5. BoundIsNotOlder'
  BY <1>1 DEF LadderInv, LadderTypeOK, BoundIsNotOlder, NoTurn
<1> QED
  BY <1>3, <1>4, <1>5 DEF LadderInv, FailuresAreCounted

LEMMA LadderNextPreserves == LadderInv /\ [LadderNext]_ladderVars => LadderInv'
<1> SUFFICES ASSUME LadderInv, [LadderNext]_ladderVars PROVE LadderInv'
  OBVIOUS
<1> USE DEF LadderInv, LadderTypeOK, FailuresAreCounted, BoundIsNotOlder, NoTurn,
            ringSide, processSide, pumpSide
<1>1. CASE HandOverTurn
  BY <1>1, LadderAssumption DEF HandOverTurn
<1>2. CASE SteerByMessage
  <2>0. messages' \in 0..MaxMessages
    BY <1>2, LadderAssumption DEF SteerByMessage
  <2>1. /\ banner' \in BOOLEAN /\ holds' \in BOOLEAN
        /\ UNCHANGED <<cell, pageIn, turnOf, boundTo, lastEnded, streak, attempt, timers, failures, strayed>>
    BY <1>2, LadderAssumption DEF SteerByMessage
  <2>2. stamp' \in (0..MaxHandovers) \cup {NoTurn} /\ toldToStop' \in BOOLEAN
    BY <1>2 DEF SteerByMessage, Interrupt
  <2> QED
    BY <2>0, <2>1, <2>2
<1>3. CASE RetryDue
  BY <1>3 DEF RetryDue
<1>4. CASE TakePage
  BY <1>4 DEF TakePage
<1>5. CASE AnyEvent
  <2>1. UNCHANGED <<cell, holds, banner, pageIn, turnOf, toldToStop, lastEnded, stamp, streak,
                    attempt, timers, failures, messages>>
    BY <1>5 DEF AnyEvent
  <2>2. boundTo' \in (0..MaxHandovers) \cup {NoTurn} /\ strayed' \in BOOLEAN
    BY <1>5 DEF AnyEvent, Bind
  <2>3. boundTo' = boundTo \/ (boundTo = NoTurn /\ boundTo' = cell)
    BY <1>5 DEF AnyEvent, Bind
  <2>4. ~strayed' => ~strayed /\ (boundTo' = boundTo \/ turnOf # NoTurn \/ pageIn # NoTurn)
    BY <1>5 DEF AnyEvent
  <2>5. BoundIsNotOlder'
    BY <2>1, <2>2, <2>3, <2>4
  <2> QED
    BY <2>1, <2>2, <2>5
<1>6. CASE EndTurn
  BY <1>6, EndPreserves
<1>7. CASE UNCHANGED ladderVars
  BY <1>7 DEF ladderVars
<1> QED
  BY <1>1, <1>2, <1>3, <1>4, <1>5, <1>6, <1>7 DEF LadderNext
-----------------------------------------------------------------------------
\* The inductive invariant.
LEMMA LadderInvAlways == LadderSpec => []LadderInv
<1> QED
  BY LadderInitEstablishes, LadderNextPreserves, PTL DEF LadderSpec

\* The variables of the pump's error handling have their types.
THEOREM LadderTypeCorrect == LadderSpec => []LadderTypeOK
<1>1. LadderInv => LadderTypeOK
  BY DEF LadderInv
<1> QED
  BY <1>1, LadderInvAlways, PTL

\* No more turns fail in a row than the ladder has rungs, and one, before the session halts for
\* the user (pump.rs: retry_attempt and consecutive_errored_turns together).
THEOREM FailingTurnsHalt == LadderSpec => []FailuresReachTheUser
<1>1. LadderInv => FailuresReachTheUser
  BY LadderAssumption DEF LadderInv, LadderTypeOK, FailuresAreCounted, FailuresReachTheUser
<1> QED
  BY <1>1, LadderInvAlways, PTL

\* An interrupt excuses no turn that was handed over after it (interrupted_epoch against
\* turn_epoch, with the fallback to the cell), except one whose pump an event between two turns
\* had bound.
THEOREM ExcuseIsAimed == LadderSpec => OnlyTheInterruptedIsExcused
<1>1. LadderInv /\ [LadderNext]_ladderVars
        => [turnOf # NoTurn /\ turnOf' = NoTurn /\ ~toldToStop /\ ~strayed /\ HostInterrupted
              => stamp >= turnOf]_ladderVars
  <2> SUFFICES ASSUME LadderInv, turnOf # NoTurn, ~strayed, HostInterrupted PROVE stamp >= turnOf
    OBVIOUS
  <2>1. stamp = ThisTurn /\ turnOf <= ThisTurn
    BY BindIsNotOlder DEF HostInterrupted
  <2>2. stamp \in Int /\ turnOf \in Int
    BY DEF LadderInv, LadderTypeOK, NoTurn
  <2> QED
    BY <2>1, <2>2
<1> QED
  BY <1>1, LadderInvAlways, PTL DEF LadderSpec, OnlyTheInterruptedIsExcused
=============================================================================
