----------------------------- MODULE SessionLife ----------------------------
(***************************************************************************)
(* Starting, reopening, restarting and closing one session: core/state.rs   *)
(* and core/close_learnings.rs.  Any number of calls overlap: the view that *)
(* mounts, the user's Close and Reopen buttons, the agent's own close tool, *)
(* and the detached close-out turn of an earlier close.                     *)
(*                                                                         *)
(* The spawn gate serializes spawns, the sessions lock covers one step of a *)
(* call at a time, and a spawn runs outside the lock.                       *)
(***************************************************************************)
EXTENDS Integers, FiniteSets

CONSTANTS
  MaxLifeCalls,   \* bound: calls, in the order in which they are made
  CallKinds,      \* which of the calls below are made
  MaxDeaths,      \* bound: rosters that die by themselves
  RowFaults       \* whether closing the row may fail

ASSUME LifeAssumption ==
  /\ MaxLifeCalls \in Nat
  /\ CallKinds \subseteq {"ensure", "restart", "reopen", "userClose", "archiveClose", "agentClose"}
  /\ MaxDeaths \in Nat
  /\ RowFaults \in BOOLEAN

Calls == 1..MaxLifeCalls
NoCall == 0
NoRoster == 0

VARIABLES
  row,            \* the sessions row: "open" or "closed"
  archived,       \* its archived flag
  mapped,         \* the roster of the handle in the sessions map, NoRoster when none
  alive,          \* the rosters whose processes run
  spawned,        \* how many were spawned
  gate,           \* who holds spawn_gate
  closing,        \* the closing mark
  inFlight,       \* epilogue_in_flight
  call,           \* per call, its kind and where it stands
  learning,       \* the call whose close-out turn the roster is taking
  deaths

lifeVars == <<row, archived, mapped, alive, spawned, gate, closing, inFlight, call, learning,
              deaths>>

Rosters == Nat \ {NoRoster}
CallSteps == {"new", "ensuring", "waiting", "gated", "spawning", "decided", "closingRow", "teardown",
              "tail", "asking", "learning", "releasing", "lastTeardown", "done"}

LifeTypeOK ==
  /\ row \in {"open", "closed"} /\ archived \in BOOLEAN
  /\ mapped \in Nat /\ alive \subseteq Rosters /\ spawned \in Nat
  /\ gate \in Calls \cup {NoCall} /\ learning \in Calls \cup {NoCall}
  /\ closing \in BOOLEAN /\ inFlight \in BOOLEAN /\ deaths \in 0..MaxDeaths
  /\ call \in [Calls -> [kind : CallKinds \cup {"none"}, step : CallSteps, wants : BOOLEAN]]

LifeInit ==
  /\ row = "open" /\ archived = FALSE
  /\ mapped = 1 /\ alive = {1} /\ spawned = 1
  /\ gate = NoCall /\ closing = FALSE /\ inFlight = FALSE /\ learning = NoCall /\ deaths = 0
  /\ call = [c \in Calls |-> [kind |-> "none", step |-> "new", wants |-> FALSE]]

Stands(c, step) == call[c].step = step
Moves(c, step) == call' = [call EXCEPT ![c].step = step]
\* Mutant of Leaves: the gate is not given back.
LeavesWithTheGate(c) == Moves(c, "done") /\ gate' = gate

Leaves(c) == Moves(c, "done") /\ gate' = NoCall

\* is_stale: the supervisor of a mapped roster is gone.
Healthy == mapped \in alive
Archives(c) == call[c].kind = "archiveClose"
Closes == {"userClose", "archiveClose", "agentClose"}

\* close_epilogue_decision, whether a close wants a close-out turn: only of a healthy session
\* that is not busy with one; whether it has a writer and has written already decides the rest.
EpilogueDecisions == {wants \in BOOLEAN : wants => Healthy /\ learning = NoCall}
-----------------------------------------------------------------------------
\* A call comes in.  A restart takes the handle out and kills it, a reopen opens a closed row;
\* both then start the session, and a reopen of an open row is a no-op.
Begin(c, kind) ==
  /\ Stands(c, "new") /\ \A d \in 1..(c - 1) : ~Stands(d, "new")
  /\ \/ /\ kind = "ensure"
        /\ call' = [call EXCEPT ![c] = [kind |-> kind, step |-> "ensuring", wants |-> FALSE]]
        /\ UNCHANGED <<row, archived, mapped, alive>>
     \/ /\ kind = "restart"
        /\ call' = [call EXCEPT ![c] = [kind |-> kind, step |-> "ensuring", wants |-> FALSE]]
        /\ mapped' = NoRoster /\ alive' = alive \ {mapped}
        /\ UNCHANGED <<row, archived>>
     \/ /\ kind = "reopen" /\ row = "closed"
        /\ call' = [call EXCEPT ![c] = [kind |-> kind, step |-> "ensuring", wants |-> FALSE]]
        /\ row' = "open" /\ archived' = FALSE
        /\ UNCHANGED <<mapped, alive>>
     \/ /\ kind \in Closes
        /\ \E wants \in EpilogueDecisions :
             call' = [call EXCEPT ![c] = [kind |-> kind, step |-> "decided", wants |-> wants]]
        /\ UNCHANGED <<row, archived, mapped, alive>>
  /\ UNCHANGED <<spawned, gate, closing, inFlight, learning, deaths>>

\* A supervisor ends by itself: its roster is stale from then on.
RosterDies ==
  /\ deaths < MaxDeaths /\ Healthy
  /\ deaths' = deaths + 1
  /\ alive' = alive \ {mapped}
  /\ UNCHANGED <<row, archived, mapped, spawned, gate, closing, inFlight, call, learning>>
-----------------------------------------------------------------------------
(* ensure_session_started *)

FastPath(c) ==
  /\ Stands(c, "ensuring")
  /\ Moves(c, IF Healthy THEN "done" ELSE "waiting")
  /\ UNCHANGED <<row, archived, mapped, alive, spawned, gate, closing, inFlight, learning, deaths>>

\* Mutant of TakeGate: what another call has started meanwhile is not looked at.
TakeGateUnchecked(c) ==
  /\ Stands(c, "waiting") /\ gate = NoCall
  /\ IF closing THEN Leaves(c) ELSE gate' = c /\ Moves(c, "gated")
  /\ UNCHANGED <<row, archived, mapped, alive, spawned, closing, inFlight, learning, deaths>>

\* Under the gate and the lock: refuse while closing, find that another call has started the
\* session, or evict the stale handle.
TakeGate(c) ==
  /\ Stands(c, "waiting") /\ gate = NoCall
  /\ IF closing \/ Healthy
     THEN Leaves(c) /\ UNCHANGED <<mapped, alive>>
     ELSE gate' = c /\ Moves(c, "gated") /\ mapped' = NoRoster /\ alive' = alive \ {mapped}
  /\ UNCHANGED <<row, archived, spawned, closing, inFlight, learning, deaths>>

\* refuse_closed: a closed row does not respawn.
ReadRow(c) ==
  /\ Stands(c, "gated")
  /\ IF row = "closed" THEN Leaves(c) ELSE Moves(c, "spawning") /\ UNCHANGED gate
  /\ UNCHANGED <<row, archived, mapped, alive, spawned, closing, inFlight, learning, deaths>>

\* The spawn is over, or has failed: under the lock again, the roster is registered, or killed
\* when the session is closing.
SpawnDone(c) ==
  /\ Stands(c, "spawning")
  /\ Leaves(c)
  /\ \/ UNCHANGED <<mapped, alive, spawned>>
     \/ /\ spawned' = spawned + 1
        /\ IF closing THEN UNCHANGED <<mapped, alive>>
           ELSE mapped' = spawned + 1 /\ alive' = alive \cup {spawned + 1}
  /\ UNCHANGED <<row, archived, closing, inFlight, learning, deaths>>
-----------------------------------------------------------------------------
(* close_session *)

\* The claim is atomic: an epilogue in flight is joined, otherwise the one who wants a turn
\* takes it.  A join applies only the archive half, and only to a row that is closed.
ClaimEpilogue(c) ==
  /\ Stands(c, "decided")
  /\ \/ /\ inFlight
        /\ Moves(c, "done")
        /\ archived' = (archived \/ (Archives(c) /\ row = "closed"))
        /\ UNCHANGED inFlight
     \/ /\ ~inFlight /\ call[c].wants
        /\ inFlight' = TRUE
        /\ Moves(c, "closingRow")
        /\ UNCHANGED archived
     \/ /\ ~inFlight /\ ~call[c].wants
        /\ Moves(c, "teardown")
        /\ UNCHANGED <<archived, inFlight>>
  /\ UNCHANGED <<row, mapped, alive, spawned, gate, closing, learning, deaths>>

\* storage.close_session: closes an open row and leaves a closed one as it is.
RowCloses(c) ==
  /\ row' = "closed"
  /\ archived' = IF row = "open" THEN Archives(c) ELSE archived

\* The row closes before the turn.  When that fails the call returns the error; the claim stays.
CloseRowFirst(c) ==
  /\ Stands(c, "closingRow")
  /\ \/ RowCloses(c) /\ Moves(c, "asking")
     \/ RowFaults /\ Moves(c, "done") /\ UNCHANGED <<row, archived>>
  /\ UNCHANGED <<mapped, alive, spawned, gate, closing, inFlight, learning, deaths>>

\* run_close_epilogue: the prompt goes out, or there is nobody to ask.
AskForLearnings(c) ==
  /\ Stands(c, "asking")
  /\ \/ Healthy /\ learning' = c /\ Moves(c, "learning")
     \/ ~Healthy /\ UNCHANGED learning /\ Moves(c, "releasing")
  /\ UNCHANGED <<row, archived, mapped, alive, spawned, gate, closing, inFlight, deaths>>

\* The lap ends, or one of the two timeouts does.
LearningOver(c) ==
  /\ Stands(c, "learning")
  /\ learning' = IF learning = c THEN NoCall ELSE learning
  /\ Moves(c, "releasing")
  /\ UNCHANGED <<row, archived, mapped, alive, spawned, gate, closing, inFlight, deaths>>

ReleaseClaim(c) ==
  /\ Stands(c, "releasing")
  /\ inFlight' = FALSE
  /\ Moves(c, "lastTeardown")
  /\ UNCHANGED <<row, archived, mapped, alive, spawned, gate, closing, learning, deaths>>

\* Mutant of TearDown: a second teardown does not leave the tail to the first.
TearDownTwice(c) ==
  /\ Stands(c, "teardown") \/ Stands(c, "lastTeardown")
  /\ mapped' = NoRoster /\ alive' = alive \ {mapped}
  /\ closing' = TRUE /\ Moves(c, "tail")
  /\ IF Stands(c, "teardown") THEN RowCloses(c) ELSE UNCHANGED <<row, archived>>
  /\ UNCHANGED <<spawned, gate, inFlight, learning, deaths>>

\* teardown_session, its first block: the one that sets the mark owns the tail.  The handle goes
\* and its processes are killed; a direct close also closes the row, and gives up the mark when
\* that fails.
TearDown(c) ==
  /\ Stands(c, "teardown") \/ Stands(c, "lastTeardown")
  /\ \/ /\ closing
        /\ Moves(c, "done")
        /\ UNCHANGED <<row, archived, mapped, alive, closing>>
     \/ /\ ~closing
        /\ mapped' = NoRoster /\ alive' = alive \ {mapped}
        /\ \/ /\ Stands(c, "lastTeardown")
              /\ closing' = TRUE /\ Moves(c, "tail")
              /\ UNCHANGED <<row, archived>>
           \/ /\ Stands(c, "teardown")
              /\ closing' = TRUE /\ Moves(c, "tail")
              /\ RowCloses(c)
           \/ /\ Stands(c, "teardown") /\ RowFaults
              /\ Moves(c, "done")
              /\ UNCHANGED <<row, archived, closing>>
  /\ UNCHANGED <<spawned, gate, inFlight, learning, deaths>>

\* The tail forgets the session's registrations, withdraws its tray rows and removes a clean
\* worktree; then the mark goes.
TailOver(c) ==
  /\ Stands(c, "tail")
  /\ closing' = FALSE
  /\ Moves(c, "done")
  /\ UNCHANGED <<row, archived, mapped, alive, spawned, gate, inFlight, learning, deaths>>

Proceeds(c) ==
  FastPath(c) \/ TakeGate(c) \/ ReadRow(c) \/ SpawnDone(c)
    \/ ClaimEpilogue(c) \/ CloseRowFirst(c) \/ AskForLearnings(c) \/ LearningOver(c)
    \/ ReleaseClaim(c) \/ TearDown(c) \/ TailOver(c)

LifeNext ==
  \/ \E c \in Calls : (\E kind \in CallKinds : Begin(c, kind)) \/ Proceeds(c)
  \/ RosterDies

LifeSpec == LifeInit /\ [][LifeNext]_lifeVars

\* As long as a call can go on one of them does.
LifeTask == \E c \in Calls : Proceeds(c)
LifeFairness == WF_lifeVars(LifeTask)
-----------------------------------------------------------------------------
Tearing == {c \in Calls : Stands(c, "tail")}

\* However calls overlap, the processes of one roster run at a time and all of them are in the
\* map, where a close can find them.  (ensure_session_started: "two callers both pass the fast
\* check and spawn duplicate rosters".)
NoOrphanRoster == alive \subseteq {mapped}

\* One teardown owns the tail, and the mark stands until that tail is over: no other call's end
\* lets a spawn through while the tail still takes the session's registrations down.
TailIsOwned == Cardinality(Tearing) <= 1 /\ (closing <=> Tearing # {})

\* A closed session has no processes, but for the close-out turn and the teardown that follows
\* it.  (ensure_session_started: "registering this handle would keep subprocesses alive for a
\* session that no longer exists".)
ClosedMeansGone ==
  row = "closed" /\ alive # {} =>
    \E c \in Calls : call[c].step \in {"asking", "learning", "releasing", "lastTeardown"}

\* Every call returns, whatever it waits for: the gate, the lock, another call's turn.
CallsReturn ==
  (\E c \in Calls : ~Stands(c, "new")) ~> (\A c \in Calls : Stands(c, "new") \/ Stands(c, "done"))
=============================================================================
