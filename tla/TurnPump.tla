------------------------------ MODULE TurnPump ------------------------------
(***************************************************************************)
(* What stands behind a participant: its process, and the pump that reads   *)
(* the process's events and reports to the ring (core/pump.rs, pump_agent). *)
(*                                                                         *)
(* The process is outside the repository.  It takes pages off its stdin,    *)
(* folds a page that arrives while it works into the turn or leaves it for  *)
(* the next one, calls tools, and ends its turn.  The pump learns that a    *)
(* turn began from the turn's first event, and snapshots the epoch cell     *)
(* there; the completion it sends carries that snapshot.                    *)
(***************************************************************************)
EXTENDS TurnRing

VARIABLES
  alive,          \* participants whose process runs
  working,        \* processes in the middle of a turn
  interrupted,    \* of those, the ones told to stop: they take up no further page
  interruptedEpoch,   \* interrupted_epoch: the turn it was last interrupted in, or NoEpoch
  interruptDue,   \* halts whose tool result has not yet had the process interrupted
  turnEpoch,      \* turn_epoch: the epoch the pump bound its turn to, or NoEpoch
  lastCompleted,  \* last_completed_epoch
  clearing,       \* pumps between sending a completion and clearing the busy flag
  haltOwed,       \* halts written to the slot and not yet announced to the ring
  retry           \* participants whose transient error waits for its retry summons

pumpVars == <<alive, working, interrupted, interruptedEpoch, interruptDue, turnEpoch, lastCompleted,
              clearing, haltOwed, retry>>

NoEpoch == -1    \* Option<u64>::None

PumpTypeOK ==
  /\ alive \subseteq Participants
  /\ working \subseteq alive
  /\ interrupted \subseteq working
  /\ interruptedEpoch \in [Participants -> Nat \cup {NoEpoch}]
  /\ interruptDue \subseteq Participants
  /\ turnEpoch \in [Participants -> Nat \cup {NoEpoch}]
  /\ lastCompleted \in [Participants -> Nat \cup {NoEpoch}]
  /\ clearing \subseteq Participants
  /\ haltOwed \subseteq Participants
  /\ retry \subseteq Participants

PumpInit ==
  /\ working = {} /\ interrupted = {} /\ interruptDue = {}
  /\ clearing = {} /\ haltOwed = {} /\ retry = {}
  /\ turnEpoch = [p \in Participants |-> NoEpoch]
  /\ interruptedEpoch = [p \in Participants |-> NoEpoch]
  /\ lastCompleted = [p \in Participants |-> NoEpoch]

\* try_send: a full channel drops the command.
TrySend(queue, c) == IF Len(queue) < RxCap THEN Append(queue, c) ELSE queue

\* A row from `p` is unread for everybody else; a row from the user or the host for everybody.
RowFrom(p) == unread \cup (Participants \ {p})
-----------------------------------------------------------------------------
(* The process *)

AgentStarts(p) ==
  /\ p \in alive \ working /\ stdin[p] > 0
  /\ working' = working \cup {p}
  /\ stdin' = [stdin EXCEPT ![p] = @ - 1]
  /\ UNCHANGED <<ringVars, interruptedEpoch, rx, unread, votes, busy, haltSlot, deliveryDue,
                 input, worldVars, alive, interrupted, interruptDue, turnEpoch, lastCompleted,
                 clearing, haltOwed, retry>>

\* A page that reaches a working process is answered under the turn it is in.
AgentFolds(p) ==
  /\ p \in working \ interrupted /\ stdin[p] > 0
  /\ stdin' = [stdin EXCEPT ![p] = @ - 1]
  /\ UNCHANGED <<ringVars, rx, unread, votes, busy, haltSlot, deliveryDue, input, worldVars,
                 pumpVars>>

\* A halt tool, one call at a time: emit_halt_row writes the slot first ...
HaltTool(p) ==
  /\ p \in working \ (haltOwed \cup interruptDue \cup interrupted)
  /\ haltSlot' = "participant"
  /\ haltOwed' = haltOwed \cup {p}
  /\ UNCHANGED <<ringVars, interruptedEpoch, rx, unread, stdin, votes, busy, deliveryDue, input,
                 worldVars, alive, working, interrupted, interruptDue, turnEpoch, lastCompleted,
                 clearing, retry>>

\* ... and set_session_awaiting tells the ring after it.
HaltReachesRing(p) ==
  /\ p \in haltOwed
  /\ haltOwed' = haltOwed \ {p}
  /\ rx' = TrySend(rx, [type |-> "HaltDeclared", participant |-> p])
  /\ interruptDue' = interruptDue \cup ({p} \cap working)
  /\ UNCHANGED <<ringVars, interruptedEpoch, unread, stdin, votes, busy, haltSlot, deliveryDue,
                 input, worldVars, alive, working, interrupted, turnEpoch, lastCompleted,
                 clearing, retry>>

\* The halt's tool result is in the stream, and halt_declared interrupts its declarer.
HaltInterrupts(p) ==
  /\ p \in interruptDue
  /\ interruptDue' = interruptDue \ {p}
  /\ interrupted' = interrupted \cup ({p} \cap working)
  /\ interruptedEpoch' = [interruptedEpoch EXCEPT ![p] = cell[p]]
  /\ UNCHANGED <<ringVars, sharedVars, worldVars, alive, working, turnEpoch, lastCompleted,
                 clearing, haltOwed, retry>>
-----------------------------------------------------------------------------
(* The pump *)

\* The epoch an event of `p` finds the turn bound to.  A cell that still reads the epoch last
\* completed with means no turn was handed out since: the event is a straggler.
Binding(p) ==
  CASE turnEpoch[p] # NoEpoch       -> turnEpoch[p]
    [] cell[p] = lastCompleted[p]   -> NoEpoch
    [] OTHER                        -> cell[p]

\* The first event of a turn.
FirstEvent(p) ==
  /\ p \in working \ clearing
  /\ turnEpoch[p] = NoEpoch /\ Binding(p) # NoEpoch
  /\ turnEpoch' = [turnEpoch EXCEPT ![p] = Binding(p)]
  /\ UNCHANGED <<ringVars, interruptedEpoch, sharedVars, worldVars, alive, working, interrupted,
                 interruptDue, lastCompleted, clearing, haltOwed, retry>>

\* The turn's result: rows, then the completion (a blocking send), then the pump's own state.
\* The busy flag comes down in a later step; between the two the pump awaits nothing, so every
\* other process, which has a model to call, ends its turn after it.  A turn does not end inside
\* a tool call unless it was interrupted there.
ReportsEnd(p, ending, posts) ==
  /\ p \in working /\ clearing = {}
  /\ p \in haltOwed => p \in interrupted
  /\ Len(rx) < RxCap
  /\ rx' = Append(rx, [type |-> "TurnComplete", participant |-> p, ending |-> ending,
                       epoch |-> IF Binding(p) = NoEpoch THEN 0 ELSE Binding(p)])
  /\ unread' = IF posts THEN RowFrom(p) ELSE unread
  /\ lastCompleted' = [lastCompleted EXCEPT ![p] = Binding(p)]
  /\ turnEpoch' = [turnEpoch EXCEPT ![p] = NoEpoch]
  /\ working' = working \ {p}
  /\ interrupted' = interrupted \ {p}
  /\ clearing' = {p}
  /\ UNCHANGED <<ringVars, interruptedEpoch, stdin, votes, busy, haltSlot, deliveryDue, input,
                 worldVars, alive, interruptDue, haltOwed>>

\* A pass leaves a row; a turn spent in tools posts nothing its peers read.
TurnEnds(p, ending, posts) ==
  /\ ending = "Passed" => posts
  /\ ReportsEnd(p, ending, posts)
  /\ UNCHANGED retry

\* A transient API error ends the turn like any other and schedules a retry.  An error in the
\* turn the host interrupted is none.
TurnErrs(p) ==
  /\ p \notin retry
  /\ interruptedEpoch[p] # IF Binding(p) = NoEpoch THEN cell[p] ELSE Binding(p)
  /\ ReportsEnd(p, "Spoke", TRUE)
  /\ retry' = retry \cup {p}

PumpClearsBusy(p) ==
  /\ p \in clearing
  /\ clearing' = clearing \ {p}
  /\ busy' = busy \ {p}
  /\ UNCHANGED <<ringVars, interruptedEpoch, rx, unread, stdin, votes, haltSlot, deliveryDue,
                 input, worldVars, alive, working, interrupted, interruptDue, turnEpoch,
                 lastCompleted, haltOwed, retry>>

\* The ladder's wait is over: a nudge row, then the summons (a blocking send).
RetryFires(p) ==
  /\ p \in retry
  /\ Len(rx) < RxCap
  /\ retry' = retry \ {p}
  /\ unread' = Participants
  /\ rx' = Append(rx, [type |-> "Summon", participant |-> p])
  /\ UNCHANGED <<ringVars, interruptedEpoch, stdin, votes, busy, haltSlot, deliveryDue, input,
                 worldVars, alive, working, interrupted, interruptDue, turnEpoch, lastCompleted,
                 clearing, haltOwed>>

\* The process is gone and the pump ends with it.  Only a pump that had bound a turn declares
\* the halt that ends it.
Dies(p) ==
  /\ p \in alive \ clearing
  /\ alive' = alive \ {p}
  /\ working' = working \ {p}
  /\ interrupted' = interrupted \ {p} /\ interruptDue' = interruptDue \ {p}
  /\ busy' = busy \ {p}
  /\ stdin' = [stdin EXCEPT ![p] = 0]
  /\ input' = [input EXCEPT ![p] = IF @ = "open" THEN "closed" ELSE @]
  /\ IF turnEpoch[p] # NoEpoch
       THEN haltSlot' = "participant" /\ haltOwed' = haltOwed \cup {p}
       ELSE UNCHANGED <<haltSlot, haltOwed>>
  /\ turnEpoch' = [turnEpoch EXCEPT ![p] = NoEpoch]
  /\ UNCHANGED <<ringVars, interruptedEpoch, rx, unread, votes, deliveryDue, worldVars,
                 lastCompleted, clearing, retry>>

=============================================================================
