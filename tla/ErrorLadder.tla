----------------------------- MODULE ErrorLadder ----------------------------
(***************************************************************************)
(* What the pump of one participant makes of a turn that ended in an error  *)
(* (core/pump.rs): one that bot-hq itself interrupted is excused, a         *)
(* transient one is retried after a wait, and the rest are counted towards  *)
(* the halt for turns that fail back to back.                               *)
(*                                                                         *)
(* The pump does not see turns.  It sees events, an epoch cell the ring     *)
(* moves at every handover, and the stamp an interrupt leaves; the process  *)
(* reads pages and interrupts off its stdin in the order they were written. *)
(***************************************************************************)
EXTENDS Integers, FiniteSets

CONSTANTS
  Rungs,          \* the length of cfg.retry_ladder
  MaxHandovers,   \* bound: turns the ring hands the participant
  MaxMessages     \* bound: messages of the user

ASSUME LadderAssumption == Rungs \in Nat /\ MaxHandovers \in Nat /\ MaxMessages \in Nat

NoTurn == -1      \* no turn, no page, None and NO_INTERRUPT_EPOCH; 0 is the cell before any turn

VARIABLES
  \* the ring
  cell,           \* the participant's epoch cell
  holds,          \* the ring waits for this participant
  banner,         \* the session's halt stands
  \* the process
  pageIn,         \* the page in its stdin, named by the epoch it was written under
  turnOf,         \* the page whose turn it is in
  toldToStop,     \* an interrupt stands behind that page
  \* the pump
  boundTo,        \* turn_epoch
  lastEnded,      \* last_completed_epoch: None after a completion that was bound to no turn
  stamp,          \* interrupted_epoch
  streak,         \* consecutive_errored_turns
  attempt,        \* retry_attempt
  timers,         \* retries whose wait runs
  \* history and bounds
  failures,       \* turns in a row that failed of themselves since a healthy one or a halt
  strayed,        \* what the pump is bound to was bound between two turns
  messages

ringSide == <<cell, holds, banner>>
processSide == <<pageIn, turnOf, toldToStop>>
pumpSide == <<boundTo, lastEnded, stamp, streak, attempt, timers>>
ladderVars == <<ringSide, processSide, pumpSide, failures, strayed, messages>>

LadderTypeOK ==
  /\ cell \in 0..MaxHandovers
  /\ {pageIn, turnOf, boundTo, lastEnded, stamp} \subseteq (0..MaxHandovers) \cup {NoTurn}
  /\ {holds, banner, toldToStop, strayed} \subseteq BOOLEAN
  /\ streak \in 0..1 /\ attempt \in 0..Rungs /\ timers \in Nat
  /\ failures \in Nat /\ messages \in 0..MaxMessages

LadderInit ==
  /\ cell = 0 /\ holds = FALSE /\ banner = FALSE
  /\ pageIn = NoTurn /\ turnOf = NoTurn /\ toldToStop = FALSE
  /\ boundTo = NoTurn /\ lastEnded = NoTurn /\ stamp = NoTurn
  /\ streak = 0 /\ attempt = 0 /\ timers = 0
  /\ failures = 0 /\ strayed = FALSE /\ messages = 0
-----------------------------------------------------------------------------
(* The ring and the user *)

HandOverTurn ==
  /\ ~holds /\ ~banner /\ pageIn = NoTurn /\ cell < MaxHandovers
  /\ cell' = cell + 1 /\ holds' = TRUE /\ pageIn' = cell + 1
  /\ UNCHANGED <<banner, turnOf, toldToStop, pumpSide, failures, strayed, messages>>

\* SessionAgent::interrupt: the stamp first, then the line, which does nothing to an idle process.
Interrupt ==
  /\ stamp' = cell
  /\ toldToStop' = (turnOf # NoTurn \/ pageIn # NoTurn)

\* A message: it lifts the halt and interrupts every participant, busy or not, and the ring deals
\* afresh when the interrupted turn has ended or the grace for it has.
SteerByMessage ==
  /\ messages < MaxMessages
  /\ messages' = messages + 1
  /\ banner' = FALSE
  /\ Interrupt
  /\ holds' \in {holds, FALSE}
  /\ UNCHANGED <<cell, pageIn, turnOf, boundTo, lastEnded, streak, attempt, timers, failures, strayed>>

\* The wait of a retry is over: a nudge and a summons, which the ring keeps for its next deal.
RetryDue ==
  /\ timers > 0
  /\ timers' = timers - 1
  /\ UNCHANGED <<ringSide, processSide, boundTo, lastEnded, stamp, streak, attempt, failures,
                 strayed, messages>>
-----------------------------------------------------------------------------
(* The process *)

TakePage ==
  /\ turnOf = NoTurn /\ pageIn # NoTurn
  /\ turnOf' = pageIn /\ pageIn' = NoTurn
  /\ UNCHANGED <<ringSide, toldToStop, pumpSide, failures, strayed, messages>>

\* pump_agent on an event while no turn is bound: an event is a straggler only as long as the cell
\* reads what the last completion was bound to.
Bind == IF boundTo = NoTurn /\ lastEnded # cell THEN cell ELSE boundTo

\* Any other event, within a turn or without: the process may say a late word after its result,
\* and the supervisor reports a participant's health at any time.
AnyEvent ==
  /\ boundTo' = Bind
  /\ strayed' = (strayed \/ (boundTo # Bind /\ turnOf = NoTurn /\ pageIn = NoTurn))
  /\ UNCHANGED <<ringSide, processSide, lastEnded, stamp, streak, attempt, timers, failures, messages>>
-----------------------------------------------------------------------------
(* AgentEvent::TurnComplete *)

\* this_turn: the turn bound, or the cell.
ThisTurn == IF Bind = NoTurn THEN cell ELSE Bind
\* Mutant of HostInterrupted: an interrupt excuses whatever comes after it.
HostInterruptedEver == stamp # NoTurn

HostInterrupted == stamp # NoTurn /\ stamp = ThisTurn

Recovered ==
  /\ streak' = 0 /\ attempt' = 0
  /\ failures' = 0
  /\ UNCHANGED <<timers, banner>>

Excused == UNCHANGED <<streak, attempt, timers, banner>>

\* Mutant of Retried: a rung is not used up.
RetriedFreely ==
  /\ timers' = timers + 1
  /\ UNCHANGED <<attempt, streak, banner>>

Retried ==
  /\ attempt' = attempt + 1 /\ timers' = timers + 1
  /\ UNCHANGED <<streak, banner>>

\* The second in a row halts, and so does a transient one when the ladder is spent.  The count
\* starts over: the next errors are a new incident.
Counted(transient) ==
  /\ IF transient \/ streak + 1 >= 2
     THEN streak' = 0 /\ banner' = TRUE
     ELSE streak' = streak + 1 /\ UNCHANGED banner
  /\ UNCHANGED <<attempt, timers>>

Errored(transient) ==
  IF HostInterrupted THEN Excused
  ELSE IF transient /\ attempt < Rungs THEN Retried
  ELSE Counted(transient)

\* The turn's result.  An interrupted one ends in an error whose last line is ordinary prose;
\* it may also have been about to end by itself.  The ring hears the completion and takes it
\* for the turn in flight when the epoch is the current one.
EndTurn ==
  /\ turnOf # NoTurn
  /\ \/ Recovered
     \/ /\ toldToStop /\ Errored(FALSE)
        /\ failures' = IF banner' THEN 0 ELSE failures
     \/ /\ ~toldToStop
        /\ \E transient \in BOOLEAN :
             /\ Errored(transient)
             /\ failures' = IF banner' THEN 0
                            ELSE IF HostInterrupted THEN failures ELSE failures + 1
  /\ turnOf' = NoTurn /\ toldToStop' = FALSE
  /\ lastEnded' = Bind /\ boundTo' = NoTurn /\ strayed' = FALSE
  /\ holds' = (holds /\ Bind # cell)
  /\ UNCHANGED <<cell, pageIn, stamp, messages>>

LadderNext ==
  HandOverTurn \/ SteerByMessage \/ RetryDue \/ TakePage \/ AnyEvent \/ EndTurn

LadderSpec == LadderInit /\ [][LadderNext]_ladderVars
-----------------------------------------------------------------------------
\* A participant whose turns all fail is put before the user: no more than the ladder's rungs
\* and one turn fail in a row without a halt, whatever mix of errors they are and however many
\* interrupted turns and timers lie in between.
FailuresReachTheUser == failures <= Rungs + 1

\* An interrupt excuses no later turn: one that failed of itself is passed over only if the host
\* interrupted the participant when that turn had been handed out, or later.  ("a stale stamp
\* cannot hide a genuine error".)  A turn whose pump was bound by an event between two turns is
\* not covered: such an event binds the next turn to a retired epoch, stamped or not.
OnlyTheInterruptedIsExcused ==
  [][turnOf # NoTurn /\ turnOf' = NoTurn /\ ~toldToStop /\ ~strayed /\ HostInterrupted
       => stamp >= turnOf]_ladderVars
=============================================================================
