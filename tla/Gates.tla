-------------------------------- MODULE Gates -------------------------------
(***************************************************************************)
(* The approval gates of one session: signaling/bridge/tray.rs and          *)
(* action_gate.rs over the session_tray rows.  A git hook that needs an     *)
(* approval waits for the pick; a gated command is parked, and the host     *)
(* runs it when it is approved.                                             *)
(*                                                                         *)
(* An ask lives in three places that no step changes together: the durable  *)
(* row, the entry in the bridge's map of parked asks with the channel to    *)
(* whoever waits, and the ring's latch of open gates.  Answers, withdrawals *)
(* and a repeated ask overlap; a restart loses all but the row.             *)
(***************************************************************************)
EXTENDS Integers, FiniteSets

CONSTANTS
  MaxAsks,        \* bound: asks of a behaviour, in the order 1, 2, ...
  MaxAnswers,     \* bound: the clicks of the user, one call of resolve_choice each, in order
  MaxMishaps      \* bound: withdrawals and restarts together

ASSUME GatesAssumption == {MaxAsks, MaxAnswers, MaxMishaps} \subseteq Nat

AskKinds == {"hook", "action"}
Verdicts == {"Approve", "Reject"}
Unpicked == "none"

Asks == 1..MaxAsks
Answers == 1..MaxAnswers
NoAsk == 0

VARIABLES
  asked,          \* how many asks there were
  ask,            \* per ask: its kind, the step of its call and the earlier ask it replaces
  trayRow,        \* per ask: the status of its session_tray row and the option picked
  parkedAsk,      \* the asks in the bridge's map
  waiter,         \* per ask: the receiving end of its channel
  openGates,      \* the ring's latch
  answer,         \* per click: the ask, the pick, and where resolve_choice stands
  withdrawal,     \* the withdrawal in progress
  ran,            \* history: how often each command was run by the host
  cutOff,         \* history: asks whose answer was in progress at a restart
  mishaps

askVars == <<asked, ask>>
gatesVars == <<askVars, trayRow, parkedAsk, waiter, openGates, answer, withdrawal, ran, cutOff,
               mishaps>>

AskSteps == {"none", "replacing", "parking", "announcing", "open"}
RowStates == {"none", "pending", "answered", "withdrawn", "superseded"}
NoAnswer == [of |-> NoAsk, pick |-> Unpicked, step |-> "free", flipped |-> FALSE]
Handled == [NoAnswer EXCEPT !.step = "done"]
NoWithdrawal == [of |-> NoAsk, step |-> "none", lifts |-> FALSE]

GatesTypeOK ==
  /\ asked \in 0..MaxAsks
  /\ ask \in [Asks -> [kind : AskKinds, step : AskSteps, prior : Asks \cup {NoAsk}]]
  /\ trayRow \in [Asks -> [status : RowStates, picked : Verdicts \cup {Unpicked}]]
  /\ parkedAsk \subseteq Asks /\ openGates \subseteq Asks /\ cutOff \subseteq Asks
  /\ waiter \in [Asks -> {"none", "waiting", "gone", "Approve", "Reject"}]
  /\ answer \in [Answers -> [of : Asks \cup {NoAsk}, pick : Verdicts \cup {Unpicked},
                             step : {"free", "flipping", "handing", "delivering", "done"},
                             flipped : BOOLEAN]]
  /\ withdrawal \in [of : Asks \cup {NoAsk}, step : {"none", "taken", "marked"}, lifts : BOOLEAN]
  /\ ran \in [Asks -> Nat]
  /\ mishaps \in 0..MaxMishaps

GatesInit ==
  /\ asked = 0
  /\ ask = [g \in Asks |-> [kind |-> "action", step |-> "none", prior |-> NoAsk]]
  /\ trayRow = [g \in Asks |-> [status |-> "none", picked |-> Unpicked]]
  /\ parkedAsk = {} /\ openGates = {} /\ cutOff = {}
  /\ waiter = [g \in Asks |-> "none"]
  /\ answer = [a \in Answers |-> NoAnswer]
  /\ withdrawal = NoWithdrawal
  /\ ran = [g \in Asks |-> 0]
  /\ mishaps = 0
-----------------------------------------------------------------------------
RowIs(g, status) == trayRow[g].status = status
PendingOf(kind) == {g \in Asks : RowIs(g, "pending") /\ ask[g].kind = kind}
AskGoes(g, step) == ask' = [ask EXCEPT ![g].step = step]
HangsUp(g) == waiter' = [waiter EXCEPT ![g] = IF @ = "waiting" THEN "gone" ELSE @]

\* The UPDATE of a status WHERE it is pending.
Settle(g, status, picked) ==
  trayRow' = IF RowIs(g, "pending")
             THEN [trayRow EXCEPT ![g] = [status |-> status, picked |-> picked]] ELSE trayRow
-----------------------------------------------------------------------------
(* Asking *)

\* A new ask, the earlier of its kind having been made.  An identical command that is pending
\* is not parked again, and an identical ask of a hook replaces the one pending:
\* auto_supersede_prior_pending settles its row first.
AskNew(kind) ==
  /\ asked < MaxAsks
  /\ \A g \in 1..asked : ask[g].kind = kind => ask[g].step = "open"
  /\ kind = "action" => PendingOf("action") = {}
  /\ asked' = asked + 1
  /\ LET g == asked + 1
         prior == IF kind = "action" THEN {} ELSE PendingOf(kind)
     IN \/ /\ prior = {}
           /\ ask' = [ask EXCEPT ![g] = [kind |-> kind, step |-> "parking", prior |-> NoAsk]]
           /\ UNCHANGED trayRow
        \/ \E h \in prior :
             /\ \A k \in prior : k <= h
             /\ ask' = [ask EXCEPT ![g] = [kind |-> kind, step |-> "replacing", prior |-> h]]
             /\ Settle(h, "superseded", Unpicked)
  /\ UNCHANGED <<parkedAsk, waiter, openGates, answer, withdrawal, ran, cutOff, mishaps>>

\* ... then its entry goes, and its gate is lifted.
DropReplaced(g) ==
  /\ ask[g].step = "replacing"
  /\ AskGoes(g, "parking")
  /\ parkedAsk' = parkedAsk \ {ask[g].prior}
  /\ IF ask[g].prior \in parkedAsk THEN HangsUp(ask[g].prior) ELSE UNCHANGED waiter
  /\ openGates' = openGates \ {ask[g].prior}
  /\ UNCHANGED <<asked, trayRow, answer, withdrawal, ran, cutOff, mishaps>>

\* ask_user_choice_inner: the entry and the row.
ParkAsk(g) ==
  /\ ask[g].step = "parking" /\ AskGoes(g, "announcing")
  /\ parkedAsk' = parkedAsk \cup {g}
  /\ waiter' = [waiter EXCEPT ![g] = "waiting"]
  /\ trayRow' = [trayRow EXCEPT ![g].status = "pending"]
  /\ UNCHANGED <<asked, openGates, answer, withdrawal, ran, cutOff, mishaps>>

\* Then the latch and the event the box shows it by; a call that does not wait returns and its
\* receiver is gone.
AnnounceAsk(g) ==
  /\ ask[g].step = "announcing" /\ AskGoes(g, "open")
  /\ openGates' = openGates \cup {g}
  /\ IF ask[g].kind = "hook" THEN UNCHANGED waiter ELSE HangsUp(g)
  /\ UNCHANGED <<asked, trayRow, parkedAsk, answer, withdrawal, ran, cutOff, mishaps>>

\* The hook is killed, or its client gives up: nobody listens.
HookDies(g) ==
  /\ ask[g].kind = "hook" /\ ask[g].step = "open" /\ waiter[g] = "waiting"
  /\ HangsUp(g)
  /\ UNCHANGED <<askVars, trayRow, parkedAsk, openGates, answer, withdrawal, ran, cutOff, mishaps>>
-----------------------------------------------------------------------------
(* Answering *)

\* A click on an ask the box shows, which it does from its announcement on.  A stale gate asks
\* once more before this step, without a change.
Click(a, g, pick) ==
  /\ answer[a].step = "free" /\ \A b \in Answers : answer[b].step = "free" => a <= b
  /\ ask[g].step = "open"
  /\ answer' = [answer EXCEPT ![a] =
                  [of |-> g, pick |-> pick, step |-> "flipping", flipped |-> FALSE]]
  /\ UNCHANGED <<askVars, trayRow, parkedAsk, waiter, openGates, withdrawal, ran, cutOff, mishaps>>

\* Mutant of FlipRow: a click on a settled row counts as the one that settled it.
FlipRowAlways(a) ==
  LET g == answer[a].of
  IN /\ answer[a].step = "flipping"
     /\ Settle(g, "answered", answer[a].pick)
     /\ answer' = [answer EXCEPT ![a].step = "handing", ![a].flipped = TRUE]
     /\ openGates' = openGates \ {g}
     /\ UNCHANGED <<askVars, parkedAsk, waiter, withdrawal, ran, cutOff, mishaps>>

\* answer_tray_entry: one click wins the row, and lifts the gate.
FlipRow(a) ==
  LET g == answer[a].of
      wins == RowIs(g, "pending")
  IN /\ answer[a].step = "flipping"
     /\ Settle(g, "answered", answer[a].pick)
     /\ answer' = [answer EXCEPT ![a].step = "handing", ![a].flipped = wins]
     /\ openGates' = IF wins THEN openGates \ {g} ELSE openGates
     /\ UNCHANGED <<askVars, parkedAsk, waiter, withdrawal, ran, cutOff, mishaps>>

\* Mutant of HandIn: an entry nobody waits at takes the answer.
HandInUnheard(a) ==
  LET g == answer[a].of
      heard == g \in parkedAsk
  IN /\ answer[a].step = "handing"
     /\ parkedAsk' = parkedAsk \ {g}
     /\ waiter' = IF waiter[g] = "waiting" THEN [waiter EXCEPT ![g] = answer[a].pick] ELSE waiter
     /\ answer' = [answer EXCEPT ![a] = IF heard THEN Handled ELSE [@ EXCEPT !.step = "delivering"]]
     /\ UNCHANGED <<askVars, trayRow, openGates, withdrawal, ran, cutOff, mishaps>>

\* The entry is taken out of the map and the pick handed to whoever waits, if anybody does.
HandIn(a) ==
  LET g == answer[a].of
      heard == g \in parkedAsk /\ waiter[g] = "waiting"
  IN /\ answer[a].step = "handing"
     /\ parkedAsk' = parkedAsk \ {g}
     /\ waiter' = IF heard THEN [waiter EXCEPT ![g] = answer[a].pick] ELSE waiter
     /\ answer' = [answer EXCEPT ![a] = IF heard THEN Handled ELSE [@ EXCEPT !.step = "delivering"]]
     /\ UNCHANGED <<askVars, trayRow, openGates, withdrawal, ran, cutOff, mishaps>>

\* deliver_oob with maybe_run_gated: the click that won the row runs the command it approves.
DeliverOutOfBand(a) ==
  LET g == answer[a].of
  IN /\ answer[a].step = "delivering"
     /\ ran' = IF answer[a].flipped /\ answer[a].pick = "Approve"
               THEN [ran EXCEPT ![g] = @ + 1] ELSE ran
     /\ answer' = [answer EXCEPT ![a] = Handled]
     /\ UNCHANGED <<askVars, trayRow, parkedAsk, waiter, openGates, withdrawal, cutOff, mishaps>>
-----------------------------------------------------------------------------
(* Withdrawing and restarting *)

\* withdraw_question_for: the row is read, the entry taken out.
TakeBack(g) ==
  /\ withdrawal = NoWithdrawal /\ mishaps < MaxMishaps /\ ask[g].step = "open"
  /\ mishaps' = mishaps + 1
  /\ withdrawal' = [of |-> g, step |-> "taken", lifts |-> RowIs(g, "pending")]
  /\ parkedAsk' = parkedAsk \ {g}
  /\ IF g \in parkedAsk THEN HangsUp(g) ELSE UNCHANGED waiter
  /\ UNCHANGED <<askVars, trayRow, openGates, answer, ran, cutOff>>

MarkWithdrawn ==
  /\ withdrawal.step = "taken"
  /\ withdrawal' = [withdrawal EXCEPT !.step = "marked"]
  /\ Settle(withdrawal.of, "withdrawn", Unpicked)
  /\ UNCHANGED <<askVars, parkedAsk, waiter, openGates, answer, ran, cutOff, mishaps>>

\* Mutant of LiftWithdrawn: the ring is not told.
LiftNothing ==
  /\ withdrawal.step = "marked"
  /\ withdrawal' = NoWithdrawal
  /\ UNCHANGED <<askVars, trayRow, parkedAsk, waiter, openGates, answer, ran, cutOff, mishaps>>

LiftWithdrawn ==
  /\ withdrawal.step = "marked"
  /\ withdrawal' = NoWithdrawal
  /\ openGates' = IF withdrawal.lifts THEN openGates \ {withdrawal.of} ELSE openGates
  /\ UNCHANGED <<askVars, trayRow, parkedAsk, waiter, answer, ran, cutOff, mishaps>>

\* Mutant of RestartHost: the latch is not read back.
RestartForgetful ==
  /\ mishaps < MaxMishaps
  /\ mishaps' = mishaps + 1
  /\ ask' = [g \in Asks |-> [ask[g] EXCEPT !.step = IF g <= asked THEN "open" ELSE @]]
  /\ parkedAsk' = {} /\ openGates' = {}
  /\ waiter' = [g \in Asks |-> IF waiter[g] = "waiting" THEN "gone" ELSE waiter[g]]
  /\ answer' = [a \in Answers |-> IF answer[a].step = "free" THEN NoAnswer ELSE Handled]
  /\ withdrawal' = NoWithdrawal
  /\ UNCHANGED <<asked, trayRow, ran, cutOff>>

\* The host restarts: the calls in progress and the map are gone, and the latch is read back
\* from the pending rows (pending_gate_ids).
RestartHost ==
  /\ mishaps < MaxMishaps
  /\ mishaps' = mishaps + 1
  /\ ask' = [g \in Asks |-> [ask[g] EXCEPT !.step = IF g <= asked THEN "open" ELSE @]]
  /\ parkedAsk' = {}
  /\ waiter' = [g \in Asks |-> IF waiter[g] = "waiting" THEN "gone" ELSE waiter[g]]
  /\ cutOff' = cutOff \cup {g \in Asks : \E a \in Answers :
                              answer[a].of = g /\ answer[a].step \in {"handing", "delivering"}}
  /\ answer' = [a \in Answers |-> IF answer[a].step = "free" THEN NoAnswer ELSE Handled]
  /\ withdrawal' = NoWithdrawal
  /\ openGates' = {g \in Asks : RowIs(g, "pending")}
  /\ UNCHANGED <<asked, trayRow, ran>>

AskProceeds(g) == DropReplaced(g) \/ ParkAsk(g) \/ AnnounceAsk(g)
AnswerProceeds(a) == FlipRow(a) \/ HandIn(a) \/ DeliverOutOfBand(a)
WithdrawalProceeds == MarkWithdrawn \/ LiftWithdrawn

GatesNext ==
  \/ \E kind \in AskKinds : AskNew(kind)
  \/ \E g \in Asks : AskProceeds(g) \/ HookDies(g) \/ TakeBack(g)
  \/ \E a \in Answers : AnswerProceeds(a) \/ \E g \in Asks, pick \in Verdicts : Click(a, g, pick)
  \/ WithdrawalProceeds
  \/ RestartHost

GatesSpec == GatesInit /\ [][GatesNext]_gatesVars

\* As long as a call can go on one of them does; what the user, the hooks and the host do is not
\* owed.
GatesTask ==
  \/ \E g \in Asks : AskProceeds(g)
  \/ \E a \in Answers : AnswerProceeds(a)
  \/ WithdrawalProceeds
GatesFairness == WF_gatesVars(GatesTask)
-----------------------------------------------------------------------------
\* However often and however concurrently a gate is answered, withdrawn or asked again, the host
\* runs its command once at most, and only when the row records that it was approved.
\* (resolve_choice_confirmable: "the durable exactly-once".)
RunsOnceIfApproved ==
  \A g \in Asks : ran[g] <= 1 /\ (ran[g] = 1 => trayRow[g].picked = "Approve")

\* The ring does not deal past a gate the user can see and has not answered.
PendingGateHolds ==
  \A g \in Asks : RowIs(g, "pending") /\ ask[g].step = "open" => g \in openGates

\* The latch is not left behind: once a gate is settled, by whichever of an answer, a withdrawal
\* and a repeated ask came first, the ring hears it.
LatchLifts ==
  (\E g \in openGates : ~RowIs(g, "pending")) ~> (\A g \in openGates : RowIs(g, "pending"))

\* An approval takes effect: the hook hears of it or the host runs the command, unless the host
\* stopped in the middle of the answer.
ApprovalTakesEffect ==
  LET approved == {g \in Asks : trayRow[g].picked = "Approve"}
      effective == {g \in Asks : waiter[g] \in Verdicts \/ ran[g] = 1 \/ g \in cutOff}
  IN (approved # {}) ~> (approved \subseteq effective)
=============================================================================
