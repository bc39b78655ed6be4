-------------------------- MODULE Decisions_proofs --------------------------
(****************************************************************************)
(* What the user decides and what the participants decide.                  *)
(*                                                                          *)
(* Gates, for any number of asks, clicks, withdrawals and restarts: an      *)
(* approved command runs once at most, and the ring holds at every gate     *)
(* the user can see. Both rest on the durable row: it is pending from its   *)
(* insertion to the one update that settles it, and a click is marked as    *)
(* the winner only by that update.                                          *)
(*                                                                          *)
(* PhaseVote, for any electorate and any phases: a phase advance is         *)
(* unanimous. The table agrees with the history: every vote in it is one    *)
(* its voter has cast since the epoch last moved and not taken back.        *)
(****************************************************************************)
EXTENDS Gates, PhaseVote, TLAPS
-----------------------------------------------------------------------------
(* Approval gates *)

AskRecords == [kind : AskKinds, step : AskSteps, prior : Asks \cup {NoAsk}]
RowRecords == [status : RowStates, picked : Verdicts \cup {Unpicked}]
AnswerRecords == [of : Asks \cup {NoAsk}, pick : Verdicts \cup {Unpicked},
                  step : {"free", "flipping", "handing", "delivering", "done"}, flipped : BOOLEAN]
WithdrawalRecords == [of : Asks \cup {NoAsk}, step : {"none", "taken", "marked"}, lifts : BOOLEAN]
BeforeTheRow == {"none", "replacing", "parking"}

\* A row is inserted once, when its ask has come so far.
RowComesLater ==
  /\ \A g \in Asks : g > asked => ask[g].step = "none"
  /\ \A g \in Asks : ask[g].step \in BeforeTheRow => RowIs(g, "none")

\* What a repeated ask replaces has been settled, and stays so.
ReplacedIsSettled ==
  \A g \in Asks : ask[g].step = "replacing" =>
    ask[g].prior \in Asks /\ ~RowIs(ask[g].prior, "none") /\ ~RowIs(ask[g].prior, "pending")

\* A withdrawal is of an ask that is open, and once it is marked that ask is not pending.
WithdrawnIsOpen ==
  withdrawal.step # "none" =>
    /\ withdrawal.of \in Asks /\ ask[withdrawal.of].step = "open"
    /\ withdrawal.step = "marked" => ~RowIs(withdrawal.of, "pending")

\* A click in progress is of an ask.  The one that won is the one the row records, its command
\* has not run, and it is the only one.
WinnerIsRecorded ==
  /\ \A a \in Answers : answer[a].step \in {"flipping", "handing", "delivering"} =>
       answer[a].of \in Asks /\ answer[a].pick \in Verdicts
  /\ \A a \in Answers : answer[a].flipped =>
       /\ answer[a].step \in {"handing", "delivering"}
       /\ trayRow[answer[a].of].status = "answered"
       /\ trayRow[answer[a].of].picked = answer[a].pick
       /\ ran[answer[a].of] = 0
  /\ \A a, b \in Answers :
       answer[a].flipped /\ answer[b].flipped /\ answer[a].of = answer[b].of => a = b

\* What ran was approved, and ran once.
RunIsRecorded ==
  \A g \in Asks : ran[g] # 0 =>
    ran[g] = 1 /\ trayRow[g].status = "answered" /\ trayRow[g].picked = "Approve"

GatesInv ==
  /\ GatesTypeOK
  /\ RowComesLater
  /\ ReplacedIsSettled
  /\ WithdrawnIsOpen
  /\ WinnerIsRecorded
  /\ RunIsRecorded
  /\ PendingGateHolds
-----------------------------------------------------------------------------
LEMMA AsksArePositive == Asks \subseteq Nat \ {NoAsk} /\ NoAsk \notin Asks
  BY GatesAssumption DEF Asks, NoAsk

\* The update of a status WHERE it is pending, row by row.
LEMMA SettleOnly ==
  ASSUME GatesTypeOK, NEW g \in Asks, NEW status \in RowStates, NEW picked \in Verdicts \cup {Unpicked},
         Settle(g, status, picked)
  PROVE  /\ trayRow' \in [Asks -> RowRecords]
         /\ \A h \in Asks : h # g \/ ~RowIs(g, "pending") => trayRow'[h] = trayRow[h]
         /\ RowIs(g, "pending") => trayRow'[g] = [status |-> status, picked |-> picked]
<1>1. trayRow \in [Asks -> RowRecords]
  BY DEF GatesTypeOK, RowRecords
<1>2. [status |-> status, picked |-> picked] \in RowRecords
  BY DEF RowRecords
<1>3. trayRow' = IF RowIs(g, "pending")
                 THEN [trayRow EXCEPT ![g] = [status |-> status, picked |-> picked]] ELSE trayRow
  BY DEF Settle
<1> QED
  BY <1>1, <1>2, <1>3

\* A step of an ask's call.
LEMMA AskGoesOnly ==
  ASSUME GatesTypeOK, NEW g \in Asks, NEW step \in AskSteps, AskGoes(g, step)
  PROVE  /\ ask' \in [Asks -> AskRecords]
         /\ ask'[g].step = step
         /\ \A h \in Asks : ask'[h].kind = ask[h].kind /\ ask'[h].prior = ask[h].prior
         /\ \A h \in Asks : h # g => ask'[h].step = ask[h].step
<1>1. ask \in [Asks -> AskRecords]
  BY DEF GatesTypeOK, AskRecords
<1>2. ask' = [ask EXCEPT ![g] = [ask[g] EXCEPT !.step = step]]
  BY DEF AskGoes
<1>3. /\ [ask[g] EXCEPT !.step = step] \in AskRecords
      /\ [ask[g] EXCEPT !.step = step].step = step
      /\ [ask[g] EXCEPT !.step = step].kind = ask[g].kind
      /\ [ask[g] EXCEPT !.step = step].prior = ask[g].prior
  BY <1>1 DEF AskRecords
<1> QED
  BY <1>1, <1>2, <1>3

LEMMA HangsUpKeepsType ==
  ASSUME GatesTypeOK, NEW g \in Asks, HangsUp(g) \/ UNCHANGED waiter
  PROVE  waiter' \in [Asks -> {"none", "waiting", "gone", "Approve", "Reject"}]
  BY DEF GatesTypeOK, HangsUp

LEMMA GatesInitEstablishes == GatesInit => GatesInv
<1> SUFFICES ASSUME GatesInit PROVE GatesInv
  OBVIOUS
<1>1. ask \in [Asks -> AskRecords] /\ trayRow \in [Asks -> RowRecords]
  BY DEF GatesInit, AskRecords, RowRecords, AskKinds, AskSteps, RowStates, Verdicts
<1>2. /\ answer \in [Answers -> AnswerRecords] /\ withdrawal \in WithdrawalRecords
      /\ ran \in [Asks -> Nat] /\ asked \in 0..MaxAsks /\ mishaps \in 0..MaxMishaps
  BY GatesAssumption DEF GatesInit, AnswerRecords, WithdrawalRecords, NoAnswer, NoWithdrawal
<1>3. GatesTypeOK
  BY <1>1, <1>2 DEF GatesInit, GatesTypeOK, AskRecords, RowRecords, AnswerRecords, WithdrawalRecords
<1>4. RowComesLater /\ ReplacedIsSettled /\ WithdrawnIsOpen
  BY DEF GatesInit, RowComesLater, ReplacedIsSettled, WithdrawnIsOpen, RowIs, NoWithdrawal
<1>5. WinnerIsRecorded /\ RunIsRecorded /\ PendingGateHolds
  BY DEF GatesInit, WinnerIsRecorded, RunIsRecorded, PendingGateHolds, RowIs, NoAnswer
<1> QED
  BY <1>3, <1>4, <1>5 DEF GatesInv
-----------------------------------------------------------------------------
\* A new ask.
LEMMA AskNewPreserves ==
  ASSUME GatesInv, NEW kind \in AskKinds, AskNew(kind)
  PROVE  GatesInv'
<1> USE DEF GatesInv
<1> DEFINE g == asked + 1
<1>1. /\ asked \in Nat /\ asked' = asked + 1 /\ g \in Asks /\ asked' \in 0..MaxAsks
      /\ UNCHANGED <<parkedAsk, waiter, openGates, answer, withdrawal, ran, cutOff, mishaps>>
  BY GatesAssumption DEF AskNew, GatesTypeOK, Asks
<1>2. ask[g].step = "none" /\ RowIs(g, "none")
  BY <1>1, AsksArePositive DEF RowComesLater, BeforeTheRow
<1>3. PICK new \in AskRecords :
        /\ ask' = [ask EXCEPT ![g] = new]
        /\ \/ new.step = "parking" /\ trayRow' = trayRow
           \/ /\ new.step = "replacing" /\ new.prior \in Asks
              /\ RowIs(new.prior, "pending") /\ Settle(new.prior, "superseded", Unpicked)
  <2>1. CASE /\ ask' = [ask EXCEPT ![g] = [kind |-> kind, step |-> "parking", prior |-> NoAsk]]
             /\ UNCHANGED trayRow
    <3>1. [kind |-> kind, step |-> "parking", prior |-> NoAsk] \in AskRecords
      BY DEF AskRecords, AskSteps
    <3> QED
      BY <2>1, <3>1
  <2>2. CASE \E h \in Asks :
               /\ RowIs(h, "pending") /\ Settle(h, "superseded", Unpicked)
               /\ ask' = [ask EXCEPT ![g] = [kind |-> kind, step |-> "replacing", prior |-> h]]
    <3>1. PICK h \in Asks :
            /\ RowIs(h, "pending") /\ Settle(h, "superseded", Unpicked)
            /\ ask' = [ask EXCEPT ![g] = [kind |-> kind, step |-> "replacing", prior |-> h]]
      BY <2>2
    <3>2. [kind |-> kind, step |-> "replacing", prior |-> h] \in AskRecords
      BY DEF AskRecords, AskSteps
    <3> QED
      BY <3>1, <3>2
  <2> QED
    BY <2>1, <2>2 DEF AskNew, PendingOf
<1>4. /\ ask \in [Asks -> AskRecords] /\ ask' \in [Asks -> AskRecords]
      /\ ask'[g] = new /\ \A h \in Asks : h # g => ask'[h] = ask[h]
  BY <1>1, <1>3 DEF GatesTypeOK, AskRecords
<1>5. /\ trayRow' \in [Asks -> RowRecords]
      /\ \A h \in Asks : \/ trayRow'[h] = trayRow[h]
                         \/ RowIs(h, "pending") /\ trayRow'[h].status = "superseded"
      /\ new.step = "replacing" =>
           new.prior \in Asks /\ trayRow'[new.prior].status = "superseded" /\ new.prior # g
  <2>1. CASE new.step = "parking"
    BY <1>3, <2>1 DEF GatesTypeOK, RowRecords
  <2>2. CASE new.step = "replacing"
    <3>1. "superseded" \in RowStates /\ Unpicked \in Verdicts \cup {Unpicked}
      BY DEF RowStates
    <3>2. /\ new.prior \in Asks /\ RowIs(new.prior, "pending")
          /\ Settle(new.prior, "superseded", Unpicked)
      BY <1>3, <2>2
    <3>3. /\ trayRow' \in [Asks -> RowRecords]
          /\ \A h \in Asks : h # new.prior => trayRow'[h] = trayRow[h]
          /\ trayRow'[new.prior] = [status |-> "superseded", picked |-> Unpicked]
      BY <3>1, <3>2, SettleOnly
    <3>4. new.prior # g
      BY <1>2, <3>2 DEF RowIs
    <3> QED
      BY <3>2, <3>3, <3>4
  <2> QED
    BY <1>3, <2>1, <2>2
<1>6. GatesTypeOK'
  BY <1>1, <1>4, <1>5 DEF GatesTypeOK, AskRecords, RowRecords
<1>7. RowComesLater'
  <2>1. \A h \in Asks : h > asked' => ask'[h].step = "none"
    BY <1>1, <1>4, AsksArePositive DEF RowComesLater
  <2>2. \A h \in Asks : ask'[h].step \in BeforeTheRow => RowIs(h, "none")'
    BY <1>2, <1>4, <1>5 DEF RowComesLater, RowIs
  <2> QED
    BY <2>1, <2>2 DEF RowComesLater
<1>8. ReplacedIsSettled'
  BY <1>3, <1>4, <1>5 DEF ReplacedIsSettled, RowIs
<1>9. WithdrawnIsOpen'
  BY <1>1, <1>2, <1>4, <1>5 DEF WithdrawnIsOpen, RowIs
<1>10. WinnerIsRecorded' /\ RunIsRecorded'
  BY <1>1, <1>5 DEF WinnerIsRecorded, RunIsRecorded, RowIs
<1>11. PendingGateHolds'
  BY <1>1, <1>3, <1>4, <1>5 DEF PendingGateHolds, RowIs
<1> QED
  BY <1>6, <1>7, <1>8, <1>9, <1>10, <1>11

\* The steps of an ask's call.
LEMMA AskProceedsPreserves ==
  ASSUME GatesInv, NEW g \in Asks, AskProceeds(g)
  PROVE  GatesInv'
<1> USE DEF GatesInv
<1>1. PICK from \in {"replacing", "parking", "announcing"}, step \in {"parking", "announcing", "open"} :
        /\ ask[g].step = from /\ AskGoes(g, step)
        /\ from = "replacing" => /\ step = "parking" /\ UNCHANGED trayRow
                                 /\ openGates' = openGates \ {ask[g].prior}
        /\ from = "parking" => /\ step = "announcing" /\ UNCHANGED openGates
                               /\ trayRow' = [trayRow EXCEPT ![g].status = "pending"]
        /\ from = "announcing" => /\ step = "open" /\ UNCHANGED trayRow
                                  /\ openGates' = openGates \cup {g}
  BY DEF AskProceeds, DropReplaced, ParkAsk, AnnounceAsk
<1>2. UNCHANGED <<asked, answer, withdrawal, ran, cutOff, mishaps>>
  BY DEF AskProceeds, DropReplaced, ParkAsk, AnnounceAsk
<1>3. /\ parkedAsk' \subseteq Asks /\ openGates' \subseteq Asks
      /\ waiter' \in [Asks -> {"none", "waiting", "gone", "Approve", "Reject"}]
  <2>1. CASE DropReplaced(g)
    <3>1. ask[g].prior \in Asks
      BY <2>1 DEF DropReplaced, ReplacedIsSettled
    <3>2. HangsUp(ask[g].prior) \/ UNCHANGED waiter
      BY <2>1 DEF DropReplaced
    <3> QED
      BY <2>1, <3>1, <3>2, HangsUpKeepsType DEF DropReplaced, GatesTypeOK
  <2>2. CASE ParkAsk(g)
    BY <2>2 DEF ParkAsk, GatesTypeOK
  <2>3. CASE AnnounceAsk(g)
    BY <2>3, HangsUpKeepsType DEF AnnounceAsk, GatesTypeOK
  <2> QED
    BY <2>1, <2>2, <2>3 DEF AskProceeds
<1>4. /\ ask' \in [Asks -> AskRecords] /\ ask'[g].step = step
      /\ \A h \in Asks : ask'[h].prior = ask[h].prior
      /\ \A h \in Asks : h # g => ask'[h].step = ask[h].step
  BY <1>1, AskGoesOnly DEF AskSteps
<1>5. /\ trayRow' \in [Asks -> RowRecords]
      /\ \A h \in Asks : h # g \/ from # "parking" => trayRow'[h] = trayRow[h]
      /\ from = "parking" => RowIs(g, "none") /\ trayRow'[g].status = "pending"
  <2>1. trayRow \in [Asks -> RowRecords]
    BY DEF GatesTypeOK, RowRecords
  <2>2. CASE from = "parking"
    <3>1. trayRow' = [trayRow EXCEPT ![g] = [trayRow[g] EXCEPT !.status = "pending"]]
      BY <1>1, <2>2
    <3>2. /\ [trayRow[g] EXCEPT !.status = "pending"] \in RowRecords
          /\ [trayRow[g] EXCEPT !.status = "pending"].status = "pending"
      BY <2>1 DEF RowRecords, RowStates
    <3>3. RowIs(g, "none")
      BY <1>1, <2>2 DEF RowComesLater, BeforeTheRow
    <3> QED
      BY <2>1, <2>2, <3>1, <3>2, <3>3
  <2>3. CASE from # "parking"
    BY <1>1, <2>1, <2>3
  <2> QED
    BY <2>2, <2>3
<1>6. GatesTypeOK'
  BY <1>2, <1>3, <1>4, <1>5 DEF GatesTypeOK, AskRecords, RowRecords
<1>7. RowComesLater'
  <2>1. \A h \in Asks : h > asked' => ask'[h].step = "none"
    BY <1>1, <1>2, <1>4 DEF RowComesLater
  <2>2. \A h \in Asks : ask'[h].step \in BeforeTheRow => RowIs(h, "none")'
    BY <1>1, <1>4, <1>5 DEF RowComesLater, RowIs, BeforeTheRow
  <2> QED
    BY <2>1, <2>2 DEF RowComesLater
<1>8. ReplacedIsSettled'
  BY <1>1, <1>4, <1>5 DEF ReplacedIsSettled, RowIs
<1>9. WithdrawnIsOpen'
  BY <1>1, <1>2, <1>4, <1>5 DEF WithdrawnIsOpen, RowIs
<1>10. WinnerIsRecorded'
  BY <1>2, <1>5 DEF WinnerIsRecorded, RowIs
<1>11. RunIsRecorded'
  BY <1>2, <1>5 DEF RunIsRecorded, RowIs
<1>12. PendingGateHolds'
  <2> SUFFICES ASSUME NEW h \in Asks, RowIs(h, "pending")', ask'[h].step = "open"
               PROVE  h \in openGates'
    BY DEF PendingGateHolds
  <2>1. CASE h = g
    BY <1>1, <1>4, <2>1
  <2>2. CASE h # g
    <3>1. RowIs(h, "pending") /\ h \in openGates
      BY <1>4, <1>5, <2>2 DEF RowIs, PendingGateHolds
    <3>2. from = "replacing" => h # ask[g].prior
      BY <1>1, <3>1 DEF ReplacedIsSettled
    <3> QED
      BY <1>1, <3>1, <3>2
  <2> QED
    BY <2>1, <2>2
<1> QED
  BY <1>6, <1>7, <1>8, <1>9, <1>10, <1>11, <1>12

LEMMA HookDiesPreserves ==
  ASSUME GatesInv, NEW g \in Asks, HookDies(g)
  PROVE  GatesInv'
<1> USE DEF GatesInv
<1>1. /\ UNCHANGED <<askVars, trayRow, parkedAsk, openGates, answer, withdrawal, ran, cutOff, mishaps>>
      /\ waiter' \in [Asks -> {"none", "waiting", "gone", "Approve", "Reject"}]
  BY HangsUpKeepsType DEF HookDies
<1>2. GatesTypeOK'
  BY <1>1 DEF GatesTypeOK, askVars
<1>3. RowComesLater' /\ ReplacedIsSettled' /\ WithdrawnIsOpen' /\ PendingGateHolds'
  BY <1>1 DEF RowComesLater, ReplacedIsSettled, WithdrawnIsOpen, PendingGateHolds, RowIs, askVars
<1>4. WinnerIsRecorded' /\ RunIsRecorded'
  BY <1>1 DEF WinnerIsRecorded, RunIsRecorded
<1> QED
  BY <1>2, <1>3, <1>4
-----------------------------------------------------------------------------
LEMMA ClickPreserves ==
  ASSUME GatesInv, NEW a \in Answers, NEW g \in Asks, NEW pick \in Verdicts, Click(a, g, pick)
  PROVE  GatesInv'
<1> USE DEF GatesInv
<1> DEFINE new == [of |-> g, pick |-> pick, step |-> "flipping", flipped |-> FALSE]
<1>1. /\ UNCHANGED <<askVars, trayRow, parkedAsk, waiter, openGates, withdrawal, ran, cutOff, mishaps>>
      /\ answer' = [answer EXCEPT ![a] = new]
  BY DEF Click
<1>2. new \in AnswerRecords
  BY DEF AnswerRecords
<1>3. /\ answer' \in [Answers -> AnswerRecords] /\ answer'[a] = new
      /\ \A b \in Answers : b # a => answer'[b] = answer[b]
  BY <1>1, <1>2 DEF GatesTypeOK, AnswerRecords
<1>4. GatesTypeOK'
  BY <1>1, <1>3 DEF GatesTypeOK, askVars, AnswerRecords
<1>5. RowComesLater' /\ ReplacedIsSettled' /\ WithdrawnIsOpen' /\ PendingGateHolds' /\ RunIsRecorded'
  BY <1>1 DEF RowComesLater, ReplacedIsSettled, WithdrawnIsOpen, PendingGateHolds, RunIsRecorded,
     RowIs, askVars
<1>6. WinnerIsRecorded'
  BY <1>1, <1>3 DEF WinnerIsRecorded
<1> QED
  BY <1>4, <1>5, <1>6

LEMMA HandingRecord ==
  ASSUME NEW r \in AnswerRecords, NEW w \in BOOLEAN
  PROVE  /\ [r EXCEPT !.step = "handing", !.flipped = w] \in AnswerRecords
         /\ [r EXCEPT !.step = "handing", !.flipped = w].of = r.of
         /\ [r EXCEPT !.step = "handing", !.flipped = w].pick = r.pick
         /\ [r EXCEPT !.step = "handing", !.flipped = w].step = "handing"
         /\ [r EXCEPT !.step = "handing", !.flipped = w].flipped = w
  BY DEF AnswerRecords

\* The update marks the click that settled the row, and no other of that ask is marked.
LEMMA FlipPreserves ==
  ASSUME GatesInv, NEW a \in Answers, FlipRow(a)
  PROVE  GatesInv'
<1> USE DEF GatesInv
<1> DEFINE g == answer[a].of
           wins == RowIs(g, "pending")
<1>1. /\ answer[a].step = "flipping" /\ g \in Asks
      /\ Settle(g, "answered", answer[a].pick)
      /\ answer' = [answer EXCEPT ![a] = [answer[a] EXCEPT !.step = "handing", !.flipped = wins]]
      /\ openGates' = IF wins THEN openGates \ {g} ELSE openGates
      /\ UNCHANGED <<askVars, parkedAsk, waiter, withdrawal, ran, cutOff, mishaps>>
  BY DEF FlipRow, WinnerIsRecorded
<1>2. answer \in [Answers -> AnswerRecords] /\ wins \in BOOLEAN
  BY DEF GatesTypeOK, AnswerRecords, RowIs
<1>3. /\ answer' \in [Answers -> AnswerRecords]
      /\ answer'[a].of = g /\ answer'[a].pick = answer[a].pick
      /\ answer'[a].step = "handing" /\ answer'[a].flipped = wins
      /\ \A b \in Answers : b # a => answer'[b] = answer[b]
  <2> DEFINE new == [answer[a] EXCEPT !.step = "handing", !.flipped = wins]
  <2>1. answer[a] \in AnswerRecords
    BY <1>2
  <2>2. /\ new \in AnswerRecords
        /\ new.of = g /\ new.pick = answer[a].pick /\ new.step = "handing" /\ new.flipped = wins
    BY <1>2, <2>1, HandingRecord
  <2>3. answer' = [answer EXCEPT ![a] = new]
    BY <1>1
  <2> HIDE DEF new, wins
  <2> QED
    BY <1>2, <2>2, <2>3
<1>4. /\ trayRow' \in [Asks -> RowRecords]
      /\ \A h \in Asks : h # g \/ ~wins => trayRow'[h] = trayRow[h]
      /\ wins => trayRow'[g] = [status |-> "answered", picked |-> answer[a].pick]
  <2>1. "answered" \in RowStates /\ answer[a].pick \in Verdicts \cup {Unpicked}
    BY <1>2 DEF RowStates, AnswerRecords
  <2> QED
    BY <1>1, <2>1, SettleOnly
<1>5. GatesTypeOK'
  BY <1>1, <1>3, <1>4 DEF GatesTypeOK, askVars, AnswerRecords, RowRecords
<1>6. RowComesLater'
  BY <1>1, <1>4 DEF RowComesLater, RowIs, askVars
<1>7. ReplacedIsSettled' /\ WithdrawnIsOpen'
  BY <1>1, <1>4 DEF ReplacedIsSettled, WithdrawnIsOpen, RowIs, askVars
<1>8. WinnerIsRecorded'
  <2>1. \A b \in Answers : answer'[b].step \in {"flipping", "handing", "delivering"} =>
          answer'[b].of \in Asks /\ answer'[b].pick \in Verdicts
    BY <1>1, <1>3 DEF WinnerIsRecorded
  <2>2. wins => ran[g] = 0 /\ \A b \in Answers : answer[b].flipped => answer[b].of # g
    BY <1>1 DEF RunIsRecorded, WinnerIsRecorded, RowIs
  <2>3. ASSUME NEW b \in Answers, answer'[b].flipped
        PROVE  /\ answer'[b].step \in {"handing", "delivering"}
               /\ trayRow'[answer'[b].of].status = "answered"
               /\ trayRow'[answer'[b].of].picked = answer'[b].pick
               /\ ran[answer'[b].of] = 0
    <3>1. CASE b = a
      BY <1>1, <1>3, <1>4, <2>2, <2>3, <3>1
    <3>2. CASE b # a
      BY <1>1, <1>3, <1>4, <2>2, <2>3, <3>2 DEF WinnerIsRecorded
    <3> QED
      BY <3>1, <3>2
  <2>4. \A b, c \in Answers :
          answer'[b].flipped /\ answer'[c].flipped /\ answer'[b].of = answer'[c].of => b = c
    BY <1>3, <2>2 DEF WinnerIsRecorded
  <2> QED
    BY <1>1, <2>1, <2>3, <2>4 DEF WinnerIsRecorded
<1>9. RunIsRecorded'
  BY <1>1, <1>4 DEF RunIsRecorded, RowIs
<1>10. PendingGateHolds'
  BY <1>1, <1>4 DEF PendingGateHolds, RowIs, askVars
<1> QED
  BY <1>5, <1>6, <1>7, <1>8, <1>9, <1>10

\* The entry is taken out: the click is over, or goes on as it is.
LEMMA HandInPreserves ==
  ASSUME GatesInv, NEW a \in Answers, HandIn(a)
  PROVE  GatesInv'
<1> USE DEF GatesInv
<1>1. /\ UNCHANGED <<askVars, trayRow, openGates, withdrawal, ran, cutOff, mishaps>>
      /\ answer[a].step = "handing" /\ answer[a].of \in Asks /\ answer[a].pick \in Verdicts
      /\ parkedAsk' \subseteq Asks
  BY DEF HandIn, WinnerIsRecorded, GatesTypeOK
<1>2. waiter' \in [Asks -> {"none", "waiting", "gone", "Approve", "Reject"}]
  <2>1. waiter' \in {waiter, [waiter EXCEPT ![answer[a].of] = answer[a].pick]}
    BY DEF HandIn
  <2> QED
    BY <1>1, <2>1 DEF GatesTypeOK, Verdicts
<1>3. PICK new \in {Handled, [answer[a] EXCEPT !.step = "delivering"]} :
        answer' = [answer EXCEPT ![a] = new]
  BY DEF HandIn
<1>4. /\ new \in AnswerRecords /\ new.step \in {"delivering", "done"}
      /\ new.step = "delivering" => new.of = answer[a].of /\ new.pick = answer[a].pick
      /\ new.flipped => answer[a].flipped /\ new.step = "delivering"
  <2>1. CASE new = Handled
    BY <2>1 DEF Handled, NoAnswer, AnswerRecords
  <2>2. CASE new = [answer[a] EXCEPT !.step = "delivering"]
    <3>1. answer[a] \in AnswerRecords
      BY DEF GatesTypeOK, AnswerRecords
    <3> QED
      BY <2>2, <3>1 DEF AnswerRecords
  <2> QED
    BY <1>3, <2>1, <2>2
<1>5. /\ answer' \in [Answers -> AnswerRecords] /\ answer'[a] = new
      /\ \A b \in Answers : b # a => answer'[b] = answer[b]
  BY <1>3, <1>4 DEF GatesTypeOK, AnswerRecords
<1>6. GatesTypeOK'
  BY <1>1, <1>2, <1>5 DEF GatesTypeOK, askVars, AnswerRecords
<1>7. RowComesLater' /\ ReplacedIsSettled' /\ WithdrawnIsOpen' /\ PendingGateHolds' /\ RunIsRecorded'
  BY <1>1 DEF RowComesLater, ReplacedIsSettled, WithdrawnIsOpen, PendingGateHolds, RunIsRecorded,
     RowIs, askVars
<1>8. WinnerIsRecorded'
  <2>1. \A b \in Answers : answer'[b].flipped =>
          answer[b].flipped /\ answer'[b].of = answer[b].of /\ answer'[b].pick = answer[b].pick
                            /\ answer'[b].step \in {"handing", "delivering"}
    BY <1>4, <1>5 DEF WinnerIsRecorded
  <2>2. \A b \in Answers : answer'[b].step \in {"flipping", "handing", "delivering"} =>
          answer'[b].of \in Asks /\ answer'[b].pick \in Verdicts
    BY <1>1, <1>4, <1>5 DEF WinnerIsRecorded
  <2> QED
    BY <1>1, <2>1, <2>2 DEF WinnerIsRecorded
<1> QED
  BY <1>6, <1>7, <1>8

\* The click is over; the one that won runs the command it approves.
LEMMA DeliverPreserves ==
  ASSUME GatesInv, NEW a \in Answers, DeliverOutOfBand(a)
  PROVE  GatesInv'
<1> USE DEF GatesInv
<1> DEFINE g == answer[a].of
<1>1. /\ UNCHANGED <<askVars, trayRow, parkedAsk, waiter, openGates, withdrawal, cutOff, mishaps>>
      /\ g \in Asks
      /\ ran' = IF answer[a].flipped /\ answer[a].pick = "Approve" THEN [ran EXCEPT ![g] = ran[g] + 1]
                ELSE ran
      /\ answer' = [answer EXCEPT ![a] = Handled]
  BY DEF DeliverOutOfBand, WinnerIsRecorded
<1>2. Handled \in AnswerRecords /\ Handled.step = "done" /\ ~Handled.flipped
  BY DEF Handled, NoAnswer, AnswerRecords
<1>3. /\ answer' \in [Answers -> AnswerRecords] /\ answer'[a] = Handled
      /\ \A b \in Answers : b # a => answer'[b] = answer[b]
  BY <1>1, <1>2 DEF GatesTypeOK, AnswerRecords
<1>4. /\ ran' \in [Asks -> Nat]
      /\ \A h \in Asks : h # g \/ ~(answer[a].flipped /\ answer[a].pick = "Approve") => ran'[h] = ran[h]
      /\ answer[a].flipped /\ answer[a].pick = "Approve" => ran'[g] = ran[g] + 1
  BY <1>1 DEF GatesTypeOK
<1>5. GatesTypeOK'
  BY <1>1, <1>3, <1>4 DEF GatesTypeOK, askVars, AnswerRecords
<1>6. RowComesLater' /\ ReplacedIsSettled' /\ WithdrawnIsOpen' /\ PendingGateHolds'
  BY <1>1 DEF RowComesLater, ReplacedIsSettled, WithdrawnIsOpen, PendingGateHolds, RowIs, askVars
<1>7. RunIsRecorded'
  <2> SUFFICES ASSUME NEW h \in Asks, ran'[h] # 0
               PROVE  /\ ran'[h] = 1
                      /\ trayRow[h].status = "answered" /\ trayRow[h].picked = "Approve"
    BY <1>1 DEF RunIsRecorded
  <2>1. CASE h = g /\ answer[a].flipped /\ answer[a].pick = "Approve"
    BY <1>4, <2>1 DEF WinnerIsRecorded
  <2>2. CASE ~(h = g /\ answer[a].flipped /\ answer[a].pick = "Approve")
    BY <1>4, <2>2 DEF RunIsRecorded
  <2> QED
    BY <2>1, <2>2
<1>8. WinnerIsRecorded'
  <2>1. \A b \in Answers : answer'[b].flipped => b # a /\ answer'[b] = answer[b] /\ answer[b].flipped
    BY <1>2, <1>3
  <2>2. ASSUME NEW b \in Answers, answer'[b].flipped
        PROVE  ran'[answer[b].of] = ran[answer[b].of] /\ ran[answer[b].of] = 0
    BY <1>1, <1>4, <2>1, <2>2 DEF WinnerIsRecorded
  <2>3. \A b \in Answers : answer'[b].step \in {"flipping", "handing", "delivering"} => answer'[b] = answer[b]
    BY <1>2, <1>3
  <2> QED
    BY <1>1, <2>1, <2>2, <2>3 DEF WinnerIsRecorded
<1> QED
  BY <1>5, <1>6, <1>7, <1>8
-----------------------------------------------------------------------------
LEMMA TakeBackPreserves ==
  ASSUME GatesInv, NEW g \in Asks, TakeBack(g)
  PROVE  GatesInv'
<1> USE DEF GatesInv
<1>1. /\ UNCHANGED <<askVars, trayRow, openGates, answer, ran, cutOff>>
      /\ ask[g].step = "open" /\ mishaps' \in 0..MaxMishaps
      /\ withdrawal' = [of |-> g, step |-> "taken", lifts |-> RowIs(g, "pending")]
      /\ parkedAsk' \subseteq Asks
      /\ waiter' \in [Asks -> {"none", "waiting", "gone", "Approve", "Reject"}]
  BY GatesAssumption, HangsUpKeepsType DEF TakeBack, GatesTypeOK
<1>2. withdrawal' \in WithdrawalRecords /\ withdrawal'.of = g /\ withdrawal'.step = "taken"
  BY <1>1 DEF WithdrawalRecords, RowIs
<1>3. GatesTypeOK'
  BY <1>1, <1>2 DEF GatesTypeOK, askVars, WithdrawalRecords
<1>4. RowComesLater' /\ ReplacedIsSettled' /\ PendingGateHolds' /\ RunIsRecorded' /\ WinnerIsRecorded'
  BY <1>1 DEF RowComesLater, ReplacedIsSettled, PendingGateHolds, RunIsRecorded, WinnerIsRecorded,
     RowIs, askVars
<1>5. WithdrawnIsOpen'
  BY <1>1, <1>2 DEF WithdrawnIsOpen, askVars
<1> QED
  BY <1>3, <1>4, <1>5

LEMMA MarkPreserves ==
  ASSUME GatesInv, MarkWithdrawn
  PROVE  GatesInv'
<1> USE DEF GatesInv
<1> DEFINE g == withdrawal.of
<1>1. /\ UNCHANGED <<askVars, parkedAsk, waiter, openGates, answer, ran, cutOff, mishaps>>
      /\ withdrawal.step = "taken" /\ g \in Asks /\ ask[g].step = "open"
      /\ withdrawal' = [withdrawal EXCEPT !.step = "marked"]
      /\ Settle(g, "withdrawn", Unpicked)
  BY DEF MarkWithdrawn, WithdrawnIsOpen
<1>2. withdrawal' \in WithdrawalRecords /\ withdrawal'.of = g /\ withdrawal'.step = "marked"
  BY <1>1 DEF WithdrawalRecords, GatesTypeOK
<1>3. /\ trayRow' \in [Asks -> RowRecords]
      /\ \A h \in Asks : h # g \/ ~RowIs(g, "pending") => trayRow'[h] = trayRow[h]
      /\ RowIs(g, "pending") => trayRow'[g] = [status |-> "withdrawn", picked |-> Unpicked]
  BY <1>1, SettleOnly DEF RowStates
<1>4. GatesTypeOK'
  BY <1>1, <1>2, <1>3 DEF GatesTypeOK, askVars, WithdrawalRecords, RowRecords
<1>5. RowComesLater' /\ ReplacedIsSettled' /\ PendingGateHolds' /\ RunIsRecorded' /\ WinnerIsRecorded'
  <2>1. \A h \in Asks : \/ trayRow'[h] = trayRow[h]
                        \/ RowIs(h, "pending") /\ trayRow'[h].status = "withdrawn"
    BY <1>1, <1>3
  <2>2. RowComesLater' /\ ReplacedIsSettled' /\ PendingGateHolds'
    BY <1>1, <2>1 DEF RowComesLater, ReplacedIsSettled, PendingGateHolds, RowIs, askVars
  <2>3. RunIsRecorded' /\ WinnerIsRecorded'
    BY <1>1, <2>1 DEF RunIsRecorded, WinnerIsRecorded, RowIs
  <2> QED
    BY <2>2, <2>3
<1>6. WithdrawnIsOpen'
  BY <1>1, <1>2, <1>3 DEF WithdrawnIsOpen, RowIs, askVars
<1> QED
  BY <1>4, <1>5, <1>6

LEMMA LiftPreserves ==
  ASSUME GatesInv, LiftWithdrawn
  PROVE  GatesInv'
<1> USE DEF GatesInv
<1>1. /\ UNCHANGED <<askVars, trayRow, parkedAsk, waiter, answer, ran, cutOff, mishaps>>
      /\ withdrawal.step = "marked" /\ ~RowIs(withdrawal.of, "pending")
      /\ withdrawal' = NoWithdrawal
      /\ openGates' \in {openGates, openGates \ {withdrawal.of}}
  BY DEF LiftWithdrawn, WithdrawnIsOpen
<1>2. withdrawal' \in WithdrawalRecords /\ withdrawal'.step = "none"
  BY <1>1 DEF WithdrawalRecords, NoWithdrawal
<1>3. GatesTypeOK'
  BY <1>1, <1>2 DEF GatesTypeOK, askVars, WithdrawalRecords
<1>4. RowComesLater' /\ ReplacedIsSettled' /\ RunIsRecorded' /\ WinnerIsRecorded' /\ WithdrawnIsOpen'
  BY <1>1, <1>2 DEF RowComesLater, ReplacedIsSettled, RunIsRecorded, WinnerIsRecorded,
     WithdrawnIsOpen, RowIs, askVars
<1>5. PendingGateHolds'
  BY <1>1 DEF PendingGateHolds, RowIs, askVars
<1> QED
  BY <1>3, <1>4, <1>5

LEMMA RestartPreserves ==
  ASSUME GatesInv, RestartHost
  PROVE  GatesInv'
<1> USE DEF GatesInv
<1>1. /\ UNCHANGED <<asked, trayRow, ran>>
      /\ parkedAsk' = {} /\ withdrawal' = NoWithdrawal /\ mishaps' \in 0..MaxMishaps
      /\ cutOff' \subseteq Asks
      /\ waiter' \in [Asks -> {"none", "waiting", "gone", "Approve", "Reject"}]
      /\ openGates' = {g \in Asks : RowIs(g, "pending")}
  BY GatesAssumption DEF RestartHost, GatesTypeOK
<1>2. /\ ask' \in [Asks -> AskRecords]
      /\ \A g \in Asks : ask'[g].step = IF g <= asked THEN "open" ELSE ask[g].step
  <2>1. ask \in [Asks -> AskRecords]
    BY DEF GatesTypeOK, AskRecords
  <2>2. ASSUME NEW g \in Asks, NEW step \in AskSteps
        PROVE  /\ [ask[g] EXCEPT !.step = step] \in AskRecords
               /\ [ask[g] EXCEPT !.step = step].step = step
    BY <2>1 DEF AskRecords
  <2>3. \A g \in Asks : (IF g <= asked THEN "open" ELSE ask[g].step) \in AskSteps
    BY <2>1 DEF AskRecords, AskSteps
  <2>4. ask' = [g \in Asks |-> [ask[g] EXCEPT !.step = IF g <= asked THEN "open" ELSE ask[g].step]]
    BY DEF RestartHost
  <2> QED
    BY <2>2, <2>3, <2>4
<1>3. answer' \in [Answers -> {NoAnswer, Handled}]
  BY DEF RestartHost
<1>4. /\ NoAnswer \in AnswerRecords /\ NoAnswer.step = "free" /\ ~NoAnswer.flipped
      /\ Handled \in AnswerRecords /\ Handled.step = "done" /\ ~Handled.flipped
  BY DEF Handled, NoAnswer, AnswerRecords
<1>5. withdrawal' \in WithdrawalRecords /\ withdrawal'.step = "none"
  BY <1>1 DEF WithdrawalRecords, NoWithdrawal
<1>6. GatesTypeOK'
  <2>1. answer' \in [Answers -> AnswerRecords]
    BY <1>3, <1>4
  <2> QED
    BY <1>1, <1>2, <1>5, <2>1 DEF GatesTypeOK, AskRecords, AnswerRecords, WithdrawalRecords
<1>7. \A g \in Asks : ask'[g].step \in BeforeTheRow => g > asked /\ ask'[g].step = ask[g].step
  BY <1>2, AsksArePositive DEF BeforeTheRow, GatesTypeOK
<1>8. RowComesLater'
  BY <1>1, <1>2, <1>7, AsksArePositive DEF RowComesLater, RowIs, GatesTypeOK
<1>9. ReplacedIsSettled'
  BY <1>7 DEF ReplacedIsSettled, RowComesLater, BeforeTheRow
<1>10. WithdrawnIsOpen' /\ PendingGateHolds'
  BY <1>1, <1>5 DEF WithdrawnIsOpen, PendingGateHolds, RowIs
<1>11. WinnerIsRecorded' /\ RunIsRecorded'
  BY <1>1, <1>3, <1>4 DEF WinnerIsRecorded, RunIsRecorded
<1> QED
  BY <1>6, <1>8, <1>9, <1>10, <1>11

LEMMA GatesNextPreserves == GatesInv /\ [GatesNext]_gatesVars => GatesInv'
<1> SUFFICES ASSUME GatesInv, [GatesNext]_gatesVars PROVE GatesInv'
  OBVIOUS
<1>1. CASE \E kind \in AskKinds : AskNew(kind)
  BY <1>1, AskNewPreserves
<1>2. CASE \E g \in Asks : AskProceeds(g) \/ HookDies(g) \/ TakeBack(g)
  BY <1>2, AskProceedsPreserves, HookDiesPreserves, TakeBackPreserves
<1>3. CASE \E a \in Answers : AnswerProceeds(a) \/ \E g \in Asks, pick \in Verdicts : Click(a, g, pick)
  BY <1>3, FlipPreserves, HandInPreserves, DeliverPreserves, ClickPreserves DEF AnswerProceeds
<1>4. CASE WithdrawalProceeds
  BY <1>4, MarkPreserves, LiftPreserves DEF WithdrawalProceeds
<1>5. CASE RestartHost
  BY <1>5, RestartPreserves
<1>6. CASE UNCHANGED gatesVars
  BY <1>6 DEF gatesVars, askVars, GatesInv, GatesTypeOK, RowComesLater, ReplacedIsSettled,
     WithdrawnIsOpen, WinnerIsRecorded, RunIsRecorded, PendingGateHolds, RowIs
<1> QED
  BY <1>1, <1>2, <1>3, <1>4, <1>5, <1>6 DEF GatesNext
-----------------------------------------------------------------------------
\* The inductive invariant.
LEMMA GatesInvAlways == GatesSpec => []GatesInv
<1> QED
  BY GatesInitEstablishes, GatesNextPreserves, PTL DEF GatesSpec

\* The variables of the gates have their types.
THEOREM GatesTypeCorrect == GatesSpec => []GatesTypeOK
<1>1. GatesInv => GatesTypeOK
  BY DEF GatesInv
<1> QED
  BY <1>1, GatesInvAlways, PTL

\* However a gate is answered, withdrawn, asked again and cut by restarts, its command runs once
\* at most, and only when the row records the approval (resolve_choice, answer_tray_entry).
THEOREM ApprovedRunsOnce == GatesSpec => []RunsOnceIfApproved
<1>1. GatesInv => RunsOnceIfApproved
  <2> SUFFICES ASSUME GatesInv, NEW g \in Asks
               PROVE  ran[g] <= 1 /\ (ran[g] = 1 => trayRow[g].picked = "Approve")
    BY DEF RunsOnceIfApproved
  <2>1. CASE ran[g] = 0
    BY <2>1
  <2>2. CASE ran[g] # 0
    BY <2>2 DEF GatesInv, RunIsRecorded
  <2> QED
    BY <2>1, <2>2
<1> QED
  BY <1>1, GatesInvAlways, PTL

\* The ring's latch holds every gate the user can see and has not answered, also after a
\* restart (add_open_gate, lift_gate, pending_gate_ids).
THEOREM LatchHoldsPendingGates == GatesSpec => []PendingGateHolds
<1>1. GatesInv => PendingGateHolds
  BY DEF GatesInv
<1> QED
  BY <1>1, GatesInvAlways, PTL
-----------------------------------------------------------------------------
(* Phase votes *)

VotesStand == \A v \in phaseVotes : v.ballot \in standing[v.by]

\* A call that has begun names a phase, and so does a move.
CallsHaveTargets == \A p \in Voters : phaseCall[p].step # "idle" => phaseCall[p].target \in Phases
MovesHaveTargets == moving.step # "no" => moving.target \in Phases

VoteInv == VoteTypeOK /\ VotesStand /\ CallsHaveTargets /\ MovesHaveTargets

VoteCalls == [step : CallStates, target : Phases \cup {NoTarget}, epoch : Nat, docs : Fingerprints]

LEMMA NoCallIsACall == NoPhaseCall \in VoteCalls /\ NoPhaseCall.step = "idle"
  BY DEF NoPhaseCall, VoteCalls, CallStates, NoTarget, Fingerprints

\* A storage call that works or fails keeps the count of the failures within its bound.
LEMMA FaultsStayBounded ==
  ASSUME VoteInv, Works \/ Fails
  PROVE  voteFaults' \in 0..MaxVoteFaults
<1>1. voteFaults \in 0..MaxVoteFaults /\ MaxVoteFaults \in Nat
  BY VoteAssumption DEF VoteInv, VoteTypeOK
<1>2. CASE Works
  BY <1>1, <1>2 DEF Works
<1>3. CASE Fails
  BY <1>1, <1>3 DEF Fails
<1> QED
  BY <1>2, <1>3

LEMMA VoteInitEstablishes == VoteInit => VoteInv
<1> SUFFICES ASSUME VoteInit PROVE VoteInv
  OBVIOUS
<1>1. phaseCall \in [Voters -> VoteCalls] /\ CallsHaveTargets
  BY NoCallIsACall DEF VoteInit, CallsHaveTargets
<1>2. moving \in [step : {"no", "stored", "bumping"}, target : Phases \cup {NoTarget}] /\ MovesHaveTargets
  BY DEF VoteInit, NotMoving, NoTarget, MovesHaveTargets
<1>3. standing \in [Voters -> SUBSET Ballots] /\ unvoted \in BOOLEAN
  BY DEF VoteInit
<1>4. /\ calls \in 0..MaxCalls /\ edits \in 0..MaxEdits /\ picks \in 0..MaxPicks
      /\ voteFaults \in 0..MaxVoteFaults
  BY VoteAssumption DEF VoteInit
<1>5. phase \in Phases /\ storedPhase \in Phases /\ phaseEpoch \in Nat /\ docs \in Nat
      /\ phaseVotes \subseteq Votes /\ VotesStand
  BY DEF VoteInit, VotesStand
<1>6. advances \in Seq(Phases)
  BY DEF VoteInit
<1> QED
  BY <1>1, <1>2, <1>3, <1>4, <1>5, <1>6 DEF VoteInv, VoteTypeOK, VoteCalls

\* A call moves on: the state it moves to is a call, and the others keep theirs.
LEMMA CallMovesOn ==
  ASSUME VoteInv, NEW p \in Voters, NEW c \in VoteCalls, c.step # "idle" => c.target \in Phases,
         phaseCall' = [phaseCall EXCEPT ![p] = c]
  PROVE  phaseCall' \in [Voters -> VoteCalls] /\ CallsHaveTargets'
<1>1. phaseCall \in [Voters -> VoteCalls]
  BY DEF VoteInv, VoteTypeOK, VoteCalls
<1>2. phaseCall' \in [Voters -> VoteCalls]
  BY <1>1
<1>3. \A q \in Voters : phaseCall'[q] = IF q = p THEN c ELSE phaseCall[q]
  BY <1>1
<1> QED
  BY <1>2, <1>3 DEF VoteInv, CallsHaveTargets

\* The ballot of a call that has read what it asks about.
LEMMA BallotIsABallot ==
  ASSUME VoteInv, NEW p \in Voters, phaseCall[p].step # "idle"
  PROVE  BallotOf(p) \in Ballots
<1>1. phaseCall[p] \in VoteCalls /\ phaseCall[p].target \in Phases
  BY DEF VoteInv, VoteTypeOK, CallsHaveTargets, VoteCalls
<1> QED
  BY <1>1 DEF BallotOf, Ballots, VoteCalls

LEMMA CallStepPreserves ==
  ASSUME VoteInv, NEW p \in Voters,
         (\E t \in Phases : CallAdvance(p, t)) \/ ReadEpoch(p) \/ ReadFingerprint(p)
  PROVE  VoteInv'
<1>0. phaseCall \in [Voters -> VoteCalls] /\ phaseCall[p] \in VoteCalls
  BY DEF VoteInv, VoteTypeOK, VoteCalls
<1>1. PICK c \in VoteCalls : /\ phaseCall' = [phaseCall EXCEPT ![p] = c]
                             /\ c.step # "idle" => c.target \in Phases
  <2>1. CASE \E t \in Phases : CallAdvance(p, t)
    <3>1. PICK t \in Phases : CallAdvance(p, t)
      BY <2>1
    <3>2. [NoPhaseCall EXCEPT !.step = "called", !.target = t] \in VoteCalls
      BY DEF VoteCalls, NoPhaseCall, CallStates, Fingerprints
    <3>3. [NoPhaseCall EXCEPT !.step = "called", !.target = t].target = t
      BY DEF NoPhaseCall
    <3> QED
      BY <3>1, <3>2, <3>3 DEF CallAdvance
  <2>2. CASE ReadEpoch(p)
    <3>0. PICK read \in {phaseEpoch, 0} :
             phaseCall' = [phaseCall EXCEPT ![p].step = "readEpoch", ![p].epoch = read]
      BY <2>2 DEF ReadEpoch
    <3> DEFINE c == [phaseCall[p] EXCEPT !.step = "readEpoch", !.epoch = read]
    <3>1. c \in VoteCalls /\ c.target = phaseCall[p].target
      <4>1. read \in Nat
        BY DEF VoteInv, VoteTypeOK
      <4> QED
        BY <1>0, <4>1 DEF VoteCalls, CallStates
    <3>2. phaseCall[p].target \in Phases
      BY <2>2 DEF ReadEpoch, VoteInv, CallsHaveTargets
    <3>3. phaseCall' = [phaseCall EXCEPT ![p] = c]
      BY <1>0, <3>0 DEF VoteCalls
    <3> QED
      BY <3>1, <3>2, <3>3
  <2>3. CASE ReadFingerprint(p)
    <3>0. PICK read \in {docs, Unread} :
             phaseCall' = [phaseCall EXCEPT ![p].step = "readDocs", ![p].docs = read]
      BY <2>3 DEF ReadFingerprint
    <3> DEFINE c == [phaseCall[p] EXCEPT !.step = "readDocs", !.docs = read]
    <3>1. c \in VoteCalls /\ c.target = phaseCall[p].target
      <4>1. read \in Fingerprints
        BY DEF Fingerprints, VoteInv, VoteTypeOK
      <4> QED
        BY <1>0, <4>1 DEF VoteCalls, CallStates
    <3>2. phaseCall[p].target \in Phases
      BY <2>3 DEF ReadFingerprint, VoteInv, CallsHaveTargets
    <3>3. phaseCall' = [phaseCall EXCEPT ![p] = c]
      BY <1>0, <3>0 DEF VoteCalls
    <3> QED
      BY <3>1, <3>2, <3>3
  <2> QED
    BY <2>1, <2>2, <2>3
<1>2. phaseCall' \in [Voters -> VoteCalls] /\ CallsHaveTargets'
  <2>1. /\ c \in VoteCalls /\ (c.step # "idle" => c.target \in Phases)
        /\ phaseCall' = [phaseCall EXCEPT ![p] = c]
    BY <1>1
  <2> QED
    BY <2>1, CallMovesOn
<1>3. calls' \in 0..MaxCalls
  <2>1. calls \in 0..MaxCalls /\ MaxCalls \in Nat
    BY VoteAssumption DEF VoteInv, VoteTypeOK
  <2>2. calls' = calls \/ (calls < MaxCalls /\ calls' = calls + 1)
    BY DEF CallAdvance, ReadEpoch, ReadFingerprint, workBounds
  <2>3. CASE calls' = calls
    BY <2>1, <2>3
  <2>4. CASE calls < MaxCalls /\ calls' = calls + 1
    BY <2>1, <2>4
  <2> QED
    BY <2>2, <2>3, <2>4
<1>4. UNCHANGED <<phase, storedPhase, moving, phaseEpoch, phaseVotes, docs, advances, standing,
                  unvoted, edits, picks>>
  BY DEF CallAdvance, ReadEpoch, ReadFingerprint, phaseVars, tableVars, workBounds
<1>5. VotesStand' /\ MovesHaveTargets'
  BY <1>4 DEF VoteInv, VotesStand, MovesHaveTargets
<1>6. voteFaults' \in 0..MaxVoteFaults
  BY FaultsStayBounded DEF CallAdvance, ReadEpoch, ReadFingerprint, Works
<1>7. VoteTypeOK'
  BY <1>2, <1>3, <1>4, <1>6 DEF VoteInv, VoteTypeOK, VoteCalls
<1> QED
  BY <1>2, <1>5, <1>7 DEF VoteInv

LEMMA UnvotedPreserves ==
  ASSUME VoteInv, NEW t \in Phases, AdvanceUnvoted(t)
  PROVE  VoteInv'
<1>1. advances' \in Seq(Phases) /\ unvoted' \in BOOLEAN
  BY DEF AdvanceUnvoted, VoteInv, VoteTypeOK
<1>2. calls' \in 0..MaxCalls
  BY VoteAssumption DEF AdvanceUnvoted, VoteInv, VoteTypeOK
<1>3. voteFaults' \in 0..MaxVoteFaults
  BY FaultsStayBounded DEF AdvanceUnvoted
<1>4. UNCHANGED <<phase, storedPhase, moving, phaseEpoch, phaseVotes, docs, phaseCall, standing,
                  edits, picks>>
  BY DEF AdvanceUnvoted, phaseVars, tableVars
<1>5. VotesStand' /\ CallsHaveTargets' /\ MovesHaveTargets'
  BY <1>4 DEF VoteInv, VotesStand, CallsHaveTargets, MovesHaveTargets
<1>6. VoteTypeOK'
  BY <1>1, <1>2, <1>3, <1>4 DEF VoteInv, VoteTypeOK
<1> QED
  BY <1>5, <1>6 DEF VoteInv

\* Whether the vote was written or not, the call goes on to the count.
LEMMA CastGoesOn ==
  ASSUME VoteInv, NEW p \in Voters, CastPhaseVote(p),
         phaseVotes' \subseteq Votes, VotesStand', standing' \in [Voters -> SUBSET Ballots]
  PROVE  VoteInv'
<1>0. phaseCall \in [Voters -> VoteCalls] /\ phaseCall[p] \in VoteCalls
  BY DEF VoteInv, VoteTypeOK, VoteCalls
<1>1. phaseCall' \in [Voters -> VoteCalls] /\ CallsHaveTargets'
  <2> DEFINE c == [phaseCall[p] EXCEPT !.step = "cast"]
  <2>1. c \in VoteCalls /\ c.target = phaseCall[p].target
    BY <1>0 DEF VoteCalls, CallStates
  <2>2. phaseCall[p].target \in Phases
    BY DEF CastPhaseVote, VoteInv, CallsHaveTargets
  <2>3. phaseCall' = [phaseCall EXCEPT ![p] = c]
    BY <1>0 DEF CastPhaseVote, VoteCalls
  <2> QED
    BY <2>1, <2>2, <2>3, CallMovesOn
<1>2. UNCHANGED <<phase, storedPhase, moving, phaseEpoch, docs, advances, unvoted, calls, edits, picks>>
  BY DEF CastPhaseVote, phaseVars, workBounds
<1>3. voteFaults' \in 0..MaxVoteFaults
  BY FaultsStayBounded DEF CastPhaseVote
<1>4. MovesHaveTargets'
  BY <1>2 DEF VoteInv, MovesHaveTargets
<1>5. VoteTypeOK'
  BY <1>1, <1>2, <1>3 DEF VoteInv, VoteTypeOK, VoteCalls
<1> QED
  BY <1>1, <1>4, <1>5 DEF VoteInv

LEMMA CastPreserves ==
  ASSUME VoteInv, NEW p \in Voters, CastPhaseVote(p)
  PROVE  VoteInv'
<1> DEFINE vote == [by |-> p, ballot |-> BallotOf(p), epoch |-> phaseCall[p].epoch]
<1>0. phaseCall \in [Voters -> VoteCalls] /\ phaseCall[p] \in VoteCalls
  BY DEF VoteInv, VoteTypeOK, VoteCalls
<1>1. BallotOf(p) \in Ballots
  BY BallotIsABallot DEF CastPhaseVote
<1>2. vote \in Votes /\ vote.by = p /\ vote.ballot = BallotOf(p)
  BY <1>0, <1>1 DEF Votes, VoteCalls
<1>3. phaseVotes \subseteq Votes /\ standing \in [Voters -> SUBSET Ballots]
  BY DEF VoteInv, VoteTypeOK
<1>4. CASE UNCHANGED <<phaseVotes, standing>>
  <2>1. phaseVotes' \subseteq Votes /\ VotesStand' /\ standing' \in [Voters -> SUBSET Ballots]
    BY <1>3, <1>4 DEF VoteInv, VotesStand
  <2> QED
    BY <2>1, CastGoesOn
<1>5. CASE /\ phaseVotes' = phaseVotes \cup {vote}
           /\ standing' = [standing EXCEPT ![p] = standing[p] \cup {BallotOf(p)}]
  <2> HIDE DEF vote
  <2>1. /\ standing' \in [Voters -> SUBSET Ballots] /\ BallotOf(p) \in standing'[p]
        /\ \A q \in Voters : standing[q] \subseteq standing'[q]
    BY <1>1, <1>3, <1>5
  <2>2. phaseVotes' \subseteq Votes
    BY <1>2, <1>3, <1>5
  <2>3. ASSUME NEW v \in phaseVotes' PROVE v.ballot \in standing'[v.by]
    <3>1. CASE v = vote
      BY <1>2, <2>1, <3>1
    <3>2. CASE v \in phaseVotes
      <4>1. v.by \in Voters /\ v.ballot \in standing[v.by]
        BY <1>3, <3>2 DEF VoteInv, VotesStand, Votes
      <4> QED
        BY <2>1, <4>1
    <3> QED
      BY <1>5, <3>1, <3>2
  <2>4. VotesStand'
    BY <2>3 DEF VotesStand
  <2> QED
    BY <2>1, <2>2, <2>4, CastGoesOn
<1> QED
  BY <1>4, <1>5 DEF CastPhaseVote

LEMMA CountPreserves ==
  ASSUME VoteInv, NEW p \in Voters, CountPhaseVotes(p)
  PROVE  VoteInv'
<1>1. phaseCall' \in [Voters -> VoteCalls] /\ CallsHaveTargets'
  BY NoCallIsACall, CallMovesOn DEF CountPhaseVotes
<1>2. advances' \in Seq(Phases) /\ unvoted' \in BOOLEAN
  <2>1. phaseCall[p].target \in Phases /\ advances \in Seq(Phases) /\ unvoted \in BOOLEAN
    BY DEF CountPhaseVotes, VoteInv, VoteTypeOK, CallsHaveTargets
  <2>2. Append(advances, phaseCall[p].target) \in Seq(Phases)
    BY <2>1
  <2>3. \/ advances' = Append(advances, phaseCall[p].target) /\ unvoted' = FALSE
        \/ UNCHANGED <<advances, unvoted>>
    BY DEF CountPhaseVotes
  <2> QED
    BY <2>1, <2>2, <2>3
<1>3. UNCHANGED <<phase, storedPhase, moving, phaseEpoch, phaseVotes, docs, standing, calls, edits, picks>>
  BY DEF CountPhaseVotes, phaseVars, tableVars, workBounds
<1>4. VotesStand' /\ MovesHaveTargets'
  BY <1>3 DEF VoteInv, VotesStand, MovesHaveTargets
<1>5. VoteTypeOK'
  <2>1. voteFaults' \in 0..MaxVoteFaults
    BY FaultsStayBounded DEF CountPhaseVotes
  <2> QED
    BY <1>1, <1>2, <1>3, <2>1 DEF VoteInv, VoteTypeOK, VoteCalls
<1> QED
  BY <1>1, <1>4, <1>5 DEF VoteInv

LEMMA PassPreserves ==
  ASSUME VoteInv, NEW p \in Voters, Pass(p)
  PROVE  VoteInv'
<1>1. /\ standing' \in [Voters -> SUBSET Ballots]
      /\ \A q \in Voters : q # p => standing'[q] = standing[q]
  BY DEF Pass, VoteInv, VoteTypeOK
<1>2. phaseVotes' \subseteq Votes /\ VotesStand'
  <2>1. phaseVotes' \subseteq phaseVotes /\ phaseVotes \subseteq Votes
    BY DEF Pass, VoteInv, VoteTypeOK
  <2>2. ASSUME NEW v \in phaseVotes' PROVE v.ballot \in standing'[v.by]
    <3>1. v \in phaseVotes /\ v.by # p /\ v.by \in Voters
      BY <2>1 DEF Pass, Votes
    <3> QED
      BY <1>1, <3>1 DEF VoteInv, VotesStand
  <2> QED
    BY <2>1, <2>2 DEF VotesStand
<1>3. UNCHANGED <<phase, storedPhase, moving, phaseEpoch, docs, phaseCall, advances, unvoted, calls,
                  edits, picks, voteFaults>>
  BY DEF Pass, phaseVars, voteBounds, workBounds
<1>4. CallsHaveTargets' /\ MovesHaveTargets'
  BY <1>3 DEF VoteInv, CallsHaveTargets, MovesHaveTargets
<1>5. VoteTypeOK'
  BY <1>1, <1>2, <1>3 DEF VoteInv, VoteTypeOK
<1> QED
  BY <1>2, <1>4, <1>5 DEF VoteInv

\* The transition and the restart.
LEMMA MovePreserves ==
  ASSUME VoteInv, BeginMove \/ StorePhase \/ BumpPhaseEpoch \/ RestartPhase
  PROVE  VoteInv'
<1> DEFINE Moves == [step : {"no", "stored", "bumping"}, target : Phases \cup {NoTarget}]
<1>0. moving \in Moves /\ NotMoving \in Moves /\ NotMoving.step = "no"
  BY DEF VoteInv, VoteTypeOK, NotMoving
<1>1. CASE BeginMove
  <2>1. \E t \in Phases : moving' = [step |-> "stored", target |-> t]
    <3>1. CASE advances # <<>> /\ moving' = [step |-> "stored", target |-> Head(advances)]
      BY <3>1 DEF VoteInv, VoteTypeOK
    <3>2. CASE \E t \in Phases : moving' = [step |-> "stored", target |-> t]
      BY <3>2
    <3> QED
      BY <1>1, <3>1, <3>2 DEF BeginMove
  <2>2. moving' \in Moves /\ moving'.target \in Phases /\ MovesHaveTargets'
    BY <2>1 DEF MovesHaveTargets
  <2>3. phase' \in Phases
    BY <1>1, <2>2 DEF BeginMove
  <2>4. advances' \in Seq(Phases)
    <3>1. advances \in Seq(Phases)
      BY DEF VoteInv, VoteTypeOK
    <3>2. advances # <<>> => Tail(advances) \in Seq(Phases)
      BY <3>1
    <3>3. (advances' = Tail(advances) /\ advances # <<>>) \/ advances' = advances
      BY <1>1 DEF BeginMove
    <3> QED
      BY <3>1, <3>2, <3>3
  <2>5. picks' \in 0..MaxPicks
    BY <1>1, VoteAssumption DEF BeginMove, VoteInv, VoteTypeOK
  <2>6. UNCHANGED <<storedPhase, phaseEpoch, phaseVotes, docs, phaseCall, standing, unvoted, calls, edits,
                    voteFaults>>
    BY <1>1 DEF BeginMove, tableVars
  <2>7. VotesStand' /\ CallsHaveTargets'
    BY <2>6 DEF VoteInv, VotesStand, CallsHaveTargets
  <2>8. VoteTypeOK'
    BY <2>2, <2>3, <2>4, <2>5, <2>6 DEF VoteInv, VoteTypeOK
  <2> QED
    BY <2>2, <2>7, <2>8 DEF VoteInv
<1>2. CASE StorePhase
  <2>1. moving.target \in Phases
    BY <1>2 DEF StorePhase, VoteInv, MovesHaveTargets
  <2>2. moving' \in Moves /\ moving'.target = moving.target
    BY <1>0, <1>2 DEF StorePhase
  <2>3. storedPhase' \in Phases /\ MovesHaveTargets'
    BY <1>2, <2>1, <2>2 DEF StorePhase, MovesHaveTargets
  <2>4. UNCHANGED <<phase, phaseEpoch, phaseVotes, docs, phaseCall, advances, standing, unvoted, calls,
                    edits, picks, voteFaults>>
    BY <1>2 DEF StorePhase, tableVars, voteBounds, workBounds
  <2>5. VotesStand' /\ CallsHaveTargets'
    BY <2>4 DEF VoteInv, VotesStand, CallsHaveTargets
  <2>6. VoteTypeOK'
    BY <2>2, <2>3, <2>4 DEF VoteInv, VoteTypeOK
  <2> QED
    BY <2>3, <2>5, <2>6 DEF VoteInv
<1>3. CASE BumpPhaseEpoch
  <2>1. moving' \in Moves /\ MovesHaveTargets'
    BY <1>0, <1>3 DEF BumpPhaseEpoch, MovesHaveTargets
  <2>2. phaseVotes' \subseteq Votes /\ VotesStand' /\ standing' \in [Voters -> SUBSET Ballots]
    BY <1>3 DEF BumpPhaseEpoch, VotesStand
  <2>3. phaseEpoch' \in Nat
    BY <1>3 DEF BumpPhaseEpoch, VoteInv, VoteTypeOK
  <2>4. UNCHANGED <<phase, storedPhase, docs, phaseCall, advances, unvoted, calls, edits, picks,
                    voteFaults>>
    BY <1>3 DEF BumpPhaseEpoch, voteBounds, workBounds
  <2>5. CallsHaveTargets'
    BY <2>4 DEF VoteInv, CallsHaveTargets
  <2>6. VoteTypeOK'
    BY <2>1, <2>2, <2>3, <2>4 DEF VoteInv, VoteTypeOK
  <2> QED
    BY <2>1, <2>2, <2>5, <2>6 DEF VoteInv
<1>4. CASE RestartPhase
  <2>1. moving' \in Moves /\ MovesHaveTargets'
    BY <1>0, <1>4 DEF RestartPhase, MovesHaveTargets
  <2>2. phaseCall' \in [Voters -> VoteCalls] /\ CallsHaveTargets'
    BY <1>4, NoCallIsACall DEF RestartPhase, CallsHaveTargets
  <2>3. phase' \in Phases /\ advances' \in Seq(Phases)
    BY <1>4 DEF RestartPhase, VoteInv, VoteTypeOK
  <2>4. picks' \in 0..MaxPicks
    BY <1>4, VoteAssumption DEF RestartPhase, VoteInv, VoteTypeOK
  <2>5. UNCHANGED <<storedPhase, phaseEpoch, phaseVotes, docs, standing, unvoted, calls, edits, voteFaults>>
    BY <1>4 DEF RestartPhase, tableVars
  <2>6. VotesStand'
    BY <2>5 DEF VoteInv, VotesStand
  <2>7. VoteTypeOK'
    BY <2>1, <2>2, <2>3, <2>4, <2>5 DEF VoteInv, VoteTypeOK, VoteCalls
  <2> QED
    BY <2>1, <2>2, <2>6, <2>7 DEF VoteInv
<1> QED
  BY <1>1, <1>2, <1>3, <1>4

LEMMA VoteNextPreserves == VoteInv /\ [VoteNext]_voteVars => VoteInv'
<1> SUFFICES ASSUME VoteInv, [VoteNext]_voteVars PROVE VoteInv'
  OBVIOUS
<1>1. CASE \E p \in Voters : (\E t \in Phases : CallAdvance(p, t)) \/ ReadEpoch(p) \/ ReadFingerprint(p)
  BY <1>1, CallStepPreserves
<1>2. CASE \E p \in Voters : CastPhaseVote(p)
  BY <1>2, CastPreserves
<1>3. CASE \E p \in Voters : CountPhaseVotes(p)
  BY <1>3, CountPreserves
<1>4. CASE \E p \in Voters : Pass(p)
  BY <1>4, PassPreserves
<1>5. CASE EditPhaseDoc
  <2>1. /\ edits' \in 0..MaxEdits /\ docs' \in Nat
        /\ UNCHANGED <<phase, storedPhase, moving, phaseEpoch, phaseVotes, phaseCall, advances,
                       standing, unvoted, calls, picks, voteFaults>>
    BY <1>5, VoteAssumption DEF EditPhaseDoc, VoteInv, VoteTypeOK, phaseVars, tableVars
  <2>2. VotesStand' /\ CallsHaveTargets' /\ MovesHaveTargets'
    BY <2>1 DEF VoteInv, VotesStand, CallsHaveTargets, MovesHaveTargets
  <2> QED
    BY <2>1, <2>2 DEF VoteInv, VoteTypeOK
<1>6. CASE BeginMove \/ StorePhase \/ BumpPhaseEpoch \/ RestartPhase
  BY <1>6, MovePreserves
<1>7. CASE \E t \in Phases : AdvanceUnvoted(t)
  BY <1>7, UnvotedPreserves
<1>8. CASE UNCHANGED voteVars
  BY <1>8 DEF voteVars, VoteInv, VoteTypeOK, VotesStand, CallsHaveTargets, MovesHaveTargets
<1> QED
  BY <1>1, <1>2, <1>3, <1>4, <1>5, <1>6, <1>7, <1>8 DEF VoteNext
-----------------------------------------------------------------------------
\* The inductive invariant.
LEMMA VoteInvAlways == VoteSpec => []VoteInv
<1> QED
  BY VoteInitEstablishes, VoteNextPreserves, PTL DEF VoteSpec

\* The variables of the phase vote have their types.
THEOREM VoteTypeCorrect == VoteSpec => []VoteTypeOK
<1>1. VoteInv => VoteTypeOK
  BY DEF VoteInv
<1> QED
  BY <1>1, VoteInvAlways, PTL

\* A step that sends an advance is a complete count, or the caller was not found.
LEMMA AdvanceStepIsUnanimous ==
  ASSUME VoteInv, [VoteNext]_voteVars, Len(advances') > Len(advances)
  PROVE  unvoted' \/ Unanimous(advances'[Len(advances')])
<1>0. advances \in Seq(Phases)
  BY DEF VoteInv, VoteTypeOK
<1>1. CASE \E t \in Phases : AdvanceUnvoted(t)
  BY <1>1 DEF AdvanceUnvoted
<1>2. CASE \E q \in Voters : CountPhaseVotes(q)
  <2>1. PICK p \in Voters : CountPhaseVotes(p)
    BY <1>2
  <2>2. AllVoted(p) /\ advances' = Append(advances, phaseCall[p].target)
    <3>1. advances' # advances
      BY <1>0
    <3> QED
      BY <2>1, <3>1 DEF CountPhaseVotes
  <2>3. advances'[Len(advances')] = phaseCall[p].target
    <3>1. phaseCall[p].target \in Phases
      BY <2>1 DEF CountPhaseVotes, VoteInv, CallsHaveTargets
    <3> QED
      BY <1>0, <2>2, <3>1
  <2>4. ASSUME NEW r \in Voters PROVE BallotOf(p) \in standing[r]
    <3> DEFINE v == [by |-> r, ballot |-> BallotOf(p), epoch |-> phaseCall[p].epoch]
    <3>1. v \in phaseVotes /\ v.by = r /\ v.ballot = BallotOf(p)
      BY <2>2 DEF AllVoted
    <3> HIDE DEF v
    <3> QED
      BY <3>1 DEF VoteInv, VotesStand
  <2>5. BallotOf(p).target = phaseCall[p].target
    BY DEF BallotOf
  <2> QED
    BY <2>3, <2>4, <2>5 DEF Unanimous
<1>3. CASE BeginMove
  <2>1. (advances' = Tail(advances) /\ advances # <<>>) \/ advances' = advances
    BY <1>3 DEF BeginMove
  <2>2. advances # <<>> => Len(Tail(advances)) = Len(advances) - 1 /\ Len(advances) \in Nat
    BY <1>0
  <2>3. advances' # advances
    BY <1>0
  <2> QED
    BY <2>1, <2>2, <2>3
<1>4. CASE RestartPhase
  <2>1. Len(advances') = 0 /\ Len(advances) \in Nat
    BY <1>0, <1>4 DEF RestartPhase
  <2> QED
    BY <2>1
<1>5. CASE UNCHANGED advances
  BY <1>0, <1>5
<1> QED
  BY <1>1, <1>2, <1>3, <1>4, <1>5
     DEF VoteNext, voteVars, CallAdvance, ReadEpoch, ReadFingerprint, CastPhaseVote, Pass,
         EditPhaseDoc, StorePhase, BumpPhaseEpoch

\* Whatever sends an advance, all active participants have voted for it over one fingerprint of
\* the documents and in one round, unless the caller was not found (agent_advance_phase and
\* all_active_voted_to_advance against the casts, passes and bumps that overlap them, and against
\* every read and write that fails).
THEOREM PhaseAdvanceIsUnanimous == VoteSpec => AdvanceIsUnanimous
<1>1. VoteInv /\ [VoteNext]_voteVars
        => [Len(advances') > Len(advances) =>
              unvoted' \/ Unanimous(advances'[Len(advances')])]_voteVars
  BY AdvanceStepIsUnanimous
<1> QED
  BY <1>1, VoteInvAlways, PTL DEF VoteSpec, AdvanceIsUnanimous
=============================================================================
