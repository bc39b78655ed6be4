------------------------------ MODULE Delivery ------------------------------
(***************************************************************************)
(* The channel of a session and what each participant has read of it:       *)
(* storage/participants.rs (rows, cursors, delivery receipts) and the drain *)
(* of core/sequencer.rs that reads a page, hands it to the participant's    *)
(* stdin and then records it.  TurnRing keeps one bit of this, whether      *)
(* something is unread; here are the rows themselves.                       *)
(*                                                                         *)
(* Rows are written while a page is out, the record of a page can fail, and *)
(* the host can stop between handing a page over and recording it.          *)
(***************************************************************************)
EXTENDS Integers, Sequences, FiniteSets

CONSTANTS
  Readers,        \* participants of the session
  HostAuthor,     \* the author of rows no participant wrote, not one of them
  PageLimit,      \* UNREAD_BATCH_LIMIT
  RowKinds,       \* the rows that are written: who the author is, and whether it is something
                  \* said or the record of a tool call or of a boot, which nobody is handed
  MaxPages,       \* pages one deal may take
  MaxRows,        \* bound: rows in the channel
  MaxLosses       \* bound: pages handed over whose record is lost

ASSUME DeliveryAssumption ==
  /\ HostAuthor \notin Readers
  /\ RowKinds \subseteq [author : Readers \cup {HostAuthor}, said : BOOLEAN]
  /\ PageLimit \in Nat \ {0}
  /\ MaxPages \in Nat \ {0}
  /\ MaxRows \in Nat
  /\ MaxLosses \in Nat

VARIABLES
  channel,    \* messages: the rows in the order of their ids
  cursor,     \* participant_cursors: the last row each participant is past
  receipts,   \* participant_deliveries: the rows recorded as delivered to each
  drain,      \* the deal in progress, see NoDrain
  handed,     \* history: how often each row was written to each participant's stdin
  losses      \* how many pages were handed over and not recorded

deliveryVars == <<channel, cursor, receipts, drain, handed, losses>>

RowIds == 1..MaxRows

NoPage == {}
NoDrain == [step |-> "idle", to |-> HostAuthor, page |-> NoPage, more |-> FALSE, pages |-> 0]

DeliveryTypeOK ==
  /\ channel \in Seq(RowKinds)
  /\ Len(channel) <= MaxRows
  /\ cursor \in [Readers -> Nat]
  /\ receipts \in [Readers -> SUBSET RowIds]
  /\ handed \in [Readers -> [RowIds -> Nat]]
  /\ losses \in Nat
  /\ \/ drain = NoDrain
     \/ drain \in [step : {"reading", "offering", "recording"}, to : Readers,
                   page : SUBSET RowIds, more : BOOLEAN, pages : 0..MaxPages]

DeliveryInit ==
  /\ channel = <<>>
  /\ cursor = [p \in Readers |-> 0]
  /\ receipts = [p \in Readers |-> {}]
  /\ drain = NoDrain
  /\ handed = [p \in Readers |-> [i \in RowIds |-> 0]]
  /\ losses = 0
-----------------------------------------------------------------------------
\* post_to_channel: the row gets the next id, whatever else is under way.
PostToChannel(row) ==
  /\ Len(channel) < MaxRows
  /\ channel' = Append(channel, row)
  /\ UNCHANGED <<cursor, receipts, drain, handed, losses>>

Addressed(p, i) == channel[i].author # p /\ channel[i].said

Backlog(p) == {i \in 1..Len(channel) : i > cursor[p] /\ Addressed(p, i)}

\* The oldest rows of the backlog, as many as a page holds.
OldestOf(p) ==
  {i \in Backlog(p) : Cardinality({j \in Backlog(p) : j <= i}) <= PageLimit}

BeginDrain(p) ==
  /\ drain = NoDrain
  /\ drain' = [NoDrain EXCEPT !.step = "reading", !.to = p]
  /\ UNCHANGED <<channel, cursor, receipts, handed, losses>>

\* Mutant of ReadPage: the rows of a page come in no order.
ReadPageUnordered ==
  /\ drain.step = "reading"
  /\ \E page \in SUBSET Backlog(drain.to) :
       /\ Cardinality(page) \in 1..PageLimit
       /\ drain' = [drain EXCEPT !.step = "offering", !.page = page,
                                 !.more = page # Backlog(drain.to), !.pages = @ + 1]
  /\ UNCHANGED <<channel, cursor, receipts, handed, losses>>

\* unread_for_participant: one page, and whether there is more.  An empty page, or a storage
\* error, ends the deal.
ReadPage ==
  /\ drain.step = "reading"
  /\ LET page == OldestOf(drain.to)
     IN \/ page = NoPage /\ drain' = NoDrain
        \/ /\ page # NoPage
           /\ drain' = [drain EXCEPT !.step = "offering", !.page = page,
                                     !.more = page # Backlog(drain.to), !.pages = @ + 1]
        \/ drain' = NoDrain
  /\ UNCHANGED <<channel, cursor, receipts, handed, losses>>

\* The page reaches the participant's stdin whole.
HandOver ==
  /\ drain.step = "offering"
  /\ drain' = [drain EXCEPT !.step = "recording"]
  /\ handed' = [handed EXCEPT ![drain.to] =
                  [i \in RowIds |-> IF i \in drain.page THEN @[i] + 1 ELSE @[i]]]
  /\ UNCHANGED <<channel, cursor, receipts, losses>>

\* A command cuts the offer, or the stdin refuses the page: nothing landed, nothing is recorded.
NothingLanded ==
  /\ drain.step = "offering"
  /\ drain' = NoDrain
  /\ UNCHANGED <<channel, cursor, receipts, handed, losses>>

\* What follows a recorded page: the next one, unless this was the last or the cap is reached.
NextPage(d) ==
  IF d.more /\ d.pages < MaxPages THEN [d EXCEPT !.step = "reading", !.page = NoPage] ELSE NoDrain

\* Mutant of CommitDelivery: the cursor moves to the newest row there is by now.
CommitToNewest ==
  /\ drain.step = "recording"
  /\ receipts' = [receipts EXCEPT ![drain.to] = @ \cup drain.page]
  /\ cursor' = [cursor EXCEPT ![drain.to] = Len(channel)]
  /\ drain' = NextPage(drain)
  /\ UNCHANGED <<channel, handed, losses>>

\* Mutant of CommitDelivery: the receipts are written and the cursor is not.
CommitReceiptsOnly ==
  /\ drain.step = "recording"
  /\ receipts' = [receipts EXCEPT ![drain.to] = @ \cup drain.page]
  /\ drain' = NextPage(drain)
  /\ UNCHANGED <<channel, cursor, handed, losses>>

\* commit_delivery: the receipts and the cursor in one transaction.  The cursor moves to the
\* highest row of the page, and never back.
CommitDelivery ==
  /\ drain.step = "recording"
  /\ receipts' = [receipts EXCEPT ![drain.to] = @ \cup drain.page]
  /\ \E high \in drain.page :
       /\ \A i \in drain.page : i <= high
       /\ cursor' = [cursor EXCEPT ![drain.to] = IF high > @ THEN high ELSE @]
  /\ drain' = NextPage(drain)
  /\ UNCHANGED <<channel, handed, losses>>

\* The transaction fails, or the host stops before it: the page will be offered again.
LoseRecord ==
  /\ drain.step = "recording"
  /\ losses < MaxLosses
  /\ losses' = losses + 1
  /\ drain' = NoDrain
  /\ UNCHANGED <<channel, cursor, receipts, handed>>

\* purge_participant_deliveries: old receipts go, the cursors stay.
PurgeReceipts ==
  /\ \E p \in Readers, i \in RowIds :
       /\ i \in receipts[p]
       /\ receipts' = [q \in Readers |-> {j \in receipts[q] : j > i}]
  /\ UNCHANGED <<channel, cursor, drain, handed, losses>>

DeliveryNext ==
  \/ \E row \in RowKinds : PostToChannel(row)
  \/ \E p \in Readers : BeginDrain(p)
  \/ ReadPage
  \/ HandOver
  \/ NothingLanded
  \/ CommitDelivery
  \/ LoseRecord
  \/ PurgeReceipts

DeliverySpec == DeliveryInit /\ [][DeliveryNext]_deliveryVars
-----------------------------------------------------------------------------
\* No participant is ever past a row meant for them that was not written to their stdin: a
\* cursor stands for a whole prefix of the channel, and rows go on arriving while a page is
\* out.  (commit_delivery moves it by id, to the highest id of the page.)
NothingSkipped ==
  \A p \in Readers : \A i \in 1..Len(channel) :
    i <= cursor[p] /\ Addressed(p, i) => handed[p][i] > 0

\* A row is handed to a participant again only when the record of it was lost: once, and once
\* more for every loss at most.  (sequencer.rs: "the batch will be re-offered".)
RepeatsNeedALoss ==
  \A p \in Readers : \A i \in RowIds : handed[p][i] <= 1 + losses

\* What a participant reads for the first time is newer than all they have read before.
FirstReadsInOrder ==
  [][\A p \in Readers : \A i, j \in RowIds :
       handed[p][i] = 0 /\ handed'[p][i] > 0 /\ handed[p][j] > 0 => j < i]_deliveryVars
=============================================================================
