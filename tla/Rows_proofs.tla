----------------------------- MODULE Rows_proofs -----------------------------
(****************************************************************************)
(* How the rows of the channels reach those who read them, for any number   *)
(* of readers, sessions, rows and faults.                                   *)
(*                                                                          *)
(* Delivery: no row is skipped, a repeat needs a loss, and first readings   *)
(* are in order.  The three rest on one fact about a page that is out: it   *)
(* is the beginning of the backlog, and stays so while rows arrive, because *)
(* they arrive behind it.                                                   *)
(*                                                                          *)
(* BatchEmitter: the screen is sent every row once and in order.  What was  *)
(* shown of a session is at every moment the rows from its first touch to   *)
(* its watermark, since until the first flush a touch lowers both and a     *)
(* flush reads to the newest row.                                           *)
(****************************************************************************)
EXTENDS Delivery, BatchEmitter, TLAPS, FiniteSetTheorems, WellFoundedInduction
-----------------------------------------------------------------------------
(* Delivery *)

Active == {"reading", "offering", "recording"}
Drains == [step : Active, to : Readers, page : SUBSET RowIds, more : BOOLEAN, pages : 0..MaxPages]

\* A cursor stays within the channel, and a deal asks for no page beyond its cap.
WithinBounds ==
  /\ \A p \in Readers : cursor[p] <= Len(channel)
  /\ drain.step = "reading" => drain.pages < MaxPages

\* The page that is out is the beginning of its reader's backlog.
PageIsABeginning ==
  drain.step \in {"offering", "recording"} =>
    /\ drain.page # {}
    /\ drain.page \subseteq Backlog(drain.to)
    /\ \A i \in drain.page : \A j \in Backlog(drain.to) : j <= i => j \in drain.page

\* A page that waits for its record has been handed over.
RecordedAfterHanded ==
  drain.step = "recording" => \A i \in drain.page : handed[drain.to][i] > 0

\* What a participant was handed is, among the rows meant for them, a beginning of the channel.
HandedIsABeginning ==
  \A p \in Readers : \A j \in RowIds : handed[p][j] > 0 =>
    /\ j <= Len(channel)
    /\ \A i \in 1..Len(channel) : i < j /\ Addressed(p, i) => handed[p][i] > 0

BeingRecorded(p, i) == drain.step = "recording" /\ drain.to = p /\ i \in drain.page

\* A row that is neither recorded nor about to be was handed over for the losses alone.
UnrecordedWasLost ==
  \A p \in Readers : \A i \in RowIds :
    i > cursor[p] /\ ~BeingRecorded(p, i) => handed[p][i] <= losses

DeliveryInv ==
  /\ DeliveryTypeOK
  /\ WithinBounds
  /\ PageIsABeginning
  /\ RecordedAfterHanded
  /\ HandedIsABeginning
  /\ UnrecordedWasLost
  /\ NothingSkipped
  /\ RepeatsNeedALoss
-----------------------------------------------------------------------------
\* The oldest rows of a backlog are a beginning of it.
LEMMA OldestIsABeginning ==
  ASSUME NEW p \in Readers, DeliveryTypeOK, NEW i \in OldestOf(p), NEW j \in Backlog(p), j <= i
  PROVE  j \in OldestOf(p)
<1> DEFINE Upto(k) == {n \in Backlog(p) : n <= k}
<1>1. Len(channel) \in Nat
  BY DEF DeliveryTypeOK
<1>2. Backlog(p) \subseteq 1..Len(channel)
  BY DEF Backlog
<1>3. IsFiniteSet(1..Len(channel))
  BY <1>1, FS_Interval
<1>4. Upto(j) \subseteq Upto(i)
  BY <1>1, <1>2 DEF OldestOf
<1>5. IsFiniteSet(Upto(i))
  BY <1>2, <1>3, FS_Subset
<1>6. /\ IsFiniteSet(Upto(j))
      /\ Cardinality(Upto(j)) <= Cardinality(Upto(i))
  BY <1>4, <1>5, FS_Subset
<1>7. Cardinality(Upto(j)) \in Nat /\ Cardinality(Upto(i)) \in Nat
  BY <1>5, <1>6, FS_CardinalityType
<1>8. Cardinality(Upto(i)) <= PageLimit
  BY DEF OldestOf
<1>9. Cardinality(Upto(j)) <= PageLimit
  BY <1>6, <1>7, <1>8, DeliveryAssumption
<1> QED
  BY <1>9 DEF OldestOf

\* A row that arrives changes nothing about the rows there are, and comes behind every backlog.
LEMMA RowsArriveBehind ==
  ASSUME NEW row \in RowKinds, DeliveryTypeOK, PostToChannel(row)
  PROVE  /\ Len(channel') = Len(channel) + 1
         /\ channel' \in Seq(RowKinds)
         /\ \A i \in 1..Len(channel) : channel'[i] = channel[i]
         /\ \A p \in Readers : \A i \in 1..Len(channel) : Addressed(p, i)' <=> Addressed(p, i)
         /\ \A p \in Readers : Backlog(p) \subseteq Backlog(p)'
         /\ \A p \in Readers : \A i \in Backlog(p)' : i \in Backlog(p) \/ i = Len(channel) + 1
<1>1. channel \in Seq(RowKinds) /\ channel' = Append(channel, row) /\ cursor' = cursor
  BY DEF DeliveryTypeOK, PostToChannel
<1>2. /\ Len(channel') = Len(channel) + 1 /\ Len(channel) \in Nat
      /\ channel' \in Seq(RowKinds)
      /\ \A i \in 1..Len(channel) : channel'[i] = channel[i]
  BY <1>1
<1>3. \A p \in Readers : \A i \in 1..Len(channel) : Addressed(p, i)' <=> Addressed(p, i)
  BY <1>2 DEF Addressed
<1>4. \A p \in Readers : Backlog(p) \subseteq Backlog(p)'
  BY <1>1, <1>2, <1>3 DEF Backlog
<1>5. \A p \in Readers : \A i \in Backlog(p)' : i \in Backlog(p) \/ i = Len(channel) + 1
  BY <1>1, <1>2, <1>3 DEF Backlog
<1> QED
  BY <1>2, <1>3, <1>4, <1>5
-----------------------------------------------------------------------------
LEMMA DeliveryInitEstablishes == DeliveryInit => DeliveryInv
<1> SUFFICES ASSUME DeliveryInit PROVE DeliveryInv
  OBVIOUS
<1>1. DeliveryTypeOK
  BY DeliveryAssumption DEF DeliveryInit, DeliveryTypeOK
<1>2. WithinBounds /\ PageIsABeginning /\ RecordedAfterHanded
  BY DEF DeliveryInit, WithinBounds, PageIsABeginning, RecordedAfterHanded, NoDrain
<1>3. HandedIsABeginning /\ UnrecordedWasLost /\ NothingSkipped /\ RepeatsNeedALoss
  BY DEF DeliveryInit, HandedIsABeginning, UnrecordedWasLost, NothingSkipped, RepeatsNeedALoss
<1> QED
  BY <1>1, <1>2, <1>3 DEF DeliveryInv

LEMMA PostPreserves ==
  ASSUME DeliveryInv, NEW row \in RowKinds, PostToChannel(row)
  PROVE  DeliveryInv'
<1> USE DEF DeliveryInv
<1>1. /\ Len(channel') = Len(channel) + 1 /\ Len(channel) \in Nat
      /\ channel' \in Seq(RowKinds)
      /\ UNCHANGED <<cursor, receipts, drain, handed, losses>>
      /\ Len(channel) < MaxRows
  BY RowsArriveBehind DEF PostToChannel, DeliveryTypeOK
<1>2. \A p \in Readers : \A i \in 1..Len(channel) : Addressed(p, i)' <=> Addressed(p, i)
  BY RowsArriveBehind
<1>3. /\ \A p \in Readers : Backlog(p) \subseteq Backlog(p)'
      /\ \A p \in Readers : \A i \in Backlog(p)' : i \in Backlog(p) \/ i = Len(channel) + 1
  BY RowsArriveBehind
<1>4. DeliveryTypeOK'
  BY <1>1, DeliveryAssumption DEF DeliveryTypeOK
<1>5. WithinBounds'
  BY <1>1 DEF WithinBounds, DeliveryTypeOK
<1>6. PageIsABeginning'
  <2> SUFFICES ASSUME drain.step \in {"offering", "recording"} PROVE PageIsABeginning'
    BY <1>1 DEF PageIsABeginning
  <2>1. drain.to \in Readers
    BY DEF DeliveryTypeOK, NoDrain
  <2>2. drain.page # {} /\ drain.page \subseteq Backlog(drain.to)'
    BY <1>1, <1>3, <2>1 DEF PageIsABeginning
  <2>3. ASSUME NEW i \in drain.page, NEW j \in Backlog(drain.to)', j <= i
        PROVE  j \in drain.page
    <3>1. i \in Backlog(drain.to) /\ i <= Len(channel)
      BY DEF PageIsABeginning, Backlog
    <3>2. j \in Backlog(drain.to)
      BY <1>1, <1>3, <2>1, <2>3, <3>1 DEF Backlog
    <3> QED
      BY <2>3, <3>1, <3>2 DEF PageIsABeginning
  <2> QED
    BY <1>1, <2>2, <2>3 DEF PageIsABeginning
<1>7. RecordedAfterHanded'
  BY <1>1 DEF RecordedAfterHanded
<1>8. HandedIsABeginning'
  BY <1>1, <1>2 DEF HandedIsABeginning, RowIds
<1>9. UnrecordedWasLost' /\ RepeatsNeedALoss'
  BY <1>1 DEF UnrecordedWasLost, RepeatsNeedALoss, BeingRecorded
<1>10. NothingSkipped'
  <2> SUFFICES ASSUME NEW p \in Readers, NEW i \in 1..Len(channel'), i <= cursor[p], Addressed(p, i)'
               PROVE  handed[p][i] > 0
    BY <1>1 DEF NothingSkipped
  <2>1. cursor[p] <= Len(channel) /\ cursor[p] \in Nat
    BY DEF WithinBounds, DeliveryTypeOK
  <2>2. i \in 1..Len(channel)
    BY <1>1, <2>1
  <2>3. Addressed(p, i)
    BY <1>2, <2>2
  <2> QED
    BY <2>2, <2>3 DEF NothingSkipped
<1> QED
  BY <1>4, <1>5, <1>6, <1>7, <1>8, <1>9, <1>10

\* The steps that change nothing but the deal, and leave no page out.
LEMMA NoPageOutPreserves ==
  ASSUME DeliveryInv, UNCHANGED <<channel, cursor, handed>>,
         receipts' \in [Readers -> SUBSET RowIds],
         losses' \in Nat, losses <= losses',
         drain' = NoDrain \/ (drain' \in Drains /\ drain'.step = "reading" /\ drain'.pages < MaxPages),
         drain.step = "recording" => losses' > losses
  PROVE  DeliveryInv'
<1> USE DEF DeliveryInv
<1>1. drain'.step \notin {"offering", "recording"}
  BY DEF NoDrain
<1>2. DeliveryTypeOK'
  BY DEF DeliveryTypeOK, Drains, Active
<1>3. WithinBounds' /\ PageIsABeginning' /\ RecordedAfterHanded'
  BY <1>1 DEF WithinBounds, PageIsABeginning, RecordedAfterHanded, NoDrain
<1>4. HandedIsABeginning' /\ NothingSkipped'
  BY DEF HandedIsABeginning, NothingSkipped, Addressed
<1>5. RepeatsNeedALoss'
  BY DEF RepeatsNeedALoss, DeliveryTypeOK
<1>6. UnrecordedWasLost'
  <2> SUFFICES ASSUME NEW p \in Readers, NEW i \in RowIds, i > cursor[p]
               PROVE  handed[p][i] <= losses'
    BY DEF UnrecordedWasLost
  <2>0. losses \in Nat /\ handed[p][i] \in Nat
    BY DEF DeliveryTypeOK
  <2>1. CASE BeingRecorded(p, i)
    BY <2>0, <2>1 DEF BeingRecorded, RepeatsNeedALoss
  <2>2. CASE ~BeingRecorded(p, i)
    BY <2>0, <2>2 DEF UnrecordedWasLost
  <2> QED
    BY <2>1, <2>2
<1> QED
  BY <1>2, <1>3, <1>4, <1>5, <1>6

LEMMA DeliveryBeginPreserves ==
  ASSUME DeliveryInv, NEW p \in Readers, BeginDrain(p)
  PROVE  DeliveryInv'
<1>0. drain' = [step |-> "reading", to |-> p, page |-> {}, more |-> FALSE, pages |-> 0]
  BY DEF BeginDrain, NoDrain, NoPage
<1>1. drain' \in Drains /\ drain'.step = "reading" /\ drain'.pages < MaxPages
  BY <1>0, DeliveryAssumption DEF Drains, Active
<1>2. UNCHANGED <<channel, cursor, handed, receipts, losses>> /\ drain.step = "idle"
  BY DEF BeginDrain, NoDrain
<1>3. receipts' \in [Readers -> SUBSET RowIds] /\ losses' \in Nat /\ losses <= losses'
  BY <1>2 DEF DeliveryInv, DeliveryTypeOK
<1> QED
  BY <1>1, <1>2, <1>3, NoPageOutPreserves

LEMMA ReadPreserves ==
  ASSUME DeliveryInv, ReadPage
  PROVE  DeliveryInv'
<1>0. /\ UNCHANGED <<channel, cursor, receipts, handed, losses>> /\ drain.step = "reading"
      /\ receipts' \in [Readers -> SUBSET RowIds] /\ losses' \in Nat /\ losses <= losses'
      /\ Len(channel) \in Nat /\ Len(channel) <= MaxRows
  BY DEF ReadPage, DeliveryInv, DeliveryTypeOK
<1>1. CASE drain' = NoDrain
  BY <1>0, <1>1, NoPageOutPreserves
<1>2. CASE drain' # NoDrain
  <2> USE DEF DeliveryInv
  <2>1. /\ OldestOf(drain.to) # {}
        /\ drain' = [drain EXCEPT !.step = "offering", !.page = OldestOf(drain.to),
                                  !.more = OldestOf(drain.to) # Backlog(drain.to), !.pages = @ + 1]
    BY <1>2 DEF ReadPage, NoPage
  <2>2. drain \in Drains /\ drain.pages < MaxPages
    BY <1>0 DEF DeliveryTypeOK, NoDrain, WithinBounds, Drains, Active
  <2>3. OldestOf(drain.to) \subseteq Backlog(drain.to) /\ Backlog(drain.to) \subseteq RowIds
    BY <1>0, DeliveryAssumption DEF OldestOf, Backlog, RowIds
  <2>4. /\ drain' \in Drains /\ drain'.step = "offering"
        /\ drain'.to = drain.to /\ drain'.page = OldestOf(drain.to)
    <3>1. drain' = [step |-> "offering", to |-> drain.to, page |-> OldestOf(drain.to),
                    more |-> OldestOf(drain.to) # Backlog(drain.to), pages |-> drain.pages + 1]
      BY <2>1, <2>2 DEF Drains
    <3>2. drain.to \in Readers /\ drain.pages + 1 \in 0..MaxPages
      BY <2>2, DeliveryAssumption DEF Drains
    <3>3. OldestOf(drain.to) \in SUBSET RowIds /\ (OldestOf(drain.to) # Backlog(drain.to)) \in BOOLEAN
      BY <2>3
    <3> QED
      BY <3>1, <3>2, <3>3 DEF Drains, Active
  <2>5. DeliveryTypeOK'
    BY <1>0, <2>4 DEF DeliveryTypeOK, Drains, Active
  <2>6. WithinBounds' /\ RecordedAfterHanded'
    BY <1>0, <2>4 DEF WithinBounds, RecordedAfterHanded
  <2>7. Backlog(drain.to)' = Backlog(drain.to)
    BY <1>0, <2>4 DEF Backlog, Addressed
  <2>8. PageIsABeginning'
    BY <2>1, <2>2, <2>3, <2>4, <2>7, OldestIsABeginning DEF PageIsABeginning, Drains
  <2>9. HandedIsABeginning' /\ NothingSkipped' /\ RepeatsNeedALoss'
    BY <1>0 DEF HandedIsABeginning, NothingSkipped, RepeatsNeedALoss, Addressed
  <2>10. UnrecordedWasLost'
    BY <1>0 DEF UnrecordedWasLost, BeingRecorded
  <2> QED
    BY <2>5, <2>6, <2>8, <2>9, <2>10
<1> QED
  BY <1>1, <1>2

\* What HandOver adds, row by row.
LEMMA HandOverAdds ==
  ASSUME DeliveryTypeOK, HandOver
  PROVE  /\ drain \in Drains /\ drain.step = "offering"
         /\ drain' \in Drains /\ drain'.step = "recording"
         /\ drain'.to = drain.to /\ drain'.page = drain.page
         /\ handed' \in [Readers -> [RowIds -> Nat]]
         /\ \A p \in Readers, i \in RowIds :
              handed'[p][i] = IF p = drain.to /\ i \in drain.page
                              THEN handed[p][i] + 1 ELSE handed[p][i]
<1>1. drain \in Drains /\ drain.step = "offering"
  BY DEF HandOver, DeliveryTypeOK, NoDrain, Drains, Active
<1>2. drain' = [drain EXCEPT !.step = "recording"]
  BY DEF HandOver
<1>3. drain' \in Drains /\ drain'.step = "recording" /\ drain'.to = drain.to /\ drain'.page = drain.page
  BY <1>1, <1>2 DEF Drains, Active
<1>4. handed \in [Readers -> [RowIds -> Nat]] /\ drain.to \in Readers
  BY <1>1 DEF DeliveryTypeOK, Drains
<1>5. handed' = [handed EXCEPT ![drain.to] =
                  [i \in RowIds |-> IF i \in drain.page THEN handed[drain.to][i] + 1
                                    ELSE handed[drain.to][i]]]
  BY DEF HandOver
<1>6. handed' \in [Readers -> [RowIds -> Nat]]
  BY <1>4, <1>5
<1>7. \A p \in Readers, i \in RowIds :
        handed'[p][i] = IF p = drain.to /\ i \in drain.page THEN handed[p][i] + 1 ELSE handed[p][i]
  BY <1>4, <1>5
<1> QED
  BY <1>1, <1>3, <1>6, <1>7

LEMMA HandOverPreserves ==
  ASSUME DeliveryInv, HandOver
  PROVE  DeliveryInv'
<1> USE DEF DeliveryInv
<1>1. /\ drain \in Drains /\ drain.step = "offering"
      /\ drain' \in Drains /\ drain'.step = "recording"
      /\ drain'.to = drain.to /\ drain'.page = drain.page
      /\ drain.to \in Readers /\ drain.page \subseteq RowIds
  BY HandOverAdds DEF Drains
<1>2. /\ handed' \in [Readers -> [RowIds -> Nat]]
      /\ \A p \in Readers, i \in RowIds :
           handed'[p][i] = IF p = drain.to /\ i \in drain.page
                           THEN handed[p][i] + 1 ELSE handed[p][i]
  BY HandOverAdds
<1>3. UNCHANGED <<channel, cursor, receipts, losses>>
  BY DEF HandOver
<1>4. \A p \in Readers, i \in RowIds : handed[p][i] \in Nat /\ handed'[p][i] \in Nat
  BY <1>2 DEF DeliveryTypeOK
<1>5. \A p \in Readers, i \in RowIds : handed[p][i] > 0 => handed'[p][i] > 0
  BY <1>2, <1>4
<1>6. /\ Len(channel) \in Nat /\ 1..Len(channel) \subseteq RowIds
      /\ \A p \in Readers : cursor[p] \in Nat
  BY DeliveryAssumption DEF DeliveryTypeOK, RowIds
<1>7. DeliveryTypeOK'
  BY <1>1, <1>2, <1>3 DEF DeliveryTypeOK, Drains, Active
<1>8. WithinBounds'
  BY <1>1, <1>3 DEF WithinBounds
<1>9. Backlog(drain.to)' = Backlog(drain.to) /\ \A p \in Readers, i \in RowIds : Addressed(p, i)' <=> Addressed(p, i)
  BY <1>1, <1>3 DEF Backlog, Addressed
<1>10. PageIsABeginning'
  BY <1>1, <1>9 DEF PageIsABeginning
<1>11. RecordedAfterHanded'
  BY <1>1, <1>2, <1>4 DEF RecordedAfterHanded
<1>12. NothingSkipped'
  BY <1>3, <1>5, <1>6, <1>9 DEF NothingSkipped
<1>13. HandedIsABeginning'
  <2> SUFFICES ASSUME NEW p \in Readers, NEW j \in RowIds, handed'[p][j] > 0
               PROVE  /\ j <= Len(channel)
                      /\ \A i \in 1..Len(channel) : i < j /\ Addressed(p, i) => handed'[p][i] > 0
    BY <1>3, <1>6, <1>9 DEF HandedIsABeginning
  <2>1. CASE handed[p][j] > 0
    BY <2>1, <1>5, <1>6 DEF HandedIsABeginning
  <2>2. CASE ~(handed[p][j] > 0)
    <3>1. p = drain.to /\ j \in drain.page
      BY <1>2, <2>2
    <3>2. j \in Backlog(p) /\ j <= Len(channel)
      BY <1>1, <3>1 DEF PageIsABeginning, Backlog
    <3>3. ASSUME NEW i \in 1..Len(channel), i < j, Addressed(p, i)
          PROVE  handed'[p][i] > 0
      <4>1. CASE i <= cursor[p]
        BY <1>5, <1>6, <3>3, <4>1 DEF NothingSkipped
      <4>2. CASE i > cursor[p]
        <5>1. i \in Backlog(p)
          BY <3>3, <4>2 DEF Backlog
        <5>2. i <= j
          BY <1>6, <3>3, DeliveryAssumption DEF RowIds
        <5>3. i \in drain.page
          BY <1>1, <3>1, <5>1, <5>2 DEF PageIsABeginning
        <5> QED
          BY <1>2, <1>4, <1>6, <3>1, <5>3
      <4> QED
        BY <1>6, <4>1, <4>2
    <3> QED
      BY <3>2, <3>3
  <2> QED
    BY <2>1, <2>2
<1>14. UnrecordedWasLost' /\ RepeatsNeedALoss'
  <2> SUFFICES ASSUME NEW p \in Readers, NEW i \in RowIds
               PROVE  /\ i > cursor[p] /\ ~BeingRecorded(p, i)' => handed'[p][i] <= losses
                      /\ handed'[p][i] <= 1 + losses
    BY <1>3 DEF UnrecordedWasLost, RepeatsNeedALoss
  <2>0. losses \in Nat /\ ~BeingRecorded(p, i)
    BY <1>1 DEF DeliveryTypeOK, BeingRecorded
  <2>1. CASE p = drain.to /\ i \in drain.page
    <3>1. i \in Backlog(p)
      BY <1>1, <2>1 DEF PageIsABeginning
    <3>2. handed[p][i] <= losses
      BY <2>0, <3>1 DEF UnrecordedWasLost, Backlog
    <3>3. BeingRecorded(p, i)'
      BY <1>1, <2>1 DEF BeingRecorded
    <3> QED
      BY <1>2, <1>4, <2>0, <2>1, <3>2, <3>3
  <2>2. CASE ~(p = drain.to /\ i \in drain.page)
    BY <1>2, <2>0, <2>2 DEF UnrecordedWasLost, RepeatsNeedALoss
  <2> QED
    BY <2>1, <2>2
<1> QED
  BY <1>7, <1>8, <1>10, <1>11, <1>12, <1>13, <1>14

LEMMA NothingLandedPreserves ==
  ASSUME DeliveryInv, NothingLanded
  PROVE  DeliveryInv'
<1>1. /\ UNCHANGED <<channel, cursor, receipts, handed, losses>>
      /\ drain' = NoDrain /\ drain.step # "recording"
      /\ receipts' \in [Readers -> SUBSET RowIds] /\ losses' \in Nat /\ losses <= losses'
  BY DEF NothingLanded, DeliveryInv, DeliveryTypeOK
<1> QED
  BY <1>1, NoPageOutPreserves

LEMMA LosePreserves ==
  ASSUME DeliveryInv, LoseRecord
  PROVE  DeliveryInv'
<1>1. /\ UNCHANGED <<channel, cursor, receipts, handed>>
      /\ drain' = NoDrain /\ losses' = losses + 1
      /\ receipts' \in [Readers -> SUBSET RowIds] /\ losses \in Nat
  BY DEF LoseRecord, DeliveryInv, DeliveryTypeOK
<1>2. losses' \in Nat /\ losses <= losses' /\ losses' > losses
  BY <1>1
<1> QED
  BY <1>1, <1>2, NoPageOutPreserves

LEMMA PurgePreserves ==
  ASSUME DeliveryInv, PurgeReceipts
  PROVE  DeliveryInv'
<1> USE DEF DeliveryInv
<1>1. UNCHANGED <<channel, cursor, drain, handed, losses>> /\ receipts' \in [Readers -> SUBSET RowIds]
  BY DEF PurgeReceipts, DeliveryTypeOK
<1>2. DeliveryTypeOK' /\ WithinBounds' /\ RecordedAfterHanded'
  BY <1>1 DEF DeliveryTypeOK, WithinBounds, RecordedAfterHanded
<1>3. PageIsABeginning'
  BY <1>1 DEF PageIsABeginning, Backlog, Addressed
<1>4. HandedIsABeginning' /\ NothingSkipped' /\ RepeatsNeedALoss'
  BY <1>1 DEF HandedIsABeginning, NothingSkipped, RepeatsNeedALoss, Addressed
<1>5. UnrecordedWasLost'
  BY <1>1 DEF UnrecordedWasLost, BeingRecorded
<1> QED
  BY <1>2, <1>3, <1>4, <1>5

LEMMA CommitPreserves ==
  ASSUME DeliveryInv, CommitDelivery
  PROVE  DeliveryInv'
<1> USE DEF DeliveryInv
<1>1. /\ drain \in Drains /\ drain.step = "recording"
      /\ drain.to \in Readers /\ drain.page \subseteq RowIds
  BY DEF CommitDelivery, DeliveryTypeOK, NoDrain, Drains, Active
<1>2. UNCHANGED <<channel, handed, losses>>
  BY DEF CommitDelivery
<1>3. /\ Len(channel) \in Nat /\ Len(channel) <= MaxRows /\ 1..Len(channel) \subseteq RowIds
      /\ RowIds \subseteq Nat
      /\ \A p \in Readers : cursor[p] \in Nat /\ cursor[p] <= Len(channel)
      /\ \A p \in Readers, i \in RowIds : handed[p][i] \in Nat
  BY DeliveryAssumption DEF DeliveryTypeOK, WithinBounds, RowIds
<1>4. PICK high \in drain.page :
        /\ \A i \in drain.page : i <= high
        /\ cursor' = [cursor EXCEPT ![drain.to] = IF high > @ THEN high ELSE @]
  BY DEF CommitDelivery
<1>5. high \in Backlog(drain.to) /\ high \in Nat /\ high > cursor[drain.to] /\ high <= Len(channel)
  BY <1>1, <1>3, <1>4 DEF PageIsABeginning, Backlog
<1>6. /\ cursor' \in [Readers -> Nat]
      /\ cursor'[drain.to] = high
      /\ \A p \in Readers : p # drain.to => cursor'[p] = cursor[p]
  BY <1>1, <1>4, <1>5 DEF DeliveryTypeOK
<1>7. \A i \in 1..Len(channel) : i > cursor[drain.to] /\ i <= high /\ Addressed(drain.to, i) => i \in drain.page
  <2> SUFFICES ASSUME NEW i \in 1..Len(channel), i > cursor[drain.to], i <= high,
                      Addressed(drain.to, i)
               PROVE  i \in drain.page
    OBVIOUS
  <2>1. i \in Backlog(drain.to)
    BY DEF Backlog
  <2> QED
    BY <1>1, <1>4, <2>1 DEF PageIsABeginning
<1>8. \/ drain' = NoDrain
      \/ drain' \in Drains /\ drain'.step = "reading" /\ drain'.pages < MaxPages
  <2>1. CASE drain.more /\ drain.pages < MaxPages
    <3>1. drain' = [drain EXCEPT !.step = "reading", !.page = {}]
      BY <2>1 DEF CommitDelivery, NextPage, NoPage
    <3>2. drain' = [step |-> "reading", to |-> drain.to, page |-> {}, more |-> drain.more,
                    pages |-> drain.pages]
      BY <1>1, <3>1 DEF Drains
    <3> QED
      BY <1>1, <2>1, <3>2 DEF Drains, Active
  <2>2. CASE ~(drain.more /\ drain.pages < MaxPages)
    BY <2>2 DEF CommitDelivery, NextPage
  <2> QED
    BY <2>1, <2>2
<1>9. drain'.step \notin {"offering", "recording"}
  BY <1>8 DEF NoDrain
<1>10. receipts' \in [Readers -> SUBSET RowIds]
  BY <1>1 DEF CommitDelivery, DeliveryTypeOK
<1>11. DeliveryTypeOK'
  BY <1>2, <1>6, <1>8, <1>10 DEF DeliveryTypeOK, Drains, Active
<1>12. WithinBounds'
  BY <1>2, <1>3, <1>5, <1>6, <1>8 DEF WithinBounds, NoDrain
<1>13. PageIsABeginning' /\ RecordedAfterHanded'
  BY <1>9 DEF PageIsABeginning, RecordedAfterHanded
<1>14. HandedIsABeginning' /\ RepeatsNeedALoss'
  BY <1>2 DEF HandedIsABeginning, RepeatsNeedALoss, Addressed
<1>15. UnrecordedWasLost'
  <2> SUFFICES ASSUME NEW p \in Readers, NEW i \in RowIds, i > cursor'[p]
               PROVE  handed[p][i] <= losses
    BY <1>2 DEF UnrecordedWasLost
  <2>1. i > cursor[p] /\ ~BeingRecorded(p, i)
    BY <1>1, <1>3, <1>4, <1>5, <1>6 DEF BeingRecorded
  <2> QED
    BY <2>1 DEF UnrecordedWasLost
<1>16. NothingSkipped'
  <2> SUFFICES ASSUME NEW p \in Readers, NEW i \in 1..Len(channel), i <= cursor'[p], Addressed(p, i)
               PROVE  handed[p][i] > 0
    BY <1>2 DEF NothingSkipped, Addressed
  <2>1. CASE i <= cursor[p]
    BY <2>1 DEF NothingSkipped
  <2>2. CASE i > cursor[p]
    <3>1. p = drain.to /\ i <= high
      BY <1>3, <1>6, <2>2
    <3> QED
      BY <1>1, <1>7, <2>2, <3>1 DEF RecordedAfterHanded
  <2> QED
    BY <1>3, <2>1, <2>2
<1> QED
  BY <1>11, <1>12, <1>13, <1>14, <1>15, <1>16

LEMMA DeliveryNextPreserves == DeliveryInv /\ [DeliveryNext]_deliveryVars => DeliveryInv'
<1> SUFFICES ASSUME DeliveryInv, [DeliveryNext]_deliveryVars PROVE DeliveryInv'
  OBVIOUS
<1>1. CASE \E row \in RowKinds : PostToChannel(row)
  BY <1>1, PostPreserves
<1>2. CASE \E p \in Readers : BeginDrain(p)
  BY <1>2, DeliveryBeginPreserves
<1>3. CASE ReadPage
  BY <1>3, ReadPreserves
<1>4. CASE HandOver
  BY <1>4, HandOverPreserves
<1>5. CASE NothingLanded
  BY <1>5, NothingLandedPreserves
<1>6. CASE CommitDelivery
  BY <1>6, CommitPreserves
<1>7. CASE LoseRecord
  BY <1>7, LosePreserves
<1>8. CASE PurgeReceipts
  BY <1>8, PurgePreserves
<1>9. CASE UNCHANGED deliveryVars
  BY <1>9 DEF deliveryVars, DeliveryInv, DeliveryTypeOK, WithinBounds, PageIsABeginning,
     RecordedAfterHanded, HandedIsABeginning, UnrecordedWasLost, BeingRecorded, NothingSkipped,
     RepeatsNeedALoss, Addressed, Backlog
<1> QED
  BY <1>1, <1>2, <1>3, <1>4, <1>5, <1>6, <1>7, <1>8, <1>9 DEF DeliveryNext
-----------------------------------------------------------------------------
\* The inductive invariant.
LEMMA DeliveryInvAlways == DeliverySpec => []DeliveryInv
<1> QED
  BY DeliveryInitEstablishes, DeliveryNextPreserves, PTL DEF DeliverySpec

\* The variables of the delivery have their types.
THEOREM DeliveryTypeCorrect == DeliverySpec => []DeliveryTypeOK
<1>1. DeliveryInv => DeliveryTypeOK
  BY DEF DeliveryInv
<1> QED
  BY <1>1, DeliveryInvAlways, PTL

\* No participant is ever past a row meant for them that was not written to their stdin
\* (commit_delivery, whatever rows arrive while a page is out).
THEOREM DeliverySkipsNothing == DeliverySpec => []NothingSkipped
<1>1. DeliveryInv => NothingSkipped
  BY DEF DeliveryInv
<1> QED
  BY <1>1, DeliveryInvAlways, PTL

\* A row is handed over once, and once more for every lost record at most.
THEOREM DeliveryRepeatsNeedALoss == DeliverySpec => []RepeatsNeedALoss
<1>1. DeliveryInv => RepeatsNeedALoss
  BY DEF DeliveryInv
<1> QED
  BY <1>1, DeliveryInvAlways, PTL

\* What a participant reads for the first time is newer than all they have read before: a page
\* is a beginning of the backlog and what was handed over is a beginning of the channel.
THEOREM DeliveryReadsInOrder == DeliverySpec => FirstReadsInOrder
<1> DEFINE InOrder == \A p \in Readers : \A i, j \in RowIds :
                        handed[p][i] = 0 /\ handed'[p][i] > 0 /\ handed[p][j] > 0 => j < i
<1>1. DeliveryInv /\ [DeliveryNext]_deliveryVars => [InOrder]_deliveryVars
  <2> SUFFICES ASSUME DeliveryInv, DeliveryNext,
                      NEW p \in Readers, NEW i \in RowIds, NEW j \in RowIds,
                      handed[p][i] = 0, handed'[p][i] > 0, handed[p][j] > 0
               PROVE  j < i
    BY DEF deliveryVars
  <2>1. HandOver
    <3>1. HandOver \/ handed' = handed
      BY DEF DeliveryNext, PostToChannel, BeginDrain, ReadPage, NothingLanded, CommitDelivery,
         LoseRecord, PurgeReceipts
    <3>2. handed' # handed
      OBVIOUS
    <3> QED
      BY <3>1, <3>2
  <2>2. DeliveryTypeOK
    BY DEF DeliveryInv
  <2>3. p = drain.to /\ i \in drain.page /\ drain.step = "offering"
    BY <2>1, <2>2, HandOverAdds
  <2>4. i \in 1..Len(channel) /\ Addressed(p, i)
    BY <2>3 DEF DeliveryInv, PageIsABeginning, Backlog
  <2>5. ~(i < j)
    BY <2>4 DEF DeliveryInv, HandedIsABeginning
  <2>6. i \in Nat /\ j \in Nat
    BY DeliveryAssumption DEF RowIds
  <2> QED
    BY <2>5, <2>6
<1> QED
  BY <1>1, DeliveryInvAlways, PTL DEF DeliverySpec, FirstReadsInOrder
-----------------------------------------------------------------------------
(* The emitter *)

\* Watermarks and first touches that fit what was shown: it is every row from the first one touched
\* to the watermark, and nothing of a session that has none or was not yet flushed.
Fits(marks, first, unflushed) ==
  \A s \in Sessions :
    /\ marks[s] = Unseeded => shownRows[s] = <<>> /\ first[s] = Unseen
    /\ marks[s] # Unseeded =>
         /\ first[s] # Unseen /\ first[s] <= marks[s] + 1 /\ marks[s] <= Len(persisted)
         /\ Shown(s) = {i \in RowsAfter(s, first[s] - 1) : i <= marks[s]}
    /\ s \in unflushed =>
         shownRows[s] = <<>> /\ marks[s] # Unseeded /\ first[s] = marks[s] + 1

\* A session that is touched has a watermark.
DirtyIsSeeded == \A s \in dirty : watermark[s] # Unseeded

BatchesAreInOrder ==
  \A s \in Sessions : \A k, l \in DOMAIN shownRows[s] :
    k < l => \A i \in shownRows[s][k], j \in shownRows[s][l] : i < j

\* A flush reads to the newest row: what is behind the watermark has its notice still to come.
FlushedToTheEnd ==
  \A s \in Sessions \ (dirty \cup missedRead) :
    firstTouched[s] # Unseen =>
      \A i \in RowsAfter(s, firstTouched[s] - 1) : i <= watermark[s] \/ i \in unnotified

EmitterInv ==
  /\ EmitterTypeOK /\ Fits(watermark, firstTouched, seededUnflushed) /\ DirtyIsSeeded
  /\ BatchesAreInOrder /\ FlushedToTheEnd

Above(S, x) == {y \in S : y > x}

\* Every set of rows has a newest one, so Max finds it: among the sets of a row's successors one
\* is minimal for inclusion, and it is empty.
LEMMA MaxIsNewest ==
  ASSUME NEW n \in Nat, NEW S \in SUBSET (1..n), S # {}
  PROVE  Max(S) \in S /\ \A j \in S : j <= Max(S)
<1> DEFINE aboves == {Above(S, x) : x \in S}
<1>1. S \subseteq Nat /\ IsFiniteSet(S)
  <2>1. IsFiniteSet(1..n)
    BY FS_Interval
  <2>2. S \subseteq 1..n
    OBVIOUS
  <2>3. IsFiniteSet(S)
    BY <2>1, <2>2, FS_Subset
  <2> QED
    BY <2>2, <2>3
<1>2. aboves \subseteq FiniteSubsetsOf(S) /\ aboves # {}
  <2>1. FiniteSubsetsOf(S) = SUBSET S
    BY <1>1, FS_FiniteSubsetsOfFinite
  <2>2. aboves \subseteq SUBSET S
    BY DEF Above
  <2>3. aboves # {}
    OBVIOUS
  <2> QED
    BY <2>1, <2>2, <2>3
<1>3. PICK T \in aboves : \A U \in aboves : <<U, T>> \notin StrictSubsetOrdering(S)
  <2>1. IsWellFoundedOn(StrictSubsetOrdering(S), FiniteSubsetsOf(S))
    BY FS_StrictSubsetOrderingWellFounded
  <2> HIDE DEF aboves
  <2> QED
    BY <1>2, <2>1, WFMin
<1>4. PICK m \in S : T = Above(S, m)
  OBVIOUS
<1>5. ASSUME NEW y \in S, y > m
      PROVE  FALSE
  <2>1. \A x \in S : x \in Nat
    BY <1>1
  <2>2. ASSUME NEW x \in Above(S, y)
        PROVE  x \in Above(S, m)
    <3>1. x \in S /\ x > y /\ x \in Nat /\ y \in Nat /\ m \in Nat /\ y > m
      BY <2>1, <1>5 DEF Above
    <3> QED
      BY <3>1 DEF Above
  <2>3. y \in Above(S, m) /\ y \notin Above(S, y)
    BY <2>1, <1>5 DEF Above
  <2>4. Above(S, y) \in SUBSET S /\ Above(S, m) \in SUBSET S /\ Above(S, y) \in aboves
    BY DEF Above
  <2>5. <<Above(S, y), Above(S, m)>> \in StrictSubsetOrdering(S)
    BY <2>2, <2>3, <2>4 DEF StrictSubsetOrdering
  <2> QED
    BY <1>3, <1>4, <2>4, <2>5
<1>6. \A y \in S : m >= y
  BY <1>1, <1>5
<1>7. \A y \in S : Max(S) >= y /\ Max(S) \in S
  BY <1>6 DEF Max
<1> QED
  BY <1>1, <1>6, <1>7 DEF Max

LEMMA EmitterInitEstablishes == EmitterInit => EmitterInv
<1> SUFFICES ASSUME EmitterInit PROVE EmitterInv
  OBVIOUS
<1>1. PICK s \in Sessions : persisted = <<s>>
  BY DEF EmitterInit
<1>2. EmitterTypeOK
  <2>1. <<>> \in Seq(SUBSET Nat) /\ <<s>> \in Seq(Sessions)
    BY <1>1
  <2>2. /\ 0 \in 0..(FlushAtN - 1) /\ 0 \in 0..MaxReadFaults
        /\ Unseeded \in Nat \cup {Unseeded} /\ Unseen \in Nat
    BY EmitterAssumption DEF Unseeded, Unseen
  <2> QED
    BY <1>1, <2>1, <2>2 DEF EmitterInit, EmitterTypeOK
<1>3. Fits(watermark, firstTouched, seededUnflushed) /\ FlushedToTheEnd
  BY DEF EmitterInit, Fits, FlushedToTheEnd
<1>4. DirtyIsSeeded /\ BatchesAreInOrder
  BY DEF EmitterInit, DirtyIsSeeded, BatchesAreInOrder
<1> QED
  BY <1>2, <1>3, <1>4 DEF EmitterInv

\* A row that arrives is behind every watermark, and its notice is under way.
LEMMA PersistPreserves ==
  ASSUME EmitterInv, NEW s \in Sessions, PersistRow(s)
  PROVE  EmitterInv'
<1>1. /\ EmitterTypeOK /\ Len(persisted) \in Nat
      /\ persisted' = Append(persisted, s) /\ persisted' \in Seq(Sessions)
      /\ Len(persisted') = Len(persisted) + 1
      /\ \A i \in 1..Len(persisted) : persisted'[i] = persisted[i]
      /\ unnotified' = unnotified \cup {Len(persisted) + 1}
      /\ UNCHANGED <<watermark, dirty, seededUnflushed, touchesSinceFlush, flushArmed, shownRows,
                     firstTouched, missedRead, readFaults>>
  BY DEF EmitterInv, EmitterTypeOK, PersistRow
<1>2. EmitterTypeOK'
  <2>1. ASSUME NEW i \in unnotified'
        PROVE  i \in 1..Len(persisted')
    <3>1. i \in 1..Len(persisted) \/ i = Len(persisted) + 1
      BY <1>1 DEF EmitterTypeOK
    <3> QED
      BY <1>1, <3>1
  <2> QED
    BY <1>1, <2>1 DEF EmitterTypeOK
<1>3. \A t \in Sessions : Shown(t)' = Shown(t)
  BY <1>1 DEF Shown
<1>4. \A t \in Sessions, id \in Int, i \in Int :
        /\ i \in RowsAfter(t, id)' => i \in RowsAfter(t, id) \/ i = Len(persisted) + 1
        /\ i \in RowsAfter(t, id) => i \in RowsAfter(t, id)' /\ i <= Len(persisted)
  BY <1>1 DEF RowsAfter
<1>5. \A t \in Sessions : firstTouched[t] - 1 \in Int /\ watermark[t] \in Int
  BY <1>1 DEF EmitterTypeOK, Unseeded
<1>6. Fits(watermark, firstTouched, seededUnflushed)'
  <2>1. ASSUME NEW t \in Sessions, watermark[t] # Unseeded
        PROVE  {i \in RowsAfter(t, firstTouched[t] - 1)' : i <= watermark[t]}
                 = {i \in RowsAfter(t, firstTouched[t] - 1) : i <= watermark[t]}
    <3>1. watermark[t] <= Len(persisted)
      BY <2>1 DEF EmitterInv, Fits
    <3>2. RowsAfter(t, firstTouched[t] - 1)' \subseteq Int /\ RowsAfter(t, firstTouched[t] - 1) \subseteq Int
      BY <1>1 DEF RowsAfter
    <3> QED
      BY <1>1, <1>4, <1>5, <3>1, <3>2
  <2>2. ASSUME NEW t \in Sessions
        PROVE  /\ watermark[t] # Unseeded =>
                    /\ watermark[t] <= Len(persisted')
                    /\ Shown(t)' = {i \in RowsAfter(t, firstTouched[t] - 1)' : i <= watermark[t]}
    BY <1>1, <1>3, <1>5, <2>1 DEF EmitterInv, Fits
  <2> QED
    BY <1>1, <2>2 DEF EmitterInv, Fits
<1>7. DirtyIsSeeded' /\ BatchesAreInOrder'
  BY <1>1 DEF EmitterInv, DirtyIsSeeded, BatchesAreInOrder
<1>8. FlushedToTheEnd'
  <2> SUFFICES ASSUME NEW t \in Sessions, t \notin dirty \cup missedRead,
                      firstTouched[t] # Unseen, NEW i \in RowsAfter(t, firstTouched[t] - 1)'
               PROVE  i <= watermark[t] \/ i \in unnotified'
    BY <1>1 DEF FlushedToTheEnd
  <2>1. i \in Int
    BY <1>1 DEF RowsAfter
  <2>2. i \in RowsAfter(t, firstTouched[t] - 1) \/ i = Len(persisted) + 1
    <3>1. i \in 1..(Len(persisted) + 1) /\ persisted'[i] = t /\ i > firstTouched[t] - 1
      BY <1>1 DEF RowsAfter
    <3>2. i # Len(persisted) + 1 => i \in 1..Len(persisted) /\ persisted[i] = t
      BY <1>1, <3>1
    <3> QED
      BY <3>1, <3>2 DEF RowsAfter
  <2> QED
    BY <1>1, <2>2 DEF EmitterInv, FlushedToTheEnd
<1> QED
  BY <1>2, <1>6, <1>7, <1>8 DEF EmitterInv

\* A flush from watermarks that fit leaves watermarks that fit, with every session but those whose
\* read failed read to its end.
LEMMA FlushPreserves ==
  ASSUME EmitterInv, NEW marks \in [Sessions -> Nat \cup {Unseeded}], NEW pending \in SUBSET Sessions,
         FlushOnce(marks, pending), UNCHANGED persisted, unnotified' \subseteq unnotified,
         firstTouched' \in [Sessions -> Nat], dirty \subseteq pending,
         Fits(marks, firstTouched', {}),
         \A s \in pending : marks[s] # Unseeded,
         \A s \in Sessions \ pending :
           /\ marks[s] = watermark[s] /\ firstTouched'[s] = firstTouched[s]
           /\ \A i \in unnotified \ unnotified' : persisted[i] # s
  PROVE  EmitterInv'
<1>1. PICK failing \in SUBSET pending :
        /\ readFaults + Cardinality(failing) <= MaxReadFaults
        /\ readFaults' = readFaults + Cardinality(failing)
        /\ LET newRows == [s \in Sessions |->
                            IF s \in pending \ failing THEN RowsAfter(s, marks[s]) ELSE {}]
           IN /\ watermark' = [s \in Sessions |->
                                 IF newRows[s] = {} THEN marks[s] ELSE Max(newRows[s])]
              /\ shownRows' = [s \in Sessions |->
                                 IF newRows[s] = {} THEN shownRows[s]
                                 ELSE Append(shownRows[s], newRows[s])]
        /\ missedRead' = (missedRead \ pending) \cup failing
        /\ dirty' = {} /\ seededUnflushed' = {}
        /\ touchesSinceFlush' = 0 /\ flushArmed' = FALSE
  BY DEF FlushOnce
<1> DEFINE New(s) == IF s \in pending \ failing THEN RowsAfter(s, marks[s]) ELSE {}
           n == Len(persisted)
<1>2. \A s \in Sessions :
        /\ watermark'[s] = IF New(s) = {} THEN marks[s] ELSE Max(New(s))
        /\ shownRows'[s] = IF New(s) = {} THEN shownRows[s] ELSE Append(shownRows[s], New(s))
  BY <1>1
<1>3. /\ EmitterTypeOK /\ n \in Nat
      /\ \A s \in Sessions : shownRows[s] \in Seq(SUBSET Nat) /\ marks[s] \in Nat \cup {Unseeded}
      /\ \A s \in Sessions : New(s) \in SUBSET (1..n)
  BY DEF EmitterInv, EmitterTypeOK, RowsAfter
<1>4. \A s \in Sessions : \A id : RowsAfter(s, id)' = RowsAfter(s, id)
  BY DEF RowsAfter
<1> HIDE DEF n
<1>5. ASSUME NEW s \in Sessions, New(s) # {}
      PROVE  /\ Max(New(s)) \in New(s) /\ \A i \in New(s) : i <= Max(New(s))
             /\ Max(New(s)) \in Nat /\ Max(New(s)) <= n
  <2> HIDE DEF New
  <2>1. Max(New(s)) \in New(s) /\ \A i \in New(s) : i <= Max(New(s))
    BY <1>3, <1>5, MaxIsNewest
  <2> QED
    BY <1>3, <2>1
<1>6. ASSUME NEW s \in Sessions
      PROVE  Shown(s)' = Shown(s) \cup New(s)
  <2>1. CASE New(s) = {}
    BY <1>2, <2>1 DEF Shown
  <2>2. CASE New(s) # {}
    <3> HIDE DEF New
    <3>1. shownRows'[s] = Append(shownRows[s], New(s)) /\ New(s) \in SUBSET Nat
      <4>1. New(s) \in SUBSET (1..n) /\ 1..n \subseteq Nat
        BY <1>3
      <4>2. New(s) \in SUBSET Nat
        BY <4>1
      <4>3. shownRows'[s] = Append(shownRows[s], New(s))
        BY <1>2, <2>2
      <4> QED
        BY <4>2, <4>3
    <3>2. /\ DOMAIN shownRows'[s] = 1..(Len(shownRows[s]) + 1)
          /\ DOMAIN shownRows[s] = 1..Len(shownRows[s])
          /\ Len(shownRows[s]) \in Nat
          /\ \A k \in 1..Len(shownRows[s]) : shownRows'[s][k] = shownRows[s][k]
          /\ shownRows'[s][Len(shownRows[s]) + 1] = New(s)
      BY <1>3, <3>1
    <3>3. \A k \in DOMAIN shownRows'[s] :
            k \in DOMAIN shownRows[s] \/ k = Len(shownRows[s]) + 1
      BY <3>2
    <3>4. \A i : i \in Shown(s)' <=> \E k \in DOMAIN shownRows'[s] : i \in shownRows'[s][k]
      BY DEF Shown
    <3>5. \A i : i \in Shown(s) <=> \E k \in DOMAIN shownRows[s] : i \in shownRows[s][k]
      BY DEF Shown
    <3>6. ASSUME NEW i, i \in Shown(s)'
          PROVE  i \in Shown(s) \cup New(s)
      <4>1. PICK k \in DOMAIN shownRows'[s] : i \in shownRows'[s][k]
        BY <3>4, <3>6
      <4> QED
        BY <4>1, <3>2, <3>3, <3>5
    <3>7. ASSUME NEW i, i \in Shown(s) \cup New(s)
          PROVE  i \in Shown(s)'
      <4>1. CASE i \in New(s)
        <5>1. Len(shownRows[s]) + 1 \in DOMAIN shownRows'[s]
          BY <3>2
        <5> QED
          BY <4>1, <5>1, <3>2, <3>4
      <4>2. CASE i \in Shown(s)
        <5>1. PICK k \in DOMAIN shownRows[s] : i \in shownRows[s][k]
          BY <3>5, <4>2
        <5>2. k \in DOMAIN shownRows'[s] /\ shownRows'[s][k] = shownRows[s][k]
          BY <3>2
        <5> QED
          BY <5>1, <5>2, <3>4
      <4> QED
        BY <3>7, <4>1, <4>2
    <3> QED
      BY <3>6, <3>7
  <2> QED
    BY <2>1, <2>2
<1>7. EmitterTypeOK'
  <2>1. watermark' \in [Sessions -> Nat \cup {Unseeded}]
    BY <1>1, <1>2, <1>3, <1>5
  <2>2. shownRows' \in [Sessions -> Seq(SUBSET Nat)]
    <3>1. ASSUME NEW s \in Sessions
          PROVE  shownRows'[s] \in Seq(SUBSET Nat)
      <4> HIDE DEF New
      <4>1. New(s) \in SUBSET (1..n) /\ 1..n \subseteq Nat /\ shownRows[s] \in Seq(SUBSET Nat)
        BY <1>3
      <4>2. New(s) \in SUBSET Nat
        BY <4>1
      <4>3. Append(shownRows[s], New(s)) \in Seq(SUBSET Nat)
        BY <4>1, <4>2
      <4>4. shownRows'[s] = shownRows[s] \/ shownRows'[s] = Append(shownRows[s], New(s))
        BY <1>2
      <4> QED
        BY <4>1, <4>3, <4>4
    <3> QED
      BY <1>1, <3>1
  <2>3. readFaults' \in 0..MaxReadFaults
    <3>1. Cardinality(failing) \in Nat
      BY EmitterAssumption, FS_Subset, FS_CardinalityType
    <3>2. readFaults \in Nat
      BY <1>3 DEF EmitterTypeOK
    <3> QED
      BY <1>1, <3>1, <3>2, EmitterAssumption
  <2>4. unnotified' \subseteq 1..Len(persisted') /\ persisted' \in Seq(Sessions)
    BY <1>3 DEF EmitterTypeOK
  <2>5. dirty' \subseteq Sessions /\ seededUnflushed' \subseteq dirty' /\ missedRead' \subseteq Sessions
    BY <1>1, <1>3 DEF EmitterTypeOK
  <2>6. touchesSinceFlush' \in 0..(FlushAtN - 1) /\ flushArmed' \in BOOLEAN
    <3>1. 0 \in 0..(FlushAtN - 1)
      BY EmitterAssumption
    <3>2. touchesSinceFlush' = 0 /\ flushArmed' = FALSE
      BY <1>1
    <3> QED
      BY <3>1, <3>2
  <2>7. firstTouched' \in [Sessions -> Nat]
    OBVIOUS
  <2> QED
    BY <2>1, <2>2, <2>3, <2>4, <2>5, <2>6, <2>7 DEF EmitterTypeOK
<1>8. ASSUME NEW s \in Sessions, New(s) # {}
      PROVE  /\ marks[s] \in Nat /\ watermark'[s] = Max(New(s)) /\ watermark'[s] \in Nat
             /\ watermark'[s] <= n /\ marks[s] < watermark'[s]
             /\ New(s) = RowsAfter(s, marks[s])
             /\ \A i \in RowsAfter(s, marks[s]) : i <= watermark'[s]
  <2>1. s \in pending /\ New(s) = RowsAfter(s, marks[s])
    BY <1>8
  <2>2. marks[s] \in Nat
    BY <1>3, <2>1
  <2>3. Max(New(s)) > marks[s]
    <3>1. Max(New(s)) \in RowsAfter(s, marks[s])
      BY <1>5, <1>8, <2>1
    <3> QED
      BY <3>1 DEF RowsAfter
  <2>4. watermark'[s] = Max(New(s))
    BY <1>2, <1>8
  <2>5. /\ Max(New(s)) \in New(s) /\ \A i \in New(s) : i <= Max(New(s))
        /\ Max(New(s)) \in Nat /\ Max(New(s)) <= n
    BY <1>5, <1>8
  <2> QED
    BY <2>1, <2>2, <2>3, <2>4, <2>5
<1>9. \A s \in Sessions : New(s) = {} => watermark'[s] = marks[s] /\ shownRows'[s] = shownRows[s]
  BY <1>2
<1>10. ASSUME NEW s \in Sessions, watermark'[s] # Unseeded
       PROVE  /\ firstTouched'[s] # Unseen /\ firstTouched'[s] <= watermark'[s] + 1
              /\ watermark'[s] <= n
              /\ Shown(s)' = {i \in RowsAfter(s, firstTouched'[s] - 1) : i <= watermark'[s]}
  <2>1. marks[s] # Unseeded
    <3>1. New(s) # {} => marks[s] # Unseeded
      BY <1>8 DEF Unseeded
    <3> QED
      BY <1>9, <1>10, <3>1
  <2>2. /\ marks[s] \in Nat /\ firstTouched'[s] # Unseen /\ firstTouched'[s] \in Nat
        /\ firstTouched'[s] <= marks[s] + 1 /\ marks[s] <= n
        /\ Shown(s) = {i \in RowsAfter(s, firstTouched'[s] - 1) : i <= marks[s]}
    BY <1>3, <2>1 DEF Fits, n
  <2>3. CASE New(s) = {}
    BY <1>6, <1>9, <2>2, <2>3
  <2>4. CASE New(s) # {}
    <3>1. /\ watermark'[s] \in Nat /\ watermark'[s] <= n /\ marks[s] < watermark'[s]
          /\ New(s) = RowsAfter(s, marks[s])
          /\ \A i \in RowsAfter(s, marks[s]) : i <= watermark'[s]
      BY <1>8, <2>4
    <3>2. Shown(s)' = Shown(s) \cup New(s)
      BY <1>6
    <3> DEFINE w == watermark'[s]
               m == marks[s]
               f == firstTouched'[s]
    <3> HIDE DEF New, w, m, f
    <3>3. \A i : i \in RowsAfter(s, m) <=> i \in RowsAfter(s, f - 1) /\ i > m
      BY <1>3, <2>2 DEF RowsAfter, f, m
    <3>4. \A i \in RowsAfter(s, f - 1) : i \in Int
      BY <1>3 DEF RowsAfter, n
    <3>5. \A i : i \in RowsAfter(s, f - 1) /\ i <= w
                   <=> i \in RowsAfter(s, f - 1) /\ (i <= m \/ i \in RowsAfter(s, m))
      BY <3>1, <3>3, <3>4, <2>2 DEF w, m
    <3>6. Shown(s)' = {i \in RowsAfter(s, f - 1) : i <= w}
      BY <3>1, <3>2, <3>3, <3>5, <2>2 DEF w, m, f
    <3>7. f # Unseen /\ f <= w + 1 /\ w <= n
      BY <3>1, <2>2 DEF w, m, f
    <3> QED
      BY <3>6, <3>7 DEF w, f
  <2> QED
    BY <2>3, <2>4
<1>11. Fits(watermark, firstTouched, seededUnflushed)'
  <2>1. \A s \in Sessions : watermark'[s] = Unseeded => shownRows'[s] = <<>> /\ firstTouched'[s] = Unseen
    <3>1. ASSUME NEW s \in Sessions, watermark'[s] = Unseeded
          PROVE  New(s) = {} /\ marks[s] = Unseeded
      BY <1>8, <1>9, <3>1 DEF Unseeded
    <3> QED
      BY <1>9, <3>1 DEF Fits
  <2>2. \A s \in Sessions : RowsAfter(s, firstTouched[s] - 1)' = RowsAfter(s, firstTouched'[s] - 1)
    BY DEF RowsAfter
  <2>3. n = Len(persisted') /\ seededUnflushed' = {}
    BY <1>1 DEF n
  <2> QED
    BY <1>10, <2>1, <2>2, <2>3 DEF Fits
<1>12. DirtyIsSeeded'
  BY <1>1 DEF DirtyIsSeeded
<1>13. BatchesAreInOrder'
  <2> SUFFICES ASSUME NEW s \in Sessions, NEW k \in DOMAIN shownRows'[s], NEW l \in DOMAIN shownRows'[s],
                      k < l, NEW i \in shownRows'[s][k], NEW j \in shownRows'[s][l]
               PROVE  i < j
    BY DEF BatchesAreInOrder
  <2>1. CASE New(s) = {}
    BY <1>9, <2>1 DEF EmitterInv, BatchesAreInOrder
  <2>2. CASE New(s) # {}
    <3>1. /\ marks[s] \in Nat /\ New(s) = RowsAfter(s, marks[s])
      BY <1>8, <2>2
    <3>2. Shown(s) = {x \in RowsAfter(s, firstTouched'[s] - 1) : x <= marks[s]}
      BY <3>1 DEF Fits, Unseeded
    <3>3. New(s) \in SUBSET Nat /\ shownRows'[s] = Append(shownRows[s], New(s))
      <4>1. New(s) \in SUBSET (1..n) /\ 1..n \subseteq Nat
        BY <1>3
      <4>2. New(s) \in SUBSET Nat
        BY <4>1
      <4> QED
        BY <1>2, <2>2, <4>2
    <3> HIDE DEF New
    <3>4. /\ DOMAIN shownRows'[s] = 1..(Len(shownRows[s]) + 1)
          /\ DOMAIN shownRows[s] = 1..Len(shownRows[s])
          /\ Len(shownRows[s]) \in Nat
          /\ \A x \in 1..Len(shownRows[s]) : shownRows'[s][x] = shownRows[s][x]
          /\ shownRows'[s][Len(shownRows[s]) + 1] = New(s)
      BY <1>3, <3>3
    <3>5. k \in DOMAIN shownRows[s] /\ i \in shownRows[s][k] /\ k \in Nat /\ l \in Nat
      BY <3>4
    <3>6. CASE l \in DOMAIN shownRows[s]
      BY <3>4, <3>5, <3>6 DEF EmitterInv, BatchesAreInOrder
    <3>7. CASE l = Len(shownRows[s]) + 1
      <4>1. j \in New(s) /\ i \in Shown(s)
        BY <3>4, <3>5, <3>7 DEF Shown
      <4>2. i <= marks[s] /\ i \in 1..Len(persisted)
        BY <3>2, <4>1 DEF RowsAfter
      <4>3. j > marks[s] /\ j \in 1..Len(persisted)
        BY <3>1, <4>1 DEF RowsAfter
      <4> QED
        BY <3>1, <4>2, <4>3
    <3> QED
      BY <3>4, <3>5, <3>6, <3>7
  <2> QED
    BY <2>1, <2>2
<1>14. FlushedToTheEnd'
  <2> SUFFICES ASSUME NEW s \in Sessions, s \notin dirty' \cup missedRead', firstTouched'[s] # Unseen,
                      NEW i \in RowsAfter(s, firstTouched'[s] - 1)
               PROVE  i <= watermark'[s] \/ i \in unnotified'
    BY DEF FlushedToTheEnd, RowsAfter
  <2>1. i \in Nat /\ i \in 1..n /\ persisted[i] = s
    BY <1>3 DEF RowsAfter, n
  <2>2. s \notin failing
    BY <1>1
  <2>3. CASE s \in pending
    <3>1. New(s) = RowsAfter(s, marks[s]) /\ marks[s] \in Nat
      BY <1>3, <2>2, <2>3
    <3>2. CASE i > marks[s]
      <4>1. i \in New(s)
        BY <3>1, <3>2, <2>1 DEF RowsAfter, n
      <4> QED
        BY <1>8, <3>1, <4>1
    <3>3. CASE i <= marks[s]
      <4>1. New(s) # {} => i <= watermark'[s]
        BY <1>8, <2>1, <3>1, <3>3
      <4>2. New(s) = {} => i <= watermark'[s]
        BY <1>9, <3>3
      <4> QED
        BY <4>1, <4>2
    <3> QED
      BY <2>1, <3>1, <3>2, <3>3
  <2>4. CASE s \notin pending
    <3>1. New(s) = {} /\ watermark'[s] = watermark[s] /\ firstTouched'[s] = firstTouched[s]
      BY <1>9, <2>4
    <3>2. s \notin dirty /\ s \notin missedRead
      BY <1>1, <2>4
    <3>3. i <= watermark[s] \/ i \in unnotified
      BY <3>1, <3>2 DEF EmitterInv, FlushedToTheEnd
    <3> QED
      BY <3>1, <3>3, <2>1, <2>4
  <2> QED
    BY <2>3, <2>4
<1> QED
  BY <1>7, <1>11, <1>12, <1>13, <1>14 DEF EmitterInv

\* The touch of a row gives its session a watermark and a first touch that fit.
LEMMA SeedFits ==
  ASSUME EmitterInv, NEW i \in unnotified,
         NEW first, first = IF persisted[i] \in SeededNow(persisted[i])
                               /\ (firstTouched[persisted[i]] = Unseen
                                     \/ i < firstTouched[persisted[i]])
                            THEN [firstTouched EXCEPT ![persisted[i]] = i] ELSE firstTouched
  PROVE  /\ persisted[i] \in Sessions /\ SeededNow(persisted[i]) \subseteq dirty \cup {persisted[i]}
         /\ Seeded(persisted[i], i) \in [Sessions -> Nat \cup {Unseeded}]
         /\ first \in [Sessions -> Nat]
         /\ Fits(Seeded(persisted[i], i), first, SeededNow(persisted[i]))
         /\ Seeded(persisted[i], i)[persisted[i]] # Unseeded
         /\ \A t \in Sessions \ {persisted[i]} :
              Seeded(persisted[i], i)[t] = watermark[t] /\ first[t] = firstTouched[t]
<1> DEFINE s == persisted[i]
           marks == Seeded(s, i)
<1>1. s \in Sessions /\ i \in Nat /\ i > 0 /\ i <= Len(persisted)
  BY DEF EmitterInv, EmitterTypeOK
<1>2. /\ watermark \in [Sessions -> Nat \cup {Unseeded}] /\ firstTouched \in [Sessions -> Nat]
      /\ seededUnflushed \subseteq dirty /\ Fits(watermark, firstTouched, seededUnflushed)
  BY DEF EmitterInv, EmitterTypeOK
<1>3. i - 1 \in Nat
  BY <1>1
<1>4. marks \in [Sessions -> Nat \cup {Unseeded}] /\ first \in [Sessions -> Nat]
  <2>1. [watermark EXCEPT ![s] = i - 1] \in [Sessions -> Nat \cup {Unseeded}]
    BY <1>1, <1>2, <1>3
  <2> QED
    BY <1>1, <1>2, <2>1 DEF Seeded
<1>5. \A t \in Sessions \ {s} : marks[t] = watermark[t] /\ first[t] = firstTouched[t]
  BY <1>1, <1>2 DEF Seeded
<1>6. SeededNow(s) \subseteq dirty \cup {s} /\ SeededNow(s) \ {s} = seededUnflushed \ {s}
  BY <1>2 DEF SeededNow
<1>7. /\ marks[s] # Unseeded /\ first[s] # Unseen /\ first[s] <= marks[s] + 1
      /\ marks[s] <= Len(persisted)
      /\ Shown(s) = {j \in RowsAfter(s, first[s] - 1) : j <= marks[s]}
      /\ s \in SeededNow(s) => shownRows[s] = <<>> /\ first[s] = marks[s] + 1
  <2>1. CASE watermark[s] = Unseeded \/ (s \in seededUnflushed /\ i - 1 < watermark[s])
    <3>1. marks[s] = i - 1
      BY <1>1, <1>2, <2>1 DEF Seeded
    <3>2. shownRows[s] = <<>> /\ s \in SeededNow(s)
      BY <1>1, <1>2, <2>1 DEF Fits, SeededNow
    <3>3. firstTouched[s] = Unseen \/ i < firstTouched[s]
      BY <1>1, <1>2, <2>1 DEF Fits
    <3>4. first[s] = i
      BY <1>1, <1>2, <3>2, <3>3
    <3>5. Shown(s) = {}
      BY <3>2 DEF Shown
    <3>6. {j \in RowsAfter(s, i - 1) : j <= i - 1} = {}
      BY <1>1 DEF RowsAfter
    <3> HIDE DEF s, marks
    <3> QED
      BY <1>1, <3>1, <3>2, <3>4, <3>5, <3>6 DEF Unseeded, Unseen
  <2>2. CASE ~(watermark[s] = Unseeded \/ (s \in seededUnflushed /\ i - 1 < watermark[s]))
    <3>1. marks[s] = watermark[s] /\ watermark[s] # Unseeded
      BY <2>2 DEF Seeded
    <3>2. SeededNow(s) = seededUnflushed
      BY <2>2 DEF SeededNow
    <3>3. /\ firstTouched[s] # Unseen /\ firstTouched[s] <= watermark[s] + 1
          /\ watermark[s] <= Len(persisted)
          /\ Shown(s) = {j \in RowsAfter(s, firstTouched[s] - 1) : j <= watermark[s]}
          /\ s \in seededUnflushed => shownRows[s] = <<>> /\ firstTouched[s] = watermark[s] + 1
      BY <1>1, <1>2, <3>1 DEF Fits
    <3>4. first = firstTouched
      BY <1>1, <1>2, <2>2, <3>1, <3>2, <3>3 DEF Unseeded
    <3> QED
      BY <3>1, <3>2, <3>3, <3>4
  <2> QED
    BY <2>1, <2>2
<1>8. Fits(marks, first, SeededNow(s))
  <2>1. ASSUME NEW t \in Sessions, t # s
        PROVE  /\ marks[t] = watermark[t] /\ first[t] = firstTouched[t]
               /\ t \in SeededNow(s) => t \in seededUnflushed
    BY <1>5, <1>6, <2>1
  <2> HIDE DEF s, marks
  <2> QED
    BY <1>2, <1>7, <2>1 DEF Fits
<1> QED
  BY <1>1, <1>4, <1>5, <1>6, <1>7, <1>8

LEMMA TouchPreserves ==
  ASSUME EmitterInv, NEW i \in 1..Len(persisted), Touch(i)
  PROVE  EmitterInv'
<1> DEFINE s == persisted[i]
           marks == Seeded(s, i)
<1>1. i \in unnotified /\ unnotified' = unnotified \ {i} /\ UNCHANGED persisted
  BY DEF Touch
<1>2. firstTouched' = IF s \in SeededNow(s) /\ (firstTouched[s] = Unseen \/ i < firstTouched[s])
                      THEN [firstTouched EXCEPT ![s] = i] ELSE firstTouched
  BY DEF Touch
<1>3. /\ s \in Sessions /\ SeededNow(s) \subseteq dirty \cup {s}
      /\ marks \in [Sessions -> Nat \cup {Unseeded}] /\ firstTouched' \in [Sessions -> Nat]
      /\ Fits(marks, firstTouched', SeededNow(s)) /\ marks[s] # Unseeded
      /\ \A t \in Sessions \ {s} : marks[t] = watermark[t] /\ firstTouched'[t] = firstTouched[t]
  BY <1>1, <1>2, SeedFits
<1>4. EmitterTypeOK
  BY DEF EmitterInv
<1>5. \A t \in dirty \cup {s} : marks[t] # Unseeded
  BY <1>3, <1>4 DEF EmitterInv, EmitterTypeOK, DirtyIsSeeded
<1>6. CASE FlushOnce(marks, dirty \cup {s})
  <2>1. Fits(marks, firstTouched', {})
    BY <1>3 DEF Fits
  <2>2. dirty \cup {s} \in SUBSET Sessions
    BY <1>3, <1>4 DEF EmitterTypeOK
  <2>3. \A t \in Sessions \ (dirty \cup {s}) :
          /\ marks[t] = watermark[t] /\ firstTouched'[t] = firstTouched[t]
          /\ \A j \in unnotified \ unnotified' : persisted[j] # t
    BY <1>1, <1>3
  <2> DEFINE pending == dirty \cup {s}
  <2>4. /\ unnotified' \subseteq unnotified /\ dirty \subseteq pending
        /\ FlushOnce(marks, pending) /\ \A t \in pending : marks[t] # Unseeded
    BY <1>1, <1>5, <1>6
  <2> HIDE DEF s, marks, pending
  <2> QED
    BY <1>1, <1>3, <2>1, <2>2, <2>3, <2>4, FlushPreserves DEF pending
<1>7. CASE /\ touchesSinceFlush + 1 < FlushAtN
           /\ watermark' = marks
           /\ seededUnflushed' = SeededNow(s)
           /\ dirty' = dirty \cup {s}
           /\ touchesSinceFlush' = touchesSinceFlush + 1
           /\ flushArmed' = TRUE
           /\ UNCHANGED <<shownRows, missedRead, readFaults>>
  <2>1. EmitterTypeOK'
    <3>1. touchesSinceFlush' \in 0..(FlushAtN - 1)
      BY <1>4, <1>7, EmitterAssumption DEF EmitterTypeOK
    <3>2. unnotified' \subseteq 1..Len(persisted') /\ persisted' \in Seq(Sessions)
      BY <1>1, <1>4 DEF EmitterTypeOK
    <3>3. dirty' \subseteq Sessions /\ seededUnflushed' \subseteq dirty'
      BY <1>3, <1>4, <1>7 DEF EmitterTypeOK
    <3> HIDE DEF s, marks
    <3> QED
      BY <1>3, <1>4, <1>7, <3>1, <3>2, <3>3 DEF EmitterTypeOK
  <2>2. Fits(watermark, firstTouched, seededUnflushed)'
    <3>1. \A t \in Sessions : RowsAfter(t, firstTouched[t] - 1)' = RowsAfter(t, firstTouched'[t] - 1)
      BY <1>1 DEF RowsAfter
    <3>2. \A t \in Sessions : Shown(t)' = Shown(t)
      BY <1>7 DEF Shown
    <3> HIDE DEF s, marks
    <3>3. Fits(watermark', firstTouched', seededUnflushed')
      BY <1>3, <1>7
    <3> QED
      BY <1>1, <1>7, <3>1, <3>2, <3>3 DEF Fits
  <2>3. DirtyIsSeeded' /\ BatchesAreInOrder'
    BY <1>5, <1>7 DEF EmitterInv, DirtyIsSeeded, BatchesAreInOrder
  <2>4. FlushedToTheEnd'
    <3> SUFFICES ASSUME NEW t \in Sessions, t \notin dirty' \cup missedRead',
                        firstTouched'[t] # Unseen, NEW j \in RowsAfter(t, firstTouched'[t] - 1)
                 PROVE  j <= watermark'[t] \/ j \in unnotified'
      BY <1>1 DEF FlushedToTheEnd, RowsAfter
    <3>1. t # s /\ t \notin dirty \cup missedRead
      BY <1>7
    <3>2. firstTouched'[t] = firstTouched[t] /\ watermark'[t] = watermark[t]
      BY <1>3, <1>7, <3>1
    <3>3. j # i
      BY <3>1 DEF RowsAfter
    <3>4. j <= watermark[t] \/ j \in unnotified
      BY <3>1, <3>2 DEF EmitterInv, FlushedToTheEnd
    <3> QED
      BY <1>1, <3>2, <3>3, <3>4
  <2> QED
    BY <2>1, <2>2, <2>3, <2>4 DEF EmitterInv
<1> QED
  BY <1>6, <1>7 DEF Touch

LEMMA FlushDuePreserves ==
  ASSUME EmitterInv, FlushDue
  PROVE  EmitterInv'
<1>1. /\ FlushOnce(watermark, dirty) /\ UNCHANGED <<persisted, unnotified, firstTouched>>
  BY DEF FlushDue
<1>2. /\ watermark \in [Sessions -> Nat \cup {Unseeded}] /\ dirty \in SUBSET Sessions
      /\ firstTouched' \in [Sessions -> Nat] /\ \A s \in dirty : watermark[s] # Unseeded
  BY <1>1 DEF EmitterInv, EmitterTypeOK, DirtyIsSeeded
<1>3. Fits(watermark, firstTouched', {})
  BY <1>1 DEF EmitterInv, Fits
<1>4. \A s \in Sessions \ dirty :
        /\ watermark[s] = watermark[s] /\ firstTouched'[s] = firstTouched[s]
        /\ \A i \in unnotified \ unnotified' : persisted[i] # s
  BY <1>1
<1> QED
  BY <1>1, <1>2, <1>3, <1>4, FlushPreserves

LEMMA EmitterNextPreserves == EmitterInv /\ [EmitterNext]_emitterVars => EmitterInv'
<1> SUFFICES ASSUME EmitterInv, [EmitterNext]_emitterVars PROVE EmitterInv'
  OBVIOUS
<1>1. CASE UNCHANGED emitterVars
  BY <1>1 DEF emitterVars, EmitterInv, EmitterTypeOK, Fits, Shown, RowsAfter, DirtyIsSeeded,
              BatchesAreInOrder, FlushedToTheEnd
<1>2. ASSUME NEW s \in Sessions, PersistRow(s)
      PROVE  EmitterInv'
  BY <1>2, PersistPreserves
<1>3. ASSUME NEW i \in 1..Len(persisted), Touch(i)
      PROVE  EmitterInv'
  BY <1>3, TouchPreserves
<1>4. CASE FlushDue
  BY <1>4, FlushDuePreserves
<1> QED
  BY <1>1, <1>2, <1>3, <1>4 DEF EmitterNext

LEMMA EmitterInvAlways == EmitterSpec => []EmitterInv
<1> QED
  BY EmitterInitEstablishes, EmitterNextPreserves, PTL DEF EmitterSpec

\* What was shown of a session that fits is a gapless run of its rows, to the newest one when the
\* last flush read to the end.
LEMMA FittingRowsAreShown == EmitterInv => ShownInOrderWithoutGaps
<1> SUFFICES ASSUME EmitterInv, NEW s \in Sessions
             PROVE  /\ \A k, l \in DOMAIN shownRows[s] :
                         k < l => \A i \in shownRows[s][k], j \in shownRows[s][l] : i < j
                    /\ \A j \in Shown(s) :
                         {i \in RowsAfter(s, firstTouched[s] - 1) : i <= j}
                           = {i \in Shown(s) : i <= j}
                    /\ s \notin dirty \cup missedRead /\ firstTouched[s] # Unseen =>
                         RowsAfter(s, firstTouched[s] - 1) \subseteq Shown(s) \cup unnotified
  BY DEF ShownInOrderWithoutGaps
<1>1. \A k, l \in DOMAIN shownRows[s] :
        k < l => \A i \in shownRows[s][k], j \in shownRows[s][l] : i < j
  BY DEF EmitterInv, BatchesAreInOrder
<1>2. CASE watermark[s] = Unseeded
  BY <1>1, <1>2 DEF EmitterInv, Fits, Shown
<1>3. CASE watermark[s] # Unseeded
  <2>1. /\ Shown(s) = {i \in RowsAfter(s, firstTouched[s] - 1) : i <= watermark[s]}
        /\ watermark[s] \in Int
    BY <1>3 DEF EmitterInv, Fits, EmitterTypeOK
  <2>2. \A i \in RowsAfter(s, firstTouched[s] - 1) : i \in Int
    BY DEF EmitterInv, EmitterTypeOK, RowsAfter
  <2>3. \A j \in Shown(s) :
          {i \in RowsAfter(s, firstTouched[s] - 1) : i <= j} = {i \in Shown(s) : i <= j}
    BY <2>1, <2>2
  <2>4. s \notin dirty \cup missedRead /\ firstTouched[s] # Unseen =>
          RowsAfter(s, firstTouched[s] - 1) \subseteq Shown(s) \cup unnotified
    BY <2>1 DEF EmitterInv, FlushedToTheEnd
  <2> QED
    BY <1>1, <2>3, <2>4
<1> QED
  BY <1>2, <1>3

\* The emitter's state keeps its type.
THEOREM EmitterTypeCorrect == EmitterSpec => []EmitterTypeOK
<1>1. EmitterInv => EmitterTypeOK
  BY DEF EmitterInv
<1> QED
  BY <1>1, EmitterInvAlways, PTL

\* The screen is sent every row of a session once and in order from the lowest row touched before
\* the first flush on, however notices overtake each other and whichever reads fail; and a session
\* that is neither dirty nor missed a read was sent every row anybody gave notice of.
THEOREM EmitterShowsAll == EmitterSpec => []ShownInOrderWithoutGaps
<1> QED
  BY EmitterInvAlways, FittingRowsAreShown, PTL
=============================================================================
