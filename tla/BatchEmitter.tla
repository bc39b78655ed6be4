---------------------------- MODULE BatchEmitter ----------------------------
(***************************************************************************)
(* How rows of the channels reach the screen (tauri_events/batch_emitter.rs *)
(* and the notices it is fed by).  Concurrent writers persist rows and then *)
(* notify; the emitter collects the notices and, now and then, reads what   *)
(* is newer than a watermark of its own and shows it.                       *)
(***************************************************************************)
EXTENDS Integers, Sequences, FiniteSetsExt

CONSTANTS
  Sessions,
  FlushAtN,       \* FLUSH_AT_N
  MaxPersisted,   \* bound: rows written
  MaxReadFaults   \* bound: reads of the storage that fail

ASSUME EmitterAssumption ==
  /\ IsFiniteSet(Sessions)
  /\ FlushAtN \in Nat \ {0}
  /\ MaxPersisted \in Nat
  /\ MaxReadFaults \in Nat

VARIABLES
  persisted,      \* messages: the session of each row, in the order of the ids
  unnotified,     \* the rows whose notice is still under way to the emitter
  watermark,      \* watermarks, Unseeded when the map has no entry
  dirty,          \* the sessions touched since the last flush
  seededUnflushed,
  touchesSinceFlush,
  flushArmed,     \* flush_at is set
  shownRows,      \* history: per session, the batches emitted; the rows of one go oldest first
  firstTouched,   \* history: per session, the lowest row touched before its first flush
  missedRead,     \* history: the sessions whose last read failed
  readFaults

emitterVars == <<persisted, unnotified, watermark, dirty, seededUnflushed, touchesSinceFlush,
                 flushArmed, shownRows, firstTouched, missedRead, readFaults>>

Unseeded == -1
Unseen == 0

EmitterTypeOK ==
  /\ persisted \in Seq(Sessions)
  /\ unnotified \subseteq 1..Len(persisted)
  /\ watermark \in [Sessions -> Nat \cup {Unseeded}]
  /\ dirty \subseteq Sessions /\ seededUnflushed \subseteq dirty /\ missedRead \subseteq Sessions
  /\ touchesSinceFlush \in 0..(FlushAtN - 1)
  /\ flushArmed \in BOOLEAN
  /\ shownRows \in [Sessions -> Seq(SUBSET Nat)]
  /\ firstTouched \in [Sessions -> Nat]
  /\ readFaults \in 0..MaxReadFaults

\* The program starts over a session that has a row of an earlier launch, which the screen loads
\* by itself.
EmitterInit ==
  /\ \E s \in Sessions : persisted = <<s>>
  /\ unnotified = {} /\ dirty = {} /\ seededUnflushed = {} /\ missedRead = {}
  /\ watermark = [s \in Sessions |-> Unseeded]
  /\ touchesSinceFlush = 0 /\ flushArmed = FALSE /\ readFaults = 0
  /\ shownRows = [s \in Sessions |-> <<>>]
  /\ firstTouched = [s \in Sessions |-> Unseen]
-----------------------------------------------------------------------------
\* A writer inserts a row; its notice follows after the writer's own await.
PersistRow(s) ==
  /\ Len(persisted) <= MaxPersisted
  /\ persisted' = Append(persisted, s)
  /\ unnotified' = unnotified \cup {Len(persisted) + 1}
  /\ UNCHANGED <<watermark, dirty, seededUnflushed, touchesSinceFlush, flushArmed, shownRows,
                 firstTouched, missedRead, readFaults>>

\* messages_for_session: the rows after an id, which it returns oldest first.
RowsAfter(s, id) == {i \in 1..Len(persisted) : persisted[i] = s /\ i > id}

\* flush_once over the sessions touched so far: each is read from its watermark on, and what is
\* read is emitted.  A read that fails leaves the watermark; the session is no longer dirty.
FlushOnce(marks, pending) ==
  \E failing \in SUBSET pending :
    /\ readFaults + Cardinality(failing) <= MaxReadFaults
    /\ readFaults' = readFaults + Cardinality(failing)
    /\ LET newRows == [s \in Sessions |->
                        IF s \in pending \ failing THEN RowsAfter(s, marks[s]) ELSE {}]
       IN /\ watermark' = [s \in Sessions |->
                             IF newRows[s] = {} THEN marks[s] ELSE Max(newRows[s])]
          /\ shownRows' = [s \in Sessions |->
                             IF newRows[s] = {} THEN shownRows[s]
                             ELSE Append(shownRows[s], newRows[s])]
    /\ missedRead' = (missedRead \ pending) \cup failing
    /\ dirty' = {} /\ seededUnflushed' = {}
    /\ touchesSinceFlush' = 0 /\ flushArmed' = FALSE

\* Mutant of Seeded: the first touch alone seeds the watermark.
SeededOnce(s, id) ==
  IF watermark[s] = Unseeded THEN [watermark EXCEPT ![s] = id - 1] ELSE watermark

\* The first touch of a session seeds its watermark to the row before; until the first flush a
\* later touch may lower the seed.
Seeded(s, id) ==
  IF watermark[s] = Unseeded \/ (s \in seededUnflushed /\ id - 1 < watermark[s])
  THEN [watermark EXCEPT ![s] = id - 1] ELSE watermark

SeededNow(s) == IF watermark[s] = Unseeded THEN seededUnflushed \cup {s} ELSE seededUnflushed

\* EmitMsg::Touch; the FlushAtN-th since the last flush flushes at once, an earlier one arms
\* the timer.
Touch(i) ==
  /\ i \in unnotified
  /\ unnotified' = unnotified \ {i}
  /\ LET s == persisted[i]
     IN /\ firstTouched' =
             IF s \in SeededNow(s) /\ (firstTouched[s] = Unseen \/ i < firstTouched[s])
             THEN [firstTouched EXCEPT ![s] = i] ELSE firstTouched
        /\ \/ /\ touchesSinceFlush + 1 >= FlushAtN
              /\ FlushOnce(Seeded(s, i), dirty \cup {s})
           \/ /\ touchesSinceFlush + 1 < FlushAtN
              /\ watermark' = Seeded(s, i)
              /\ seededUnflushed' = SeededNow(s)
              /\ dirty' = dirty \cup {s}
              /\ touchesSinceFlush' = touchesSinceFlush + 1
              /\ flushArmed' = TRUE
              /\ UNCHANGED <<shownRows, missedRead, readFaults>>
  /\ UNCHANGED persisted

\* The timer.
FlushDue ==
  /\ flushArmed
  /\ FlushOnce(watermark, dirty)
  /\ UNCHANGED <<persisted, unnotified, firstTouched>>

EmitterNext ==
  \/ \E s \in Sessions : PersistRow(s)
  \/ \E i \in 1..Len(persisted) : Touch(i)
  \/ FlushDue

EmitterSpec == EmitterInit /\ [][EmitterNext]_emitterVars
-----------------------------------------------------------------------------
Shown(s) == UNION {shownRows[s][k] : k \in DOMAIN shownRows[s]}

\* What the screen was sent of a session is, from the lowest row touched before its first flush
\* on, every row of it once and in order, whatever order the notices came in; and with nothing
\* dirty and no failed read in between it has reached the newest row anybody gave notice of.
ShownInOrderWithoutGaps ==
  \A s \in Sessions :
    /\ \A k, l \in DOMAIN shownRows[s] :
         k < l => \A i \in shownRows[s][k], j \in shownRows[s][l] : i < j
    /\ \A j \in Shown(s) :
         {i \in RowsAfter(s, firstTouched[s] - 1) : i <= j} = {i \in Shown(s) : i <= j}
    /\ s \notin dirty \cup missedRead /\ firstTouched[s] # Unseen =>
         RowsAfter(s, firstTouched[s] - 1) \subseteq Shown(s) \cup unnotified
=============================================================================
