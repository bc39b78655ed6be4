------------------------ MODULE RingProperties_proofs ------------------------
(***************************************************************************)
(* Proofs about what a live session promises, for every roster, every       *)
(* channel and every budget of inputs: how many turns a round may have,     *)
(* that a staged message has a boundary to wait for, what "everyone is      *)
(* done" and "everyone passed" amount to, and that a pending gate holds.    *)
(*                                                                         *)
(* What bounds a round is what is owed: the summons queued, held back with  *)
(* a release, under way to the ring, or scheduled by a retry.  The first    *)
(* part counts the commands under way; the second keeps the accounts; the   *)
(* others follow what a latch or a history stands for while commands about  *)
(* it are still under way.                                                  *)
(***************************************************************************)
EXTENDS RingSession_proofs

\* Where a queue holds a command of the set K, and how many it holds.
Marks(queue, K) == {i \in DOMAIN queue : queue[i] \in K}
Count(queue, K) == Cardinality(Marks(queue, K))

\* Those under way to the ring.
Traffic(K) == Count(rx, K) + Count(deferred, K) + Count(held, K)

\* How much one command of the set counts.
One(c, K) == IF c \in K THEN 1 ELSE 0
-----------------------------------------------------------------------------
(* Counting *)

\* A count is a number, and it is zero when nothing is marked.
LEMMA CountTypes ==
  ASSUME NEW queue \in Seq(Command), NEW K
  PROVE  /\ IsFiniteSet(Marks(queue, K)) /\ Count(queue, K) \in Nat
         /\ Count(queue, K) = 0 <=> \A i \in DOMAIN queue : queue[i] \notin K
<1>1. DOMAIN queue = 1..Len(queue) /\ Len(queue) \in Nat
  BY LenProperties
<1>2. IsFiniteSet(DOMAIN queue)
  BY <1>1, FS_Interval
<1>3. IsFiniteSet(Marks(queue, K))
  BY <1>2, FS_Subset DEF Marks
<1>4. Count(queue, K) \in Nat /\ (Count(queue, K) = 0 <=> Marks(queue, K) = {})
  BY <1>3, FS_CardinalityType, FS_EmptySet DEF Count
<1> QED
  BY <1>3, <1>4 DEF Marks

LEMMA CountEmpty ==
  ASSUME NEW K
  PROVE  Count(<<>>, K) = 0
<1>1. Marks(<<>>, K) = {}
  BY DEF Marks
<1> QED
  BY <1>1, FS_EmptySet DEF Count

\* A command more counts one more at most.
LEMMA CountAppend ==
  ASSUME NEW queue \in Seq(Command), NEW c \in Command, NEW K
  PROVE  Count(Append(queue, c), K) <= Count(queue, K) + One(c, K)
<1> DEFINE longer == Append(queue, c)
           last == Len(queue) + 1
<1>1. /\ longer \in Seq(Command) /\ Len(longer) = last /\ longer[last] = c
      /\ \A i \in 1..Len(queue) : longer[i] = queue[i]
  BY AppendProperties
<1>2. DOMAIN queue = 1..Len(queue) /\ DOMAIN longer = 1..last /\ Len(queue) \in Nat
  BY <1>1, LenProperties
<1> HIDE DEF longer
<1>3. IsFiniteSet(Marks(queue, K)) /\ Count(queue, K) \in Nat
  BY CountTypes
<1>4. CASE c \in K
  <2>1. Marks(longer, K) = Marks(queue, K) \cup {last} /\ last \notin Marks(queue, K)
    BY <1>1, <1>2, <1>4 DEF Marks
  <2>2. Cardinality(Marks(longer, K)) = Cardinality(Marks(queue, K)) + 1
    BY <1>3, <2>1, FS_AddElement
  <2> QED
    BY <1>3, <1>4, <2>2 DEF Count, One, longer
<1>5. CASE c \notin K
  <2>1. Marks(longer, K) = Marks(queue, K)
    BY <1>1, <1>2, <1>5 DEF Marks
  <2> QED
    BY <1>3, <1>5, <2>1 DEF Count, One, longer
<1> QED
  BY <1>4, <1>5

\* The head taken off, the rest counts that much less.
LEMMA CountTail ==
  ASSUME NEW queue \in Seq(Command), queue # <<>>, NEW K
  PROVE  Count(Tail(queue), K) + One(Head(queue), K) <= Count(queue, K)
<1> DEFINE rest == Tail(queue)
           f == [i \in Marks(rest, K) |-> i + 1]
<1>1. /\ rest \in Seq(Command) /\ Len(rest) = Len(queue) - 1
      /\ \A i \in 1..Len(rest) : rest[i] = queue[i + 1]
      /\ DOMAIN queue = 1..Len(queue) /\ Len(queue) \in Nat \ {0} /\ DOMAIN rest = 1..Len(rest)
  BY HeadTailProperties, LenProperties, EmptySeq
<1>2. Head(queue) = queue[1]
  BY <1>1
<1> HIDE DEF rest
<1>3. /\ IsFiniteSet(Marks(queue, K)) /\ Count(queue, K) \in Nat
      /\ IsFiniteSet(Marks(rest, K)) /\ Count(rest, K) \in Nat
  BY <1>1, CountTypes
<1>4. IsFiniteSet(Marks(queue, K) \ {1})
  BY <1>3, FS_RemoveElement
<1>5. f \in Injection(Marks(rest, K), Marks(queue, K) \ {1})
  <2>1. \A i \in Marks(rest, K) : i \in Nat /\ i # 0 /\ i + 1 \in Marks(queue, K)
    BY <1>1 DEF Marks
  <2>2. f \in [Marks(rest, K) -> Marks(queue, K) \ {1}]
    BY <2>1
  <2>3. \A i, j \in Marks(rest, K) : f[i] = f[j] => i = j
    BY <2>1
  <2> QED
    BY <2>2, <2>3 DEF Injection, IsInjective
<1>6. Count(rest, K) <= Cardinality(Marks(queue, K) \ {1})
  BY <1>4, <1>5, FS_Injection DEF Count
<1>7. Cardinality(Marks(queue, K) \ {1}) = Count(queue, K) - One(Head(queue), K)
  <2>1. 1 \in Marks(queue, K) <=> Head(queue) \in K
    BY <1>1, <1>2 DEF Marks
  <2>2. Cardinality(Marks(queue, K) \ {1}) =
          IF 1 \in Marks(queue, K) THEN Count(queue, K) - 1 ELSE Count(queue, K)
    BY <1>3, FS_RemoveElement DEF Count
  <2> QED
    BY <1>3, <2>1, <2>2 DEF One
<1>8. One(Head(queue), K) \in Nat
  BY DEF One
<1> QED
  BY <1>3, <1>6, <1>7, <1>8 DEF rest

\* One queue behind another counts no more than both.
LEMMA CountConcat ==
  ASSUME NEW p \in Seq(Command), NEW q \in Seq(Command), NEW K
  PROVE  Count(p \o q, K) <= Count(p, K) + Count(q, K)
<1> DEFINE both == p \o q
           late == Marks(both, K) \ Marks(p, K)
           f == [i \in late |-> i - Len(p)]
<1>1. /\ both \in Seq(Command) /\ Len(both) = Len(p) + Len(q)
      /\ \A i \in 1..(Len(p) + Len(q)) : both[i] = IF i <= Len(p) THEN p[i] ELSE q[i - Len(p)]
      /\ DOMAIN p = 1..Len(p) /\ DOMAIN q = 1..Len(q) /\ Len(p) \in Nat /\ Len(q) \in Nat
  BY ConcatProperties, LenProperties
<1>2. DOMAIN both = 1..(Len(p) + Len(q))
  BY <1>1, LenProperties
<1> HIDE DEF both
<1>3. /\ IsFiniteSet(Marks(p, K)) /\ Count(p, K) \in Nat
      /\ IsFiniteSet(Marks(q, K)) /\ Count(q, K) \in Nat
      /\ IsFiniteSet(Marks(both, K)) /\ Count(both, K) \in Nat
  BY <1>1, CountTypes
<1>4. IsFiniteSet(late) /\ Cardinality(late) \in Nat
  BY <1>3, FS_Difference, FS_CardinalityType
<1>5. f \in Injection(late, Marks(q, K))
  <2>1. \A i \in late : i \in Nat /\ i - Len(p) \in Marks(q, K)
    <3> SUFFICES ASSUME NEW i \in late PROVE i \in Nat /\ i - Len(p) \in Marks(q, K)
      OBVIOUS
    <3>1. i \in 1..(Len(p) + Len(q)) /\ both[i] \in K
      BY <1>2 DEF Marks
    <3>2. i \notin 1..Len(p)
      BY <1>1, <3>1 DEF Marks
    <3> QED
      BY <1>1, <3>1, <3>2 DEF Marks
  <2>2. f \in [late -> Marks(q, K)]
    BY <2>1
  <2>3. \A i, j \in late : f[i] = f[j] => i = j
    BY <1>1, <2>1
  <2> QED
    BY <2>2, <2>3 DEF Injection, IsInjective
<1>6. Cardinality(late) <= Count(q, K)
  BY <1>3, <1>5, FS_Injection DEF Count
<1>7. Cardinality(late) = Count(both, K) - Cardinality(Marks(both, K) \cap Marks(p, K))
  BY <1>3, FS_Difference DEF Count
<1>8. /\ Cardinality(Marks(both, K) \cap Marks(p, K)) <= Count(p, K)
      /\ Cardinality(Marks(both, K) \cap Marks(p, K)) \in Nat
  BY <1>3, FS_Intersection, FS_CardinalityType DEF Count
<1> QED
  BY <1>3, <1>4, <1>6, <1>7, <1>8 DEF both
-----------------------------------------------------------------------------
(* The ring makes no commands of its own but a pass and a spin's halt *)

\* A set of commands the ring never sends itself.
Foreign(K) == \A c \in K : c \in Command => c.type \notin {"TurnComplete", "HaltDeclared"}

LEMMA TrafficTypes ==
  ASSUME RestTypeOK, NEW K
  PROVE  /\ Count(rx, K) \in Nat /\ Count(deferred, K) \in Nat /\ Count(held, K) \in Nat
         /\ Traffic(K) \in Nat
BY CountTypes DEF RestTypeOK, Traffic

\* The traffic before and after a step, queue by queue.
LEMMA TrafficParts ==
  ASSUME NEW K
  PROVE  /\ Traffic(K) = Count(rx, K) + Count(deferred, K) + Count(held, K)
         /\ Traffic(K)' = Count(rx', K) + Count(deferred', K) + Count(held', K)
BY DEF Traffic, Count, Marks

\* Reading a command takes it off the queue it is read from.
LEMMA ReadingCounts ==
  ASSUME RestTypeOK, HasCommand, NEW K
  PROVE  /\ Count(RxRest, K) \in Nat /\ Count(DeferredRest, K) \in Nat
         /\ Count(RxRest, K) + Count(DeferredRest, K) + One(Next1, K)
              <= Count(rx, K) + Count(deferred, K)
<1>1. rx \in Seq(Command) /\ deferred \in Seq(Command)
  BY DEF RestTypeOK
<1>2. RxRest \in Seq(Command) /\ DeferredRest \in Seq(Command)
  BY ReadTypes
<1>3. Count(RxRest, K) \in Nat /\ Count(DeferredRest, K) \in Nat
  BY <1>2, CountTypes
<1>4. CASE Fresh
  <2>1. rx # <<>>
    BY <1>4 DEF Fresh, HasCommand
  <2>2. Count(Tail(rx), K) + One(Head(rx), K) <= Count(rx, K)
    BY <1>1, <2>1, CountTail
  <2> QED
    BY <1>3, <1>4, <2>2, TrafficTypes DEF RxRest, DeferredRest, Next1, One
<1>5. CASE ~Fresh
  <2>1. Count(Tail(deferred), K) + One(Head(deferred), K) <= Count(deferred, K)
    BY <1>1, <1>5, CountTail DEF Fresh
  <2> QED
    BY <1>3, <1>5, <2>1, TrafficTypes DEF RxRest, DeferredRest, Next1, One
<1> QED
  BY <1>3, <1>4, <1>5

\* A command that is dispatched is gone from the queues.
LEMMA DispatchedCounts ==
  ASSUME RestTypeOK, HasCommand, NEW K, deferred' = DeferredRest, rx' = RxRest, UNCHANGED held
  PROVE  Traffic(K)' + One(Next1, K) <= Traffic(K)
BY ReadingCounts, TrafficTypes, TrafficParts DEF One

\* A step of the ring: what it dispatches is gone, and nothing foreign is added.
LEMMA RingTraffic ==
  ASSUME StateInv, RingStep, NEW K, Foreign(K)
  PROVE  /\ Traffic(K)' \in Nat /\ Traffic(K) \in Nat
         /\ Traffic(K)' <= Traffic(K)
         /\ ~Steers /\ ~HeldByPause /\ HasCommand => Traffic(K)' + One(Next1, K) <= Traffic(K)
<1>1. DealTypeOK /\ RestTypeOK /\ DrainHasAHolder
  BY TypeOKParts DEF StateInv
<1>2. StateInv'
  BY RingStepKeeps
<1>3. RestTypeOK'
  BY <1>2, TypeOKParts DEF StateInv, TypeOK, RingTypeOK, WorldTypeOK, RestTypeOK
<1>4. Traffic(K) \in Nat /\ One(Next1, K) \in {0, 1}
  BY <1>1, TrafficTypes DEF One
<1>5. Traffic(K)' \in Nat
  BY <1>3, CountTypes, TrafficParts DEF RestTypeOK
<1>6. CASE \/ UserMessageStashed \/ UserMessageReleases \/ MessageStaged \/ MessageUnstaged
           \/ HaltDeclared \/ GateOpened \/ GateResolved \/ Summon \/ Pause \/ ParticipantJoined
  <2>1. PICK type \in {"UserMessage", "MessageStaged", "MessageUnstaged", "HaltDeclared",
                       "GateOpened", "GateResolved", "Summon", "Pause", "ParticipantJoined"} :
          Dispatches(type)
    BY <1>6
       DEF UserMessageStashed, UserMessageReleases, MessageStaged, MessageUnstaged,
           HaltDeclared, GateOpened, GateResolved, Summon, Pause, ParticipantJoined
  <2>2. Consume /\ UNCHANGED held
    BY <1>6
       DEF UserMessageStashed, UserMessageReleases, MessageStaged, MessageUnstaged,
           HaltDeclared, GateOpened, GateResolved, Summon, Pause, ParticipantJoined, pauseVars
  <2>3. HasCommand
    BY <2>1 DEF Dispatches
  <2> QED
    BY <1>1, <1>4, <1>5, <2>2, <2>3, DispatchedCounts DEF Consume
<1>7. CASE Completion
  <2>1. HasCommand /\ UNCHANGED held /\ deferred' = DeferredRest
    BY <1>7
       DEF Completion, CompletionConsensus, CompletionSpins, CompletionAtStage,
           CompletionSteps, CompletionDiscarded, CompletionReplays, LiveCompletion, Consume,
           pauseVars
  <2>2. CASE rx' = RxRest
    BY <1>1, <1>4, <1>5, <2>1, <2>2, DispatchedCounts
  <2>3. CASE CompletionSpins(Next1)
    <3> DEFINE spun == [type |-> "HaltDeclared", participant |-> Next1.participant]
    <3>1. Next1 \in Command /\ Next1.participant \in Participants
      BY <1>1, <2>3, Dispatched, CommandFields DEF CompletionSpins, LiveCompletion
    <3>2. spun \in Command /\ spun.type = "HaltDeclared"
      BY <3>1, SentCommands
    <3>3. spun \notin K
      BY <3>2 DEF Foreign
    <3>4. Count(rx', K) <= Count(RxRest, K)
      <4>1. Count(Append(RxRest, spun), K) <= Count(RxRest, K) + One(spun, K)
        BY <1>1, <2>1, <3>2, ReadTypes, CountAppend
      <4> QED
        BY <1>1, <2>1, <2>3, <3>3, <4>1, ReadingCounts DEF CompletionSpins, One
    <3>5. Count(rx', K) \in Nat
      BY <1>3, CountTypes DEF RestTypeOK
    <3> QED
      BY <1>1, <1>4, <1>5, <2>1, <3>4, <3>5, ReadingCounts, TrafficParts, TrafficTypes
  <2> QED
    BY <1>7, <2>2, <2>3
       DEF Completion, CompletionConsensus, CompletionAtStage, CompletionSteps,
           CompletionDiscarded, CompletionReplays, Consume
<1>8. CASE UserSteers \/ HoldForPause
  <2>1. HasCommand /\ Next1 \in Command /\ held \in Seq(Command)
    BY <1>1, <1>8, ReadTypes DEF UserSteers, HoldForPause, RestTypeOK
  <2>2. Count(Append(held, Next1), K) <= Count(held, K) + One(Next1, K)
    BY <2>1, CountAppend
  <2>3. Count(Append(held, Next1), K) \in Nat
    BY <2>1, AppendProperties, CountTypes
  <2>4. Steers \/ HeldByPause
    BY <1>8 DEF UserSteers, HoldForPause
  <2>5. CASE HoldForPause
    BY <1>1, <1>4, <1>5, <2>1, <2>2, <2>3, <2>4, <2>5, ReadingCounts, TrafficParts,
       TrafficTypes DEF HoldForPause, Consume
  <2>6. CASE UserSteers
    <3>1. Count(held', K) = 0 /\ Count(DeferredRest, K) \in Nat
      BY <1>1, <2>1, <2>6, CountEmpty, ReadingCounts DEF UserSteers
    <3>2. deferred' = Append(held, Next1) /\ rx' = RxRest
      BY <2>6 DEF UserSteers
    <3> QED
      BY <1>1, <1>4, <1>5, <2>1, <2>2, <2>3, <2>4, <3>1, <3>2, ReadingCounts, TrafficParts,
         TrafficTypes
  <2> QED
    BY <1>8, <2>5, <2>6
<1>9. CASE Resume
  <2>1. HasCommand /\ held \in Seq(Command) /\ DeferredRest \in Seq(Command)
    BY <1>1, <1>9, ReadTypes DEF Resume, Dispatches, RestTypeOK
  <2>2. Count(held \o DeferredRest, K) <= Count(held, K) + Count(DeferredRest, K)
    BY <2>1, CountConcat
  <2>3. Count(held \o DeferredRest, K) \in Nat
    BY <2>1, ConcatProperties, CountTypes
  <2>4. Count(held', K) = 0
    BY <1>9, CountEmpty DEF Resume
  <2>5. deferred' = held \o DeferredRest /\ rx' = RxRest
    BY <1>9 DEF Resume
  <2> QED
    BY <1>1, <1>4, <1>5, <2>1, <2>2, <2>3, <2>4, <2>5, ReadingCounts, TrafficParts,
       TrafficTypes
<1>10. CASE GraceExpires \/ GraceHolds
  <2>1. UNCHANGED <<rx, deferred, held>> /\ ~HasCommand
    BY <1>10 DEF GraceExpires, GraceHolds, HasCommand, pauseVars
  <2> QED
    BY <1>4, <1>5, <2>1 DEF Traffic, Count, Marks
<1>11. CASE Drain
  <2>1. ~HasCommand /\ UNCHANGED held /\ drain # "none"
    BY <1>11 DEF Drain, DrainNoInput, DrainReadFails, DrainEmpty, DrainReadsCommand, DrainLands,
                 DrainUnreachable, Drains, UnwindWedgedTurn, drainKeeps, pauseVars, HasCommand
  <2>2. CASE UNCHANGED <<rx, deferred>>
    BY <1>4, <1>5, <2>1, <2>2 DEF Traffic, Count, Marks
  <2>3. CASE DrainEmpty /\ ~UNCHANGED deferred
    <3> DEFINE pass == [type |-> "TurnComplete", participant |-> holder, epoch |-> epoch,
                        ending |-> "Passed"]
    <3>1. pass \in Command /\ pass.type = "TurnComplete"
      BY <1>1, <2>1, DrainFeedsSomeone DEF Command, Endings, DealTypeOK
    <3>2. pass \notin K
      BY <3>1 DEF Foreign
    <3>3. Count(deferred', K) <= Count(deferred, K)
      <4>1. Count(Append(deferred, pass), K) <= Count(deferred, K) + One(pass, K)
        BY <1>1, <3>1, CountAppend DEF RestTypeOK
      <4>2. deferred' = Append(deferred, pass)
        BY <2>3 DEF DrainEmpty
      <4> QED
        BY <1>1, <3>2, <4>1, <4>2, TrafficTypes DEF One
    <3>4. Count(deferred', K) \in Nat /\ rx' = rx
      BY <1>3, <2>3, CountTypes DEF RestTypeOK, DrainEmpty
    <3> QED
      BY <1>1, <1>4, <1>5, <2>1, <3>3, <3>4, TrafficParts, TrafficTypes
  <2>4. CASE DrainReadsCommand
    <3> DEFINE c == Head(rx)
    <3>1. rx \in Seq(Command) /\ rx # <<>> /\ deferred \in Seq(Command) /\ c \in Command
      BY <1>1, <2>4, HeadTailProperties DEF DrainReadsCommand, RestTypeOK
    <3>2. Count(Tail(rx), K) + One(c, K) <= Count(rx, K)
      BY <3>1, CountTail
    <3>3. Count(Append(deferred, c), K) <= Count(deferred, K) + One(c, K)
      BY <3>1, CountAppend
    <3>4. Count(<<c>> \o deferred, K) <= Count(deferred, K) + One(c, K)
      <4>1. <<c>> \in Seq(Command) /\ <<>> \in Seq(Command) /\ <<c>> = Append(<<>>, c)
        BY <3>1, EmptySeq
      <4>2. Count(<<c>>, K) <= Count(<<>>, K) + One(c, K)
        BY <3>1, <4>1, CountAppend
      <4>3. Count(<<c>> \o deferred, K) <= Count(<<c>>, K) + Count(deferred, K)
        BY <3>1, <4>1, CountConcat
      <4>4. Count(<<c>>, K) \in Nat /\ Count(<<c>> \o deferred, K) \in Nat
        BY <3>1, <4>1, ConcatProperties, CountTypes
      <4> QED
        BY <1>1, <4>2, <4>3, <4>4, CountEmpty, TrafficTypes DEF One
    <3>5. rx' = Tail(rx) /\ deferred' \in {Append(deferred, c), <<c>> \o deferred}
      BY <2>4 DEF DrainReadsCommand
    <3>6. Count(rx', K) \in Nat /\ Count(deferred', K) \in Nat
      BY <1>3, CountTypes DEF RestTypeOK
    <3>7. Count(deferred', K) <= Count(deferred, K) + One(c, K)
      BY <3>3, <3>4, <3>5
    <3>8. One(c, K) \in Nat
      BY DEF One
    <3>9. Count(rx', K) + Count(deferred', K) <= Count(rx, K) + Count(deferred, K)
      <4> HIDE DEF c
      <4>1. Count(rx', K) + One(c, K) <= Count(rx, K)
        BY <3>2, <3>5
      <4> QED
        BY <1>1, <3>6, <3>7, <3>8, <4>1, TrafficTypes
    <3> QED
      BY <1>1, <1>4, <1>5, <2>1, <3>6, <3>9, TrafficParts, TrafficTypes
  <2> QED
    BY <1>11, <2>2, <2>3, <2>4
       DEF Drain, DrainNoInput, DrainReadFails, DrainEmpty, DrainLands, DrainUnreachable,
           UnwindWedgedTurn
<1> QED
  BY <1>6, <1>7, <1>8, <1>9, <1>10, <1>11 DEF RingStep, Dispatch
-----------------------------------------------------------------------------
(* What the other tasks send, and what it costs *)

\* Commands that summon somebody, and messages that name more than one participant.
Weighty ==
  {c \in Command : c.type = "Summon" \/ (c.type = "UserMessage" /\ c.mentions # <<>>)}
Crowded == {c \in Command : c.type = "UserMessage" /\ Len(c.mentions) > 1}
Openings == {c \in Command : c.type = "GateOpened"}
GateNews == {c \in Command : c.type \in {"GateOpened", "GateResolved"}}

\* The channel gets one command at most, and it is not of the set K.
SendsNo(K) == rx' = rx \/ \E c \in Command \ K : rx' = Append(rx, c)

\* The four things a step of another task may do to what is owed.
SendsPlain ==
  /\ UNCHANGED retry /\ left'["error"] = left["error"] /\ left'["mention"] = left["mention"]
  /\ SendsNo(Weighty)
Errs ==
  /\ \E p \in Participants \ retry : retry' = retry \cup {p}
  /\ left["error"] > 0 /\ left'["error"] = left["error"] - 1
  /\ left'["mention"] = left["mention"]
  /\ SendsNo(Weighty)
Retries ==
  /\ left' = left
  /\ \E p \in retry : retry' = retry \ {p} /\ rx' = Append(rx, [type |-> "Summon", participant |-> p])
Mentions ==
  /\ UNCHANGED retry
  /\ left["mention"] > 0 /\ left'["mention"] = left["mention"] - 1
  /\ left'["error"] = left["error"]
  /\ \E p \in Participants :
       rx' \in {rx, Append(rx, [type |-> "UserMessage", mentions |-> <<p>>])}

\* Spending an input leaves the others, and the histories, alone.
LEMMA SpendFacts ==
  ASSUME left \in [Kinds -> Nat], NEW kind \in Kinds, Spend(kind)
  PROVE  /\ left[kind] > 0 /\ left'[kind] = left[kind] - 1
         /\ \A k \in Kinds \ {kind} : left'[k] = left[k]
         /\ \A k \in Kinds : left'[k] <= left[k]
         /\ UNCHANGED <<silent, dealt>>
BY DEF Spend

\* A notify that is not of the set.
LEMMA SendsOne ==
  ASSUME NEW K, NEW c \in Command \ K, rx' = Append(rx, c) \/ rx' = TrySend(rx, c)
  PROVE  SendsNo(K)
BY DEF SendsNo, TrySend

\* What is sent beside a summons and a mention weighs nothing.
LEMMA PlainCommands ==
  ASSUME NEW c \in Command, c.type # "Summon", c.type = "UserMessage" => c.mentions = <<>>
  PROVE  c \in Command \ Weighty
BY DEF Weighty

\* A process or its pump: an error schedules a retry, a retry summons, the rest is plain.
LEMMA ProcessOwes ==
  ASSUME SessionInv, NEW p \in Participants, ProcessStep(p)
  PROVE  SendsPlain \/ Errs \/ Retries
<1>1. PumpTypeOK /\ TypeOK /\ left \in [Kinds -> Nat]
  BY DEF SessionInv, StateInv, OthersTypeOK, AppTypeOK
<1>2. {"error", "halt", "death"} \subseteq Kinds /\ "mention" \in Kinds
  BY DEF Kinds
<1>3. ASSUME NEW ending \in Endings, NEW posts \in BOOLEAN, ReportsEnd(p, ending, posts)
      PROVE  SendsNo(Weighty)
  <2> DEFINE e == IF Binding(p) = NoEpoch THEN 0 ELSE Binding(p)
             c == [type |-> "TurnComplete", participant |-> p, ending |-> ending, epoch |-> e]
  <2>1. e \in Nat
    BY <1>1, BindingTypes DEF NoEpoch
  <2>2. c \in Command \ Weighty
    BY <2>1, SentCommands, PlainCommands
  <2> QED
    BY <1>3, <2>2, SendsOne DEF ReportsEnd
<1>4. CASE EndsTurn(p)
  <2>1. PICK o \in TurnOutcomes : TurnEnds(p, o[1], o[2])
    BY <1>4 DEF EndsTurn
  <2>2. o[1] \in Endings /\ o[2] \in BOOLEAN
    BY InputsAssumption
  <2> QED
    BY <1>3, <1>4, <2>1, <2>2 DEF EndsTurn, TurnEnds, Free, SendsPlain
<1>5. CASE TurnErrs(p) /\ Spend("error")
  <2>1. "Spoke" \in Endings
    BY DEF Endings
  <2>2. SendsNo(Weighty)
    BY <1>3, <1>5, <2>1 DEF TurnErrs
  <2> QED
    BY <1>1, <1>2, <1>5, <2>2, SpendFacts DEF TurnErrs, Errs
<1>6. CASE RetryFires(p) /\ Free
  BY <1>6 DEF RetryFires, Free, Retries
<1>7. CASE HaltReachesRing(p) /\ Free
  <2>1. [type |-> "HaltDeclared", participant |-> p] \in Command \ Weighty
    BY SentCommands, PlainCommands
  <2> QED
    BY <1>7, <2>1, SendsOne DEF HaltReachesRing, Free, SendsPlain
<1>8. CASE \/ HaltTool(p) /\ Spend("halt")
           \/ Dies(p) /\ Spend("death")
  <2>1. UNCHANGED <<rx, retry>>
    BY <1>8 DEF HaltTool, Dies
  <2> QED
    BY <1>1, <1>2, <1>8, <2>1, SpendFacts DEF SendsPlain, SendsNo
<1>9. CASE /\ Free
           /\ \/ AgentStarts(p) \/ AgentFolds(p) \/ FirstEvent(p)
              \/ PumpClearsBusy(p) \/ HaltInterrupts(p)
  <2>1. UNCHANGED <<rx, retry>>
    BY <1>9 DEF AgentStarts, AgentFolds, FirstEvent, PumpClearsBusy, HaltInterrupts, sharedVars,
                pumpVars
  <2> QED
    BY <1>9, <2>1 DEF Free, SendsPlain, SendsNo
<1> QED
  BY <1>4, <1>5, <1>6, <1>7, <1>8, <1>9 DEF ProcessStep

\* The user and the application: a message may name somebody, the rest is plain.
LEMMA UserOwes ==
  ASSUME SessionInv,
         \/ UserStep \/ ResumeSent
         \/ \E p \in Participants, g \in Gates : GateParks(p, g)
         \/ \E p \in Participants : Respawns(p)
  PROVE  SendsPlain \/ Mentions
<1>1. left \in [Kinds -> Nat]
  BY DEF SessionInv, OthersTypeOK, AppTypeOK
<1>2. /\ {"message", "gapMessage", "prompt", "mention", "stop", "resume"} \subseteq Kinds
      /\ {"stage", "unstage", "gate", "error", "join"} \subseteq Kinds
  BY DEF Kinds
<1>3. ASSUME NEW kind \in Kinds \ {"error", "mention"}, Free \/ Spend(kind)
      PROVE  left'["error"] = left["error"] /\ left'["mention"] = left["mention"]
  BY <1>1, <1>2, <1>3, SpendFacts DEF Free
<1>4. <<>> \in Seq(Participants)
  BY EmptySeq
<1>5. CASE ReleasesRing
  <2>1. CASE RingReleased(<<>>) /\ Free
    <3>1. [type |-> "UserMessage", mentions |-> <<>>] \in Command \ Weighty
      BY <1>4, SentCommands, PlainCommands
    <3> QED
      BY <2>1, <3>1, SendsOne DEF RingReleased, Free, pumpVars, SendsPlain
  <2>2. ASSUME NEW p \in Participants, RingReleased(<<p>>), Spend("mention")
        PROVE  Mentions
    BY <1>1, <1>2, <2>2, SpendFacts DEF RingReleased, TrySend, pumpVars, Mentions
  <2> QED
    BY <1>5, <2>1, <2>2 DEF ReleasesRing
<1>6. CASE StopReachesRing \/ Stage \/ Unstage
  <2>1. \A type \in {"Pause", "MessageStaged", "MessageUnstaged"} :
          [type |-> type] \in Command \ Weighty
    BY SentCommands, PlainCommands
  <2>2. SendsNo(Weighty)
    BY <1>6, <2>1, SendsOne DEF StopReachesRing, Stage, Unstage
  <2>3. UNCHANGED retry
    BY <1>6 DEF StopReachesRing, Stage, Unstage, pumpVars
  <2> QED
    BY <1>2, <1>3, <1>6, <2>2, <2>3 DEF StopReachesRing, Stage, Unstage, SendsPlain
<1>7. ASSUME NEW g \in Gates, GateAnswered(g) \/ TrayWakes(g)
      PROVE  SendsPlain
  <2>1. /\ [type |-> "GateResolved", gate |-> g] \in Command \ Weighty
        /\ [type |-> "UserMessage", mentions |-> <<>>] \in Command \ Weighty
    BY <1>4, SentCommands, PlainCommands
  <2>2. SendsNo(Weighty)
    <3>1. CASE rx' = rx
      BY <3>1 DEF SendsNo
    <3> QED
      BY <1>7, <2>1, <3>1, SendsOne DEF GateAnswered, TrayWakes
  <2> QED
    BY <1>7, <2>2 DEF GateAnswered, TrayWakes, Free, pumpVars, SendsPlain
<1>8. ASSUME NEW p \in Participants, NEW g \in Gates, GateParks(p, g)
      PROVE  SendsPlain
  <2>1. [type |-> "GateOpened", gate |-> g] \in Command \ Weighty
    BY SentCommands, PlainCommands
  <2> QED
    BY <1>2, <1>3, <1>8, <2>1, SendsOne DEF GateParks, pumpVars, SendsPlain
<1>9. ASSUME NEW p \in Participants, Respawns(p)
      PROVE  SendsPlain
  <2>1. [type |-> "ParticipantJoined", participant |-> p] \in Command \ Weighty
    BY SentCommands, PlainCommands
  <2> QED
    BY <1>2, <1>3, <1>9, <2>1, SendsOne DEF Respawns, SendsPlain
<1>10. CASE ResumeSent
  <2>1. [type |-> "Resume"] \in Command \ Weighty
    BY SentCommands, PlainCommands
  <2> QED
    BY <1>2, <1>3, <1>10, <2>1, SendsOne DEF ResumeSent, pumpVars, SendsPlain
<1>11. CASE \/ UserSends \/ UserSendsInGap \/ HostPrompts \/ UserRowPosted \/ HaltCleared
            \/ StopLatches \/ DeliverStaged \/ \E g \in Gates : WaiterTimesOut(g)
  <2>1. UNCHANGED <<rx, retry>>
    BY <1>11 DEF UserSends, UserSendsInGap, HostPrompts, Preempts, UserRowPosted, HaltCleared,
                 StopLatches, DeliverStaged, WaiterTimesOut, vars, sharedVars, pumpVars
  <2> QED
    BY <1>2, <1>3, <1>11, <2>1
       DEF UserSends, UserSendsInGap, HostPrompts, UserRowPosted, HaltCleared, StopLatches,
           DeliverStaged, WaiterTimesOut, SendsPlain, SendsNo
<1> QED
  BY <1>5, <1>6, <1>7, <1>8, <1>9, <1>10, <1>11 DEF UserStep

LEMMA OthersOwe ==
  ASSUME SessionInv, SessionStep
  PROVE  SendsPlain \/ Errs \/ Retries \/ Mentions
BY ProcessOwes, UserOwes DEF SessionStep

\* The opening of a gate is news of it.
LEMMA NewsOfOpenings == SendsNo(GateNews) => SendsNo(Openings)
BY DEF SendsNo, GateNews, Openings

\* A process and its pump tell the ring of no gate.
LEMMA ProcessTellsNoGate ==
  ASSUME SessionInv, NEW p \in Participants, ProcessStep(p)
  PROVE  SendsNo(GateNews) /\ UNCHANGED gateRows
<1>1. PumpTypeOK /\ TypeOK
  BY DEF SessionInv, StateInv, OthersTypeOK
<1>2. ASSUME NEW ending \in Endings, NEW posts \in BOOLEAN, ReportsEnd(p, ending, posts)
      PROVE  SendsNo(GateNews)
  <2> DEFINE e == IF Binding(p) = NoEpoch THEN 0 ELSE Binding(p)
             c == [type |-> "TurnComplete", participant |-> p, ending |-> ending,
                   epoch |-> e]
  <2>1. e \in Nat
    BY <1>1, BindingTypes DEF NoEpoch
  <2>2. c \in Command \ GateNews
    BY <2>1, SentCommands DEF GateNews
  <2> QED
    BY <1>2, <2>2, SendsOne DEF ReportsEnd
<1>3. ASSUME EndsTurn(p) PROVE SendsNo(GateNews)
  <2>1. PICK o \in TurnOutcomes : ReportsEnd(p, o[1], o[2])
    BY <1>3 DEF EndsTurn, TurnEnds
  <2>2. o[1] \in Endings /\ o[2] \in BOOLEAN
    BY InputsAssumption
  <2> QED
    BY <1>2, <2>1, <2>2
<1>4. ASSUME TurnErrs(p) PROVE SendsNo(GateNews)
  <2>1. "Spoke" \in Endings
    BY DEF Endings
  <2> QED
    BY <1>2, <1>4, <2>1 DEF TurnErrs
<1>5. ASSUME RetryFires(p) \/ HaltReachesRing(p)
      PROVE  SendsNo(GateNews)
  <2>1. /\ [type |-> "Summon", participant |-> p] \in Command \ GateNews
        /\ [type |-> "HaltDeclared", participant |-> p] \in Command \ GateNews
    BY SentCommands DEF GateNews
  <2> QED
    BY <1>5, <2>1, SendsOne DEF RetryFires, HaltReachesRing
<1>6. ASSUME \/ HaltTool(p) \/ Dies(p) \/ AgentStarts(p) \/ AgentFolds(p) \/ FirstEvent(p)
             \/ PumpClearsBusy(p) \/ HaltInterrupts(p)
      PROVE  SendsNo(GateNews) /\ UNCHANGED gateRows
  BY <1>6 DEF HaltTool, Dies, AgentStarts, AgentFolds, FirstEvent, PumpClearsBusy,
              HaltInterrupts, sharedVars, worldVars, SendsNo
<1>7. ASSUME EndsTurn(p) \/ TurnErrs(p) \/ RetryFires(p) \/ HaltReachesRing(p)
      PROVE  UNCHANGED gateRows
  BY <1>7 DEF EndsTurn, TurnEnds, TurnErrs, ReportsEnd, RetryFires, HaltReachesRing, worldVars
<1> QED
  BY <1>3, <1>4, <1>5, <1>6, <1>7 DEF ProcessStep

\* The gated call and its answer do, each of the gate it is about.
LEMMA UserTellsOfGates ==
  ASSUME SessionInv,
         \/ UserStep \/ ResumeSent
         \/ \E p \in Participants, g \in Gates : GateParks(p, g)
         \/ \E p \in Participants : Respawns(p)
  PROVE  \/ SendsNo(GateNews) /\ UNCHANGED gateRows
         \/ \E g \in Gates : GateAnswered(g) \/ \E p \in Participants : GateParks(p, g)
<1>1. <<>> \in Seq(Participants) /\ \A p \in Participants : <<p>> \in Seq(Participants)
  BY EmptySeq
<1>2. /\ \A ms \in Seq(Participants) :
           [type |-> "UserMessage", mentions |-> ms] \in Command \ GateNews
      /\ \A p \in Participants :
           [type |-> "ParticipantJoined", participant |-> p] \in Command \ GateNews
      /\ \A type \in {"MessageStaged", "MessageUnstaged", "Pause", "Resume"} :
           [type |-> type] \in Command \ GateNews
  BY SentCommands DEF GateNews
<1>3. CASE ReleasesRing
  <2>1. PICK ms \in Seq(Participants) : RingReleased(ms)
    BY <1>1, <1>3 DEF ReleasesRing
  <2> QED
    BY <1>2, <2>1, SendsOne DEF RingReleased, worldVars
<1>4. CASE StopReachesRing \/ Stage \/ Unstage \/ ResumeSent
  BY <1>2, <1>4, SendsOne DEF StopReachesRing, Stage, Unstage, ResumeSent, worldVars
<1>5. ASSUME NEW g \in Gates, TrayWakes(g)
      PROVE  SendsNo(GateNews) /\ UNCHANGED gateRows
  <2>1. rx' = rx \/ rx' = TrySend(rx, [type |-> "UserMessage", mentions |-> <<>>])
    BY <1>5 DEF TrayWakes
  <2>2. SendsNo(GateNews)
    BY <1>1, <1>2, <2>1, SendsOne DEF SendsNo
  <2> QED
    BY <1>5, <2>2 DEF TrayWakes, worldVars
<1>6. ASSUME NEW p \in Participants, Respawns(p)
      PROVE  SendsNo(GateNews) /\ UNCHANGED gateRows
  BY <1>2, <1>6, SendsOne DEF Respawns, worldVars
<1>7. CASE \/ UserSends \/ UserSendsInGap \/ HostPrompts \/ UserRowPosted \/ HaltCleared
           \/ StopLatches \/ DeliverStaged \/ \E g \in Gates : WaiterTimesOut(g)
  BY <1>7
     DEF UserSends, UserSendsInGap, HostPrompts, Preempts, UserRowPosted, HaltCleared,
         StopLatches, DeliverStaged, WaiterTimesOut, vars, sharedVars, worldVars, SendsNo
<1> QED
  BY <1>3, <1>4, <1>5, <1>6, <1>7 DEF UserStep

\* Inputs are only spent, the ring's histories are the ring's, and no other task says that
\* everyone is done; with no gate, stop or death left to happen, none happens.
OthersStay ==
  /\ UNCHANGED <<silent, dealt>>
  /\ \A k \in Kinds : left'[k] <= left[k]
  /\ haltSlot' \in {haltSlot, "none", "participant"}
  /\ left["gate"] = 0 => gateRows' \subseteq gateRows /\ SendsNo(Openings)
  /\ left["stop"] = 0 => UNCHANGED latch \/ ~latch'
  /\ left["death"] = 0 => UNCHANGED input

LEMMA ProcessStays ==
  ASSUME SessionInv, NEW p \in Participants, ProcessStep(p)
  PROVE  OthersStay
<1>1. PumpTypeOK /\ TypeOK /\ left \in [Kinds -> Nat]
  BY DEF SessionInv, StateInv, OthersTypeOK, AppTypeOK
<1>2. {"error", "halt", "death"} \subseteq Kinds
  BY DEF Kinds
<1>3. Free \/ \E kind \in {"error", "halt", "death"} : Spend(kind)
  BY DEF ProcessStep, EndsTurn
<1>4. UNCHANGED <<silent, dealt>> /\ \A k \in Kinds : left'[k] <= left[k]
  BY <1>1, <1>2, <1>3, SpendFacts DEF Free
<1>5. /\ UNCHANGED <<gateRows, latch>>
      /\ haltSlot' \in {haltSlot, "participant"}
      /\ left["death"] = 0 => UNCHANGED input
  <2>1. CASE EndsTurn(p) \/ TurnErrs(p)
    BY <2>1 DEF EndsTurn, TurnEnds, TurnErrs, ReportsEnd, worldVars
  <2>2. CASE HaltTool(p) \/ RetryFires(p) \/ HaltReachesRing(p) \/ HaltInterrupts(p)
    BY <2>2 DEF HaltTool, RetryFires, HaltReachesRing, HaltInterrupts, sharedVars, worldVars
  <2>3. CASE AgentStarts(p) \/ AgentFolds(p) \/ FirstEvent(p) \/ PumpClearsBusy(p)
    BY <2>3 DEF AgentStarts, AgentFolds, FirstEvent, PumpClearsBusy, sharedVars, worldVars
  <2>4. CASE Dies(p) /\ Spend("death")
    BY <2>4 DEF Dies, Spend, worldVars
  <2> QED
    BY <2>1, <2>2, <2>3, <2>4 DEF ProcessStep
<1>6. SendsNo(Openings)
  BY NewsOfOpenings, ProcessTellsNoGate
<1> QED
  BY <1>4, <1>5, <1>6 DEF OthersStay

LEMMA UserStays ==
  ASSUME SessionInv,
         \/ UserStep \/ ResumeSent
         \/ \E p \in Participants, g \in Gates : GateParks(p, g)
         \/ \E p \in Participants : Respawns(p)
  PROVE  OthersStay
<1>1. left \in [Kinds -> Nat] /\ latch \in BOOLEAN
  BY DEF SessionInv, StateInv, TypeOK, WorldTypeOK, OthersTypeOK, AppTypeOK
<1>2. Free \/ \E kind \in Kinds : Spend(kind)
  BY DEF UserStep, ReleasesRing, UserSends, UserSendsInGap, HostPrompts, UserRowPosted,
         HaltCleared, StopLatches, StopReachesRing, Stage, Unstage, DeliverStaged, GateAnswered,
         TrayWakes, WaiterTimesOut, ResumeSent, GateParks, Respawns, Kinds
<1>3. UNCHANGED <<silent, dealt>> /\ \A k \in Kinds : left'[k] <= left[k]
  BY <1>1, <1>2, SpendFacts DEF Free
<1>4. haltSlot' \in {haltSlot, "none"} /\ UNCHANGED input
  BY DEF UserStep, ReleasesRing, RingReleased, UserSends, UserSendsInGap, HostPrompts, Preempts,
         UserRowPosted, HaltCleared, StopLatches, StopReachesRing, Stage, Unstage,
         DeliverStaged, GateAnswered, TrayWakes, WaiterTimesOut, ResumeSent, GateParks,
         Respawns, vars, sharedVars
<1>5. left["stop"] = 0 => UNCHANGED latch \/ ~latch'
  <2>1. CASE UserSends \/ UserSendsInGap \/ HostPrompts \/ DeliverStaged \/ ResumeSent
    BY <2>1 DEF UserSends, UserSendsInGap, HostPrompts, Preempts, DeliverStaged, ResumeSent
  <2>2. CASE StopLatches
    BY <2>2 DEF StopLatches, Spend
  <2>3. CASE UNCHANGED latch
    BY <2>3
  <2> QED
    BY <2>1, <2>2, <2>3
       DEF UserStep, ReleasesRing, RingReleased, UserRowPosted, HaltCleared, StopReachesRing,
           Stage, Unstage, GateAnswered, TrayWakes, WaiterTimesOut, GateParks, Respawns, vars,
           worldVars
<1>6. left["gate"] = 0 => gateRows' \subseteq gateRows /\ SendsNo(Openings)
  <2> SUFFICES ASSUME left["gate"] = 0 PROVE gateRows' \subseteq gateRows /\ SendsNo(Openings)
    OBVIOUS
  <2>1. ASSUME NEW g \in Gates, GateAnswered(g)
        PROVE  gateRows' \subseteq gateRows /\ SendsNo(Openings)
    <3>1. [type |-> "GateResolved", gate |-> g] \in Command \ Openings
      BY SentCommands DEF Openings
    <3> QED
      BY <2>1, <3>1, SendsOne DEF GateAnswered
  <2>2. ~ \E p \in Participants, g \in Gates : GateParks(p, g)
    BY DEF GateParks, Spend
  <2>3. CASE SendsNo(GateNews) /\ UNCHANGED gateRows
    BY <2>3, NewsOfOpenings
  <2> QED
    BY <2>1, <2>2, <2>3, UserTellsOfGates
<1> QED
  BY <1>3, <1>4, <1>5, <1>6 DEF OthersStay

LEMMA OthersLeaveAlone ==
  ASSUME SessionInv, SessionStep
  PROVE  OthersStay
BY ProcessStays, UserStays DEF SessionStep
-----------------------------------------------------------------------------
(* What is owed is paid for *)

\* The summonses somebody still has to answer, queued, held back with a release, under way or
\* scheduled, less the inputs that were spent on them.
Balance(queued, stashed, sent, scheduled, errors, mentions) ==
  queued + stashed + sent + scheduled - (Budget["error"] - errors) - (Budget["mention"] - mentions)
Debt ==
  Balance(Len(summons), Len(stashedRelease.mentions), Traffic(Weighty), Cardinality(retry),
          left["error"], left["mention"])

DebtInv ==
  /\ Traffic(Crowded) = 0
  /\ Debt <= 0
  /\ left["error"] <= Budget["error"] /\ left["mention"] <= Budget["mention"]

\* What one entry gains another one loses.
LEMMA BalanceFalls ==
  ASSUME NEW q \in Int, NEW s \in Int, NEW t \in Int, NEW r \in Int, NEW e \in Int, NEW m \in Int,
         NEW qq \in Int, NEW ss \in Int, NEW tt \in Int, NEW rr \in Int, NEW ee \in Int,
         NEW mm \in Int, NEW k \in Int,
         qq + ss + tt <= q + s + t + k, rr + ee + mm + k <= r + e + m
  PROVE  Balance(qq, ss, tt, rr, ee, mm) <= Balance(q, s, t, r, e, m)
<1>1. Budget["error"] \in Int /\ Budget["mention"] \in Int
  BY InputsAssumption DEF Kinds
<1> QED
  BY <1>1 DEF Balance

\* A retry scheduled for an error, carried out as a summons, or a message for a mention.
LEMMA EvenTrade ==
  ASSUME NEW r \in Int, NEW e \in Int, NEW m \in Int, NEW rr, NEW ee, NEW mm, NEW k,
         \/ rr = r + 1 /\ ee = e - 1 /\ mm = m /\ k = 0
         \/ rr = r - 1 /\ ee = e /\ mm = m /\ k = 1
         \/ rr = r /\ ee = e /\ mm = m - 1 /\ k = 1
  PROVE  rr + ee + mm + k <= r + e + m
OBVIOUS

\* The balance after a step.
LEMMA NextDebt ==
  Debt' = Balance(Len(summons'), Len(stashedRelease'.mentions), Traffic(Weighty)',
                  Cardinality(retry'), left'["error"], left'["mention"])
BY DEF Debt, Balance

\* Every entry is a number.
AccountsTyped ==
  /\ Len(summons) \in Nat /\ Len(stashedRelease.mentions) \in Nat
  /\ \A K : Traffic(K) \in Nat
  /\ \A K : Count(rx, K) \in Nat /\ Count(deferred, K) \in Nat /\ Count(held, K) \in Nat
  /\ IsFiniteSet(retry) /\ Cardinality(retry) \in Nat
  /\ left["error"] \in Nat /\ left["mention"] \in Nat
  /\ Budget["error"] \in Nat /\ Budget["mention"] \in Nat
  /\ summons \in Seq(Participants) /\ rx \in Seq(Command)

LEMMA AccountTypes == SessionInv => AccountsTyped
<1> SUFFICES ASSUME SessionInv PROVE AccountsTyped
  OBVIOUS
<1>1. DealTypeOK /\ RestTypeOK /\ PumpTypeOK /\ AppTypeOK
  BY TypeOKParts DEF SessionInv, StateInv, OthersTypeOK
<1>2. Len(summons) \in Nat /\ Len(stashedRelease.mentions) \in Nat
  BY <1>1, StashFields, LenProperties DEF DealTypeOK
<1>3. IsFiniteSet(retry) /\ Cardinality(retry) \in Nat
  BY <1>1, RosterAssumption, FS_Subset, FS_CardinalityType DEF PumpTypeOK
<1>4. "error" \in Kinds /\ "mention" \in Kinds
  BY DEF Kinds
<1>5. rx \in Seq(Command) /\ summons \in Seq(Participants)
  BY <1>1 DEF RestTypeOK, DealTypeOK
<1>6. \A K : /\ Traffic(K) \in Nat
             /\ Count(rx, K) \in Nat /\ Count(deferred, K) \in Nat /\ Count(held, K) \in Nat
  BY <1>1, TrafficTypes
<1> QED
  BY <1>1, <1>2, <1>3, <1>4, <1>5, <1>6, InputsAssumption DEF AppTypeOK, AccountsTyped

LEMMA NextAccountTypes == SessionInv' => AccountsTyped'
BY AccountTypes, PTL

\* The ring sends neither summonses nor messages.
LEMMA ForeignSets == Foreign(Weighty) /\ Foreign(Crowded) /\ Foreign(Openings)
BY DEF Foreign, Weighty, Crowded, Openings

\* A crowded message weighs.
LEMMA CrowdedWeighs == Crowded \subseteq Weighty
BY DEF Crowded, Weighty

\* What another task sends adds no command of a set it does not send.
LEMMA SendsCount ==
  ASSUME RestTypeOK, NEW K, SendsNo(K), UNCHANGED ringVars
  PROVE  Traffic(K)' <= Traffic(K)
<1>1. UNCHANGED <<deferred, held>> /\ rx \in Seq(Command)
  BY DEF ringVars, RestTypeOK
<1>2. Count(rx', K) <= Count(rx, K)
  <2>1. CASE rx' = rx
    BY <2>1, TrafficTypes
  <2>2. ASSUME NEW c \in Command \ K, rx' = Append(rx, c)
        PROVE  Count(rx', K) <= Count(rx, K)
    <3>1. Count(Append(rx, c), K) <= Count(rx, K) + One(c, K)
      BY <1>1, CountAppend
    <3> QED
      BY <2>2, <3>1, TrafficTypes DEF One
  <2> QED
    BY <2>1, <2>2 DEF SendsNo
<1>3. Count(rx', K) \in Nat
  <2>1. rx' \in Seq(Command)
    BY <1>1, AppendProperties DEF SendsNo
  <2> QED
    BY <2>1, CountTypes
<1> QED
  BY <1>1, <1>2, <1>3, TrafficTypes, TrafficParts

\* Whatever another task adds to what is owed, it pays for.
LEMMA OthersPay ==
  ASSUME SessionInv, SessionStep
  PROVE  Debt' <= Debt /\ SendsNo(Crowded)
<1>1. UNCHANGED ringVars /\ RestTypeOK
  BY SessionStepKeeps, TypeOKParts DEF SessionInv, StateInv, OthersKeep
<1>2. SessionInv'
  BY SessionStepsAreRingSteps DEF SessionNext
<1>3. UNCHANGED <<summons, stashedRelease, deferred, held>>
  BY <1>1 DEF ringVars
<1>4. /\ Traffic(Weighty)' \in Nat /\ Cardinality(retry') \in Nat
      /\ left'["error"] \in Nat /\ left'["mention"] \in Nat
      /\ rx' \in Seq(Command)
  BY <1>2, NextAccountTypes DEF AccountsTyped
<1>0. /\ Len(summons) \in Nat /\ Len(stashedRelease.mentions) \in Nat
      /\ Traffic(Weighty) \in Nat
      /\ Count(rx, Weighty) \in Nat /\ Count(deferred, Weighty) \in Nat
      /\ Count(held, Weighty) \in Nat
      /\ IsFiniteSet(retry) /\ Cardinality(retry) \in Nat
      /\ left["error"] \in Nat /\ left["mention"] \in Nat
      /\ Budget["error"] \in Nat /\ Budget["mention"] \in Nat
      /\ rx \in Seq(Command)
  BY AccountTypes DEF AccountsTyped
<1>5. SendsNo(Weighty) => Traffic(Weighty)' <= Traffic(Weighty) /\ SendsNo(Crowded)
  BY <1>1, CrowdedWeighs, SendsCount DEF SendsNo
<1> DEFINE Pays(k) == /\ Traffic(Weighty)' <= Traffic(Weighty) + k
                      /\ Cardinality(retry') + left'["error"] + left'["mention"] + k
                           <= Cardinality(retry) + left["error"] + left["mention"]
<1>11. ASSUME NEW k \in {0, 1}, Pays(k)
       PROVE  Debt' <= Debt
  <2> DEFINE q == Len(summons)
             s == Len(stashedRelease.mentions)
             t == Traffic(Weighty)
             tt == Traffic(Weighty)'
             r == Cardinality(retry)
             rr == Cardinality(retry')
  <2>1. /\ q \in Int /\ s \in Int /\ t \in Int /\ tt \in Int /\ r \in Int /\ rr \in Int /\ k \in Int
        /\ left["error"] \in Int /\ left["mention"] \in Int
        /\ left'["error"] \in Int /\ left'["mention"] \in Int
    <3>1. q \in Int
      BY <1>0
    <3>2. s \in Int
      BY <1>0
    <3>3. t \in Int
      BY <1>0
    <3>4. r \in Int
      BY <1>0
    <3>5. tt \in Int
      BY <1>4
    <3>6. rr \in Int
      BY <1>4
    <3>7. left'["error"] \in Int /\ left'["mention"] \in Int
      BY <1>4
    <3>8. left["error"] \in Int /\ left["mention"] \in Int
      BY <1>0
    <3> QED
     BY <1>11, <3>1, <3>2, <3>3, <3>4, <3>5, <3>6, <3>7, <3>8
  <2>2. Debt = Balance(q, s, t, r, left["error"], left["mention"])
    BY DEF Debt
  <2>3. Debt' = Balance(q, s, tt, rr, left'["error"], left'["mention"])
    BY <1>3, NextDebt
  <2>4. tt <= t + k /\ rr + left'["error"] + left'["mention"] + k <= r + left["error"] + left["mention"]
    BY <1>11
  <2> HIDE DEF q, s, t, tt, r, rr
  <2>5. q + s + tt <= q + s + t + k
    BY <2>1, <2>4
  <2>6. Balance(q, s, tt, rr, left'["error"], left'["mention"])
          <= Balance(q, s, t, r, left["error"], left["mention"])
    BY <2>1, <2>4, <2>5, BalanceFalls
  <2> QED
    BY <2>2, <2>3, <2>6
<1>6. CASE SendsPlain
  <2>1. Traffic(Weighty)' <= Traffic(Weighty) /\ SendsNo(Crowded)
    BY <1>5, <1>6 DEF SendsPlain
  <2>2. Pays(0)
    BY <1>0, <1>6, <2>1 DEF SendsPlain
  <2> QED
    BY <1>11, <2>1, <2>2
<1>7. CASE Errs
  <2>1. Cardinality(retry') = Cardinality(retry) + 1
    BY <1>0, <1>7, FS_AddElement DEF Errs
  <2>2. Traffic(Weighty)' <= Traffic(Weighty) /\ SendsNo(Crowded)
    BY <1>5, <1>7 DEF Errs
  <2>3. Cardinality(retry') + left'["error"] + left'["mention"] + 0
          <= Cardinality(retry) + left["error"] + left["mention"]
    <3>1. left'["error"] = left["error"] - 1 /\ left'["mention"] = left["mention"]
      BY <1>7 DEF Errs
    <3> QED
      BY <1>0, <2>1, <3>1, EvenTrade
  <2>4. Pays(0)
    BY <1>0, <2>2, <2>3
  <2> QED
    BY <1>11, <2>2, <2>4
<1>8. CASE Retries
  <2>1. Cardinality(retry') = Cardinality(retry) - 1
    BY <1>0, <1>8, FS_RemoveElement DEF Retries
  <2>2. PICK p \in Participants : rx' = Append(rx, [type |-> "Summon", participant |-> p])
    BY <1>8 DEF Retries, SessionInv, OthersTypeOK, PumpTypeOK
  <2> DEFINE c == [type |-> "Summon", participant |-> p]
  <2>3. c \in Command \ Crowded
    BY SentCommands DEF Crowded
  <2>4. Count(rx', Weighty) <= Count(rx, Weighty) + 1
    <3>1. Count(Append(rx, c), Weighty) <= Count(rx, Weighty) + One(c, Weighty)
      BY <1>0, <2>3, CountAppend
    <3>2. Count(Append(rx, c), Weighty) \in Nat
      BY <1>0, <2>3, AppendProperties, CountTypes
    <3> QED
      BY <1>1, <2>2, <3>1, <3>2, <1>0 DEF One
  <2>5. Count(rx', Weighty) \in Nat
    BY <1>4, CountTypes
  <2>6. Traffic(Weighty)' <= Traffic(Weighty) + 1
    BY <1>1, <1>3, <2>4, <2>5, <1>0, TrafficParts
  <2>7. SendsNo(Crowded)
    BY <2>2, <2>3, SendsOne
  <2>8. Cardinality(retry') + left'["error"] + left'["mention"] + 1
          <= Cardinality(retry) + left["error"] + left["mention"]
    <3>1. left'["error"] = left["error"] /\ left'["mention"] = left["mention"]
      BY <1>8 DEF Retries
    <3> QED
      BY <1>0, <2>1, <3>1, EvenTrade
  <2>9. Pays(1)
    BY <2>6, <2>8
  <2> QED
    BY <1>11, <2>7, <2>9
<1>9. CASE Mentions
  <2>1. PICK p \in Participants :
          rx' \in {rx, Append(rx, [type |-> "UserMessage", mentions |-> <<p>>])}
    BY <1>9 DEF Mentions
  <2> DEFINE c == [type |-> "UserMessage", mentions |-> <<p>>]
  <2>2. c \in Command \ Crowded
    <3>1. <<p>> \in Seq(Participants) /\ Len(<<p>>) = 1
      OBVIOUS
    <3>2. c \in Command /\ c.mentions = <<p>>
      BY <3>1, SentCommands
    <3>3. ~(Len(c.mentions) > 1)
      BY <3>1, <3>2
    <3> QED
      BY <3>2, <3>3 DEF Crowded
  <2>3. Count(rx', Weighty) <= Count(rx, Weighty) + 1
    <3>1. Count(Append(rx, c), Weighty) <= Count(rx, Weighty) + One(c, Weighty)
      BY <1>0, <2>2, CountAppend
    <3>2. Count(Append(rx, c), Weighty) \in Nat
      BY <1>0, <2>2, AppendProperties, CountTypes
    <3>3. CASE rx' = rx
      BY <1>0, <3>3
    <3>4. CASE rx' = Append(rx, c)
      BY <1>0, <3>1, <3>2, <3>4 DEF One
    <3> QED
      BY <2>1, <3>3, <3>4
  <2>4. Count(rx', Weighty) \in Nat
    BY <1>4, CountTypes
  <2>5. Traffic(Weighty)' <= Traffic(Weighty) + 1
    BY <1>1, <1>3, <2>3, <2>4, <1>0, TrafficParts
  <2>6. SendsNo(Crowded)
    BY <2>1, <2>2, SendsOne DEF SendsNo
  <2>7. Cardinality(retry') + left'["error"] + left'["mention"] + 1
          <= Cardinality(retry) + left["error"] + left["mention"]
    <3>1. /\ left'["error"] = left["error"] /\ left'["mention"] = left["mention"] - 1
          /\ Cardinality(retry') = Cardinality(retry)
      BY <1>9 DEF Mentions
    <3> QED
      BY <1>0, <3>1, EvenTrade
  <2>8. Pays(1)
    BY <2>5, <2>7
  <2> QED
    BY <1>11, <2>6, <2>8
<1> QED
  BY <1>6, <1>7, <1>8, <1>9, OthersOwe
-----------------------------------------------------------------------------
(* The ring owes no more after a step than before *)

\* A held release stays, is dealt, or grows by a message's mentions.
LEMMA StashSteps ==
  ASSUME StateInv, RingStep
  PROVE  \/ UNCHANGED stashedRelease
         \/ Releases /\ stashedRelease' = NoStash
         \/ /\ Dispatches("UserMessage") /\ UNCHANGED dealVars
            /\ stashedRelease'.mentions = stashedRelease.mentions \o Next1.mentions
<1>1. CASE Completion
  BY <1>1, NoStashTypes
     DEF Completion, CompletionConsensus, CompletionSpins, CompletionAtStage, CompletionSteps,
         CompletionDiscarded, CompletionReplays, LiveCompletion, Releases
<1>2. CASE GraceExpires \/ ParticipantJoined
  BY <1>2, NoStashTypes DEF GraceExpires, ParticipantJoined, Releases
<1>3. CASE UserMessageStashed
  BY <1>3 DEF UserMessageStashed
<1>4. CASE Drain
  BY <1>4 DEF Drain, DrainNoInput, DrainReadFails, DrainEmpty, DrainReadsCommand, DrainLands,
              DrainUnreachable, UnwindWedgedTurn, drainKeeps, releaseVars
<1> QED
  BY <1>1, <1>2, <1>3, <1>4
     DEF RingStep, Dispatch, UserSteers, HoldForPause, UserMessageReleases, MessageStaged,
         MessageUnstaged, HaltDeclared, GateOpened, GateResolved, Summon, Pause, Resume,
         GraceHolds, releaseVars

\* A summons is read by its own arm, which leaves a held release where it is.
LEMMA SummonReleasesNothing ==
  ASSUME StateInv, RingStep, Dispatches("Summon")
  PROVE  UNCHANGED stashedRelease
<1>1. \A type : Dispatches(type) => type = "Summon"
  BY OneArm
<1>2. drain = "none" /\ HasCommand /\ ~Steers /\ ~HeldByPause
  BY DEF Dispatches, HasCommand
<1>4. CASE Summon
  BY <1>4 DEF Summon, releaseVars
<1>5. ~Completion
  BY <1>1 DEF Completion, CompletionConsensus, CompletionSpins, CompletionAtStage,
              CompletionSteps, CompletionDiscarded, CompletionReplays, LiveCompletion
<1>6. ~Drain
  BY <1>2 DEF Drain, DrainNoInput, DrainReadFails, DrainEmpty, DrainReadsCommand, DrainLands,
              DrainUnreachable, Drains
<1>7. ~GraceExpires /\ ~GraceHolds /\ ~UserSteers /\ ~HoldForPause
  BY <1>2 DEF GraceExpires, GraceHolds, HasCommand, UserSteers, HoldForPause
<1> QED
  BY <1>1, <1>4, <1>5, <1>6, <1>7
     DEF RingStep, Dispatch, UserMessageStashed, UserMessageReleases, MessageStaged,
         MessageUnstaged, HaltDeclared, GateOpened, GateResolved, Pause, Resume,
         ParticipantJoined

\* The queue the step starts from, with the release and the traffic it leaves, is no longer than
\* what was there.
Owed(queued, stashed, sent) == queued + stashed + sent
QueuePays(queue) ==
  Owed(Len(queue), Len(stashedRelease'.mentions), Traffic(Weighty)')
    <= Owed(Len(summons), Len(stashedRelease.mentions), Traffic(Weighty))

LEMMA SummonsWeigh == \A c \in Command : c.type = "Summon" => c \in Weighty
BY DEF Weighty

\* Reading a message or a summons takes what it adds to the queue off the traffic.
LEMMA ReadingPays ==
  ASSUME SessionInv, RingStep, Traffic(Crowded) = 0, NEW type, Dispatches(type)
  PROVE  /\ Traffic(Weighty)' \in Nat /\ Traffic(Weighty)' <= Traffic(Weighty)
         /\ type = "Summon" => Traffic(Weighty)' + 1 <= Traffic(Weighty)
         /\ type = "UserMessage" =>
              /\ Next1.mentions \in Seq(Participants)
              /\ Traffic(Weighty)' + Len(Next1.mentions) <= Traffic(Weighty)
<1>1. StateInv /\ DealTypeOK /\ RestTypeOK /\ ~Steers /\ ~HeldByPause /\ HasCommand
  BY TypeOKParts DEF SessionInv, StateInv, Dispatches
<1>2. Next1 \in Command /\ Next1.type = type
  BY <1>1, Dispatched
<1>3. /\ Traffic(Weighty)' \in Nat /\ Traffic(Weighty) \in Nat
      /\ Traffic(Weighty)' <= Traffic(Weighty)
      /\ Traffic(Weighty)' + One(Next1, Weighty) <= Traffic(Weighty)
  BY <1>1, ForeignSets, RingTraffic
<1>4. Next1 \notin Crowded
  <2>1. Traffic(Crowded)' \in Nat /\ Traffic(Crowded)' + One(Next1, Crowded) <= Traffic(Crowded)
    BY <1>1, ForeignSets, RingTraffic
  <2> QED
    BY <2>1 DEF One
<1>5. CASE type = "Summon"
  <2>1. Next1 \in Weighty
    BY <1>2, <1>5, SummonsWeigh
  <2>2. One(Next1, Weighty) = 1
    BY <2>1 DEF One
  <2> QED
    BY <1>3, <1>5, <2>2
<1>6. CASE type = "UserMessage"
  <2>1. Next1.mentions \in Seq(Participants) /\ Len(Next1.mentions) \in Nat
    BY <1>2, <1>6, CommandFields, LenProperties
  <2>2. ~(Len(Next1.mentions) > 1)
    BY <1>2, <1>4, <1>6 DEF Crowded
  <2>3. CASE Next1.mentions = <<>>
    BY <1>3, <1>6, <2>1, <2>3
  <2>4. CASE Next1.mentions # <<>>
    <3>1. One(Next1, Weighty) = 1
      BY <1>2, <1>6, <2>4 DEF One, Weighty
    <3> QED
      BY <1>3, <1>6, <2>1, <2>2, <3>1
  <2> QED
    BY <2>3, <2>4
<1> QED
  BY <1>3, <1>5, <1>6

\* What one loses, another may gain.
LEMMA Moves ==
  ASSUME NEW q \in Int, NEW s \in Int, NEW t \in Int,
         NEW qq \in Int, NEW ss \in Int, NEW tt \in Int,
         \/ qq - q + tt <= t /\ ss = s
         \/ ss - s + tt <= t /\ qq = q
         \/ qq - q <= s /\ ss = 0 /\ tt <= t
  PROVE  Owed(qq, ss, tt) <= Owed(q, s, t)
BY DEF Owed

\* Every kind of step pays for the queue it works on.
LEMMA QueuesPay ==
  ASSUME SessionInv, RingStep, Traffic(Crowded) = 0
  PROVE  /\ UNCHANGED stashedRelease => QueuePays(summons)
         /\ \A ms \in Seq(Participants) : Released(ms) => QueuePays(summons \o ms)
         /\ Dispatches("Summon") => QueuePays(Append(summons, Next1.participant))
         /\ ~Releases => QueuePays(summons)
<1>1. StateInv /\ DealTypeOK /\ RestTypeOK
  BY TypeOKParts DEF SessionInv, StateInv
<1>2. /\ Len(summons) \in Nat /\ Len(stashedRelease.mentions) \in Nat
      /\ summons \in Seq(Participants) /\ stashedRelease.mentions \in Seq(Participants)
  BY <1>1, StashFields, LenProperties DEF DealTypeOK
<1>3. /\ Traffic(Weighty)' \in Nat /\ Traffic(Weighty) \in Nat
      /\ Traffic(Weighty)' <= Traffic(Weighty)
  BY <1>1, ForeignSets, RingTraffic
<1>0. /\ Len(summons) \in Int /\ Len(stashedRelease.mentions) \in Int
      /\ Traffic(Weighty)' \in Int /\ Traffic(Weighty) \in Int
  BY <1>2, <1>3
<1>4. UNCHANGED stashedRelease => QueuePays(summons)
  BY <1>2, <1>3 DEF QueuePays, Owed
<1>5. ASSUME NEW ms \in Seq(Participants), Released(ms)
      PROVE  QueuePays(summons \o ms)
  <2>1. Len(summons \o ms) = Len(summons) + Len(ms) /\ Len(ms) \in Nat
    BY <1>2, ConcatProperties, LenProperties
  <2>2. CASE Dispatches("UserMessage") /\ ms = Next1.mentions /\ UNCHANGED stashedRelease
    <3>1. Traffic(Weighty)' + Len(ms) <= Traffic(Weighty)
      BY <2>2, ReadingPays
    <3>2. Len(stashedRelease'.mentions) = Len(stashedRelease.mentions)
      BY <2>2
    <3>3. /\ Len(summons \o ms) - Len(summons) + Traffic(Weighty)' <= Traffic(Weighty)
          /\ Len(summons \o ms) \in Int /\ Len(stashedRelease'.mentions) \in Int
      BY <1>2, <1>3, <2>1, <3>1, <3>2
    <3> QED
      BY <1>0, <3>2, <3>3, Moves DEF QueuePays
  <2>3. CASE ms = stashedRelease.mentions /\ stashedRelease' = NoStash
    <3>1. Len(stashedRelease'.mentions) = 0
      BY <2>3, EmptySeq DEF NoStash
    <3>2. /\ Len(summons \o ms) - Len(summons) <= Len(stashedRelease.mentions)
          /\ Len(summons \o ms) \in Int /\ Len(stashedRelease'.mentions) \in Int
      BY <1>2, <2>1, <2>3, <3>1
    <3> QED
      BY <1>0, <1>3, <3>1, <3>2, Moves DEF QueuePays
  <2> QED
    BY <1>5, <2>2, <2>3 DEF Released
<1>6. ASSUME Dispatches("Summon")
      PROVE  QueuePays(Append(summons, Next1.participant))
  <2>1. UNCHANGED stashedRelease
    BY <1>1, <1>6, SummonReleasesNothing
  <2>2. Next1.participant \in Participants
    BY <1>1, <1>6, Dispatched, CommandFields
  <2>3. Len(Append(summons, Next1.participant)) = Len(summons) + 1
    BY <1>2, <2>2, AppendProperties
  <2>4. Traffic(Weighty)' + 1 <= Traffic(Weighty)
    BY <1>6, ReadingPays
  <2>5. Len(stashedRelease'.mentions) = Len(stashedRelease.mentions)
    BY <2>1
  <2> DEFINE longer == Len(Append(summons, Next1.participant))
  <2>6. longer \in Int /\ longer - Len(summons) + Traffic(Weighty)' <= Traffic(Weighty)
    BY <1>2, <1>3, <2>3, <2>4
  <2> QED
    BY <1>0, <2>5, <2>6, Moves DEF QueuePays
<1>7. ASSUME ~Releases
      PROVE  QueuePays(summons)
  <2>1. CASE UNCHANGED stashedRelease
    BY <1>4, <2>1
  <2>2. CASE /\ Dispatches("UserMessage")
             /\ stashedRelease'.mentions = stashedRelease.mentions \o Next1.mentions
    <3>1. Next1.mentions \in Seq(Participants) /\ Len(Next1.mentions) \in Nat
      BY <2>2, ReadingPays, LenProperties
    <3>2. Len(stashedRelease'.mentions) = Len(stashedRelease.mentions) + Len(Next1.mentions)
      BY <1>2, <2>2, <3>1, ConcatProperties
    <3>3. Traffic(Weighty)' + Len(Next1.mentions) <= Traffic(Weighty)
      BY <2>2, ReadingPays
    <3> DEFINE longer == Len(stashedRelease'.mentions)
    <3>4. /\ longer \in Int
          /\ longer - Len(stashedRelease.mentions) + Traffic(Weighty)' <= Traffic(Weighty)
      BY <1>2, <1>3, <3>1, <3>2, <3>3
    <3> QED
      BY <1>0, <3>4, Moves DEF QueuePays
  <2> QED
    BY <1>1, <1>7, <2>1, <2>2, StashSteps
<1> QED
  BY <1>4, <1>5, <1>6, <1>7
-----------------------------------------------------------------------------
(* What is owed is covered by the inputs, always *)

\* Handing out of a queue leaves less of it.
LEMMA RestOfQueue ==
  ASSUME NEW queue \in Seq(Participants), NEW k \in 0..Len(queue),
         summons' = SubSeq(queue, k + 2, Len(queue))
  PROVE  /\ Len(queue) \in Nat /\ Len(summons') \in Nat
         /\ Len(summons') <= Len(queue)
         /\ k < Len(queue) => Len(summons') + 1 <= Len(queue) /\ queue[k + 1] \in Participants
<1>1. Len(queue) \in Nat /\ k \in Nat
  BY LenProperties
<1>2. \A i \in (k + 2)..Len(queue) : queue[i] \in Participants
  BY <1>1, ElementOfSeq
<1>3. Len(summons') = IF k + 2 <= Len(queue) THEN Len(queue) - (k + 2) + 1 ELSE 0
  BY <1>1, <1>2, SubSeqProperties
<1>4. k < Len(queue) => queue[k + 1] \in Participants
  BY <1>1, ElementOfSeq
<1> QED
  BY <1>1, <1>3, <1>4

\* advance_turn never makes the queue longer.
LEMMA AdvanceShortens ==
  ASSUME NEW userSpoke \in BOOLEAN, NEW queue \in Seq(Participants), NEW spoke, NEW tally,
         Advance(userSpoke, queue, spoke, tally)
  PROVE  Len(queue) \in Nat /\ Len(summons') \in Nat /\ Len(summons') <= Len(queue)
<1>1. Len(queue) \in Nat
  BY LenProperties
<1>2. CASE Park(queue, spoke, tally)
  BY <1>1, <1>2 DEF Park
<1>3. CASE \E k \in 0..Len(queue) : summons' = SubSeq(queue, k + 2, Len(queue))
  BY <1>3, RestOfQueue
<1> QED
  BY <1>2, <1>3, AdvanceArms DEF HandsOut

\* A step that pays for its queue lowers the debt by what it takes off it.
LEMMA RingDebt ==
  ASSUME SessionInv, SessionInv', UNCHANGED <<retry, left>>, NEW queue, Len(queue) \in Nat,
         QueuePays(queue)
  PROVE  /\ Debt \in Int /\ Debt' \in Int
         /\ Debt' <= Debt - (Len(queue) - Len(summons'))
<1> DEFINE q == Len(summons)
           s == Len(stashedRelease.mentions)
           t == Traffic(Weighty)
           qq == Len(summons')
           ss == Len(stashedRelease'.mentions)
           tt == Traffic(Weighty)'
           p == Len(queue)
           r == Cardinality(retry)
           e == left["error"]
           m == left["mention"]
<1>1. AccountsTyped /\ AccountsTyped'
  BY AccountTypes, NextAccountTypes
<1>2. /\ q \in Int /\ s \in Int /\ t \in Int /\ r \in Int /\ e \in Int /\ m \in Int /\ p \in Int
      /\ Budget["error"] \in Int /\ Budget["mention"] \in Int
  BY <1>1 DEF AccountsTyped
<1>3. qq \in Int /\ ss \in Int /\ tt \in Int
  BY <1>1 DEF AccountsTyped
<1>4. Debt = Balance(q, s, t, r, e, m)
  BY DEF Debt
<1>5. Debt' = Balance(qq, ss, tt, r, e, m)
  BY NextDebt
<1>6. Owed(p, ss, tt) <= Owed(q, s, t)
  BY DEF QueuePays
<1> HIDE DEF q, s, t, qq, ss, tt, p, r, e, m
<1> DEFINE rest == r - (Budget["error"] - e) - (Budget["mention"] - m)
<1>7. /\ rest \in Int /\ Owed(q, s, t) \in Int /\ Owed(qq, ss, tt) \in Int
      /\ Owed(p, ss, tt) = Owed(qq, ss, tt) + (p - qq)
  BY <1>2, <1>3 DEF Owed
<1>8. Balance(q, s, t, r, e, m) = Owed(q, s, t) + rest
  BY <1>2 DEF Balance, Owed
<1>9. Balance(qq, ss, tt, r, e, m) = Owed(qq, ss, tt) + rest
  BY <1>2, <1>3 DEF Balance, Owed
<1> HIDE DEF rest
<1>10. Owed(qq, ss, tt) + rest <= Owed(q, s, t) + rest - (p - qq)
  BY <1>2, <1>3, <1>6, <1>7
<1>11. Debt \in Int
  BY <1>4, <1>7, <1>8
<1>12. Debt' \in Int
  BY <1>5, <1>7, <1>9
<1>13. Balance(qq, ss, tt, r, e, m) <= Balance(q, s, t, r, e, m) - (p - qq)
  BY <1>2, <1>3, <1>7, <1>8, <1>9, <1>10
<1>14. Debt' <= Debt - (p - qq)
  BY <1>4, <1>5, <1>13
<1> QED
  BY <1>11, <1>12, <1>14 DEF p, qq

\* A debt is a number.
DebtIsNumber == Debt \in Int

LEMMA DebtIsANumber == SessionInv => Debt \in Int
<1> SUFFICES ASSUME SessionInv PROVE Debt \in Int
  OBVIOUS
<1>1. AccountsTyped
  BY AccountTypes
<1>2. ASSUME NEW q \in Nat, NEW s \in Nat, NEW t \in Nat, NEW r \in Nat, NEW e \in Nat,
             NEW m \in Nat
      PROVE  Balance(q, s, t, r, e, m) \in Int
  BY <1>1 DEF AccountsTyped, Balance
<1> QED
  BY <1>1, <1>2 DEF AccountsTyped, Debt

LEMMA NextDebtIsANumber == SessionInv' => Debt' \in Int
<1>1. SessionInv => DebtIsNumber
  BY DebtIsANumber DEF DebtIsNumber
<1>2. SessionInv' => DebtIsNumber'
  BY <1>1, PTL
<1> QED
  BY <1>2 DEF DebtIsNumber

\* The queue a step of the ring works on is paid for, and no longer afterwards.
LEMMA RingPays ==
  ASSUME SessionInv, SessionInv', RingTurn, Traffic(Crowded) = 0
  PROVE  Debt' <= Debt
<1>1. StateInv /\ RingStep /\ UNCHANGED <<retry, left>>
  BY DEF SessionInv, RingTurn, pumpVars
<1>2. summons \in Seq(Participants) /\ RestTypeOK
  BY <1>1, TypeOKParts DEF StateInv, DealTypeOK
<1>3. ASSUME NEW queue \in Seq(Participants), QueuePays(queue), Len(summons') <= Len(queue)
      PROVE  Debt' <= Debt
  <2>1. Len(queue) \in Nat /\ Len(summons') \in Nat
    BY LenProperties, NextAccountTypes DEF AccountsTyped
  <2>2. Debt \in Int /\ Debt' \in Int /\ Debt' <= Debt - (Len(queue) - Len(summons'))
    BY <1>1, <1>3, <2>1, RingDebt
  <2> QED
    BY <1>3, <2>1, <2>2
<1>4. ASSUME NEW userSpoke \in BOOLEAN, NEW queue \in Seq(Participants), NEW spoke, NEW tally,
             QueuePays(queue), Advance(userSpoke, queue, spoke, tally)
      PROVE  Debt' <= Debt
  BY <1>3, <1>4, AdvanceShortens
<1>5. ASSUME NEW c \in {Next1}, NEW tally \in SUBSET Participants, GoesOn(c, tally)
      PROVE  Debt' <= Debt
  <2>1. UNCHANGED stashedRelease
    BY <1>5 DEF GoesOn, LiveCompletion
  <2> QED
    BY <1>1, <1>2, <1>4, <1>5, <2>1, QueuesPay DEF GoesOn
<1>6. ASSUME NEW ms \in Seq(Participants), Released(ms)
      PROVE  Debt' <= Debt
  <2>1. summons \o ms \in Seq(Participants)
    BY <1>2, ConcatProperties
  <2> QED
    BY <1>1, <1>4, <1>6, <2>1, QueuesPay DEF Released, ReleaseRing
<1>7. CASE Summoned
  <2>1. Next1.participant \in Participants
    BY <1>2, <1>7, Dispatched, CommandFields DEF Summoned
  <2>2. Append(summons, Next1.participant) \in Seq(Participants)
    BY <1>2, <2>1, AppendProperties
  <2> QED
    BY <1>1, <1>4, <1>7, <2>2, QueuesPay DEF Summoned
<1>8. ASSUME NEW c \in {Next1}, TurnStops(c)
      PROVE  Debt' <= Debt
  <2>1. UNCHANGED <<stashedRelease, summons>>
    BY <1>8 DEF TurnStops, LiveCompletion, CompletionConsensus, CompletionSpins,
                CompletionAtStage
  <2>2. Len(summons') <= Len(summons)
    BY <1>2, <2>1, LenProperties
  <2> QED
    BY <1>1, <1>2, <1>3, <2>1, <2>2, QueuesPay
<1>9. CASE Quiet
  <2>1. CASE UNCHANGED summons
    <3>1. Len(summons') <= Len(summons)
      BY <1>2, <2>1, LenProperties
    <3> QED
      BY <1>1, <1>2, <1>3, <1>9, <3>1, QueuesPay DEF Quiet
  <2>2. CASE Dispatches("Summon") /\ summons' = Append(summons, Next1.participant)
    <3>1. Next1.participant \in Participants
      BY <1>2, <2>2, Dispatched, CommandFields
    <3>2. summons' \in Seq(Participants) /\ Len(summons') <= Len(summons')
      BY <1>2, <2>2, <3>1, AppendProperties, LenProperties
    <3> QED
      BY <1>1, <1>3, <2>2, <3>2, QueuesPay
  <2> QED
    BY <1>9, <2>1, <2>2 DEF Quiet
<1> QED
  BY <1>1, <1>5, <1>6, <1>7, <1>8, <1>9, RingStepKinds

\* A session starts with nothing owed.
LEMMA DebtAtFirst == SessionInit => DebtInv
<1> SUFFICES ASSUME SessionInit PROVE DebtInv
  OBVIOUS
<1> DEFINE c == [type |-> "UserMessage", mentions |-> <<>>]
<1>1. /\ rx = <<c>> /\ deferred = <<>> /\ held = <<>> /\ summons = <<>>
      /\ stashedRelease = NoStash /\ retry = {} /\ left = Budget
  BY DEF SessionInit, RingInit, PumpInit
<1>2. c \in Command /\ <<>> \in Seq(Command) /\ rx = Append(<<>>, c)
  <2>1. <<>> \in Seq(Participants) /\ <<>> \in Seq(Command)
    BY EmptySeq
  <2>2. c \in Command
    BY <2>1, SentCommands
  <2>3. <<c>> = Append(<<>>, c)
    OBVIOUS
  <2> QED
    BY <1>1, <2>1, <2>2, <2>3
<1>3. /\ Budget["error"] \in Int /\ Budget["mention"] \in Int
  BY InputsAssumption DEF Kinds
<1>4. c \notin Weighty /\ c \notin Crowded
  BY EmptySeq DEF Weighty, Crowded
<1>5. ASSUME NEW K, c \notin K
      PROVE  Traffic(K) = 0
  <2>1. Count(rx, K) <= Count(<<>>, K) + One(c, K)
    BY <1>2, CountAppend
  <2>2. Count(rx, K) \in Nat
    BY <1>2, AppendProperties, CountTypes
  <2> QED
    BY <1>1, <1>5, <2>1, <2>2, CountEmpty DEF Traffic, One
<1>6. Traffic(Weighty) = 0 /\ Traffic(Crowded) = 0
  BY <1>4, <1>5
<1>7. Len(summons) = 0 /\ Len(stashedRelease.mentions) = 0 /\ Cardinality(retry) = 0
  BY <1>1, EmptySeq, FS_EmptySet DEF NoStash
<1>8. Balance(0, 0, 0, 0, Budget["error"], Budget["mention"]) = 0
  BY <1>3 DEF Balance
<1>9. Debt = 0
  BY <1>1, <1>6, <1>7, <1>8 DEF Debt
<1> QED
  BY <1>1, <1>3, <1>6, <1>9 DEF DebtInv

\* Nobody is ever named twice in a message, and the summonses that are still to be answered were
\* all paid for with an error or a mention.
LEMMA DebtInvariance == SessionSpec => []DebtInv
<1>2. SessionInv /\ DebtInv /\ [SessionNext]_allVars => DebtInv'
  <2> SUFFICES ASSUME SessionInv, DebtInv, [SessionNext]_allVars PROVE DebtInv'
    OBVIOUS
  <2>1. SessionInv'
    BY SessionStepsAreRingSteps
  <2>2. Debt \in Int /\ Debt' \in Int
    BY <2>1, DebtIsANumber, NextDebtIsANumber
  <2>3. CASE RingTurn
    <3>1. Traffic(Crowded)' = 0
      <4>1. StateInv /\ RingStep /\ Traffic(Crowded) = 0
        BY <2>3 DEF SessionInv, RingTurn, DebtInv
      <4>2. Traffic(Crowded)' \in Nat /\ Traffic(Crowded)' <= Traffic(Crowded)
        BY <4>1, ForeignSets, RingTraffic
      <4> QED
        BY <4>1, <4>2
    <3>2. Debt' <= Debt
      BY <2>1, <2>3, RingPays DEF DebtInv
    <3>3. UNCHANGED left
      BY <2>3 DEF RingTurn
    <3> QED
      BY <2>2, <3>1, <3>2, <3>3 DEF DebtInv
  <2>4. CASE SessionStep
    <3>1. Debt' <= Debt /\ SendsNo(Crowded)
      BY <2>4, OthersPay
    <3>2. UNCHANGED ringVars /\ RestTypeOK
      BY <2>4, SessionStepKeeps, TypeOKParts DEF SessionInv, StateInv, OthersKeep
    <3>3. Traffic(Crowded)' = 0
      <4>1. Traffic(Crowded)' <= Traffic(Crowded) /\ Traffic(Crowded)' \in Nat
        BY <2>1, <3>1, <3>2, SendsCount, NextAccountTypes DEF AccountsTyped
      <4> QED
        BY <4>1 DEF DebtInv
    <3>4. left'["error"] <= left["error"] /\ left'["mention"] <= left["mention"]
      BY <2>4, OthersLeaveAlone DEF OthersStay, Kinds
    <3>5. /\ left["error"] \in Nat /\ left["mention"] \in Nat
          /\ Budget["error"] \in Nat /\ Budget["mention"] \in Nat
      BY AccountTypes DEF AccountsTyped
    <3>6. left'["error"] \in Nat /\ left'["mention"] \in Nat
      BY <2>1, NextAccountTypes DEF AccountsTyped
    <3> QED
      BY <2>2, <3>1, <3>3, <3>4, <3>5, <3>6 DEF DebtInv
  <2>5. CASE UNCHANGED allVars
    <3>1. /\ UNCHANGED <<rx, deferred, held, summons, stashedRelease, retry, left>>
      BY <2>5 DEF allVars, vars, ringVars, sharedVars, pumpVars
    <3> QED
      BY <3>1 DEF DebtInv, Debt, Balance, Traffic, Count, Marks
  <2> QED
    BY <2>3, <2>4, <2>5 DEF SessionNext
<1> QED
  BY <1>2, DebtAtFirst, SessionInvariance, PTL DEF SessionSpec
-----------------------------------------------------------------------------
(* A round has no more laps than its cap *)

\* The rotation of a session, how long a lap is, and how far along it a participant stands.
Ring == Participants \ OnMention
Size == Cardinality(Ring)
UpTo(a) == {p \in Ring : p <= a}
Rank(a) == Cardinality(UpTo(a))

\* The turns that `l` closed laps and a position allow: the lap that reaches the cap is the last.
LapsUsed(l) == IF l < RoundCap THEN l ELSE RoundCap - 1
Allowance(l, a) == LapsUsed(l) * Size + Rank(a)

\* `x` turns are within what the lap counter and the anchor allow; before the rotation was
\* reached, nothing is.
Within(x, l, a) == x <= Allowance(l, a) /\ (a = NoOne => x <= 0)

\* The turns of the round that no input paid for.
RoundInv == RoundCap # 0 => Within(Debt + dealt, laps, anchor)

LEMMA RankTypes ==
  ASSUME NEW a
  PROVE  /\ IsFiniteSet(UpTo(a)) /\ UpTo(a) \subseteq Ring
         /\ Rank(a) \in Nat /\ Size \in Nat /\ Rank(a) <= Size
<1>1. IsFiniteSet(Ring) /\ UpTo(a) \subseteq Ring
  BY RosterAssumption, FS_Subset DEF Ring, UpTo
<1>2. IsFiniteSet(UpTo(a)) /\ Rank(a) <= Size
  BY <1>1, FS_Subset DEF Rank, Size
<1> QED
  BY <1>1, <1>2, FS_CardinalityType DEF Rank, Size

\* Whoever comes later in the ring stands further along it.
LEMMA RankGrows ==
  ASSUME NEW to \in Ring, NEW from \in Nat
  PROVE  /\ Rank(to) >= 1
         /\ from < to => Rank(to) >= Rank(from) + 1
<1>1. IsFiniteSet(UpTo(to)) /\ IsFiniteSet(UpTo(from)) /\ Rank(to) \in Nat /\ Rank(from) \in Nat
  BY RankTypes
<1>2. to \in Nat /\ Ring \subseteq Nat
  BY RosterAssumption DEF Ring
<1>3. to \in UpTo(to)
  BY <1>2 DEF UpTo
<1>4. Rank(to) # 0
  BY <1>1, <1>3, FS_EmptySet DEF Rank
<1>5. ASSUME from < to
      PROVE  Rank(to) >= Rank(from) + 1
  <2>1. to \notin UpTo(from) /\ UpTo(from) \cup {to} \subseteq UpTo(to)
    <3>1. to \notin UpTo(from)
      BY <1>2, <1>5 DEF UpTo
    <3>2. \A p \in UpTo(from) : p \in Ring /\ p \in Nat /\ p <= from
      BY <1>2 DEF UpTo
    <3>3. \A p \in UpTo(from) : p <= to
      BY <1>2, <1>5, <3>2
    <3> QED
      BY <1>3, <3>1, <3>2, <3>3 DEF UpTo
  <2>2. Cardinality(UpTo(from) \cup {to}) = Rank(from) + 1
    BY <1>1, <2>1, FS_AddElement DEF Rank
  <2>3. Cardinality(UpTo(from) \cup {to}) <= Rank(to)
    BY <1>1, <2>1, FS_Subset DEF Rank
  <2> QED
    BY <1>1, <2>2, <2>3
<1> QED
  BY <1>1, <1>4, <1>5

\* Products of laps.
LEMMA LapsMultiply ==
  ASSUME NEW n \in Nat, NEW m \in Nat, NEW s \in Nat, n + 1 <= m
  PROVE  n * s + s <= m * s
<1>1. (m - (n + 1)) \in Nat /\ (m - (n + 1)) * s \in Nat
  OBVIOUS
<1>2. m * s = (m - (n + 1)) * s + (n * s + s)
  OBVIOUS
<1>3. n * s \in Nat /\ m * s \in Nat
  OBVIOUS
<1> QED
  BY <1>1, <1>2, <1>3

\* What is allowed is a number, grows with the laps, and a lap more allows a whole ring more.
LEMMA AllowanceFacts ==
  ASSUME RoundCap # 0, NEW l \in Nat, NEW a
  PROVE  /\ Allowance(l, a) \in Nat
         /\ Allowance(0, a) = Rank(a)
         /\ Allowance(l, a) <= Allowance(l + 1, a)
         /\ \A b : l + 1 < RoundCap => Allowance(l + 1, b) = Allowance(l, a) - Rank(a) + Size + Rank(b)
         /\ Allowance(l, a) <= RoundCap * Size
<1>1. Rank(a) \in Nat /\ Size \in Nat /\ Rank(a) <= Size /\ RoundCap \in Nat \ {0}
  BY RankTypes, BoundsAssumption
<1>2. LapsUsed(l) \in Nat /\ LapsUsed(l + 1) \in Nat /\ LapsUsed(0) = 0 /\ LapsUsed(l) + 1 <= RoundCap
  BY <1>1 DEF LapsUsed
<1>3. \/ LapsUsed(l + 1) = LapsUsed(l)
      \/ LapsUsed(l + 1) = LapsUsed(l) + 1
  BY <1>1 DEF LapsUsed
<1>4. \A n \in Nat : n * Size \in Nat /\ (n + 1) * Size = n * Size + Size /\ 0 * Size = 0
  BY <1>1
<1>5. Allowance(l, a) \in Nat /\ Allowance(0, a) = Rank(a)
  BY <1>1, <1>2, <1>4 DEF Allowance
<1>6. Allowance(l, a) <= Allowance(l + 1, a)
  BY <1>1, <1>2, <1>3, <1>4 DEF Allowance
<1>7. ASSUME NEW b, l + 1 < RoundCap
      PROVE  Allowance(l + 1, b) = Allowance(l, a) - Rank(a) + Size + Rank(b)
  <2>1. LapsUsed(l) = l /\ LapsUsed(l + 1) = l + 1 /\ Rank(b) \in Nat
    BY <1>1, <1>7, RankTypes DEF LapsUsed
  <2> QED
    BY <1>1, <1>4, <2>1 DEF Allowance
<1>8. Allowance(l, a) <= RoundCap * Size
  <2>1. \A n \in Nat, m \in Nat : n + 1 <= m => n * Size + Size <= m * Size
    BY <1>1, LapsMultiply
  <2> QED
    BY <1>1, <1>2, <1>4, <2>1 DEF Allowance
<1> QED
  BY <1>5, <1>6, <1>7, <1>8

LEMMA SameLap ==
  ASSUME RoundCap # 0, NEW l \in Nat, NEW a, NEW b
  PROVE  Allowance(l, b) = Allowance(l, a) - Rank(a) + Rank(b)
<1>1. Rank(a) \in Nat /\ Rank(b) \in Nat /\ Size \in Nat
  BY RankTypes
<1>2. LapsUsed(l) * Size \in Int
  BY <1>1, BoundsAssumption DEF LapsUsed
<1> QED
  BY <1>1, <1>2 DEF Allowance

\* hand_over: the next in the ring is further along it, or the lap closes.
LEMMA NextInTheRing ==
  ASSUME RosterStands, NEW from \in Someone, NEW to, to = NextInRing(Rotation, from)
  PROVE  /\ Rotation = Ring
         /\ to = NoOne => Size = 0 /\ ~Wraps(from, to)
         /\ to # NoOne => /\ to \in Ring
                          /\ Rank(to) >= 1
                          /\ ~Wraps(from, to) => Rank(to) >= Rank(from) + 1
<1>1. Rotation = Ring /\ Ring \in SUBSET Participants
  BY DEF Rotation, Ring, RosterStands
<1>2. to \in Ring \cup {NoOne}
  BY <1>1, NextInRingIsSomeone
<1>3. CASE to = NoOne
  <2>1. to \notin Ring
    BY <1>3, NoOneIsNotHere DEF Ring
  <2>2. ASSUME Ring # {} PROVE FALSE
    <3> DEFINE after == {p \in Ring : p > from}
    <3>1. to = Smallest(IF from # NoOne /\ after # {} THEN after ELSE Ring)
      BY <1>1, <2>2 DEF NextInRing
    <3>2. after \in SUBSET Participants
      BY <1>1
    <3>3. to \in after \cup Ring
      BY <1>1, <2>2, <3>1, <3>2, SmallestIsMember
    <3> QED
      BY <2>1, <3>3
  <2>3. Size = 0
    BY <2>2, FS_EmptySet DEF Size
  <2> QED
    BY <1>1, <1>3, <2>3 DEF Wraps
<1>4. CASE to # NoOne
  <2>1. to \in Ring /\ from \in Nat /\ to \in Nat
    BY <1>2, <1>4, RosterAssumption DEF Ring, Someone, NoOne
  <2>2. Rank(to) >= 1 /\ (from < to => Rank(to) >= Rank(from) + 1)
    BY <2>1, RankGrows
  <2>3. ~Wraps(from, to) => Rank(to) >= Rank(from) + 1
    <3>1. CASE from = NoOne
      <4>1. Rank(from) = 0
        <5>1. UpTo(from) = {}
          <6>1. \A p \in Ring : p \in Nat /\ p # 0
            BY RosterAssumption DEF Ring
          <6>2. \A p \in Ring : ~(p <= from)
            BY <3>1, <6>1 DEF NoOne
          <6> QED
            BY <6>2 DEF UpTo
        <5> QED
          BY <5>1, FS_EmptySet DEF Rank
      <4>2. Rank(to) \in Nat
        BY RankTypes
      <4> QED
        BY <2>2, <4>1, <4>2
    <3>2. CASE from # NoOne
      BY <1>4, <2>1, <2>2, <3>2 DEF Wraps
    <3> QED
      BY <3>1, <3>2
  <2> QED
    BY <1>1, <1>4, <2>1, <2>2, <2>3
<1> QED
  BY <1>3, <1>4

\* hand_over and what follows it: a turn more is within what the lap and the anchor allow.
LEMMA StepRingWithin ==
  ASSUME SessionInv, RosterStands, RoundCap # 0, NEW from \in Someone, NEW lap \in Nat,
         NEW spoke \in BOOLEAN, NEW tally, StepRing(from, lap, spoke, tally),
         NEW x \in Int, Within(x, lap, from),
         from = anchor \/ x <= 0
  PROVE  Within(x + (IF Deals THEN 1 ELSE 0), laps', anchor')
<1> DEFINE to == NextInRing(Rotation, from)
           wraps == Wraps(from, to)
           nextLap == IF wraps THEN lap + 1 ELSE lap
           allPassed == wraps /\ ~spoke
           capped == wraps /\ spoke /\ RoundCap # 0 /\ nextLap >= RoundCap
<1>1. anchor \in Someone /\ epoch \in Nat
  BY TypeOKParts DEF SessionInv, StateInv, DealTypeOK
<1>2. /\ \A l \in Nat : \A a : /\ Allowance(l, a) \in Nat /\ Allowance(l, a) <= Allowance(l + 1, a)
                                /\ Rank(a) \in Nat /\ Rank(a) <= Size
      /\ Size \in Nat
  BY AllowanceFacts, RankTypes
<1>3. CASE UNCHANGED <<holder, epoch, anchor>> /\ laps' = lap
  <2>1. ~Deals
    BY <1>3 DEF Deals
  <2>2. x \in Int /\ Within(x, lap, anchor)
    BY <1>2 DEF Within
  <2> QED
    BY <1>3, <2>1, <2>2
<1>4. CASE holder' = NoOne /\ UNCHANGED anchor /\ wraps /\ laps' = nextLap
  <2>1. ~Deals
    BY <1>4 DEF Deals
  <2>2. Within(x, lap + 1, anchor)
    BY <1>2, <1>4 DEF Within, Wraps
  <2> QED
    BY <1>4, <2>1, <2>2
<1>5. CASE ~allPassed /\ ~capped /\ laps' = nextLap /\ anchor' = to /\ StartTurn(to)
  <2>1. /\ to = NoOne => Size = 0 /\ ~wraps
        /\ to # NoOne => Rank(to) >= 1 /\ (~wraps => Rank(to) >= Rank(from) + 1)
    BY NextInTheRing
  <2> HIDE DEF to
  <2>2. CASE to = NoOne
    <3>1. ~Deals /\ laps' = lap /\ anchor' = NoOne
      BY <1>5, <2>1, <2>2 DEF Deals, StartTurn
    <3>2. Allowance(lap, from) = 0
      <4>1. Allowance(lap, from) \in Nat /\ Allowance(lap, from) <= RoundCap * Size
        BY AllowanceFacts
      <4>2. RoundCap * Size = 0
        BY <2>1, <2>2, BoundsAssumption
      <4> QED
        BY <4>1, <4>2
    <3> QED
      BY <1>2, <3>1, <3>2 DEF Within
  <2>3. CASE to # NoOne
    <3>1. Deals /\ anchor' = to
      BY <1>1, <1>5, <2>3 DEF Deals, StartTurn
    <3>2. CASE ~wraps
      <4>1. laps' = lap /\ x <= Allowance(lap, from) /\ Rank(to) >= Rank(from) + 1
        BY <1>5, <2>1, <2>3, <3>2 DEF Within
      <4>2. Allowance(lap, to) = Allowance(lap, from) - Rank(from) + Rank(to)
        BY <1>2, SameLap
      <4>3. x + 1 <= Allowance(lap, to)
        BY <1>2, <4>1, <4>2
      <4> QED
        BY <2>3, <3>1, <4>1, <4>3 DEF Within
    <3>3. CASE wraps
      <4>1. laps' = lap + 1 /\ lap + 1 < RoundCap
        BY <1>5, <3>3, BoundsAssumption
      <4>2. Allowance(lap + 1, to) = Allowance(lap, from) - Rank(from) + Size + Rank(to)
        BY <4>1, AllowanceFacts
      <4>3. x + 1 <= Allowance(lap + 1, to)
        BY <1>2, <2>1, <2>3, <4>2 DEF Within
      <4> QED
        BY <2>3, <3>1, <4>1, <4>3 DEF Within
    <3> QED
      BY <3>2, <3>3
  <2> QED
    BY <2>2, <2>3
<1> QED
  BY <1>3, <1>4, <1>5 DEF StepRing, YieldToUser, Halt

LEMMA StepRingLaps ==
  ASSUME NEW from, NEW lap \in Nat, NEW spoke, NEW tally, StepRing(from, lap, spoke, tally)
  PROVE  laps' \in Nat
<1> DEFINE wraps == Wraps(from, NextInRing(Rotation, from))
           nextLap == IF wraps THEN lap + 1 ELSE lap
<1>1. nextLap \in Nat
  OBVIOUS
<1>2. laps' = lap \/ laps' = nextLap
  BY DEF StepRing
<1> QED
  BY <1>1, <1>2

\* advance_turn: what leaves the queue, and the turn it hands out, are within the allowance.
LEMMA AdvanceWithin ==
  ASSUME SessionInv, RosterStands, RoundCap # 0, NEW userSpoke \in BOOLEAN,
         NEW queue \in Seq(Participants), NEW spoke \in BOOLEAN, NEW tally,
         Advance(userSpoke, queue, spoke, tally),
         NEW x \in Int, IF userSpoke THEN x <= 0 ELSE Within(x, laps, anchor)
  PROVE  Within(x - (Len(queue) - Len(summons')) + (IF Deals THEN 1 ELSE 0), laps', anchor')
<1>1. anchor \in Someone /\ laps \in Nat /\ NoOne \in Someone
  BY TypeOKParts DEF SessionInv, StateInv, DealTypeOK, Someone
<1>2. \A l \in Nat : \A a : Allowance(l, a) \in Nat
  BY AllowanceFacts
<1>3. Len(queue) \in Nat /\ Len(summons') \in Nat /\ Len(summons') <= Len(queue)
  BY AdvanceShortens
<1>4. \A y \in Int, z \in Int : \A l, a : y <= z /\ l \in Nat /\ Within(z, l, a) => Within(y, l, a)
  BY <1>2 DEF Within
<1>5. x <= 0 => \A l \in Nat : \A a : Within(x, l, a)
  BY <1>2 DEF Within
<1>6. CASE Park(queue, spoke, tally)
  <2>1. ~Deals /\ summons' = queue /\ UNCHANGED <<laps, anchor>>
    BY <1>6 DEF Park, Halt, Deals
  <2>2. Within(x, laps, anchor)
    BY <1>1, <1>5
  <2> QED
    BY <1>3, <2>1, <2>2
<1>7. ASSUME NEW k \in 0..Len(queue), NEW from, NEW lap, NEW cleared,
             HandsOut(userSpoke, queue, spoke, tally, k, from, lap, cleared)
      PROVE  Within(x - (Len(queue) - Len(summons')) + (IF Deals THEN 1 ELSE 0), laps', anchor')
  <2>1. /\ from \in Someone /\ lap \in Nat
        /\ from = anchor \/ x <= 0
        /\ lap = laps \/ x <= 0
    BY <1>1, <1>7 DEF HandsOut, Within
  <2>2. Within(x, lap, from) /\ Within(x, lap, anchor)
    BY <1>1, <1>5, <2>1
  <2>3. summons' = SubSeq(queue, k + 2, Len(queue))
    BY <1>7 DEF HandsOut
  <2>4. CASE k < Len(queue) /\ laps' = lap /\ UNCHANGED anchor
    <3>1. Len(summons') + 1 <= Len(queue)
      BY <2>3, <2>4, RestOfQueue
    <3> DEFINE y == x - (Len(queue) - Len(summons')) + (IF Deals THEN 1 ELSE 0)
    <3>2. y \in Int /\ y <= x
      BY <1>3, <3>1
    <3> HIDE DEF y
    <3>3. Within(y, lap, anchor)
      BY <1>4, <2>1, <2>2, <3>2
    <3> QED
      BY <2>4, <3>3 DEF y
  <2>5. CASE StepRing(from, lap, spoke, cleared)
    <3> DEFINE d == IF Deals THEN 1 ELSE 0
               y == x - (Len(queue) - Len(summons')) + d
    <3>1. Within(x + d, laps', anchor')
      BY <2>1, <2>2, <2>5, StepRingWithin
    <3>2. d \in Int
      OBVIOUS
    <3> HIDE DEF d
    <3>3. y \in Int /\ x + d \in Int /\ y <= x + d
      BY <1>3, <3>2
    <3>4. laps' \in Nat
      BY <2>1, <2>5, StepRingLaps
    <3> HIDE DEF y
    <3>5. Within(y, laps', anchor')
      BY <1>4, <3>1, <3>3, <3>4
    <3> QED
      BY <3>5 DEF y, d
  <2> QED
    BY <1>7, <2>4, <2>5 DEF HandsOut
<1> QED
  BY <1>6, <1>7, AdvanceArms

\* A step of the ring keeps the round within its allowance.
LEMMA RingKeepsRound ==
  ASSUME SessionInv, SessionInv', RosterStands, RoundCap # 0, RingTurn, DebtInv,
         Within(Debt + dealt, laps, anchor)
  PROVE  Within(Debt' + dealt', laps', anchor')
<1> DEFINE d == IF Deals THEN 1 ELSE 0
<1>1. StateInv /\ RingStep /\ UNCHANGED <<retry, left>> /\ Traffic(Crowded) = 0 /\ Debt <= 0
  BY DEF SessionInv, RingTurn, pumpVars, DebtInv
<1>2. /\ DealTypeOK /\ RestTypeOK /\ summons \in Seq(Participants)
      /\ laps \in Nat /\ spokeThisLap \in BOOLEAN
  BY <1>1, TypeOKParts DEF StateInv, DealTypeOK
<1>3. laps' \in Nat /\ Len(summons') \in Nat /\ Len(summons) \in Nat
  <2>1. laps' \in Nat
    BY DEF SessionInv, StateInv, TypeOK, RingTypeOK
  <2> QED
    BY <2>1, AccountTypes, NextAccountTypes DEF AccountsTyped
<1>4. dealt \in Nat /\ Debt \in Int /\ Debt' \in Int
  BY DebtIsANumber, NextDebtIsANumber DEF DebtIsNumber, SessionInv, OthersTypeOK, AppTypeOK
<1>5. dealt' = (IF Releases THEN 0 ELSE dealt) + d
  BY DEF RingTurn
<1>6. d \in {0, 1}
  OBVIOUS
<1>7. \A y \in Int, z \in Int : \A l \in Nat : \A a : y <= z /\ Within(z, l, a) => Within(y, l, a)
  BY AllowanceFacts DEF Within
<1> HIDE DEF d
<1>8. ASSUME NEW queue \in Seq(Participants), QueuePays(queue), NEW base \in Nat,
             dealt' = base + d, NEW start \in Int, start = Debt + base,
             Within(start - (Len(queue) - Len(summons')) + d, laps', anchor')
      PROVE  Within(Debt' + dealt', laps', anchor')
  <2>1. Len(queue) \in Nat
    BY LenProperties
  <2>2. Debt' <= Debt - (Len(queue) - Len(summons'))
    BY <1>1, <1>8, <2>1, RingDebt
  <2> DEFINE y == Debt' + dealt'
             z == start - (Len(queue) - Len(summons')) + d
             x == Debt
             xx == Debt'
  <2>3. y \in Int /\ z \in Int /\ y <= z
    <3>1. /\ x \in Int /\ xx \in Int /\ xx <= x - (Len(queue) - Len(summons'))
          /\ start = x + base
      BY <1>4, <1>8, <2>2
    <3> HIDE DEF x, xx
    <3>2. /\ xx + (base + d) \in Int
          /\ start - (Len(queue) - Len(summons')) + d \in Int
          /\ xx + (base + d) <= start - (Len(queue) - Len(summons')) + d
      BY <1>3, <1>6, <2>1, <3>1
    <3> QED
      BY <1>8, <3>2 DEF x, xx
  <2>4. Within(z, laps', anchor')
    BY <1>8
  <2> HIDE DEF y, z
  <2>5. Within(y, laps', anchor')
    BY <1>3, <1>7, <2>3, <2>4
  <2> QED
    BY <2>5 DEF y
<1>9. ASSUME NEW userSpoke \in BOOLEAN, NEW queue \in Seq(Participants), NEW spoke \in BOOLEAN,
             NEW tally, QueuePays(queue), Advance(userSpoke, queue, spoke, tally),
             userSpoke <=> Releases
      PROVE  Within(Debt' + dealt', laps', anchor')
  <2> DEFINE base == IF Releases THEN 0 ELSE dealt
             x == Debt + base
  <2>1. base \in Nat /\ x \in Int /\ x = Debt + base
    BY <1>4
  <2>2. IF userSpoke THEN x <= 0 ELSE Within(x, laps, anchor)
    BY <1>1, <1>4, <1>9
  <2>3. Within(x - (Len(queue) - Len(summons')) + d, laps', anchor')
    <3> HIDE DEF x
    <3> QED
      BY <1>9, <2>1, <2>2, AdvanceWithin DEF d
  <2>4. dealt' = base + d
    BY <1>5
  <2> HIDE DEF base, x
  <2> QED
    BY <1>8, <1>9, <2>1, <2>3, <2>4
<1>10. ASSUME NEW c \in {Next1}, NEW tally \in SUBSET Participants, GoesOn(c, tally)
       PROVE  Within(Debt' + dealt', laps', anchor')
  <2>1. UNCHANGED stashedRelease /\ Advance(FALSE, summons, SpokeAfter(c), tally)
    BY <1>10 DEF GoesOn, LiveCompletion
  <2>2. ~Releases
    <3>1. Dispatches("TurnComplete")
      BY <1>10 DEF GoesOn, LiveCompletion
    <3> QED
      BY <2>1, <3>1, OneArm DEF Releases
  <2>3. SpokeAfter(c) \in BOOLEAN
    BY <1>2 DEF SpokeAfter
  <2> QED
    BY <1>1, <1>2, <1>9, <2>1, <2>2, <2>3, QueuesPay
<1>11. ASSUME NEW ms \in Seq(Participants), Released(ms)
       PROVE  Within(Debt' + dealt', laps', anchor')
  <2>1. summons \o ms \in Seq(Participants)
    BY <1>2, ConcatProperties
  <2>2. Releases /\ Advance(TRUE, summons \o ms, spokeThisLap, votes)
    BY <1>11 DEF Released, ReleaseRing
  <2> QED
    BY <1>1, <1>2, <1>9, <1>11, <2>1, <2>2, QueuesPay
<1>12. CASE Summoned
  <2>1. Next1.participant \in Participants
    BY <1>2, <1>12, Dispatched, CommandFields DEF Summoned
  <2>2. Append(summons, Next1.participant) \in Seq(Participants)
    BY <1>2, <2>1, AppendProperties
  <2> QED
    BY <1>1, <1>2, <1>9, <1>12, <2>2, QueuesPay DEF Summoned
<1>13. ASSUME ~Deals, ~Releases, UNCHANGED <<laps, anchor>>
       PROVE  Within(Debt' + dealt', laps', anchor')
  <2>1. dealt' = dealt
    BY <1>4, <1>5, <1>13 DEF d
  <2>2. Debt' <= Debt
    BY <1>1, RingPays
  <2> DEFINE y == Debt' + dealt
             z == Debt + dealt
  <2>3. y \in Int /\ z \in Int /\ y <= z
    <3> DEFINE x == Debt
               xx == Debt'
    <3>1. x \in Int /\ xx \in Int /\ xx <= x
      BY <1>4, <2>2
    <3> HIDE DEF x, xx
    <3>2. xx + dealt \in Int /\ x + dealt \in Int /\ xx + dealt <= x + dealt
      BY <1>4, <3>1
    <3> QED
      BY <3>2 DEF x, xx
  <2>4. Within(z, laps, anchor)
    OBVIOUS
  <2> HIDE DEF y, z
  <2>5. Within(y, laps, anchor)
    BY <1>2, <1>7, <2>3, <2>4
  <2> QED
    BY <1>13, <2>1, <2>5 DEF y
<1>14. ASSUME NEW c \in {Next1}, TurnStops(c)
       PROVE  Within(Debt' + dealt', laps', anchor')
  <2>1. /\ UNCHANGED <<stashedRelease, laps, anchor>> /\ holder' = NoOne
        /\ Dispatches("TurnComplete")
    BY <1>14 DEF TurnStops, LiveCompletion, CompletionConsensus, CompletionSpins,
                 CompletionAtStage, YieldToUser, Halt
  <2>2. ~Releases
    BY <2>1, OneArm DEF Releases
  <2>3. ~Deals
    BY <2>1 DEF Deals
  <2> QED
    BY <1>13, <2>1, <2>2, <2>3
<1>15. CASE Quiet
  <2>1. ~Deals /\ ~Releases /\ UNCHANGED <<laps, anchor>>
    BY <1>15 DEF Quiet, Halt, Deals
  <2> QED
    BY <1>13, <2>1
<1> QED
  BY <1>1, <1>10, <1>11, <1>12, <1>14, <1>15, RingStepKinds

\* What was spent bounds the debt from below.
LEMMA DebtIsBounded ==
  ASSUME SessionInv
  PROVE  0 - Budget["error"] - Budget["mention"] <= Debt
<1>1. AccountsTyped
  BY AccountTypes
<1>2. ASSUME NEW q \in Nat, NEW s \in Nat, NEW t \in Nat, NEW r \in Nat, NEW e \in Nat,
             NEW m \in Nat
      PROVE  0 - Budget["error"] - Budget["mention"] <= Balance(q, s, t, r, e, m)
  <2> DEFINE owed == q + s + t + r
  <2> DEFINE errors == Budget["error"]
             mentions == Budget["mention"]
  <2>1. owed \in Nat /\ errors \in Nat /\ mentions \in Nat
    BY <1>1 DEF AccountsTyped
  <2>2. Balance(q, s, t, r, e, m) = owed - (errors - e) - (mentions - m)
    BY <2>1 DEF Balance
  <2> HIDE DEF owed, errors, mentions
  <2>3. 0 - errors - mentions <= owed - (errors - e) - (mentions - m)
    BY <2>1
  <2> QED
    BY <2>2, <2>3 DEF errors, mentions
<1> QED
  BY <1>1, <1>2 DEF AccountsTyped, Debt

LEMMA SessionStartsEven == SessionInit => DebtInv /\ SessionInv
BY DebtAtFirst, SessionInitTypes, InitStateInv DEF SessionInv

\* No other task deals a turn, and what it adds to the debt it pays for.
LEMMA RoundInvariance == SessionSpec => []RoundInv
<1>1. SessionInit => RoundInv
  <2> SUFFICES ASSUME SessionInit, RoundCap # 0 PROVE Within(Debt + dealt, laps, anchor)
    BY DEF RoundInv
  <2>1. DebtInv /\ SessionInv
    BY SessionStartsEven
  <2>2. Debt <= 0 /\ Debt \in Int /\ dealt = 0 /\ laps = 0
    BY <2>1, DebtIsANumber DEF DebtInv, DebtIsNumber, SessionInit, RingInit
  <2> DEFINE x == Debt
  <2>3. x \in Int /\ x <= 0
    BY <2>2
  <2> HIDE DEF x
  <2>4. Within(x + 0, 0, anchor)
    BY <2>3, AllowanceFacts DEF Within
  <2> QED
    BY <2>2, <2>4 DEF x
<1>2. SessionInv /\ RosterStands /\ DebtInv /\ RoundInv /\ [SessionNext]_allVars => RoundInv'
  <2> SUFFICES ASSUME SessionInv, RosterStands, DebtInv, [SessionNext]_allVars, RoundCap # 0,
                      Within(Debt + dealt, laps, anchor)
               PROVE  Within(Debt' + dealt', laps', anchor')
    BY DEF RoundInv, Within, Allowance, Rank, UpTo, Size, Ring, LapsUsed
  <2>1. SessionInv'
    BY SessionStepsAreRingSteps
  <2>2. CASE RingTurn
    BY <2>1, <2>2, RingKeepsRound
  <2>3. ASSUME Debt' <= Debt, UNCHANGED <<dealt, laps, anchor>>
        PROVE  Within(Debt' + dealt', laps', anchor')
    <3> DEFINE x == Debt
               xx == Debt'
    <3>1. /\ x \in Int /\ xx \in Int /\ xx <= x /\ dealt \in Int /\ laps \in Nat
          /\ Within(x + dealt, laps, anchor)
      BY <2>1, <2>3, DebtIsANumber, NextDebtIsANumber
         DEF DebtIsNumber, SessionInv, OthersTypeOK, AppTypeOK, StateInv, TypeOK, RingTypeOK
    <3> HIDE DEF x, xx
    <3>2. Allowance(laps, anchor) \in Nat
      BY <3>1, AllowanceFacts
    <3>3. Within(xx + dealt, laps, anchor)
      BY <3>1, <3>2 DEF Within
    <3> QED
      BY <2>3, <3>3 DEF xx
  <2>4. CASE SessionStep
    <3>1. UNCHANGED <<dealt, laps, anchor>>
      BY <2>4, OthersLeaveAlone, OthersFrame DEF OthersStay, ringVars
    <3> QED
      BY <2>3, <2>4, <3>1, OthersPay
  <2>5. CASE UNCHANGED allVars
    <3>1. /\ UNCHANGED <<rx, deferred, held, summons, stashedRelease, retry, left>>
          /\ UNCHANGED <<dealt, laps, anchor>>
      BY <2>5 DEF allVars, vars, ringVars, sharedVars, pumpVars
    <3>2. Debt' = Debt
      BY <3>1 DEF Debt, Balance, Traffic, Count, Marks
    <3>3. Debt' <= Debt
      BY <2>1, <3>2, DebtIsANumber DEF DebtIsNumber
    <3> QED
      BY <2>3, <3>1, <3>3
  <2> QED
    BY <2>2, <2>4, <2>5 DEF SessionNext
<1> QED
  BY <1>1, <1>2, SessionInvariance, RosterInvariance, DebtInvariance, PTL DEF SessionSpec

\* Between two messages of the user the ring hands out no more than its cap of laps, and one turn
\* more for everything that summoned somebody (advance_turn counts the laps; a summons from the
\* queue neither counts nor closes one).
THEOREM RoundsAreCapped == SessionSpec => []RoundCapHolds
<1>1. SessionInv /\ DebtInv /\ RoundInv => RoundCapHolds
  <2> SUFFICES ASSUME SessionInv, RoundCap # 0, Within(Debt + dealt, laps, anchor)
               PROVE  dealt <= RoundCap * Cardinality(Participants) + Budget["error"]
                                 + Budget["mention"]
    BY DEF RoundInv, RoundCapHolds
  <2> DEFINE x == Debt
             b == Budget["error"]
             m == Budget["mention"]
             all == Cardinality(Participants)
  <2>1. laps \in Nat /\ dealt \in Nat /\ x \in Int /\ b \in Nat /\ m \in Nat
    BY DebtIsANumber, AccountTypes
       DEF DebtIsNumber, AccountsTyped, SessionInv, OthersTypeOK, AppTypeOK, StateInv, TypeOK,
           RingTypeOK
  <2>2. 0 - b - m <= x
    BY DebtIsBounded
  <2>3. Size \in Nat /\ all \in Nat /\ Size <= all
    BY RosterAssumption, FS_Subset, FS_CardinalityType DEF Size, Ring
  <2>4. Allowance(laps, anchor) \in Nat /\ Allowance(laps, anchor) <= RoundCap * Size
    BY <2>1, AllowanceFacts
  <2>5. RoundCap * Size <= RoundCap * all /\ RoundCap * Size \in Nat /\ RoundCap * all \in Nat
    <3>1. all - Size \in Nat /\ RoundCap \in Nat
      BY <2>3, BoundsAssumption
    <3>2. RoundCap * all = RoundCap * Size + RoundCap * (all - Size)
      BY <2>3, <3>1
    <3>3. RoundCap * (all - Size) \in Nat /\ RoundCap * Size \in Nat
      BY <2>3, <3>1
    <3> QED
      BY <2>3, <3>1, <3>2, <3>3
  <2>6. x + dealt <= Allowance(laps, anchor)
    BY DEF Within
  <2> HIDE DEF x, b, m, all
  <2>7. dealt <= RoundCap * all + b + m
    <3>1. x + dealt <= RoundCap * all
      BY <2>1, <2>4, <2>5, <2>6
    <3> QED
      BY <2>1, <2>2, <2>5, <3>1
  <2> QED
    BY <2>7 DEF b, m, all
<1> QED
  BY <1>1, SessionInvariance, DebtInvariance, RoundInvariance, PTL
-----------------------------------------------------------------------------
(* A staged message waits for the end of somebody's turn *)

\* Only a halt parks the ring: no gate is open or under way, and nobody stopped the session.
Unparked ==
  /\ latch = FALSE /\ gateRows = {} /\ openGates = {} /\ Traffic(Openings) = 0
  /\ left["gate"] = 0 /\ left["stop"] = 0

\* And every process that was started still reads.
Undying ==
  /\ left["death"] = 0
  /\ \A p \in Participants : input[p] # "closed"

\* A gate cannot open in the ring when its command is not under way.
LEMMA NoGateOpens ==
  ASSUME StateInv, RingStep, openGates = {}, gateRows = {}, Traffic(Openings) = 0
  PROVE  openGates' = {}
<1>1. ASSUME ReseedGates PROVE openGates' = {}
  BY <1>1 DEF ReseedGates
<1>2. CASE Completion
  BY <1>1, <1>2
     DEF Completion, CompletionConsensus, CompletionSpins, CompletionAtStage, CompletionSteps,
         CompletionDiscarded, CompletionReplays, ReleaseRing, gateVars
<1>3. CASE UserMessageReleases \/ GraceExpires \/ Summon \/ HaltDeclared \/ ParticipantJoined
  BY <1>1, <1>3 DEF UserMessageReleases, GraceExpires, Summon, HaltDeclared, ParticipantJoined,
                    ReleaseRing, gateVars
<1>4. CASE GateOpened
  <2>1. Next1 \in Command /\ Next1.type = "GateOpened" /\ ~Steers /\ ~HeldByPause /\ HasCommand
    BY <1>4, TypeOKParts, Dispatched DEF StateInv, GateOpened, Dispatches
  <2>2. Next1 \in Openings
    BY <2>1 DEF Openings
  <2>3. Traffic(Openings)' \in Nat /\ Traffic(Openings)' + One(Next1, Openings) <= Traffic(Openings)
    BY <2>1, ForeignSets, RingTraffic
  <2> QED
    BY <2>2, <2>3 DEF One
<1>5. CASE GateResolved
  BY <1>5 DEF GateResolved
<1>6. CASE Drain
  BY <1>6 DEF Drain, DrainNoInput, DrainReadFails, DrainEmpty, DrainReadsCommand, DrainLands,
              DrainUnreachable, UnwindWedgedTurn, drainKeeps, gateVars
<1> QED
  BY <1>2, <1>3, <1>4, <1>5, <1>6
     DEF RingStep, Dispatch, UserSteers, HoldForPause, UserMessageStashed, MessageStaged,
         MessageUnstaged, Pause, Resume, GraceHolds, gateVars

\* The ring opens inputs and closes none.
LEMMA NoInputCloses ==
  ASSUME StateInv, RingStep, \A p \in Participants : input[p] # "closed"
  PROVE  \A p \in Participants : input'[p] # "closed"
<1>1. input \in [Participants -> {"none", "open", "closed"}]
  BY DEF StateInv, TypeOK, WorldTypeOK
<1>2. CASE UNCHANGED input
  BY <1>2
<1>3. CASE ParticipantJoined
  BY <1>1, <1>3 DEF ParticipantJoined
<1>4. CASE Completion
  BY <1>2, <1>4
     DEF Completion, CompletionConsensus, CompletionSpins, CompletionAtStage, CompletionSteps,
         CompletionDiscarded, CompletionReplays, LiveCompletion, deliveryVars
<1>5. CASE Drain
  BY <1>2, <1>5 DEF Drain, DrainNoInput, DrainReadFails, DrainEmpty, DrainReadsCommand, DrainLands,
                    DrainUnreachable, UnwindWedgedTurn, drainKeeps
<1> QED
  BY <1>2, <1>3, <1>4, <1>5
     DEF RingStep, Dispatch, UserSteers, HoldForPause, UserMessageStashed, UserMessageReleases,
         MessageStaged, MessageUnstaged, HaltDeclared, GateOpened, GateResolved, Summon, Pause,
         Resume, GraceExpires, GraceHolds, deliveryVars

\* An input that is used up stays so.
LEMMA SpentStays ==
  ASSUME SessionInv, SessionInv', NEW k \in Kinds, left[k] = 0, left'[k] <= left[k]
  PROVE  left'[k] = 0
<1>1. left \in [Kinds -> Nat] /\ left' \in [Kinds -> Nat]
  BY DEF SessionInv, OthersTypeOK, AppTypeOK
<1>2. left'[k] \in Nat
  BY <1>1
<1> QED
  BY <1>2

LEMMA UnparkedStays ==
  ASSUME SessionInv, Unparked, [SessionNext]_allVars
  PROVE  Unparked'
<1>1. CASE RingTurn
  <2>1. StateInv /\ RingStep /\ UNCHANGED left
    BY <1>1 DEF SessionInv, RingTurn
  <2>2. UNCHANGED <<latch, gateRows>>
    BY <2>1, RingKeepsTheWorld DEF worldVars
  <2>3. openGates' = {}
    BY <2>1, NoGateOpens DEF Unparked
  <2>4. Traffic(Openings)' = 0
    <3>1. Traffic(Openings)' \in Nat /\ Traffic(Openings)' <= Traffic(Openings)
      BY <2>1, ForeignSets, RingTraffic
    <3> QED
      BY <3>1 DEF Unparked
  <2> QED
    BY <2>1, <2>2, <2>3, <2>4 DEF Unparked
<1>2. CASE SessionStep
  <2>1. OthersStay /\ SessionInv'
    BY <1>2, OthersLeaveAlone, SessionStepsAreRingSteps DEF SessionNext
  <2>2. UNCHANGED ringVars /\ RestTypeOK
    BY <1>2, SessionStepKeeps, TypeOKParts DEF SessionInv, StateInv, OthersKeep
  <2>3. latch' = FALSE /\ gateRows' = {} /\ SendsNo(Openings)
    <3>1. latch' \in BOOLEAN
      BY <2>1 DEF SessionInv, StateInv, TypeOK, WorldTypeOK
    <3> QED
      BY <2>1, <3>1 DEF OthersStay, Unparked
  <2>4. Traffic(Openings)' = 0
    <3>1. Traffic(Openings)' \in Nat /\ Traffic(Openings)' <= Traffic(Openings)
      BY <2>1, <2>2, <2>3, SendsCount, NextAccountTypes DEF AccountsTyped
    <3> QED
      BY <3>1 DEF Unparked
  <2>5. \A k \in {"gate", "stop"} : left'[k] = 0
    BY <2>1, SpentStays DEF OthersStay, Unparked, Kinds
  <2>6. openGates' = {}
    BY <2>2 DEF ringVars, Unparked
  <2> QED
    BY <2>3, <2>4, <2>5, <2>6 DEF Unparked
<1>3. CASE UNCHANGED allVars
  <2>1. UNCHANGED <<latch, gateRows, openGates, left, rx, deferred, held>>
    BY <1>3 DEF allVars, vars, ringVars, sharedVars, worldVars
  <2> QED
    BY <2>1 DEF Unparked, Traffic, Count, Marks
<1> QED
  BY <1>1, <1>2, <1>3 DEF SessionNext

LEMMA UndyingStays ==
  ASSUME SessionInv, Undying, [SessionNext]_allVars
  PROVE  Undying'
<1>1. CASE RingTurn
  BY <1>1, NoInputCloses DEF SessionInv, RingTurn, Undying
<1>2. CASE SessionStep
  <2>1. OthersStay /\ SessionInv'
    BY <1>2, OthersLeaveAlone, SessionStepsAreRingSteps DEF SessionNext
  <2>2. left'["death"] = 0
    BY <2>1, SpentStays DEF OthersStay, Undying, Kinds
  <2> QED
    BY <2>1, <2>2 DEF OthersStay, Undying
<1>3. CASE UNCHANGED allVars
  BY <1>3 DEF allVars, vars, sharedVars, Undying
<1> QED
  BY <1>1, <1>2, <1>3 DEF SessionNext

\* A session starts unparked, and every input that exists is open.
LEMMA UnparkedAtFirst ==
  ASSUME SessionInit
  PROVE  /\ Budget["gate"] = 0 /\ Budget["stop"] = 0 => Unparked
         /\ Budget["death"] = 0 => Undying
<1>1. /\ latch = FALSE /\ gateRows = {} /\ left = Budget
      /\ rx = <<[type |-> "UserMessage", mentions |-> <<>>]>> /\ deferred = <<>> /\ held = <<>>
  BY DEF SessionInit, RingInit
<1>2. openGates = {} /\ \A p \in Participants : input[p] # "closed"
  BY <1>1 DEF SessionInit, RingInit
<1>3. Traffic(Openings) = 0
  <2>1. Count(rx, Openings) = 0
    <3>1. Marks(rx, Openings) = {}
      BY <1>1 DEF Marks, Openings
    <3> QED
      BY <3>1, FS_EmptySet DEF Count
  <2> QED
    BY <1>1, <2>1, CountEmpty DEF Traffic
<1> QED
  BY <1>1, <1>2, <1>3 DEF Unparked, Undying

\* advance_turn stages nothing; it deals with a message that is staged, or parks.
LEMMA AdvanceStages ==
  ASSUME NEW userSpoke \in BOOLEAN, NEW queue \in Seq(Participants), NEW spoke, NEW tally,
         Advance(userSpoke, queue, spoke, tally)
  PROVE  stagedPending' => stagedPending
<1>1. CASE Park(queue, spoke, tally)
  BY <1>1 DEF Park
<1>2. ASSUME NEW to, StartTurn(to)
      PROVE  stagedPending' => stagedPending
  BY <1>2 DEF StartTurn
<1>3. ASSUME NEW from, NEW lap, NEW cleared, StepRing(from, lap, spoke, cleared)
      PROVE  stagedPending' => stagedPending
  BY <1>2, <1>3 DEF StepRing, YieldToUser, DeliverStagedIfPending
<1> QED
  BY <1>1, <1>2, <1>3, AdvanceArms DEF HandsOut

LEMMA RingHasSize == Ring # {} => Size # 0
BY RosterAssumption, FS_Subset, FS_EmptySet DEF Ring, Size

\* A release of the user deals a turn, or hands what is staged to the application.
LEMMA ReleaseIsABoundary ==
  ASSUME DealTypeOK, RosterStands, ~StorageFaults, Ring # {}, ~latch, openGates' = {},
         NEW mentions \in Seq(Participants), ReleaseRing(mentions)
  PROVE  stagedPending' => holder' # NoOne
<1> DEFINE queue == summons \o mentions
<1>1. queue \in Seq(Participants) /\ anchor \in Someone /\ NoOne \in Someone
  BY ConcatProperties DEF DealTypeOK, Someone
<1>2. haltedPendingUser' = FALSE /\ Advance(TRUE, queue, spokeThisLap, votes)
  BY DEF ReleaseRing
<1>3. ~Parked
  BY <1>2 DEF Parked
<1> HIDE DEF queue
<1>4. PICK k \in 0..Len(queue) : \E from, lap, cleared :
        HandsOut(TRUE, queue, spokeThisLap, votes, k, from, lap, cleared)
  BY <1>1, <1>2, <1>3, AdvanceArms
<1>5. PICK from, lap, cleared :
        HandsOut(TRUE, queue, spokeThisLap, votes, k, from, lap, cleared)
  BY <1>4
<1>6. CASE k < Len(queue) /\ StartTurn(queue[k + 1])
  <2>1. queue[k + 1] \in Participants
    BY <1>1, <1>5, <1>6, RestOfQueue DEF HandsOut
  <2> QED
    BY <1>6, <2>1, NoOneIsNotHere DEF StartTurn
<1>7. CASE StepRing(from, lap, spokeThisLap, cleared)
  <2> DEFINE to == NextInRing(Rotation, from)
  <2>1. from \in Someone
    BY <1>1, <1>5 DEF HandsOut
  <2>2. to # NoOne
    BY <2>1, NextInTheRing, RingHasSize
  <2>3. StartTurn(to) \/ stagedPending' = FALSE
    BY <1>7 DEF StepRing, YieldToUser, DeliverStagedIfPending
  <2> QED
    BY <2>2, <2>3 DEF StartTurn
<1> QED
  BY <1>5, <1>6, <1>7 DEF HandsOut

\* A drain that is not unwound leaves the turn and what is staged alone.
LEMMA DrainKeepsBoundary ==
  ASSUME StateInv, Drain, ~StorageFaults, \A p \in Participants : input[p] # "closed"
  PROVE  UNCHANGED <<holder, stagedPending>>
<1>1. drain # "none" => holder \in Participants
  BY TypeOKParts, DrainFeedsSomeone DEF StateInv
<1>2. ~DrainUnreachable /\ ~DrainReadFails
  BY <1>1 DEF DrainUnreachable, DrainReadFails, Drains
<1> QED
  BY <1>2 DEF Drain, DrainNoInput, DrainEmpty, DrainReadsCommand, DrainLands, drainKeeps

LEMMA RingKeepsBoundary ==
  ASSUME SessionInv, RosterStands, ~StorageFaults, Ring # {}, Unparked, Undying, RingStep,
         stagedPending => holder # NoOne
  PROVE  stagedPending' => holder' # NoOne
<1>1. DealTypeOK /\ RestTypeOK /\ StateInv /\ ~latch /\ openGates' = {}
  BY TypeOKParts, NoGateOpens DEF SessionInv, StateInv, Unparked
<1>2. summons \in Seq(Participants) /\ stashedRelease.mentions \in Seq(Participants)
  BY <1>1, StashFields DEF DealTypeOK
<1>3. ASSUME NEW mentions \in Seq(Participants), ReleaseRing(mentions)
      PROVE  stagedPending' => holder' # NoOne
  BY <1>1, <1>3, ReleaseIsABoundary
<1>4. CASE UNCHANGED dealVars
  BY <1>4 DEF dealVars
<1>5. CASE Completion
  <2>1. PICK c \in {Next1} :
          \/ CompletionConsensus(c) \/ CompletionSpins(c) \/ CompletionAtStage(c)
          \/ CompletionSteps(c) \/ CompletionDiscarded(c) \/ CompletionReplays(c)
    BY <1>5 DEF Completion
  <2>2. CASE CompletionConsensus(c) \/ CompletionSpins(c) \/ CompletionAtStage(c)
    BY <2>2 DEF CompletionConsensus, CompletionSpins, CompletionAtStage, YieldToUser,
                DeliverStagedIfPending
  <2>3. CASE CompletionSteps(c)
    BY <1>2, <2>3, AdvanceStages DEF CompletionSteps
  <2>4. CASE CompletionDiscarded(c)
    BY <1>4, <2>4 DEF CompletionDiscarded
  <2>5. CASE CompletionReplays(c)
    BY <1>2, <1>3, <2>5 DEF CompletionReplays
  <2> QED
    BY <2>1, <2>2, <2>3, <2>4, <2>5
<1>6. CASE UserMessageReleases
  <2>1. Next1.mentions \in Seq(Participants)
    BY <1>1, <1>6, Dispatched, CommandFields DEF UserMessageReleases
  <2> QED
    BY <1>3, <1>6, <2>1 DEF UserMessageReleases
<1>7. CASE GraceExpires \/ ParticipantJoined
  BY <1>2, <1>3, <1>7 DEF GraceExpires, ParticipantJoined
<1>8. CASE MessageStaged \/ MessageUnstaged \/ HaltDeclared \/ GateOpened \/ Resume
  BY <1>8 DEF MessageStaged, MessageUnstaged, HaltDeclared, GateOpened, Resume,
              DeliverStagedIfPending
<1>9. CASE Summon
  <2>1. CASE Advance(FALSE, Append(summons, Next1.participant), spokeThisLap, votes)
             /\ holder = NoOne
    <3>1. Next1.participant \in Participants
      BY <1>1, <1>9, Dispatched, CommandFields DEF Summon
    <3>2. Append(summons, Next1.participant) \in Seq(Participants)
      BY <1>2, <3>1, AppendProperties
    <3> QED
      BY <2>1, <3>2, AdvanceStages
  <2>2. CASE UNCHANGED <<holder, stagedPending>>
    BY <2>2
  <2> QED
    BY <1>9, <2>1, <2>2 DEF Summon
<1>10. CASE Drain
  BY <1>1, <1>10, DrainKeepsBoundary DEF Undying
<1> QED
  BY <1>4, <1>5, <1>6, <1>7, <1>8, <1>9, <1>10
     DEF RingStep, Dispatch, UserSteers, HoldForPause, UserMessageStashed, GateResolved, Pause,
         GraceHolds

\* The ring holds a staged message only while somebody has the turn, whose end will deliver it: it
\* never waits for a boundary that will not come.  That takes a rotation, a storage that answers,
\* and a session that no gate parks, no Stop latches and no death unwinds: each of the three
\* leaves the message waiting until the user speaks again.
THEOREM StagedMessagesHaveABoundary ==
  ASSUME ~StorageFaults, Participants \ OnMention # {},
         Budget["gate"] = 0, Budget["stop"] = 0, Budget["death"] = 0
  PROVE  SessionSpec => []StageHasABoundary
<1>1. SessionInit => Unparked /\ Undying /\ StageHasABoundary
  BY UnparkedAtFirst DEF SessionInit, RingInit, StageHasABoundary
<1>2. /\ SessionInv /\ RosterStands /\ Unparked /\ Undying /\ StageHasABoundary
      /\ [SessionNext]_allVars
      => Unparked' /\ Undying' /\ StageHasABoundary'
  <2> SUFFICES ASSUME SessionInv, RosterStands, Unparked, Undying, [SessionNext]_allVars,
                      stagedPending => holder # NoOne
               PROVE  Unparked' /\ Undying' /\ (stagedPending' => holder' # NoOne)
    BY DEF StageHasABoundary
  <2>1. CASE RingTurn
    BY <2>1, RingKeepsBoundary, UnparkedStays, UndyingStays DEF RingTurn, Ring
  <2>2. CASE UNCHANGED ringVars
    BY <2>2, UnparkedStays, UndyingStays DEF ringVars
  <2>3. CASE SessionStep
    BY <2>2, <2>3, OthersFrame
  <2>4. CASE UNCHANGED allVars
    BY <2>2, <2>4 DEF allVars, vars
  <2> QED
    BY <2>1, <2>3, <2>4 DEF SessionNext
<1> QED
  BY <1>1, <1>2, SessionInvariance, RosterInvariance, PTL DEF SessionSpec
-----------------------------------------------------------------------------
(* "Everyone is done" *)

Summonses == {c \in Command : c.type = "Summon"}

\* No error is left to happen, and no retry of one is under way.
NoSummons == left["error"] = 0 /\ retry = {} /\ Traffic(Summonses) = 0

LEMMA SummonsesAreForeign == Foreign(Summonses) /\ Summonses \subseteq Weighty
BY DEF Foreign, Summonses, Weighty

LEMMA NoSummonsAtFirst ==
  ASSUME SessionInit, Budget["error"] = 0
  PROVE  NoSummons
<1>1. /\ rx = <<[type |-> "UserMessage", mentions |-> <<>>]>> /\ deferred = <<>> /\ held = <<>>
      /\ left = Budget /\ retry = {}
  BY DEF SessionInit, RingInit, PumpInit
<1>2. Count(rx, Summonses) = 0
  <2>1. Marks(rx, Summonses) = {}
    BY <1>1 DEF Marks, Summonses
  <2> QED
    BY <2>1, FS_EmptySet DEF Count
<1> QED
  BY <1>1, <1>2, CountEmpty DEF Traffic, NoSummons

LEMMA NoSummonsStays ==
  ASSUME SessionInv, NoSummons, [SessionNext]_allVars
  PROVE  NoSummons'
<1>1. CASE RingTurn
  <2>1. StateInv /\ RingStep /\ UNCHANGED <<left, retry>>
    BY <1>1 DEF SessionInv, RingTurn, pumpVars
  <2>2. Traffic(Summonses)' \in Nat /\ Traffic(Summonses)' <= Traffic(Summonses)
    BY <2>1, SummonsesAreForeign, RingTraffic
  <2>3. Traffic(Summonses)' = 0
    BY <2>2 DEF NoSummons
  <2> QED
    BY <2>1, <2>3 DEF NoSummons
<1>2. CASE SessionStep
  <2>1. SessionInv' /\ UNCHANGED ringVars /\ RestTypeOK
    BY <1>2, SessionStepsAreRingSteps, SessionStepKeeps, TypeOKParts
       DEF SessionNext, SessionInv, StateInv, OthersKeep
  <2>2. ~Errs /\ ~Retries
    BY AccountTypes DEF NoSummons, Errs, Retries, AccountsTyped
  <2>3. UNCHANGED retry /\ left'["error"] = left["error"] /\ SendsNo(Summonses)
    <3>1. CASE SendsPlain
      BY <3>1, SummonsesAreForeign DEF SendsPlain, SendsNo
    <3>2. CASE Mentions
      <4>1. PICK p \in Participants :
              rx' \in {rx, Append(rx, [type |-> "UserMessage", mentions |-> <<p>>])}
        BY <3>2 DEF Mentions
      <4>2. <<p>> \in Seq(Participants)
        OBVIOUS
      <4>3. [type |-> "UserMessage", mentions |-> <<p>>] \in Command \ Summonses
        BY <4>2, SentCommands DEF Summonses
      <4>4. SendsNo(Summonses)
        BY <4>1, <4>3 DEF SendsNo
      <4> QED
        BY <3>2, <4>4 DEF Mentions
    <3> QED
      BY <1>2, <2>2, <3>1, <3>2, OthersOwe
  <2>4. Traffic(Summonses)' \in Nat /\ Traffic(Summonses)' <= Traffic(Summonses)
    BY <2>1, <2>3, SendsCount, NextAccountTypes DEF AccountsTyped
  <2>5. Traffic(Summonses)' = 0
    BY <2>4 DEF NoSummons
  <2> QED
    BY <2>3, <2>5 DEF NoSummons
<1>3. CASE UNCHANGED allVars
  <2>1. UNCHANGED <<left, retry, rx, deferred, held>>
    BY <1>3 DEF allVars, vars, ringVars, sharedVars, pumpVars
  <2> QED
    BY <2>1 DEF NoSummons, Traffic, Count, Marks
<1> QED
  BY <1>1, <1>2, <1>3 DEF SessionNext

\* With no summons under way none is read.
LEMMA NoneIsSummoned ==
  ASSUME StateInv, RingStep, Traffic(Summonses) = 0
  PROVE  ~Dispatches("Summon")
<1> SUFFICES ASSUME Dispatches("Summon") PROVE FALSE
  OBVIOUS
<1>1. Next1 \in Command /\ Next1.type = "Summon" /\ ~Steers /\ ~HeldByPause /\ HasCommand
  BY TypeOKParts, Dispatched DEF StateInv, Dispatches
<1>2. Next1 \in Summonses
  BY <1>1 DEF Summonses
<1>3. Traffic(Summonses)' \in Nat /\ Traffic(Summonses)' + One(Next1, Summonses) <= Traffic(Summonses)
  BY <1>1, SummonsesAreForeign, RingTraffic
<1> QED
  BY <1>2, <1>3 DEF One

\* Whoever the ring counts as done has ended a turn without speaking since the last release or
\* speech, or nobody holds the turn.
VotesInv == votes \subseteq silent \/ holder = NoOne

\* What a step of the ring does to the tally.
VotesStep ==
  /\ VotesInv'
  /\ Unparked /\ votes \subseteq silent => votes' \subseteq silent'
  /\ haltSlot' = "consensus" /\ haltSlot # "consensus" => Rotation \subseteq silent'

\* advance_turn keeps the tally it is given, or clears it, and never says that everyone is done.
LEMMA AdvanceVotes ==
  ASSUME NEW userSpoke \in BOOLEAN, NEW queue \in Seq(Participants), NEW spoke, NEW tally,
         Advance(userSpoke, queue, spoke, tally)
  PROVE  /\ votes' \in {tally, {}}
         /\ haltSlot' = "consensus" => haltSlot = "consensus"
         /\ \/ Parked /\ holder' = NoOne
            \/ userSpoke /\ ~StorageFaults => votes' = {}
<1>1. CASE Parked /\ Park(queue, spoke, tally)
  BY <1>1 DEF Park, Halt
<1>2. ASSUME NEW k \in 0..Len(queue), NEW from, NEW lap, NEW cleared,
             HandsOut(userSpoke, queue, spoke, tally, k, from, lap, cleared)
      PROVE  /\ votes' \in {tally, {}}
             /\ haltSlot' = "consensus" => haltSlot = "consensus"
             /\ userSpoke /\ ~StorageFaults => votes' = {}
  <2>1. cleared \in {tally, {}} /\ (userSpoke /\ ~StorageFaults => cleared = {})
    BY <1>2 DEF HandsOut
  <2>2. CASE k < Len(queue) /\ votes' = cleared /\ StartTurn(queue[k + 1])
    BY <2>1, <2>2 DEF StartTurn
  <2>3. CASE StepRing(from, lap, spoke, cleared)
    <3>1. votes' = cleared
      BY <2>3 DEF StepRing
    <3>2. haltSlot' \in {haltSlot, "roundCap", "allPassed"}
      BY <2>3 DEF StepRing, StartTurn, YieldToUser, DeclareHostHalt
    <3> QED
      BY <2>1, <3>1, <3>2
  <2> QED
    BY <1>2, <2>2, <2>3 DEF HandsOut
<1> QED
  BY <1>1, <1>2, AdvanceArms

LEMMA RingKeepsVotes ==
  ASSUME SessionInv, RosterStands, ~StorageFaults, RingTurn, VotesInv,
         NoSummons \/ (Unparked /\ votes \subseteq silent)
  PROVE  VotesStep
<1>1. StateInv /\ RingStep /\ DealTypeOK /\ RestTypeOK /\ silent' = SilentAfter
  BY TypeOKParts DEF SessionInv, StateInv, RingTurn
<1>2. summons \in Seq(Participants) /\ Rotation = Ring
  BY <1>1 DEF DealTypeOK, Rotation, Ring, RosterStands
<1>3. ASSUME NEW c \in {Next1}, LiveCompletion(c)
      PROVE  /\ CompletesLive /\ ~Releases
             /\ votes \subseteq silent
             /\ Tally(c.participant, c.ending) \subseteq silent'
  <2>1. Dispatches("TurnComplete") /\ UNCHANGED stashedRelease /\ Live(c) /\ c = Next1
    BY <1>3 DEF LiveCompletion
  <2>2. CompletesLive /\ ~Releases
    BY <2>1, OneArm DEF CompletesLive, Releases
  <2>3. c.participant \in Participants /\ c.ending \in Endings
    BY <1>1, <2>1, Dispatched, CommandFields
  <2>4. holder # NoOne
    BY <2>1, <2>3, NoOneIsNotHere DEF Live
  <2>5. votes \subseteq silent
    BY <2>4 DEF VotesInv
  <2>6. silent' = IF c.ending = "Spoke" THEN {} ELSE silent \cup {c.participant}
    BY <1>1, <2>1, <2>2 DEF SilentAfter
  <2> QED
    BY <2>2, <2>3, <2>5, <2>6 DEF Tally, Endings
<1>4. ASSUME NEW c \in {Next1}, NEW tally \in SUBSET Participants, GoesOn(c, tally)
      PROVE  VotesStep
  <2>1. LiveCompletion(c) /\ NoArrival(c, tally) /\ Advance(FALSE, summons, SpokeAfter(c), tally)
    BY <1>4 DEF GoesOn
  <2>2. tally \subseteq silent'
    BY <1>3, <2>1 DEF NoArrival
  <2>3. votes' \in {tally, {}} /\ (haltSlot' = "consensus" => haltSlot = "consensus")
    BY <1>2, <2>1, AdvanceVotes
  <2> QED
    BY <2>2, <2>3 DEF VotesStep, VotesInv
<1>5. ASSUME NEW ms \in Seq(Participants), Released(ms)
      PROVE  VotesStep
  <2>1. /\ Releases /\ ReseedGates /\ haltedPendingUser' = FALSE
        /\ Advance(TRUE, summons \o ms, spokeThisLap, votes)
    BY <1>5 DEF Released, ReleaseRing
  <2>2. summons \o ms \in Seq(Participants)
    BY <1>2, ConcatProperties
  <2>3. /\ haltSlot' = "consensus" => haltSlot = "consensus"
        /\ (Parked /\ holder' = NoOne) \/ votes' = {}
    BY <2>1, <2>2, AdvanceVotes
  <2>4. Unparked => ~Parked
    BY <1>1, <2>1, NoGateOpens DEF Unparked, Parked
  <2> QED
    BY <2>3, <2>4 DEF VotesStep, VotesInv
<1>6. CASE Summoned
  <2>1. Dispatches("Summon") /\ ~Releases /\ ~CompletesLive
    BY <1>6 DEF Summoned
  <2>2. ~NoSummons
    BY <1>1, <2>1, NoneIsSummoned DEF NoSummons
  <2>3. Unparked /\ votes \subseteq silent /\ silent' = silent
    BY <1>1, <2>1, <2>2 DEF SilentAfter
  <2>4. Append(summons, Next1.participant) \in Seq(Participants)
    <3>1. Next1.participant \in Participants
      BY <1>1, <2>1, Dispatched, CommandFields
    <3> QED
      BY <1>2, <3>1, AppendProperties
  <2>5. votes' \in {votes, {}} /\ (haltSlot' = "consensus" => haltSlot = "consensus")
    BY <1>6, <2>4, AdvanceVotes DEF Summoned
  <2> QED
    BY <2>3, <2>5 DEF VotesStep, VotesInv
<1>7. ASSUME NEW c \in {Next1}, TurnStops(c)
      PROVE  VotesStep
  <2>1. LiveCompletion(c)
    BY <1>7 DEF TurnStops
  <2>2. Tally(c.participant, c.ending) \subseteq silent'
    BY <1>3, <2>1
  <2>3. CASE CompletionConsensus(c)
    <3>1. Rotation \subseteq silent' /\ votes' \subseteq silent'
      BY <2>2, <2>3 DEF CompletionConsensus, Arrives, AllActiveVotedDone
    <3> QED
      BY <3>1 DEF VotesStep, VotesInv
  <2>4. CASE CompletionSpins(c) \/ CompletionAtStage(c)
    <3>1. votes' = Tally(c.participant, c.ending)
      BY <2>4 DEF CompletionSpins, CompletionAtStage, NoArrival
    <3>2. haltSlot' \in {haltSlot, "participant"}
      BY <2>4 DEF CompletionSpins, CompletionAtStage, YieldToUser, DeclareHostHalt
    <3> QED
      BY <2>2, <3>1, <3>2 DEF VotesStep, VotesInv
  <2> QED
    BY <1>7, <2>3, <2>4 DEF TurnStops
<1>8. CASE Quiet
  <2>1. /\ UNCHANGED votes /\ holder' \in {holder, NoOne}
        /\ haltSlot' \in {haltSlot, "wedged"} /\ silent' = silent
    BY <1>1, <1>8 DEF Quiet, Halt, SilentAfter
  <2> QED
    BY <2>1 DEF VotesStep, VotesInv
<1> QED
  BY <1>1, <1>4, <1>5, <1>6, <1>7, <1>8, RingStepKinds

\* What keeps the tally honest: no retry deals after a release that was parked, or none is parked.
HonestInv == VotesInv /\ (NoSummons \/ (Unparked /\ votes \subseteq silent))

\* "Everyone is done" is only said when every participant of the rotation ended a turn without
\* speaking since the last release or speech.  That takes a storage that answers, and that no
\* retry deals a turn after a release a gate or a Stop parked: there the votes of the round before
\* are still counted.
THEOREM ConsensusIsOfAll ==
  ASSUME ~StorageFaults,
         Budget["error"] = 0 \/ (Budget["gate"] = 0 /\ Budget["stop"] = 0)
  PROVE  SessionSpec => ConsensusIsUnanimous
<1>1. SessionInit => HonestInv
  <2> SUFFICES ASSUME SessionInit PROVE HonestInv
    OBVIOUS
  <2>1. votes = {} /\ holder = NoOne
    BY DEF SessionInit, RingInit
  <2> QED
    BY <2>1, NoSummonsAtFirst, UnparkedAtFirst DEF HonestInv, VotesInv
<1>2. SessionInv /\ RosterStands /\ HonestInv /\ [SessionNext]_allVars =>
        /\ HonestInv'
        /\ haltSlot' = "consensus" /\ haltSlot # "consensus" => Rotation \subseteq silent'
  <2> SUFFICES ASSUME SessionInv, RosterStands, HonestInv, [SessionNext]_allVars
               PROVE  /\ HonestInv'
                      /\ haltSlot' = "consensus" /\ haltSlot # "consensus"
                           => Rotation \subseteq silent'
    OBVIOUS
  <2>1. NoSummons => NoSummons'
    BY NoSummonsStays
  <2>2. Unparked => Unparked'
    BY UnparkedStays
  <2>3. CASE RingTurn
    <3>1. VotesStep
      BY <2>3, RingKeepsVotes DEF HonestInv
    <3> QED
      BY <2>1, <2>2, <3>1 DEF VotesStep, HonestInv
  <2>4. ASSUME UNCHANGED <<votes, holder, silent>>,
               haltSlot' \in {haltSlot, "none", "participant"}
        PROVE  /\ HonestInv'
               /\ haltSlot' = "consensus" /\ haltSlot # "consensus" => Rotation \subseteq silent'
    BY <2>1, <2>2, <2>4 DEF HonestInv, VotesInv
  <2>5. CASE SessionStep
    BY <2>4, <2>5, OthersFrame, OthersLeaveAlone DEF OthersStay, ringVars
  <2>6. CASE UNCHANGED allVars
    BY <2>4, <2>6 DEF allVars, vars, ringVars, sharedVars
  <2> QED
    BY <2>3, <2>5, <2>6 DEF SessionNext
<1>3. [](SessionInv /\ RosterStands) /\ SessionSpec => ConsensusIsUnanimous
  BY <1>1, <1>2, PTL DEF SessionSpec, ConsensusIsUnanimous
<1> QED
  BY <1>3, SessionInvariance, RosterInvariance, PTL
-----------------------------------------------------------------------------
(* "Every participant passed a full lap" *)

\* Nobody was ever summoned, by a mention or by a retry.
Unsummoned == summons = <<>> /\ stashedRelease.mentions = <<>> /\ Traffic(Weighty) = 0

\* Without errors and mentions nothing is ever owed.
LEMMA NothingIsOwed ==
  ASSUME SessionInv, DebtInv, Budget["error"] = 0, Budget["mention"] = 0
  PROVE  Unsummoned
<1>1. AccountsTyped
  BY AccountTypes
<1>2. left["error"] = 0 /\ left["mention"] = 0
  BY <1>1 DEF AccountsTyped, DebtInv
<1>3. Balance(Len(summons), Len(stashedRelease.mentions), Traffic(Weighty), Cardinality(retry), 0, 0)
        <= 0
  BY <1>2 DEF DebtInv, Debt
<1>4. ASSUME NEW q \in Nat, NEW s \in Nat, NEW t \in Nat, NEW r \in Nat,
             Balance(q, s, t, r, 0, 0) <= 0
      PROVE  q = 0 /\ s = 0 /\ t = 0
  BY <1>4 DEF Balance
<1>5. Len(summons) = 0 /\ Len(stashedRelease.mentions) = 0 /\ Traffic(Weighty) = 0
  BY <1>1, <1>3, <1>4 DEF AccountsTyped
<1>6. summons \in Seq(Participants) /\ stashedRelease.mentions \in Seq(Participants)
  BY TypeOKParts, StashFields DEF SessionInv, StateInv, DealTypeOK
<1> QED
  BY <1>5, <1>6, EmptySeq DEF Unsummoned

\* hand_over: nobody of the rotation is passed over.
LEMMA NextPassesNobody ==
  ASSUME RosterStands, NEW from \in Someone, NEW to, to = NextInRing(Rotation, from), to # NoOne
  PROVE  /\ to \in Ring
         /\ from = NoOne \/ Wraps(from, to) => \A p \in Ring : ~(p < to)
         /\ Wraps(from, to) => \A p \in Ring : p <= from
         /\ from # NoOne /\ ~Wraps(from, to) => \A p \in Ring : p < to => p <= from
<1> DEFINE after == {p \in Ring : p > from}
<1>1. Rotation = Ring /\ Ring \in SUBSET Participants /\ Ring \subseteq Nat /\ from \in Nat
  BY RosterAssumption DEF Rotation, Ring, RosterStands, Someone, NoOne
<1>2. Ring # {} /\ to = Smallest(IF from # NoOne /\ after # {} THEN after ELSE Ring)
  BY <1>1 DEF NextInRing
<1>3. Smallest(Ring) \in Ring /\ \A p \in Ring : Smallest(Ring) <= p
  BY <1>1, <1>2, SmallestIsMember
<1>4. CASE from # NoOne /\ after # {}
  <2>1. to \in after /\ \A p \in after : to <= p
    BY <1>1, <1>2, <1>4, SmallestIsMember
  <2>2. to \in Ring /\ to > from
    BY <2>1
  <2>3. ~Wraps(from, to)
    BY <1>1, <2>2 DEF Wraps
  <2>4. \A p \in Ring : p < to => p <= from
    <3> SUFFICES ASSUME NEW p \in Ring, p < to, ~(p <= from) PROVE FALSE
      OBVIOUS
    <3>1. p \in after /\ p \in Nat /\ to \in Nat
      BY <1>1, <2>2
    <3> QED
      BY <2>1, <3>1
  <2> QED
    BY <1>4, <2>2, <2>3, <2>4
<1>5. CASE ~(from # NoOne /\ after # {})
  <2>1. to \in Ring /\ \A p \in Ring : to <= p
    BY <1>2, <1>3, <1>5
  <2>2. \A p \in Ring : ~(p < to)
    BY <1>1, <2>1
  <2>3. from # NoOne => \A p \in Ring : p <= from
    BY <1>1, <1>5
  <2> QED
    BY <2>1, <2>2, <2>3 DEF Wraps
<1> QED
  BY <1>4, <1>5

\* While nobody has spoken this lap, the holder is where the ring stands, and whoever of the
\* rotation comes before it ended a turn without speaking.
PassInv ==
  holder # NoOne /\ ~spokeThisLap
    => holder = anchor /\ {p \in Ring : p < anchor} \subseteq silent

\* What a step of the ring does to it.
PassStep ==
  /\ PassInv'
  /\ haltSlot' = "allPassed" /\ haltSlot # "allPassed" => Ring \subseteq silent'

\* hand_over and what follows it, when whoever stands up to `from` has passed.
LEMMA StepRingPasses ==
  ASSUME RosterStands, ~StorageFaults, NEW from \in Someone, NEW lap, NEW spoke \in BOOLEAN,
         NEW tally, StepRing(from, lap, spoke, tally),
         from # NoOne /\ ~spoke => {p \in Ring : p <= from} \subseteq silent'
  PROVE  PassStep
<1> DEFINE to == NextInRing(Rotation, from)
           wraps == Wraps(from, to)
           nextLap == IF wraps THEN lap + 1 ELSE lap
           allPassed == wraps /\ ~spoke
           capped == wraps /\ spoke /\ RoundCap # 0 /\ nextLap >= RoundCap
<1>1. CASE (allPassed \/ capped) /\ YieldToUser(IF capped THEN "roundCap" ELSE "allPassed")
  <2>1. holder' = NoOne
    BY <1>1 DEF YieldToUser, Halt
  <2>2. ASSUME haltSlot' = "allPassed", haltSlot # "allPassed"
        PROVE  Ring \subseteq silent'
    <3>1. wraps /\ ~spoke
      BY <1>1, <2>2 DEF YieldToUser, DeclareHostHalt
    <3>2. from # NoOne /\ to # NoOne
      BY <3>1 DEF Wraps
    <3>3. \A p \in Ring : p <= from
      BY <3>1, <3>2, NextPassesNobody
    <3> QED
      BY <3>1, <3>2, <3>3
  <2> QED
    BY <2>1, <2>2 DEF PassStep, PassInv
<1>2. CASE ~allPassed /\ spokeThisLap' = (spoke /\ ~wraps) /\ anchor' = to /\ StartTurn(to)
  <2>1. holder' = to /\ UNCHANGED haltSlot
    BY <1>2 DEF StartTurn
  <2>2. ASSUME to # NoOne, ~spokeThisLap'
        PROVE  {p \in Ring : p < to} \subseteq silent'
    <3>1. CASE from = NoOne \/ wraps
      BY <2>2, <3>1, NextPassesNobody
    <3>2. CASE from # NoOne /\ ~wraps
      <4>1. ~spoke /\ \A p \in Ring : p < to => p <= from
        BY <1>2, <2>2, <3>2, NextPassesNobody
      <4> QED
        BY <3>2, <4>1
    <3> QED
      BY <3>1, <3>2
  <2> QED
    BY <1>2, <2>1, <2>2 DEF PassStep, PassInv, Ring
<1> QED
  BY <1>1, <1>2 DEF StepRing

\* advance_turn with nobody waiting: it parks, or the rotation goes on.
LEMMA AdvancePasses ==
  ASSUME SessionInv, RosterStands, ~StorageFaults, NEW userSpoke \in BOOLEAN,
         NEW spoke \in BOOLEAN, NEW tally, Advance(userSpoke, <<>>, spoke, tally),
         ~userSpoke /\ ~spoke => {p \in Ring : p <= anchor} \subseteq silent'
  PROVE  PassStep
<1>1. anchor \in Someone /\ NoOne \in Someone /\ <<>> \in Seq(Participants) /\ Len(<<>>) = 0
  BY TypeOKParts, EmptySeq DEF SessionInv, StateInv, DealTypeOK, Someone
<1>2. CASE Parked /\ Park(<<>>, spoke, tally)
  BY <1>2 DEF Park, Halt, PassStep, PassInv
<1>3. ASSUME NEW k \in 0..Len(<<>>), NEW from, NEW lap, NEW cleared,
             HandsOut(userSpoke, <<>>, spoke, tally, k, from, lap, cleared)
      PROVE  PassStep
  <2>1. ~(k < Len(<<>>))
    BY <1>1
  <2>2. /\ from = IF userSpoke THEN NoOne ELSE anchor
        /\ StepRing(from, lap, spoke, cleared)
    BY <1>3, <2>1 DEF HandsOut
  <2> QED
    BY <1>1, <2>2, StepRingPasses
<1> QED
  BY <1>1, <1>2, <1>3, AdvanceArms

\* A step of the ring when nobody is summoned.
LEMMA RingKeepsPasses ==
  ASSUME SessionInv, RosterStands, ~StorageFaults, Unsummoned, RingTurn, PassInv
  PROVE  PassStep
<1>1. StateInv /\ RingStep /\ DealTypeOK /\ RestTypeOK /\ silent' = SilentAfter
  BY TypeOKParts DEF SessionInv, StateInv, RingTurn
<1>7. ASSUME NEW type, Dispatches(type)
      PROVE  Next1 \notin Weighty
  <2>1. ~Steers /\ ~HeldByPause /\ HasCommand
    BY <1>7 DEF Dispatches
  <2>2. Traffic(Weighty)' \in Nat /\ Traffic(Weighty)' + One(Next1, Weighty) <= Traffic(Weighty)
    BY <1>1, <2>1, ForeignSets, RingTraffic
  <2> QED
    BY <2>2 DEF Unsummoned, One
<1>2. ASSUME NEW c \in {Next1}, NEW tally \in SUBSET Participants, GoesOn(c, tally)
      PROVE  PassStep
  <2>1. LiveCompletion(c) /\ CompletesLive /\ c = Next1 /\ c.participant = holder
    BY <1>2 DEF GoesOn, LiveCompletion, Live
  <2>2. Dispatches("TurnComplete") /\ UNCHANGED stashedRelease
    BY <2>1 DEF LiveCompletion
  <2>3. ~Releases
    BY <2>2, OneArm DEF Releases
  <2>4. c.participant \in Participants /\ c.ending \in Endings
    BY <1>1, <2>1, <2>2, Dispatched, CommandFields
  <2>5. holder # NoOne
    BY <2>1, <2>4, NoOneIsNotHere
  <2>6. silent' = IF c.ending = "Spoke" THEN {} ELSE silent \cup {holder}
    BY <1>1, <2>1, <2>3 DEF SilentAfter
  <2>7. ASSUME ~SpokeAfter(c) PROVE {p \in Ring : p <= anchor} \subseteq silent'
    <3>1. ~spokeThisLap /\ c.ending = "Passed"
      BY <2>7 DEF SpokeAfter
    <3>2. holder = anchor /\ {p \in Ring : p < anchor} \subseteq silent
      BY <2>5, <3>1 DEF PassInv
    <3>3. silent' = silent \cup {anchor}
      BY <2>6, <3>1, <3>2
    <3>4. \A p \in Ring : p \in Nat /\ anchor \in Nat
      BY <2>4, <2>1, <3>2, RosterAssumption DEF Ring
    <3>5. \A p \in Ring : p <= anchor => p < anchor \/ p = anchor
      BY <3>4
    <3> QED
      BY <3>2, <3>3, <3>5
  <2>8. SpokeAfter(c) \in BOOLEAN /\ Advance(FALSE, <<>>, SpokeAfter(c), tally)
    BY <1>1, <1>2 DEF GoesOn, Unsummoned, SpokeAfter, DealTypeOK
  <2> QED
    BY <2>7, <2>8, AdvancePasses
<1>3. ASSUME NEW ms \in Seq(Participants), Released(ms)
      PROVE  PassStep
  <2>1. ms = <<>>
    <3>1. CASE Dispatches("UserMessage") /\ ms = Next1.mentions
      <4>1. Next1 \in Command /\ Next1.type = "UserMessage" /\ Next1 \notin Weighty
        BY <1>1, <1>7, <3>1, Dispatched
      <4> QED
        BY <3>1, <4>1 DEF Weighty
    <3>2. CASE ms = stashedRelease.mentions
      BY <3>2 DEF Unsummoned
    <3> QED
      BY <1>3, <3>1, <3>2 DEF Released
  <2>2. summons \o ms = <<>>
    BY <2>1, EmptySeq DEF Unsummoned
  <2>3. spokeThisLap \in BOOLEAN /\ Advance(TRUE, <<>>, spokeThisLap, votes)
    BY <1>1, <1>3, <2>2 DEF Released, ReleaseRing, DealTypeOK
  <2> QED
    BY <2>3, AdvancePasses
<1>4. ~Summoned
  <2> SUFFICES ASSUME Dispatches("Summon") PROVE FALSE
    BY DEF Summoned
  <2> QED
    BY <1>1, <1>7, SummonsWeigh, Dispatched
<1>5. ASSUME NEW c \in {Next1}, TurnStops(c)
      PROVE  PassStep
  <2>1. holder' = NoOne /\ haltSlot' \in {haltSlot, "consensus", "participant"}
    BY <1>5 DEF TurnStops, CompletionConsensus, CompletionSpins, CompletionAtStage, YieldToUser,
                Halt, DeclareHostHalt
  <2> QED
    BY <2>1 DEF PassStep, PassInv
<1>6. CASE Quiet
  <2>1. /\ UNCHANGED <<anchor, spokeThisLap>> /\ holder' \in {holder, NoOne}
        /\ haltSlot' \in {haltSlot, "wedged"} /\ silent' = silent
    BY <1>1, <1>6 DEF Quiet, Halt, SilentAfter
  <2> QED
    BY <2>1 DEF PassStep, PassInv, Ring
<1> QED
  BY <1>1, <1>2, <1>3, <1>4, <1>5, <1>6, RingStepKinds

\* The ring declares that every participant passed a full lap only when every participant of the
\* rotation has ended a turn without speaking since the last release or speech.  That takes a
\* storage that answers and a round in which nobody is summoned, by a mention or by a retry: a
\* summoned turn counts as nobody's place in the lap, and the cap forgets that the lap was spoken
\* in while a retry can still deal.
THEOREM AllPassIsOfAll ==
  ASSUME ~StorageFaults, Budget["error"] = 0, Budget["mention"] = 0
  PROVE  SessionSpec => AllPassIsUnanimous
<1>1. SessionInit => PassInv
  BY DEF SessionInit, RingInit, PassInv
<1>2. SessionInv /\ RosterStands /\ DebtInv /\ PassInv /\ [SessionNext]_allVars =>
        /\ PassInv'
        /\ haltSlot' = "allPassed" /\ haltSlot # "allPassed" => Rotation \subseteq silent'
  <2> SUFFICES ASSUME SessionInv, RosterStands, DebtInv, PassInv, [SessionNext]_allVars
               PROVE  /\ PassInv'
                      /\ haltSlot' = "allPassed" /\ haltSlot # "allPassed"
                           => Rotation \subseteq silent'
    OBVIOUS
  <2>1. Rotation = Ring
    BY DEF Rotation, Ring, RosterStands
  <2>2. CASE RingTurn
    <3>1. PassStep
      BY <2>2, NothingIsOwed, RingKeepsPasses
    <3> QED
      BY <2>1, <3>1 DEF PassStep
  <2>3. ASSUME UNCHANGED <<holder, anchor, spokeThisLap, silent>>,
               haltSlot' \in {haltSlot, "none", "participant"}
        PROVE  /\ PassInv'
               /\ haltSlot' = "allPassed" /\ haltSlot # "allPassed" => Rotation \subseteq silent'
    BY <2>3 DEF PassInv, Ring
  <2>4. CASE SessionStep
    BY <2>3, <2>4, OthersFrame, OthersLeaveAlone DEF OthersStay, ringVars
  <2>5. CASE UNCHANGED allVars
    BY <2>3, <2>5 DEF allVars, vars, ringVars, sharedVars
  <2> QED
    BY <2>2, <2>4, <2>5 DEF SessionNext
<1>3. [](SessionInv /\ RosterStands /\ DebtInv) /\ SessionSpec => AllPassIsUnanimous
  BY <1>1, <1>2, PTL DEF SessionSpec, AllPassIsUnanimous
<1> QED
  BY <1>3, SessionInvariance, RosterInvariance, DebtInvariance, PTL
-----------------------------------------------------------------------------
(* A pending gate holds the ring *)

Opens(c, g) == c.type = "GateOpened" /\ c.gate = g
Resolves(c, g) == c.type = "GateResolved" /\ c.gate = g

\* The gates that stand once a queue is read, when those of `S` stood before: the last word about
\* each is that it was opened.
After(queue, S) ==
  {g \in Gates :
    \/ \E i \in DOMAIN queue :
         Opens(queue[i], g) /\ \A j \in DOMAIN queue : j > i => ~Resolves(queue[j], g)
    \/ g \in S /\ \A j \in DOMAIN queue : ~Resolves(queue[j], g)}

\* What the ring will have latched once it has read all it was sent, in the order it reads it:
\* what the pause holds, what a drain set aside, and the channel.
Notified == After(rx, After(deferred, After(held, openGates)))

\* A pending gate is latched or its notice is under way, and the ring holds commands only while
\* it is paused.
NoticeInv == gateRows \subseteq Notified /\ (~paused => held = <<>>)

\* Commands that are about no gate.
Gateless == {c \in Command : c.type \notin {"GateOpened", "GateResolved"}}

LEMMA AfterNothing ==
  ASSUME NEW S \in SUBSET Gates
  PROVE  After(<<>>, S) = S
BY DEF After

LEMMA AfterMore ==
  ASSUME NEW queue \in Seq(Command), NEW S, NEW T, S \subseteq T
  PROVE  /\ After(queue, S) \subseteq After(queue, T)
         /\ After(queue, S) \subseteq Gates
BY DEF After

LEMMA AfterAppend ==
  ASSUME NEW queue \in Seq(Command), NEW c \in Command, NEW S
  PROVE  After(Append(queue, c), S) =
           IF c.type = "GateOpened" THEN After(queue, S) \cup {c.gate}
           ELSE IF c.type = "GateResolved" THEN After(queue, S) \ {c.gate}
           ELSE After(queue, S)
<1> DEFINE longer == Append(queue, c)
<1>1. /\ Len(queue) \in Nat /\ DOMAIN queue = 1..Len(queue)
      /\ DOMAIN longer = 1..(Len(queue) + 1) /\ longer[Len(queue) + 1] = c
      /\ \A i \in 1..Len(queue) : longer[i] = queue[i]
  BY AppendProperties, LenProperties
<1>2. c.type = "GateOpened" => c.gate \in Gates
  BY DEF Command
<1> HIDE DEF longer
<1>3. ASSUME NEW g \in Gates
      PROVE  g \in After(longer, S) <=>
               \/ Opens(c, g)
               \/ g \in After(queue, S) /\ ~Resolves(c, g)
  <2>1. ASSUME Opens(c, g) PROVE g \in After(longer, S)
    <3>1. Len(queue) + 1 \in DOMAIN longer /\ Opens(longer[Len(queue) + 1], g)
      BY <1>1, <2>1
    <3>2. \A j \in DOMAIN longer : ~(j > Len(queue) + 1)
      BY <1>1
    <3> QED
      BY <3>1, <3>2 DEF After
  <2>2. ASSUME g \in After(queue, S), ~Resolves(c, g) PROVE g \in After(longer, S)
    <3>1. \A j \in DOMAIN longer : j \in DOMAIN queue \/ j = Len(queue) + 1
      BY <1>1
    <3>2. CASE \E i \in DOMAIN queue :
                 Opens(queue[i], g) /\ \A j \in DOMAIN queue : j > i => ~Resolves(queue[j], g)
      <4>1. PICK i \in DOMAIN queue :
              Opens(queue[i], g) /\ \A j \in DOMAIN queue : j > i => ~Resolves(queue[j], g)
        BY <3>2
      <4>2. i \in DOMAIN longer /\ Opens(longer[i], g)
        BY <1>1, <4>1
      <4>3. \A j \in DOMAIN longer : j > i => ~Resolves(longer[j], g)
        BY <1>1, <2>2, <3>1, <4>1
      <4> QED
        BY <4>2, <4>3 DEF After
    <3>3. CASE g \in S /\ \A j \in DOMAIN queue : ~Resolves(queue[j], g)
      <4>1. \A j \in DOMAIN longer : ~Resolves(longer[j], g)
        BY <1>1, <2>2, <3>1, <3>3
      <4> QED
        BY <3>3, <4>1 DEF After
    <3> QED
      BY <2>2, <3>2, <3>3 DEF After
  <2>3. ASSUME g \in After(longer, S), ~Opens(c, g)
        PROVE  g \in After(queue, S) /\ ~Resolves(c, g)
    <3>1. CASE \E i \in DOMAIN longer :
                 Opens(longer[i], g) /\ \A j \in DOMAIN longer : j > i => ~Resolves(longer[j], g)
      <4>1. PICK i \in DOMAIN longer :
              Opens(longer[i], g) /\ \A j \in DOMAIN longer : j > i => ~Resolves(longer[j], g)
        BY <3>1
      <4>2. i \in DOMAIN queue /\ i < Len(queue) + 1 /\ Len(queue) + 1 \in DOMAIN longer
        BY <1>1, <2>3, <4>1
      <4>3. Opens(queue[i], g) /\ ~Resolves(c, g)
        BY <1>1, <4>1, <4>2
      <4>4. \A j \in DOMAIN queue : j > i => ~Resolves(queue[j], g)
        BY <1>1, <4>1
      <4> QED
        BY <4>2, <4>3, <4>4 DEF After
    <3>2. CASE g \in S /\ \A j \in DOMAIN longer : ~Resolves(longer[j], g)
      <4>1. ~Resolves(c, g) /\ \A j \in DOMAIN queue : ~Resolves(queue[j], g)
        BY <1>1, <3>2
      <4> QED
        BY <3>2, <4>1 DEF After
    <3> QED
      BY <2>3, <3>1, <3>2 DEF After
  <2> QED
    BY <2>1, <2>2, <2>3 DEF Opens, Resolves
<1>4. After(longer, S) \subseteq Gates /\ After(queue, S) \subseteq Gates
  BY DEF After
<1> QED
  BY <1>2, <1>3, <1>4 DEF Opens, Resolves, longer

LEMMA AfterOne ==
  ASSUME NEW c \in Command, NEW S \in SUBSET Gates
  PROVE  After(<<c>>, S) =
           IF c.type = "GateOpened" THEN S \cup {c.gate}
           ELSE IF c.type = "GateResolved" THEN S \ {c.gate}
           ELSE S
<1>1. <<>> \in Seq(Command) /\ Append(<<>>, c) = <<c>>
  BY EmptySeq
<1>2. After(<<>>, S) = S
  BY AfterNothing
<1>3. After(Append(<<>>, c), S) =
        IF c.type = "GateOpened" THEN After(<<>>, S) \cup {c.gate}
        ELSE IF c.type = "GateResolved" THEN After(<<>>, S) \ {c.gate}
        ELSE After(<<>>, S)
  BY <1>1, AfterAppend
<1> QED
  BY <1>1, <1>2, <1>3

\* One queue is read behind another.
LEMMA AfterConcat ==
  ASSUME NEW p \in Seq(Command), NEW q \in Seq(Command), NEW S
  PROVE  After(p \o q, S) = After(q, After(p, S))
<1> DEFINE both == p \o q
           m == Len(p)
           n == Len(q)
<1>1. /\ m \in Nat /\ n \in Nat /\ DOMAIN p = 1..m /\ DOMAIN q = 1..n
      /\ both \in Seq(Command) /\ DOMAIN both = 1..(m + n)
      /\ \A i \in 1..(m + n) : both[i] = IF i <= m THEN p[i] ELSE q[i - m]
  BY ConcatProperties, LenProperties
<1> HIDE DEF both, m, n
<1>2. /\ \A i \in 1..m : i \in 1..(m + n) /\ both[i] = p[i]
      /\ \A j \in 1..n : m + j \in 1..(m + n) /\ both[m + j] = q[j] /\ m + j > m
      /\ \A k \in 1..(m + n) : k \in 1..m \/ (k - m \in 1..n /\ k = m + (k - m))
  BY <1>1
<1>3. ASSUME NEW g \in Gates, NEW last \in Nat
      PROVE  (\A k \in 1..(m + n) : k > last => ~Resolves(both[k], g)) <=>
               /\ \A i \in 1..m : i > last => ~Resolves(p[i], g)
               /\ \A j \in 1..n : m + j > last => ~Resolves(q[j], g)
  BY <1>1, <1>2
<1>4. ASSUME NEW g \in Gates, g \in After(both, S)
      PROVE  g \in After(q, After(p, S))
  <2>1. CASE \E k \in 1..(m + n) :
               Opens(both[k], g) /\ \A j \in 1..(m + n) : j > k => ~Resolves(both[j], g)
    <3>1. PICK k \in 1..(m + n) :
            Opens(both[k], g) /\ \A j \in 1..(m + n) : j > k => ~Resolves(both[j], g)
      BY <2>1
    <3>2. /\ \A i \in 1..m : i > k => ~Resolves(p[i], g)
          /\ \A j \in 1..n : m + j > k => ~Resolves(q[j], g)
      <4>1. k \in Nat
        BY <1>1
      <4> QED
        BY <1>3, <3>1, <4>1
    <3>3. CASE k \in 1..m
      <4>1. Opens(p[k], g)
        BY <1>2, <3>1, <3>3
      <4>2. g \in After(p, S)
        BY <1>1, <3>2, <3>3, <4>1 DEF After
      <4>3. \A j \in 1..n : ~Resolves(q[j], g)
        BY <1>1, <3>2, <3>3
      <4> QED
        BY <1>1, <4>2, <4>3 DEF After
    <3>4. CASE k - m \in 1..n /\ k = m + (k - m)
      <4>1. Opens(q[k - m], g)
        BY <1>2, <3>1, <3>4
      <4>2. \A j \in 1..n : j > k - m => ~Resolves(q[j], g)
        BY <1>1, <3>2, <3>4
      <4> QED
        BY <1>1, <3>4, <4>1, <4>2 DEF After
    <3> QED
      BY <1>2, <3>1, <3>3, <3>4
  <2>2. CASE g \in S /\ \A k \in 1..(m + n) : ~Resolves(both[k], g)
    <3>1. /\ \A i \in 1..m : ~Resolves(p[i], g)
          /\ \A j \in 1..n : ~Resolves(q[j], g)
      BY <1>2, <2>2
    <3>2. g \in After(p, S)
      BY <1>1, <2>2, <3>1 DEF After
    <3> QED
      BY <1>1, <3>1, <3>2 DEF After
  <2> QED
    BY <1>1, <1>4, <2>1, <2>2 DEF After
<1>5. ASSUME NEW g \in Gates, g \in After(q, After(p, S))
      PROVE  g \in After(both, S)
  <2>1. CASE \E j \in 1..n : Opens(q[j], g) /\ \A k \in 1..n : k > j => ~Resolves(q[k], g)
    <3>1. PICK j \in 1..n : Opens(q[j], g) /\ \A k \in 1..n : k > j => ~Resolves(q[k], g)
      BY <2>1
    <3>2. m + j \in 1..(m + n) /\ Opens(both[m + j], g)
      BY <1>2, <3>1
    <3>3. \A k \in 1..(m + n) : k > m + j => ~Resolves(both[k], g)
      <4>1. m + j \in Nat
        BY <1>1
      <4>2. /\ \A i \in 1..m : ~(i > m + j)
            /\ \A k \in 1..n : m + k > m + j => k > j
        BY <1>1
      <4> QED
        BY <1>3, <3>1, <4>1, <4>2
    <3> QED
      BY <1>1, <3>2, <3>3 DEF After
  <2>2. CASE g \in After(p, S) /\ \A j \in 1..n : ~Resolves(q[j], g)
    <3>1. CASE \E i \in 1..m : Opens(p[i], g) /\ \A k \in 1..m : k > i => ~Resolves(p[k], g)
      <4>1. PICK i \in 1..m : Opens(p[i], g) /\ \A k \in 1..m : k > i => ~Resolves(p[k], g)
        BY <3>1
      <4>2. i \in 1..(m + n) /\ Opens(both[i], g) /\ i \in Nat
        BY <1>2, <4>1
      <4>3. \A k \in 1..(m + n) : k > i => ~Resolves(both[k], g)
        BY <1>3, <2>2, <4>1, <4>2
      <4> QED
        BY <1>1, <4>2, <4>3 DEF After
    <3>2. CASE g \in S /\ \A k \in 1..m : ~Resolves(p[k], g)
      <4>1. \A k \in 1..(m + n) : ~Resolves(both[k], g)
        BY <1>1, <1>2, <2>2, <3>2
      <4> QED
        BY <1>1, <3>2, <4>1 DEF After
    <3> QED
      BY <1>1, <2>2, <3>1, <3>2 DEF After
  <2> QED
    BY <1>1, <1>5, <2>1, <2>2 DEF After
<1>6. After(both, S) \subseteq Gates /\ After(q, After(p, S)) \subseteq Gates
  BY DEF After
<1> QED
  BY <1>4, <1>5, <1>6 DEF both

\* Reading the next command.
LEMMA ReadingNotifies ==
  ASSUME RestTypeOK, HasCommand, NEW S \in SUBSET Gates
  PROVE  /\ After(rx, After(deferred, S)) = After(RxRest, After(DeferredRest, After(<<Next1>>, S)))
         /\ After(<<Next1>>, S) \in SUBSET Gates
<1>1. rx \in Seq(Command) /\ deferred \in Seq(Command)
  BY DEF RestTypeOK
<1>2. ASSUME NEW q \in Seq(Command), q # <<>>, NEW T
      PROVE  After(q, T) = After(Tail(q), After(<<Head(q)>>, T))
  <2>1. Head(q) \in Command /\ Tail(q) \in Seq(Command) /\ <<Head(q)>> \in Seq(Command)
    BY <1>2, HeadTailProperties
  <2>2. q = <<Head(q)>> \o Tail(q)
    BY <1>2
  <2>3. After(<<Head(q)>> \o Tail(q), T) = After(Tail(q), After(<<Head(q)>>, T))
    BY <2>1, AfterConcat
  <2> QED
    BY <2>2, <2>3
<1>3. After(<<Next1>>, S) \in SUBSET Gates
  BY DEF After
<1>4. CASE Fresh
  <2>1. rx # <<>> /\ deferred = <<>>
    BY <1>4 DEF Fresh, HasCommand
  <2>2. After(deferred, S) = S /\ After(deferred, After(<<Next1>>, S)) = After(<<Next1>>, S)
    BY <1>3, <2>1, AfterNothing
  <2>3. After(rx, S) = After(Tail(rx), After(<<Head(rx)>>, S))
    BY <1>1, <1>2, <2>1
  <2> QED
    BY <1>3, <1>4, <2>2, <2>3 DEF RxRest, DeferredRest, Next1
<1>5. CASE ~Fresh
  <2>1. After(deferred, S) = After(Tail(deferred), After(<<Head(deferred)>>, S))
    BY <1>1, <1>2, <1>5 DEF Fresh
  <2> QED
    BY <1>3, <1>5, <2>1 DEF RxRest, DeferredRest, Next1
<1> QED
  BY <1>4, <1>5

\* What the ring will have latched, as the queues and the latch stand after a step.
LEMMA NextNotified ==
  Notified' = After(rx', After(deferred', After(held', openGates')))
BY DEF Notified, After

\* A command that is about no gate, and one that is, dispatched or held.
LEMMA OneOfTheGateless ==
  ASSUME NEW c \in Gateless, NEW S \in SUBSET Gates
  PROVE  /\ After(<<c>>, S) = S
         /\ \A queue \in Seq(Command) : After(Append(queue, c), S) = After(queue, S)
BY AfterOne, AfterAppend DEF Gateless

\* A dispatch: the command is gone from its queue, and the latch has heard it.
LEMMA DispatchNotifies ==
  ASSUME RestTypeOK, HasCommand, deferred' = DeferredRest, UNCHANGED held,
         openGates' \in SUBSET Gates,
         \/ rx' = RxRest
         \/ \E c \in Gateless : rx' = Append(RxRest, c),
         After(<<Next1>>, After(held, openGates)) \subseteq After(held, openGates')
  PROVE  Notified \subseteq Notified'
<1> DEFINE before == After(<<Next1>>, After(held, openGates))
           now == After(held, openGates')
           rest == After(DeferredRest, now)
<1>1. /\ held \in Seq(Command) /\ RxRest \in Seq(Command) /\ DeferredRest \in Seq(Command)
      /\ openGates \in SUBSET Gates
  BY ReadTypes DEF RestTypeOK
<1>2. After(held, openGates) \in SUBSET Gates
  BY DEF After
<1>3. Notified = After(RxRest, After(DeferredRest, before))
  BY <1>2, ReadingNotifies DEF Notified
<1>4. After(DeferredRest, before) \subseteq rest /\ rest \in SUBSET Gates
  BY <1>1, AfterMore
<1>5. After(RxRest, After(DeferredRest, before)) \subseteq After(RxRest, rest)
  BY <1>1, <1>4, AfterMore
<1>6. After(rx', rest) = After(RxRest, rest)
  <2>1. ASSUME NEW c \in Gateless
        PROVE  After(Append(RxRest, c), rest) = After(RxRest, rest)
    <3> HIDE DEF rest
    <3>1. \A queue \in Seq(Command) : After(Append(queue, c), rest) = After(queue, rest)
      BY <1>4, OneOfTheGateless
    <3> QED
      BY <1>1, <3>1
  <2>2. CASE \E c \in Gateless : rx' = Append(RxRest, c)
    <3>1. PICK c \in Gateless : rx' = Append(RxRest, c)
      BY <2>2
    <3>2. After(Append(RxRest, c), rest) = After(RxRest, rest)
      BY <2>1, <3>1
    <3> HIDE DEF rest
    <3> QED
      BY <3>1, <3>2
  <2> QED
    BY <2>2
<1>7. Notified' = After(rx', rest)
  BY NextNotified
<1> QED
  BY <1>3, <1>5, <1>6, <1>7

\* Outside a pause the ring holds nothing, and what it hears of a gate it latches.
LEMMA RingKeepsNotices ==
  ASSUME StateInv, RingStep, ~paused => held = <<>>
  PROVE  Notified \subseteq Notified' /\ (~paused' => held' = <<>>)
<1>1. DealTypeOK /\ RestTypeOK /\ DrainHasAHolder
  BY TypeOKParts DEF StateInv
<1>2. StateInv'
  BY RingStepKeeps
<1>3. /\ openGates \in SUBSET Gates /\ openGates' \in SUBSET Gates
      /\ held \in Seq(Command) /\ deferred \in Seq(Command) /\ rx \in Seq(Command)
      /\ held' \in Seq(Command) /\ deferred' \in Seq(Command) /\ rx' \in Seq(Command)
  BY <1>1, <1>2 DEF RestTypeOK, StateInv, TypeOK, RingTypeOK, WorldTypeOK
<1>4. ReseedGates => openGates \subseteq openGates'
  BY DEF ReseedGates
<1>5. /\ After(held, openGates) \in SUBSET Gates
      /\ \A S \in SUBSET Gates : After(<<>>, S) = S
  BY AfterNothing DEF After
<1>6. CASE Completion \/ UserMessageStashed \/ UserMessageReleases \/ MessageStaged
           \/ MessageUnstaged \/ HaltDeclared \/ Summon \/ ParticipantJoined
  <2>1. PICK type \in {"TurnComplete", "UserMessage", "MessageStaged", "MessageUnstaged",
                       "HaltDeclared", "Summon", "ParticipantJoined"} :
          Dispatches(type)
    BY <1>6
       DEF Completion, CompletionConsensus, CompletionSpins, CompletionAtStage,
           CompletionSteps, CompletionDiscarded, CompletionReplays, LiveCompletion,
           UserMessageStashed, UserMessageReleases, MessageStaged, MessageUnstaged,
           HaltDeclared, Summon, ParticipantJoined
  <2>2. /\ UNCHANGED <<held, paused>> /\ deferred' = DeferredRest
        /\ rx' = RxRest \/ CompletionSpins(Next1)
    BY <1>6
       DEF Completion, CompletionConsensus, CompletionSpins, CompletionAtStage,
           CompletionSteps, CompletionDiscarded, CompletionReplays, LiveCompletion, Consume,
           UserMessageStashed, UserMessageReleases, MessageStaged, MessageUnstaged,
           HaltDeclared, Summon, ParticipantJoined, pauseVars
  <2>3. openGates \subseteq openGates'
    BY <1>4, <1>6
       DEF Completion, CompletionConsensus, CompletionSpins, CompletionAtStage,
           CompletionSteps, CompletionDiscarded, CompletionReplays, ReleaseRing,
           UserMessageStashed, UserMessageReleases, MessageStaged, MessageUnstaged,
           HaltDeclared, Summon, ParticipantJoined, gateVars
  <2>4. Next1 \in Command /\ Next1.type = type /\ HasCommand /\ ~paused /\ Next1 \in Gateless
    BY <1>1, <2>1, Dispatched DEF Dispatches, HeldByPause, Gateless
  <2>5. rx' = RxRest \/ \E c \in Gateless : rx' = Append(RxRest, c)
    <3>1. ASSUME CompletionSpins(Next1)
          PROVE  [type |-> "HaltDeclared", participant |-> Next1.participant] \in Gateless
      <4>1. Next1.participant \in Participants
        BY <1>1, <3>1, Dispatched, CommandFields DEF CompletionSpins, LiveCompletion
      <4> QED
        BY <4>1, SentCommands DEF Gateless
    <3> QED
      BY <2>2, <3>1 DEF CompletionSpins
  <2>6. After(<<Next1>>, After(held, openGates)) \subseteq After(held, openGates')
    BY <1>3, <1>5, <2>3, <2>4, OneOfTheGateless, AfterMore
  <2> QED
    BY <1>1, <1>3, <2>2, <2>4, <2>5, <2>6, DispatchNotifies
<1>7. CASE GateOpened \/ GateResolved
  <2>1. PICK type \in {"GateOpened", "GateResolved"} : Dispatches(type)
    BY <1>7 DEF GateOpened, GateResolved
  <2>2. UNCHANGED <<held, paused>> /\ deferred' = DeferredRest /\ rx' = RxRest
    BY <1>7 DEF GateOpened, GateResolved, Consume, pauseVars
  <2>3. Next1 \in Command /\ Next1.type = type /\ HasCommand /\ ~paused
    BY <1>1, <2>1, Dispatched DEF Dispatches, HeldByPause
  <2>4. openGates' = After(<<Next1>>, openGates)
    <3>1. GateOpened => Next1.type = "GateOpened"
      BY DEF GateOpened, Dispatches
    <3>2. GateResolved => Next1.type = "GateResolved"
      BY DEF GateResolved, Dispatches
    <3> QED
      BY <1>3, <1>7, <2>3, <3>1, <3>2, AfterOne DEF GateOpened, GateResolved
  <2>5. After(held, openGates) = openGates /\ After(held, openGates') = openGates'
    BY <1>3, <1>5, <2>3
  <2> QED
    BY <1>1, <1>3, <2>2, <2>3, <2>4, <2>5, DispatchNotifies
<1>8. CASE Pause
  <2>1. /\ UNCHANGED <<held, openGates>> /\ deferred' = DeferredRest /\ rx' = RxRest /\ paused'
        /\ Dispatches("Pause")
    BY <1>8 DEF Pause, Consume, gateVars
  <2>2. Next1 \in Gateless /\ HasCommand
    BY <1>1, <2>1, Dispatched DEF Dispatches, Gateless
  <2>3. After(<<Next1>>, After(held, openGates)) = After(held, openGates)
    BY <1>5, <2>2, OneOfTheGateless
  <2> QED
    BY <1>1, <1>3, <2>1, <2>2, <2>3, DispatchNotifies
<1>9. CASE Resume
  <2>1. /\ UNCHANGED openGates /\ deferred' = held \o DeferredRest /\ rx' = RxRest
        /\ held' = <<>> /\ Dispatches("Resume")
    BY <1>9 DEF Resume, gateVars
  <2>2. Next1 \in Gateless /\ HasCommand /\ DeferredRest \in Seq(Command)
    BY <1>1, <2>1, Dispatched DEF Dispatches, Gateless
  <2>3. After(<<Next1>>, After(held, openGates)) = After(held, openGates)
    BY <1>5, <2>2, OneOfTheGateless
  <2>4. Notified = After(RxRest, After(DeferredRest, After(held, openGates)))
    BY <1>1, <1>5, <2>2, <2>3, ReadingNotifies DEF Notified
  <2>5. After(held \o DeferredRest, openGates) = After(DeferredRest, After(held, openGates))
    BY <1>3, <2>2, AfterConcat
  <2>6. Notified' = After(RxRest, After(held \o DeferredRest, openGates))
    BY <1>3, <1>5, <2>1, NextNotified
  <2> QED
    BY <2>1, <2>4, <2>5, <2>6
<1>10. CASE UserSteers \/ HoldForPause
  <2>1. HasCommand /\ Next1 \in Command /\ UNCHANGED openGates
    BY <1>1, <1>10, ReadTypes DEF UserSteers, HoldForPause, gateVars
  <2>2. After(Append(held, Next1), openGates) = After(<<Next1>>, After(held, openGates))
    <3>1. <<Next1>> \in Seq(Command) /\ Append(held, Next1) = held \o <<Next1>>
      BY <1>3, <2>1, AppendIsConcat
    <3>2. After(held \o <<Next1>>, openGates) = After(<<Next1>>, After(held, openGates))
      BY <1>3, <3>1, AfterConcat
    <3> QED
      BY <3>1, <3>2
  <2>3. Notified = After(RxRest, After(DeferredRest, After(Append(held, Next1), openGates)))
    BY <1>1, <1>5, <2>1, <2>2, ReadingNotifies DEF Notified
  <2>4. CASE HoldForPause
    BY <2>1, <2>3, <2>4, NextNotified DEF HoldForPause, Consume, HeldByPause
  <2>5. CASE UserSteers
    <3>1. /\ deferred' = Append(held, Next1) /\ held' = <<>> /\ rx' = RxRest
          /\ DeferredRest = <<>>
      BY <2>5 DEF UserSteers, Steers, DeferredRest, Fresh
    <3>2. After(Append(held, Next1), openGates) \in SUBSET Gates
      BY DEF After
    <3>3. Notified' = After(RxRest, After(Append(held, Next1), openGates))
      BY <1>3, <1>5, <2>1, <3>1, NextNotified
    <3> QED
      BY <1>5, <2>3, <3>1, <3>2, <3>3
  <2> QED
    BY <1>10, <2>4, <2>5
<1>11. CASE GraceExpires \/ GraceHolds
  <2>1. UNCHANGED <<rx, deferred, held, paused>>
    BY <1>11 DEF GraceExpires, GraceHolds, pauseVars
  <2>2. openGates \subseteq openGates'
    BY <1>4, <1>11 DEF GraceExpires, GraceHolds, ReleaseRing, gateVars
  <2>3. After(held, openGates) \subseteq After(held, openGates')
    BY <1>3, <2>2, AfterMore
  <2>4. After(deferred, After(held, openGates)) \subseteq After(deferred, After(held, openGates'))
    BY <1>3, <2>3, AfterMore
  <2> QED
    BY <1>3, <2>1, <2>4, AfterMore, NextNotified DEF Notified
<1>12. CASE Drain
  <2>1. UNCHANGED <<held, paused, openGates>> /\ drain # "none"
    BY <1>12 DEF Drain, DrainNoInput, DrainReadFails, DrainEmpty, DrainReadsCommand, DrainLands,
                 DrainUnreachable, Drains, UnwindWedgedTurn, drainKeeps, pauseVars, gateVars
  <2> DEFINE S == After(held, openGates)
  <2>2. S \in SUBSET Gates /\ Notified' = After(rx', After(deferred', S))
    BY <1>5, <2>1, NextNotified
  <2> HIDE DEF S
  <2>3. Notified = After(rx, After(deferred, S))
    BY DEF Notified, S
  <2>4. CASE UNCHANGED <<rx, deferred>>
    BY <2>1, <2>2, <2>3, <2>4
  <2>5. CASE DrainEmpty /\ ~UNCHANGED deferred
    <3> DEFINE pass == [type |-> "TurnComplete", participant |-> holder, epoch |-> epoch,
                        ending |-> "Passed"]
    <3>1. pass \in Gateless
      BY <1>1, <2>1, DrainFeedsSomeone DEF Command, Endings, DealTypeOK, Gateless
    <3>2. deferred' = Append(deferred, pass) /\ rx' = rx
      BY <2>5 DEF DrainEmpty
    <3>3. After(deferred', S) = After(deferred, S)
      BY <1>3, <2>2, <3>1, <3>2, OneOfTheGateless
    <3> QED
      BY <2>1, <2>2, <2>3, <3>2, <3>3
  <2>6. CASE DrainReadsCommand
    <3> DEFINE c == Head(rx)
    <3>1. /\ rx # <<>> /\ rx' = Tail(rx)
          /\ deferred' = IF c.type = "Pause" THEN <<c>> \o deferred ELSE Append(deferred, c)
      BY <2>6 DEF DrainReadsCommand
    <3>2. c \in Command /\ Tail(rx) \in Seq(Command) /\ <<c>> \in Seq(Command)
      BY <1>3, <3>1, HeadTailProperties
    <3>3. rx = <<c>> \o Tail(rx)
      BY <1>3, <3>1
    <3> HIDE DEF c
    <3>4. After(<<c>> \o Tail(rx), After(deferred, S))
            = After(Tail(rx), After(<<c>>, After(deferred, S)))
      BY <3>2, AfterConcat
    <3>5. After(deferred', S) = After(<<c>>, After(deferred, S))
      <4>1. CASE c.type = "Pause"
        <5>1. c \in Gateless
          BY <3>2, <4>1 DEF Gateless
        <5>2. After(<<c>> \o deferred, S) = After(deferred, After(<<c>>, S))
          BY <1>3, <3>2, AfterConcat
        <5>3. After(<<c>>, S) = S
          BY <2>2, <5>1, OneOfTheGateless
        <5>4. After(<<c>>, After(deferred, S)) = After(deferred, S)
          <6>1. After(deferred, S) \in SUBSET Gates
            BY DEF After
          <6> QED
            BY <5>1, <6>1, OneOfTheGateless
        <5> QED
          BY <3>1, <4>1, <5>2, <5>3, <5>4
      <4>2. CASE c.type # "Pause"
        <5>1. Append(deferred, c) = deferred \o <<c>>
          BY <1>3, <3>2, AppendIsConcat
        <5>2. After(deferred \o <<c>>, S) = After(<<c>>, After(deferred, S))
          BY <1>3, <3>2, AfterConcat
        <5> QED
          BY <3>1, <4>2, <5>1, <5>2
      <4> QED
        BY <4>1, <4>2
    <3> QED
      BY <2>1, <2>2, <2>3, <3>1, <3>3, <3>4, <3>5
  <2> QED
    BY <1>12, <2>4, <2>5, <2>6
       DEF Drain, DrainNoInput, DrainReadFails, DrainEmpty, DrainLands, DrainUnreachable,
           UnwindWedgedTurn
<1> QED
  BY <1>6, <1>7, <1>8, <1>9, <1>10, <1>11, <1>12 DEF RingStep, Dispatch

\* What another task tells the ring of a gate is what it does to the row, as long as the channel
\* takes it.
LEMMA OthersKeepNotices ==
  ASSUME SessionInv, SessionStep, Len(rx) < RxCap, gateRows \subseteq Notified
  PROVE  gateRows' \subseteq Notified'
<1>1. /\ UNCHANGED <<held, deferred, openGates>> /\ rx \in Seq(Command)
      /\ gateRows \in SUBSET Gates
  BY OthersFrame DEF SessionInv, StateInv, TypeOK, WorldTypeOK, ringVars
<1> DEFINE S == After(deferred, After(held, openGates))
<1>2. S \in SUBSET Gates /\ Notified' = After(rx', S)
  BY <1>1, NextNotified DEF After
<1> HIDE DEF S
<1>3. Notified = After(rx, S)
  BY DEF Notified, S
<1>4. CASE SendsNo(GateNews) /\ UNCHANGED gateRows
  <2>1. rx' = rx \/ \E c \in Gateless : rx' = Append(rx, c)
    BY <1>4 DEF SendsNo, GateNews, Gateless
  <2>2. ASSUME NEW c \in Gateless
        PROVE  After(Append(rx, c), S) = After(rx, S)
    BY <1>1, <1>2, OneOfTheGateless
  <2> QED
    BY <1>2, <1>3, <1>4, <2>1, <2>2
<1>5. ASSUME NEW g \in Gates, NEW p \in Participants, GateParks(p, g)
      PROVE  gateRows' \subseteq Notified'
  <2> DEFINE c == [type |-> "GateOpened", gate |-> g]
  <2>1. c \in Command /\ rx' = Append(rx, c) /\ gateRows' = gateRows \cup {g}
    BY <1>5, SentCommands DEF GateParks, TrySend
  <2>2. After(Append(rx, c), S) = After(rx, S) \cup {g}
    BY <1>1, <2>1, AfterAppend
  <2> QED
    BY <1>2, <1>3, <2>1, <2>2
<1>6. ASSUME NEW g \in Gates, GateAnswered(g)
      PROVE  gateRows' \subseteq Notified'
  <2> DEFINE c == [type |-> "GateResolved", gate |-> g]
  <2>1. c \in Command /\ rx' = Append(rx, c) /\ gateRows' = gateRows \ {g}
    BY <1>6, SentCommands DEF GateAnswered, TrySend
  <2>2. After(Append(rx, c), S) = After(rx, S) \ {g}
    BY <1>1, <2>1, AfterAppend
  <2> QED
    BY <1>2, <1>3, <2>1, <2>2
<1>7. ASSUME NEW p \in Participants, ProcessStep(p)
      PROVE  SendsNo(GateNews) /\ UNCHANGED gateRows
  BY <1>7, ProcessTellsNoGate
<1> QED
  BY <1>4, <1>5, <1>6, <1>7, UserTellsOfGates DEF SessionStep

\* A turn is dealt with no gate latched, and what is latched stays so until the deal.
LEMMA DealsUngated ==
  ASSUME StateInv, RingStep, Deals
  PROVE  openGates = {}
<1>1. ReseedGates => openGates \subseteq openGates'
  BY DEF ReseedGates
<1>2. ASSUME NEW userSpoke, NEW queue, NEW spoke, NEW tally,
             Advance(userSpoke, queue, spoke, tally)
      PROVE  openGates' = {}
  <2>1. ~(Parked /\ Park(queue, spoke, tally))
    BY DEF Park, Halt, Deals
  <2>2. ~Parked
    BY <1>2, <2>1 DEF Advance
  <2> QED
    BY <2>2 DEF Parked
<1>3. ASSUME NEW c \in {Next1}, NEW tally, GoesOn(c, tally)
      PROVE  openGates = {}
  BY <1>1, <1>2, <1>3 DEF GoesOn
<1>4. ASSUME NEW ms, Released(ms)
      PROVE  openGates = {}
  BY <1>1, <1>2, <1>4 DEF Released, ReleaseRing
<1>5. CASE Summoned
  BY <1>1, <1>2, <1>5 DEF Summoned
<1>6. ASSUME NEW c \in {Next1}, TurnStops(c)
      PROVE  FALSE
  BY <1>6 DEF TurnStops, CompletionConsensus, CompletionSpins, CompletionAtStage, YieldToUser,
              Halt, Deals
<1>7. ~Quiet
  BY DEF Quiet, Halt, Deals
<1> QED
  BY <1>3, <1>4, <1>5, <1>6, <1>7, RingStepKinds

\* With no notice under way what the ring will know is what it knows.
LEMMA NoNoticeUnderWay ==
  ASSUME \A c \in InFlight : c.type # "GateOpened"
  PROVE  Notified \subseteq openGates
<1>1. ASSUME NEW queue, NEW S, \A i \in DOMAIN queue : queue[i].type # "GateOpened"
      PROVE  After(queue, S) \subseteq S
  BY <1>1 DEF After, Opens
<1>2. /\ \A i \in DOMAIN rx : rx[i].type # "GateOpened"
      /\ \A i \in DOMAIN deferred : deferred[i].type # "GateOpened"
      /\ \A i \in DOMAIN held : held[i].type # "GateOpened"
  BY DEF InFlight
<1>3. /\ After(held, openGates) \subseteq openGates
      /\ After(deferred, After(held, openGates)) \subseteq After(held, openGates)
      /\ Notified \subseteq After(deferred, After(held, openGates))
  BY <1>1, <1>2 DEF Notified
<1> QED
  BY <1>3

\* While an approval gate is pending and the ring has read of it, no turn is handed out, however
\* often gates open and close, whatever is paused, deferred by a delivery or replayed by a
\* resume, and with any read of the storage failing.  That takes a control channel that is never
\* full: a notice it drops is not sent again.
THEOREM GatesHoldTheRing == SessionSpec /\ [](Len(rx) < RxCap) => GateHolds
<1>1. SessionInit => NoticeInv
  BY DEF SessionInit, RingInit, NoticeInv
<1>2. SessionInv /\ Len(rx) < RxCap /\ NoticeInv /\ [SessionNext]_allVars =>
        /\ NoticeInv'
        /\ Deals /\ (\A c \in InFlight : c.type # "GateOpened") => gateRows = {}
  <2> SUFFICES ASSUME SessionInv, Len(rx) < RxCap, NoticeInv, [SessionNext]_allVars
               PROVE  /\ NoticeInv'
                      /\ Deals /\ (\A c \in InFlight : c.type # "GateOpened") => gateRows = {}
    OBVIOUS
  <2>1. CASE RingTurn
    <3>1. StateInv /\ RingStep
      BY <2>1 DEF SessionInv, RingTurn
    <3>2. UNCHANGED gateRows
      BY <3>1, RingKeepsTheWorld DEF worldVars
    <3> QED
      BY <3>1, <3>2, RingKeepsNotices, DealsUngated, NoNoticeUnderWay DEF NoticeInv
  <2>2. CASE SessionStep
    <3>1. UNCHANGED <<paused, held, holder, epoch>>
      BY <2>2, OthersFrame DEF ringVars
    <3> QED
      BY <2>2, <3>1, OthersKeepNotices DEF NoticeInv, Deals
  <2>3. CASE UNCHANGED allVars
    <3>1. UNCHANGED <<rx, deferred, held, openGates, paused, gateRows, holder, epoch>>
      BY <2>3 DEF allVars, vars, ringVars, sharedVars, worldVars
    <3> QED
      BY <3>1 DEF NoticeInv, Notified, After, Deals
  <2> QED
    BY <2>1, <2>2, <2>3 DEF SessionNext
<1>3. [](SessionInv /\ Len(rx) < RxCap) /\ SessionSpec => GateHolds
  BY <1>1, <1>2, PTL DEF SessionSpec, GateHolds
<1> QED
  BY <1>3, SessionInvariance, PTL
=============================================================================
