--------------------------- MODULE RingRest_proofs ---------------------------
(***************************************************************************)
(* A session that is talked to at leisure never stops silently: for every   *)
(* roster, round cap and number of messages, mentions and halts or staged   *)
(* messages, the places it comes to rest in are those the user can see, and *)
(* no turn is handed out under the banner.                                  *)
(*                                                                         *)
(* The argument follows the one turn there is.  It is in one place at a     *)
(* time: about to be delivered, on its way to the process, with the         *)
(* process, or reported and on its way back to the ring.  A halt is ahead   *)
(* of the completion of its turn on that way, and a release of the user     *)
(* travels it only while nobody has the turn and the banner is down.  So a  *)
(* ring without a holder has been told why, or is about to be released.     *)
(***************************************************************************)
EXTENDS RingProperties_proofs
-----------------------------------------------------------------------------
(* The line of commands *)

\* The commands the ring has still to read, in the order it reads them.
Line == deferred \o rx
Items(queue) == {queue[i] : i \in DOMAIN queue}
Waiting(type) == \E c \in Items(Line) : c.type = type

\* One command of a kind at a time; a halt is ahead of its turn's completion, and a release is
\* ahead of what is staged after it.
LineTypes == {"TurnComplete", "UserMessage", "HaltDeclared", "MessageStaged"}
Later(first, second) ==
  \/ first = "TurnComplete" /\ second = "HaltDeclared"
  \/ first = "MessageStaged" /\ second = "UserMessage"
Tidy(queue) ==
  /\ \A i \in DOMAIN queue : queue[i].type \in LineTypes
  /\ \A i, j \in DOMAIN queue :
       i < j => queue[i].type # queue[j].type /\ ~Later(queue[i].type, queue[j].type)

\* Four kinds, one of each.
LEMMA TidyIsShort ==
  ASSUME NEW queue \in Seq(Command), Tidy(queue)
  PROVE  Len(queue) <= 4
<1> SUFFICES ASSUME Len(queue) > 4 PROVE FALSE
  BY LenProperties
<1>1. \A i \in 1..5 : i \in DOMAIN queue
  BY LenProperties
<1>2. \A i, j \in 1..5 : i < j => queue[i].type # queue[j].type
  BY <1>1 DEF Tidy
<1>3. \A i \in 1..5 : queue[i].type \in LineTypes
  BY <1>1 DEF Tidy
<1> QED
  BY <1>2, <1>3 DEF LineTypes

\* Reading the head leaves no other of its kind, and nothing it had to follow.
LEMMA TidyTail ==
  ASSUME NEW queue \in Seq(Command), queue # <<>>, Tidy(queue)
  PROVE  /\ Tidy(Tail(queue))
         /\ Head(queue) \in Items(queue)
         /\ Items(queue) = {Head(queue)} \cup Items(Tail(queue))
         /\ \A c \in Items(Tail(queue)) :
              c.type # Head(queue).type /\ ~Later(Head(queue).type, c.type)
<1> DEFINE rest == Tail(queue)
<1>1. /\ rest \in Seq(Command) /\ Len(queue) \in Nat \ {0}
      /\ DOMAIN queue = 1..Len(queue) /\ DOMAIN rest = 1..Len(queue) - 1
      /\ \A i \in DOMAIN rest : i + 1 \in DOMAIN queue /\ rest[i] = queue[i + 1]
      /\ Head(queue) = queue[1] /\ 1 \in DOMAIN queue
  <2>1. rest \in Seq(Command) /\ Len(rest) = Len(queue) - 1
        /\ \A i \in 1..Len(rest) : rest[i] = queue[i + 1]
    BY HeadTailProperties
  <2>2. Len(queue) \in Nat \ {0} /\ DOMAIN queue = 1..Len(queue) /\ DOMAIN rest = 1..Len(rest)
    BY <2>1, LenProperties, EmptySeq
  <2>3. Head(queue) = queue[1]
    OBVIOUS
  <2> HIDE DEF rest
  <2> QED
    BY <2>1, <2>2, <2>3
<1> HIDE DEF rest
<1>2. Tidy(rest)
  <2>1. ASSUME NEW i \in DOMAIN rest, NEW j \in DOMAIN rest, i < j
        PROVE  rest[i].type # rest[j].type /\ ~Later(rest[i].type, rest[j].type)
    <3>1. i + 1 < j + 1 /\ i + 1 \in DOMAIN queue /\ j + 1 \in DOMAIN queue
      BY <1>1, <2>1
    <3> QED
      BY <1>1, <3>1 DEF Tidy
  <2>2. ASSUME NEW i \in DOMAIN rest
        PROVE  rest[i].type \in LineTypes
    BY <1>1 DEF Tidy
  <2> QED
    BY <2>1, <2>2 DEF Tidy
<1>3. Head(queue) \in Items(queue)
  BY <1>1 DEF Items
<1>4. Items(queue) = {Head(queue)} \cup Items(rest)
  <2>1. ASSUME NEW c \in Items(rest) PROVE c \in Items(queue)
    BY <1>1 DEF Items
  <2>2. ASSUME NEW i \in DOMAIN queue
        PROVE  queue[i] \in {Head(queue)} \cup Items(rest)
    <3>1. CASE i = 1
      BY <1>1, <3>1
    <3>2. CASE i # 1
      <4>1. i - 1 \in DOMAIN rest /\ (i - 1) + 1 = i
        BY <1>1, <3>2
      <4>2. rest[i - 1] = queue[i]
        BY <1>1, <4>1
      <4> QED
        BY <4>1, <4>2 DEF Items
    <3> QED
      BY <3>1, <3>2
  <2> QED
    BY <1>3, <2>1, <2>2 DEF Items
<1>5. ASSUME NEW i \in DOMAIN rest
      PROVE  rest[i].type # Head(queue).type /\ ~Later(Head(queue).type, rest[i].type)
  <2>1. 1 < i + 1 /\ i + 1 \in DOMAIN queue
    BY <1>1
  <2>2. queue[1].type # queue[i + 1].type /\ ~Later(queue[1].type, queue[i + 1].type)
    BY <1>1, <2>1 DEF Tidy
  <2> QED
    BY <1>1, <2>2
<1> QED
  BY <1>2, <1>3, <1>4, <1>5 DEF Items, rest

\* A command that nothing in the queue had to follow goes to its end, if there is no other.
LEMMA TidyAppend ==
  ASSUME NEW queue \in Seq(Command), Tidy(queue), NEW c \in Command, c.type \in LineTypes,
         \A d \in Items(queue) : d.type # c.type /\ ~Later(d.type, c.type)
  PROVE  Tidy(Append(queue, c)) /\ Items(Append(queue, c)) = Items(queue) \cup {c}
<1> DEFINE more == Append(queue, c)
<1>1. /\ Len(queue) \in Nat /\ DOMAIN queue = 1..Len(queue)
      /\ DOMAIN more = 1..Len(queue) + 1
      /\ \A i \in DOMAIN queue : more[i] = queue[i]
      /\ more[Len(queue) + 1] = c
  BY LenProperties, AppendProperties
<1> HIDE DEF more
<1>2. \A i \in DOMAIN queue : queue[i].type # c.type /\ ~Later(queue[i].type, c.type)
  BY DEF Items
<1>3. ASSUME NEW i \in DOMAIN more, NEW j \in DOMAIN more, i < j
      PROVE  more[i].type # more[j].type /\ ~Later(more[i].type, more[j].type)
  <2>1. i \in DOMAIN queue /\ more[i] = queue[i]
    BY <1>1, <1>3
  <2>2. CASE j = Len(queue) + 1
    BY <1>1, <1>2, <2>1, <2>2
  <2>3. CASE j # Len(queue) + 1
    <3>1. j \in DOMAIN queue /\ more[j] = queue[j]
      BY <1>1, <2>3
    <3> QED
      BY <1>3, <2>1, <3>1 DEF Tidy
  <2> QED
    BY <2>2, <2>3
<1>4. ASSUME NEW i \in DOMAIN more
      PROVE  more[i].type \in LineTypes /\ more[i] \in Items(queue) \cup {c}
  <2>1. CASE i = Len(queue) + 1
    BY <1>1, <2>1
  <2>2. CASE i # Len(queue) + 1
    <3>1. i \in DOMAIN queue /\ more[i] = queue[i]
      BY <1>1, <2>2
    <3> QED
      BY <3>1 DEF Tidy, Items
  <2> QED
    BY <2>1, <2>2
<1>5. ASSUME NEW d \in Items(queue) \cup {c}
      PROVE  d \in Items(more)
  BY <1>1 DEF Items
<1> QED
  BY <1>3, <1>4, <1>5 DEF Tidy, Items, more

\* The completion of an empty turn goes between what is set aside and the channel.
LEMMA TidyInsert ==
  ASSUME NEW front \in Seq(Command), NEW back \in Seq(Command), Tidy(front \o back),
         NEW c \in Command, c.type = "TurnComplete",
         \A d \in Items(front \o back) : d.type \notin {"TurnComplete", "HaltDeclared"}
  PROVE  /\ Tidy(Append(front, c) \o back)
         /\ Items(Append(front, c) \o back) = Items(front \o back) \cup {c}
<1> DEFINE queue == front \o back
           more == Append(front, c) \o back
           n == Len(front)
           m == Len(back)
           Old(i) == IF i <= n THEN i ELSE i - 1
<1>1. /\ n \in Nat /\ m \in Nat /\ queue \in Seq(Command)
      /\ DOMAIN queue = 1..n + m /\ DOMAIN more = 1..n + m + 1
      /\ more[n + 1] = c
      /\ \A i \in DOMAIN more : i # n + 1 => Old(i) \in DOMAIN queue /\ more[i] = queue[Old(i)]
  <2>1. /\ n \in Nat /\ m \in Nat /\ Append(front, c) \in Seq(Command)
        /\ Len(Append(front, c)) = n + 1
        /\ \A i \in 1..n : Append(front, c)[i] = front[i]
        /\ Append(front, c)[n + 1] = c
    BY LenProperties, AppendProperties
  <2>2. /\ queue \in Seq(Command) /\ Len(queue) = n + m
        /\ \A i \in 1..n + m : queue[i] = IF i <= n THEN front[i] ELSE back[i - n]
    BY ConcatProperties
  <2> DEFINE longer == Append(front, c)
  <2> HIDE DEF longer
  <2>3. longer \in Seq(Command) /\ Len(longer) = n + 1
        /\ (\A i \in 1..n : longer[i] = front[i]) /\ longer[n + 1] = c
    BY <2>1 DEF longer
  <2>4. /\ longer \o back \in Seq(Command) /\ Len(longer \o back) = n + 1 + m
        /\ \A i \in 1..n + 1 + m :
             (longer \o back)[i] = IF i <= n + 1 THEN longer[i] ELSE back[i - (n + 1)]
    <3>1. /\ longer \o back \in Seq(Command) /\ Len(longer \o back) = Len(longer) + Len(back)
          /\ \A i \in 1..Len(longer) + Len(back) :
               (longer \o back)[i] = IF i <= Len(longer) THEN longer[i] ELSE back[i - Len(longer)]
      BY <2>3, ConcatProperties
    <3> QED
      BY <2>3, <3>1
  <2>5. more = longer \o back
    BY DEF longer
  <2> HIDE DEF queue, more
  <2>6. DOMAIN queue = 1..n + m /\ DOMAIN more = 1..n + m + 1
    <3>1. n + 1 + m = n + m + 1
      BY <2>1
    <3> QED
      BY <2>2, <2>4, <2>5, <3>1, LenProperties
  <2>7. more[n + 1] = c
    <3>1. n + 1 \in 1..n + 1 + m
      BY <2>1
    <3> QED
      BY <2>1, <2>3, <2>4, <2>5, <3>1
  <2>8. ASSUME NEW i \in DOMAIN more, i # n + 1
        PROVE  Old(i) \in DOMAIN queue /\ more[i] = queue[Old(i)]
    <3>1. i \in 1..n + 1 + m /\ Old(i) \in 1..n + m
      BY <2>1, <2>6, <2>8
    <3>2. CASE i <= n
      BY <2>1, <2>2, <2>3, <2>4, <2>5, <2>6, <3>1, <3>2
    <3>3. CASE i > n
      <4>1. ~(i <= n + 1) /\ ~(Old(i) <= n) /\ i - (n + 1) = Old(i) - n
        BY <2>1, <2>8, <3>1, <3>3
      <4> QED
        BY <2>2, <2>4, <2>5, <2>6, <3>1, <4>1
    <3> QED
      BY <2>1, <3>1, <3>2, <3>3
  <2> QED
    BY <2>1, <2>2, <2>6, <2>7, <2>8
<1> HIDE DEF queue, more, n, m
<1>2. Tidy(queue) /\ \A i \in DOMAIN queue : queue[i].type \notin {"TurnComplete", "HaltDeclared"}
  BY DEF queue, Items
<1>3. ASSUME NEW i \in DOMAIN more, NEW j \in DOMAIN more, i < j
      PROVE  more[i].type # more[j].type /\ ~Later(more[i].type, more[j].type)
  <2>1. CASE i = n + 1
    <3>1. j # n + 1 /\ Old(j) \in DOMAIN queue /\ more[j] = queue[Old(j)]
      BY <1>1, <1>3, <2>1
    <3>2. more[j].type \notin {"TurnComplete", "HaltDeclared"}
      BY <1>2, <3>1
    <3> QED
      BY <1>1, <2>1, <3>2 DEF Later
  <2>2. CASE j = n + 1
    <3>1. i # n + 1 /\ Old(i) \in DOMAIN queue /\ more[i] = queue[Old(i)]
      BY <1>1, <1>3, <2>2
    <3>2. more[i].type \notin {"TurnComplete", "HaltDeclared"}
      BY <1>2, <3>1
    <3> QED
      BY <1>1, <2>2, <3>2 DEF Later
  <2>3. CASE i # n + 1 /\ j # n + 1
    <3>1. Old(i) < Old(j)
      BY <1>1, <1>3, <2>3
    <3>2. /\ Old(i) \in DOMAIN queue /\ more[i] = queue[Old(i)]
          /\ Old(j) \in DOMAIN queue /\ more[j] = queue[Old(j)]
      BY <1>1, <2>3
    <3> QED
      BY <1>2, <3>1, <3>2 DEF Tidy
  <2> QED
    BY <2>1, <2>2, <2>3
<1>4. ASSUME NEW i \in DOMAIN more
      PROVE  more[i].type \in LineTypes /\ more[i] \in Items(queue) \cup {c}
  <2>1. CASE i = n + 1
    BY <1>1, <2>1 DEF LineTypes
  <2>2. CASE i # n + 1
    <3>1. Old(i) \in DOMAIN queue /\ more[i] = queue[Old(i)]
      BY <1>1, <2>2
    <3> QED
      BY <1>2, <3>1 DEF Tidy, Items
  <2> QED
    BY <2>1, <2>2
<1>5. ASSUME NEW i \in DOMAIN queue
      PROVE  queue[i] \in Items(more)
  <2> DEFINE j == IF i <= n THEN i ELSE i + 1
  <2>1. j \in DOMAIN more /\ j # n + 1 /\ Old(j) = i
    BY <1>1
  <2>2. more[j] = queue[i]
    BY <1>1, <2>1
  <2> HIDE DEF j
  <2> QED
    BY <2>1, <2>2 DEF Items
<1>6. c \in Items(more)
  <2>1. n + 1 \in DOMAIN more
    BY <1>1
  <2> QED
    BY <1>1, <2>1 DEF Items
<1>7. Tidy(more)
  BY <1>3, <1>4 DEF Tidy
<1>8. Items(more) = Items(queue) \cup {c}
  BY <1>4, <1>5, <1>6 DEF Items
<1> QED
  BY <1>7, <1>8 DEF queue, more

\* What reading, setting aside and sending do to the line.
LEMMA LineSteps ==
  ASSUME deferred \in Seq(Command), rx \in Seq(Command)
  PROVE  /\ Line \in Seq(Command) /\ Len(rx) <= Len(Line)
         /\ deferred # <<>> \/ rx # <<>> =>
              Line # <<>> /\ Next1 = Head(Line) /\ DeferredRest \o RxRest = Tail(Line)
         /\ rx # <<>> => Append(deferred, Head(rx)) \o Tail(rx) = Line /\ Head(rx) \in Items(Line)
         /\ \A c \in Command : deferred \o Append(rx, c) = Append(Line, c)
<1> DEFINE n == Len(deferred)
           m == Len(rx)
<1>1. /\ n \in Nat /\ m \in Nat /\ Line \in Seq(Command) /\ Len(Line) = n + m
      /\ \A i \in 1..n + m : Line[i] = IF i <= n THEN deferred[i] ELSE rx[i - n]
  BY LenProperties, ConcatProperties DEF Line
<1>2. ASSUME deferred = <<>>, rx # <<>>
      PROVE  /\ Line # <<>> /\ Next1 = Head(Line)
             /\ DeferredRest \o RxRest = Tail(Line)
  <2>1. Line = rx /\ n = 0
    BY <1>2, ConcatEmptySeq DEF Line
  <2>2. rx # <<>> => Next1 = Head(rx) /\ DeferredRest = <<>> /\ RxRest = Tail(rx)
    BY <1>2 DEF Next1, DeferredRest, RxRest, Fresh
  <2>3. rx # <<>> => <<>> \o Tail(rx) = Tail(rx)
    BY HeadTailProperties, ConcatEmptySeq
  <2> QED
    BY <1>2, <2>1, <2>2, <2>3
<1>3. ASSUME deferred # <<>>
      PROVE  /\ Line # <<>> /\ Next1 = Head(Line)
             /\ DeferredRest \o RxRest = Tail(Line)
  <2> DEFINE rest == Tail(deferred)
  <2>1. /\ rest \in Seq(Command) /\ Len(rest) = n - 1 /\ n >= 1
        /\ \A i \in 1..n - 1 : rest[i] = deferred[i + 1]
    BY <1>3, HeadTailProperties, EmptySeq
  <2>2. Line # <<>> /\ 1 \in 1..n + m
    BY <1>1, <1>3, <2>1, ConcatEqualIffEmpty DEF Line
  <2>3. Head(Line) = Line[1] /\ Head(deferred) = deferred[1]
    OBVIOUS
  <2>4. /\ Tail(Line) \in Seq(Command) /\ Len(Tail(Line)) = n + m - 1
        /\ \A i \in 1..n + m - 1 : Tail(Line)[i] = Line[i + 1]
    BY <1>1, <2>2, HeadTailProperties
  <2> HIDE DEF rest
  <2>5. /\ rest \o rx \in Seq(Command) /\ Len(rest \o rx) = Len(rest) + m
        /\ \A i \in 1..Len(rest) + m : (rest \o rx)[i] = IF i <= Len(rest) THEN rest[i] ELSE rx[i - Len(rest)]
    BY <2>1, ConcatProperties
  <2> DEFINE s == rest \o rx
             t == Tail(Line)
  <2>6. s \in Seq(Command) /\ t \in Seq(Command) /\ Len(s) = n - 1 + m /\ Len(t) = n - 1 + m
    BY <1>1, <2>1, <2>4, <2>5
  <2>7. ASSUME NEW i \in 1..n - 1 + m PROVE s[i] = t[i]
    <3>1. i \in 1..n + m - 1 /\ i + 1 \in 1..n + m /\ i \in Int
      BY <1>1, <2>1
    <3>2. CASE i <= n - 1
      <4>1. i \in 1..n - 1 /\ i + 1 <= n
        BY <1>1, <3>1, <3>2
      <4> QED
        BY <1>1, <2>1, <2>4, <2>5, <3>1, <4>1
    <3>3. CASE ~(i <= n - 1)
      <4>1. ~(i + 1 <= n) /\ i - (n - 1) = i + 1 - n /\ i \in 1..Len(rest) + m
        BY <1>1, <2>1, <3>1, <3>3
      <4> QED
        BY <1>1, <2>1, <2>4, <2>5, <3>1, <4>1
    <3> QED
      BY <3>2, <3>3
  <2> HIDE DEF s, t
  <2>8. s = t
    BY <2>6, <2>7, SeqEqual
  <2>9. Next1 = Head(deferred) /\ DeferredRest = rest /\ RxRest = rx
    BY <1>3 DEF Next1, DeferredRest, RxRest, Fresh, rest
  <2> QED
    BY <1>1, <2>1, <2>2, <2>3, <2>8, <2>9 DEF s, t
<1>4. ASSUME rx # <<>>
      PROVE  Append(deferred, Head(rx)) \o Tail(rx) = Line
  <2> DEFINE c == Head(rx)
             rest == Tail(rx)
  <2>1. c \in Command /\ rest \in Seq(Command) /\ rx = <<c>> \o rest
    BY <1>4, HeadTailProperties
  <2>2. <<c>> \in Seq(Command) /\ Append(deferred, c) = deferred \o <<c>>
    BY <2>1
  <2> QED
    BY <2>1, <2>2, ConcatAssociative DEF Line
<1>5. ASSUME NEW c \in Command
      PROVE  deferred \o Append(rx, c) = Append(Line, c)
  <2>1. <<c>> \in Seq(Command) /\ Append(rx, c) = rx \o <<c>> /\ Append(Line, c) = Line \o <<c>>
    BY <1>1
  <2> QED
    BY <2>1, ConcatAssociative DEF Line
<1>6. Len(rx) <= Len(Line)
  BY <1>1
<1>7. ASSUME rx # <<>>
      PROVE  Head(rx) \in Items(Line)
  <2>1. m >= 1 /\ Head(rx) = rx[1]
    BY <1>1, <1>7, EmptySeq
  <2>2. n + 1 \in 1..n + m /\ DOMAIN Line = 1..n + m /\ Line[n + 1] = rx[1]
    BY <1>1, <2>1
  <2> QED
    BY <2>1, <2>2 DEF Items
<1> HIDE DEF n, m
<1> QED
  BY <1>1, <1>2, <1>3, <1>4, <1>5, <1>6, <1>7

\* The sessions meant: messages at leisure, with or without mentions, and either staged messages
\* or halts; no backlog longer than a page and no storage fault. The channel holds five commands
\* and more, so that it is never full.
Spared == {"gapMessage", "prompt", "stop", "resume", "gate", "error", "death", "join"}
AtEase ==
  /\ ~StorageFaults /\ ~LongBacklogs /\ RxCap > 4
  /\ \A k \in Spared : Budget[k] = 0
  /\ \/ Budget["stage"] = 0
     \/ Budget["halt"] = 0 /\ ~SpinDetection /\ Budget["unstage"] = 0

\* Who has the turn, or was told to end it and owes its completion.
Serving == IF holder # NoOne THEN holder ELSE windingDown

\* A release of the user is under way: being sent, sent, or asked for at a boundary.
Releasing == sending # "idle" \/ Waiting("UserMessage") \/ deliveryDue > 0

\* Nothing pauses, parks or ends the session.
Undisturbed ==
  /\ ~paused /\ held = <<>> /\ ~latch /\ ~stopping /\ retry = {}
  /\ openGates = {} /\ ~gateSeedFailed /\ gateRows = {} /\ answered = {}
  /\ alive = Participants /\ \A p \in Participants : input[p] = "open"
  /\ ~stashedRelease.some /\ batch = 0 /\ drain # "redrain"
  /\ \A k \in Spared : left[k] = 0
NothingStaged ==
  /\ left["stage"] = 0 /\ stagedContent = "none"
  /\ ~stagedPending /\ deliveryDue = 0 /\ ~Waiting("MessageStaged")
NobodyHalts ==
  /\ left["halt"] = 0 /\ ~SpinDetection /\ left["unstage"] = 0
  /\ windingDown = NoOne /\ haltOwed = {} /\ ~Waiting("HaltDeclared")
OneOrTheOther == NothingStaged \/ NobodyHalts

\* A turn is in one place: about to be delivered, on its way to the process, with the process,
\* or reported and on its way back to the ring.
InOnePlace(p) ==
  \/ drain = "deal" /\ stdin[p] = 0 /\ p \notin working /\ ~Waiting("TurnComplete")
  \/ drain = "none" /\ stdin[p] = 1 /\ p \notin working /\ ~Waiting("TurnComplete")
  \/ drain = "none" /\ stdin[p] = 0 /\ p \in working /\ ~Waiting("TurnComplete")
  \/ drain = "none" /\ stdin[p] = 0 /\ p \notin working /\ Waiting("TurnComplete")
Turns ==
  /\ \A p \in Participants : p # Serving => stdin[p] = 0 /\ p \notin working
  /\ IF Serving = NoOne THEN drain = "none" /\ ~Waiting("TurnComplete") ELSE InOnePlace(Serving)
  /\ \A c \in Items(Line) : c.type = "TurnComplete" =>
       c.participant = Serving /\ (holder # NoOne => c.epoch = epoch)

\* The turn at work binds to the current epoch, and no other has it.
Epochs ==
  /\ \A p \in Participants : p \notin working => turnEpoch[p] = NoEpoch
  /\ \A p \in Participants : lastCompleted[p] <= epoch /\ turnEpoch[p] <= epoch /\ cell[p] <= epoch
  /\ holder # NoOne => cell[holder] = epoch
  /\ holder # NoOne /\ ~Waiting("TurnComplete") =>
       lastCompleted[holder] # epoch /\ turnEpoch[holder] \in {NoEpoch, epoch}

\* The busy flags that nobody is about to clear are that of the turn that is not reported yet.
BusyTells ==
  \A p \in Participants :
    p \in busy /\ p \notin clearing <=> p = Serving /\ ~Waiting("TurnComplete")

\* A halt is told to the ring before its turn ends, and its declarer makes one.
Halts ==
  /\ haltOwed \subseteq working /\ haltOwed \cap (interruptDue \cup interrupted) = {}
  /\ windingDown # NoOne \/ Waiting("HaltDeclared") => working \subseteq interruptDue \cup interrupted
  /\ windingDown # NoOne => stdin[windingDown] = 0
  /\ \A c \in Items(Line) : c.type = "HaltDeclared" /\ Serving # NoOne =>
       c.participant = Serving /\ drain = "none" /\ stdin[Serving] = 0
  /\ haltOwed # {} \/ Waiting("HaltDeclared") => haltSlot = "participant"
  /\ haltSlot # "none" /\ holder # NoOne => haltOwed # {} \/ Waiting("HaltDeclared")
  /\ holder # NoOne => ~haltedPendingUser

\* One release at a time, and it finds the ring at rest and the banner down.
Releasings ==
  /\ sending # "idle" => /\ ~Waiting("UserMessage") /\ deliveryDue = 0
                         /\ ~Waiting("MessageStaged") /\ stagedContent # "staged"
                         /\ busy = {} \/ stagedContent = "delivering"
  /\ Waiting("UserMessage") => deliveryDue = 0 /\ ~stagedPending
  /\ Releasing => Serving = NoOne /\ ~Waiting("HaltDeclared")
  /\ sending = "cleared" \/ Waiting("UserMessage") => haltSlot = "none"
  /\ stagedContent = "delivering" => sending # "idle"
  /\ stagedContent = "staged" <=> Waiting("MessageStaged") \/ stagedPending \/ deliveryDue = 1
  /\ Waiting("MessageStaged") => ~stagedPending /\ deliveryDue = 0
  /\ stagedPending => holder # NoOne /\ deliveryDue = 0
  /\ deliveryDue <= 1

\* The ring is at rest because of a banner, a release under way, or an empty rotation.
Explained == holder = NoOne => haltSlot # "none" \/ Releasing \/ Rotation = {}

TalkInv ==
  /\ Tidy(Line) /\ Undisturbed /\ OneOrTheOther /\ Turns /\ Epochs /\ BusyTells /\ Halts
  /\ Releasings /\ Explained
-----------------------------------------------------------------------------
\* What the type invariants say of the variables at hand.
TalkTypes ==
  /\ deferred \in Seq(Command) /\ rx \in Seq(Command) /\ Line \in Seq(Command)
  /\ holder \in Someone /\ windingDown \in Someone /\ (windingDown # NoOne => holder = NoOne)
  /\ epoch \in Nat /\ deliveryDue \in Nat /\ stdin \in [Participants -> Nat]
  /\ cell \in [Participants -> Nat]
  /\ turnEpoch \in [Participants -> Nat \cup {NoEpoch}]
  /\ lastCompleted \in [Participants -> Nat \cup {NoEpoch}]
  /\ working \in SUBSET Participants /\ clearing \in SUBSET Participants
  /\ haltOwed \in SUBSET Participants /\ busy \in SUBSET Participants
  /\ interruptDue \in SUBSET Participants /\ interrupted \in SUBSET Participants
  /\ left \in [Kinds -> Nat] /\ NoOne \notin Participants
  /\ drain \in {"none", "deal", "redrain"} /\ haltSlot \in HaltReasons
  /\ input \in [Participants -> {"none", "open", "closed"}]
  /\ (drain # "none" => holder \in Participants)
  /\ latch \in BOOLEAN /\ paused \in BOOLEAN /\ gateSeedFailed \in BOOLEAN
  /\ stagedPending \in BOOLEAN /\ haltedPendingUser \in BOOLEAN /\ stopping \in BOOLEAN
  /\ sending \in {"idle", "steered", "posted", "cleared"}
  /\ stagedContent \in {"none", "staged", "delivering"}
  /\ DealTypeOK /\ RestTypeOK

LEMMA TalkTyped == SessionInv => TalkTypes
<1> SUFFICES ASSUME SessionInv PROVE TalkTypes
  OBVIOUS
<1>1. StateInv /\ PumpTypeOK /\ AppTypeOK /\ RestTypeOK /\ DealTypeOK
  BY TypeOKParts DEF SessionInv, OthersTypeOK, StateInv
<1>2. TypeOK /\ WindDownHasNoHolder /\ DrainHasAHolder
  BY <1>1 DEF StateInv
<1>3. Line \in Seq(Command)
  BY <1>2, ConcatProperties DEF TypeOK, RingTypeOK, WorldTypeOK, Line
<1>4. drain # "none" => holder \in Participants
  BY <1>1, DrainFeedsSomeone DEF StateInv
<1>5. windingDown # NoOne => holder = NoOne
  BY <1>2 DEF WindDownHasNoHolder
<1>6. working \subseteq Participants /\ interrupted \subseteq Participants
  BY <1>1 DEF PumpTypeOK
<1> QED
  BY <1>1, <1>2, <1>3, <1>4, <1>5, <1>6, NoOneIsNotHere
     DEF TalkTypes, TypeOK, RingTypeOK, WorldTypeOK, PumpTypeOK, AppTypeOK

LEMMA TalkTypedNext == SessionInv' => TalkTypes'
BY TalkTyped, PTL

\* What a dispatch leaves of the line.
LEMMA Reading ==
  ASSUME TalkTypes, Tidy(Line), NEW type, Dispatches(type),
         deferred' = DeferredRest, rx' = RxRest
  PROVE  /\ drain = "none" /\ Next1 \in Items(Line) /\ Next1 \in Command /\ Next1.type = type
         /\ Tidy(Line)' /\ Items(Line)' \subseteq Items(Line) /\ ~Waiting(type)'
         /\ \A other : other # type => (Waiting(other)' <=> Waiting(other))
         /\ \A other : Later(type, other) => ~Waiting(other)
<1>1. drain = "none" /\ Next1 \in Command /\ Next1.type = type /\ (deferred # <<>> \/ rx # <<>>)
  BY Dispatched DEF TalkTypes, Dispatches, HasCommand
<1>2. Line # <<>> /\ Next1 = Head(Line) /\ Line' = Tail(Line)
  BY <1>1, LineSteps DEF TalkTypes, Line
<1>3. /\ Tidy(Tail(Line)) /\ Head(Line) \in Items(Line)
      /\ Items(Line) = {Head(Line)} \cup Items(Tail(Line))
      /\ \A c \in Items(Tail(Line)) : c.type # Head(Line).type /\ ~Later(Head(Line).type, c.type)
  BY <1>2, TidyTail DEF TalkTypes
<1>4. Items(Line)' = Items(Tail(Line)) /\ Tidy(Line)'
  BY <1>2, <1>3 DEF Items, Tidy
<1>5. \A other : Later(type, other) => other # type
  BY DEF Later
<1> QED
  BY <1>1, <1>2, <1>3, <1>4, <1>5 DEF Waiting

\* What one command more makes of it.
LEMMA Sends ==
  ASSUME TalkTypes, Tidy(Line), NEW c \in Command, c.type \in LineTypes, ~Waiting(c.type),
         \A other : Later(other, c.type) => ~Waiting(other),
         Line' = Append(Line, c)
  PROVE  /\ Tidy(Line)' /\ Items(Line)' = Items(Line) \cup {c} /\ Waiting(c.type)'
         /\ \A other : other # c.type => (Waiting(other)' <=> Waiting(other))
<1>1. \A d \in Items(Line) : d.type # c.type /\ ~Later(d.type, c.type)
  BY DEF Waiting
<1>2. Tidy(Append(Line, c)) /\ Items(Append(Line, c)) = Items(Line) \cup {c}
  BY <1>1, TidyAppend DEF TalkTypes
<1>3. Tidy(Line)' /\ Items(Line)' = Items(Line) \cup {c}
  BY <1>2 DEF Tidy, Items
<1> QED
  BY <1>3 DEF Waiting

\* A notify always finds room.
LEMMA RoomToSend ==
  ASSUME AtEase, TalkTypes, Tidy(Line), NEW c \in Command, UNCHANGED deferred
  PROVE  /\ Len(rx) < RxCap
         /\ rx' = TrySend(rx, c) => Line' = Append(Line, c)
         /\ rx' = Append(rx, c) => Line' = Append(Line, c)
<1>1. Len(Line) <= 4 /\ Len(rx) <= Len(Line) /\ Len(Line) \in Nat /\ Len(rx) \in Nat
  BY TidyIsShort, LineSteps, LenProperties DEF TalkTypes
<1>2. Len(rx) < RxCap
  BY <1>1, BoundsAssumption DEF AtEase
<1>3. deferred \o Append(rx, c) = Append(Line, c)
  BY LineSteps DEF TalkTypes
<1> QED
  BY <1>2, <1>3 DEF TrySend, Line
-----------------------------------------------------------------------------
\* A state of such a session.
Talking == AtEase /\ TalkTypes /\ TalkInv

\* Nothing of the line moves.
LEMMA LineStands ==
  ASSUME UNCHANGED <<deferred, rx>>
  PROVE  /\ Items(Line)' = Items(Line) /\ (Tidy(Line)' <=> Tidy(Line))
         /\ \A type : Waiting(type)' <=> Waiting(type)
<1>1. Line' = Line
  BY DEF Line
<1> QED
  BY <1>1 DEF Items, Tidy, Waiting

\* Whoever works has the turn, and nothing else is going on.
LEMMA WhoWorks ==
  ASSUME Talking, NEW p \in working
  PROVE  /\ p = Serving /\ p \in Participants /\ p # NoOne
         /\ drain = "none" /\ stdin[p] = 0 /\ ~Waiting("TurnComplete")
         /\ working = {p} /\ ~Releasing
<1>1. p \in Participants /\ p # NoOne /\ p = Serving /\ working = {p}
  BY DEF Talking, TalkInv, TalkTypes, Turns
<1>2. InOnePlace(p) /\ ~Releasing
  BY <1>1 DEF Talking, TalkInv, Turns, Releasings
<1> QED
  BY <1>1, <1>2 DEF InOnePlace

LEMMA StartTalk ==
  ASSUME Talking, NEW p \in Participants, AgentStarts(p), Free, UNCHANGED appVars
  PROVE  TalkInv'
<1>1. /\ Items(Line)' = Items(Line) /\ (Tidy(Line)' <=> Tidy(Line))
      /\ \A type : Waiting(type)' <=> Waiting(type)
  BY LineStands DEF AgentStarts, ringVars
<1>2. /\ p = Serving /\ Serving # NoOne /\ p \notin working /\ stdin[p] # 0 /\ ~Waiting("TurnComplete")
      /\ drain = "none" /\ stdin[p] = 1
  <2>1. p \notin working /\ stdin[p] # 0
    BY DEF AgentStarts, Talking, TalkTypes
  <2>2. p = Serving /\ p # NoOne
    BY <2>1 DEF Talking, TalkInv, Turns, TalkTypes
  <2> QED
    BY <2>1, <2>2 DEF Talking, TalkInv, Turns, InOnePlace
<1>3. /\ stdin' = [stdin EXCEPT ![p] = 0] /\ working' = working \cup {p}
      /\ Serving' = Serving
  BY <1>2 DEF AgentStarts, ringVars, Serving
<1>4. Undisturbed'
  BY DEF AgentStarts, Talking, TalkInv, Undisturbed, Free, ringVars, appVars, worldVars
<1>5. OneOrTheOther'
  BY <1>1 DEF AgentStarts, Talking, TalkInv, OneOrTheOther, NothingStaged, NobodyHalts, Free,
              ringVars, appVars, worldVars
<1>6. Turns'
  <2>1. InOnePlace(Serving)'
    BY <1>1, <1>2, <1>3 DEF InOnePlace, AgentStarts, ringVars, Talking, TalkTypes
  <2> QED
    BY <1>1, <1>2, <1>3, <2>1 DEF Turns, AgentStarts, ringVars, Talking, TalkTypes, TalkInv
<1>7. Epochs'
  BY <1>1, <1>3 DEF AgentStarts, Talking, TalkInv, Epochs, ringVars
<1>8. BusyTells'
  BY <1>1, <1>3 DEF AgentStarts, Talking, TalkInv, BusyTells, ringVars
<1>9. Halts'
  <2>1. ~Waiting("HaltDeclared") /\ windingDown = NoOne
    <3>1. windingDown # NoOne => Serving = windingDown
      BY DEF Talking, TalkTypes, Serving
    <3>2. Waiting("HaltDeclared") \/ windingDown # NoOne => stdin[Serving] = 0
      BY <1>2, <3>1 DEF Waiting, Talking, TalkInv, Halts
    <3> QED
      BY <1>2, <3>2
  <2>2. \A c \in Items(Line) : c.type # "HaltDeclared"
    BY <2>1 DEF Waiting
  <2>3. \A c \in Items(Line)' : ~(c.type = "HaltDeclared")
    BY <1>1, <2>2
  <2> QED
    BY <1>1, <1>3, <2>1, <2>3 DEF AgentStarts, Talking, TalkInv, Halts, ringVars
<1>10. Releasings' /\ Explained'
  BY <1>1, <1>3 DEF AgentStarts, Talking, TalkInv, Releasings, Releasing, Explained, Rotation,
                    Free, ringVars, appVars, worldVars
<1> QED
  BY <1>1, <1>4, <1>5, <1>6, <1>7, <1>8, <1>9, <1>10 DEF TalkInv, Talking

LEMMA FirstEventTalk ==
  ASSUME Talking, NEW p \in Participants, FirstEvent(p), Free, UNCHANGED appVars
  PROVE  TalkInv'
<1>1. /\ Items(Line)' = Items(Line) /\ (Tidy(Line)' <=> Tidy(Line))
      /\ \A type : Waiting(type)' <=> Waiting(type)
  BY LineStands DEF FirstEvent, ringVars, sharedVars
<1>2. /\ p \in working /\ p = Serving /\ ~Waiting("TurnComplete")
      /\ turnEpoch' = [turnEpoch EXCEPT ![p] = cell[p]] /\ Serving' = Serving
  BY WhoWorks DEF FirstEvent, Binding, ringVars, Serving
<1>3. Undisturbed' /\ OneOrTheOther' /\ Turns'
  <2>1. Undisturbed'
    BY DEF FirstEvent, Talking, TalkInv, Undisturbed, Free, ringVars, sharedVars, appVars, worldVars
  <2>2. OneOrTheOther'
    BY <1>1 DEF FirstEvent, Talking, TalkInv, OneOrTheOther, NothingStaged, NobodyHalts, Free,
                ringVars, sharedVars, appVars, worldVars
  <2>3. Turns'
    BY <1>1, <1>2 DEF FirstEvent, Talking, TalkInv, Turns, InOnePlace, ringVars, sharedVars
  <2> QED
    BY <2>1, <2>2, <2>3
<1>4. Epochs'
  <2>1. cell[p] \in Nat /\ cell[p] <= epoch /\ (holder # NoOne => cell[p] = epoch)
    BY <1>2 DEF Talking, TalkTypes, TalkInv, Epochs, Serving
  <2>2. /\ turnEpoch'[p] = cell[p]
        /\ \A q \in Participants \ {p} : turnEpoch'[q] = turnEpoch[q]
    BY <1>2 DEF Talking, TalkTypes
  <2> QED
    BY <1>1, <1>2, <2>1, <2>2 DEF FirstEvent, Talking, TalkInv, Epochs, Serving, ringVars
<1>5. BusyTells' /\ Halts'
  BY <1>1, <1>2 DEF FirstEvent, Talking, TalkInv, BusyTells, Halts, ringVars, sharedVars
<1>6. Releasings' /\ Explained'
  BY <1>1, <1>2 DEF FirstEvent, Talking, TalkInv, Releasings, Releasing, Explained, Rotation,
                    Free, ringVars, sharedVars, appVars, worldVars
<1> QED
  BY <1>1, <1>3, <1>4, <1>5, <1>6 DEF TalkInv, Talking

LEMMA EndTalk ==
  ASSUME Talking, NEW p \in Participants, EndsTurn(p)
  PROVE  TalkInv'
<1> DEFINE bound == IF Binding(p) = NoEpoch THEN 0 ELSE Binding(p)
<1>1. PICK ending \in Endings :
        /\ p \in working /\ clearing = {} /\ (p \in haltOwed => p \in interrupted)
        /\ Len(rx) < RxCap
        /\ rx' = Append(rx, [type |-> "TurnComplete", participant |-> p, ending |-> ending,
                             epoch |-> bound])
        /\ lastCompleted' = [lastCompleted EXCEPT ![p] = Binding(p)]
        /\ turnEpoch' = [turnEpoch EXCEPT ![p] = NoEpoch]
        /\ working' = working \ {p} /\ interrupted' = interrupted \ {p} /\ clearing' = {p}
        /\ UNCHANGED <<ringVars, stdin, busy, haltSlot, deliveryDue, input, worldVars, alive,
                       interruptDue, haltOwed, retry, appVars, left>>
  <2>1. PICK o \in TurnOutcomes : TurnEnds(p, o[1], o[2])
    BY DEF EndsTurn
  <2>2. o[1] \in Endings
    BY InputsAssumption
  <2> QED
    BY <2>1, <2>2 DEF EndsTurn, TurnEnds, ReportsEnd, Free
<1> DEFINE c == [type |-> "TurnComplete", participant |-> p, ending |-> ending, epoch |-> bound]
<1>2. /\ p = Serving /\ p # NoOne /\ drain = "none" /\ stdin[p] = 0 /\ ~Waiting("TurnComplete")
      /\ working = {p} /\ Serving' = Serving
  BY <1>1, WhoWorks DEF Serving, ringVars
<1>3. /\ Binding(p) \in Nat \cup {NoEpoch} /\ Binding(p) <= epoch /\ bound \in Nat
      /\ holder # NoOne => Binding(p) = epoch /\ bound = epoch
  <2>1. /\ turnEpoch[p] \in Nat \cup {NoEpoch} /\ cell[p] \in Nat /\ epoch \in Nat
        /\ turnEpoch[p] <= epoch /\ cell[p] <= epoch
    BY DEF Talking, TalkTypes, TalkInv, Epochs
  <2>2. holder # NoOne => /\ holder = p /\ cell[p] = epoch /\ lastCompleted[p] # epoch
                          /\ turnEpoch[p] \in {NoEpoch, epoch}
    BY <1>2 DEF Talking, TalkInv, Epochs, Serving
  <2> QED
    BY <2>1, <2>2 DEF Binding, NoEpoch
<1>4. c \in Command /\ c.type = "TurnComplete" /\ c.participant = p /\ c.epoch = bound
  BY <1>3 DEF Command
<1> HIDE DEF c, bound
<1>5. /\ Tidy(Line)' /\ Items(Line)' = Items(Line) \cup {c} /\ Waiting("TurnComplete")'
      /\ \A other : other # "TurnComplete" => (Waiting(other)' <=> Waiting(other))
  <2>1. rx' = Append(rx, c) /\ UNCHANGED deferred
    BY <1>1 DEF c, bound, ringVars
  <2>2. Line' = Append(Line, c)
    BY <1>4, <2>1, RoomToSend DEF Talking, TalkInv
  <2>3. \A other : ~Later(other, c.type)
    BY <1>4 DEF Later
  <2> QED
    BY <1>2, <1>4, <2>2, <2>3, Sends DEF Talking, TalkInv, LineTypes
<1>6. Undisturbed' /\ OneOrTheOther'
  <2>1. Undisturbed'
    BY <1>1 DEF Talking, TalkInv, Undisturbed, ringVars, appVars, worldVars
  <2> QED
    BY <1>1, <1>5, <2>1 DEF Talking, TalkInv, OneOrTheOther, NothingStaged, NobodyHalts,
                            ringVars, appVars, worldVars
<1>7. Turns'
  <2>1. InOnePlace(Serving)'
    BY <1>1, <1>2, <1>5 DEF InOnePlace, ringVars
  <2>2. \A d \in Items(Line) : d.type # "TurnComplete"
    BY <1>2 DEF Waiting
  <2>3. \A d \in Items(Line)' : d.type = "TurnComplete" => d = c
    BY <1>5, <2>2
  <2> QED
    BY <1>1, <1>2, <1>3, <1>4, <1>5, <2>1, <2>3 DEF Turns, ringVars, Talking, TalkInv
<1>8. Epochs'
  <2>1. /\ lastCompleted'[p] = Binding(p) /\ turnEpoch'[p] = NoEpoch
        /\ \A q \in Participants \ {p} :
             lastCompleted'[q] = lastCompleted[q] /\ turnEpoch'[q] = turnEpoch[q]
    BY <1>1 DEF Talking, TalkTypes
  <2>2. NoEpoch <= epoch
    BY DEF Talking, TalkTypes, NoEpoch
  <2> QED
    BY <1>1, <1>2, <1>3, <1>5, <2>1, <2>2 DEF Epochs, ringVars, Talking, TalkInv
<1>9. BusyTells'
  <2>1. \A q \in Participants : q \in busy <=> q = p
    BY <1>1, <1>2 DEF BusyTells, Talking, TalkInv
  <2> QED
    BY <1>1, <1>2, <1>5, <2>1 DEF BusyTells
<1>10. Halts'
  <2>1. haltOwed = {}
    BY <1>1, <1>2 DEF Halts, Talking, TalkInv
  <2>2. \A d \in Items(Line)' : d.type = "HaltDeclared" => d \in Items(Line)
    BY <1>4, <1>5
  <2> QED
    BY <1>1, <1>2, <1>5, <2>1, <2>2 DEF Halts, Talking, TalkInv, ringVars
<1>11. Releasings' /\ Explained'
  BY <1>1, <1>2, <1>5 DEF Talking, TalkInv, Releasings, Releasing, Explained, Rotation,
                          ringVars, appVars, worldVars
<1> QED
  BY <1>5, <1>6, <1>7, <1>8, <1>9, <1>10, <1>11 DEF TalkInv, Talking

LEMMA ClearTalk ==
  ASSUME Talking, NEW p \in Participants, PumpClearsBusy(p), Free, UNCHANGED appVars
  PROVE  TalkInv'
<1>1. /\ Items(Line)' = Items(Line) /\ (Tidy(Line)' <=> Tidy(Line))
      /\ \A type : Waiting(type)' <=> Waiting(type)
  BY LineStands DEF PumpClearsBusy, ringVars
<1>2. Serving' = Serving
  BY DEF PumpClearsBusy, ringVars, Serving
<1>3. Undisturbed' /\ OneOrTheOther'
  <2>1. Undisturbed'
    BY DEF PumpClearsBusy, Talking, TalkInv, Undisturbed, Free, ringVars, appVars, worldVars
  <2> QED
    BY <1>1, <2>1 DEF PumpClearsBusy, Talking, TalkInv, OneOrTheOther, NothingStaged, NobodyHalts,
                      Free, ringVars, appVars, worldVars
<1>4. Turns' /\ Epochs'
  BY <1>1, <1>2 DEF PumpClearsBusy, Talking, TalkInv, Turns, InOnePlace, Epochs, ringVars
<1>5. BusyTells' /\ Halts'
  BY <1>1, <1>2 DEF PumpClearsBusy, Talking, TalkInv, BusyTells, Halts, ringVars
<1>6. Releasings' /\ Explained'
  BY <1>1, <1>2 DEF PumpClearsBusy, Talking, TalkInv, Releasings, Releasing, Explained, Rotation,
                    Free, ringVars, appVars, worldVars
<1> QED
  BY <1>1, <1>3, <1>4, <1>5, <1>6 DEF TalkInv, Talking

LEMMA HaltTalk ==
  ASSUME Talking, TalkTypes', NEW p \in Participants, HaltTool(p), Spend("halt"), UNCHANGED appVars
  PROVE  TalkInv'
<1>1. /\ Items(Line)' = Items(Line) /\ (Tidy(Line)' <=> Tidy(Line))
      /\ \A type : Waiting(type)' <=> Waiting(type)
  BY LineStands DEF HaltTool, ringVars
<1>2. /\ p \in working /\ p \notin interruptDue \cup interrupted
      /\ p = Serving /\ p # NoOne /\ ~Releasing /\ Serving' = Serving
  BY WhoWorks DEF HaltTool, ringVars, Serving
<1>3. left["halt"] > 0 /\ \A k \in Kinds \ {"halt"} : left'[k] = left[k]
  BY SpendFacts DEF Talking, TalkTypes, Kinds
<1>4. Undisturbed' /\ OneOrTheOther'
  <2>1. Undisturbed'
    BY <1>3 DEF HaltTool, Talking, TalkInv, Undisturbed, Spared, Kinds, ringVars, appVars, worldVars
  <2>2. NothingStaged
    BY <1>3 DEF Talking, TalkInv, OneOrTheOther, NobodyHalts
  <2>3. NothingStaged'
    BY <1>1, <1>3, <2>2 DEF HaltTool, NothingStaged, Kinds, ringVars, appVars
  <2> QED
    BY <2>1, <2>3 DEF OneOrTheOther
<1>5. Turns' /\ Epochs' /\ BusyTells'
  BY <1>1, <1>2 DEF HaltTool, Talking, TalkInv, Turns, InOnePlace, Epochs, BusyTells, ringVars
<1>6. Halts'
  BY <1>1, <1>2 DEF HaltTool, Talking, TalkInv, Halts, ringVars
<1>7. Releasings' /\ Explained'
  BY <1>1, <1>2 DEF HaltTool, Talking, TalkInv, Releasings, Releasing, Explained,
                    ringVars, appVars
<1> QED
  BY <1>1, <1>4, <1>5, <1>6, <1>7 DEF TalkInv, Talking

LEMMA HaltSentTalk ==
  ASSUME Talking, NEW p \in Participants, HaltReachesRing(p), Free, UNCHANGED appVars
  PROVE  TalkInv'
<1> DEFINE c == [type |-> "HaltDeclared", participant |-> p]
<1>1. /\ p \in haltOwed /\ p \in working /\ p \notin interruptDue \cup interrupted
      /\ p = Serving /\ p # NoOne /\ ~Releasing /\ Serving' = Serving /\ drain = "none"
      /\ stdin[p] = 0 /\ working = {p} /\ ~Waiting("TurnComplete")
  <2>1. p \in haltOwed /\ p \in working /\ p \notin interruptDue \cup interrupted
    BY DEF HaltReachesRing, Talking, TalkInv, Halts
  <2> QED
    BY <2>1, WhoWorks DEF HaltReachesRing, ringVars, Serving
<1>2. ~Waiting("HaltDeclared") /\ haltSlot = "participant"
  BY <1>1 DEF Talking, TalkInv, Halts
<1>3. c \in Command /\ c.type = "HaltDeclared" /\ c.participant = p
  BY DEF Command, Someone
<1>4. rx' = TrySend(rx, c) /\ UNCHANGED deferred
  BY DEF HaltReachesRing, ringVars
<1> HIDE DEF c
<1>5. /\ Tidy(Line)' /\ Items(Line)' = Items(Line) \cup {c} /\ Waiting("HaltDeclared")'
      /\ \A other : other # "HaltDeclared" => (Waiting(other)' <=> Waiting(other))
  <2>1. Line' = Append(Line, c)
    BY <1>3, <1>4, RoomToSend DEF Talking, TalkInv
  <2>2. \A other : Later(other, c.type) => ~Waiting(other)
    BY <1>1, <1>3 DEF Later
  <2> QED
    BY <1>2, <1>3, <2>1, <2>2, Sends DEF Talking, TalkInv, LineTypes
<1>6. Undisturbed' /\ OneOrTheOther'
  <2>1. Undisturbed'
    BY DEF HaltReachesRing, Talking, TalkInv, Undisturbed, Free, ringVars, appVars, worldVars
  <2>2. NothingStaged
    BY <1>1 DEF Talking, TalkInv, OneOrTheOther, NobodyHalts
  <2>3. NothingStaged'
    BY <1>5, <2>2 DEF HaltReachesRing, NothingStaged, Free, ringVars, appVars
  <2> QED
    BY <2>1, <2>3 DEF OneOrTheOther
<1>7. Turns' /\ Epochs' /\ BusyTells'
  <2>1. \A d \in Items(Line)' : d.type = "TurnComplete" => d \in Items(Line)
    BY <1>3, <1>5
  <2> QED
    BY <1>1, <1>5, <2>1 DEF HaltReachesRing, Talking, TalkInv, Turns, InOnePlace, Epochs, BusyTells,
                            ringVars
<1>8. Halts'
  <2>1. \A d \in Items(Line)' : d.type = "HaltDeclared" => d = c
    BY <1>2, <1>5 DEF Waiting
  <2> QED
    BY <1>1, <1>2, <1>3, <1>5, <2>1 DEF HaltReachesRing, Talking, TalkInv, Halts, ringVars
<1>9. Releasings' /\ Explained'
  BY <1>1, <1>2, <1>5 DEF HaltReachesRing, Talking, TalkInv, Releasings, Releasing, Explained,
                          ringVars, appVars
<1> QED
  BY <1>5, <1>6, <1>7, <1>8, <1>9 DEF TalkInv, Talking

LEMMA InterruptTalk ==
  ASSUME Talking, NEW p \in Participants, HaltInterrupts(p), Free, UNCHANGED appVars
  PROVE  TalkInv'
<1>1. /\ Items(Line)' = Items(Line) /\ (Tidy(Line)' <=> Tidy(Line))
      /\ \A type : Waiting(type)' <=> Waiting(type)
  BY LineStands DEF HaltInterrupts, ringVars, sharedVars
<1>2. Serving' = Serving
  BY DEF HaltInterrupts, ringVars, Serving
<1>3. Undisturbed' /\ OneOrTheOther'
  <2>1. Undisturbed'
    BY DEF HaltInterrupts, Talking, TalkInv, Undisturbed, Free, ringVars, sharedVars, appVars,
           worldVars
  <2> QED
    BY <1>1, <2>1 DEF HaltInterrupts, Talking, TalkInv, OneOrTheOther, NothingStaged, NobodyHalts,
                      Free, ringVars, sharedVars, appVars, worldVars
<1>4. Turns' /\ Epochs' /\ BusyTells'
  BY <1>1, <1>2 DEF HaltInterrupts, Talking, TalkInv, Turns, InOnePlace, Epochs, BusyTells,
                    ringVars, sharedVars
<1>5. Halts'
  BY <1>1, <1>2 DEF HaltInterrupts, Talking, TalkInv, Halts, ringVars, sharedVars
<1>6. Releasings' /\ Explained'
  BY <1>1, <1>2 DEF HaltInterrupts, Talking, TalkInv, Releasings, Releasing, Explained, Rotation,
                    Free, ringVars, sharedVars, appVars, worldVars
<1> QED
  BY <1>1, <1>3, <1>4, <1>5, <1>6 DEF TalkInv, Talking

\* The participants' steps.
LEMMA ProcessTalk ==
  ASSUME Talking, TalkTypes', NEW p \in Participants, ProcessStep(p)
  PROVE  TalkInv'
<1>1. ~(AgentFolds(p) /\ Free /\ UNCHANGED appVars)
  BY WhoWorks DEF AgentFolds
<1>2. \A k \in Spared : ~Spend(k)
  BY DEF Talking, TalkInv, Undisturbed, Spend
<1>3. ~RetryFires(p)
  BY DEF RetryFires, Talking, TalkInv, Undisturbed
<1> QED
  BY <1>1, <1>2, <1>3, StartTalk, FirstEventTalk, EndTalk, ClearTalk, HaltTalk, HaltSentTalk,
     InterruptTalk
     DEF ProcessStep, Spared

\* The user's steps.
LEMMA SendTalk ==
  ASSUME Talking, UserSends
  PROVE  TalkInv'
<1>1. /\ Items(Line)' = Items(Line) /\ (Tidy(Line)' <=> Tidy(Line))
      /\ \A type : Waiting(type)' <=> Waiting(type)
  BY LineStands DEF UserSends, Preempts, ringVars, sharedVars
<1>2. \A type : ~Waiting(type)
  <2>1. Line = <<>>
    BY ConcatEmptySeq DEF UserSends, AtLeisure, Line
  <2> QED
    BY <2>1, EmptySeq DEF Waiting, Items
<1>3. /\ Serving = NoOne /\ windingDown = NoOne /\ holder = NoOne /\ working = {} /\ haltOwed = {}
      /\ busy = {} /\ sending = "idle"
  <2>1. busy = {} /\ holder = NoOne /\ sending = "idle"
    BY DEF UserSends, AtLeisure, BoxUnlocked, Locked, Preempts, Deliverable, SessionsLocked
  <2>2. Serving \notin Participants
    BY <1>2, <2>1 DEF Talking, TalkInv, BusyTells
  <2>3. Serving = NoOne /\ windingDown = NoOne
    BY <2>1, <2>2 DEF Talking, TalkTypes, Serving, Someone
  <2>4. working = {}
    BY <2>3 DEF Talking, TalkTypes, TalkInv, Turns
  <2> QED
    BY <2>1, <2>3, <2>4 DEF Talking, TalkInv, Halts
<1>4. stagedContent = "none" /\ ~stagedPending /\ deliveryDue = 0
  <2>1. stagedContent = "none"
    BY DEF UserSends, AtLeisure, BoxUnlocked
  <2>2. deliveryDue \in Nat /\ deliveryDue <= 1 /\ deliveryDue # 1 /\ ~stagedPending
    BY <2>1 DEF Talking, TalkTypes, TalkInv, Releasings
  <2> QED
    BY <2>1, <2>2
<1>5. Serving' = Serving /\ interrupted' = {} /\ sending' = "steered" /\ latch' = FALSE
  BY <1>3 DEF UserSends, Preempts, ringVars, Serving
<1>6. \A k \in Kinds \ {"message"} : left'[k] = left[k]
  BY SpendFacts DEF UserSends, Talking, TalkTypes, Kinds
<1>7. Undisturbed' /\ OneOrTheOther'
  <2>1. Undisturbed'
    BY <1>5, <1>6 DEF UserSends, Preempts, Talking, TalkInv, Undisturbed, Spared, Kinds, ringVars,
                      sharedVars
  <2> QED
    BY <1>1, <1>6, <2>1 DEF UserSends, Preempts, Talking, TalkInv, OneOrTheOther, NothingStaged,
                            NobodyHalts, Kinds, ringVars, sharedVars
<1>8. Turns' /\ Epochs' /\ BusyTells'
  BY <1>1, <1>5 DEF UserSends, Preempts, Talking, TalkInv, Turns, InOnePlace, Epochs, BusyTells,
                    ringVars, sharedVars
<1>9. Halts'
  BY <1>1, <1>2, <1>3, <1>5 DEF UserSends, Preempts, Talking, TalkInv, Halts, ringVars, sharedVars
<1>10. Releasings' /\ Explained'
  BY <1>1, <1>2, <1>3, <1>4, <1>5
     DEF UserSends, Preempts, Talking, TalkInv, Releasings, Releasing, Explained, ringVars,
         sharedVars
<1> QED
  BY <1>1, <1>7, <1>8, <1>9, <1>10 DEF TalkInv, Talking

LEMMA PostTalk ==
  ASSUME Talking, UserRowPosted \/ HaltCleared
  PROVE  TalkInv'
<1>1. /\ UNCHANGED <<ringVars, rx, stdin, busy, deliveryDue, input, worldVars, pumpVars, stopping,
                     stagedContent, answered, left>>
      /\ sending # "idle" /\ sending # "cleared" /\ sending' # "idle"
      /\ haltSlot' = "none" \/ (UNCHANGED haltSlot /\ sending' = "posted")
  BY DEF UserRowPosted, HaltCleared, Free, vars, sharedVars
<1>2. /\ Items(Line)' = Items(Line) /\ (Tidy(Line)' <=> Tidy(Line))
      /\ \A type : Waiting(type)' <=> Waiting(type)
  BY <1>1, LineStands DEF ringVars
<1>3. /\ Serving' = Serving /\ Serving = NoOne /\ working = {} /\ haltOwed = {} /\ holder = NoOne
      /\ ~Waiting("HaltDeclared")
  <2>1. Serving = NoOne /\ ~Waiting("HaltDeclared") /\ Serving' = Serving
    BY <1>1 DEF Talking, TalkInv, Releasings, Releasing, ringVars, Serving
  <2>2. working = {}
    BY <2>1 DEF Talking, TalkInv, TalkTypes, Turns
  <2> QED
    BY <2>1, <2>2 DEF Talking, TalkInv, Halts, Serving
<1>4. Undisturbed' /\ OneOrTheOther'
  <2>1. Undisturbed'
    BY <1>1 DEF Talking, TalkInv, Undisturbed, ringVars, worldVars, pumpVars
  <2> QED
    BY <1>1, <1>2, <2>1 DEF Talking, TalkInv, OneOrTheOther, NothingStaged, NobodyHalts, ringVars,
                            pumpVars
<1>5. Turns' /\ Epochs' /\ BusyTells'
  BY <1>1, <1>2, <1>3 DEF Talking, TalkInv, Turns, InOnePlace, Epochs, BusyTells, ringVars, pumpVars
<1>6. Halts'
  BY <1>1, <1>2, <1>3 DEF Talking, TalkInv, Halts, ringVars, pumpVars
<1>7. Releasings' /\ Explained'
  BY <1>1, <1>2, <1>3 DEF Talking, TalkInv, Releasings, Releasing, Explained, ringVars, pumpVars
<1> QED
  BY <1>2, <1>4, <1>5, <1>6, <1>7 DEF TalkInv, Talking

LEMMA ReleaseTalk ==
  ASSUME Talking, ReleasesRing
  PROVE  TalkInv'
<1>1. PICK mentions \in Seq(Participants) :
        RingReleased(mentions) /\ (Free \/ Spend("mention"))
  <2>1. CASE RingReleased(<<>>) /\ Free
    <3>1. <<>> \in Seq(Participants)
      BY EmptySeq
    <3> QED
      BY <2>1, <3>1
  <2>2. CASE \E p \in Participants : RingReleased(<<p>>) /\ Spend("mention")
    <3>1. PICK p \in Participants : RingReleased(<<p>>) /\ Spend("mention")
      BY <2>2
    <3>2. <<p>> \in Seq(Participants)
      OBVIOUS
    <3> QED
      BY <3>1, <3>2
  <2> QED
    BY <2>1, <2>2 DEF ReleasesRing
<1> DEFINE c == [type |-> "UserMessage", mentions |-> mentions]
<1>2. c \in Command /\ c.type = "UserMessage"
  BY DEF Command
<1>3. rx' = TrySend(rx, c) /\ UNCHANGED deferred
  BY <1>1 DEF RingReleased, ringVars
<1> HIDE DEF c
<1>4. /\ sending = "cleared" /\ sending' = "idle" /\ Serving' = Serving /\ Serving = NoOne
      /\ holder = NoOne /\ haltSlot = "none" /\ deliveryDue = 0 /\ ~stagedPending
      /\ stagedContent # "staged" /\ stagedContent' = "none" /\ ~Waiting("UserMessage")
      /\ ~Waiting("MessageStaged") /\ ~Waiting("HaltDeclared")
  <2>1. sending = "cleared" /\ sending' = "idle" /\ Serving' = Serving
    BY <1>1 DEF RingReleased, ringVars, Serving
  <2>2. /\ Serving = NoOne /\ haltSlot = "none" /\ deliveryDue = 0 /\ stagedContent # "staged"
        /\ ~Waiting("UserMessage") /\ ~Waiting("MessageStaged") /\ ~Waiting("HaltDeclared")
    BY <2>1 DEF Talking, TalkInv, Releasings, Releasing
  <2>3. ~stagedPending
    BY <2>2 DEF Talking, TalkInv, Releasings
  <2>4. stagedContent \in {"none", "delivering"}
    BY <2>2 DEF Talking, TalkTypes
  <2> QED
    BY <1>1, <2>1, <2>2, <2>3, <2>4 DEF RingReleased, Serving
<1>5. /\ Tidy(Line)' /\ Items(Line)' = Items(Line) \cup {c} /\ Waiting("UserMessage")'
      /\ \A other : other # "UserMessage" => (Waiting(other)' <=> Waiting(other))
  <2>1. Line' = Append(Line, c)
    BY <1>2, <1>3, RoomToSend DEF Talking, TalkInv
  <2>2. \A other : Later(other, c.type) => ~Waiting(other)
    BY <1>2, <1>4 DEF Later
  <2> QED
    BY <1>2, <1>4, <2>1, <2>2, Sends DEF Talking, TalkInv, LineTypes
<1>6. \A k \in Kinds \ {"mention"} : left'[k] = left[k]
  BY <1>1, SpendFacts DEF Free, Talking, TalkTypes, Kinds
<1>7. Undisturbed' /\ OneOrTheOther'
  <2>1. Undisturbed'
    BY <1>1, <1>6 DEF RingReleased, Talking, TalkInv, Undisturbed, Spared, Kinds, ringVars,
                      worldVars, pumpVars
  <2> QED
    BY <1>1, <1>4, <1>5, <1>6, <2>1
       DEF RingReleased, Talking, TalkInv, OneOrTheOther, NothingStaged, NobodyHalts, Kinds,
           ringVars, pumpVars
<1>8. Turns' /\ Epochs' /\ BusyTells' /\ Halts'
  <2>1. \A d \in Items(Line)' : d.type \in {"TurnComplete", "HaltDeclared"} => d \in Items(Line)
    BY <1>2, <1>5
  <2>2. Turns'
    BY <1>1, <1>4, <1>5, <2>1 DEF RingReleased, Talking, TalkInv, Turns, InOnePlace, ringVars,
                                  pumpVars
  <2>3. Epochs' /\ BusyTells'
    BY <1>1, <1>4, <1>5 DEF RingReleased, Talking, TalkInv, Epochs, BusyTells, ringVars, pumpVars
  <2>4. Halts'
    BY <1>1, <1>4, <1>5, <2>1 DEF RingReleased, Talking, TalkInv, Halts, ringVars, pumpVars
  <2> QED
    BY <2>2, <2>3, <2>4
<1>9. Releasings' /\ Explained'
  BY <1>1, <1>4, <1>5 DEF RingReleased, Releasings, Releasing, Explained, ringVars
<1> QED
  BY <1>5, <1>7, <1>8, <1>9 DEF TalkInv, Talking

LEMMA StageTalk ==
  ASSUME Talking, Stage
  PROVE  TalkInv'
<1> DEFINE c == [type |-> "MessageStaged"]
<1>1. c \in Command /\ c.type = "MessageStaged"
  BY DEF Command
<1>2. rx' = TrySend(rx, c) /\ UNCHANGED deferred
  BY DEF Stage, ringVars
<1> HIDE DEF c
<1>3. left["stage"] > 0 /\ \A k \in Kinds \ {"stage"} : left'[k] = left[k]
  BY SpendFacts DEF Stage, Talking, TalkTypes, Kinds
<1>4. /\ NobodyHalts /\ stagedContent = "none" /\ stagedContent' = "staged" /\ Serving' = Serving
      /\ ~Waiting("MessageStaged") /\ ~stagedPending /\ deliveryDue = 0 /\ sending = "idle"
  <2>1. NobodyHalts
    BY <1>3 DEF Talking, TalkInv, OneOrTheOther, NothingStaged
  <2>2. /\ stagedContent = "none" /\ stagedContent' = "staged" /\ Serving' = Serving
        /\ busy # {} \/ stopping
    BY DEF Stage, Locked, ringVars, Serving
  <2>3. /\ deliveryDue \in Nat /\ deliveryDue <= 1 /\ deliveryDue # 1 /\ ~stagedPending
        /\ ~Waiting("MessageStaged")
    BY <2>2 DEF Talking, TalkTypes, TalkInv, Releasings
  <2>4. ~stopping
    BY DEF Talking, TalkInv, Undisturbed
  <2>5. sending = "idle"
    BY <2>2, <2>4 DEF Talking, TalkInv, Releasings
  <2> QED
    BY <2>1, <2>2, <2>3, <2>5
<1>5. /\ Tidy(Line)' /\ Items(Line)' = Items(Line) \cup {c} /\ Waiting("MessageStaged")'
      /\ \A other : other # "MessageStaged" => (Waiting(other)' <=> Waiting(other))
  <2>1. Line' = Append(Line, c)
    BY <1>1, <1>2, RoomToSend DEF Talking, TalkInv
  <2>2. \A other : ~Later(other, c.type)
    BY <1>1 DEF Later
  <2> QED
    BY <1>1, <1>4, <2>1, <2>2, Sends DEF Talking, TalkInv, LineTypes
<1>6. Undisturbed' /\ OneOrTheOther'
  <2>1. Undisturbed'
    BY <1>3 DEF Stage, Talking, TalkInv, Undisturbed, Spared, Kinds, ringVars, worldVars, pumpVars
  <2>2. NobodyHalts'
    BY <1>3, <1>4, <1>5 DEF Stage, NobodyHalts, Kinds, ringVars, pumpVars
  <2> QED
    BY <2>1, <2>2 DEF OneOrTheOther
<1>7. Turns' /\ Epochs' /\ BusyTells' /\ Halts'
  <2>1. \A d \in Items(Line)' : d.type \in {"TurnComplete", "HaltDeclared"} => d \in Items(Line)
    BY <1>1, <1>5
  <2>2. Turns'
    BY <1>4, <1>5, <2>1 DEF Stage, Talking, TalkInv, Turns, InOnePlace, ringVars, pumpVars
  <2>3. Epochs' /\ BusyTells'
    BY <1>4, <1>5 DEF Stage, Talking, TalkInv, Epochs, BusyTells, ringVars, pumpVars
  <2>4. Halts'
    BY <1>4, <1>5, <2>1 DEF Stage, Talking, TalkInv, Halts, ringVars, pumpVars
  <2> QED
    BY <2>2, <2>3, <2>4
<1>8. Releasings' /\ Explained'
  BY <1>4, <1>5 DEF Stage, Talking, TalkInv, Releasings, Releasing, Explained, Rotation, ringVars,
                    worldVars, pumpVars
<1> QED
  BY <1>5, <1>6, <1>7, <1>8 DEF TalkInv, Talking

LEMMA DeliverTalk ==
  ASSUME Talking, DeliverStaged
  PROVE  TalkInv'
<1>1. /\ deliveryDue = 1 /\ deliveryDue' = 0 /\ stagedContent = "staged"
      /\ stagedContent' = "delivering" /\ sending' = "steered" /\ latch' = FALSE
      /\ UNCHANGED <<ringVars, rx, stdin, busy, haltSlot, input, enabled, gateRows, pumpVars,
                     stopping, answered, left>>
  <2>1. deliveryDue > 0 /\ deliveryDue \in Nat /\ deliveryDue <= 1
    BY DEF DeliverStaged, Talking, TalkTypes, TalkInv, Releasings
  <2>2. deliveryDue = 1
    BY <2>1
  <2>3. stagedContent = "staged"
    BY <2>2 DEF Talking, TalkInv, Releasings
  <2> QED
    BY <2>2, <2>3 DEF DeliverStaged, Free
<1>2. /\ Items(Line)' = Items(Line) /\ (Tidy(Line)' <=> Tidy(Line))
      /\ \A type : Waiting(type)' <=> Waiting(type)
  BY <1>1, LineStands DEF ringVars
<1>3. Serving' = Serving /\ Serving = NoOne /\ ~stagedPending
  BY <1>1 DEF Talking, TalkInv, Releasings, Releasing, Serving, ringVars
<1>4. Undisturbed' /\ OneOrTheOther'
  <2>1. Undisturbed'
    BY <1>1 DEF Talking, TalkInv, Undisturbed, ringVars, pumpVars
  <2>2. NobodyHalts
    BY <1>1 DEF Talking, TalkInv, OneOrTheOther, NothingStaged
  <2>3. NobodyHalts'
    BY <1>1, <1>2, <2>2 DEF NobodyHalts, ringVars, pumpVars
  <2> QED
    BY <2>1, <2>3 DEF OneOrTheOther
<1>5. Turns' /\ Epochs' /\ BusyTells' /\ Halts'
  BY <1>1, <1>2, <1>3 DEF Talking, TalkInv, Turns, InOnePlace, Epochs, BusyTells, Halts, ringVars,
                          pumpVars
<1>6. Releasings' /\ Explained'
  BY <1>1, <1>2, <1>3 DEF Talking, TalkInv, Releasings, Releasing, Explained, ringVars
<1> QED
  BY <1>2, <1>4, <1>5, <1>6 DEF TalkInv, Talking

LEMMA UserTalk ==
  ASSUME Talking, UserStep
  PROVE  TalkInv'
<1>1. \A k \in Spared : ~Spend(k)
  BY DEF Talking, TalkInv, Undisturbed, Spend
<1>2. ~Unstage
  <2>1. CASE NothingStaged
    BY <2>1 DEF Unstage, NothingStaged
  <2>2. CASE NobodyHalts
    BY <2>2 DEF Unstage, NobodyHalts, Spend
  <2> QED
    BY <2>1, <2>2 DEF Talking, TalkInv, OneOrTheOther
<1>3. \A g \in Gates : ~GateAnswered(g) /\ ~TrayWakes(g) /\ ~WaiterTimesOut(g)
  BY DEF GateAnswered, TrayWakes, WaiterTimesOut, Talking, TalkInv, Undisturbed
<1>4. ~StopReachesRing
  BY DEF StopReachesRing, Talking, TalkInv, Undisturbed
<1> QED
  BY <1>1, <1>2, <1>3, <1>4, SendTalk, PostTalk, ReleaseTalk, StageTalk, DeliverTalk
     DEF UserStep, UserSendsInGap, HostPrompts, StopLatches, Spared

LEMMA OthersTalk ==
  ASSUME Talking, TalkTypes', SessionStep
  PROVE  TalkInv'
<1>1. \A k \in Spared : ~Spend(k)
  BY DEF Talking, TalkInv, Undisturbed, Spend
<1> QED
  BY <1>1, ProcessTalk, UserTalk DEF SessionStep, GateParks, Respawns, ResumeSent, Spared
-----------------------------------------------------------------------------
\* What a turn of the ring leaves to the others.
OthersRest ==
  UNCHANGED <<pumpVars, sending, stopping, stagedContent, answered, left, latch, gateRows, enabled>>

LEMMA RingTurnFrame ==
  ASSUME RingTurn
  PROVE  RingStep /\ OthersRest
BY RingKeepsTheWorld DEF RingTurn, OthersRest, worldVars, appVars

\* The arms such a session's ring reaches.
TalkArms ==
  \/ \E c \in {Next1} : \/ CompletionConsensus(c) \/ CompletionSpins(c) \/ CompletionAtStage(c)
                        \/ CompletionSteps(c) \/ CompletionDiscarded(c)
  \/ UserMessageReleases \/ MessageStaged \/ HaltDeclared
  \/ DrainEmpty \/ DrainReadsCommand \/ DrainLands

LEMMA Dispatchable ==
  ASSUME Talking, NEW type, Dispatches(type)
  PROVE  type \in LineTypes /\ Waiting(type)
<1>1. Line # <<>> /\ Next1 = Head(Line) /\ Next1.type = type
  BY LineSteps DEF Talking, TalkTypes, Dispatches, HasCommand
<1>2. Head(Line) \in Items(Line)
  BY <1>1, TidyTail DEF Talking, TalkTypes, TalkInv
<1> QED
  BY <1>1, <1>2 DEF Waiting, Items, Tidy, Talking, TalkInv

LEMMA TalkReaches ==
  ASSUME Talking, RingStep
  PROVE  TalkArms
<1>1. \A c \in {Next1} : ~CompletionReplays(c)
  BY DEF CompletionReplays, Talking, TalkInv, Undisturbed
<1>2. ~UserSteers /\ ~HoldForPause /\ ~GraceExpires /\ ~GraceHolds
  BY DEF UserSteers, Steers, HoldForPause, HeldByPause, GraceExpires, GraceHolds, Talking, TalkInv,
         Undisturbed
<1>3. ~UserMessageStashed
  <2>1. SUFFICES ASSUME UserMessageStashed PROVE FALSE
    OBVIOUS
  <2>2. Waiting("UserMessage") /\ windingDown # NoOne
    BY <2>1, Dispatchable DEF UserMessageStashed
  <2>3. Serving = NoOne
    BY <2>2 DEF Talking, TalkInv, Releasings, Releasing
  <2> QED
    BY <2>2, <2>3 DEF Serving
<1>4. \A type : type \notin LineTypes => ~Dispatches(type)
  BY Dispatchable
<1>5. ~MessageUnstaged /\ ~GateOpened /\ ~GateResolved /\ ~Summon /\ ~Pause /\ ~Resume
      /\ ~ParticipantJoined
  BY <1>4 DEF LineTypes, MessageUnstaged, GateOpened, GateResolved, Summon, Pause, Resume,
              ParticipantJoined
<1>6. ~DrainNoInput /\ ~DrainReadFails /\ ~DrainUnreachable
  BY DEF DrainNoInput, DrainReadFails, DrainUnreachable, Drains, Talking, TalkTypes, TalkInv, Undisturbed,
         AtEase
<1> QED
  BY <1>1, <1>2, <1>3, <1>5, <1>6 DEF RingStep, Dispatch, Completion, Drain, TalkArms
-----------------------------------------------------------------------------
LEMMA EpochsPass ==
  ASSUME TalkTypes, TalkInv
  PROVE  \A p \in Participants : /\ lastCompleted[p] <= epoch + 1 /\ turnEpoch[p] <= epoch + 1
                                 /\ cell[p] <= epoch + 1
                                 /\ lastCompleted[p] # epoch + 1
<1>1. epoch \in Int /\ \A p \in Participants :
        lastCompleted[p] \in Int /\ turnEpoch[p] \in Int /\ cell[p] \in Int
  BY DEF TalkTypes, NoEpoch
<1>2. \A p \in Participants : lastCompleted[p] <= epoch /\ turnEpoch[p] <= epoch /\ cell[p] <= epoch
  BY DEF TalkInv, Epochs
<1> QED
  BY <1>1, <1>2

\* Whoever reads the line reads a session in which only what waits in it is left to do.
LEMMA MessageStagedTalk ==
  ASSUME Talking, MessageStaged, OthersRest
  PROVE  TalkInv'
<1>1. /\ Dispatches("MessageStaged") /\ deferred' = DeferredRest /\ rx' = RxRest
      /\ UNCHANGED <<holder, epoch, cell, busy, haltSlot, pauseVars, releaseVars, gateVars,
                     haltedPendingUser, deliveryVars, drain, batch>>
  BY DEF MessageStaged, Consume, NoDrain
<1>2. /\ Tidy(Line)' /\ Items(Line)' \subseteq Items(Line) /\ ~Waiting("MessageStaged")'
      /\ \A other : other # "MessageStaged" => (Waiting(other)' <=> Waiting(other))
      /\ ~Waiting("UserMessage") /\ Waiting("MessageStaged")
  BY <1>1, Reading, Dispatchable DEF Talking, TalkInv, Later
<1>3. /\ Serving' = Serving /\ ~stagedPending /\ deliveryDue = 0 /\ sending = "idle" /\ NobodyHalts
      /\ stagedContent = "staged"
      /\ IF holder = NoOne THEN deliveryDue' = 1 /\ ~stagedPending'
                           ELSE stagedPending' /\ deliveryDue' = 0
  <2>1. ~stagedPending /\ deliveryDue = 0 /\ stagedContent = "staged"
    BY <1>2 DEF Talking, TalkInv, Releasings
  <2>2. sending = "idle"
    BY <1>2 DEF Talking, TalkInv, Releasings
  <2>3. NobodyHalts
    BY <1>2 DEF Talking, TalkInv, OneOrTheOther, NothingStaged
  <2> QED
    BY <1>1, <2>1, <2>2, <2>3 DEF MessageStaged, Serving, releaseVars
<1>4. Undisturbed' /\ OneOrTheOther'
  <2>1. Undisturbed'
    BY <1>1 DEF OthersRest, Talking, TalkInv, Undisturbed, pauseVars, releaseVars, gateVars,
                deliveryVars, pumpVars
  <2>2. NobodyHalts'
    BY <1>1, <1>2, <1>3 DEF NobodyHalts, OthersRest, pumpVars, releaseVars
  <2> QED
    BY <2>1, <2>2 DEF OneOrTheOther
<1>5. Turns' /\ Epochs' /\ BusyTells' /\ Halts'
  <2>1. Turns'
    BY <1>1, <1>2, <1>3 DEF OthersRest, Talking, TalkInv, Turns, InOnePlace, pumpVars, deliveryVars
  <2>2. Epochs' /\ BusyTells'
    BY <1>1, <1>2, <1>3 DEF OthersRest, Talking, TalkInv, Epochs, BusyTells, pumpVars
  <2>3. Halts'
    BY <1>1, <1>2, <1>3 DEF OthersRest, Talking, TalkInv, Halts, pumpVars, deliveryVars, releaseVars
  <2> QED
    BY <2>1, <2>2, <2>3
<1>6. Releasings' /\ Explained'
  <2>1. NobodyHalts' /\ (holder = NoOne => Serving = NoOne)
    BY <1>1, <1>2, <1>3 DEF NobodyHalts, OthersRest, pumpVars, releaseVars, Serving
  <2> QED
    BY <1>1, <1>2, <1>3, <2>1
       DEF OthersRest, Talking, TalkInv, Releasings, Releasing, Explained, NobodyHalts, Rotation
<1> QED
  BY <1>2, <1>4, <1>5, <1>6 DEF TalkInv, Talking

LEMMA HaltDeclaredTalk ==
  ASSUME Talking, HaltDeclared, OthersRest
  PROVE  TalkInv'
<1>1. /\ Dispatches("HaltDeclared") /\ deferred' = DeferredRest /\ rx' = RxRest
      /\ UNCHANGED <<cell, busy, haltSlot, pauseVars, stashedRelease, deliveryVars, drain, batch>>
  BY DEF HaltDeclared, Consume, NoDrain
<1>2. /\ Next1 \in Items(Line) /\ Next1.type = "HaltDeclared"
      /\ Tidy(Line)' /\ Items(Line)' \subseteq Items(Line) /\ ~Waiting("HaltDeclared")'
      /\ \A other : other # "HaltDeclared" => (Waiting(other)' <=> Waiting(other))
      /\ Waiting("HaltDeclared")
  BY <1>1, Reading, Dispatchable DEF Talking, TalkInv
<1>3. /\ Serving # NoOne => Next1.participant = Serving /\ drain = "none" /\ stdin[Serving] = 0
      /\ haltSlot = "participant" /\ ~Releasing
      /\ working \subseteq interruptDue \cup interrupted
  <2>1. Serving # NoOne => Next1.participant = Serving /\ drain = "none" /\ stdin[Serving] = 0
    BY <1>2 DEF Talking, TalkInv, Halts
  <2>2. haltSlot = "participant" /\ working \subseteq interruptDue \cup interrupted
    BY <1>2 DEF Talking, TalkInv, Halts
  <2>3. ~Releasing
    BY <1>2 DEF Talking, TalkInv, Releasings
  <2> QED
    BY <2>1, <2>2, <2>3
<1>4. NothingStaged
  BY <1>2 DEF Talking, TalkInv, OneOrTheOther, NobodyHalts
<1>5. /\ holder' = NoOne /\ windingDown' = Serving /\ Serving' = Serving /\ epoch' = epoch + 1
      /\ haltedPendingUser' = TRUE /\ UNCHANGED gateVars
      /\ stagedPending' = FALSE /\ deliveryDue' = deliveryDue
  <2>1. holder # NoOne => Next1.participant = holder
    BY <1>3 DEF Serving
  <2>2. /\ holder' = NoOne /\ epoch' = epoch + 1 /\ haltedPendingUser' = TRUE
        /\ windingDown' = IF holder # NoOne THEN holder ELSE windingDown
    BY <2>1 DEF HaltDeclared, Halt
  <2>3. UNCHANGED gateVars
    BY DEF HaltDeclared, ReseedGates, gateVars, Talking, TalkInv, Undisturbed
  <2>4. stagedPending' = FALSE /\ deliveryDue' = deliveryDue
    BY <1>4 DEF HaltDeclared, DeliverStagedIfPending, NothingStaged
  <2> QED
    BY <2>2, <2>3, <2>4 DEF Serving
<1>6. Undisturbed' /\ OneOrTheOther'
  <2>1. Undisturbed'
    BY <1>1, <1>5 DEF OthersRest, Talking, TalkInv, Undisturbed, pauseVars, gateVars, deliveryVars,
                      pumpVars
  <2>2. NothingStaged'
    BY <1>2, <1>4, <1>5 DEF NothingStaged, OthersRest
  <2> QED
    BY <2>1, <2>2 DEF OneOrTheOther
<1>7. Turns' /\ Epochs' /\ BusyTells'
  <2>1. Turns'
    BY <1>1, <1>2, <1>5 DEF OthersRest, Talking, TalkInv, Turns, InOnePlace, pumpVars, deliveryVars
  <2>2. Epochs'
    <3>1. \A p \in Participants :
            lastCompleted[p] <= epoch + 1 /\ turnEpoch[p] <= epoch + 1 /\ cell[p] <= epoch + 1
      BY EpochsPass DEF Talking
    <3> QED
      BY <1>1, <1>5, <3>1 DEF OthersRest, Talking, TalkInv, Epochs, pumpVars
  <2>3. BusyTells'
    BY <1>1, <1>2, <1>5 DEF OthersRest, Talking, TalkInv, BusyTells, pumpVars
  <2> QED
    BY <2>1, <2>2, <2>3
<1>8. Halts'
  <2>1. \A d \in Items(Line)' : d.type # "HaltDeclared"
    BY <1>2 DEF Waiting
  <2> QED
    BY <1>1, <1>2, <1>3, <1>5, <2>1 DEF OthersRest, Talking, TalkInv, Halts, pumpVars, deliveryVars
<1>9. Releasings' /\ Explained'
  BY <1>1, <1>2, <1>3, <1>4, <1>5
     DEF OthersRest, Talking, TalkInv, Releasings, Releasing, Explained, NothingStaged
<1> QED
  BY <1>2, <1>6, <1>7, <1>8, <1>9 DEF TalkInv, Talking

\* A delivery is the holder's, and no completion and no halt is on its way.
LEMMA WhoDrains ==
  ASSUME Talking, Drains
  PROVE  /\ drain = "deal" /\ batch = 0 /\ holder \in Participants /\ holder # NoOne
         /\ Serving = holder /\ windingDown = NoOne /\ stdin[holder] = 0 /\ holder \notin working
         /\ ~Waiting("TurnComplete") /\ ~Waiting("HaltDeclared") /\ ~Waiting("UserMessage")
         /\ ~Releasing /\ working = {}
<1>1. /\ drain = "deal" /\ batch = 0 /\ holder \in Participants /\ holder # NoOne
      /\ Serving = holder /\ windingDown = NoOne
  BY DEF Drains, Talking, TalkTypes, TalkInv, Undisturbed, Serving
<1>2. InOnePlace(holder)
  BY <1>1 DEF Talking, TalkInv, Turns
<1>3. stdin[holder] = 0 /\ holder \notin working /\ ~Waiting("TurnComplete")
  BY <1>1, <1>2 DEF InOnePlace
<1>4. ~Waiting("HaltDeclared")
  BY <1>1 DEF Waiting, Talking, TalkInv, Halts
<1>5. ~Releasing /\ ~Waiting("UserMessage")
  BY <1>1 DEF Talking, TalkInv, Releasings, Releasing
<1>6. working = {}
  BY <1>1, <1>3 DEF Talking, TalkTypes, TalkInv, Turns
<1> QED
  BY <1>1, <1>3, <1>4, <1>5, <1>6

LEMMA DrainEmptyTalk ==
  ASSUME Talking, DrainEmpty, OthersRest
  PROVE  TalkInv'
<1> DEFINE c == [type |-> "TurnComplete", participant |-> holder, epoch |-> epoch,
                 ending |-> "Passed"]
<1>1. /\ drain = "deal" /\ batch = 0 /\ holder \in Participants /\ holder # NoOne
      /\ Serving = holder /\ windingDown = NoOne /\ stdin[holder] = 0 /\ holder \notin working
      /\ ~Waiting("TurnComplete") /\ ~Waiting("HaltDeclared") /\ ~Waiting("UserMessage")
      /\ ~Releasing /\ working = {}
  BY WhoDrains DEF DrainEmpty
<1>2. c \in Command /\ c.type = "TurnComplete" /\ c.participant = holder /\ c.epoch = epoch
  BY <1>1 DEF Command, Endings, Talking, TalkTypes
<1>3. /\ deferred' = Append(deferred, c) /\ UNCHANGED rx /\ busy' = busy \ {holder}
      /\ drain' = "none" /\ batch' = 0
      /\ UNCHANGED <<stdin, holder, epoch, haltSlot, drainKeeps>>
  BY <1>1 DEF DrainEmpty, EndDrain
<1> HIDE DEF c
<1>4. /\ Tidy(Line)' /\ Items(Line)' = Items(Line) \cup {c} /\ Waiting("TurnComplete")'
      /\ \A other : other # "TurnComplete" => (Waiting(other)' <=> Waiting(other))
  <2>1. \A d \in Items(Line) : d.type \notin {"TurnComplete", "HaltDeclared"}
    BY <1>1 DEF Waiting
  <2>2. /\ Tidy(Append(deferred, c) \o rx)
        /\ Items(Append(deferred, c) \o rx) = Items(Line) \cup {c}
    BY <1>2, <2>1, TidyInsert DEF Talking, TalkTypes, TalkInv, Line
  <2>3. Line' = Append(deferred, c) \o rx
    BY <1>3 DEF Line
  <2>4. Tidy(Line)' /\ Items(Line)' = Items(Line) \cup {c}
    BY <2>2, <2>3 DEF Tidy, Items
  <2> QED
    BY <1>2, <2>4 DEF Waiting
<1>5. Serving' = Serving
  BY <1>3 DEF Serving, drainKeeps, releaseVars
<1>6. Undisturbed' /\ OneOrTheOther'
  <2>1. Undisturbed'
    BY <1>3 DEF OthersRest, Talking, TalkInv, Undisturbed, drainKeeps, pauseVars, releaseVars,
                gateVars, pumpVars
  <2> QED
    BY <1>3, <1>4, <2>1 DEF OthersRest, Talking, TalkInv, OneOrTheOther, NothingStaged,
                            NobodyHalts, drainKeeps, releaseVars, pumpVars
<1>7. Turns'
  <2>1. \A d \in Items(Line)' : d.type = "TurnComplete" => d = c
    BY <1>1, <1>4 DEF Waiting
  <2>2. InOnePlace(Serving)'
    BY <1>1, <1>3, <1>4, <1>5 DEF InOnePlace, OthersRest, pumpVars
  <2> QED
    BY <1>1, <1>2, <1>3, <1>5, <2>1, <2>2 DEF OthersRest, Talking, TalkInv, Turns, pumpVars
<1>8. Epochs' /\ BusyTells'
  <2>1. Epochs'
    BY <1>3, <1>4 DEF OthersRest, Talking, TalkInv, Epochs, pumpVars, drainKeeps
  <2>2. BusyTells'
    BY <1>1, <1>3, <1>4, <1>5 DEF OthersRest, Talking, TalkInv, BusyTells, pumpVars
  <2> QED
    BY <2>1, <2>2
<1>9. Halts'
  <2>1. \A d \in Items(Line)' : d.type # "HaltDeclared"
    BY <1>1, <1>2, <1>4 DEF Waiting
  <2> QED
    BY <1>1, <1>3, <1>4, <2>1 DEF OthersRest, Talking, TalkInv, Halts, pumpVars, drainKeeps,
                                  releaseVars
<1>10. Releasings' /\ Explained'
  BY <1>1, <1>3, <1>4, <1>5 DEF OthersRest, Talking, TalkInv, Releasings, Releasing, Explained,
                                drainKeeps
<1> QED
  BY <1>4, <1>6, <1>7, <1>8, <1>9, <1>10 DEF TalkInv, Talking

LEMMA DrainReadsTalk ==
  ASSUME Talking, DrainReadsCommand, OthersRest
  PROVE  TalkInv'
<1>1. /\ drain = "deal" /\ batch = 0 /\ holder \in Participants /\ holder # NoOne
      /\ Serving = holder /\ windingDown = NoOne /\ stdin[holder] = 0 /\ holder \notin working
      /\ ~Waiting("TurnComplete") /\ ~Waiting("HaltDeclared") /\ ~Waiting("UserMessage")
      /\ ~Releasing /\ working = {}
  BY WhoDrains DEF DrainReadsCommand
<1>2. rx # <<>> /\ Head(rx) \in Items(Line) /\ Append(deferred, Head(rx)) \o Tail(rx) = Line
  BY LineSteps DEF DrainReadsCommand, Talking, TalkTypes
<1>3. Head(rx).type = "MessageStaged"
  <2>1. Waiting(Head(rx).type)
    BY <1>2 DEF Waiting
  <2>2. Head(rx).type \in LineTypes
    BY <1>2 DEF Talking, TalkInv, Tidy, Items
  <2> QED
    BY <1>1, <2>1, <2>2 DEF LineTypes
<1>4. /\ deferred' = Append(deferred, Head(rx)) /\ rx' = Tail(rx)
      /\ UNCHANGED <<drain, batch, stdin, holder, epoch, busy, haltSlot, drainKeeps>>
  BY <1>3 DEF DrainReadsCommand, NoDrain
<1>5. Line' = Line /\ Serving' = Serving
  BY <1>2, <1>4 DEF Line, Serving, drainKeeps, releaseVars
<1>6. /\ Items(Line)' = Items(Line) /\ (Tidy(Line)' <=> Tidy(Line))
      /\ \A type : Waiting(type)' <=> Waiting(type)
  BY <1>5 DEF Items, Tidy, Waiting
<1>7. Undisturbed' /\ OneOrTheOther'
  <2>1. Undisturbed'
    BY <1>4 DEF OthersRest, Talking, TalkInv, Undisturbed, drainKeeps, pauseVars, releaseVars,
                gateVars, pumpVars
  <2> QED
    BY <1>4, <1>6, <2>1 DEF OthersRest, Talking, TalkInv, OneOrTheOther, NothingStaged,
                            NobodyHalts, drainKeeps, releaseVars, pumpVars
<1>8. Turns' /\ Epochs' /\ BusyTells' /\ Halts'
  <2>1. Turns'
    BY <1>4, <1>5, <1>6 DEF OthersRest, Talking, TalkInv, Turns, InOnePlace, pumpVars
  <2>2. Epochs' /\ BusyTells'
    BY <1>4, <1>5, <1>6 DEF OthersRest, Talking, TalkInv, Epochs, BusyTells, pumpVars, drainKeeps
  <2>3. Halts'
    BY <1>4, <1>5, <1>6 DEF OthersRest, Talking, TalkInv, Halts, pumpVars, drainKeeps, releaseVars
  <2> QED
    BY <2>1, <2>2, <2>3
<1>9. Releasings' /\ Explained'
  BY <1>1, <1>4, <1>5, <1>6 DEF OthersRest, Talking, TalkInv, Releasings, Releasing, Explained,
                                drainKeeps
<1> QED
  BY <1>6, <1>7, <1>8, <1>9 DEF TalkInv, Talking

LEMMA DrainLandsTalk ==
  ASSUME Talking, DrainLands, OthersRest
  PROVE  TalkInv'
<1>1. /\ drain = "deal" /\ batch = 0 /\ holder \in Participants /\ holder # NoOne
      /\ Serving = holder /\ windingDown = NoOne /\ stdin[holder] = 0 /\ holder \notin working
      /\ ~Waiting("TurnComplete") /\ ~Waiting("HaltDeclared") /\ ~Waiting("UserMessage")
      /\ ~Releasing /\ working = {}
  BY WhoDrains DEF DrainLands
<1>2. /\ stdin' = [stdin EXCEPT ![holder] = 1] /\ drain' = "none" /\ batch' = 0
      /\ UNCHANGED <<rx, deferred, holder, epoch, busy, haltSlot, drainKeeps>>
  BY <1>1 DEF DrainLands, EndDrain, Talking, AtEase
<1>3. /\ Items(Line)' = Items(Line) /\ (Tidy(Line)' <=> Tidy(Line))
      /\ \A type : Waiting(type)' <=> Waiting(type)
  BY <1>2, LineStands
<1>4. Serving' = Serving
  BY <1>2 DEF Serving, drainKeeps, releaseVars
<1>5. Undisturbed' /\ OneOrTheOther'
  <2>1. Undisturbed'
    BY <1>2 DEF OthersRest, Talking, TalkInv, Undisturbed, drainKeeps, pauseVars, releaseVars,
                gateVars, pumpVars
  <2> QED
    BY <1>2, <1>3, <2>1 DEF OthersRest, Talking, TalkInv, OneOrTheOther, NothingStaged,
                            NobodyHalts, drainKeeps, releaseVars, pumpVars
<1>6. Turns'
  <2>1. /\ stdin'[holder] = 1
        /\ \A p \in Participants \ {holder} : stdin'[p] = stdin[p]
    BY <1>1, <1>2 DEF Talking, TalkTypes
  <2>2. InOnePlace(Serving)'
    BY <1>1, <1>2, <1>3, <1>4, <2>1 DEF InOnePlace, OthersRest, pumpVars
  <2> QED
    BY <1>1, <1>2, <1>3, <1>4, <2>1, <2>2 DEF OthersRest, Talking, TalkInv, Turns, pumpVars
<1>7. Epochs' /\ BusyTells'
  BY <1>2, <1>3, <1>4 DEF OthersRest, Talking, TalkInv, Epochs, BusyTells, pumpVars, drainKeeps
<1>8. Halts'
  <2>1. \A d \in Items(Line)' : d.type # "HaltDeclared"
    BY <1>1, <1>3 DEF Waiting
  <2> QED
    BY <1>1, <1>2, <1>3, <2>1 DEF OthersRest, Talking, TalkInv, Halts, pumpVars, drainKeeps,
                                  releaseVars
<1>9. Releasings' /\ Explained'
  BY <1>1, <1>2, <1>3, <1>4 DEF OthersRest, Talking, TalkInv, Releasings, Releasing, Explained,
                                drainKeeps
<1> QED
  BY <1>3, <1>5, <1>6, <1>7, <1>8, <1>9 DEF TalkInv, Talking
-----------------------------------------------------------------------------
\* A release or a completion has been read: nobody works, nobody waits to be fed, and whatever
\* else the session does waits for the ring.
AtBoundary ==
  /\ working = {} /\ haltOwed = {} /\ haltSlot = "none" /\ sending = "idle" /\ deliveryDue = 0
  /\ drain = "none" /\ busy \subseteq clearing /\ \A p \in Participants : stdin[p] = 0
  /\ Tidy(Line)' /\ ~Waiting("UserMessage")' /\ ~Waiting("TurnComplete")'
  /\ (Waiting("MessageStaged")' <=> Waiting("MessageStaged"))

\* What is left as it is, whatever comes of the boundary.
BoundaryKeeps ==
  /\ OthersRest /\ windingDown' = NoOne /\ haltedPendingUser' = FALSE /\ epoch' = epoch + 1
  /\ UNCHANGED <<pauseVars, stashedRelease, gateVars, deliveryVars>>

\* The turn is handed to `to`, or the ring stops: with a banner, for what is staged, or because
\* there is nobody to go on with.
DealtTo(to) ==
  /\ holder' = to /\ busy' = busy \cup {to} /\ cell' = [cell EXCEPT ![to] = epoch + 1]
  /\ drain' = "deal" /\ batch' = 0
  /\ UNCHANGED <<haltSlot, stagedPending, deliveryDue>>
Stopped ==
  /\ holder' = NoOne /\ stagedPending' = FALSE /\ deliveryDue' = IF stagedPending THEN 1 ELSE 0
  /\ haltSlot' # "none" \/ deliveryDue' = 1 \/ Rotation = {}
  /\ Waiting("HaltDeclared")' => SpinDetection /\ haltSlot' = "participant"
  /\ UNCHANGED <<busy, cell, drain, batch>>

LEMMA DealtTalk ==
  ASSUME Talking, TalkTypes', AtBoundary, BoundaryKeeps, ~Waiting("HaltDeclared")', ~stagedPending,
         NEW to \in Participants \ clearing, DealtTo(to)
  PROVE  TalkInv'
<1>1. Serving' = to /\ to # NoOne /\ holder' = to
  BY DEF DealtTo, Serving, Talking, TalkTypes
<1>2. Undisturbed' /\ OneOrTheOther'
  <2>1. Undisturbed'
    BY DEF DealtTo, BoundaryKeeps, OthersRest, Talking, TalkInv, Undisturbed, pauseVars, gateVars,
           deliveryVars, pumpVars
  <2> QED
    BY <2>1 DEF DealtTo, AtBoundary, BoundaryKeeps, OthersRest, Talking, TalkInv, OneOrTheOther,
                NothingStaged, NobodyHalts, pumpVars
<1>3. Turns'
  <2>1. InOnePlace(Serving)'
    BY <1>1 DEF InOnePlace, DealtTo, AtBoundary, BoundaryKeeps, OthersRest, deliveryVars, pumpVars
  <2>2. \A c \in Items(Line)' : c.type # "TurnComplete"
    BY DEF Waiting, AtBoundary
  <2> QED
    BY <1>1, <2>1, <2>2 DEF Turns, AtBoundary, BoundaryKeeps, OthersRest, deliveryVars, pumpVars
<1>4. Epochs'
  <2>1. \A p \in Participants :
          /\ lastCompleted[p] <= epoch + 1 /\ turnEpoch[p] <= epoch + 1 /\ cell[p] <= epoch + 1
          /\ lastCompleted[p] # epoch + 1
    BY EpochsPass DEF Talking
  <2>2. epoch + 1 <= epoch + 1
    BY DEF Talking, TalkTypes
  <2>3. /\ cell'[to] = epoch + 1 /\ \A p \in Participants \ {to} : cell'[p] = cell[p]
    BY DEF DealtTo, Talking, TalkTypes
  <2>4. \A p \in Participants : turnEpoch[p] = NoEpoch
    BY DEF AtBoundary, Talking, TalkInv, Epochs
  <2> QED
    BY <1>1, <2>1, <2>2, <2>3, <2>4 DEF Epochs, BoundaryKeeps, OthersRest, pumpVars
<1>5. BusyTells' /\ Halts'
  <2>1. BusyTells'
    BY <1>1 DEF BusyTells, DealtTo, AtBoundary, BoundaryKeeps, OthersRest, pumpVars
  <2>2. \A c \in Items(Line)' : c.type # "HaltDeclared"
    BY DEF Waiting
  <2>3. Halts'
    BY <2>2 DEF Halts, DealtTo, AtBoundary, BoundaryKeeps, OthersRest, pumpVars
  <2> QED
    BY <2>1, <2>3
<1>6. Releasings' /\ Explained'
  BY <1>1 DEF Releasings, Releasing, Explained, DealtTo, AtBoundary, BoundaryKeeps, OthersRest,
              Talking, TalkInv
<1> QED
  BY <1>2, <1>3, <1>4, <1>5, <1>6 DEF TalkInv, AtBoundary

LEMMA StoppedTalk ==
  ASSUME Talking, TalkTypes', AtBoundary, BoundaryKeeps, Stopped
  PROVE  TalkInv'
<1>1. Serving' = NoOne /\ holder' = NoOne
  BY DEF Stopped, BoundaryKeeps, Serving
<1>2. Undisturbed' /\ OneOrTheOther'
  <2>1. Undisturbed'
    BY DEF Stopped, BoundaryKeeps, OthersRest, Talking, TalkInv, Undisturbed, pauseVars, gateVars,
           deliveryVars, pumpVars
  <2>2. CASE NothingStaged
    <3>1. NothingStaged'
      BY <2>2 DEF Stopped, NothingStaged, AtBoundary, BoundaryKeeps, OthersRest
    <3> QED
      BY <2>1, <3>1 DEF OneOrTheOther
  <2>3. CASE NobodyHalts
    <3>1. NobodyHalts'
      BY <2>3 DEF Stopped, NobodyHalts, AtBoundary, BoundaryKeeps, OthersRest, pumpVars
    <3> QED
      BY <2>1, <3>1 DEF OneOrTheOther
  <2> QED
    BY <2>2, <2>3 DEF Talking, TalkInv, OneOrTheOther
<1>3. Turns'
  <2>1. \A c \in Items(Line)' : c.type # "TurnComplete"
    BY DEF Waiting, AtBoundary
  <2> QED
    BY <1>1, <2>1 DEF Turns, Stopped, AtBoundary, BoundaryKeeps, OthersRest, deliveryVars, pumpVars
<1>4. Epochs'
  <2>1. \A p \in Participants :
          lastCompleted[p] <= epoch + 1 /\ turnEpoch[p] <= epoch + 1 /\ cell[p] <= epoch + 1
    BY EpochsPass DEF Talking
  <2> QED
    BY <1>1, <2>1 DEF Epochs, Stopped, BoundaryKeeps, OthersRest, pumpVars, Talking, TalkInv
<1>5. BusyTells' /\ Halts'
  <2>1. BusyTells'
    BY <1>1 DEF BusyTells, Stopped, AtBoundary, BoundaryKeeps, OthersRest, pumpVars, Talking,
                TalkTypes
  <2>2. Halts'
    BY <1>1 DEF Halts, Stopped, AtBoundary, BoundaryKeeps, OthersRest, pumpVars
  <2> QED
    BY <2>1, <2>2
<1>6. Releasings' /\ Explained'
  <2>1. Waiting("HaltDeclared")' => ~stagedPending
    BY DEF Stopped, Talking, TalkInv, OneOrTheOther, NobodyHalts, NothingStaged
  <2>2. Waiting("MessageStaged") => ~stagedPending
    BY DEF Talking, TalkInv, Releasings
  <2> QED
    BY <1>1, <2>1, <2>2
       DEF Releasings, Releasing, Explained, Stopped, AtBoundary, BoundaryKeeps, OthersRest,
           Talking, TalkInv, Rotation
<1> QED
  BY <1>2, <1>3, <1>4, <1>5, <1>6 DEF TalkInv, AtBoundary

\* advance_turn deals somebody, or stops the ring.
LEMMA AdvanceTalk ==
  ASSUME Talking, RosterStands, ~Parked, ~stagedPending, deliveryDue = 0, drain = "none",
         ~Waiting("HaltDeclared")',
         NEW userSpoke \in BOOLEAN, NEW queue \in Seq(Participants), NEW spoke, NEW tally,
         Advance(userSpoke, queue, spoke, tally)
  PROVE  /\ epoch' = epoch + 1
         /\ Stopped \/ \E to \in Participants : DealtTo(to)
<1>1. PICK k \in 0..Len(queue) : \E from, lap, cleared :
             HandsOut(userSpoke, queue, spoke, tally, k, from, lap, cleared)
  BY AdvanceArms
<1>2. PICK from, lap, cleared : HandsOut(userSpoke, queue, spoke, tally, k, from, lap, cleared)
  BY <1>1
<1>3. from \in Someone
  BY <1>2 DEF HandsOut, Talking, TalkTypes, DealTypeOK, Someone
<1>4. ASSUME NEW to \in Participants, StartTurn(to)
      PROVE  epoch' = epoch + 1 /\ DealtTo(to)
  BY <1>4 DEF StartTurn, DealtTo, Talking, TalkTypes
<1>5. CASE k < Len(queue) /\ StartTurn(queue[k + 1])
  <2>1. queue[k + 1] \in Participants
    BY <1>2, <1>5 DEF HandsOut, Dropped, RosterStands
  <2> QED
    BY <1>4, <1>5, <2>1
<1>6. CASE StepRing(from, lap, spoke, cleared)
  <2> DEFINE to == NextInRing(Rotation, from)
             wraps == Wraps(from, to)
             allPassed == wraps /\ ~spoke
             capped == wraps /\ spoke /\ RoundCap # 0 /\ (IF wraps THEN lap + 1 ELSE lap) >= RoundCap
  <2>1. \/ YieldToUser(IF capped THEN "roundCap" ELSE "allPassed")
        \/ StartTurn(to)
    BY <1>6 DEF StepRing, Talking, AtEase
  <2>2. to = NoOne => Rotation = {}
    BY <1>3, NextInTheRing, RingHasSize
  <2>3. to # NoOne => to \in Participants
    BY <1>3, NextInTheRing DEF Ring
  <2> HIDE DEF to, capped
  <2>4. CASE YieldToUser(IF capped THEN "roundCap" ELSE "allPassed")
    BY <2>4 DEF YieldToUser, Halt, DeclareHostHalt, DeliverStagedIfPending, NoDrain, Stopped
  <2>5. CASE StartTurn(to) /\ to = NoOne
    BY <2>2, <2>5 DEF StartTurn, Stopped, Talking, TalkTypes
  <2>6. CASE StartTurn(to) /\ to # NoOne
    BY <1>4, <2>3, <2>6
  <2> QED
    BY <2>1, <2>4, <2>5, <2>6
<1> QED
  BY <1>2, <1>5, <1>6 DEF HandsOut

\* Nobody is dealt whose pump has still to clear its busy flag.
ClearedFirst == Deals => holder' \notin clearing

LEMMA AdvancedTalk ==
  ASSUME Talking, TalkTypes', RosterStands, ClearedFirst, AtBoundary, ~Waiting("HaltDeclared")',
         ~stagedPending, ~Parked, OthersRest, windingDown' = NoOne, haltedPendingUser' = FALSE,
         UNCHANGED <<pauseVars, stashedRelease, gateVars, deliveryVars>>,
         NEW userSpoke \in BOOLEAN, NEW queue \in Seq(Participants), NEW spoke, NEW tally,
         Advance(userSpoke, queue, spoke, tally)
  PROVE  TalkInv'
<1>1. epoch' = epoch + 1 /\ (Stopped \/ \E to \in Participants : DealtTo(to))
  BY AdvanceTalk DEF AtBoundary
<1>2. BoundaryKeeps
  BY <1>1 DEF BoundaryKeeps
<1>3. CASE Stopped
  BY <1>2, <1>3, StoppedTalk
<1>4. ASSUME NEW to \in Participants, DealtTo(to)
      PROVE  TalkInv'
  <2>1. to \notin clearing
    <3>1. holder' = to /\ to # NoOne /\ epoch' # epoch
      BY <1>1, <1>4 DEF DealtTo, Talking, TalkTypes
    <3> QED
      BY <3>1 DEF ClearedFirst, Deals
  <2> QED
    BY <1>2, <1>4, <2>1, DealtTalk
<1> QED
  BY <1>1, <1>3, <1>4

LEMMA UserReleasesTalk ==
  ASSUME Talking, TalkTypes', RosterStands, ClearedFirst, UserMessageReleases, OthersRest
  PROVE  TalkInv'
<1>1. /\ Dispatches("UserMessage") /\ deferred' = DeferredRest /\ rx' = RxRest /\ windingDown = NoOne
      /\ ReleaseRing(Next1.mentions) /\ UNCHANGED <<pauseVars, releaseVars, deliveryVars>>
  BY DEF UserMessageReleases, Consume
<1>2. /\ Next1 \in Command /\ Next1.type = "UserMessage" /\ drain = "none"
      /\ Tidy(Line)' /\ ~Waiting("UserMessage")' /\ Waiting("UserMessage")
      /\ \A other : other # "UserMessage" => (Waiting(other)' <=> Waiting(other))
  BY <1>1, Reading, Dispatchable DEF Talking, TalkInv
<1>3. /\ Serving = NoOne /\ ~Waiting("HaltDeclared") /\ haltSlot = "none" /\ deliveryDue = 0
      /\ ~stagedPending /\ sending = "idle"
  BY <1>2 DEF Talking, TalkInv, Releasings, Releasing
<1>4. ~Waiting("TurnComplete") /\ working = {} /\ \A p \in Participants : stdin[p] = 0
  BY <1>3 DEF Talking, TalkTypes, TalkInv, Turns
<1>5. busy \subseteq clearing /\ haltOwed = {}
  BY <1>3, <1>4 DEF Talking, TalkTypes, TalkInv, BusyTells, Halts
<1>6. AtBoundary
  BY <1>2, <1>3, <1>4, <1>5 DEF AtBoundary
<1>7. /\ haltedPendingUser' = FALSE /\ UNCHANGED gateVars /\ windingDown' = NoOne /\ ~Parked
      /\ UNCHANGED stashedRelease
  <2>1. haltedPendingUser' = FALSE /\ windingDown' = NoOne /\ UNCHANGED stashedRelease
    BY <1>1 DEF ReleaseRing, releaseVars
  <2>2. UNCHANGED gateVars /\ openGates = {} /\ ~latch
    BY <1>1 DEF ReleaseRing, ReseedGates, gateVars, Talking, TalkInv, Undisturbed
  <2> QED
    BY <2>1, <2>2 DEF Parked, gateVars
<1>8. summons \o Next1.mentions \in Seq(Participants)
  <2>1. Next1.mentions \in Seq(Participants)
    BY <1>2, CommandFields
  <2>2. summons \in Seq(Participants)
    BY DEF Talking, TalkTypes, DealTypeOK
  <2> QED
    BY <2>1, <2>2, ConcatProperties
<1>9. ~Waiting("HaltDeclared")'
  BY <1>2, <1>3
<1>10. Advance(TRUE, summons \o Next1.mentions, spokeThisLap, votes)
  BY <1>1 DEF ReleaseRing
<1> QED
  BY <1>1, <1>3, <1>6, <1>7, <1>8, <1>9, <1>10, AdvancedTalk

\* What a completion finds: the turn is over, and its halt, if it made one, is with the ring.
LEMMA CompletionFinds ==
  ASSUME Talking, Dispatches("TurnComplete"), deferred' = DeferredRest, rx' = RxRest
  PROVE  /\ Next1 \in Command /\ Next1.participant = Serving /\ Serving # NoOne
         /\ (holder # NoOne => Next1.epoch = epoch)
         /\ Items(Line)' \subseteq Items(Line)
         /\ drain = "none" /\ working = {} /\ haltOwed = {} /\ sending = "idle" /\ deliveryDue = 0
         /\ busy \subseteq clearing /\ (\A p \in Participants : stdin[p] = 0)
         /\ Tidy(Line)' /\ ~Waiting("UserMessage")' /\ ~Waiting("TurnComplete")'
         /\ ~Waiting("HaltDeclared") /\ ~Waiting("HaltDeclared")'
         /\ (Waiting("MessageStaged")' <=> Waiting("MessageStaged"))
         /\ (holder # NoOne => haltSlot = "none" /\ windingDown = NoOne /\ ~haltedPendingUser)
         /\ ~Releasing
<1>1. /\ Next1 \in Command /\ Next1.type = "TurnComplete" /\ Next1 \in Items(Line)
      /\ drain = "none" /\ Items(Line)' \subseteq Items(Line)
      /\ Tidy(Line)' /\ ~Waiting("TurnComplete")' /\ Waiting("TurnComplete")
      /\ \A other : other # "TurnComplete" => (Waiting(other)' <=> Waiting(other))
      /\ ~Waiting("HaltDeclared")
  BY Reading, Dispatchable DEF Talking, TalkInv, Later
<1>2. /\ Next1.participant = Serving /\ Serving # NoOne /\ (holder # NoOne => Next1.epoch = epoch)
      /\ stdin[Serving] = 0 /\ Serving \notin working
  <2>1. Next1.participant = Serving /\ (holder # NoOne => Next1.epoch = epoch) /\ Serving # NoOne
    BY <1>1 DEF Talking, TalkInv, Turns
  <2> QED
    BY <1>1, <2>1 DEF Talking, TalkInv, Turns, InOnePlace
<1>3. working = {} /\ \A p \in Participants : stdin[p] = 0
  BY <1>2 DEF Talking, TalkTypes, TalkInv, Turns
<1>4. busy \subseteq clearing /\ haltOwed = {}
  BY <1>1, <1>3 DEF Talking, TalkTypes, TalkInv, BusyTells, Halts
<1>5. ~Releasing
  BY <1>2 DEF Talking, TalkInv, Releasings
<1>6. sending = "idle" /\ deliveryDue = 0 /\ ~Waiting("UserMessage")
  BY <1>5 DEF Releasing, Talking, TalkTypes
<1>7. holder # NoOne => haltSlot = "none" /\ windingDown = NoOne /\ ~haltedPendingUser
  BY <1>1, <1>4 DEF Talking, TalkTypes, TalkInv, Halts
<1> QED
  BY <1>1, <1>2, <1>3, <1>4, <1>5, <1>6, <1>7

LEMMA LiveTalk ==
  ASSUME Talking, TalkTypes', RosterStands, ClearedFirst, OthersRest, NEW c \in {Next1},
         \/ CompletionConsensus(c) \/ CompletionAtStage(c) \/ CompletionSteps(c)
  PROVE  TalkInv'
<1>1. /\ LiveCompletion(c) /\ c = Next1 /\ rx' = RxRest
      /\ Dispatches("TurnComplete") /\ deferred' = DeferredRest /\ Live(c)
      /\ UNCHANGED <<pauseVars, stashedRelease, haltedPendingUser, deliveryVars>>
  BY DEF CompletionConsensus, CompletionAtStage, CompletionSteps, LiveCompletion
<1>2. /\ drain = "none" /\ working = {} /\ haltOwed = {} /\ sending = "idle" /\ deliveryDue = 0
      /\ busy \subseteq clearing /\ (\A p \in Participants : stdin[p] = 0)
      /\ Tidy(Line)' /\ ~Waiting("UserMessage")' /\ ~Waiting("TurnComplete")'
      /\ ~Waiting("HaltDeclared")'
      /\ (Waiting("MessageStaged")' <=> Waiting("MessageStaged"))
      /\ (holder # NoOne => haltSlot = "none" /\ windingDown = NoOne /\ ~haltedPendingUser)
      /\ Next1.participant = Serving /\ Serving # NoOne /\ Next1 \in Command
  BY <1>1, CompletionFinds
<1>3. holder # NoOne /\ c \in Command /\ c.type = "TurnComplete" /\ holder = c.participant
      /\ holder \in Participants
  <2>1. c \in Command /\ c.type = "TurnComplete"
    BY <1>1, <1>2 DEF Dispatches
  <2>2. holder = c.participant /\ holder # NoOne
    BY <1>1, <1>2 DEF Live
  <2> QED
    BY <2>1, <2>2 DEF Talking, TalkTypes, Someone
<1>4. AtBoundary
  BY <1>2, <1>3 DEF AtBoundary
<1>5. windingDown' = NoOne /\ haltedPendingUser' = FALSE
  BY <1>1, <1>2, <1>3 DEF LiveCompletion, ClearWindDown, Talking, TalkTypes
<1>6. CASE CompletionConsensus(c) \/ CompletionAtStage(c)
  <2>1. /\ Halt /\ DeliverStagedIfPending /\ NoDrain /\ UNCHANGED <<gateVars, busy, cell>>
        /\ haltSlot' = "consensus" \/ (stagedPending /\ UNCHANGED haltSlot)
    BY <1>6 DEF CompletionConsensus, YieldToUser, DeclareHostHalt, CompletionAtStage
  <2>2. BoundaryKeeps
    BY <1>1, <1>5, <2>1 DEF BoundaryKeeps, Halt
  <2>3. Stopped
    BY <1>2, <2>1 DEF Stopped, Halt, DeliverStagedIfPending, NoDrain
  <2> QED
    BY <1>4, <2>2, <2>3, StoppedTalk
<1>7. CASE CompletionSteps(c)
  <2>1. PICK tally : Advance(FALSE, summons, SpokeAfter(c), tally)
    BY <1>7 DEF CompletionSteps
  <2>2. ~stagedPending /\ UNCHANGED gateVars /\ ~Parked
    BY <1>5, <1>7 DEF CompletionSteps, ReseedGates, gateVars, Parked, Talking, TalkInv, Undisturbed
  <2>3. summons \in Seq(Participants)
    BY DEF Talking, TalkTypes, DealTypeOK
  <2> QED
    BY <1>1, <1>2, <1>4, <1>5, <2>1, <2>2, <2>3, AdvancedTalk
<1> QED
  BY <1>6, <1>7

LEMMA SpinsTalk ==
  ASSUME Talking, TalkTypes', OthersRest, NEW c \in {Next1}, CompletionSpins(c)
  PROVE  TalkInv'
<1> DEFINE h == [type |-> "HaltDeclared", participant |-> c.participant]
<1>1. /\ Dispatches("TurnComplete") /\ deferred' = DeferredRest /\ Live(c) /\ c = Next1
      /\ ClearWindDown(c) /\ SpinDetection
      /\ rx' = IF Len(RxRest) < RxCap THEN Append(RxRest, h) ELSE RxRest
      /\ Halt /\ haltSlot' = "participant" /\ DeliverStagedIfPending /\ NoDrain
      /\ UNCHANGED <<busy, cell, gateVars, pauseVars, stashedRelease, haltedPendingUser,
                     deliveryVars>>
  BY DEF CompletionSpins, LiveCompletion, YieldToUser, DeclareHostHalt
<1>2. /\ Line # <<>> /\ Next1 = Head(Line) /\ drain = "none"
      /\ deferred \in Seq(Command) /\ rx \in Seq(Command) /\ Line \in Seq(Command)
      /\ Next1 \in Command /\ Next1.type = "TurnComplete"
  BY <1>1, LineSteps, Dispatched DEF Talking, TalkTypes, Dispatches, HasCommand
<1>3. /\ Tidy(Tail(Line)) /\ Head(Line) \in Items(Line) /\ Tail(Line) \in Seq(Command)
      /\ Items(Line) = {Head(Line)} \cup Items(Tail(Line))
      /\ \A d \in Items(Tail(Line)) : d.type # "TurnComplete" /\ d.type # "HaltDeclared"
  <2>1. /\ Tidy(Tail(Line)) /\ Head(Line) \in Items(Line)
        /\ Items(Line) = {Head(Line)} \cup Items(Tail(Line))
        /\ \A d \in Items(Tail(Line)) : d.type # Head(Line).type /\ ~Later(Head(Line).type, d.type)
    BY <1>2, TidyTail DEF Talking, TalkInv
  <2>2. Tail(Line) \in Seq(Command)
    BY <1>2, HeadTailProperties
  <2> QED
    BY <1>2, <2>1, <2>2 DEF Later
<1>4. /\ c.participant = Serving /\ Serving # NoOne /\ holder = c.participant
      /\ stdin[Serving] = 0 /\ Serving \notin working /\ ~Releasing /\ NothingStaged
  <2>1. Waiting("TurnComplete")
    BY <1>2, <1>3 DEF Waiting
  <2>2. c.participant = Serving /\ Serving # NoOne
    BY <1>1, <1>2, <1>3, <2>1 DEF Talking, TalkInv, Turns
  <2>3. ~Releasing
    BY <2>2 DEF Talking, TalkInv, Releasings
  <2>4. NothingStaged
    BY <1>1 DEF Talking, TalkInv, OneOrTheOther, NobodyHalts
  <2> QED
    BY <1>1, <2>1, <2>2, <2>3, <2>4 DEF Talking, TalkInv, Turns, InOnePlace, Live
<1>5. h \in Command /\ h.type = "HaltDeclared" /\ h.type \in LineTypes
  BY <1>2, CommandFields DEF Command, Someone, LineTypes
<1> HIDE DEF h
<1>6. Line' = Append(Tail(Line), h)
  <2>1. /\ DeferredRest \o RxRest = Tail(Line)
        /\ DeferredRest \in Seq(Command) /\ RxRest \in Seq(Command)
    <3>1. HasCommand /\ RestTypeOK
      BY <1>1 DEF Dispatches, Talking, TalkTypes
    <3> QED
      BY <1>2, <3>1, LineSteps, ReadTypes DEF HasCommand
  <2>2. Len(RxRest) < RxCap
    <3>1. Len(Tail(Line)) <= 4
      BY <1>3, TidyIsShort
    <3>2. /\ Len(Tail(Line)) = Len(DeferredRest) + Len(RxRest)
          /\ Len(DeferredRest) \in Nat /\ Len(RxRest) \in Nat
      BY <2>1, ConcatProperties, LenProperties
    <3> QED
      BY <3>1, <3>2, BoundsAssumption DEF Talking, AtEase
  <2>3. <<h>> \in Seq(Command) /\ Append(RxRest, h) = RxRest \o <<h>>
        /\ Append(Tail(Line), h) = Tail(Line) \o <<h>>
    BY <1>3, <1>5, <2>1
  <2>4. DeferredRest \o (RxRest \o <<h>>) = Tail(Line) \o <<h>>
    <3>1. \A s1, s2, s3 \in Seq(Command) : s1 \o (s2 \o s3) = (s1 \o s2) \o s3
      BY ConcatAssociative
    <3>2. DeferredRest \o (RxRest \o <<h>>) = (DeferredRest \o RxRest) \o <<h>>
      BY <2>1, <2>3, <3>1
    <3> QED
      BY <2>1, <3>2
  <2>5. Line' = DeferredRest \o Append(RxRest, h)
    BY <1>1, <2>2 DEF Line
  <2> QED
    BY <2>3, <2>4, <2>5
<1>7. /\ Tidy(Line)' /\ Items(Line)' = Items(Tail(Line)) \cup {h}
      /\ ~Waiting("UserMessage")' /\ ~Waiting("TurnComplete")'
      /\ ~Waiting("MessageStaged") /\ ~Waiting("MessageStaged")'
  <2>1. \A d \in Items(Tail(Line)) : d.type # h.type /\ ~Later(d.type, h.type)
    BY <1>3, <1>5 DEF Later
  <2>2. /\ Tidy(Append(Tail(Line), h))
        /\ Items(Append(Tail(Line), h)) = Items(Tail(Line)) \cup {h}
    BY <1>3, <1>5, <2>1, TidyAppend
  <2>3. Tidy(Line)' /\ Items(Line)' = Items(Tail(Line)) \cup {h}
    BY <1>6, <2>2 DEF Tidy, Items
  <2>4. ~Waiting("UserMessage") /\ ~Waiting("MessageStaged")
    BY <1>4 DEF Releasing, NothingStaged
  <2>5. \A d \in Items(Tail(Line)) : d.type \notin {"UserMessage", "MessageStaged", "TurnComplete"}
    BY <1>3, <2>4 DEF Waiting
  <2> QED
    BY <1>5, <2>3, <2>4, <2>5 DEF Waiting
<1>8. AtBoundary
  <2>1. Waiting("TurnComplete") /\ ~Waiting("HaltDeclared")
    BY <1>2, <1>3 DEF Waiting
  <2>2. working = {} /\ \A p \in Participants : stdin[p] = 0
    BY <1>4 DEF Talking, TalkTypes, TalkInv, Turns
  <2>3. busy \subseteq clearing /\ haltOwed = {}
    BY <2>1, <2>2 DEF Talking, TalkTypes, TalkInv, BusyTells, Halts
  <2>4. haltSlot = "none"
    BY <1>4, <2>1, <2>3 DEF Talking, TalkInv, Halts, Serving
  <2>5. sending = "idle" /\ deliveryDue = 0
    BY <1>4 DEF Releasing, Talking, TalkTypes
  <2> QED
    BY <1>2, <1>7, <2>2, <2>3, <2>4, <2>5 DEF AtBoundary
<1>9. BoundaryKeeps
  <2>1. holder # NoOne /\ ~haltedPendingUser /\ windingDown = NoOne
    BY <1>4 DEF Talking, TalkTypes, TalkInv, Halts
  <2> QED
    BY <1>1, <2>1 DEF BoundaryKeeps, ClearWindDown, Halt, Talking, TalkTypes
<1>10. Stopped
  BY <1>1, <1>4 DEF Stopped, NothingStaged, Halt, DeliverStagedIfPending, NoDrain
<1> QED
  BY <1>8, <1>9, <1>10, StoppedTalk

\* The halted holder's completion: its turn is over, and the banner says so.
LEMMA DiscardedTalk ==
  ASSUME Talking, TalkTypes', OthersRest, NEW c \in {Next1}, CompletionDiscarded(c)
  PROVE  TalkInv'
<1>1. /\ Dispatches("TurnComplete") /\ deferred' = DeferredRest /\ rx' = RxRest /\ c = Next1
      /\ ~Live(c) /\ ClearWindDown(c)
      /\ UNCHANGED <<dealVars, pauseVars, gateVars, stashedRelease, haltedPendingUser,
                     deliveryVars>>
  BY DEF CompletionDiscarded, Consume
<1>2. /\ drain = "none" /\ working = {} /\ haltOwed = {} /\ sending = "idle" /\ deliveryDue = 0
      /\ busy \subseteq clearing /\ (\A p \in Participants : stdin[p] = 0)
      /\ Tidy(Line)' /\ ~Waiting("UserMessage")' /\ ~Waiting("TurnComplete")'
      /\ ~Waiting("HaltDeclared")'
      /\ (Waiting("MessageStaged")' <=> Waiting("MessageStaged"))
      /\ (holder # NoOne => Next1.epoch = epoch)
      /\ Next1.participant = Serving /\ Serving # NoOne /\ ~Releasing
  BY <1>1, CompletionFinds
<1>3. holder = NoOne /\ windingDown = c.participant /\ windingDown' = NoOne /\ Serving' = NoOne
      /\ holder' = NoOne
  <2>1. holder = NoOne
    BY <1>1, <1>2 DEF Live, Serving
  <2> QED
    BY <1>1, <1>2, <2>1 DEF ClearWindDown, Serving, dealVars
<1>4. haltSlot # "none" \/ Rotation = {}
  BY <1>2, <1>3 DEF Talking, TalkInv, Explained
<1>5. NothingStaged
  BY <1>2, <1>3 DEF Talking, TalkInv, OneOrTheOther, NobodyHalts, Serving
<1>6. Undisturbed' /\ OneOrTheOther'
  <2>1. Undisturbed'
    BY <1>1 DEF OthersRest, Talking, TalkInv, Undisturbed, dealVars, pauseVars, gateVars,
                deliveryVars, pumpVars
  <2>2. NothingStaged'
    BY <1>1, <1>2, <1>5 DEF NothingStaged, OthersRest, dealVars
  <2> QED
    BY <2>1, <2>2 DEF OneOrTheOther
<1>7. Turns' /\ Epochs' /\ BusyTells' /\ Halts'
  <2>1. \A d \in Items(Line)' : d.type \notin {"TurnComplete", "HaltDeclared"}
    BY <1>2 DEF Waiting
  <2>2. Turns'
    BY <1>1, <1>2, <1>3, <2>1 DEF Turns, OthersRest, dealVars, deliveryVars, pumpVars
  <2>3. Epochs'
    BY <1>1, <1>3 DEF Epochs, OthersRest, dealVars, pumpVars, Talking, TalkInv
  <2>4. BusyTells'
    BY <1>1, <1>2, <1>3 DEF BusyTells, OthersRest, dealVars, pumpVars, Talking, TalkTypes
  <2>5. Halts'
    BY <1>1, <1>2, <1>3 DEF Halts, OthersRest, dealVars, pumpVars
  <2> QED
    BY <2>2, <2>3, <2>4, <2>5
<1>8. Releasings' /\ Explained'
  BY <1>1, <1>2, <1>3, <1>4, <1>5
     DEF Releasings, Releasing, Explained, NothingStaged, OthersRest, dealVars, Rotation
<1> QED
  BY <1>2, <1>6, <1>7, <1>8 DEF TalkInv

LEMMA RingTalk ==
  ASSUME Talking, TalkTypes', RosterStands, ClearedFirst, RingTurn
  PROVE  TalkInv'
<1>1. RingStep /\ OthersRest
  BY RingTurnFrame
<1>2. TalkArms
  BY <1>1, TalkReaches
<1> QED
  BY <1>1, <1>2, LiveTalk, SpinsTalk, DiscardedTalk, UserReleasesTalk, MessageStagedTalk,
     HaltDeclaredTalk, DrainEmptyTalk, DrainReadsTalk, DrainLandsTalk
     DEF TalkArms

LEMMA TalkAtFirst ==
  ASSUME AtEase, SessionInit, TalkTypes
  PROVE  TalkInv
<1> DEFINE c == [type |-> "UserMessage", mentions |-> <<>>]
<1>1. /\ holder = NoOne /\ windingDown = NoOne /\ deferred = <<>> /\ rx = <<c>>
      /\ c.type = "UserMessage"
  BY DEF SessionInit, RingInit
<1> HIDE DEF c
<1>2. Line = <<c>>
  <2>1. <<c>> \in Seq({c})
    OBVIOUS
  <2> QED
    BY <1>1, <2>1, ConcatEmptySeq DEF Line
<1>3. /\ DOMAIN Line = {1} /\ Line[1] = c /\ Items(Line) = {c}
  BY <1>2 DEF Items
<1>4. Tidy(Line)
  BY <1>1, <1>3 DEF Tidy, LineTypes
<1>5. /\ Waiting("UserMessage") /\ ~Waiting("TurnComplete") /\ ~Waiting("HaltDeclared")
      /\ ~Waiting("MessageStaged") /\ Serving = NoOne
  BY <1>1, <1>3 DEF Waiting, Serving
<1>6. Undisturbed
  <2>1. alive = Participants /\ \A p \in Participants : input[p] = "open"
    <3>1. Budget["join"] = 0
      BY DEF AtEase, Spared
    <3> QED
      BY <3>1 DEF SessionInit
  <2>2. \A k \in Spared : left[k] = 0
    BY DEF SessionInit, AtEase
  <2>3. ~gateSeedFailed
    BY DEF SessionInit, RingInit, MayFail, AtEase
  <2> QED
    BY <2>1, <2>2, <2>3 DEF SessionInit, RingInit, PumpInit, Undisturbed, NoStash
<1>7. OneOrTheOther
  BY <1>5 DEF SessionInit, RingInit, PumpInit, AtEase, OneOrTheOther, NothingStaged, NobodyHalts
<1>8. Turns /\ Epochs
  <2>1. Turns
    BY <1>1, <1>3, <1>5 DEF Turns, SessionInit, RingInit, PumpInit
  <2>2. Epochs
    BY DEF Epochs, SessionInit, RingInit, PumpInit, NoEpoch
  <2> QED
    BY <2>1, <2>2
<1>9. BusyTells /\ Halts
  BY <1>1, <1>3, <1>5, NoOneIsNotHere DEF BusyTells, Halts, SessionInit, RingInit, PumpInit
<1>10. Releasings /\ Explained
  BY <1>5 DEF Releasings, Releasing, Explained, SessionInit, RingInit
<1> QED
  BY <1>4, <1>6, <1>7, <1>8, <1>9, <1>10 DEF TalkInv

LEMMA IdleTalk ==
  ASSUME Talking, UNCHANGED allVars
  PROVE  TalkInv'
<1>1. UNCHANGED <<ringVars, sharedVars, worldVars, pumpVars, appVars, left>>
  BY DEF allVars, vars
<1>2. /\ Items(Line)' = Items(Line) /\ (Tidy(Line)' <=> Tidy(Line))
      /\ \A type : Waiting(type)' <=> Waiting(type)
  BY <1>1, LineStands DEF ringVars, sharedVars
<1>3. Serving' = Serving
  BY <1>1 DEF ringVars, Serving
<1>4. Undisturbed' /\ OneOrTheOther'
  <2>1. Undisturbed'
    BY <1>1 DEF Talking, TalkInv, Undisturbed, ringVars, sharedVars, worldVars, pumpVars, appVars
  <2> QED
    BY <1>1, <1>2, <2>1 DEF Talking, TalkInv, OneOrTheOther, NothingStaged, NobodyHalts, ringVars,
                            sharedVars, pumpVars, appVars
<1>5. Turns' /\ Epochs' /\ BusyTells' /\ Halts'
  BY <1>1, <1>2, <1>3 DEF Talking, TalkInv, Turns, InOnePlace, Epochs, BusyTells, Halts, ringVars,
                          sharedVars, pumpVars
<1>6. Releasings' /\ Explained'
  BY <1>1, <1>2, <1>3 DEF Talking, TalkInv, Releasings, Releasing, Explained, Rotation, ringVars,
                          sharedVars, worldVars, appVars
<1> QED
  BY <1>2, <1>4, <1>5, <1>6 DEF Talking, TalkInv

\* Every behaviour of such a session in which a participant is not dealt again before its pump has
\* cleared the busy flag of its last turn.
TalkSpec == SessionSpec /\ [][ClearedFirst]_allVars

LEMMA TalkInvariance == AtEase => (TalkSpec => []Talking)
<1>1. AtEase /\ SessionInit /\ SessionInv => Talking
  BY TalkTyped, TalkAtFirst DEF Talking
<1>2. ASSUME Talking, SessionInv', RosterStands, [SessionNext]_allVars, [ClearedFirst]_allVars
      PROVE  Talking'
  <2>1. TalkTypes'
    BY <1>2, TalkTypedNext
  <2>2. AtEase'
    BY <1>2 DEF Talking, AtEase
  <2>3. CASE UNCHANGED allVars
    <3>1. TalkInv'
      BY <1>2, <2>3, IdleTalk
    <3> QED
      BY <2>1, <2>2, <3>1 DEF Talking
  <2>4. CASE SessionNext /\ ClearedFirst
    <3>1. TalkInv'
      BY <1>2, <2>1, <2>4, RingTalk, OthersTalk DEF SessionNext
    <3> QED
      BY <2>1, <2>2, <3>1 DEF Talking
  <2> QED
    BY <1>2, <2>3, <2>4
<1> QED
  BY <1>1, <1>2, SessionInvariance, RosterInvariance, PTL DEF TalkSpec, SessionSpec

\* At rest nobody has the turn: a turn is in the ring's hands, in a pump's or in a process's.
LEMMA RestsWithoutATurn ==
  ASSUME Talking, Settled
  PROVE  Serving = NoOne /\ holder = NoOne /\ \A type : ~Waiting(type)
<1>1. \A type : ~Waiting(type)
  <2>1. Line = <<>>
    BY ConcatEmptySeq DEF Settled, Line
  <2> QED
    BY <2>1, EmptySeq DEF Waiting, Items
<1>2. ASSUME Serving # NoOne
      PROVE  FALSE
  <2>1. InOnePlace(Serving) /\ Serving \in Participants /\ alive = Participants
    BY <1>2 DEF Talking, TalkTypes, TalkInv, Turns, Undisturbed, Serving, Someone
  <2>2. drain = "none" /\ stdin[Serving] = 0 /\ Serving \notin working
    BY <2>1 DEF Settled
  <2> QED
    BY <1>1, <2>1, <2>2 DEF InOnePlace
<1> QED
  BY <1>1, <1>2 DEF Serving

\* A session that is talked to at leisure (RestsOnlyVisibly): whenever every task has come to
\* rest, nobody holds the turn and the banner is up, or nobody is in the rotation.  For every
\* roster, round cap, number of messages, mentions, halts or staged messages.
THEOREM RestIsVisible == AtEase => (TalkSpec => []RestsOnlyVisibly)
<1>1. Talking => RestsOnlyVisibly
  <2>1. SUFFICES ASSUME Talking, Settled
                 PROVE  holder = NoOne /\ VisibleReason /\ held = <<>> /\ ~stashedRelease.some
    BY DEF RestsOnlyVisibly
  <2>2. holder = NoOne /\ ~Waiting("UserMessage")
    BY <2>1, RestsWithoutATurn
  <2>3. held = <<>> /\ ~stashedRelease.some /\ alive = Participants
    BY <2>1 DEF Talking, TalkInv, Undisturbed
  <2>4. ~Releasing
    BY <2>1, <2>2, <2>3 DEF Settled, Releasing, Talking, TalkTypes
  <2>5. haltSlot # "none" \/ Rotation = {}
    BY <2>1, <2>2, <2>4 DEF Talking, TalkInv, Explained
  <2> QED
    BY <2>2, <2>3, <2>5 DEF VisibleReason, BannerUp
<1> QED
  BY <1>1, TalkInvariance, PTL

\* At that rest every busy flag is down, so the box is unlocked (StoppedRingIsNotBusy): the flag
\* a turn puts up comes down with its report, or with the ring's passing on of an empty one.
THEOREM RestIsUnlocked == AtEase => (TalkSpec => []StoppedRingIsNotBusy)
<1>1. Talking => StoppedRingIsNotBusy
  <2>1. SUFFICES ASSUME Talking, Settled PROVE busy = {}
    BY DEF StoppedRingIsNotBusy
  <2>2. Serving = NoOne /\ clearing = {}
    BY <2>1, RestsWithoutATurn DEF Settled
  <2> QED
    BY <2>1, <2>2 DEF Talking, TalkTypes, TalkInv, BusyTells
<1> QED
  BY <1>1, TalkInvariance, PTL

\* No turn is handed out under a banner the ring was told of (NoDealUnderAHalt): here under no
\* banner at all, since the user's message takes it down before it releases the ring, and a halt
\* reaches the ring ahead of the completion of its own turn.
THEOREM HaltsAreHeeded == AtEase => (TalkSpec => NoDealUnderAHalt)
<1>1. ASSUME Talking, SessionInv, [SessionNext]_allVars, Deals
      PROVE  haltSlot = "none"
  <2>1. RingTurn
    <3>1. holder' # NoOne /\ epoch' # epoch
      BY <1>1 DEF Deals
    <3>2. ~(SessionStep /\ UNCHANGED ringVars)
      BY <3>1 DEF ringVars
    <3>3. ~UNCHANGED allVars
      BY <3>1 DEF allVars, vars, ringVars
    <3> QED
      BY <1>1, <3>2, <3>3, OthersFrame DEF SessionNext
  <2>2. TalkArms
    BY <1>1, <2>1, TalkReaches, RingTurnFrame
  <2>3. holder' # NoOne /\ epoch' # epoch
    BY <1>1 DEF Deals
  <2>4. CASE UserMessageReleases
    <3>1. Waiting("UserMessage")
      BY <1>1, <2>4, Dispatchable DEF UserMessageReleases
    <3> QED
      BY <1>1, <3>1 DEF Talking, TalkInv, Releasings
  <2>5. ASSUME NEW c \in {Next1}, CompletionSteps(c)
        PROVE  haltSlot = "none"
    <3>1. /\ Dispatches("TurnComplete") /\ deferred' = DeferredRest /\ rx' = RxRest
          /\ Next1.participant = holder
      BY <2>5 DEF CompletionSteps, LiveCompletion, Live
    <3> QED
      BY <1>1, <3>1, CompletionFinds
  <2>6. \A c \in {Next1} : ~CompletionConsensus(c) /\ ~CompletionSpins(c) /\ ~CompletionAtStage(c)
                           /\ ~CompletionDiscarded(c)
    BY <2>3 DEF CompletionConsensus, CompletionSpins, CompletionAtStage, CompletionDiscarded,
                YieldToUser, Halt, dealVars
  <2>7. ~MessageStaged /\ ~HaltDeclared
    BY <2>3 DEF MessageStaged, HaltDeclared, Halt
  <2>8. ~DrainEmpty /\ ~DrainReadsCommand /\ ~DrainLands
    BY <2>3 DEF DrainEmpty, DrainReadsCommand, DrainLands
  <2> QED
    BY <2>2, <2>4, <2>5, <2>6, <2>7, <2>8 DEF TalkArms
<1>2. Talking /\ SessionInv /\ [SessionNext]_allVars => [Deals => haltSlot = "none" \/ HaltUnheard]_allVars
  BY <1>1
<1> QED
  BY <1>2, TalkInvariance, SessionInvariance, PTL DEF TalkSpec, SessionSpec, NoDealUnderAHalt
=============================================================================
