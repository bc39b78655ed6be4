---------------------------- MODULE MCRingSession ----------------------------
(* Small instances of RingSession for TLC. *)
EXTENDS RingProperties, FiniteSetsExt

Two == {1, 2}
Nobody == {}
Three == {1, 2, 3}
TheThird == {3}
AllOutcomes == {<<"Passed", TRUE>>} \cup {"Spoke", "Done"} \X BOOLEAN
Posting == Endings \X {TRUE}
Talk == {<<"Spoke", TRUE>>, <<"Passed", TRUE>>}
QuietDone == Talk \cup {<<"Done", FALSE>>}
NoGates == {}
OneGate == {"g"}

Once(kinds) == [k \in Kinds |-> IF k \in kinds THEN 1 ELSE 0]

RestBudget == Once({"message", "stage", "halt"})
TalkBudget == Once({"prompt", "gate"})
WorldBudget == Once({"gapMessage", "mention", "stop", "resume", "stage", "unstage", "halt", "error",
                     "death", "join"})
FaultBudget == Once({"halt"})
LiveBudget == Once({"stage", "halt", "death"})
SummonBudget == Once({"message", "mention", "error", "halt"})
DeathBudget == Once({"death"})
AnswerBudget == Once({"halt", "gate"})
StopBudget == Once({"prompt", "stop"})
GapBudget == Once({"gapMessage"})

\* The world run follows every pair of inputs, and the three that bring a pause between a held
\* release and the end of its grace.
Spent == MapThenSumSet(LAMBDA k : Budget[k] - left[k], Kinds)
FewInputs ==
  \/ Spent <= 2
  \/ Spent = 3 /\ \A k \in {"halt", "stage", "stop"} : left[k] = 0

\* Epochs are compared for equality and a new one is larger than every one in use, so states
\* that differ only by an order-preserving renaming of the nonzero epochs behave alike.  The
\* view replaces every epoch by its rank among those in use.
\* Interrupts are told apart from errors only while errors are left.
Erring == IF left["error"] = 0 THEN {} ELSE Participants

Tags(queue) == {queue[i].epoch : i \in {j \in DOMAIN queue : queue[j].type = "TurnComplete"}}
EpochsInUse ==
  {0, epoch} \cup {cell[p] : p \in Participants} \cup {turnEpoch[p] : p \in Participants}
    \cup {lastCompleted[p] : p \in Participants} \cup {interruptedEpoch[p] : p \in Erring}
    \cup Tags(rx) \cup Tags(deferred) \cup Tags(held)

Ranked ==
  LET inUse == EpochsInUse \ {NoEpoch}
      Rank(e) == IF e = NoEpoch THEN NoEpoch ELSE Cardinality({x \in inUse : x < e})
      RankAll(f) == [p \in Participants |-> Rank(f[p])]
      RankQueue(q) == [i \in DOMAIN q |->
        IF q[i].type = "TurnComplete" THEN [q[i] EXCEPT !.epoch = Rank(@)] ELSE q[i]]
  IN <<Rank(epoch), RankAll(cell), RankAll(turnEpoch), RankAll(lastCompleted),
       [p \in Erring |-> Rank(interruptedEpoch[p])], RankQueue(rx),
       RankQueue(deferred), RankQueue(held),
       holder, paused, laps, summons, anchor, spokeThisLap, stagedPending, releaseVars,
       haltedPendingUser, gateVars, drain, batch, graceArmed,
       unread, stdin, votes, busy, haltSlot, deliveryDue, input, worldVars,
       alive, working, interrupted, interruptDue, clearing, haltOwed, retry, appVars, left,
       silent, dealt>>
=============================================================================
