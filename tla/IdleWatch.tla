------------------------------ MODULE IdleWatch ------------------------------
(***************************************************************************)
(* The session's watchdog (core/watchdog.rs).  Every POLL_INTERVAL it flags *)
(* an executor that is silent in its turn as stalled, and looks whether the *)
(* session sits idle with nothing declared: after a grace it shows a chip   *)
(* and nudges the executor once per user message, and if the nudge changed  *)
(* nothing it fills the halt slot itself.  Between its reads and what it    *)
(* does, the user, the ring and the processes go on.                        *)
(* Time passes in polls.  The peer stands for every other participant.      *)
(***************************************************************************)
EXTENDS Integers

CONSTANTS
  GracePolls,     \* IDLE_GRACE in polls
  StallPolls,     \* STALL_THRESHOLD in polls
  MaxPrompts,     \* bound: messages of the user
  MaxIncidents,   \* bound: Stops, retries, deaths and restarts
  MaxWatchFaults  \* bound: storage faults that the watchdog meets

ASSUME IdleWatchAssumption ==
  {GracePolls, StallPolls, MaxPrompts, MaxIncidents, MaxWatchFaults} \subseteq Nat

VARIABLES
  turnAt,         \* whose busy flag is up
  toolOut,        \* the executor's turn waits for a tool's result
  quiet,          \* polls since the executor's last event
  pumpUp,         \* the executor's pump runs
  health,         \* its health as the bridge has cached it
  declared,       \* the halt slot is filled
  trayPending, awaitingFlag,
  heldBack,       \* a Stop is settling or the pause latch is set
  prompts,        \* user_broadcasts
  uncounted,      \* a message has gone out and is not yet counted
  ringWoken,      \* a command that makes the ring deal is on its way to it
  idleFor,        \* polls since the session was first seen idle, NotIdle when it was not
  nudgedAt,       \* the count at which the last nudge was decided
  chip,
  poll,           \* where the watchdog's poll stands
  seen,           \* what this poll has read: the count, and whether a tray row is pending
  incidents, watchFaults

idleWatchVars == <<turnAt, toolOut, quiet, pumpUp, health, declared, trayPending, awaitingFlag,
                   heldBack, prompts, uncounted, ringWoken, idleFor, nudgedAt, chip, poll,
                   seen, incidents, watchFaults>>
executorVars == <<toolOut, quiet, pumpUp, health>>
watchVars == <<idleFor, nudgedAt, chip, poll, seen>>
promptVars == <<prompts, uncounted>>

NotIdle == -1
NotNudged == -1
Down == {"dead", "retrying", "stalled"}

IdleWatchTypeOK ==
  /\ turnAt \in {"nobody", "executor", "peer"}
  /\ health \in Down \cup {"none", "running"}
  /\ quiet \in 0..(StallPolls + 1)
  /\ {toolOut, pumpUp, declared, trayPending, awaitingFlag, heldBack, uncounted, ringWoken, chip}
       \subseteq BOOLEAN
  /\ prompts \in 0..MaxPrompts
  /\ idleFor \in NotIdle..GracePolls /\ nudgedAt \in NotNudged..MaxPrompts
  /\ poll \in {"asleep", "slot", "nudging", "declaring"}
  /\ seen \in [prompts : 0..MaxPrompts, tray : BOOLEAN]
  /\ incidents \in 0..MaxIncidents /\ watchFaults \in 0..MaxWatchFaults

NothingSeen == [prompts |-> 0, tray |-> FALSE]

IdleWatchInit ==
  /\ turnAt = "nobody" /\ toolOut = FALSE /\ quiet = 0 /\ pumpUp = TRUE /\ health = "none"
  /\ declared = FALSE /\ trayPending = FALSE /\ awaitingFlag = FALSE /\ heldBack = FALSE
  /\ prompts = 0 /\ uncounted = FALSE /\ ringWoken = FALSE
  /\ idleFor = NotIdle /\ nudgedAt = NotNudged /\ chip = FALSE /\ poll = "asleep"
  /\ seen = NothingSeen
  /\ incidents = 0 /\ watchFaults = 0
-----------------------------------------------------------------------------
(* The watchdog *)

\* SessionActivity::derive: what the tracker says when it says Idle.
LooksIdle == ~heldBack /\ ~awaitingFlag /\ turnAt = "nobody"

\* stall_decision.  Retrying and dead are the supervisor's.
StallDecision(silence) ==
  LET stalledNow == turnAt = "executor" /\ ~toolOut /\ silence > StallPolls
  IN IF health \in {"none", "running"} /\ stalledNow THEN "stalled"
     ELSE IF health = "stalled" /\ ~stalledNow THEN "running"
     ELSE health

Capped(n, bound) == IF n > bound THEN bound ELSE n

WatchUnchanged ==
  UNCHANGED <<turnAt, toolOut, pumpUp, trayPending, heldBack, promptVars, incidents>>

Faulty == watchFaults < MaxWatchFaults /\ watchFaults' = watchFaults + 1

\* A poll interval is over.  The executor's health is judged while its pump runs; a session that
\* is idle long enough and has had a message is looked at, and any other loses its chip.
WakesToPoll ==
  LET silence == Capped(quiet + 1, StallPolls + 1)
      since == IF LooksIdle THEN Capped(idleFor + 1, GracePolls) ELSE NotIdle
      candidate == since = GracePolls /\ prompts > 0
  IN /\ poll = "asleep"
     /\ quiet' = silence
     /\ health' = IF pumpUp THEN StallDecision(silence) ELSE health
     /\ idleFor' = since
     /\ \/ /\ candidate
           /\ \/ seen' = [prompts |-> prompts, tray |-> trayPending] /\ UNCHANGED watchFaults
              \/ Faulty /\ seen' = [prompts |-> prompts, tray |-> TRUE]
           /\ poll' = "slot" /\ UNCHANGED chip
        \/ /\ ~candidate /\ chip' = FALSE
           /\ UNCHANGED <<poll, seen, watchFaults>>
     /\ UNCHANGED <<declared, awaitingFlag, ringWoken, nudgedAt>> /\ WatchUnchanged

\* Mutant of Decision: once the nudge is spent, the chip is all there is.
DecisionWithoutDeclaring(anomaly) ==
  IF anomaly /\ nudgedAt # seen.prompts /\ health \notin Down /\ LooksIdle
  THEN "nudging" ELSE "asleep"

\* idle_unflagged_decision, and the second look before anything is sent.
Decision(anomaly) ==
  IF ~anomaly \/ ~LooksIdle THEN "asleep"
  ELSE IF nudgedAt = seen.prompts THEN "declaring"
  ELSE IF health \in Down THEN "asleep"
  ELSE "nudging"

\* The slot is read, a fault counts as a halt, and the rest follows without another await.
ReadsTheSlot ==
  /\ poll = "slot"
  /\ \E slot \in BOOLEAN :
       /\ \/ slot = declared /\ UNCHANGED watchFaults
          \/ slot /\ Faulty
       /\ LET anomaly == ~seen.tray /\ ~slot
          IN chip' = anomaly /\ poll' = Decision(anomaly)
  /\ nudgedAt' = IF poll' = "nudging" THEN seen.prompts ELSE nudgedAt
  /\ seen' = NothingSeen
  /\ UNCHANGED <<quiet, health, declared, awaitingFlag, ringWoken, idleFor>>
  /\ WatchUnchanged

\* deliver_idle_nudge: without its row there is no wake, and a full channel loses it.
Nudges ==
  /\ poll = "nudging"
  /\ poll' = "asleep"
  /\ \/ ringWoken' = TRUE /\ UNCHANGED watchFaults
     \/ Faulty /\ UNCHANGED ringWoken
  /\ UNCHANGED <<quiet, health, declared, awaitingFlag, idleFor, nudgedAt, chip, seen>>
  /\ WatchUnchanged

\* mark_awaiting_user_for: the slot, and the flag whether or not the slot was written.
DeclaresTheWedge ==
  /\ poll = "declaring"
  /\ poll' = "asleep"
  /\ awaitingFlag' = TRUE
  /\ \/ declared' = TRUE /\ UNCHANGED watchFaults
     \/ Faulty /\ UNCHANGED declared
  /\ UNCHANGED <<quiet, health, ringWoken, idleFor, nudgedAt, chip, seen>>
  /\ WatchUnchanged
-----------------------------------------------------------------------------
(* The session: the ring, its turns, the user, the processes *)

WatchIsElsewhere == UNCHANGED <<watchVars, watchFaults>>
Incident == incidents < MaxIncidents /\ incidents' = incidents + 1

\* The ring takes a command and deals, or finds that it has nothing to deal.
RingHears ==
  /\ ringWoken
  /\ ringWoken' = FALSE
  /\ \/ UNCHANGED <<turnAt, toolOut>>
     \/ /\ turnAt = "nobody" /\ ~trayPending
        /\ turnAt' \in {"peer"} \cup (IF pumpUp THEN {"executor"} ELSE {})
        /\ toolOut' = FALSE
  /\ UNCHANGED <<quiet, pumpUp, health, declared, trayPending, awaitingFlag, heldBack, promptVars,
                 incidents>>
  /\ WatchIsElsewhere

\* The executor says something, calls a tool or has its result.
ExecutorEvent ==
  /\ turnAt = "executor"
  /\ quiet' = 0
  /\ toolOut' \in BOOLEAN
  /\ UNCHANGED <<turnAt, pumpUp, health, declared, trayPending, awaitingFlag, heldBack, promptVars,
                 ringWoken, incidents>>
  /\ WatchIsElsewhere

\* A turn ends: with a halt, with a question or a gate, or with neither, and its completion may
\* be lost on the ring.  A good turn of an executor that was retried shows that it is back.
TurnIsOver ==
  /\ turnAt # "nobody"
  /\ turnAt' = "nobody"
  /\ IF turnAt = "executor"
     THEN /\ quiet' = 0 /\ toolOut' = FALSE
          /\ health' \in {health} \cup (IF health = "retrying" THEN {"running"} ELSE {})
     ELSE UNCHANGED <<quiet, toolOut, health>>
  /\ \/ ringWoken' \in {ringWoken, TRUE} /\ UNCHANGED <<declared, trayPending, awaitingFlag>>
     \/ declared' = TRUE /\ awaitingFlag' = TRUE /\ UNCHANGED <<ringWoken, trayPending>>
     \/ /\ trayPending' = TRUE /\ awaitingFlag' \in {awaitingFlag, TRUE}
        /\ UNCHANGED <<ringWoken, declared>>
  /\ UNCHANGED <<pumpUp, heldBack, promptVars, incidents>>
  /\ WatchIsElsewhere

\* user_responded: banner, flag and pause go, the ring is released, though a full channel loses
\* the release ...
UserPrompts ==
  /\ pumpUp /\ ~uncounted /\ prompts < MaxPrompts
  /\ uncounted' = TRUE
  /\ declared' = FALSE /\ awaitingFlag' = FALSE /\ heldBack' = FALSE
  /\ ringWoken' \in {ringWoken, TRUE}
  /\ UNCHANGED <<turnAt, executorVars, trayPending, prompts, incidents>>
  /\ WatchIsElsewhere

\* ... and then the message is counted.
PromptIsCounted ==
  /\ uncounted
  /\ uncounted' = FALSE /\ prompts' = prompts + 1
  /\ UNCHANGED <<turnAt, executorVars, declared, trayPending, awaitingFlag, heldBack, ringWoken,
                 incidents>>
  /\ WatchIsElsewhere

UserStops ==
  /\ Incident
  /\ heldBack' = TRUE
  /\ UNCHANGED <<turnAt, executorVars, declared, trayPending, awaitingFlag, promptVars, ringWoken>>
  /\ WatchIsElsewhere

UserResumes ==
  /\ heldBack
  /\ heldBack' = FALSE
  /\ ringWoken' \in {ringWoken, TRUE}
  /\ UNCHANGED <<turnAt, executorVars, declared, trayPending, awaitingFlag, promptVars, incidents>>
  /\ WatchIsElsewhere

\* The answer to the last open row wakes the ring, or finds it busy and does not.
TrayIsAnswered ==
  /\ trayPending
  /\ trayPending' = FALSE /\ awaitingFlag' = FALSE
  /\ ringWoken' \in {ringWoken, TRUE}
  /\ UNCHANGED <<turnAt, executorVars, declared, heldBack, promptVars, incidents>>
  /\ WatchIsElsewhere

ExecutorRetries ==
  /\ Incident /\ turnAt = "executor"
  /\ health' = "retrying"
  /\ UNCHANGED <<turnAt, toolOut, quiet, pumpUp, declared, trayPending, awaitingFlag, heldBack,
                 promptVars, ringWoken>>
  /\ WatchIsElsewhere

\* Its pump ends: dead, and a halt if it had begun its turn.
ExecutorDies ==
  /\ Incident /\ pumpUp
  /\ pumpUp' = FALSE /\ health' = "dead"
  /\ IF turnAt = "executor"
     THEN /\ turnAt' = "nobody"
          /\ \/ declared' = TRUE /\ awaitingFlag' = TRUE
             \/ UNCHANGED <<declared, awaitingFlag>>
     ELSE UNCHANGED <<turnAt, declared, awaitingFlag>>
  /\ UNCHANGED <<toolOut, quiet, trayPending, heldBack, promptVars, ringWoken>>
  /\ WatchIsElsewhere

\* The roster is spawned again with a new ring, tracker and watchdog, which counts the user's
\* messages from their rows; if that read fails it starts disarmed.  The old executor's pump
\* reports dead as it goes, with a halt if it had begun a turn, and within one run of the host
\* nothing takes the report back.  A start of the host forgets what the bridge had cached and
\* declares the turn it cut.
RespawnRoster(host) ==
  /\ (IF pumpUp THEN Incident ELSE UNCHANGED incidents) /\ ~uncounted
  /\ pumpUp' = TRUE /\ toolOut' = FALSE /\ quiet' = 0 /\ turnAt' = "nobody"
  /\ awaitingFlag' = FALSE /\ heldBack' = FALSE /\ ringWoken' = FALSE
  /\ \/ UNCHANGED <<prompts, watchFaults>>
     \/ prompts' = 0 /\ Faulty
  /\ IF host
     THEN /\ health' = "none" /\ chip' = FALSE
          /\ declared' = (declared \/ turnAt # "nobody")
     ELSE /\ health' = "dead" /\ UNCHANGED chip
          /\ declared' \in {declared, declared \/ turnAt # "nobody"}
  /\ idleFor' = NotIdle /\ nudgedAt' = NotNudged /\ poll' = "asleep"
  /\ seen' = NothingSeen
  /\ UNCHANGED <<trayPending, uncounted>>

WatchTask == WakesToPoll \/ ReadsTheSlot \/ Nudges \/ DeclaresTheWedge

IdleWatchNext ==
  \/ WakesToPoll \/ ReadsTheSlot \/ Nudges \/ DeclaresTheWedge
  \/ RingHears \/ ExecutorEvent \/ TurnIsOver
  \/ UserPrompts \/ PromptIsCounted \/ UserStops \/ UserResumes \/ TrayIsAnswered
  \/ ExecutorRetries \/ ExecutorDies
  \/ \E host \in BOOLEAN : RespawnRoster(host)

\* The watchdog's timer always comes round; nothing else need ever happen.
IdleWatchFairness == WF_idleWatchVars(WatchTask)
IdleWatchSpec == IdleWatchInit /\ [][IdleWatchNext]_idleWatchVars
-----------------------------------------------------------------------------
\* Nobody works, nobody asks and nothing says so, though the user has given the session work.
Wedged ==
  /\ LooksIdle /\ prompts > 0
  /\ ~trayPending /\ ~declared
  /\ health \notin {"dead", "retrying"}

\* A session does not stay wedged: with its executor not marked down, silence is broken by a turn
\* or declared on the screen, however often a nudge or a row is lost, whatever the user does in
\* the middle of a poll and across respawns (run_stall_watchdog: "the net stops detecting and
\* DECLARES").
WedgeIsDeclared == []<>~Wedged
=============================================================================
