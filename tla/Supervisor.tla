----------------------------- MODULE Supervisor -----------------------------
(***************************************************************************)
(* The retry supervisor of one participant (agents/spawn.rs): stable input  *)
(* and event channels outside, one process at a time inside.  A process     *)
(* that ends on a transient upstream error is resumed after a backoff and   *)
(* told to continue; anything else ends the supervisor.                     *)
(*                                                                         *)
(* Inside an incarnation three tasks race: the reader of its stdout, the    *)
(* watcher of its exit and the writer of its stdin.  The first two send     *)
(* events, and the channel closes when both are done.                       *)
(***************************************************************************)
EXTENDS Integers, Sequences

CONSTANTS
  MaxRetries,     \* policy.max_retries
  MaxTurns,       \* bound: results one process writes
  MaxLines,       \* bound: lines the application queues
  MaxRespawns     \* bound: processes started after the first

ASSUME SupervisorAssumption ==
  /\ MaxRetries \in Nat
  /\ MaxTurns \in Nat
  /\ MaxLines \in Nat
  /\ MaxRespawns \in Nat

\* How a turn's result reads: fine, an error with an upstream status worth a retry, or an error
\* with another status or none.
Results == {"ok", "transient", "permanent"}
NoResult == "none"
ExitNotice == "exited"
Nudge == 0          \* the continue-nudge; the application's lines are 1..MaxLines

VARIABLES
  process,        \* the current child: running or not
  written,        \* results in its stdout, not yet read
  writes,         \* how many it has written
  inEvents,       \* the incarnation's event channel
  watching,       \* the tasks that still hold the sending end: "stdout", "exit"
  outLines,       \* the stable input channel
  inLines,        \* the incarnation's input channel
  stdinOpen,      \* pump_inputs of the incarnation runs
  reads,          \* the lines the current child has read
  supervising,    \* "bridging", "backoff", "respawning" or "ended"
  tries,          \* consecutive_transient
  lastStatus,     \* last_error_status, as the class it falls in
  killSent,       \* the outer handle was killed or dropped
  respawns,       \* bound
  sent,           \* lines the application has queued
  lastWritten,    \* history: the last result the current child wrote
  failed          \* history: children that ended on a transient error since a healthy turn

childVars == <<process, written, writes, inEvents, watching, inLines, stdinOpen, reads,
               lastWritten>>
superVars == <<supervising, tries, lastStatus, respawns, failed>>
outerVars == <<outLines, killSent, sent>>
supervisorVars == <<childVars, superVars, outerVars>>

SupervisorTypeOK ==
  /\ process \in {"running", "gone"}
  /\ written \in Seq(Results) /\ writes \in 0..MaxTurns
  /\ inEvents \in Seq(Results \cup {ExitNotice})
  /\ watching \subseteq {"stdout", "exit"}
  /\ outLines \in Seq(1..MaxLines) /\ inLines \in Seq(0..MaxLines) /\ reads \in Seq(0..MaxLines)
  /\ stdinOpen \in BOOLEAN /\ killSent \in BOOLEAN
  /\ supervising \in {"bridging", "backoff", "respawning", "ended"}
  /\ tries \in 0..MaxRetries /\ respawns \in 0..MaxRespawns /\ sent \in 0..MaxLines
  /\ lastStatus \in Results \cup {NoResult} /\ lastWritten \in Results \cup {NoResult}
  /\ failed \in Nat

\* Mutant of FreshChild: the lines meant for the last child come first.
FreshChildKeepsLines(lines) ==
  /\ process' = "running" /\ written' = <<>> /\ writes' = 0
  /\ inEvents' = <<>> /\ watching' = {"stdout", "exit"}
  /\ inLines' = inLines \o lines /\ stdinOpen' = TRUE /\ reads' = <<>>
  /\ lastWritten' = NoResult

\* The state of a fresh child whose stdin already holds `lines`.
FreshChild(lines) ==
  /\ process' = "running" /\ written' = <<>> /\ writes' = 0
  /\ inEvents' = <<>> /\ watching' = {"stdout", "exit"}
  /\ inLines' = lines /\ stdinOpen' = TRUE /\ reads' = <<>>
  /\ lastWritten' = NoResult

SupervisorInit ==
  /\ process = "running" /\ written = <<>> /\ writes = 0
  /\ inEvents = <<>> /\ watching = {"stdout", "exit"}
  /\ inLines = <<>> /\ stdinOpen = TRUE /\ reads = <<>>
  /\ lastWritten = NoResult
  /\ supervising = "bridging" /\ tries = 0 /\ lastStatus = NoResult
  /\ outLines = <<>> /\ killSent = FALSE /\ sent = 0 /\ respawns = 0
  /\ failed = 0
-----------------------------------------------------------------------------
(* The child and the tasks around it *)

\* The process ends a turn and writes its result; a transient failure only while there is a
\* respawn left in the bound.
WriteResult ==
  /\ process = "running" /\ writes < MaxTurns
  /\ writes' = writes + 1
  /\ \E r \in Results :
       /\ r = "transient" => respawns < MaxRespawns
       /\ written' = Append(written, r)
       /\ lastWritten' = r
       /\ failed' = IF r = "ok" THEN 0 ELSE failed
  /\ UNCHANGED <<process, inEvents, watching, inLines, stdinOpen, reads>>
  /\ UNCHANGED <<supervising, tries, lastStatus, respawns, outerVars>>

\* The process exits; its stdout stays readable until it is drained.
ProcessExits ==
  /\ process = "running"
  /\ process' = "gone"
  /\ UNCHANGED <<written, writes, inEvents, watching, inLines, stdinOpen, reads, lastWritten>>
  /\ UNCHANGED <<superVars, outerVars>>

\* pump_events: one event per line of stdout, and at its end the sender is dropped.
PumpStdout ==
  /\ "stdout" \in watching
  /\ \/ /\ written # <<>>
        /\ inEvents' = Append(inEvents, Head(written))
        /\ written' = Tail(written)
        /\ UNCHANGED watching
     \/ /\ written = <<>> /\ process = "gone"
        /\ watching' = watching \ {"stdout"}
        /\ UNCHANGED <<written, inEvents>>
  /\ UNCHANGED <<process, writes, inLines, stdinOpen, reads, lastWritten, superVars, outerVars>>

\* The lifecycle task: child.wait has returned.
NoticeExit ==
  /\ "exit" \in watching /\ process = "gone"
  /\ inEvents' = Append(inEvents, ExitNotice)
  /\ watching' = watching \ {"exit"}
  /\ UNCHANGED <<process, written, writes, inLines, stdinOpen, reads, lastWritten>>
  /\ UNCHANGED <<superVars, outerVars>>

\* pump_inputs writes one line.  Into a process that is gone the write fails, the line is
\* lost and the task ends: its channel is closed from then on.
PumpInput ==
  /\ stdinOpen /\ inLines # <<>>
  /\ inLines' = Tail(inLines)
  /\ IF process = "running"
     THEN reads' = Append(reads, Head(inLines)) /\ UNCHANGED stdinOpen
     ELSE stdinOpen' = FALSE /\ UNCHANGED reads
  /\ UNCHANGED <<process, written, writes, inEvents, watching, lastWritten>>
  /\ UNCHANGED <<superVars, outerVars>>
-----------------------------------------------------------------------------
(* The application's side *)

QueueLine ==
  /\ sent < MaxLines /\ ~killSent /\ supervising # "ended"
  /\ sent' = sent + 1
  /\ outLines' = Append(outLines, sent + 1)
  /\ UNCHANGED <<childVars, superVars, killSent>>

\* AgentHandle::kill, also when the handle is dropped.
KillHandle ==
  /\ ~killSent
  /\ killSent' = TRUE
  /\ UNCHANGED <<childVars, superVars, outLines, sent>>
-----------------------------------------------------------------------------
(* supervise *)

\* Mutant of KillChild: the handle is dropped and its process runs on.
KillChildNot == UNCHANGED process

KillChild == process' = "gone"

\* The biased select takes a kill first, then a line to relay, then an event.
BridgeKill ==
  /\ supervising = "bridging" /\ killSent
  /\ KillChild
  /\ supervising' = "ended"
  /\ UNCHANGED <<written, writes, inEvents, watching, inLines, stdinOpen, reads, lastWritten>>
  /\ UNCHANGED <<tries, lastStatus, respawns, failed, outerVars>>

\* The line goes to the current child.  When its stdin task is gone the child is deaf, and the
\* supervisor gives up so that the session is seen to be stale.
BridgeLine ==
  /\ supervising = "bridging" /\ ~killSent /\ outLines # <<>>
  /\ outLines' = Tail(outLines)
  /\ IF stdinOpen
     THEN /\ inLines' = Append(inLines, Head(outLines))
          /\ UNCHANGED <<process, supervising>>
     ELSE /\ KillChild
          /\ supervising' = "ended"
          /\ UNCHANGED inLines
  /\ UNCHANGED <<written, writes, inEvents, watching, stdinOpen, reads, lastWritten>>
  /\ UNCHANGED <<tries, lastStatus, respawns, failed, killSent, sent>>

\* Mutant of BridgeEvent: any result clears the retry count.
BridgeEventClears ==
  /\ supervising = "bridging" /\ ~killSent /\ outLines = <<>> /\ inEvents # <<>>
  /\ inEvents' = Tail(inEvents)
  /\ LET e == Head(inEvents)
     IN \/ e = ExitNotice /\ UNCHANGED <<tries, lastStatus>>
        \/ e = "ok" /\ tries' = 0 /\ lastStatus' = NoResult
        \/ e \in Results \ {"ok"} /\ lastStatus' = e /\ tries' = 0
  /\ UNCHANGED <<process, written, writes, watching, inLines, stdinOpen, reads, lastWritten>>
  /\ UNCHANGED <<supervising, respawns, failed, outerVars>>

\* A healthy result clears the retry count, an error keeps its status, the exit notice is
\* swallowed.
BridgeEvent ==
  /\ supervising = "bridging" /\ ~killSent /\ outLines = <<>> /\ inEvents # <<>>
  /\ inEvents' = Tail(inEvents)
  /\ LET e == Head(inEvents)
     IN \/ e = ExitNotice /\ UNCHANGED <<tries, lastStatus>>
        \/ e = "ok" /\ tries' = 0 /\ lastStatus' = NoResult
        \/ e \in Results \ {"ok"} /\ lastStatus' = e /\ UNCHANGED tries
  /\ UNCHANGED <<process, written, writes, watching, inLines, stdinOpen, reads, lastWritten>>
  /\ UNCHANGED <<supervising, respawns, failed, outerVars>>

\* Mutant of EventsClosed: the exit alone closes the channel.
EventsClosedOnExit == inEvents = <<>> /\ "exit" \notin watching

EventsClosed == inEvents = <<>> /\ watching = {}

\* Mutant of ChildOver: the budget is not looked at.
ChildOverUnbounded ==
  /\ supervising = "bridging" /\ ~killSent /\ outLines = <<>> /\ EventsClosed
  /\ IF lastStatus = "transient"
     THEN supervising' = "backoff" /\ tries' = tries + 1 /\ failed' = failed + 1
     ELSE supervising' = "ended" /\ UNCHANGED <<tries, failed>>
  /\ UNCHANGED <<childVars, lastStatus, respawns, outerVars>>

\* The event channel has closed: the child is over.  Retry a transient failure while the
\* budget lasts.
ChildOver ==
  /\ supervising = "bridging" /\ ~killSent /\ outLines = <<>> /\ EventsClosed
  /\ IF lastStatus = "transient" /\ tries < MaxRetries
     THEN supervising' = "backoff" /\ tries' = tries + 1 /\ failed' = failed + 1
     ELSE supervising' = "ended" /\ UNCHANGED <<tries, failed>>
  /\ UNCHANGED <<childVars, lastStatus, respawns, outerVars>>

\* The backoff ends with a kill or with its timer.
BackoffOver ==
  /\ supervising = "backoff"
  /\ \/ killSent /\ supervising' = "ended"
     \/ supervising' = "respawning"
  /\ UNCHANGED <<childVars, tries, lastStatus, respawns, failed, outerVars>>

\* spawn_next, and then the nudge before anything else is relayed.  A kill that comes during
\* the spawn waits for the bridge.
Respawn ==
  /\ supervising = "respawning"
  /\ \/ /\ FreshChild(<<Nudge>>)
        /\ supervising' = "bridging" /\ lastStatus' = NoResult /\ respawns' = respawns + 1
     \/ supervising' = "ended" /\ UNCHANGED <<childVars, lastStatus, respawns>>
  /\ UNCHANGED <<tries, failed, outerVars>>

Supervise == BridgeKill \/ BridgeLine \/ BridgeEvent \/ ChildOver \/ BackoffOver \/ Respawn
ChildTasks == PumpStdout \/ NoticeExit \/ PumpInput
SupervisorNext == WriteResult \/ ProcessExits \/ ChildTasks \/ QueueLine \/ KillHandle \/ Supervise

SupervisorSpec == SupervisorInit /\ [][SupervisorNext]_supervisorVars

\* As long as a task can run one of them does; what the process and the application do is not
\* owed.
SupervisorTask == Supervise \/ ChildTasks
SupervisorFairness == WF_supervisorVars(SupervisorTask)
-----------------------------------------------------------------------------
\* The verdict on a child is made on the last result it wrote, whichever of its two watchers
\* reported first.  (spawn.rs: "classification race-free regardless of Exited/Result order".)
VerdictOnTheLastResult ==
  supervising \in {"backoff", "respawning"} => lastWritten = "transient"

\* Consecutive transient failures are resumed MaxRetries times and no more, whatever else the
\* children write in between short of a healthy turn.
RetriesAreBounded == failed <= MaxRetries

\* A resumed child reads the nudge before any line that queued up while it was down.
NudgeComesFirst == respawns > 0 /\ reads # <<>> => Head(reads) = Nudge

\* A killed or dropped handle leaves no process behind, also when the kill comes in a backoff
\* or in the middle of a respawn.
KillIsFinal == killSent ~> [](process = "gone")
=============================================================================
