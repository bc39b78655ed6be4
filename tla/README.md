# A TLA+ model of bot-hq's session core

bot-hq runs a *session*: a few coding agents (claude-code processes) that work on one
repository, speak in one channel, and take turns. One Rust task, the **turn sequencer** or
*ring* (`src/core/sequencer.rs`), decides whose turn it is. Around it are one *pump* per
process, the application that acts for the user, the tray with its halts and approval gates,
and the storage both read. Almost everything that has gone wrong in this program (its own
comments are a chronicle of it) went wrong between these tasks: a completion that arrived late,
a release that overtook a halt, a process that died holding the turn. This project models that
core, and the components around it one by one: what a participant is handed and when, the
supervisor of a process, the Stop button, the life of a session, failed turns, approval gates, timed
halts, the emitter of the screen, the phase vote and the watchdog. TLC checks them on small
instances; TLAPS proves every safety property the runs check, of the composed session and of the
components beside it, for every value of the constants or under hypotheses that are named and that
TLC shows to be needed. Liveness is left to TLC.

## Inventory

| component | state | operations | hard part | what makes it correct |
|---|---|---|---|---|
| turn sequencer, `core/sequencer.rs` | `RingState`: holder, epoch, deferred and held commands, laps, summons, halt/gate/pause latches, the release held for a halted holder | thirteen commands off a bounded channel; `advance_turn`; `deliver_backlog` | awaits in the middle of a command and reads the channel there; completions that belong to another turn; a grace timer | one holder; only the turn in flight completes; never stops silently; halts, gates and pauses hold |
| agent pump, `core/pump.rs` | epoch snapshot, last completed epoch, interrupted epoch, error counts | binds a turn at its first event, reports its end, retries, declares the halt of a dead process | the cell it reads may have moved since the page went out | a completion carries the epoch of the turn it ends |
| supervisor and stdin relay, `agents/spawn.rs` | the child, its relay, retry counts | spawn, feed, retry, give up | respawn while pages are queued | no page lost or fed to the wrong child |
| application state, `core/state.rs` | sessions map under one lock, staged response slot | broadcast, stop, stage, answer a gate, close | each is several steps; the ring hears of it in the last | the screen and the ring agree |
| tray and bridge, `signaling/bridge` | halt slot, pending rows, waiters | declare a halt, park and answer a gate, notify the ring | notifies are `try_send`, lost when the channel is full | a halt on the screen stops the ring |
| activity tracker, `core/activity.rs` | busy flags, pause latch | derive Idle / Busy / Paused / Cancelling / AwaitingUser | two writers of one busy flag | a stopped ring unlocks the box |
| composer lock, `frontend/src/stores/activity.ts` | derived | send or stage | open for a moment between two turns | no message lands inside a turn |
| roster and votes, `storage/participants.rs` | rows, cursors, done votes | `next_in_ring`, votes, `commit_delivery` | edges of the rotation; cursors moved by id | every active participant gets its turn, every row is delivered once |
| session life, `core/state.rs`, `core/session.rs`, `core/close_learnings.rs` | sessions map, spawn gate, closing mark, epilogue claim, session row | ensure, restart, reopen, close, close-out turn, teardown | a spawn runs for seconds outside every lock; closes join each other | one roster at a time, one teardown |
| error ladder, `core/pump.rs` | epoch cell, interrupt stamp, retry rung, failure streak | classify the end of a turn, retry, halt | the pump sees events, not turns | failures reach the user; only what was interrupted is excused |
| approval gates, `signaling/bridge/tray.rs`, `action_gate.rs` | tray row, parked entry and its waiter, ring latch | ask, replace, answer, withdraw, run | three places, no step changes two | runs once, if approved; the ring holds |
| timed halts, `tray.rs` | slot with an instant, timers | declare, arm, fire, rearm | the timer acts on what it read | ends by itself |
| phase protocol, `bridge/mod.rs`, `storage/participants.rs` | phase epoch, votes, tally | advance, pass, pick a phase | four awaits between reading and counting | an advance is unanimous |
| watchdog, `core/watchdog.rs` | idle time, nudge window, chip | poll, nudge, declare | decides on what it read some awaits ago | a wedge ends or is declared |
| batch emitter, `tauri_events/batch_emitter.rs` | dirty sessions, watermarks | touch, flush | notices overtake rows and each other | every row shown once, in order |
| findings gate, tool gate's matching, plugins | rows, tables | see `PROJECT.json` | sequential | not modelled |
| project library, documents, prompts, git, terminal, UI | files and rows | read and write | mostly I/O | not modelled |

How they interact. The ring owns its state; everyone else sends it `SequencerCommand`s. The ring
writes each participant's epoch cell and busy flag, the halt slot, and pages into the
processes' stdin. The pump reads the cell at the first event of a turn, and the completion it
sends names that epoch. The application writes the latch and the halt slot, then sends. Storage
holds what both read: enabled participants, unread rows, votes, gates.

`PROJECT.json` lists every component, with what is left out of it, and the hazards at their
lines.

## Modules

* **TurnToken**: what the ring promises, without how it decides. The turn is a lease fenced by
  an epoch: granted to one participant under a fresh epoch, or withdrawn, and each retires every
  epoch before it.
* **TurnRing**: `run_sequencer`. A command is cut where the code awaits with the channel
  readable: the handler up to the delivery is one action, and the delivery (`deliver_backlog`) is
  one action per command read, per page landed, per way out. `Dispatch` has one action per command
  (several for `TurnComplete`, whose handler has six outcomes), `Drain` one per outcome of the
  delivery loop. Everything other tasks write is an environment variable and `EnvStep` may set it
  to any value of its type.
* **TurnPump**: a process and its pump. The process is outside the repository and is modelled by
  what the code says of it: it takes a page, folds in a page that arrives while it works, calls
  tools, ends its turn. The epoch binding, the completion, the busy flag's fall in a later step,
  the retry summons and the halt of a dead process are `pump_agent`'s.
* **RingSession**: one live session. It puts the real producers in the place of `EnvStep`: the user's message in its
  four steps (interrupt, row, banner, release), Stop in two, staging, halts, gates with and
  without a waiting caller, deaths. A budget bounds how often each kind of input happens.
* **RingProperties**: the properties, over RingSession.
* **MCRingSession**: instances, the constraint and the view of the runs.
* **TurnRing_proofs**: the ring's invariant and refinement. **RingSession_proofs** extends it to the
  composed session, **RingProperties_proofs** proves the cap, the boundary of a staged message,
  unanimity and gates, and **RingRest_proofs** what a session at rest looks like.

The components beside the ring. Each has its own variables and its own user, so that it can be
taken through every order of its steps without paying for the others.

* **Delivery**: rows, cursors and receipts (`storage/participants.rs`) with the drain of
  `deliver_backlog` that reads a page, hands it to a stdin and records it. Rows arrive while a page
  is out; a record can fail; the host can stop between the two. TurnRing's bit "something is unread"
  is `Backlog(p) # {}` here.
* **Supervisor**: `supervise` of `agents/spawn.rs` with its kill, relay, event and backoff arms, the
  reader of the child's stdout, the watcher of its exit, `pump_inputs` and `pump_events`. Queues
  are sequences; lines and results are one of three kinds.
* **Cancel**: `ActivityTracker` and the escalation of a Stop (interrupt, two seconds, SIGKILL),
  one per press, detached, next to the user's message and the turns the ring deals. The ring deals
  whoever is still busy: a release does not wait for the turn it supersedes.
* **SessionLife**: calls of ensure, restart, reopen and the three closes, each a program counter
  over its awaits; the spawn gate, the sessions map, the epilogue claim, the closing mark and the
  teardown's tail.
* **ErrorLadder**: the end of a turn as `pump_agent` sees it: the epoch cell the ring moves, the
  stamp of an interrupt, pages and interrupts on the process's stdin in the order they were
  written, the retry timer, the rungs and the streak. Events come within a turn and outside one
  (a late word of the process, a report of its health), and a message interrupts every
  participant, whoever holds the turn.
* **Gates**: the durable row, the parked entry with its waiter and the ring's latch of every ask,
  with answers, withdrawals, a repeated ask and restarts as overlapping calls.
* **TimedHalt**: the slot, its wake instant, the timers armed at a declaration and at a ring's
  registration, the looks a due timer takes before it clears the slot.
* **PhaseVote**: `agent_advance_phase`, `cast_phase_vote`, the pass that retracts, and
  `AppState::advance_phase` for the tally's event and for the user's picker. Every storage call of
  the vote may fail and takes the code's own way on: epoch 0, an empty fingerprint, an unwritten
  vote, no tally. A caller that is not found sends the advance with no vote (`AdvanceUnvoted`).
* **BatchEmitter**: rows, notices in any order, seeds, watermarks and flushes. What a session was
  shown is the sequence of its batches, each a set of rows that goes out oldest first.
* **IdleWatch**: a poll in its steps (the tracker, the tray, the slot, then the nudge or the
  declaration) with the executor, its pump, the ring, the user and respawns going on in between.
* **MCHost**: all ten in one instance. `focus` picks in the initial state which one moves.
* **Rows_proofs** (Delivery and BatchEmitter), **Lifecycle_proofs** (SessionLife, Cancel, Supervisor
  and ErrorLadder), **Decisions_proofs** (Gates and PhaseVote): their theorems. **MCHost_proofs** has
  the types of TimedHalt and IdleWatch and puts the ten together.

Several definitions come with a *mutant*: the same operator with one plausible mistake in it (a
latch not consulted, an epoch not moved, a pause put at the wrong end of a queue). Each property is
broken by the mutant `PROJECT.json` names for it, so none of them holds by the shape of the
model alone.

### State and code

Ring variables have the source's names in camel case (`winding_down` is `windingDown`,
`halted_pending_user` is `haltedPendingUser`). Abstractions: a backlog is one bit per participant
(something unread), the stdin pipe a count of pages, the halt slot its reason, a message its
mentions. `drain` and `batch` are `deliver_backlog`'s program counter and page count; `graceArmed`
says that the loop's current read is bounded by `HALT_WIND_DOWN_GRACE`. A storage call fails where
`StorageFaults` says it may, and the fault takes the code's own branch. `silent` and `dealt` are
histories that only properties read.

In the other modules a call with awaits is a record or a function from calls to program
counters, one step per stretch of code between two awaits (or two lock acquisitions) in which
somebody else can run; what a lock covers is one step. Variables of the source keep their names
where two components do not use the same one (`phaseEpoch` is `sessions.phase_epoch`, `openGates`
the ring's latch, `watching` the two tasks that hold an event sender). Histories that only
properties read: `handed`, `losses` (Delivery); `lastWritten`, `failed`, `reads` (Supervisor);
`fresh`, `answeredStop` (Cancel); `failures`, `strayed` (ErrorLadder); `ran`, `cutOff` (Gates);
`gaveUp` (TimedHalt); `standing`, `unvoted` (PhaseVote). Time is counted only in IdleWatch, in polls: the grace and
the stall threshold are numbers of polls, and the nine polls they are in the code are one in
the run.

## Runs

Two participants, three where the rotation and the summoned differ. Every ring run starts from the
session's first message.

| run | what happens in it | what it shows |
|---|---|---|
| `ring_rest` | a second message, a staged message and a halt, every outcome of a turn | the session rests only where the screen says why; a stopped ring leaves no busy flag; a staged message always has a boundary to wait for; no turn is dealt over a halt the ring has heard of |
| `ring_talk` | two laps of votes (which post nothing, so the peer's next turn may be empty), passes and speech, a plugin's message that preempts at any time, a gate | consensus and the all-pass are unanimous; the cap is not exceeded; a pending gate stops the deals |
| `ring_world` | every input except gates, in every pair, and halt + stage + stop, on a channel of three that overflows | types; a Stop the ring was told of cuts the delivery in progress |
| `ring_faults` | storage faults, long backlogs, spin trips, a halt | the inductive invariant `RingInv`; the ring implements TurnToken |
| `ring_live` | under fairness: a stage, a halt and a death | a held release and a staged message go out; the session comes to rest |
| `ring_summon` | two in the rotation and one outside, a mention, a retried error, a halt, a message | a summons is dealt first and never lost |
| `silent_death`, `answer_under_halt`, `stop_after_release`, `send_in_gap` | one narrow scenario each | the code does otherwise than its comments say; see Findings |
| `host` | the ten components beside the ring, one at a time | below |
| `closed_but_alive` | one start and one close | a spawn that outlasts a whole close leaves processes of a closed session; see Findings |

What `host` shows:

| module | property | in words |
|---|---|---|
| Delivery | `NothingSkipped`, `RepeatsNeedALoss`, `FirstReadsInOrder` | no row is passed over, a repeat costs a lost record, first readings are in order |
| Supervisor | `VerdictOnTheLastResult`, `RetriesAreBounded`, `NudgeComesFirst`, `KillIsFinal` | a child is judged by its last result whichever watcher reports first; retries end; a resumed child reads the nudge first; a kill in any wait leaves no process |
| Cancel | `ScreenIsCurrent`, `FreshTurnIsNotCondemned`, `StopStopsTheTurn` | what was emitted is what the flags say; no escalation condemns a session in which only turns run that were dealt after a message answered the Stop and the stopped turns had ended; an unanswered Stop ends every turn |
| SessionLife | `NoOrphanRoster`, `TailIsOwned`, `CallsReturn` | one roster runs and the map holds it; one teardown owns the tail; every call comes back |
| ErrorLadder | `FailuresReachTheUser`, `OnlyTheInterruptedIsExcused` | failing turns end in a halt; an interrupt excuses no turn handed out after it, but where an event between two turns had bound the pump |
| Gates | `RunsOnceIfApproved`, `PendingGateHolds`, `LatchLifts`, `ApprovalTakesEffect` | a parked command runs once at most and only if approved; the ring holds at a pending gate and is let go at a settled one; an approval is acted on |
| TimedHalt | `TimedHaltEnds` | a timed halt leaves the slot, also when restarts lose its timer |
| BatchEmitter | `ShownInOrderWithoutGaps` | from the first touch on, every row once and in order |
| PhaseVote | `AdvanceIsUnanimous` | every advance, whatever sends it, stands on a vote of everyone for that phase over one fingerprint, also when reads and writes fail; but not when the caller was not found |
| IdleWatch | `WedgeIsDeclared` | a session with work does not idle undeclared for ever |

One run holds ten components because they share no variable, each property speaks of one of
them, and each is insensitive to stuttering: a behaviour of the run is a behaviour of one component
whose other variables stand still, and every behaviour of every component occurs. A property
therefore holds in the run exactly if it holds of its component alone.

### Bounds, and why they are enough

* *Two participants* give every relation of a sender, a holder and another; the edges of
  `next_in_ring` (last place, holder outside the rotation, a single active one) need the third,
  which `ring_summon` has.
* *One of each input*: the hazards are races between two different inputs and the tail of a
  turn, and a run's budget holds the inputs its properties are about. `ring_world` has ten kinds;
  its constraint `FewInputs` follows every pair and one triple.
* *Round cap 1 or 2*: two laps is the first number in which a lap counter could be reset too
  early or too late.
* *Channel of 3 or 4* in place of 256: small enough that it fills in `ring_world`. In the other
  passing runs it never drops a command that the property depends on.
* `MaxTurnBatches` is 2 in place of the code's: the smallest with a page that is neither first
  nor last.
* The view `Ranked` replaces every epoch by its rank among those in use. Epochs are compared
  only for equality, 0 means "unbound" and stays 0, and a new epoch is larger than all in use, so states equal under
  the view have the same behaviours up to that renaming. The interrupted epoch is left out of it
  once no error is left in the budget, because only the error path reads it. `ring_live` uses no
  view; its epochs are bounded by the round cap.
* `host`: two participants (readers, agents, voters), because every race there is between one
  actor and one other; two calls of SessionLife (of every pair of kinds), two asks and two answers
  of Gates, two timers and two halts of TimedHalt, two Stops and one message of Cancel: two of the
  same kind are what overlap. One loss, fault, mishap, death: the properties that count them
  (`RepeatsNeedALoss`) are proved for any number. A page of two rows among three is one that is cut
  and one that is not. Two failed storage calls of PhaseVote (`MaxVoteFaults`): with two failed
  reads both votes carry the empty fingerprint. One rung and five handovers are a retry, a streak and one turn more.
  Flushing at three of three rows and by its timer lets both triggers happen.
* Deadlock is not checked: a session that waits for its user has no step to take. What a deadlock
  check would look for is `RestsOnlyVisibly` and `SessionSettles`.

### Assumptions about time

* A halted process that was told to stop completes before `HALT_WIND_DOWN_GRACE` (3 s) runs out
  (`GraceOutlastsInterrupt`): the code counts on milliseconds. The grace ends only for a process
  that is dead.
* A pump clears its busy flag before another participant, dealt after its completion, has
  answered from the model (`clearing = {}` in `ReportsEnd`).
* In `ring_rest` and `ring_summon` the user types at leisure, into an unlocked box with the ring
  at rest. What happens in the gap is `send_in_gap`, a finding.
* For the three theorems of `RingRest_proofs` only: a pump has cleared the busy flag of a reported turn
  before its participant is dealt again (`ClearedFirst`). The runs do not assume it.
* A message is sent to a live session (`Deliverable`): with a process gone the code respawns the
  session first, and that is a new behaviour of the model.

### Fairness

Weak fairness on the ring, on the application's steps once begun, and per participant on the
pump's steps: tokio schedules every ready task. That a working process ends its turn, and that a
tool call's waiter gives up, is assumed of the process and of the call's timeout. Nothing is
assumed of the user: no message, Stop or answer need ever come, and no process need die, halt
or err. `SessionSettles` needs a round cap; without one the code lets participants talk for
ever, and says so.

The components of `host` each have weak fairness on the disjunction of their own tasks' steps
(`SupervisorTask`, `CancelTask`, `LifeTask`, `GatesTask`, `TimedTask`, `WatchTask`): as long as a
task can run, one does. That is weaker than fairness of each task, so nothing rests on the order in
which tokio picks them. For the watchdog it says that its timer always comes round. Users,
processes and other tasks owe nothing: `StopStopsTheTurn` rests on the interrupted process in no
way, `WedgeIsDeclared` needs no turn to end and no message to come. A process that was sent SIGKILL
is gone in the end; that is the operating system's.

## What is proved

A theorem here holds for every value of the constants (roster, channel size, round cap, pages,
budgets, numbers of calls) that satisfies the named assumptions of its module: ids are positive
integers, finitely many, and those on mention are among them (`RosterAssumption`); bounds are natural
numbers and sets of clients finite.

### The ring

`TurnRing_proofs`, **whatever the other tasks write into the variables they share with the ring**:

* `TypeCorrect`: `Spec => []TypeOK`.
* `RingInvariant`: `Spec => []RingInv`. The parts that matter: while a halted holder's completion
  is owed nobody holds the turn, and a release is held back only then; a delivery has a holder; the
  current epoch is in its holder's cell and in nobody else's.
* `RingImplementsToken`: `Spec => RefinesToken`. Every one of the ring's actions grants the lease
  under a fresh epoch, withdraws it, or leaves it alone.

The argument has two halves. `StateInv == TypeOK /\ WindDownHasNoHolder /\ DrainHasAHolder` is
inductive. `TypeOK` alone is not: an empty turn is passed on by a command the ring appends to its
own queue in the holder's name, which has the type of a command only if there is a holder, and
`DrainHasAHolder` says so. `WindDownHasNoHolder` is what makes a live completion never meet a held
release, so that the stash and a new deal never mix. The second half needs no invariant but
`TypeOK`: a lemma shows that every step of the ring is a `LeaseStep`, a `Grant`, a `Withdraw` or
neither, and `EpochNamesTheHolder` follows from that shape alone. The proof has a lemma per
operator the deals are built from (`Advance`, `ReleaseRing`, the reading of a command) and one per
action.

### The session

`RingSession_proofs`. `SessionIsARing` shows that every step of the composed session, a pump's, the
application's or the user's, is a step of the ring or one of the environment it was proved
against. `RingInv` (`SessionRingInvariant`) and the lease (`SessionImplementsToken`) of the session
follow, and so does the type of everything (`SessionTypeCorrect`). Two action properties:

* `StopCutsTheDelivery`: a Stop the ring was told of is read before the delivery in progress does
  anything else. A Pause is never held back, and of the deferred commands it is the first; a
  delivery runs with neither a pause on nor a Pause deferred (`PauseComesFirst`). One that was sent is
  then in the channel, which the delivery empties before a page lands.
* `SummonsAreHonoured`: while someone is summoned only the summoned are dealt. It needs
  `~StorageFaults`: the read of the rotation that fails leaves the queue for the next deal.

`RingProperties_proofs`:

* `RoundsAreCapped`. The turns of a round are paid from an account (`Debt`): the mentions queued, held
  back with a stashed release and under way in three queues, and the retries scheduled, less
  the mentions and errors that are used up. No step raises the debt, and a turn dealt out of
  turn lowers it by one, so turns plus debt stay within what the laps and the anchor in the current
  one allow (`Within`). It
  holds with storage faults, long backlogs and every input in every mix.
* `StagedMessagesHaveABoundary`: while a message is staged somebody holds the turn whose end delivers
  it. It needs a rotation that is not empty, `~StorageFaults`, and no gate, Stop or death: with a
  plugin's prompt next to a gate, a Stop or a death TLC finds the message waiting at a parked ring.
* `ConsensusIsOfAll`: a consensus is everyone's. A vote is of somebody silent, or nobody holds the
  turn (`VotesInv`). It needs `~StorageFaults`, and no errors or else neither gates nor Stops: TLC
  finds a retry that deals after a release which a gate had parked, with the last round's votes.
* `AllPassIsOfAll`: an all-pass is everyone's. A lap that nobody spoke in has been passed by
  everyone between its anchor and the holder (`PassInv`). It needs `~StorageFaults`, no errors and
  no mentions; with either TLC refutes it, see the divergences below.
* `GatesHoldTheRing`: no deal while a gate the ring has heard of is pending. What every pending gate
  leaves behind is its notice: in a queue, in the latch, or held by a pause (`NoticeInv`). The
  hypothesis is on the behaviour, `[](Len(rx) < RxCap)`: a full channel drops a notice for good, and
  with `RxCap = 1` TLC finds the deal. Storage faults are included.

`RingRest_proofs` proves the three properties of a session at rest, `RestIsVisible`,
`RestIsUnlocked` and `HaltsAreHeeded`, by one invariant, `TalkInv`. It follows the one turn there is.
That turn is in one place at a time: about to be delivered, in the pipe, with the process, or
reported and on its way back (`Turns`); the busy flag says so (`BusyTells`). A halt is ahead of
the completion of its own turn in the line of commands, and a release of the user travels it
only while nobody has the turn and the banner is down (`Tidy`, `Halts`, `Releasings`). So a ring
without a holder has a banner up, or a release is on its way (`Explained`). None of these is inductive
without the others.

They hold for every roster, round cap and number of messages and mentions, with any number of halts or
of staged messages, and for spins where there are halts. Their hypotheses are `AtEase` and
`ClearedFirst`. `AtEase` rules out storage faults, messages in the gap, plugins' prompts, Stops, gates,
errors, deaths, backlogs longer than a turn's pages, a channel of less than five places, and halts
together with staged messages. That is the ordinary conversation, and not more can be had in this
generality. TLC refutes a visible rest with one death, one prompt, an error next to a message,
a Stop next to a staged message, a long backlog, or two staged messages and a halt. It finds it to
hold with Stops, messages, halts and a mention when nothing is staged, which is not proved.
The instance of `ring_rest` lies outside: one message, one halt and one staged message together, on
a channel of four, without `ClearedFirst`. There the run is what shows the three properties.
`ClearedFirst` is needed with three participants and one on mention: a pump whose participant is
summoned again before it has put down the flag of the last turn puts down the new turn's.

### The components beside it

Each theorem is from its module's named assumption, by an inductive invariant with a lemma per
action; every module's type invariant is proved too.

* Delivery (`Rows_proofs`): `DeliverySkipsNothing`, `DeliveryRepeatsNeedALoss`,
  `DeliveryReadsInOrder`, for every number of readers, rows, pages and losses. The invariant adds
  that a page that is out is the beginning of the backlog and stays so while rows arrive behind
  it; a cursor moved by the page's highest id then skips nothing. Without it `NothingSkipped` is not
  inductive.
* BatchEmitter (`Rows_proofs`): `EmitterShowsAll`, for every number of sessions, rows and failed reads
  and every order of the notices. What was shown of a session is exactly what lies between the
  first touch and the watermark (`Fits`), and its batches are in order (`BatchesAreInOrder`).
* Supervisor (`Lifecycle_proofs`): `VerdictIsOnTheLast`, `RetriesStayBounded`,
  `ResumeStartsWithTheNudge`. The last result a child wrote is the last in its stdout, or else the
  last in the event channel, or else the status on record (`LastIsInStdout`, `LastIsInChannel`,
  `LastIsOnRecord`), and the channel closes only over an empty stdout.
* Cancel (`Lifecycle_proofs`): `ScreenFollowsTheTracker`, `FreshTurnsAreSpared`. A turn is fresh if
  it was dealt after a message had answered the last Stop and with no older turn running. It is on
  record: the Stop is superseded and the idle was seen (`FreshIsOnRecord`), which are the two
  facts `escalation_outcome` reads; `MessageSupersedes` and `IdleIsOnRecord` carry it from the
  message to the deal.
* SessionLife (`Lifecycle_proofs`): `OneRosterAtATime`, `TailHasOneOwner`. Who spawns holds the gate
  (`GateIsHeld`) and has evicted what was mapped (`EvictedFirst`); the closing mark stands exactly
  while one call is in the tail.
* ErrorLadder (`Lifecycle_proofs`): `FailingTurnsHalt`, `ExcuseIsAimed`. Every failure is on the
  ladder or in the streak (`FailuresAreCounted`); what the pump takes for its turn is never older
  than the page the process works on, unless an event between two turns had bound it
  (`BoundIsNotOlder`).
* Gates (`Decisions_proofs`): `ApprovedRunsOnce`, `LatchHoldsPendingGates`. The one update that settles
  a row marks its winner, and only a winner runs anything (`WinnerIsRecorded`, `RunIsRecorded`);
  `RowComesLater`, `ReplacedIsSettled` and `WithdrawnIsOpen` say what each call may find.
* PhaseVote (`Decisions_proofs`): `PhaseAdvanceIsUnanimous`, for any electorate and any number of
  failed storage calls. Every vote in the table is standing (`VotesStand`): cast since the epoch
  last moved and not taken back. It speaks of every advance that is sent, whichever action sends
  it; one sent for a caller that was not found is its exception.
* `MCHost_proofs`: `HostIsItsComponents` shows that a behaviour of the host is one of each of the ten,
  which is why one run can check them all; `HostTypesHold` adds the types of TimedHalt and IdleWatch,
  and `HostIsSafe` joins the safety invariants.

### Checked by TLC only

Liveness under fairness, which needs `ENABLED` and is out of the prover's reach: `StashIsReplayed`,
`StagedIsDelivered`, `SessionSettles`, `KillIsFinal`, `StopStopsTheTurn`, `CallsReturn`, `LatchLifts`,
`ApprovalTakesEffect`, `TimedHaltEnds` and `WedgeIsDeclared`. Of the safety properties, those of
`RingRest_proofs` and `RingProperties_proofs` where their hypotheses do not reach.

## Findings

Five runs in which TLC finds a behaviour that the program's own comments rule out. Each is quoted in
`PROJECT.json`.

1. `silent_death`: a process that dies after it was dealt a turn and before its first event is
   nobody's to unwind. The pump declares a halt only for a turn it had bound. If it is the
   participant the watchdog would nudge, the watchdog does not help either: a dead executor is
   "down", and for that it shows its chip and neither nudges nor declares. For any other
   participant its nudge moves the session on.
2. `answer_under_halt`: answering a gate under a standing halt releases the ring into work while
   the banner stays up.
3. `stop_after_release`: a Stop whose `Pause` is sent after a message cleared the latch leaves the
   ring paused with no Paused bar, and Resume returns early.
4. `send_in_gap`: a message sent between a completion and the next deal is folded into the turn
   dealt there, and the ring waits for a turn that is over.
5. `closed_but_alive`: a spawn that outlasts a whole close registers its roster for a session whose
   row is closed. The check after the spawn looks for a mark that a finished teardown has taken
   away.

Divergences met while choosing the budgets of the passing runs, which have no run of their own
because they are the same kinds again or need more of the model:

* A `Summon` deals under the banner of a round cap or an all-pass, since those stops set no
  latch; its doc says a halted ring refuses it. The all-pass that follows can then be
  announced though the summoned turn was not everybody's.
* A gate answered between a completion and the fall of its busy flag gets no wake
  (`tray_wake` sees a busy session), and the ring stays parked though nothing is pending.
* A plugin's prompt that preempts: with a halt in the same window it leaves a busy flag up at
  rest; with a mention it makes an all-pass that is not unanimous; with a stage and a Stop it
  leaves a staged message without a boundary.
* A user message in the deferred queue of a drain can be held by a pause, which the doc of the
  pause gate says never happens.
* A release stashed for a halted holder and a second one behind it: when the holder completes the
  first is replayed, and the second is dealt over that turn, in its middle. The stage's doc says
  "never mid-turn, never superseding the holder" (sequencer.rs:1350). It takes two messages and a
  staged one, or the reverse, around one halt, and the session can come to rest in silence.
* An all-pass in which not everybody passed: a round cap resets `spoke_this_lap`, a scheduled retry
  is dealt under its banner, and its pass completes a lap nobody spoke in. The comment at
  sequencer.rs:2617 says that the flag is down "if and only if every participant ended `Passed`".
* A staged message withdrawn at its boundary leaves the ring stopped with nothing on the screen.
  The comment at state.rs:1835 means it so ("the ring simply yields"), and `RestsOnlyVisibly` does not
  allow it: the runs withdraw nothing where they check it.

Met in the components beside the ring. They have no run, because each is a window of the code rather
than a contradiction of one quoted line, or because showing it needs a step the module leaves out;
the property named holds as stated, with the window outside it. The first items under
*Stop*, *Error ladder* and *Phase vote* do contradict a quoted line: there the module has every
step, the property states the exception in its own words, and TLC refutes it without.

* *Session life.* A close whose row update fails after it claimed the close-out turn
  (state.rs:1026) never gives the claim back, and every later close joins a turn that does not
  exist. `close(archive)` that joins a running tail loses the archive. A close cuts another close's
  learnings turn, and a session reopened during a close-out turn is torn down when it ends.
* *Stop.* A release deals a fresh turn while the stopped one still runs (`release_ring`: "The
  previous holder's turn is not cancelled"). From then on nobody has been seen idle. If the
  stopped turn ends before the deadline and the fresh one does not, the escalation kills it though
  nothing else runs: `SupersededByUser` says "don't kill the user's fresh turn + warm cache"
  (state.rs:98), and `escalation_outcome` (state.rs:2118) calls a kill right for an agent that
  "never reached idle". `FreshTurnIsNotCondemned` covers the fresh turns dealt after the stopped
  ones had ended. The kill follows the verdict after a storage write: a turn that a message starts in
  between is killed, although the verdict was about the one before it. A verdict "superseded" about
  an old Stop wipes the latch of a newer one. Of two atomic tools in flight the flag of the first
  is lost, so the Stop does not wait for it.
* *Supervisor.* Lines relayed to a dying child are lost, and a second one ends the supervisor
  without a retry. A relay blocked on a full inner queue does not hear the kill.
* *Error ladder.* An interrupt to an idle participant stamps the epoch it last completed with,
  "which no future completion can carry" (spawn.rs:632); "a stale stamp cannot hide a genuine
  error" (pump.rs:886). It can. The guard against stragglers compares the cell with the epoch last
  completed, and is down when there is none: before the first turn, and after a turn that
  completed unbound (pump.rs:1129), as the second of two handed out before the first ends does.
  The next event between turns then binds the retired epoch, and the turn after it completes
  under that epoch: if a message had stamped it, a failure of the turn's own is passed over.
  `OnlyTheInterruptedIsExcused` leaves out a turn bound so (`strayed`). A retry
  timer is not cancelled by a later success. A turn interrupted in silence
  and dealt again, or interrupted twice, is counted as a failure.
* *Gates.* Two identical gated commands can both be parked. Overlapping answers to one push gate
  can run it in band and out of band.
* *Timed halts.* The release clears whichever halt is in the slot: one declared between the
  timer's last look and the clear is lost, and a halt wiped before its ring notice leaves a
  stopped session without a banner. A storage fault at the timer's look ends it with no wake
  (`gaveUp`).
* *Phase vote.* "The phase moves only when every active participant has voted for the same state
  of the work" (mod.rs:1388); but without storage, when the caller's row cannot be read or when
  nobody has that name, the advance is sent with no vote at all (mod.rs:1427-1450; the comment
  there says why). One failed read suffices. `AdvanceIsUnanimous` excepts exactly these advances.
  Votes whose reads of the documents failed agree on the empty fingerprint, whatever each voter
  saw. One tally can be announced twice, and a late announcement undoes a phase the user
  picked since. A call that has read the old epoch can complete a tally after the bump. Votes of one
  participant for two targets both stand.
* *Emitter.* A row whose notice comes after the first flush passed its id is never shown, and a
  failed first flush ends the lowering of the seed.
* *Watchdog.* The "dead" an ending pump reports is kept by the bridge across a restart or a stale
  respawn (the comment at pump.rs:1226 calls it harmless "on an intentional close"): the fresh
  executor reads as down, and for it the nudge and the declared halt never come, only the chip.
  `WedgeIsDeclared` leaves an executor that is marked down out; with "its pump has ended" in
  place of "marked down" it fails after one respawn. Silence is counted from the last event, also
  over the rest before the turn, so an executor dealt a turn after a long rest is flagged stalled
  until it speaks. A spell of work shorter than a poll does not reset the idle time. A Stop between
  the second look and the nudge's release is undone by it.
* *Review gate* (not modelled). An override is not scoped to one incident: granted while the
  reviewer is up it covers the next time it is down. The request is clickable before it is on
  record, and an approval in between lifts nothing.

## What is not modelled

Of the ring: the repetition score of the spin detector (a trip is a nondeterministic outcome),
retries of a failed staged delivery, boot and orientation, permanent and provider-limit errors. A
turn that was interrupted may end with any outcome, which is more than the code allows and loses no
behaviour. `enabled` never changes after spawn, as in the code; `Resume` and `ParticipantJoined`,
which nothing in the repository sends, are sent once in `ring_world` so that the ring's arms for
them are exercised. The ring runs do not contain the supervisor, the Stop's escalation, the error
counters or the watchdog; those are modelled beside it, with the ring reduced to what they see of
it.

Of the components beside it: the agent's stdin as bytes, tool names, texts and wire formats;
withheld receipts of a cursor and roster edits (Delivery); a full inner queue (Supervisor); the wait
for an atomic tool, which only delays the interrupt (Cancel); the interior of a spawn and of a
close-out turn (SessionLife); provider-limit halts and the boot before the first turn (ErrorLadder);
a call of the vote by a participant outside the electorate, which is refused and changes nothing
(PhaseVote); faults of the read before an ask,
a purge of the tray, and an answer to an ask that has not been announced (Gates); the health of
the other participants (IdleWatch: the same rule, and nothing here is decided by it).
`EmitMsg::Flush`, which has no caller, is the same step as the timer's flush (BatchEmitter).

Of the program: about half of its Rust lines are unit tests inside the source files and a fifth
comments. Of the rest, the larger part is not concurrent and keeps no state between calls: the Tauri
commands, the tool server's dispatch, prompts and capability tables, the parsing of the process's
stream, claude configuration files, git, the terminal, and the queries of the storage. A model of
them would restate them line by line; their unit tests enumerate them already. The project library
and the documents are files with an index over them, the findings gate guarded updates of single
rows, the plugin heartbeat a table of timeouts. `PROJECT.json` gives the reason for every component
left out.

## Plan

The order was by weight in the program; what is done and what is left:

1. TurnToken, TurnRing, TurnPump, RingSession and the ring's invariant and refinement: done.
2. Delivery, SessionLife, Gates, Cancel, Supervisor, ErrorLadder, PhaseVote, BatchEmitter with their
   theorems, TimedHalt and IdleWatch with their types: done.
3. Every step of RingSession is a step of `TurnRing!Next`; `RingInv`, `RefinesToken` and the
   properties of RingProperties as theorems of the session: done.
4. Left to prove: `RestsOnlyVisibly` with Stops but nothing staged, which TLC finds to hold with
   messages, a halt and a mention.
5. Left to model: the review findings gate with its override, and the project library's files and
   index under a crash between the two.
6. Left to model: Supervisor under SessionLife (whose roster is one process here) and IdleWatch over
   TurnRing (which it sees as one command), as compositions.
