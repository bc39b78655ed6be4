--------------------------- MODULE RingProperties ---------------------------
(***************************************************************************)
(* What a session promises its user and its participants, over RingSession. *)
(***************************************************************************)
EXTENDS RingSession

InFlight ==
  {rx[i] : i \in DOMAIN rx} \cup {deferred[i] : i \in DOMAIN deferred}
    \cup {held[i] : i \in DOMAIN held}

\* No task has anything left to do: every process waits for a page, every pump for an event,
\* the ring for a command, the application for the user.
Settled ==
  /\ rx = <<>> /\ deferred = <<>> /\ drain = "none" /\ ~graceArmed
  /\ working = {} /\ clearing = {} /\ haltOwed = {} /\ interruptDue = {} /\ retry = {}
  /\ \A p \in alive : stdin[p] = 0
  /\ sending = "idle" /\ ~stopping /\ (deliveryDue = 0 \/ alive # Participants) /\ answered = {}

\* Reasons to be at rest that the user can see.
BannerUp == haltSlot # "none"
GateUp == gateRows # {}
StopUp == latch
VisibleReason == BannerUp \/ GateUp \/ StopUp \/ Rotation = {}
-----------------------------------------------------------------------------
\* A session never stops silently: when every task has come to rest, either the user's stop
\* is in force, or nobody holds the turn and something on the screen says whom the session
\* waits for.  (A ring that waits for a completion nobody will send, and one that holds
\* commands for a resume nobody can press, are the two ways this has been wrong.)
RestsOnlyVisibly ==
  Settled => \/ StopUp
             \/ /\ holder = NoOne /\ VisibleReason
                /\ held = <<>> /\ ~stashedRelease.some

\* "Everyone is done" is said only when everyone is: since the user's last release and since
\* anybody last spoke, every participant of the rotation has had a turn and added nothing.
ConsensusIsUnanimous ==
  [][haltSlot' = "consensus" /\ haltSlot # "consensus" => Rotation \subseteq silent']_allVars

\* The same for "every participant passed a full lap".
AllPassIsUnanimous ==
  [][haltSlot' = "allPassed" /\ haltSlot # "allPassed" => Rotation \subseteq silent']_allVars

\* Between two messages of the user the ring hands out no more than its cap of laps, and one
\* turn more for everything that summoned somebody.
RoundCapHolds ==
  RoundCap # 0 =>
    dealt <= RoundCap * Cardinality(Participants) + Budget["error"] + Budget["mention"]

\* A standing halt stops the ring "until the user's next message" (HaltDeclared): no turn is
\* handed out while the banner is up, unless the ring has still to hear of the halt.  A user's
\* message takes the banner down before it releases the ring.
HaltUnheard ==
  haltSlot = "participant" /\ (haltOwed # {} \/ \E c \in InFlight : c.type = "HaltDeclared")
NoDealUnderAHalt == [][Deals => haltSlot = "none" \/ HaltUnheard]_allVars

\* The ring is paused only while the screen says so: with the latch down the Paused bar and its
\* Resume are gone, and what the ring holds waits for a release nobody is asked for.
PauseIsVisible == Settled /\ paused => latch

\* A Stop the ring has been told of cuts the delivery: until the pause is lifted no process is
\* fed another page, whatever was queued ahead of it.
StopCutsDelivery ==
  [][(\E p \in Participants : stdin'[p] > stdin[p])
       => ~paused /\ \A c \in InFlight : c.type # "Pause"]_allVars

\* While an approval gate is pending and the ring knows of it, no turn is handed out.
GateHolds ==
  [][Deals /\ (\A c \in InFlight : c.type # "GateOpened") => gateRows = {}]_allVars

\* A stopped ring has cleared every busy flag, so the session derives Idle and the input box
\* unlocks.
StoppedRingIsNotBusy == Settled /\ holder = NoOne => busy = {}

\* A staged message waits for a boundary, so somebody holds the turn whose end is the boundary.
StageHasABoundary == stagedPending => holder # NoOne

\* A release held back for a halted participant's last completion is dealt in the end, whether
\* the completion comes or the process dies before it: nobody's message waits on a process that
\* is gone.
StashIsReplayed == stashedRelease.some ~> ~stashedRelease.some \/ latch

\* A staged message goes out at some boundary, unless the user stopped the session, or a process
\* died and the session has to be started anew first.
StagedIsDelivered ==
  stagedContent = "staged" ~> stagedContent # "staged" \/ latch \/ alive # Participants

\* Under a round cap the participants cannot keep each other busy for ever: once the user falls
\* silent the session comes to rest.
SessionSettles == RoundCap # 0 => <>[]Settled

\* Whoever is summoned, by a mention or by its own retry, goes before the rotation, and leaves
\* the queue only for the turn: no halt, gate, pause or message in between loses a summons.
Waits(p) == \E i \in DOMAIN summons : summons[i] = p
SummonsGoFirst ==
  [][/\ (\E p \in Participants : Waits(p)) /\ Deals => Waits(holder')
     /\ \A p \in Participants : Waits(p) /\ ~Waits(p)' => Deals /\ holder' = p]_allVars

=============================================================================
