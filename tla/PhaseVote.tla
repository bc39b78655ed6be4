------------------------------ MODULE PhaseVote ------------------------------
(***************************************************************************)
(* The vote that moves a session from one phase of its work to the next:    *)
(* agent_advance_phase in signaling/bridge, the phase_votes table of        *)
(* storage/participants.rs, and AppState::advance_phase, which the host's   *)
(* control worker runs for a complete tally and the user's picker at will.  *)
(*                                                                         *)
(* A call finds its participant, reads the epoch, reads the fingerprint of  *)
(* the phase documents, casts and counts, each in an await of its own,      *)
(* while documents are edited, others pass, and transitions land.  Each of  *)
(* them can fail, and none of the failures ends the call.                   *)
(***************************************************************************)
EXTENDS Integers, Sequences

CONSTANTS
  Voters,         \* the active participants: the electorate
  Phases,         \* the phases, as targets
  MaxCalls,       \* bound: calls of advance_phase
  MaxEdits,       \* bound: edits of phase documents
  MaxPicks,       \* bound: phases the user picks
  MaxVoteFaults   \* bound: storage calls of a vote that fail, callers that are not found included

ASSUME VoteAssumption == {MaxCalls, MaxEdits, MaxPicks, MaxVoteFaults} \subseteq Nat

VARIABLES
  phase,          \* IpavState.current_phase
  storedPhase,    \* sessions.ipav_phase
  phaseEpoch,     \* sessions.phase_epoch
  docs,           \* the version of the phase documents, which the fingerprint tells apart
  phaseVotes,     \* the rows of phase_votes
  phaseCall,      \* per participant, its call in progress
  advances,       \* the AgentAdvancePhase events on their way to the control worker
  moving,         \* the transition in progress, under the sessions lock
  standing,       \* history: per participant, what it voted for since the epoch last moved
                  \* and its own last pass
  unvoted,        \* history: the last advance went out with no vote
  calls, edits, picks, voteFaults

voteVars == <<phase, storedPhase, phaseEpoch, docs, phaseVotes, phaseCall, advances, moving,
              standing, unvoted, calls, edits, picks, voteFaults>>

Unread == -1      \* the empty fingerprint of a read that failed
Fingerprints == Nat \cup {Unread}
Ballots == [target : Phases, docs : Fingerprints]
Votes == [by : Voters, ballot : Ballots, epoch : Nat]
CallStates == {"idle", "called", "readEpoch", "readDocs", "cast"}
NoTarget == "none"

VoteTypeOK ==
  /\ phase \in Phases /\ storedPhase \in Phases
  /\ phaseEpoch \in Nat /\ docs \in Nat
  /\ phaseVotes \subseteq Votes
  /\ phaseCall \in [Voters -> [step : CallStates, target : Phases \cup {NoTarget},
                               epoch : Nat, docs : Fingerprints]]
  /\ advances \in Seq(Phases)
  /\ moving \in [step : {"no", "stored", "bumping"}, target : Phases \cup {NoTarget}]
  /\ standing \in [Voters -> SUBSET Ballots] /\ unvoted \in BOOLEAN
  /\ calls \in 0..MaxCalls /\ edits \in 0..MaxEdits /\ picks \in 0..MaxPicks
  /\ voteFaults \in 0..MaxVoteFaults

NoPhaseCall == [step |-> "idle", target |-> NoTarget, epoch |-> 0, docs |-> 0]
NotMoving == [step |-> "no", target |-> NoTarget]

VoteInit ==
  /\ phase \in Phases /\ storedPhase = phase
  /\ phaseEpoch = 0 /\ docs = 0 /\ phaseVotes = {}
  /\ phaseCall = [p \in Voters |-> NoPhaseCall]
  /\ advances = <<>> /\ moving = NotMoving
  /\ standing = [p \in Voters |-> {}] /\ unvoted = FALSE
  /\ calls = 0 /\ edits = 0 /\ picks = 0 /\ voteFaults = 0

tableVars == <<phaseEpoch, phaseVotes>>
phaseVars == <<phase, storedPhase, moving>>
workBounds == <<calls, edits, picks>>
voteBounds == <<workBounds, voteFaults>>
-----------------------------------------------------------------------------
(* A participant *)

\* A storage call of the vote works, or it fails and the call goes on with what that leaves.
Works == UNCHANGED voteFaults
Fails == voteFaults < MaxVoteFaults /\ voteFaults' = voteFaults + 1

\* The call of an active participant that was found.  One that is not active, or not enabled, is
\* refused, which changes nothing.
CallAdvance(p, target) ==
  /\ phaseCall[p].step = "idle" /\ calls < MaxCalls
  /\ calls' = calls + 1
  /\ phaseCall' = [phaseCall EXCEPT ![p] = [NoPhaseCall EXCEPT !.step = "called", !.target = target]]
  /\ UNCHANGED <<phaseVars, tableVars, docs, advances, standing, unvoted, edits, picks, voteFaults>>

\* The caller is not found - no storage yet, a failed read, nobody of that name: the advance goes
\* out with no vote, whoever called.
AdvanceUnvoted(target) ==
  /\ calls < MaxCalls /\ Fails
  /\ calls' = calls + 1
  /\ advances' = Append(advances, target) /\ unvoted' = TRUE
  /\ UNCHANGED <<phaseVars, tableVars, docs, phaseCall, standing, edits, picks>>

\* A failed read leaves epoch 0.
ReadEpoch(p) ==
  /\ phaseCall[p].step = "called"
  /\ \E read \in {phaseEpoch, 0} :
       /\ phaseCall' = [phaseCall EXCEPT ![p].step = "readEpoch", ![p].epoch = read]
       /\ IF read = phaseEpoch THEN Works ELSE Fails
  /\ UNCHANGED <<phaseVars, tableVars, docs, advances, standing, unvoted, workBounds>>

\* phase_artifact_fingerprint.  A failed read leaves the empty fingerprint.
ReadFingerprint(p) ==
  /\ phaseCall[p].step = "readEpoch"
  /\ \E read \in {docs, Unread} :
       /\ phaseCall' = [phaseCall EXCEPT ![p].step = "readDocs", ![p].docs = read]
       /\ IF read = docs THEN Works ELSE Fails
  /\ UNCHANGED <<phaseVars, tableVars, docs, advances, standing, unvoted, workBounds>>

BallotOf(p) == [target |-> phaseCall[p].target, docs |-> phaseCall[p].docs]

\* cast_phase_vote: one row per participant and question.  A vote that could not be written is
\* counted all the same.
CastPhaseVote(p) ==
  /\ phaseCall[p].step = "readDocs"
  /\ \/ /\ Works
        /\ phaseVotes' =
             phaseVotes \cup {[by |-> p, ballot |-> BallotOf(p), epoch |-> phaseCall[p].epoch]}
        /\ standing' = [standing EXCEPT ![p] = @ \cup {BallotOf(p)}]
     \/ Fails /\ UNCHANGED <<phaseVotes, standing>>
  /\ phaseCall' = [phaseCall EXCEPT ![p].step = "cast"]
  /\ UNCHANGED <<phaseVars, phaseEpoch, docs, advances, unvoted, workBounds>>

\* all_active_voted_to_advance, for exactly the question of this call.
AllVoted(p) ==
  \A q \in Voters : [by |-> q, ballot |-> BallotOf(p), epoch |-> phaseCall[p].epoch] \in phaseVotes

\* A complete tally sends the event; otherwise, and when it cannot be read, the tool says where
\* the vote stands.
CountPhaseVotes(p) ==
  /\ phaseCall[p].step = "cast"
  /\ \/ /\ Works /\ AllVoted(p)
        /\ advances' = Append(advances, phaseCall[p].target) /\ unvoted' = FALSE
     \/ /\ (Works /\ ~AllVoted(p)) \/ Fails
        /\ UNCHANGED <<advances, unvoted>>
  /\ phaseCall' = [phaseCall EXCEPT ![p] = NoPhaseCall]
  /\ UNCHANGED <<phaseVars, tableVars, docs, standing, workBounds>>

\* Mutant of Pass: the votes of who passes stand.
PassKeepsVotes(p) ==
  /\ phaseCall[p].step = "idle" /\ standing[p] # {}
  /\ standing' = [standing EXCEPT ![p] = {}]
  /\ UNCHANGED <<phaseVars, tableVars, docs, phaseCall, advances, unvoted, voteBounds>>

\* A turn that ends in a pass takes back the passer's votes, all of them.  A participant in the
\* middle of a call is not at the end of its turn.
Pass(p) ==
  /\ phaseCall[p].step = "idle" /\ standing[p] # {}
  /\ phaseVotes' = {v \in phaseVotes : v.by # p}
  /\ standing' = [standing EXCEPT ![p] = {}]
  /\ UNCHANGED <<phaseVars, phaseEpoch, docs, phaseCall, advances, unvoted, voteBounds>>

EditPhaseDoc ==
  /\ edits < MaxEdits
  /\ edits' = edits + 1 /\ docs' = docs + 1
  /\ UNCHANGED <<phaseVars, tableVars, phaseCall, advances, standing, unvoted, calls, picks, voteFaults>>
-----------------------------------------------------------------------------
(* AppState::advance_phase, under the sessions lock, with commit_phase_transition *)

\* The control worker takes the next event, or the user picks a phase: the phase moves in
\* memory and is stored.
BeginMove ==
  /\ moving = NotMoving
  /\ \/ /\ advances # <<>>
        /\ moving' = [step |-> "stored", target |-> Head(advances)]
        /\ advances' = Tail(advances)
        /\ UNCHANGED picks
     \/ /\ picks < MaxPicks
        /\ \E t \in Phases : moving' = [step |-> "stored", target |-> t]
        /\ picks' = picks + 1
        /\ UNCHANGED advances
  /\ phase' = moving'.target
  /\ UNCHANGED <<storedPhase, tableVars, docs, phaseCall, standing, unvoted, calls, edits, voteFaults>>

StorePhase ==
  /\ moving.step = "stored"
  /\ storedPhase' = moving.target
  /\ moving' = [moving EXCEPT !.step = "bumping"]
  /\ UNCHANGED <<phase, tableVars, docs, phaseCall, advances, standing, unvoted, voteBounds>>

\* bump_phase_epoch: the epoch moves and the votes go, in one transaction.
BumpPhaseEpoch ==
  /\ moving.step = "bumping"
  /\ phaseEpoch' = phaseEpoch + 1
  /\ phaseVotes' = {}
  /\ standing' = [p \in Voters |-> {}]
  /\ moving' = NotMoving
  /\ UNCHANGED <<phase, storedPhase, docs, phaseCall, advances, unvoted, voteBounds>>

\* The host restarts: calls and events are lost, the phase is read back.
RestartPhase ==
  /\ moving.step \in {"no", "bumping"} /\ picks < MaxPicks
  /\ picks' = picks + 1
  /\ phase' = storedPhase /\ moving' = NotMoving
  /\ phaseCall' = [p \in Voters |-> NoPhaseCall] /\ advances' = <<>>
  /\ UNCHANGED <<storedPhase, tableVars, docs, standing, unvoted, calls, edits, voteFaults>>

VoteNext ==
  \/ \E p \in Voters :
       \/ \E t \in Phases : CallAdvance(p, t)
       \/ ReadEpoch(p) \/ ReadFingerprint(p) \/ CastPhaseVote(p) \/ CountPhaseVotes(p) \/ Pass(p)
  \/ \E t \in Phases : AdvanceUnvoted(t)
  \/ EditPhaseDoc \/ BeginMove \/ StorePhase \/ BumpPhaseEpoch \/ RestartPhase

VoteSpec == VoteInit /\ [][VoteNext]_voteVars
-----------------------------------------------------------------------------
\* Whatever sends an advance, every active participant, since the epoch last moved and since its
\* own last pass, has voted for that very target over one fingerprint of the documents: a vote of
\* an earlier round, of a participant that has passed, or over another fingerprint counts for
\* nothing, however the calls overlap and whichever of their reads fail.  ("the tally could
\* complete over a live objection".)  The exception is an advance sent because the caller was not
\* found: nobody has voted for it.
Unanimous(target) ==
  \E ballot \in UNION {standing[q] : q \in Voters} :
    ballot.target = target /\ \A q \in Voters : ballot \in standing[q]
AdvanceIsUnanimous ==
  [][Len(advances') > Len(advances) =>
       unvoted' \/ Unanimous(advances'[Len(advances')])]_voteVars
=============================================================================
