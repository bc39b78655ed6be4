------------------------------- MODULE MCHost -------------------------------
(***************************************************************************)
(* The components beside the turn ring, each on a small instance.  They     *)
(* share no variable and no property speaks of two of them, so the run      *)
(* takes one at a time: `focus` picks which one moves, and the others stay  *)
(* in their initial states.                                                *)
(***************************************************************************)
EXTENDS Delivery, Supervisor, Cancel, SessionLife, ErrorLadder, Gates, TimedHalt, BatchEmitter,
        PhaseVote, IdleWatch

VARIABLE focus

\* Something a participant said, something the host said and a tool call's record.
MCRowKinds ==
  {[author |-> CHOOSE p \in Readers : TRUE, said |-> TRUE],
   [author |-> HostAuthor, said |-> TRUE],
   [author |-> HostAuthor, said |-> FALSE]}

hostVars == <<focus, deliveryVars, supervisorVars, cancelVars, lifeVars, ladderVars, gatesVars,
              timedVars, emitterVars, voteVars, idleWatchVars>>

Components == {"delivery", "supervisor", "cancel", "life", "ladder", "gates", "timed", "emitter",
               "vote", "watch"}

HostInit ==
  /\ focus \in Components
  /\ DeliveryInit /\ SupervisorInit /\ CancelInit /\ LifeInit /\ LadderInit /\ GatesInit
  /\ TimedInit
  /\ EmitterInit /\ (focus # "emitter" => persisted = <<CHOOSE s \in Sessions : TRUE>>)
  /\ VoteInit /\ (focus # "vote" => phase = CHOOSE t \in Phases : TRUE)
  /\ IdleWatchInit

HostNext ==
  /\ UNCHANGED focus
  /\ \/ focus = "delivery" /\ DeliveryNext
     \/ focus # "delivery" /\ UNCHANGED deliveryVars
  /\ \/ focus = "supervisor" /\ SupervisorNext
     \/ focus # "supervisor" /\ UNCHANGED supervisorVars
  /\ \/ focus = "cancel" /\ CancelNext
     \/ focus # "cancel" /\ UNCHANGED cancelVars
  /\ \/ focus = "life" /\ LifeNext
     \/ focus # "life" /\ UNCHANGED lifeVars
  /\ \/ focus = "ladder" /\ LadderNext
     \/ focus # "ladder" /\ UNCHANGED ladderVars
  /\ \/ focus = "gates" /\ GatesNext
     \/ focus # "gates" /\ UNCHANGED gatesVars
  /\ \/ focus = "timed" /\ TimedNext
     \/ focus # "timed" /\ UNCHANGED timedVars
  /\ \/ focus = "emitter" /\ EmitterNext
     \/ focus # "emitter" /\ UNCHANGED emitterVars
  /\ \/ focus = "vote" /\ VoteNext
     \/ focus # "vote" /\ UNCHANGED voteVars
  /\ \/ focus = "watch" /\ IdleWatchNext
     \/ focus # "watch" /\ UNCHANGED idleWatchVars

\* The fairness of each component, which binds where it moves.
HostSpec ==
  /\ HostInit /\ [][HostNext]_hostVars
  /\ WF_supervisorVars(focus = "supervisor" /\ SupervisorTask)
  /\ WF_cancelVars(focus = "cancel" /\ CancelTask)
  /\ WF_lifeVars(focus = "life" /\ LifeTask)
  /\ WF_gatesVars(focus = "gates" /\ GatesTask)
  /\ WF_timedVars(focus = "timed" /\ TimedTask)
  /\ WF_idleWatchVars(focus = "watch" /\ WatchTask)

\* Every component's variables have their types.
HostTypeOK ==
  /\ DeliveryTypeOK /\ SupervisorTypeOK /\ CancelTypeOK /\ LifeTypeOK /\ LadderTypeOK
  /\ GatesTypeOK /\ TimedTypeOK /\ EmitterTypeOK /\ VoteTypeOK
  /\ IdleWatchTypeOK
=============================================================================
