----------------------------- MODULE TurnToken -----------------------------
(***************************************************************************)
(* What the turn ring promises, without how it decides: a turn is a lease   *)
(* on the session, fenced by an epoch.  The ring grants the lease to one    *)
(* participant at a time or withdraws it, and either one retires every      *)
(* epoch handed out before.  A completion that carries the current epoch    *)
(* can only come from the lease in force.                                   *)
(***************************************************************************)
EXTENDS Integers

CONSTANTS
  Holders,    \* who may be granted the turn
  Nobody      \* what `holder` reads when no one has it, not one of them

VARIABLES
  holder,     \* who has the turn
  epoch,      \* the last epoch stamped
  cell        \* the epoch each participant was last handed

tokenVars == <<holder, epoch, cell>>

TokenTypeOK ==
  /\ holder \in Holders \cup {Nobody}
  /\ epoch \in Nat
  /\ cell \in [Holders -> Nat]

TokenInit ==
  /\ holder = Nobody
  /\ epoch = 0
  /\ cell = [p \in Holders |-> 0]

\* The turn goes to `p` with a fresh epoch, and `p` alone is handed it.  The turn may pass
\* from one participant to the next, or be dealt to `p` again.
Grant(p) ==
  /\ holder' = p
  /\ epoch' = epoch + 1
  /\ cell' = [cell EXCEPT ![p] = epoch + 1]

\* Nobody has the turn, and no completion of an earlier one is current.
Withdraw ==
  /\ holder' = Nobody
  /\ epoch' = epoch + 1
  /\ UNCHANGED cell

TokenNext == Withdraw \/ \E p \in Holders : Grant(p)

TokenSpec == TokenInit /\ [][TokenNext]_tokenVars

\* The current epoch names one turn: whoever was handed it holds the turn, and the holder
\* was handed it.  This is what makes the epoch on a completion enough to tell the turn in
\* flight from every turn that is over.
EpochNamesTheHolder ==
  /\ holder # Nobody => cell[holder] = epoch
  /\ \A p \in Holders : cell[p] <= epoch /\ (cell[p] = epoch /\ epoch > 0 => p = holder)

=============================================================================
