---------------------------- MODULE UsageLedger ----------------------------
(***************************************************************************)
(* What the usage recording promises to an account, a user or an admin.    *)
(* Traffic that was taken off the nodes is on its way to the account until *)
(* it is billed or lost.  What is on its way is billed as a whole, and is  *)
(* no longer on its way then; nothing comes back once it was lost, and     *)
(* nothing is billed that was not on its way.                              *)
(***************************************************************************)
EXTENDS Integers

CONSTANT Accounts

VARIABLES
  taken,     \* traffic taken off the nodes since the beginning
  pending,   \* traffic on its way
  billed     \* the account's total

ledger == <<taken, pending, billed>>

LedgerInit ==
  /\ taken = [a \in Accounts |-> 0]
  /\ pending = [a \in Accounts |-> 0]
  /\ billed = [a \in Accounts |-> 0]

\* Traffic is taken off a node; some of it may be lost on the way here.
Take ==
  /\ \A a \in Accounts : /\ taken[a] <= taken'[a]
                         /\ pending[a] <= pending'[a]
                         /\ pending'[a] - pending[a] <= taken'[a] - taken[a]
  /\ UNCHANGED billed

\* The accounts are billed; one that is gone is not.
Bill ==
  /\ \A a \in Accounts : /\ billed'[a] \in {billed[a], billed[a] + pending[a]}
                         /\ pending'[a] = 0
  /\ UNCHANGED taken

\* Traffic is lost on its way.
Lose ==
  /\ \A a \in Accounts : 0 <= pending'[a] /\ pending'[a] <= pending[a]
  /\ UNCHANGED <<taken, billed>>

LedgerNext == Take \/ Bill \/ Lose

LedgerSpec == LedgerInit /\ [][LedgerNext]_ledger
=============================================================================
