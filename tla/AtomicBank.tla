------------------------------ MODULE AtomicBank ------------------------------
(***************************************************************************)
(* What usr/bank.c is meant to show: every deposit and every withdrawal    *)
(* takes effect at once, on the balance all earlier ones left.             *)
(***************************************************************************)
EXTENDS Integers

CONSTANTS Deposits, Withdrawals

VARIABLES balance, deposited, withdrawn

Init == balance = 1000 /\ deposited = 0 /\ withdrawn = 0

Deposit ==
  /\ deposited < Deposits
  /\ deposited' = deposited + 1
  /\ balance' = balance + 10
  /\ UNCHANGED withdrawn

Withdraw ==
  /\ withdrawn < Withdrawals
  /\ withdrawn' = withdrawn + 1
  /\ balance' = balance - 20
  /\ UNCHANGED deposited

Spec == Init /\ [][Deposit \/ Withdraw]_<<balance, deposited, withdrawn>>

=============================================================================
