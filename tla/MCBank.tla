------------------------------- MODULE MCBank -------------------------------
(* Three deposits and two withdrawals: each side can overtake the other    *)
(* and be overtaken inside its own rounds.  Two other programs can keep    *)
(* the scheduler busy, or end and leave the program alone.                 *)
EXTENDS Bank

=============================================================================
