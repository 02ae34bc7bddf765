------------------------------ MODULE MCConsole ------------------------------
(* Screens of two rows of two cells, which the prompt and a line of MaxKeys *)
(* characters make scroll; three consoles, so that there is one besides    *)
(* those of the shell and of the user; processes draw at the first cell.   *)
EXTENDS Console, TLC

MCSymmetry == Permutations(Proc)

=============================================================================
