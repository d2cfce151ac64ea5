------------------------------- MODULE MCChat -------------------------------
(* Values for the constants of Chat.                                       *)
EXTENDS Chat, TLC

ProcSymmetry == Permutations(Procs)

=============================================================================
