----------------------------- MODULE MCExchange -----------------------------
(* Values for the constants of Exchange.                                     *)
EXTENDS Exchange, TLC

\* Ten units, a negative number, one cut from a longer text (its hundredfold is no int),
\* and what is no number.
Texts == { [seen |-> 10, whole |-> TRUE], [seen |-> -7, whole |-> TRUE],
           [seen |-> 400, whole |-> FALSE], [seen |-> NoNumber, whole |-> FALSE] }

ProcSymmetry == Permutations(Procs)

=============================================================================
