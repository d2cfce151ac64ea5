---------------------------- MODULE MCThreadPool ----------------------------
(* An instance of ThreadPool for TLC. *)
EXTENDS ThreadPool, TLC

\* Blocks of two runs of one character each: on a terminal of one column the first
\* character fills the row, and what follows does not fit.
TwoRuns == {[len |-> 1, num |-> 2]}

=============================================================================
