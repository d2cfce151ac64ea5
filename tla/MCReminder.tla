----------------------------- MODULE MCReminder -----------------------------
(* Values for the constants of Reminder.                                   *)
EXTENDS Reminder, TLC

WriterSymmetry == Permutations(Writers)

=============================================================================
