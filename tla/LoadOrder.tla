------------------------------ MODULE LoadOrder -----------------------------
(***************************************************************************)
(* What the loadable modules of the repository promise to the kernel: the  *)
(* parts they register come down in the reverse of the order they went up, *)
(* none while a call that came in through it is still running, and nothing *)
(* is left of a module that was unloaded or failed to load.                *)
(***************************************************************************)
EXTENDS Sequences, SequencesExt

CONSTANTS
  Parts,    \* what a module registers or allocates
  Entries   \* those of them through which it is called

VARIABLES
  phase,    \* "absent", "loading", "loaded", "leaving" or "gone"
  stack,    \* the parts that stand, in the order they were made
  inside    \* the entries through which a call is running

vars == <<phase, stack, inside>>

Init == phase = "absent" /\ stack = <<>> /\ inside = {}

\* A step of the load; a part whose failure the code ignores is not made.
Make ==
  /\ phase \in {"absent", "loading"}
  /\ phase' \in {"loading", "loaded"}
  /\ stack' = stack \/ \E part \in Parts \ ToSet(stack) : stack' = Append(stack, part)
  /\ UNCHANGED inside

\* A failed load, or rmmod.
Leave ==
  /\ phase \in {"absent", "loading", "loaded"}
  /\ phase' = "leaving"
  /\ UNCHANGED <<stack, inside>>

Drop ==
  /\ phase = "leaving" /\ stack # <<>>
  /\ Last(stack) \notin inside
  /\ stack' = Front(stack)
  /\ UNCHANGED <<phase, inside>>

Gone ==
  /\ phase = "leaving" /\ stack = <<>>
  /\ phase' = "gone"
  /\ UNCHANGED <<stack, inside>>

Enter ==
  /\ \E entry \in Entries \cap ToSet(stack) : inside' = inside \cup {entry}
  /\ UNCHANGED <<phase, stack>>

Exit ==
  /\ \E entry \in inside : inside' = inside \ {entry}
  /\ UNCHANGED <<phase, stack>>

Next == Make \/ Leave \/ Drop \/ Gone \/ Enter \/ Exit

Spec == Init /\ [][Next]_vars

=============================================================================
