------------------------------- MODULE DynDev -------------------------------
(***************************************************************************)
(* exercise11/part02/dyndev.c with dev.h: a character device with a class  *)
(* and DEVICE_COUNT nodes.  That class_create or device_create fails goes  *)
(* unnoticed.  The major number is left out.                               *)
(***************************************************************************)
EXTENDS Integers, Sequences, SequencesExt

CONSTANTS
  Callers,      \* processes that open a node
  DeviceCount   \* DEVICE_COUNT

VARIABLES
  phase,    \* of the module, as in LoadOrder
  stack,    \* which of "region", "cdev" and "class" stand, in the order they were made
  nodes,    \* the numbers of the nodes there are
  next,     \* i, of the loops over the nodes
  failed,   \* devclass holds an error
  pc,       \* each caller: "outside" or "open"
  read,     \* each caller: its file position is behind the string
  fault     \* "none" or "class", the error was used as a class

nodeVars == <<nodes, next, failed, fault>>
loadVars == <<phase, stack, nodeVars>>
callVars == <<pc, read>>
vars == <<loadVars, callVars>>

Nobody == \A c \in Callers : pc[c] = "outside"

-----------------------------------------------------------------------------

\* open finds the device while the module is not on its way out.
Open(c) ==
  /\ pc[c] = "outside" /\ Contains(stack, "cdev") /\ phase # "leaving"
  /\ pc' = [pc EXCEPT ![c] = "open"]
  /\ UNCHANGED <<loadVars, read>>

\* dev_read, as in FixDev.
Read(c) ==
  /\ pc[c] = "open" /\ ~read[c]
  /\ read' = [read EXCEPT ![c] = TRUE]
  /\ UNCHANGED <<loadVars, pc>>

Close(c) ==
  /\ pc[c] = "open"
  /\ pc' = [pc EXCEPT ![c] = "outside"]
  /\ read' = [read EXCEPT ![c] = FALSE]
  /\ UNCHANGED loadVars

Call(c) == Open(c) \/ Read(c) \/ Close(c)

-----------------------------------------------------------------------------
(* dev_init *)

Failing == phase \in {"absent", "loading"} /\ Len(stack) < 2

\* The region, the device.
MakePart ==
  /\ Failing
  /\ stack' = SubSeq(<<"region", "cdev">>, 1, Len(stack) + 1)
  /\ phase' = "loading"
  /\ UNCHANGED <<nodeVars, callVars>>

\* Either fails, and the load with it.
Fail ==
  /\ Failing
  /\ phase' = "leaving"
  /\ UNCHANGED <<stack, nodeVars, callVars>>

CreateClass ==
  /\ phase = "loading" /\ Len(stack) = 2 /\ ~failed
  /\ \/ stack' = Append(stack, "class") /\ failed' = failed
     \/ stack' = stack /\ failed' = TRUE
  /\ UNCHANGED <<phase, nodes, next, fault, callVars>>

\* device_create may fail, and does so in a class that is none.
CreateNode ==
  /\ phase = "loading" /\ (failed \/ Len(stack) = 3)
  /\ \E made \in SUBSET {next} : (failed => made = {}) /\ nodes' = nodes \cup made
  /\ next' = next + 1
  /\ phase' = IF next' = DeviceCount THEN "loaded" ELSE "loading"
  /\ UNCHANGED <<stack, failed, fault, callVars>>

-----------------------------------------------------------------------------
(* dev_exit *)

\* rmmod, while nobody has the device open.
Leave ==
  /\ phase = "loaded" /\ \A c \in Callers : pc[c] = "outside"
  /\ phase' = "leaving" /\ next' = 0
  /\ UNCHANGED <<stack, nodes, failed, fault, callVars>>

\* How many nodes the loop visits (mutant: the last one is left).
Mut_Visited == DeviceCount - 1
Visited == DeviceCount

\* device_destroy looks the node up in the class.
DestroyNode ==
  /\ phase = "leaving" /\ Len(stack) >= 2 /\ next < Visited
  /\ IF failed THEN fault' = "class" /\ nodes' = nodes
               ELSE fault' = fault /\ nodes' = nodes \ {next}
  /\ next' = next + 1
  /\ UNCHANGED <<phase, stack, failed, callVars>>

\* class_destroy, cdev_del, unregister_chrdev_region.
DropPart ==
  /\ phase = "leaving" /\ stack # <<>>
  /\ Len(stack) < 2 \/ next = Visited
  /\ stack' = Front(stack)
  /\ UNCHANGED <<phase, nodeVars, callVars>>

Left ==
  /\ phase = "leaving" /\ stack = <<>>
  /\ phase' = "gone"
  /\ UNCHANGED <<stack, nodeVars, callVars>>

-----------------------------------------------------------------------------

Init ==
  /\ phase = "absent" /\ stack = <<>>
  /\ nodes = {} /\ next = 0 /\ failed = FALSE /\ fault = "none"
  /\ pc = [c \in Callers |-> "outside"]
  /\ read = [c \in Callers |-> FALSE]

Load == MakePart \/ Fail \/ CreateClass \/ CreateNode
Unload == Leave \/ DestroyNode \/ DropPart \/ Left
Halted == (fault # "none" \/ phase = "gone") /\ UNCHANGED vars

Next == (fault = "none" /\ (Load \/ Unload \/ \E c \in Callers : Call(c))) \/ Halted

Spec == Init /\ [][Next]_vars

-----------------------------------------------------------------------------
(* What LoadOrder sees: the nodes are one part, made with the first of them and gone with  *)
(* the last.                                                                               *)

standing == IF nodes = {} THEN stack ELSE Append(stack, "nodes")

=============================================================================
