------------------------------- MODULE FixDev -------------------------------
(***************************************************************************)
(* exercise11/part01/fixdev.c with dev.h: a character device for one       *)
(* holder at a time.  The counter of holders is tested, and then           *)
(* incremented, without a lock.  The major number is a fixed one.          *)
(***************************************************************************)
EXTENDS Integers, Sequences, SequencesExt, FiniteSets

CONSTANT Callers   \* processes that open the device

VARIABLES
  phase,       \* of the module, as in LoadOrder
  stack,       \* which of "region" and "cdev" stand
  pc,          \* each caller: "outside", "passed" (the test of dev_open), "opening"
               \* (about to store the counter), "open" or "closing" (about to store it)
  deviceOpen,  \* device_open
  seen,        \* the counter each caller loaded
  read,        \* each caller: its file position is behind the string
  raced        \* history: an open passed the test while another was past it

loadVars == <<phase, stack>>
callVars == <<pc, deviceOpen, seen, read, raced>>
vars == <<loadVars, callVars>>

Goto(c, here, there) == pc[c] = here /\ pc' = [pc EXCEPT ![c] = there]

-----------------------------------------------------------------------------

\* The test of dev_open (mutant: it is missing).
Mut_Busy == FALSE
Busy == deviceOpen # 0

\* open finds the device while the module is not on its way out.
OpenTest(c) ==
  /\ Contains(stack, "cdev") /\ phase # "leaving"
  /\ ~Busy /\ Goto(c, "outside", "passed")
  /\ raced' = (raced \/ \E d \in Callers : pc[d] \in {"passed", "opening"})
  /\ UNCHANGED <<loadVars, deviceOpen, seen, read>>

\* device_open++ loads the counter, or makes use of the zero just tested.
OpenLoad(c) ==
  /\ Goto(c, "passed", "opening")
  /\ \E value \in {0, deviceOpen} : seen' = [seen EXCEPT ![c] = value]
  /\ UNCHANGED <<loadVars, deviceOpen, read, raced>>

OpenStore(c) ==
  /\ Goto(c, "opening", "open")
  /\ deviceOpen' = seen[c] + 1
  /\ seen' = [seen EXCEPT ![c] = 0]
  /\ UNCHANGED <<loadVars, read, raced>>

\* dev_read: the whole string once, then the end of the file; a short buffer or a failed
\* copy leaves the position.
Read(c) ==
  /\ pc[c] = "open" /\ ~read[c]
  /\ read' = [read EXCEPT ![c] = TRUE]
  /\ UNCHANGED <<loadVars, pc, deviceOpen, seen, raced>>

\* dev_release: device_open--.
ReleaseLoad(c) ==
  /\ Goto(c, "open", "closing")
  /\ seen' = [seen EXCEPT ![c] = deviceOpen]
  /\ read' = [read EXCEPT ![c] = FALSE]
  /\ UNCHANGED <<loadVars, deviceOpen, raced>>

ReleaseStore(c) ==
  /\ Goto(c, "closing", "outside")
  /\ deviceOpen' = seen[c] - 1
  /\ seen' = [seen EXCEPT ![c] = 0]
  /\ UNCHANGED <<loadVars, read, raced>>

Call(c) == \/ OpenTest(c) \/ OpenLoad(c) \/ OpenStore(c)
           \/ Read(c) \/ ReleaseLoad(c) \/ ReleaseStore(c)

-----------------------------------------------------------------------------

\* dev_init: register_chrdev_region, cdev_add.
MakePart ==
  /\ phase \in {"absent", "loading"}
  /\ stack' = SubSeq(<<"region", "cdev">>, 1, Len(stack) + 1)
  /\ phase' = IF Len(stack) = 1 THEN "loaded" ELSE "loading"
  /\ UNCHANGED callVars

\* Either of them fails; or dev_exit, which waits until nobody has the device open.
Leave ==
  /\ phase \in {"absent", "loading"} \/ (phase = "loaded" /\ \A c \in Callers : pc[c] = "outside")
  /\ phase' = "leaving"
  /\ UNCHANGED <<stack, callVars>>

\* cdev_del, unregister_chrdev_region.
DropPart ==
  /\ phase = "leaving" /\ stack # <<>>
  /\ stack' = Front(stack)
  /\ UNCHANGED <<phase, callVars>>

Left ==
  /\ phase = "leaving" /\ stack = <<>>
  /\ phase' = "gone"
  /\ UNCHANGED <<stack, callVars>>

-----------------------------------------------------------------------------

Init ==
  /\ phase = "absent" /\ stack = <<>>
  /\ pc = [c \in Callers |-> "outside"]
  /\ deviceOpen = 0 /\ seen = [c \in Callers |-> 0]
  /\ read = [c \in Callers |-> FALSE]
  /\ raced = FALSE

Load == MakePart \/ Leave \/ DropPart \/ Left
Halted == phase = "gone" /\ UNCHANGED vars

Next == Load \/ (\E c \in Callers : Call(c)) \/ Halted

Spec == Init /\ [][Next]_vars

-----------------------------------------------------------------------------
(* Property *)

Holding == {c \in Callers : pc[c] \in {"open", "closing"}}

\* As long as no two opens overlapped, one process at most has the device, and the counter
\* is right whenever no open or release is on its way.  An overlap can give it to several,
\* and a lost update then leaves the counter off for good.
OneHolder ==
  ~raced => /\ Cardinality(Holding) <= 1
            /\ (\A c \in Callers : pc[c] \in {"outside", "open"}) => deviceOpen = Cardinality(Holding)

=============================================================================
