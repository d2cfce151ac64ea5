---------------------------- MODULE TimingTracker ---------------------------
(***************************************************************************)
(* task07/task07.c: a sysfs attribute that shows the seconds since it was  *)
(* last read and the seconds the kernel counts.  The time is taken, used   *)
(* and stored in last_jiffies without a lock, in 32 bits.                  *)
(***************************************************************************)
EXTENDS Integers, Sequences, SequencesExt

CONSTANTS
  Callers,      \* processes that read the attribute
  HZ,           \* jiffies per second
  Wrap,         \* 2^32
  Base,         \* 60
  FirstJiffies, \* jiffies when the module is loaded, or before
  MaxJiffies    \* bound: time stops here

TimingAssumption == /\ {HZ, Wrap, Base} \subseteq Nat \ {0}
                    /\ {FirstJiffies, MaxJiffies} \subseteq Nat

VARIABLES
  phase,        \* of the module, as in LoadOrder
  stack,        \* which of "class" and "file" stand
  fault,        \* "none" or "class", an error was used as a class
  now,          \* jiffies, before they are cut to 32 bits
  lastJiffies,  \* last_jiffies
  pc,           \* each caller: "outside", "show" or "store"
  sample,       \* current_jiffies of each caller, before it is cut
  shown,        \* what each caller prints
  latest,       \* history: the newest time any finished read has sampled
  beside,       \* history: a read that ran beside this caller's
  behind        \* history: last_jiffies is older than latest

loadVars == <<phase, stack, fault>>
showVars == <<lastJiffies, pc, sample, shown, latest, beside, behind>>
vars == <<loadVars, now, showVars>>

Nothing == [since |-> 0, clock |-> <<0, 0, 0>>]
Goto(c, here, there) == pc[c] = here /\ pc' = [pc EXCEPT ![c] = there]

-----------------------------------------------------------------------------
(* timing_show *)

Cut(jiffies) == jiffies % Wrap

\* seconds_to_hh_mm_ss.
Clock(s) == <<(s \div Base) \div Base, (s \div Base) % Base, s % Base>>

\* The difference is unsigned (mutant: of seconds, each rounded).
Mut_Since(current, last) == current \div HZ - last \div HZ
Since(current, last) == Cut(current - last) \div HZ

ShowBegin(c) ==
  /\ Contains(stack, "file") /\ Goto(c, "outside", "show")
  /\ sample' = [sample EXCEPT ![c] = now]
  /\ beside' = [d \in Callers |->
       IF d = c THEN \E e \in Callers \ {c} : pc[e] # "outside"
       ELSE beside[d] \/ pc[d] # "outside"]
  /\ UNCHANGED <<loadVars, now, lastJiffies, shown, latest, behind>>

ShowPrint(c) ==
  /\ Goto(c, "show", "store")
  /\ shown' = [shown EXCEPT ![c] =
       [since |-> Since(Cut(sample[c]), lastJiffies), clock |-> Clock(Cut(sample[c]) \div HZ)]]
  /\ UNCHANGED <<loadVars, now, lastJiffies, sample, latest, beside, behind>>

ShowStore(c) ==
  /\ Goto(c, "store", "outside")
  /\ lastJiffies' = Cut(sample[c])
  /\ latest' = IF sample[c] > latest THEN sample[c] ELSE latest
  /\ behind' = (sample[c] < latest)
  /\ sample' = [sample EXCEPT ![c] = 0] /\ shown' = [shown EXCEPT ![c] = Nothing]
  /\ beside' = [beside EXCEPT ![c] = FALSE]
  /\ UNCHANGED <<loadVars, now>>

Show(c) == ShowBegin(c) \/ ShowPrint(c) \/ ShowStore(c)

-----------------------------------------------------------------------------
(* init and cleanup *)

LoadTime ==
  /\ phase = "absent"
  /\ phase' = "loading"
  /\ lastJiffies' = Cut(now) /\ latest' = now
  /\ UNCHANGED <<stack, fault, now, pc, sample, shown, beside, behind>>

\* What class_create returns is not looked at: class_create_file takes an error for a class.
CreateClass ==
  /\ phase = "loading" /\ stack = <<>>
  /\ \/ stack' = <<"class">> /\ fault' = fault
     \/ stack' = stack /\ fault' = "class"
  /\ UNCHANGED <<phase, now, showVars>>

\* Nor is it noticed that the file was not made.
CreateFile ==
  /\ phase = "loading" /\ stack # <<>>
  /\ phase' = "loaded"
  /\ stack' \in {stack, Append(stack, "file")}
  /\ UNCHANGED <<fault, now, showVars>>

Leave ==
  /\ phase = "loaded"
  /\ phase' = "leaving"
  /\ UNCHANGED <<stack, fault, now, showVars>>

\* class_remove_file, which waits for the reads, class_destroy.
DropPart ==
  /\ phase = "leaving" /\ stack # <<>>
  /\ Last(stack) = "file" => \A c \in Callers : pc[c] = "outside"
  /\ stack' = Front(stack)
  /\ UNCHANGED <<phase, fault, now, showVars>>

Left ==
  /\ phase = "leaving" /\ stack = <<>>
  /\ phase' = "gone"
  /\ UNCHANGED <<stack, fault, now, showVars>>

Load == LoadTime \/ CreateClass \/ CreateFile \/ Leave \/ DropPart \/ Left

Tick == now < MaxJiffies /\ now' = now + 1 /\ UNCHANGED <<loadVars, showVars>>

-----------------------------------------------------------------------------

Init ==
  /\ phase = "absent" /\ stack = <<>> /\ fault = "none"
  /\ now = FirstJiffies /\ lastJiffies = 0
  /\ pc = [c \in Callers |-> "outside"]
  /\ sample = [c \in Callers |-> 0] /\ shown = [c \in Callers |-> Nothing]
  /\ latest = 0
  /\ beside = [c \in Callers |-> FALSE] /\ behind = FALSE

Halted == (fault # "none" \/ phase = "gone") /\ UNCHANGED vars

Next == (fault = "none" /\ phase # "gone" /\ (Load \/ Tick \/ \E c \in Callers : Show(c))) \/ Halted

Spec == Init /\ [][Next]_vars

-----------------------------------------------------------------------------
(* Property *)

\* A read that ran alone, when last_jiffies was the newest time read, shows the whole
\* seconds since the attribute was last read (or loaded), also when the 32 bits overflow in
\* between, if that was less than 2^32 jiffies ago; and the clock's digits stand for the
\* seconds in the 32 bits.  Two reads at once can show almost 2^32, or let the next read
\* count from the older of them.
ReadsElapsed ==
  \A c \in Callers : pc[c] = "store" =>
    LET clock == shown[c].clock IN
    /\ ~beside[c] /\ ~behind /\ sample[c] - latest < Wrap
         => shown[c].since * HZ \in sample[c] - latest - HZ + 1..sample[c] - latest
    /\ (clock[1] * Base + clock[2]) * Base + clock[3] = Cut(sample[c]) \div HZ
    /\ clock[2] < Base /\ clock[3] < Base

=============================================================================
