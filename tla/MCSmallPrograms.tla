-------------------------- MODULE MCSmallPrograms ---------------------------
(***************************************************************************)
(* The small programs side by side: one of them is chosen and runs, the    *)
(* others stay where they started.  The kernel modules share the variables *)
(* that say how far they are loaded, and implement LoadOrder.              *)
(***************************************************************************)
EXTENDS Integers, Sequences, SequencesExt

CONSTANTS
  Callers,                                            \* of all
  BufferSize, Lengths, Asks,                          \* of ProcBuffer
  DeviceCount,                                        \* of DynDev
  HZ, Wrap, Base, FirstJiffies, MaxJiffies,           \* of TimingTracker
  MaxPlayers, MaxRoll, Counts, MaxRounds              \* of Dice

VARIABLES
  which,                                              \* the program that runs
  phase, stack, pc, fault,                            \* of several
  msgLength, readPos, take, overlap,                  \* of ProcBuffer
  deviceOpen, seen, raced,                            \* of FixDev
  read,                                               \* of FixDev and DynDev
  nodes, next, failed,                                \* of DynDev
  armed, fn,                                          \* of MyTimer and HrTimer
  met,                                                \* of MyTimer
  now, lastJiffies, sample, shown, latest, beside, behind,  \* of TimingTracker
  stage, players, roll, wins, order, rounds           \* of Dice

\* Every variable keeps its name.
PB == INSTANCE ProcBuffer
FD == INSTANCE FixDev
DD == INSTANCE DynDev
MT == INSTANCE MyTimer
HT == INSTANCE HrTimer
TT == INSTANCE TimingTracker
DI == INSTANCE Dice

\* Numbers of players: none, two, the most, too many.
MCCounts == {-1, 0, 2, 3, 4}

ASSUME Assumptions == PB!BufferAssumption /\ TT!TimingAssumption /\ DI!DiceAssumption

\* The variables of the calls, by program.
bufferCalls == <<msgLength, readPos, take, overlap>>
fixCalls    == <<deviceOpen, seen, raced>>
dynNodes    == <<nodes, next, failed>>
timer       == <<armed, fn>>
times       == <<now, lastJiffies, sample, shown, latest, beside, behind>>
game        == <<stage, players, roll, wins, order, rounds>>
vars == <<which, phase, stack, pc, fault, bufferCalls, fixCalls, read, dynNodes, timer, met, times, game>>

ProcBufferStep == which = "ProcBuffer" /\ PB!Next
                  /\ UNCHANGED <<which, fixCalls, read, dynNodes, timer, met, times, game>>
FixDevStep     == which = "FixDev" /\ FD!Next
                  /\ UNCHANGED <<which, fault, bufferCalls, dynNodes, timer, met, times, game>>
DynDevStep     == which = "DynDev" /\ DD!Next
                  /\ UNCHANGED <<which, bufferCalls, fixCalls, timer, met, times, game>>
MyTimerStep    == which = "MyTimer" /\ MT!Next
                  /\ UNCHANGED <<which, stack, pc, bufferCalls, fixCalls, read, dynNodes, times, game>>
HrTimerStep    == which = "HrTimer" /\ HT!Next
                  /\ UNCHANGED <<which, pc, bufferCalls, fixCalls, read, dynNodes, met, times, game>>
TimingStep     == which = "TimingTracker" /\ TT!Next
                  /\ UNCHANGED <<which, bufferCalls, fixCalls, read, dynNodes, timer, met, game>>
DiceStep       == which = "Dice" /\ DI!Next
                  /\ UNCHANGED <<which, phase, stack, pc, fault, bufferCalls, fixCalls, read, dynNodes, timer, met, times>>

Init ==
  /\ which \in {"ProcBuffer", "FixDev", "DynDev", "MyTimer", "HrTimer", "TimingTracker", "Dice"}
  /\ PB!Init /\ FD!Init /\ DD!Init /\ MT!Init /\ HT!Init /\ TT!Init /\ DI!Init

Next == \/ ProcBufferStep \/ FixDevStep \/ DynDevStep \/ MyTimerStep
        \/ HrTimerStep \/ TimingStep \/ DiceStep

\* What the timers' specifications assume.
MyTimerGoes == MyTimerStep /\ MT!TimerStep
HrTimerGoes == HrTimerStep /\ HT!TimerStep

Spec == Init /\ [][Next]_vars /\ WF_vars(MyTimerGoes) /\ WF_vars(HrTimerGoes)

-----------------------------------------------------------------------------
(* Properties *)

InLoadOrder == which \notin {"MyTimer", "Dice"}
Inside ==
  CASE which = "ProcBuffer"    -> "file"
    [] which = "TimingTracker" -> "file"
    [] which = "HrTimer"       -> "timer"
    [] OTHER                   -> "cdev"
Running == IF which = "HrTimer" THEN fn # "idle" ELSE \E c \in Callers : pc[c] # "outside"

Kernel == INSTANCE LoadOrder WITH
  Parts   <- {"buffer", "dir", "file", "region", "cdev", "class", "nodes", "timer"},
  Entries <- {"file", "cdev", "timer"},
  phase   <- IF InLoadOrder THEN phase ELSE "absent",
  stack   <- IF which = "DynDev" THEN DD!standing ELSE IF InLoadOrder THEN stack ELSE <<>>,
  inside  <- IF Running THEN {Inside} ELSE {}

\* However a load fails or ends, and whoever is inside: the parts of a module come down in
\* reverse order, each only when no call runs through it, and none is left.  (mytimer.c,
\* which does not wait, is not asked.)
LoadsInOrder == Kernel!Spec

\* part01/rw.c: the read position passes the end of the message only when calls overlap.
ReadsStayInMessage == which = "ProcBuffer" => PB!ReadsStayInMessage

\* fixdev.c: one process at most has the device, and the counter is right, as long as no two
\* opens overlapped.
OneHolder == which = "FixDev" => FD!OneHolder

\* A timer runs code that is gone only after a del_timer that met a running function, and
\* never after hrtimer_cancel; dyndev.c goes wrong in its exit only when class_create had
\* failed unnoticed.
FaultNeedsCause ==
  /\ which = "MyTimer" => MT!LateCodeNeedsMeeting
  /\ which = "HrTimer" => HT!NoLateCode
  /\ which = "DynDev" => fault = "none" \/ failed

\* Both timers: as long as the module is loaded, the function is called again and again.
TimersGoOn == (which = "MyTimer" => MT!TimerGoesOn) /\ (which = "HrTimer" => HT!TimerGoesOn)

\* task07.c: a read that ran alone shows the seconds since the last one, also across the
\* overflow of 32 bits.
ReadsElapsed == which = "TimingTracker" => TT!ReadsElapsed

\* dice.c: after each round the list is sorted by wins, the last roll and the order before,
\* and the wins are right.
BoardInOrder == which = "Dice" => DI!BoardInOrder

=============================================================================
