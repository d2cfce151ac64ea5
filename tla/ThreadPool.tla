----------------------------- MODULE ThreadPool -----------------------------
(***************************************************************************)
(* exercise16/part01/threadpool.c: main reads lines "c length number" from *)
(* the terminal and appends each as a block to data_list; worker threads   *)
(* take the blocks and print each on the worker's own row.  The list is    *)
(* guarded by `mutex', workers sleep on `cond', the screen is guarded by   *)
(* `print_lock', and the flag `enabled' is read and written without a lock.*)
(*                                                                         *)
(* Every action stands for the code between two points where another       *)
(* thread can interfere: a lock, a wait, a sleep, an access to `enabled',  *)
(* a call that moves the one cursor of the ncurses window.                 *)
(***************************************************************************)
EXTENDS Naturals, Sequences, FiniteSets

CONSTANTS
  THREAD_COUNT,     \* the number of threads that init_threads creates
  Nobody,           \* "no thread": the holder of a free lock
  Columns,          \* the width of the terminal
  LastRow,          \* the last row of the terminal
  Shapes,           \* the [len, num] pairs the user may type
  MaxBlocks,        \* bound: the number of blocks the user types in a run
  SpuriousWakeups   \* whether pthread_cond_wait may return by itself

Workers  == 0..THREAD_COUNT - 1   \* a thread is its aux[i].n, the row it prints on
InputRow == THREAD_COUNT + 1      \* the row main moves to before it reads a line

ASSUME WorkersAssumption ==
  /\ THREAD_COUNT \in Nat \ {0}
  /\ Nobody \notin Workers
ASSUME TerminalAssumption ==
  /\ Columns \in Nat \ {0}
  /\ LastRow \in Nat /\ LastRow >= InputRow
ASSUME InputAssumption ==
  /\ Shapes \subseteq [len : Nat, num : Nat]
  /\ MaxBlocks \in Nat
  /\ SpuriousWakeups \in BOOLEAN

VARIABLES
  pc,         \* where each worker is in runner
  mainPc,     \* where main is
  enabled,    \* the run flag
  mutex,      \* the worker holding mutex, or Nobody
  printLock,  \* the worker holding print_lock, or Nobody
  submitted,  \* history: the shape of every block appended; a block is its index
  dataList,   \* data_list, a sequence of blocks
  data,       \* the block each worker holds (0: none)
  i, j,       \* the loop counters of runner
  freed,      \* the blocks passed to free
  text,       \* the characters each worker gave to put_char; p is their number
  screen,     \* what stands on the rows of the workers
  window,     \* "none", "on" after initscr, "off" after endwin
  cursor,     \* the ncurses cursor; outside the rows of the workers x is left 0
  saved,      \* the cursor put_char read with getyx
  touched,    \* history: main wrote or moved the cursor in the middle of a print
  astray,     \* history: a worker will undo the move that main made last
  signals,    \* i of the loop of pthread_cond_signal in shutdown_threads
  sleepers,   \* history: the workers asleep when enabled became 0
  crashed     \* the process died on data_list->data with an empty list

listVars   == <<submitted, dataList, data, freed>>
screenVars == <<text, screen, window, cursor, saved, printLock, touched, astray>>
stopVars   == <<enabled, signals, sleepers>>
vars == <<pc, mainPc, mutex, i, j, crashed, listVars, screenVars, stopVars>>

Space == 0              \* the character ' '; a block's own character is its index
Typed == MaxBlocks + 1  \* a character that the user types

At(y, x) == [y |-> y, x |-> x]

Waiting == {w \in Workers : pc[w] = "wait"}

-----------------------------------------------------------------------------
(* The worker threads *)

Goto(w, here, there) == pc[w] = here /\ pc' = [pc EXCEPT ![w] = there]

\* while (enabled): one unlocked read of the flag.
RunnerLoop(w) ==
  /\ Goto(w, "loop", IF enabled THEN "lock" ELSE "exited")
  /\ UNCHANGED <<mainPc, mutex, i, j, crashed, listVars, screenVars, stopVars>>

\* Lock mutex; with an empty list pthread_cond_wait releases it and sleeps.
RunnerLock(w) ==
  /\ mutex = Nobody
  /\ \/ /\ dataList = <<>>
        /\ Goto(w, "lock", "wait")
        /\ UNCHANGED mutex
     \/ /\ dataList # <<>>
        /\ Goto(w, "lock", "check")
        /\ mutex' = w
  /\ UNCHANGED <<mainPc, i, j, crashed, listVars, screenVars, stopVars>>

\* POSIX lets pthread_cond_wait return although nobody signalled.
SpuriousWakeup(w) ==
  /\ SpuriousWakeups
  /\ Goto(w, "wait", "relock")
  /\ UNCHANGED <<mainPc, mutex, i, j, crashed, listVars, screenVars, stopVars>>

\* pthread_cond_wait takes mutex again before it returns.  The list is not
\* looked at again: the wait sits under an `if', not a `while'.
RunnerRelock(w) ==
  /\ mutex = Nobody
  /\ Goto(w, "relock", "check")
  /\ mutex' = w
  /\ UNCHANGED <<mainPc, i, j, crashed, listVars, screenVars, stopVars>>

\* g_list_remove_link (mutant: its result is not assigned).
Mut_RemoveFirst(list) == list
RemoveFirst(list) == Tail(list)

\* Lines 56-62, holding mutex: leave when disabled, else take the first block.
RunnerTake(w) ==
  /\ \/ /\ ~enabled
        /\ Goto(w, "check", "exited")
        /\ mutex' = Nobody
        /\ UNCHANGED <<dataList, data, i, j, crashed>>
     \/ /\ enabled
        /\ dataList # <<>>
        /\ Goto(w, "check", "print")
        /\ mutex' = Nobody
        /\ data' = [data EXCEPT ![w] = Head(dataList)]
        /\ dataList' = RemoveFirst(dataList)
        /\ i' = [i EXCEPT ![w] = 0]
        /\ j' = [j EXCEPT ![w] = 0]
        /\ UNCHANGED crashed
     \/ /\ enabled
        /\ dataList = <<>>
        /\ pc[w] = "check"
        /\ crashed' = TRUE
        /\ UNCHANGED <<pc, mutex, dataList, data, i, j>>
  /\ UNCHANGED <<mainPc, submitted, freed, screenVars, stopVars>>

Shape(w) == submitted[data[w]]

\* The outer for loop has run number_of_blocks times.
BlockDone(w) == i[w] = Shape(w).num

\* print_lock is free (mutant: put_char does not wait for it).
Mut_PrintLockFree == TRUE
PrintLockFree == printLock = Nobody

\* put_char: take print_lock and remember the cursor.
PutCharLock(w) ==
  /\ Goto(w, "print", "move")
  /\ ~BlockDone(w)
  /\ PrintLockFree
  /\ printLock' = w
  /\ saved' = [saved EXCEPT ![w] = cursor]
  /\ UNCHANGED <<mainPc, mutex, i, j, crashed, listVars, stopVars>>
  /\ UNCHANGED <<text, screen, window, cursor, touched, astray>>

\* Column i->p is on the screen.
RoomLeft(w) == Len(text[w]) < Columns

\* mvaddch is wmove and waddch; wmove fails behind the last column, and then
\* the character is not written.  main may move the cursor between the two.
PutCharMove(w) ==
  /\ Goto(w, "move", "write")
  /\ cursor' = IF RoomLeft(w) THEN At(w, Len(text[w])) ELSE cursor
  /\ UNCHANGED <<mainPc, mutex, i, j, crashed, listVars, stopVars>>
  /\ UNCHANGED <<text, screen, window, saved, printLock, touched, astray>>

\* waddch: the character stands where the cursor is, and the cursor goes on,
\* behind the last column to the next row.
Behind(at) ==
  IF at.x + 1 < Columns THEN At(at.y, at.x + 1) ELSE At(at.y + 1, 0)

Put(c) ==
  IF cursor.y \in Workers
  THEN /\ screen' = [screen EXCEPT ![cursor.y][cursor.x] = c]
       /\ cursor' = Behind(cursor)
  ELSE UNCHANGED <<screen, cursor>>

\* The second half of mvaddch, and ++i->p, which does not ask how it went.
PutCharWrite(w) ==
  LET c == IF j[w] < Shape(w).len THEN data[w] ELSE Space
  IN  /\ Goto(w, "write", "restore")
      /\ IF RoomLeft(w) THEN Put(c) ELSE UNCHANGED <<screen, cursor>>
      /\ text' = [text EXCEPT ![w] = Append(@, c)]
      /\ UNCHANGED <<mainPc, mutex, i, j, crashed, listVars, stopVars>>
      /\ UNCHANGED <<window, saved, printLock, touched, astray>>

\* move(y, x); refresh(); release print_lock; then sleep(1).  y and x are gone.
PutCharUnlock(w) ==
  /\ Goto(w, "restore", "sleep")
  /\ cursor' = saved[w]
  /\ saved' = [saved EXCEPT ![w] = At(0, 0)]
  /\ printLock' = Nobody
  /\ UNCHANGED <<mainPc, mutex, i, j, crashed, listVars, stopVars>>
  /\ UNCHANGED <<text, screen, window, touched, astray>>

\* After sleep(1): `enabled' is tested after a character, not after the space.
RunnerSleep(w) ==
  /\ \/ /\ Goto(w, "sleep", "exited")
        /\ j[w] < Shape(w).len
        /\ ~enabled
        /\ UNCHANGED <<i, j>>
     \/ /\ Goto(w, "sleep", "print")
        /\ j[w] < Shape(w).len
        /\ enabled
        /\ j' = [j EXCEPT ![w] = @ + 1]
        /\ UNCHANGED i
     \/ /\ Goto(w, "sleep", "print")
        /\ j[w] = Shape(w).len
        /\ i' = [i EXCEPT ![w] = @ + 1]
        /\ j' = [j EXCEPT ![w] = 0]
  /\ UNCHANGED <<mainPc, mutex, crashed, listVars, screenVars, stopVars>>

\* The block is printed: free(data) and loop.
RunnerFree(w) ==
  /\ Goto(w, "print", "loop")
  /\ BlockDone(w)
  /\ freed' = freed \cup {data[w]}
  /\ data' = [data EXCEPT ![w] = 0]
  /\ UNCHANGED <<mainPc, mutex, i, j, crashed, submitted, dataList, screenVars, stopVars>>

Runner(w) ==
  \/ RunnerLoop(w)  \/ RunnerLock(w)   \/ RunnerRelock(w) \/ RunnerTake(w)
  \/ PutCharLock(w) \/ PutCharMove(w)  \/ PutCharWrite(w) \/ PutCharUnlock(w)
  \/ RunnerSleep(w) \/ RunnerFree(w)

-----------------------------------------------------------------------------
(* The main thread *)

\* pthread_cond_signal: some sleeper, if there is one, leaves the wait.
WakeOne ==
  \/ Waiting = {} /\ pc' = pc
  \/ \E w \in Waiting : Goto(w, "wait", "relock")

\* init_threads runs before init_ncurses: workers start with no window.
CreateThread(w) ==
  /\ mainPc = "create"
  /\ Goto(w, "unborn", "loop")
  /\ \A v \in Workers : v < w => pc[v] # "unborn"
  /\ mainPc' = IF w = THREAD_COUNT - 1 THEN "initscr" ELSE "create"
  /\ UNCHANGED <<mutex, i, j, crashed, listVars, screenVars, stopVars>>

InitNcurses ==
  /\ mainPc = "initscr" /\ mainPc' = "prompt"
  /\ window' = "on"
  /\ UNCHANGED <<pc, mutex, i, j, crashed, listVars, stopVars>>
  /\ UNCHANGED <<text, screen, cursor, saved, printLock, touched, astray>>

\* A worker is between its wmove and its waddch.
MidPrint == \E w \in Workers : pc[w] = "write"

\* move(THREAD_COUNT + 1, 0), without print_lock.
Prompt ==
  /\ mainPc = "prompt" /\ mainPc' = "clear"
  /\ cursor' = At(InputRow, 0)
  /\ touched' = (touched \/ MidPrint)
  /\ astray' = \E w \in Workers : printLock = w /\ saved[w].y # InputRow
  /\ UNCHANGED <<pc, mutex, i, j, crashed, listVars, stopVars>>
  /\ UNCHANGED <<text, screen, window, saved, printLock>>

\* clrtoeol() clears from the cursor on, wherever the cursor is by now.
Clear ==
  /\ mainPc = "clear" /\ mainPc' = "read"
  /\ screen' = [w \in Workers |-> [x \in 0..Columns - 1 |->
                  IF cursor.y = w /\ x >= cursor.x THEN Space ELSE screen[w][x]]]
  /\ touched' = (touched \/ cursor.y \in Workers)
  /\ UNCHANGED <<pc, mutex, i, j, crashed, listVars, stopVars>>
  /\ UNCHANGED <<text, window, cursor, saved, printLock, astray>>

\* getnstr echoes what the user types where the cursor is.
Echo ==
  /\ mainPc = "read"
  /\ cursor.y \in Workers
  /\ Put(Typed)
  /\ touched' = TRUE
  /\ UNCHANGED <<pc, mainPc, mutex, i, j, crashed, listVars, stopVars>>
  /\ UNCHANGED <<text, window, saved, printLock, astray>>

\* The user ends the line: getnstr returns with the cursor on the next row, if
\* there is one.
GetLine ==
  /\ mainPc = "read" /\ mainPc' = "parse"
  /\ cursor' = At(IF cursor.y < LastRow THEN cursor.y + 1 ELSE cursor.y, 0)
  /\ touched' = (touched \/ MidPrint)
  /\ UNCHANGED <<pc, mutex, i, j, crashed, listVars, stopVars>>
  /\ UNCHANGED <<text, screen, window, saved, printLock, astray>>

\* g_list_append.
Enqueue(list, b) == Append(list, b)

\* A line that parses: append_data up to the release of mutex.
AppendData(shape) ==
  /\ mainPc = "parse" /\ mainPc' = "signal"
  /\ Len(submitted) < MaxBlocks
  /\ mutex = Nobody
  /\ submitted' = Append(submitted, shape)
  /\ dataList' = Enqueue(dataList, Len(submitted) + 1)
  /\ UNCHANGED <<pc, mutex, i, j, crashed, data, freed, screenVars, stopVars>>

\* Mutants: signal only when the list was empty before; never signal.
Mut_SignalIfFirst == IF Len(dataList) = 1 THEN WakeOne ELSE pc' = pc
Mut_NoSignal == pc' = pc
WakeForBlock == WakeOne

\* The pthread_cond_signal of append_data comes after the unlock.
SignalAppended ==
  /\ mainPc = "signal" /\ mainPc' = "prompt"
  /\ WakeForBlock
  /\ UNCHANGED <<mutex, i, j, crashed, listVars, screenVars, stopVars>>

\* A line that does not parse ends the loop; shutdown_threads clears
\* `enabled' without taking mutex.
Disable ==
  /\ mainPc = "parse" /\ mainPc' = "stop"
  /\ enabled' = FALSE
  /\ sleepers' = Waiting
  /\ UNCHANGED <<pc, mutex, i, j, crashed, signals, listVars, screenVars>>

\* shutdown_threads signals THREAD_COUNT times (mutant: one too few).
Mut_OneSignalLess == Cardinality(Workers) - 1
ShutdownSignals == Cardinality(Workers)

SignalShutdown ==
  /\ mainPc = "stop"
  /\ signals < ShutdownSignals
  /\ WakeOne
  /\ signals' = signals + 1
  /\ UNCHANGED <<mainPc, mutex, i, j, crashed, enabled, sleepers, listVars, screenVars>>

AllSignalled == mainPc = "stop" /\ signals = ShutdownSignals

AllJoined == \A w \in Workers : pc[w] = "exited"

\* pthread_join of every worker, then the mutexes and cond are destroyed.
JoinThreads ==
  /\ AllSignalled
  /\ AllJoined
  /\ mainPc' = "endwin"
  /\ UNCHANGED <<pc, mutex, i, j, crashed, listVars, screenVars, stopVars>>

ShutdownNcurses ==
  /\ mainPc = "endwin" /\ mainPc' = "done"
  /\ window' = "off"
  /\ UNCHANGED <<pc, mutex, i, j, crashed, listVars, stopVars>>
  /\ UNCHANGED <<text, screen, cursor, saved, printLock, touched, astray>>

\* What main does by itself, and what it does when the user types.
MainStep ==
  \/ \E w \in Workers : CreateThread(w)
  \/ InitNcurses \/ Prompt \/ Clear
  \/ Disable \/ \E shape \in Shapes : AppendData(shape)
  \/ SignalAppended \/ SignalShutdown \/ JoinThreads \/ ShutdownNcurses
UserLine == Echo \/ GetLine

-----------------------------------------------------------------------------

\* pthread_join never returns: the flag and the signals came too late for w.
Stranded(w) == AllSignalled /\ pc[w] = "wait"
Hung == /\ \E w \in Workers : Stranded(w)
        /\ \A w \in Workers : pc[w] \in {"wait", "exited"}

Stopped == (mainPc = "done" \/ crashed \/ Hung) /\ UNCHANGED vars

Init ==
  /\ pc = [w \in Workers |-> "unborn"]
  /\ mainPc = "create"
  /\ enabled = TRUE
  /\ mutex = Nobody /\ printLock = Nobody
  /\ submitted = <<>> /\ dataList = <<>>
  /\ data = [w \in Workers |-> 0]
  /\ i = [w \in Workers |-> 0] /\ j = [w \in Workers |-> 0]
  /\ freed = {}
  /\ text = [w \in Workers |-> <<>>]
  /\ screen = [w \in Workers |-> [x \in 0..Columns - 1 |-> Space]]
  /\ window = "none"
  /\ cursor = At(0, 0) /\ saved = [w \in Workers |-> At(0, 0)]
  /\ touched = FALSE /\ astray = FALSE
  /\ signals = 0 /\ sleepers = {}
  /\ crashed = FALSE

Next ==
  \/ ~crashed /\ (MainStep \/ UserLine)
  \/ ~crashed /\ \E w \in Workers : Runner(w) \/ SpuriousWakeup(w)
  \/ Stopped

\* The kernel runs every runnable thread; nothing is assumed of the order in
\* which a mutex is granted, nor of the user.
Fairness ==
  /\ \A w \in Workers : WF_vars(~crashed /\ Runner(w))
  /\ WF_vars(~crashed /\ MainStep)

Spec == Init /\ [][Next]_vars
FairSpec == Spec /\ Fairness

-----------------------------------------------------------------------------
(* Properties *)

Taken == Len(submitted) - Len(dataList)

Place == [y : 0..LastRow, x : 0..Columns - 1]

\* The type of every variable.
TypeOK ==
  /\ pc \in [Workers -> {"unborn", "loop", "lock", "wait", "relock", "check",
                         "print", "move", "write", "restore", "sleep", "exited"}]
  /\ mainPc \in {"create", "initscr", "prompt", "clear", "read", "parse",
                 "signal", "stop", "endwin", "done"}
  /\ enabled \in BOOLEAN /\ crashed \in BOOLEAN
  /\ mutex \in Workers \cup {Nobody} /\ printLock \in Workers \cup {Nobody}
  /\ submitted \in Seq([len : Nat, num : Nat])
  /\ dataList \in Seq(Nat)
  /\ data \in [Workers -> Nat]
  /\ i \in [Workers -> Nat] /\ j \in [Workers -> Nat]
  /\ freed \subseteq Nat
  /\ text \in [Workers -> Seq(Nat)]
  /\ screen \in [Workers -> [0..Columns - 1 -> Nat]]
  /\ window \in {"none", "on", "off"}
  /\ cursor \in Place /\ saved \in [Workers -> Place]
  /\ touched \in BOOLEAN /\ astray \in BOOLEAN
  /\ signals \in 0..Cardinality(Workers)
  /\ sleepers \subseteq Workers

\* append_data signals after it has released mutex and the signal may find
\* nobody asleep.  Even so a worker never sleeps while blocks pile up: as long
\* as one sleeps, each queued block has a worker of its own that is awake,
\* but for the block whose signal main is about to send.
AwakeWorkersCoverQueue ==
  enabled /\ Waiting # {} =>
    Len(dataList) <= Cardinality(Workers \ Waiting)
                       + (IF mainPc = "signal" THEN 1 ELSE 0)

\* shutdown_threads sends as many signals as there are threads.  Workers may
\* still go to sleep between two of them and take a signal meant for another;
\* yet after the last one every worker that slept when `enabled' was cleared
\* is awake.
ShutdownWakesSleepers == AllSignalled => sleepers \cap Waiting = {}

\* Where main is from its first prompt on to the next one, and while it reads.
Reading  == {"clear", "read"}
Prompted == Reading \cup {"parse", "signal", "stop", "endwin", "done"}

\* The workers start before initscr and stop before endwin, and only an appended block
\* makes one print: put_char always finds the window open.  The workers move the cursor
\* away and back under print_lock, main moves it without: once main has prompted, no
\* worker ever leaves the cursor on a worker's row, and while main waits for a line
\* with print_lock free the cursor is on the input row, unless a worker had saved
\* another row before main moved the cursor and has put it back there since.
CursorReturnsToInput ==
  /\ \A w \in Workers : pc[w] \in {"move", "write", "restore"} => window = "on"
  /\ printLock = Nobody => /\ mainPc \in Prompted => cursor.y >= InputRow
                           /\ mainPc \in Reading /\ ~astray => cursor.y = InputRow

Printed(b, w) == Cardinality({k \in DOMAIN text[w] : text[w][k] = b})

\* A block that was freed was printed whole by exactly one worker, length * number
\* characters of it, and a worker prints its blocks in the order they were typed, none
\* inside another.  The characters stand on the worker's row one after the other, up
\* to the last column, however the workers share the one cursor, as long as main has
\* not written or moved the cursor between a worker's move and its write.
RowsShowWholeBlocks ==
  /\ \A b \in freed : \E w \in Workers :
       /\ Printed(b, w) = submitted[b].len * submitted[b].num
       /\ \A v \in Workers \ {w} : Printed(b, v) = 0
  /\ \A w \in Workers : \A k, l \in DOMAIN text[w] :
       k < l /\ text[w][l] # Space => text[w][k] <= text[w][l]
  /\ ~touched => \A w \in Workers : \A x \in 0..Columns - 1 :
       screen[w][x] = IF x < Len(text[w]) THEN text[w][x + 1] ELSE Space

\* The pool hands blocks to workers as Dispatcher says.
Queue == INSTANCE Dispatcher WITH
  count <- Len(submitted), taken <- Taken, running <- data, finished <- freed
DispatchesInOrder == Queue!Spec

\* A block that was appended is taken by a worker in the end, unless the user quits
\* or the process dies.
QueueDrains ==
  \A b \in 1..MaxBlocks :
    (\E k \in DOMAIN dataList : dataList[k] = b)
      ~> (Taken >= b \/ ~enabled \/ crashed)

\* Once the user quits, the program ends, unless it dies or a worker that was
\* awake when the flag was cleared went to sleep after the last signal: it had
\* read the flag in the while condition before.
ShutdownCompletes ==
  ~enabled ~> (mainPc = "done" \/ crashed
               \/ \E w \in Workers \ sleepers : Stranded(w))

=============================================================================
