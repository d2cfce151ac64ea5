# TLA+ specifications of gl-kernel-basecamp

The repository is a set of exercises of a Linux kernel course: small C programs
and kernel modules that share nothing with each other. What they have in common
is what makes them hard to test. Almost none of them takes a lock, the kernel
calls them from several processes, threads and timers at once, their modules are
unloaded while they are in use, and their conversions end at the boundaries of C
integers and strings. Each module below models one of these programs: TLC checks
it on small instances, and TLAPS proves some of it for every instance.

`PROJECT.json` lists the components, the runs, the source lines every definition
stands for, the hazards with the properties that guard against them, a plausible
bug for every property (operators named `Mut_...` beside what they alter, used
by no specification), and the theorems.

## 1. Inventory

| component | state | operations | what is hard |
|---|---|---|---|
| thread pool, `exercise16/part01/threadpool.c` | block list, two mutexes, a condition variable, the flag `enabled`, the screen and its cursor | `main` reads lines and appends blocks, workers take and print them, `shutdown_threads` | signals after the unlock, a flag outside of the lock, `if` instead of `while` around the wait, the cursor moved by two parties |
| messanger, `task09/messanger.c` | list of messages, one kernel thread each, `m->task` | a write stores a message and starts its thread, the thread prints and ends, unload stops and frees | no lock at all; who frees what and who still uses it; failures that leave half a message |
| reminder, `task08/reminder.c` | list sorted by trigger time, an hrtimer | a write inserts, a read prints the list, the callback prints and frees what is due, unload frees | cursors into a list that others change; 64-bit time; the file outlives the list |
| run-length coder, `task03/` | two files, a count and a byte | `encode`, `decode`, `test.sh` runs both | runs as long as the counter, counts of zero, files that are cut |
| proc reverse, `exercise10/` | buffer, message length, read position | write (`part02/rw.c`: reverses the words in place), reads in pieces, load with three failures, unload | strings without a NUL, empty words, unsigned differences, calls that overlap |
| chat devices, `task06/dyndev.c` | user table, devices, one text buffer, end-of-file flags | device read and write, `add_user`, `reset`, `stat`, load, unload | concurrent `strcat`, a buffer that is replaced in use, flags that all readers share, order of load and unload |
| currency exchange, `task05/part02/exchange.c` | rate, result fields, one text buffer, flags | reads and writes of two files, the rate, load, unload | results and texts shared by all callers, 32-bit products, a rate of zero |
| exclusive device, `exercise11/part01/fixdev.c` | `device_open`, region, device | open, read, release, load, unload | a test and an increment without a lock, undo on failure |
| dynamic devices, `exercise11/part02/dyndev.c` | region, device, class, nodes | open, read, close, load, unload | failures that go unnoticed until the unload |
| kernel timers, `exercise13/` | a timer that is armed again by or after its function | the function, load, unload | unload during the function |
| timing tracker, `task07/task07.c` | `last_jiffies`, class, file | read, load, unload | overlapping reads, unsigned wrap, failures nobody looks at |
| LCD demo, `task04/demo_lcd.c` | frame buffer, pins, the panel's registers | setting up, drawing, transfer in pieces | bounds and clipping, order of commands and data, failures that `main` does not heed |
| dice game, `exercise04/` | list of players with rolls and wins | rounds of rolling, two sorts, counting | ties, an order that depends on the round before, an empty list |
| others | none, or data | scripts, allocation measurements, board support, kernel configurations, fonts | nothing here |

The components do not interact with each other. Inside each, the interaction is
by shared memory, reached through files (`/proc`, `/dev`, class files), timers
and threads. What most of them share is the kernel's protocol for loadable
modules: parts are registered one by one, calls come in as soon as the first
entry stands, and everything has to come down in reverse.

What makes each correct: a block typed is printed once, whole and in order, and
quitting ends; a message or reminder is freed once and only when nobody uses it,
fires when it should, and unload leaves nothing; decode(encode(f)) = f; what is
read is the reversal of the line, the lines of the user, the worth of the
amount; nothing is used before it is made or after it is gone. Much of this
holds only as long as certain calls do not meet. Then the property says which,
by a history variable (`clash`, `mixed`, `overlap`, `clean`...), so that it is a
statement about what still works, and about what each failure needs. Such a
property does not catch the meeting itself, which is in the code and goes wrong
there; it shows that nothing else is needed for the failure, and nothing less.

## 2. Modules

| module | models | composed with |
|---|---|---|
| `Dispatcher` | abstract: blocks are handed out in order, one at a time to a worker | |
| `ThreadPool` | `threadpool.c`; actions `RunnerLoop`...`RunnerFree` are `runner` and `put_char` between two points of interference, `AppendData`/`SignalAppended` are `append_data`, `Disable`...`JoinThreads` are `shutdown_threads`; `Clear`, `GetLine` and `Echo` are what `main` does to the screen, `PutCharMove` and `PutCharWrite` the two halves of `mvaddch` | refines `Dispatcher` (`Queue!Spec`) |
| `ThreadPoolProofs` | theorems on `ThreadPool`, the refinement among them | |
| `Messanger` | `messanger.c`; `Store*` is `messanger_store`, `Thread*` is `func`, `Exit*` is `messanger_exit` | |
| `MessangerLcdProofs` | theorems on `Messanger`, and on `Lcd` | |
| `Reminder` | `reminder.c`; `Store*` is `recorder_store` with `add_message`, `Timer*` is the callback with `trigger_messages`, `Show*` is `print_messages`, `Exit*` is `reminder_exit` | |
| `ReminderProofs` | theorems on `Reminder` | |
| `Rle` | `encoder.c`, `decoder.c`, `test.sh`; one step per byte | |
| `RleProofs` | theorems on `Rle` | |
| `LoadOrder` | abstract: the parts of a module come down in reverse order, none under a running call, and none is left | |
| `ProcBuffer` | `exercise10/part01/rw.c`, lengths only; `WriteBegin`, `WriteEnd` are `example_write`, `ReadBegin`, `ReadEnd` are `example_read`, `MakePart`, `Leave`, `DropPart` load and unload | refines `LoadOrder` |
| `ProcReverse` | `exercise10/part02/rw.c`; as `ProcBuffer`, with `ReverseString` and `ReverseWord` inside the write | refines `ProcBuffer` (`Plain!Spec`) |
| `ProcReverseProofs` | theorems on `ProcReverse`, the refinement among them | |
| `FixDev` | `fixdev.c` with `dev.h`; `OpenTest`, `OpenLoad`, `OpenStore` are `dev_open`, `ReleaseLoad`, `ReleaseStore` are `dev_release`, `Read` is `dev_read` | refines `LoadOrder` |
| `DynDev` | `exercise11/part02/dyndev.c` with `dev.h`; `CreateClass`, `CreateNode` the load, `DestroyNode`, `DropPart` the unload | refines `LoadOrder` |
| `MyTimer`, `HrTimer` | `mytimer.c`, `hrtimer.c`; `Expire` is the kernel, `Rearm`, `Forward`, `Restart` the function, `DelTimer`, `Cancel` the exit | `HrTimer` refines `LoadOrder` |
| `TimingTracker` | `task07.c`; `ShowBegin`, `ShowPrint`, `ShowStore` are `timing_show`, `Tick` is time | refines `LoadOrder` |
| `Dice` | `dice.c` with `players.c`; one step per phase of a round | |
| `Chat` | `task06/dyndev.c`; the handlers cut at each access to the shared buffer, table and flags | |
| `ChatProofs` | theorems on `Chat` | |
| `Exchange` | `exchange.c`; `Read*` are `uah_to_eu_read` and `eu_to_uah_read` down to `exchange_read`, `Write*` is `exchange_write`, `StoreRate` is `exchange_store` | |
| `ExchangeProofs` | theorems on `Exchange` | |
| `Lcd` | `demo_lcd.c`; `Mains` is the sequence of what `main` calls, `pc` is where it is; `SetPin`, `SendPiece` and `SendRest` are `lcd_write_command` and `lcd_write_data`, `FillScreen`, `PutString`, `PutCircle` the drawing, `InitPins`, `ResetPanel`, `OpenDevice`, `FreePins` the rest of `main`; `Reset` to `Received` are the panel | |
| `MCSmallPrograms` | `ProcBuffer`, `FixDev`, `DynDev`, `MyTimer`, `HrTimer`, `TimingTracker`, `Dice` side by side: `which` says which one runs, and the rest stays put | all of them, over shared variables, with `LoadOrder` |
| `SmallProgramsProofs` | theorems on `MCSmallPrograms`, the refinements among them | |
| `MCProcReverse` | lines and memory contents; `racing` chooses between one caller with every line and several with few | |
| `MCMessangerLcd` | `Messanger` and `MCLcd` (`Lcd` on a small panel) side by side, as `MCSmallPrograms` | both |
| other `MC...` | values of constants for TLC | |

`MCSmallPrograms` is a sum, not a product: its states are those of the seven
programs one after the other, and so is
`MCMessangerLcd`. `MCSmallPrograms` exists because they ask the same question, which
is `LoadsInOrder`, and are small. Variables of one meaning (`phase`, `stack`,
`pc`, `fault`) are one variable for all; the nodes of `DynDev` are one part of
`LoadOrder`, made with the first and gone with the last (`standing`).

Conventions. A step is what one thread of execution does between two accesses to
state that another one writes. The kernel or library below is modelled from how
the code uses it (marked `external` in the map): `pthread_cond_wait` may return
by itself, `kthread_run` may fail, `remove_proc_entry` and `class_remove_file`
let no new call in and wait for those inside, `list_add` is a read and a write
of the first link, `list_add_tail` reads `prev` before it writes, `list_del`
with the `kfree` that follows is one step. A call of ncurses is one step, but
`mvaddch` is two, as it moves the cursor and then writes: it fails behind the
last column, and `getnstr` returns with the cursor a row below the one it read.
What a handler stores to a shared variable and loads again to return it
(`bytes_read` of the chat) is two steps, with the `printk` in between.
`class_create` may fail where the code goes on with what it returned: the first
call that follows the error pointer ends the run, while `device_create` given a
NULL class only returns an error. Undefined behaviour is either a
choice among its outcomes (memory that was freed may still hold what it held, or
the kernel dies) or it ends the run in a variable of its own (`crashed`,
`death`, `faulted`, `fault`), and properties say what it takes to get there.
Freed memory is not handed out again within a run.

Data is abstracted to what properties tell apart. A block is its number and
shape; a message has no text; a chat text either ends in a newline or not; a
chat cell is a name or a text; an amount that is written is the number `sscanf`
sees in 16 bytes together with whether those were all the user wrote. Where the
string itself is the point (`ProcReverse`) the model has its characters and the
bytes on both sides of the buffer. Where width is the point the arithmetic has
it: `TriggerTime` saturates and then wraps at `KTimeMax`, `Wrapped` is C's
`int` product, the counter of `decode` is an unsigned char, with the width a
constant that TLC makes small.

## 3. Runs

All runs finish; deadlock is checked in all of them. Systems that stop do so by
a named step (`Stopped`, `Halted`) that only stutters in a state where the
program has ended, hung or died.

| run | instance | what it shows |
|---|---|---|
| `ThreadPool` | 2 workers, 2 blocks of two runs, a screen of one column, spurious wakeups, fair | see below |
| `MessangerLcd` | `messanger.c`: 2 writers, 2 messages; or `demo_lcd.c`: a panel of 8 by 6, pieces of 20 bytes, texts of 3 lengths, one call that fails, any | freed messages and their threads: `FreedOnceAfterThread`, `SettledMessagesFreed`; `ExitCompletes`: `rmmod` returns; `PanelShowsPicture`, `DrawsInside` |
| `Reminder_safety` | 2 writers, the timer, the unload, 3 reminders | `ListWholeAndSorted`, `PassFiresAllDue`, `ExitFreesAll` |
| `Reminder_times` | a writer and a reader, 2 reminders, a delay that overflows | `FaultNeedsClash`, `FiredOnceNotEarly`, `StoredIsFired` |
| `Rle` | every file of up to 7 bytes over 3 values, and every foreign one of up to 5 | `RoundTrip`, `RunsAreMaximal`, `CutFileIsReported` |
| `ProcReverse` | one caller, every line of up to 3 letters and blanks, many of 4, lines that fill or overfill the buffer; or two callers and three lines; two memory contents, load, failure at every point, unload | `ReadsReversal`, `CleanLineStaysInside`, `KeepsProcBuffer` (the refinement) |
| `ProcReverse_stale` | one caller, lines one after the other | a disagreement, section 6 |
| `Chat_races` | 2 processes, one name, room for 2 messages, texts that are lines, users and resets | `BufferIsLog`, `ReadGivesOwnLines`, `NoDeviceLeft` |
| `Chat_faults` | 2 processes, lines and texts without a newline, users, resets and `stat`, room for one message | `FaultsNeedCause`, `FlagBelongsToReader` |
| `Chat_long` | one process, 2 names, 4 users, two buffer sizes | `ReadGivesOwnLines`, `UsersHaveDevices` |
| `Exchange` | 2 processes, 4 inputs, rates 31, 0 and 3, `int` of 16 bits | `ReadsWorth`, `BufferOutlivesCalls` |
| `SmallPrograms` | 2 callers, a buffer of 4, 3 nodes, 32 bits made 0..9 and time from 7 to 19, up to 3 players, 3 rounds | `LoadsInOrder` (the refinements), `ReadsStayInMessage`, `OneHolder`, `FaultNeedsCause`, `TimersGoOn`, `ReadsElapsed`, `BoardInOrder` |

(`TypeOK` of `ThreadPool` and `Rle` is proved, section 4.)

In `ThreadPool`: `AwakeWorkersCoverQueue` (the signal comes after the unlock and
may find nobody asleep, yet no worker sleeps beside blocks that have no awake
worker of their own), `ShutdownWakesSleepers` (as many signals as threads wake
all who slept when the flag was cleared, though others go to sleep and take
signals in between), `CursorReturnsToInput`, `RowsShowWholeBlocks`,
`DispatchesInOrder` (the refinement), `QueueDrains` and `ShutdownCompletes`. The
last one names the case in which the program hangs: a
worker that read `enabled` before it was cleared and enters the wait after the
last signal. `crashed` is the dereference of an empty list that a spurious
wakeup, or a block taken by a third party, leads to.

Both parties move the one cursor, only the workers under `print_lock`:

- `CursorReturnsToInput`: `put_char` finds the window open; with the lock free
  the cursor is never on a row of the workers, and it is on the input row while
  `main` reads. The one exception has a history variable, `astray`: `getnstr` left
  the cursor below the input row, a worker saved that place, `main` moved to the
  input row, and the worker then puts back what it saved. The user types a row
  too low until the next prompt.
- `RowsShowWholeBlocks`: each freed block was printed by one worker, all of its
  characters, and the worker's blocks follow each other. On the screen stands what
  fits: behind the last column `mvaddch` fails, nobody looks, and `p` goes on and
  is never reset, so that the row shows the first `Columns` characters for good.
  That several workers share a cursor does not mix their rows; `main`, who takes
  no lock, may, when it moves or writes between a worker's move and its write
  (`touched`).

In `SmallPrograms`:

- `LoadsInOrder`: however a load fails or ends, and whoever is inside, five
  modules implement `LoadOrder`. `mytimer.c` does not: `del_timer` takes its timer
  down under the running function.
- `FaultNeedsCause` says what that leads to, and when: the function runs code
  that is gone only if `del_timer` met it running. `hrtimer_cancel` waits, and
  there it never happens. `dyndev.c` fails in its exit only after `class_create`
  failed unnoticed in its load.
- `OneHolder`: the device has one holder, and the counter is right, until two
  opens are past the test together. After that it may have two, and the counter
  may stay off, also at -1 with nobody inside, which keeps the device busy for
  good; the model goes on through those states.
- `ReadsElapsed`: also over an overflow of the 32 bits, a read that ran alone
  shows the time since the newest read, unless an older overlapping one stored
  its time last (`behind`). `HZ = 2` makes seconds that are cut short.
- `BoardInOrder`: wins are counted against the history of all rolls; the order
  among equals depends on both sorts being stable, and on the round before.
- `TimersGoOn`: both timers come back until the unload.

Why the bounds are enough for what they are for:

- two actors of each kind suffice for every race named in the hazards, which are
  all between two; with two workers signals can be stolen and blocks picked out
  of turn. `AwakeWorkersCoverQueue` and `ShutdownWakesSleepers` are proved for
  any number.
- `Columns = 1` is filled by the first character of a worker's first block; the
  others of that block, and its second block, meet the edge. `LastRow = 4` leaves the
  input row one row to go down to. The two properties of the screen were also
  checked with two columns and blocks of one and of two runs, which without spurious
  wakeups makes 4.6 million states and is too large to ask for liveness; they are
  proved for any width and any blocks.
- three reminders give a list with a first, a middle and a last element, so that
  each can be unlinked or stood upon. Two messages are enough for a store beside
  another, beside the exit and beside a thread; three, without the liveness
  property, show nothing else (3.3 million states).
- `MaxByte = 2` makes runs longer than the counter short files; seven bytes hold
  three full runs and a rest. `RoundTrip` is proved for all lengths.
- `KTimeMax = 7` with a delay of 9 saturates and wraps within two seconds.
- a buffer of 6 holds several words, empty words and no room for the NUL.
- `SmallPrograms`: lengths and requests are empty, shorter, as long as and longer
  than the buffer of 4; two of three nodes can fail in any combination; time runs
  past the overflow by more than its length; three players have ties of two and
  of all, and three rounds reorder the list twice.
- `MaxUsers = 2` and a chat buffer of 5 cells is reached and passed by two
  processes; the long run has 4 users and 3 messages. `Files` says which of the
  class files a run uses: the races of users and resets do not involve `stat`, and
  all three meet in `Chat_faults`, whose buffer has room for one message: what a
  flag belongs to does not depend on what the buffer holds.
- `Lcd`: 96 bytes are four full pieces and a rest, as 153600 are 153 and a rest;
  a piece ends in the middle of a row, and letters have both colours. One failure
  at a time reaches every call; two would add nothing to `PanelShowsPicture`,
  which speaks of none, and `DrawsInside` does not depend on the wires.
- `Exchange` has one amount written per run (`MaxWrites`; the calls that only
  reset the flag are not counted): what a second amount adds is the wait for the
  flag. With two, the instance is too large to finish.

Symmetry is used only in runs without temporal properties, on processes that are
not told apart.

### Fairness

- `ThreadPool`: each worker and main's own steps are weakly fair: the threads are
  scheduled. The user is not: typing a line, quitting, and spurious wakeups may
  never come. Nothing is assumed of the order in which a mutex is granted.
- `Messanger`: stores that have begun, each message's thread (`schedule_timeout`
  returns) and the exit that has begun; nobody has to write or unload.
- `Reminder`: time passes, the timer interrupt comes, stores and reads that have
  begun go on, and so does an exit that has begun.

- `MyTimer` and `HrTimer`: a timer in the queue expires, and its function goes on
  (`WF` of `TimerStep`); nobody has to unload.

All of it is weak fairness on a step of the code that its thread can take; where
the program dies the fair steps are disabled.

## 4. Proofs

`tlapm` checks the eight `...Proofs` modules to the last leaf. What they assume are
the assumptions on the constants (`WorkersAssumption`, `InputAssumption`,
`MessangerAssumption`, `ReminderAssumption`, `RleAssumption`, `ChatAssumption`,
`ExchangeAssumption`, `ProcReverseAssumption`, `PanelAssumption`, and those of the
small programs, `Assumptions`), which
TLC evaluates for its instances. Every invariant below was checked by TLC before it
was proved. All theorems hold for any number of processes, threads, messages and
so on; the only bounds are those of the code's types (a screen's size has 16 bits).

### Thread pool (`ThreadPoolProofs`)

- `TypeCorrect`: `Spec => []TypeOK`, one step per action.
- `AwakeWorkersCover`: `AwakeWorkersCoverQueue` is inductive together with
  `TypeOK`. The argument counts: a worker goes to sleep only when the list is
  empty, so only an append can endanger the inequality; the one block
  appended is the summand 1 while `mainPc = "signal"`, and the signal that
  follows either wakes a worker (`SignalWakes`) or finds nobody asleep.
  Workers that take a block shorten the list and stay awake.
- `ShutdownWakes`: `ShutdownWakesSleepers` is not inductive. `StopInv` adds the
  count: each signal sent so far either found nobody asleep or put one more
  worker into `Gone` (on the way out of the wait, about to find the flag cleared,
  or gone), and a worker there never sleeps again; so while a sleeper is left,
  at least `signals` workers are gone, and with `Cardinality(Workers)` signals
  none is left.
- `Dispatches`: `ThreadPool` implements `Dispatcher`. The invariant says that the
  list holds the last of the submitted blocks, in order, so that its head is the
  block `Dispatcher` hands out next; each step of a worker or of `main` is then a
  step of `Dispatcher` or none.
- `CursorReturns`: the row the cursor has or will have again, `Home`, is its own
  while the lock is free and the saved one while somebody holds it. `CursorInv` says
  that `Home` is never above the input row once `main` has prompted, and on it while
  `main` reads, unless the holder had saved another before the move (`astray`).
  Nobody prints before `initscr`, as there is no block yet, or after `endwin`, as
  all workers were joined.
- `RowsWhole`: every character a worker has printed belongs to a block it has or had,
  they grow by one character of the block in hand, and the two loop counters say
  how many of them there are (`RowInv`). `ScreenInv` goes from there to the screen:
  as long as `main` was not beside a print, each row shows its worker's characters
  up to the last column and nothing behind them, and a worker that is about to write
  with room left has the cursor at the next free place of its own row.

### Messanger (`MessangerLcdProofs`, first part)

- `FreedOnce`: nothing is locked, but a message is linked in front of older ones
  only, so numbers fall along `next`. The exit walks down them: everything behind
  its cursor was freed, nothing in front of it, and stores that push new messages
  or cut others off do not change that. A thread whose store has returned is
  recorded in `m->task` (`Recorded`), and `kthread_stop` waits for it.
- `SettledFreed`: no link, and not `head`, leads past a message whose `list_add` met
  no other (`Passed`): the store that linked it had the highest number of all
  (`Highest`), and those that came later point to it or to higher ones. So the cursor
  of the exit does not go past it without freeing it.

### Reminder (`ReminderProofs`)

The list is described by its order, not by walking it: `Sooner` is a total order
on the reminders, and as long as no walk was disturbed (`~clash`) each link leads
to the first of those behind it (`ListWholeAndSorted`). `InsertOrdered` and
`DeleteOrdered` say that `list_add_tail` and `list_del` at the right places keep
that, for any order. What the invariant adds is where the cursors stand:

- a store that walks has passed exactly what goes before its own reminder, so
  the place it links to is the right one (`ListSorted`);
- the callback's and the exit's cursor have what is still to be dealt with ahead
  of them; stores insert beside them, and what was listed and due when the pass
  began is freed or ahead (`PassComplete`, `ExitComplete`);
- nobody stands on a freed node unless a `clash` or `readClash` came before
  (`FaultsExplained`).

`FiredRight` needs none of this and holds after a clash as well, when the list may
be in pieces. `LinksInv` says only that links and cursors lead to reminders that were
stored, whose times are filled in and never change again; `FireInv` that all that
was printed is freed and that the callback never stands on a freed reminder without a
fault: `list_for_each_safe` reads the link of the next one as soon as it has freed
the last, so a dangling `in` is met before it could be printed a second time.
`LinksInv` and `FireInv` were checked by TLC with two writers and three reminders (4
million states, not one of the runs) before they were proved.

### Run-length coder (`RleProofs`)

- `TypeCorrect`: counts and bytes stay unsigned chars. For `decode`
  this rests on the count being tested before it is decremented.
- `DecodedIsInput`: `RoundTrip` for files of any length and any `MAX_COUNT`. The
  history `start` says where each run begins; `RunsCover` says that the pairs
  written so far describe the input up to there, `PendingCovers` that the pending
  count describes the rest that was read; `DecInv` says that what was decoded is
  the input up to the start of the present pair plus what of it was emitted.
- `RunsMaximal`: each pair that was written is full or was ended by a different byte,
  which is the pending one for the last of them.
- `CutReported`: the decoder, when it runs alone, has read two bytes for every pair,
  so where it stands tells whether the file was cut.

### Small programs (`SmallProgramsProofs`)

The theorems are those of `MCSmallPrograms`, whose behaviours each run one program
(`OneProgramRuns`), so each rests on invariants of the single modules.

- `ReadsStay`: `ReadsStayInMessage` for any callers, buffer, lengths written and
  lengths asked for. As long as no call was beside the last write or a read since,
  one caller at most is inside, what it copies ends inside of the message, and
  nobody else has a `take` to add (`BufferInv`). Before the file exists nothing has
  happened, and unloading never brings the file back, which are facts about
  prefixes of the sequence of parts.
- `DeviceIsExclusive`: `OneHolder` for any set of callers. `OneInDevice` strengthens
  it: as long as no two opens overlapped, nobody is anywhere in a call or in the
  device beside another, the counter says how far that one has come, and the value
  it loaded is still the counter's. The test of an open that is alone then finds 0
  only if nobody is inside.
- `LateCodeHasCause`: `FaultNeedsCause`. Once `del_timer` has met no running function
  the timer is neither armed nor running (`TimerInv`), and nothing arms it again;
  `hrtimer_cancel` leaves only when that is so (`CancelInv`).
- `ElapsedShown`: `ReadsElapsed` for any callers, `HZ`, width of the clock and time.
  A read that ran alone has sampled a time later than the last one stored, and
  unless an older read was stored last, `last_jiffies` is the newest time, cut to
  its width (`TimingInv`). The rest is arithmetic: the difference of two remainders
  has the remainder of the difference (`DifferenceWraps`), so that the overflow does
  no harm to an interval shorter than the width, and hours, minutes and seconds are
  the digits of the time (`ClockDigits`).
- `ModulesLoad`: `LoadsInOrder`, for any callers, number of nodes and failures. `Seen`
  is the program as the kernel sees it, whichever it is. The parts that stand are a
  prefix of the order in which they are made (`BufferLoadInv`, `DeviceLoadInv`) or a
  subsequence where a failure goes unnoticed (`TimingLoadInv`), so the next to be
  made is not there yet, the last is the one dropped, and a call inside holds the
  one it came through. In `dyndev.c` the nodes are made and destroyed by the same
  numbers, so that none is left when the loop of `dev_exit` is done (`NodesInv`).

- `BoardSorted`: `BoardInOrder` for any number of players, rolls and rounds. `Sorted`
  says what a stable sort gives place by place: in the `k`-th is the one that `k - 1`
  others go before. That each place is taken, and by one player only, is the pigeonhole
  principle (`SortGives`): going before is a strict total order, so the numbers of
  those ahead are all different. `BoardInv` says what holds between the phases: once the
  dice are rolled the wins lack the last round, who is first in the sorted list
  has its best sum, and the second sort leaves equals as the first one put them.

### Proc reverse (`ProcReverseProofs`)

What the reversal leaves behind is built up over two loops that work in place, so
`TextInv` follows the memory byte by byte. Before the file exists nothing has
happened; while no calls overlap one caller at most is inside and what was read is
the memory up to the read position; and if the line met its NUL (`TextRight`):

- after the copy the memory holds the line and its NUL;
- between the two halves of the reversal it is the mirror image up to the word the
  second loop has come to (`HalfDone`): the words before it have their letters back
  in order, those behind it are still backwards. `Mirrored` swaps two bytes in each
  turn; that it ends with the interval mirrored, and touches nothing beside it, is
  shown of the function it is, and `WordStands`, `WordDone` say what one turn of
  the outer loop finds and leaves;
- when the call is over the memory is `Reversed(line)`, which is stated for each
  place on its own: the word that covers it, and its distance from there.

`ReadsReversalHolds` and `CleanLineStaysInsideHolds` follow. `KeepsProcBufferHolds`
is the refinement: the reversal is a stutter of the plain file, whose `msgLength`,
`readPos` and `take` are the same, so that `ReadsStay` holds of this file too.

### Chat devices (`ChatProofs`)

- `FlagsBelong`: while readers of a kind do not meet there is one session at a
  time, and the flag is set only from the store of its first read to that of its
  last; a module that leaves has no open device, so the reads of one cannot be cut
  short.
- `DevicesGone` and `DevicesMade`: while no two `add_user` meet, one process at most is
  adding, the next minor has a device only while it does, and its place in the
  table is filled between the store and the bump. So counting up to `user_count`
  reaches all devices.
- `LogBuffered`: `BufferIsLog` is inductive only with what happens inside of a write.
  `CellsLaidOut` and `WriterPlaced` say where the one writer is: at the end of the
  messages (`strcat` found it), behind its name with one empty cell left (the scan
  will find that), or there, about to copy the text. `NamesRight` adds that names
  do not change under it, which needs the invariant of the users: `strcpy` into
  the table only ever fills an empty place.
- `FaultsCaused` needs the readers too (`ReadersPlaced`): they stand between the start
  and the end of the messages, at the start of a message if the texts are lines and
  nothing was written beside them. A reset waits for nobody, but who reads
  then holds the old buffer. That a line has an end needs the least element of a
  set of naturals (`LeastNatural`, from the well-foundedness of `<`).
- `OwnLinesGiven`: `ReadGivesOwnLines`. The place of a message in what the reader was
  given is the number of its messages up to it, so the property is about ranks in a
  set. `LinesInv` adds where the reader stands: at the start of line `k` it was
  given exactly its messages before `k`, and behind the name what goes with it. A write or a reset that
  could move the lines makes it unsteady; another reader touches only its own. What
  the call returns is another matter, as all readers share `bytes_read`: `CountInv`
  says that it is the length of what was copied while the reader is on its way from the
  store to the reload, for as long as no two sessions have met (`~broken`). Once
  they have, the data is still right and the length need not be.

### Currency exchange (`ExchangeProofs`)

- `BufferOutlives`: the buffer is made before the files and freed behind them, on
  the error paths too; a call is inside of a file that exists.
- `ReadsGiveWorth`: what runs beside a clean read is a clean read of the same file,
  and all of those compute the same result from the same amount and rate, so it
  does not matter whose result or text a reader finds. That C's divisions give the
  worth (`Worth`) is a matter of nonlinear lemmas about quotients and remainders.

### LCD demo (`MessangerLcdProofs`, second part)

`MCLcd` gives `Lcd`'s `pc` and `i` names that `Messanger` does not use, so that both
can be extended. Screen, pieces, font, texts and circles are any that fit
`LcdAssumption`: texts and circles are on the screen, whose sizes have 16 bits,
and the data of a register goes in one piece (`DATA_SIZE` is 1000).

- `DrawingInside`: `DrawsInside`. `Drawn` says more than the property: the buffer has
  the colour of each point of the screen in that point's cell, its bytes swapped.
  Points and cells are one to one (`ScreenAndCells`), `Rectangles` computes what
  `lcd_fill_rectangle` clips, and `TextsOnScreen` that both strings fit.
- `PictureShown`: `PanelShowsPicture`. `MainTable` and `Kinds` say which operation is at
  which place of the sequence that `main` goes through, and `SetUpTo` what the
  panel has of it when `main` stands there: which command data would
  belong to, and what the registers hold (`SetUpGoes`, one case per operation). A
  frame comes in pieces of any length, odd ones too: `ShownTo` says that after `n`
  bytes the panel is at pixel `n \div 2`, has kept the byte that is left over, and
  shows all points before. `PixelsFill` is one piece: the pixels that come hit each
  its own cell, as the panel goes through the window in the order of the buffer.
  After `2 * Width * Height` bytes it is back at the first pixel, which is why the
  second frame needs no `RAMWR`. All that holds while no call failed (`Wired`);
  `Position` and `Drawn` always do.

### Only model-checked

- Liveness (`QueueDrains`, `ShutdownCompletes`, `ExitCompletes`, `StoredIsFired`,
  `TimersGoOn`) and anything with `ENABLED`, which the prover does not do.

No module declares a `RECURSIVE` operator.

## 5. Not modelled

- Lengths of texts, names and lines where no property is about them:
  `getnstr(buffer, 256)` into 256 bytes, the page that `print_messages` fills
  with the whole size as the limit of every line, 16-character names of the chat.
- In the thread pool: a line of input that is longer than its row, keys that erase,
  characters of more than one column, a terminal too small for the rows of the
  workers. Where the cursor stands in its row is kept only on the workers' rows.
- In the chat: a text has its newline at its end or none, so that one with several
  lines, of which only the first is given to the reader it is for, is left out; so are
  the length that a reader asks for and a `copy_from_user` that copies a part.
- In `exchange.c` the hundredths are printed without a leading zero ("1.6" for
  1.06) and each number with its own sign; the model keeps the two numbers.
- Allocations that fail in a store (`messanger.c`, `reminder.c`), arguments and
  files that cannot be opened (`task03`), the leaked list node of
  `g_list_remove_link`, device permissions of the chat.
- Components without a module, as they have nothing to check: scripts, modules
  that only print (`tick.c` and `interv.c` among them), measurements, `tests.c` of
  the dice game, configuration data, fonts, the board's register driver and
  `keys.c`, which polls a pin through it. `task05/part02/rw.c` is not built.
- Loading a module a second time: every load starts from fresh memory.
- In `fixdev.c` and `dyndev.c` the choice of the major number; the texts that
  `task07.c` and `dice.c` print; the end of the input of `dice.c`, which is not
  `q` and lets the game roll on for ever.

- In `demo_lcd.c` the voltages, the curves and the glyphs; the descriptor that
  `gpio_init` opens first and never closes; `gpio_get_value`, which nothing calls.
  `lcd_fill_screen` leaves the last column and row as they were, which the model
  has and no document denies.

## 6. Findings

`ReversesWords` (run `ProcReverse_stale`): the module describes itself as
reversing the words of the string. A write puts no NUL behind the message,
`strlen` runs into what a longer line left there before, and the reader gets a
piece of both. `ReadsReversal` shows that this is the only reason for lines of
several words: from a NUL on, the reversal is right. (A line of one word comes
back with its letters reversed, as `reverse_string` returns before it puts them
back.)

## 7. What is left

Every component with behaviour of its own has its module, and every safety property of
the passing runs is proved for all values of the constants. What comes next needs
another tool:

- Liveness and `ENABLED`, with a prover that does both.
