-------------------------------- MODULE Chat --------------------------------
(***************************************************************************)
(* task06/dyndev.c: writing to /dev/chat_NAME appends "NAME: text" to one  *)
(* buffer; reading it gives the lines of NAME, and reading chat_all gives  *)
(* all.  /proc/chat/add_user makes a user and its device, reset replaces   *)
(* the buffer, stat reports on it.                                         *)
(*                                                                         *)
(* Nothing is locked.  A cell of the buffer holds "NAME: " or a text; the  *)
(* first empty cell is the NUL that ends the string.  The end of file of   *)
(* a read is a count shared by all readers (bytes_read, and sent for stat) *)
(* that each call stores, and loads again to return it.                    *)
(* What the code does to memory it does not own ends the run with a fault. *)
(***************************************************************************)
EXTENDS Integers, Sequences, FiniteSets

CONSTANTS
  Procs,       \* processes that use the files
  Names,       \* names given to add_user
  Lines,       \* texts of one line, which ends in a newline
  OpenTexts,   \* texts without a newline
  Files,       \* bound: the files of /proc/chat that are used in a run
  MaxUsers,    \* MAX_USERS
  Sizes,       \* sizes of the buffer, in cells; the first is DefaultSize
  DefaultSize

All == "all"
NoName == ""
Empty == <<>>
Users == 0..MaxUsers - 1

ASSUME ChatAssumption ==
  /\ MaxUsers \in Nat \ {0} /\ DefaultSize \in Sizes /\ Sizes \subseteq Nat \ {0}
  /\ {All, NoName} \cap Names = {} /\ Lines \cap OpenTexts = {}

VARIABLES
  users, userCount,   \* the user table
  devices,            \* the devices, each <<minor, name>>
  module,             \* "alloc", "files", "class", "loaded", "free", "destroy",
                      \* "unloaded", or "failed" after an error of dev_init
  buffer,             \* what chat_buffer points to: "none", "live", "freed" or "null"
  size,               \* chat_buffer_size
  cells,              \* the contents of the buffer
  bytesRead,          \* bytes_read, in cells
  sent,               \* whether sent of proc_read_stat is not 0
  pc,
  idx, arg,           \* each process: the minor it has open; its text or its name
  dangling,           \* each process: the chat_buffer it took is freed, or was no buffer
  at,                 \* where it stands in the buffer, or its copy of user_count
  got,                \* what its current read has copied
  fault,              \* "none", or what ended the run
  log,                \* history: <<name, text>> of the writes since the last reset
  mixed,              \* history: a write met another write or a reset
  unsteady,           \* history, each reader: the buffer changed during its read
  adds,               \* history: two add_user met, one met dev_init, or its device was
                      \* opened before it stored the name
  broken              \* history: two sessions of readers met, or one was left early

bufVars  == <<buffer, size, cells>>
userVars == <<users, userCount, devices>>
eofVars  == <<bytesRead, sent>>
locVars  == <<idx, arg, dangling, at, got>>
histVars == <<log, mixed, unsteady, adds, broken>>
vars == <<userVars, module, bufVars, eofVars, pc, locVars, fault, histVars>>

Goto(p, here, there) == pc[p] = here /\ pc' = [pc EXCEPT ![p] = there]
In(states) == {p \in Procs : pc[p] \in states}
Writing   == {"name", "scan", "text"}
Reading   == {"walk", "count", "return"}
Session   == {"test", "again", "end", "zero"} \cup Reading
Reporting == {"report", "send", "drop", "dropped"}
Statting  == {"stat", "restat"} \cup Reporting
Adding    == {"store", "load", "bump"}
Resetting == {"alloc"}

DeviceFiles == module \in {"class", "loaded"}
ProcFiles == module \in {"files", "class", "loaded", "free", "failed"}

\* The handlers of a module that failed to load are called though it is gone.
ProcCall(p, file) == file \in Files /\ ProcFiles /\ pc[p] = "idle"
Dead == IF module = "failed" THEN "code" ELSE "none"

-----------------------------------------------------------------------------
(* The buffer                                                                *)

\* The end of the string; DOMAIN cells has no cell for it when the NUL is missing.
End(k) ==
  LET free == {n \in DOMAIN cells : n >= k /\ cells[n] = Empty}
  IN  IF free = {} THEN Cardinality(DOMAIN cells)
      ELSE CHOOSE n \in free : \A m \in free : n <= m
Terminated(k) == End(k) \in DOMAIN cells

\* What a use of the buffer by p meets.
Use(p, ok) ==
  IF buffer # "live" \/ dangling[p] THEN "buffer" ELSE IF ok THEN "none" ELSE "full"

\* A call that returns forgets its locals.
Forget(p) ==
  /\ idx' = [idx EXCEPT ![p] = 0] /\ arg' = [arg EXCEPT ![p] = NoName]
  /\ dangling' = [dangling EXCEPT ![p] = FALSE] /\ at' = [at EXCEPT ![p] = 0]
  /\ got' = [got EXCEPT ![p] = <<>>]

\* A write or a reset that goes on disturbs the reads.
Disturb == unsteady' = [q \in Procs |-> unsteady[q] \/ pc[q] \in Reading]

-----------------------------------------------------------------------------
(* dev_write                                                                 *)

\* Take chat_buffer, find the end for strcat.  A write to chat_all returns at once.
WriteBegin(p) ==
  \E device \in devices, text \in Lines \cup OpenTexts :
    /\ DeviceFiles /\ Goto(p, "idle", "name")
    /\ device[1] \in Users \ {0}
    /\ idx' = [idx EXCEPT ![p] = device[1]] /\ arg' = [arg EXCEPT ![p] = text]
    /\ dangling' = [dangling EXCEPT ![p] = FALSE]
    /\ at' = [at EXCEPT ![p] = End(0)]
    /\ fault' = IF buffer = "live" THEN IF Terminated(0) THEN "none" ELSE "full" ELSE "buffer"
    /\ mixed' = (mixed \/ In(Writing \cup Resetting) # {})
    /\ adds' = (adds \/ users[device[1]] = NoName)
    /\ UNCHANGED <<userVars, module, bufVars, eofVars, got, log, unsteady, broken>>

\* strcat copies the name, the colon and a NUL behind it.
WriteName(p) ==
  /\ Goto(p, "name", "scan")
  /\ fault' = Use(p, at[p] + 1 \in DOMAIN cells)
  /\ cells' = IF fault' # "none" THEN cells
              ELSE [cells EXCEPT ![at[p]] = <<"name", users[idx[p]]>>, ![at[p] + 1] = Empty]
  /\ Disturb
  /\ UNCHANGED <<userVars, module, buffer, size, eofVars, locVars, log, mixed, adds, broken>>

\* out + strlen(out).
TextPlace == End(0)

WriteScan(p) ==
  /\ Goto(p, "scan", "text")
  /\ fault' = Use(p, Terminated(0))
  /\ at' = [at EXCEPT ![p] = TextPlace]
  /\ UNCHANGED <<userVars, module, bufVars, eofVars, idx, arg, dangling, got, histVars>>

\* copy_from_user, of count bytes, without a NUL (mutant: of one byte less).
Mut_Copied(p) == CHOOSE text \in OpenTexts : TRUE
Copied(p) == arg[p]

WriteText(p) ==
  /\ Goto(p, "text", "idle")
  /\ fault' = Use(p, at[p] \in DOMAIN cells)
  /\ cells' = IF fault' # "none" THEN cells ELSE [cells EXCEPT ![at[p]] = <<"text", Copied(p)>>]
  /\ log' = IF mixed THEN <<>> ELSE Append(log, <<users[idx[p]], arg[p]>>)
  /\ Disturb /\ Forget(p)
  /\ UNCHANGED <<userVars, module, buffer, size, eofVars, mixed, adds, broken>>

Write(p) == WriteName(p) \/ WriteScan(p) \/ WriteText(p)

-----------------------------------------------------------------------------
(* dev_read, called until it returns 0                                       *)

ReadOpen(p) ==
  \E device \in devices :
    /\ DeviceFiles /\ Goto(p, "idle", "test")
    /\ device[1] \in Users
    /\ idx' = [idx EXCEPT ![p] = device[1]]
    /\ broken' = (broken \/ In(Session) # {})
    /\ adds' = (adds \/ users[device[1]] = NoName)
    /\ UNCHANGED <<userVars, module, bufVars, eofVars, arg, dangling, at, got, fault, log,
                   mixed, unsteady>>

\* A call returned what it loaded; after 0 the reader closes the file, else it reads on.
ReadAgain(p, returned) ==
  IF returned = 0
  THEN pc' = [pc EXCEPT ![p] = "idle"] /\ Forget(p)
  ELSE /\ pc' = [pc EXCEPT ![p] = "again"]
       /\ got' = [got EXCEPT ![p] = <<>>] /\ at' = [at EXCEPT ![p] = 0]
       /\ UNCHANGED <<idx, arg, dangling>>

\* if (bytes_read): one read got something, so this one is the end.
ReadEnd(p) ==
  /\ pc[p] \in {"test", "again"} /\ pc' = [pc EXCEPT ![p] = "end"]
  /\ bytesRead # 0
  /\ UNCHANGED <<userVars, module, bufVars, eofVars, locVars, fault, histVars>>

\* bytes_read = 0 (mutant: it stays as it was).
Mut_FlagTaken == bytesRead
FlagTaken == 0

ReadZero(p) ==
  /\ Goto(p, "end", "zero")
  /\ bytesRead' = FlagTaken
  /\ UNCHANGED <<userVars, module, bufVars, sent, locVars, fault, histVars>>

\* return bytes_read: the 0 just stored, or what is there by now if it is loaded again.
ReadNone(p) ==
  /\ pc[p] = "zero"
  /\ \E returned \in {0, bytesRead} : ReadAgain(p, returned)
  /\ UNCHANGED <<userVars, module, bufVars, eofVars, fault, histVars>>

\* in = chat_buffer.
ReadBegin(p) ==
  /\ pc[p] \in {"test", "again"} /\ pc' = [pc EXCEPT ![p] = "walk"]
  /\ bytesRead = 0
  /\ at' = [at EXCEPT ![p] = 0] /\ got' = [got EXCEPT ![p] = <<>>]
  /\ dangling' = [dangling EXCEPT ![p] = buffer # "live"]
  /\ unsteady' = [unsteady EXCEPT ![p] = In(Writing \cup Resetting) # {}]
  /\ UNCHANGED <<userVars, module, bufVars, eofVars, idx, arg, fault, log, mixed, adds, broken>>

\* The line that begins at cell k ends in the first cell with a newline.
Newlines(k) == {n \in DOMAIN cells : n >= k /\ n < End(k) /\ cells[n] \in {"text"} \X Lines}
LineEnd(k) == CHOOSE n \in Newlines(k) : \A m \in Newlines(k) : n <= m

\* A line is the reader's when it begins with its name (mutant: chat_all is a name too).
Mut_IsMine(p, k) == cells[k] = <<"name", users[idx[p]]>>
IsMine(p, k) == idx[p] = 0 \/ cells[k] = <<"name", users[idx[p]]>>

\* One turn of the loop over the lines.  The last line has no newline: next is NULL, and
\* the loop condition reads it.
ReadLine(p) ==
  /\ pc[p] = "walk"
  /\ IF Use(p, Terminated(at[p]) \/ Newlines(at[p]) # {}) # "none"
     THEN fault' = Use(p, FALSE) /\ UNCHANGED <<pc, at, got>>
     ELSE \/ /\ cells[at[p]] = Empty
             /\ pc' = [pc EXCEPT ![p] = "count"]
             /\ UNCHANGED <<fault, at, got>>
          \/ /\ cells[at[p]] # Empty /\ Newlines(at[p]) = {}
             /\ fault' = "null"
             /\ UNCHANGED <<pc, at, got>>
          \/ /\ cells[at[p]] # Empty /\ Newlines(at[p]) # {}
             /\ got' = IF ~IsMine(p, at[p]) THEN got
                       ELSE [got EXCEPT ![p] = @ \o [k \in 1..LineEnd(at[p]) - at[p] + 1 |->
                                                       cells[at[p] + k - 1]]]
             /\ at' = [at EXCEPT ![p] = LineEnd(at[p]) + 1]
             /\ UNCHANGED <<fault, pc>>
  /\ UNCHANGED <<userVars, module, bufVars, eofVars, idx, arg, dangling, histVars>>

\* bytes_read = out - buf.
ReadCount(p) ==
  /\ Goto(p, "count", "return")
  /\ bytesRead' = Len(got[p])
  /\ UNCHANGED <<userVars, module, bufVars, sent, locVars, fault, histVars>>

\* return bytes_read, loaded again behind the printk.
ReadReturn(p) ==
  /\ pc[p] = "return"
  /\ ReadAgain(p, bytesRead)
  /\ unsteady' = [unsteady EXCEPT ![p] = FALSE]
  /\ UNCHANGED <<userVars, module, bufVars, eofVars, fault, log, mixed, adds, broken>>

\* A process may close the file, dev or stat, without reading to the end.
CloseEarly(p) ==
  /\ pc[p] \in {"again", "restat"} /\ pc' = [pc EXCEPT ![p] = "idle"]
  /\ broken' = TRUE
  /\ Forget(p)
  /\ UNCHANGED <<userVars, module, bufVars, eofVars, fault, log, mixed, unsteady, adds>>

Read(p) == \/ ReadEnd(p) \/ ReadZero(p) \/ ReadNone(p)
           \/ ReadBegin(p) \/ ReadLine(p) \/ ReadCount(p) \/ ReadReturn(p)

-----------------------------------------------------------------------------
(* /proc/chat                                                                *)

\* The minor of a new user (mutant: DEVICE_FIRST is 1).
Mut_NewMinor == userCount + 1
NewMinor == userCount

\* proc_write_add: device_create on the next free minor.  It fails, unnoticed, when the
\* minor or the name has a device, or as long as there is no class.
AddBegin(p) ==
  \E name \in Names :
    /\ ProcCall(p, "add_user") /\ pc' = [pc EXCEPT ![p] = "store"]
    /\ arg' = [arg EXCEPT ![p] = name]
    /\ devices' = devices \cup
         (IF module = "files" \/ \E d \in devices : d[1] = NewMinor \/ d[2] = name
          THEN {} ELSE {<<NewMinor, name>>})
    /\ fault' = Dead
    /\ adds' = (adds \/ In(Adding) # {} \/ module \in {"files", "class"})
    /\ UNCHANGED <<users, userCount, module, bufVars, eofVars, idx, dangling, at, got, log,
                   mixed, unsteady, broken>>

\* strcpy(users[user_count], user_name).
AddStore(p) ==
  /\ Goto(p, "store", "load")
  /\ IF userCount \in Users
     THEN users' = [users EXCEPT ![userCount] = arg[p]] /\ fault' = fault
     ELSE users' = users /\ fault' = "users"
  /\ UNCHANGED <<userCount, devices, module, bufVars, eofVars, locVars, histVars>>

\* ++user_count: read it, and write it back.
AddLoad(p) ==
  /\ Goto(p, "load", "bump")
  /\ at' = [at EXCEPT ![p] = userCount]
  /\ UNCHANGED <<userVars, module, bufVars, eofVars, idx, arg, dangling, got, fault, histVars>>

AddBump(p) ==
  /\ Goto(p, "bump", "idle")
  /\ userCount' = at[p] + 1
  /\ Forget(p)
  /\ UNCHANGED <<users, devices, module, bufVars, eofVars, fault, histVars>>

\* proc_write_reset with a size that is not 0: kfree(chat_buffer).
ResetBegin(p) ==
  /\ ProcCall(p, "reset") /\ pc' = [pc EXCEPT ![p] = "alloc"]
  /\ size' \in Sizes
  /\ fault' = IF Dead # "none" THEN Dead ELSE IF buffer = "freed" THEN "buffer" ELSE "none"
  /\ buffer' = IF buffer = "live" THEN "freed" ELSE buffer
  /\ dangling' = [q \in Procs |-> pc[q] \in Writing \cup {"walk"}]
  /\ mixed' = (mixed \/ In(Writing \cup Resetting) # {})
  /\ Disturb
  /\ UNCHANGED <<userVars, module, cells, eofVars, idx, arg, at, got, log, adds, broken>>

\* What is in a new buffer (mutant: the old text).
Mut_Fresh(n) == [k \in 0..n - 1 |-> IF k \in DOMAIN cells THEN cells[k] ELSE Empty]
Fresh(n) == [k \in 0..n - 1 |-> Empty]

\* kmalloc, which may fail.
ResetAlloc(p) ==
  /\ Goto(p, "alloc", "idle")
  /\ buffer' \in {"live", "null"}
  /\ cells' = Fresh(size) /\ log' = <<>>
  /\ Disturb
  /\ UNCHANGED <<userVars, module, size, eofVars, locVars, fault, mixed, adds, broken>>

\* proc_read_stat, called until it returns 0.
StatOpen(p) ==
  /\ ProcCall(p, "stat") /\ pc' = [pc EXCEPT ![p] = "stat"]
  /\ fault' = Dead
  /\ broken' = (broken \/ In(Statting) # {})
  /\ UNCHANGED <<userVars, module, bufVars, eofVars, locVars, log, mixed, unsteady, adds>>

\* if (sent): the end.
StatEnd(p) ==
  /\ pc[p] \in {"stat", "restat"} /\ pc' = [pc EXCEPT ![p] = "drop"]
  /\ sent
  /\ UNCHANGED <<userVars, module, bufVars, eofVars, locVars, fault, histVars>>

\* sent = 0.
StatDrop(p) ==
  /\ Goto(p, "drop", "dropped")
  /\ sent' = FALSE
  /\ UNCHANGED <<userVars, module, bufVars, bytesRead, locVars, fault, histVars>>

\* return sent, as in dev_read.
StatNone(p) ==
  /\ Goto(p, "dropped", "idle") \/ (sent /\ Goto(p, "dropped", "restat"))
  /\ UNCHANGED <<userVars, module, bufVars, eofVars, locVars, fault, histVars>>

\* strlen(chat_buffer).
StatBegin(p) ==
  /\ pc[p] \in {"stat", "restat"} /\ pc' = [pc EXCEPT ![p] = "report"]
  /\ ~sent
  /\ fault' = IF buffer = "live" THEN IF Terminated(0) THEN "none" ELSE "full" ELSE "buffer"
  /\ UNCHANGED <<userVars, module, bufVars, eofVars, locVars, histVars>>

\* sent = strlen(buf).
StatSend(p) ==
  /\ Goto(p, "report", "send")
  /\ sent' = TRUE
  /\ UNCHANGED <<userVars, module, bufVars, bytesRead, locVars, fault, histVars>>

\* return sent - left, loaded again behind copy_to_user.
StatReturn(p) ==
  /\ Goto(p, "send", IF sent THEN "restat" ELSE "idle")
  /\ UNCHANGED <<userVars, module, bufVars, eofVars, locVars, fault, histVars>>

Proc(p) == \/ AddStore(p) \/ AddLoad(p) \/ AddBump(p) \/ ResetAlloc(p)
           \/ StatEnd(p) \/ StatDrop(p) \/ StatNone(p)
           \/ StatBegin(p) \/ StatSend(p) \/ StatReturn(p)

-----------------------------------------------------------------------------
(* dev_init and dev_exit                                                     *)

\* The buffer, then the files of /proc.
InitFiles ==
  /\ module = "alloc" /\ module' = "files"
  /\ buffer' \in {"live", "null"}
  /\ UNCHANGED <<userVars, size, cells, eofVars, pc, locVars, fault, histVars>>

\* An error on the way frees the buffer; the files stay, and a call of theirs goes on in
\* code that is gone.
InitFails ==
  /\ module = "files" /\ module' = "failed"
  /\ buffer' = "freed"
  /\ fault' = IF \E p \in Procs : pc[p] # "idle" THEN "code" ELSE "none"
  /\ UNCHANGED <<userVars, size, cells, eofVars, pc, locVars, histVars>>

\* The character devices are registered and the class is made.  When class_create fails,
\* the line behind it writes through what it returned.
InitClass ==
  /\ module = "files" /\ module' = "class"
  /\ fault' \in {"none", "class"}
  /\ UNCHANGED <<userVars, bufVars, eofVars, pc, locVars, histVars>>

\* chat_all on minor 0, in the next place of the table.
InitAll ==
  /\ module = "class" /\ module' = "loaded"
  /\ devices' = devices \cup (IF \E d \in devices : d[1] = 0 THEN {} ELSE {<<0, All>>})
  /\ IF userCount \in Users
     THEN users' = [users EXCEPT ![userCount] = All] /\ fault' = fault
     ELSE users' = users /\ fault' = "users"
  /\ userCount' = userCount + 1
  /\ adds' = (adds \/ In(Adding) # {})
  /\ UNCHANGED <<bufVars, eofVars, pc, locVars, log, mixed, unsteady, broken>>

\* An open device keeps the module; an open file of /proc does not.
ExitFree ==
  /\ module = "loaded" /\ module' = "free"
  /\ In(Writing \cup Session) = {}
  /\ buffer' = IF buffer = "live" THEN "freed" ELSE buffer
  /\ fault' = IF buffer = "freed" THEN "buffer" ELSE "none"
  /\ UNCHANGED <<userVars, size, cells, eofVars, pc, locVars, histVars>>

\* cleanup_proc: remove_proc_entry waits for the calls inside.  An open but idle file of
\* /proc is closed.
ExitCleanup ==
  /\ module = "free" /\ module' = "destroy"
  /\ In(Adding \cup Resetting \cup Reporting) = {}
  /\ pc' = [p \in Procs |-> "idle"]
  /\ broken' = (broken \/ In(Statting) # {})
  /\ UNCHANGED <<userVars, bufVars, eofVars, locVars, fault, log, mixed, unsteady, adds>>

\* The devices of the loop in dev_exit (mutant: from 1 on).
Mut_Destroyed == 1..userCount - 1
Destroyed == 0..userCount - 1

ExitDestroy ==
  /\ module = "destroy" /\ module' = "unloaded"
  /\ devices' = {d \in devices : d[1] \notin Destroyed}
  /\ UNCHANGED <<users, userCount, bufVars, eofVars, pc, locVars, fault, histVars>>

Module == \/ InitFiles \/ InitFails \/ InitClass \/ InitAll
          \/ ExitFree \/ ExitCleanup \/ ExitDestroy

-----------------------------------------------------------------------------

Init ==
  /\ users = [u \in Users |-> NoName] /\ userCount = 0 /\ devices = {}
  /\ module = "alloc" /\ buffer = "none"
  /\ size = DefaultSize /\ cells = [k \in 0..DefaultSize - 1 |-> Empty]
  /\ bytesRead = 0 /\ sent = FALSE
  /\ pc = [p \in Procs |-> "idle"]
  /\ idx = [p \in Procs |-> 0] /\ arg = [p \in Procs |-> NoName]
  /\ dangling = [p \in Procs |-> FALSE] /\ at = [p \in Procs |-> 0]
  /\ got = [p \in Procs |-> <<>>]
  /\ fault = "none"
  /\ log = <<>> /\ mixed = FALSE /\ unsteady = [p \in Procs |-> FALSE]
  /\ adds = FALSE /\ broken = FALSE

Halted == (fault # "none" \/ module \in {"unloaded", "failed"}) /\ UNCHANGED vars

Next ==
  \/ /\ fault = "none"
     /\ \/ Module
        \/ \E p \in Procs :
             \/ WriteBegin(p) \/ Write(p) \/ ReadOpen(p) \/ Read(p) \/ CloseEarly(p)
             \/ AddBegin(p) \/ ResetBegin(p) \/ StatOpen(p) \/ Proc(p)
  \/ Halted

Spec == Init /\ [][Next]_vars

-----------------------------------------------------------------------------
(* Properties *)

\* The cells of a list of messages <<name, text>>.
CellsOf(messages) ==
  [k \in 1..2 * Len(messages) |->
     LET m == messages[(k + 1) \div 2] IN IF k % 2 = 1 THEN <<"name", m[1]>> ELSE <<"text", m[2]>>]

\* The buffer holds the messages written since it was made, each whole and behind the
\* one before, and zeros from there on, as long as no write meets another write or a
\* reset.  Readers never disturb it, nor does a new user whose name is there first.
BufferIsLog ==
  ~mixed /\ ~adds /\ buffer = "live" /\ fault = "none" /\ In(Writing) = {} =>
    \A k \in DOMAIN cells :
      cells[k] = IF k < 2 * Len(log) THEN CellsOf(log)[k + 1] ELSE Empty

\* Those of the first n messages that reader p is to get.
Own(p, n) == {k \in 1..n : idx[p] = 0 \/ log[k][1] = users[idx[p]]}

\* A read over a buffer that did not change copies to the reader the lines of its name,
\* in order, and chat_all all of them, whatever other readers do meanwhile: each message
\* has its two cells behind those of the reader's messages before it, and there is no
\* more.  That the call also returns the length of what it copied holds only as long as
\* no two sessions of readers have met: bytes_read is loaded again to be returned.
ReadGivesOwnLines ==
  \A p \in Procs :
    /\ pc[p] \in {"count", "return"} /\ ~unsteady[p] /\ ~mixed /\ ~adds
       /\ (\A k \in DOMAIN log : log[k][2] \in Lines) =>
         /\ Len(got[p]) = 2 * Cardinality(Own(p, Len(log)))
         /\ \A k \in Own(p, Len(log)) :
              LET place == 2 * Cardinality(Own(p, k)) IN
              got[p][place - 1] = <<"name", log[k][1]>> /\ got[p][place] = <<"text", log[k][2]>>
    /\ pc[p] = "return" /\ ~broken => bytesRead = Len(got[p])

\* dev_read steps to NULL only where a text without a newline was written, or a write was
\* under way beside the read; the end of the buffer is passed only with more messages
\* since the last reset than it has room for.
FaultsNeedCause ==
  /\ fault = "null" =>
       (\E p \in Procs : unsteady[p]) \/ mixed \/ (\E k \in DOMAIN log : log[k][2] \in OpenTexts)
  /\ fault = "full" /\ ~mixed =>
       2 * (Len(log) + Cardinality(In(Writing))) + 1 > Cardinality(DOMAIN cells)

\* As long as no two add_user meet, each user has a place in the table and, unless it
\* took a name that was there, a device of that minor and name.
UsersHaveDevices ==
  ~adds /\ module = "loaded" /\ fault = "none" /\ In(Adding) = {} =>
    \A u \in 0..userCount - 1 :
      /\ users[u] # NoName
      /\ <<u, users[u]>> \in devices \/ \E v \in 0..u - 1 : users[v] = users[u]

\* No device is left after the module, though users are added while it unloads.
NoDeviceLeft == module = "unloaded" /\ ~adds => devices = {}

\* What says end of file is set only while a reader that has got its data is still to
\* read the end: when readers do not meet and read to the end, none finds its file empty
\* because of another.
FlagBelongsToReader ==
  ~broken => /\ bytesRead # 0 => In({"return", "again", "end"}) # {}
             /\ sent => In({"send", "restat", "drop"}) # {}

=============================================================================
