----------------------------- MODULE Messanger -----------------------------
(***************************************************************************)
(* task09/messanger.c: every line "delay total text" written to the class  *)
(* file `messanger' becomes a message on the list `messages' and a kernel  *)
(* thread that prints it every `delay' ms for `total' ms.  Unloading the   *)
(* module stops the threads and frees the messages.                        *)
(*                                                                         *)
(* Nothing in the module is locked.  Stores on two open files, the threads *)
(* and messanger_exit interleave freely; a step below is what one of them  *)
(* does between two accesses to memory that another one writes.            *)
(*                                                                         *)
(* An access to a freed message, or to a thread that is gone, has two      *)
(* outcomes: the old contents are still there, or the kernel dies of       *)
(* `death'.  A freed message is not allocated again.                       *)
(***************************************************************************)
EXTENDS Naturals, FiniteSets

CONSTANTS
  Writers,        \* processes that write to the class file
  MaxMessages     \* bound: the number of messages allocated in a run

ASSUME MessangerAssumption == IsFiniteSet(Writers) /\ MaxMessages \in Nat \ {0}

Messages == 1..MaxMessages
NoMessage == 0      \* the list head, where every walk ends

VARIABLES
  head,       \* messages.next
  next,       \* m->next.next of every message
  mem,        \* "unused", "live" or "freed"
  task,       \* m->task: "garbage" as kmalloc left it, "null" or "thread"
  thread,     \* the thread of m: "none", "new", "loop", "clear", "return" or "gone"
  stopReq,    \* what kthread_should_stop answers in the thread of m
  wpc,        \* where each writer is in messanger_store
  wmsg,       \* the message each writer is storing
  wsucc,      \* head->next as list_add read it
  exitPc,     \* where messanger_exit is
  it,         \* its cursor
  settled,    \* history: the messages whose store had returned before the exit
  overlapped, \* history: the messages linked while another list_add was under way
  death       \* "none", or what killed the kernel

msgVars   == <<head, next, mem, task>>
thrVars   == <<thread, stopReq>>
storeVars == <<wpc, wmsg, wsucc>>
exitVars  == <<exitPc, it>>
vars == <<msgVars, thrVars, storeVars, exitVars, settled, overlapped, death>>

-----------------------------------------------------------------------------
(* messanger_store.  class_remove_file keeps new stores out and waits for    *)
(* the ones inside.                                                          *)

FileExists == exitPc \notin {"drain", "unloaded"}
Allocated == {m \in Messages : mem[m] # "unused"}

\* kmalloc, then the first half of list_add: read head->next.
StoreAlloc(w) ==
  /\ FileExists /\ wpc[w] = "idle"
  /\ \E m \in Messages, garbage \in {"garbage", "null"} :
       /\ Cardinality(Allocated) = m - 1
       /\ mem' = [mem EXCEPT ![m] = "live"]
       /\ task' = [task EXCEPT ![m] = garbage]
       /\ wmsg' = [wmsg EXCEPT ![w] = m]
  /\ wsucc' = [wsucc EXCEPT ![w] = head]
  /\ wpc' = [wpc EXCEPT ![w] = "link"]
  /\ UNCHANGED <<head, next, thrVars, exitVars, settled, overlapped, death>>

Linking == {w \in Writers : wpc[w] = "link"}

\* list_add forgets the old first message (mutant).
Mut_Successor(w) == NoMessage
Successor(w) == wsucc[w]

\* What may come of a write to message m by a store.
Write(m) == IF m # NoMessage /\ mem[m] = "freed" THEN {"none", "message"} ELSE {"none"}

\* The second half of list_add: link the message in front of the list, and the old
\* first message back to it.
StoreLink(w) ==
  /\ wpc[w] = "link"
  /\ next' = [next EXCEPT ![wmsg[w]] = Successor(w)]
  /\ head' = wmsg[w]
  /\ wpc' = [wpc EXCEPT ![w] = "parse"]
  /\ overlapped' = overlapped \cup
       (IF Linking = {w} THEN {} ELSE {wmsg[v] : v \in Linking})
  /\ death' \in Write(wsucc[w])
  /\ UNCHANGED <<mem, task, thrVars, wmsg, wsucc, exitVars, settled>>

\* sscanf does not find two numbers: the message stays listed, task unset.
StoreReject(w) ==
  /\ wpc[w] = "parse"
  /\ wpc' = [wpc EXCEPT ![w] = "idle"]
  /\ settled' = IF exitPc = "loaded" THEN settled \cup {wmsg[w]} ELSE settled
  /\ death' \in Write(wmsg[w])
  /\ UNCHANGED <<msgVars, thrVars, wmsg, wsucc, exitVars, overlapped>>

\* Two numbers and no text after them: strncpy copies from strchr's NULL + 1.
StoreNoText(w) ==
  /\ wpc[w] = "parse"
  /\ death' = "text"
  /\ UNCHANGED <<msgVars, thrVars, storeVars, exitVars, settled, overlapped>>

\* sscanf and strncpy fill the message, kthread_run starts its thread.
StoreRun(w) ==
  /\ wpc[w] = "parse"
  /\ wpc' = [wpc EXCEPT ![w] = "assign"]
  /\ thread' = [thread EXCEPT ![wmsg[w]] = "new"]
  /\ death' \in Write(wmsg[w])
  /\ UNCHANGED <<msgVars, stopReq, wmsg, wsucc, exitVars, settled, overlapped>>

\* kthread_run fails: its error pointer, not checked, is no better than garbage.
StoreNoThread(w) ==
  /\ wpc[w] = "parse"
  /\ wpc' = [wpc EXCEPT ![w] = "idle"]
  /\ task' = [task EXCEPT ![wmsg[w]] = "garbage"]
  /\ settled' = IF exitPc = "loaded" THEN settled \cup {wmsg[w]} ELSE settled
  /\ death' \in Write(wmsg[w])
  /\ UNCHANGED <<head, next, mem, thrVars, wmsg, wsucc, exitVars, overlapped>>

\* Mutant: the result of kthread_run is not kept.
Mut_StoredTask == "null"
StoredTask == "thread"

\* m->task = the result of kthread_run; the thread may have ended already.
StoreAssign(w) ==
  /\ wpc[w] = "assign"
  /\ wpc' = [wpc EXCEPT ![w] = "idle"]
  /\ task' = [task EXCEPT ![wmsg[w]] = StoredTask]
  /\ settled' = IF exitPc = "loaded" THEN settled \cup {wmsg[w]} ELSE settled
  /\ death' \in Write(wmsg[w])
  /\ UNCHANGED <<head, next, mem, thrVars, wmsg, wsucc, exitVars, overlapped>>

Store(w) == \/ StoreLink(w) \/ StoreReject(w) \/ StoreNoText(w)
            \/ StoreRun(w) \/ StoreNoThread(w) \/ StoreAssign(w)

-----------------------------------------------------------------------------
(* func, the thread of message m                                             *)

\* Running code of a module that is no longer there, or using a freed message.
Misstep(m, usesMessage) ==
  IF exitPc = "unloaded" THEN {"code"}
  ELSE IF usesMessage /\ mem[m] = "freed" THEN {"none", "message"} ELSE {"none"}

ThreadStep(m, here, there) ==
  /\ thread[m] = here
  /\ thread' = [thread EXCEPT ![m] = there]
  /\ UNCHANGED <<head, next, mem, stopReq, storeVars, exitVars, settled, overlapped>>

\* A thread that is stopped before it first runs never calls func.
ThreadStart(m) ==
  /\ ThreadStep(m, "new", IF stopReq[m] THEN "gone" ELSE "loop")
  /\ death' \in Misstep(m, FALSE)
  /\ UNCHANGED task

\* func never asks kthread_should_stop (mutant).
Mut_LoopEnds(m) == FALSE
LoopEnds(m) == stopReq[m]

\* The while condition reads m->total, the body m->text and m->delay; the loop ends
\* when the thread is asked to stop.
ThreadLoop(m) ==
  /\ ThreadStep(m, "loop", IF LoopEnds(m) THEN "clear" ELSE "loop")
  /\ death' \in Misstep(m, TRUE)
  /\ UNCHANGED task

\* The other end of the loop: m->total ms have passed.
ThreadTimeout(m) ==
  /\ ThreadStep(m, "loop", "clear")
  /\ death' \in Misstep(m, TRUE)
  /\ UNCHANGED task

\* m->task = 0: from here on messanger_exit does not wait for the thread.
ThreadClear(m) ==
  /\ ThreadStep(m, "clear", "return")
  /\ task' = [task EXCEPT ![m] = "null"]
  /\ death' \in Misstep(m, TRUE)

\* return 0, still in the code of the module.
ThreadReturn(m) ==
  /\ ThreadStep(m, "return", "gone")
  /\ death' \in Misstep(m, FALSE)
  /\ UNCHANGED task

Func(m) == ThreadStart(m) \/ ThreadLoop(m) \/ ThreadClear(m) \/ ThreadReturn(m)

-----------------------------------------------------------------------------
(* messanger_exit                                                            *)

ExitBegin ==
  /\ exitPc = "loaded" /\ exitPc' = "walk"
  /\ it' = head
  /\ UNCHANGED <<msgVars, thrVars, storeVars, settled, overlapped, death>>

\* if (m->task): the first read of the field.
ExitTest ==
  /\ exitPc = "walk"
  /\ exitPc' = IF it = NoMessage THEN "remove"
               ELSE IF task[it] = "null" THEN "free" ELSE "stop"
  /\ UNCHANGED <<msgVars, thrVars, storeVars, it, settled, overlapped, death>>

Stopped(m) == thread[m] = "gone"

\* kthread_stop(m->task): the second read.  The thread may have cleared the field in
\* between, may be gone, or may never have been recorded.
ExitStop ==
  /\ exitPc = "stop" /\ exitPc' = "wait"
  /\ stopReq' = [stopReq EXCEPT ![it] = TRUE]
  /\ death' \in IF task[it] # "thread" THEN {"task"}
                ELSE IF thread[it] = "gone" THEN {"none", "task"} ELSE {"none"}
  /\ UNCHANGED <<msgVars, thread, storeVars, it, settled, overlapped>>

\* kthread_stop returns when the thread has ended.
ExitWait ==
  /\ exitPc = "wait" /\ exitPc' = "free"
  /\ Stopped(it)
  /\ UNCHANGED <<msgVars, thrVars, storeVars, it, settled, overlapped, death>>

\* kfree(m), then it = it->next out of the freed message.
ExitFree ==
  /\ exitPc = "free" /\ exitPc' = "walk"
  /\ mem' = [mem EXCEPT ![it] = "freed"]
  /\ it' = next[it]
  /\ death' \in {"none", "link"}
  /\ UNCHANGED <<head, next, task, thrVars, storeVars, settled, overlapped>>

\* class_remove_file: no new stores, then wait for those inside.
ExitRemove ==
  /\ exitPc = "remove" /\ exitPc' = "drain"
  /\ UNCHANGED <<msgVars, thrVars, storeVars, it, settled, overlapped, death>>

Drained == \A w \in Writers : wpc[w] = "idle"

ExitUnload ==
  /\ exitPc = "drain" /\ exitPc' = "unloaded"
  /\ Drained
  /\ UNCHANGED <<msgVars, thrVars, storeVars, it, settled, overlapped, death>>

Exit == \/ ExitTest \/ ExitStop \/ ExitWait \/ ExitFree
        \/ ExitRemove \/ ExitUnload

-----------------------------------------------------------------------------

Init ==
  /\ head = NoMessage
  /\ next = [m \in Messages |-> NoMessage]
  /\ mem = [m \in Messages |-> "unused"]
  /\ task = [m \in Messages |-> "null"]
  /\ thread = [m \in Messages |-> "none"]
  /\ stopReq = [m \in Messages |-> FALSE]
  /\ wpc = [w \in Writers |-> "idle"]
  /\ wmsg = [w \in Writers |-> NoMessage]
  /\ wsucc = [w \in Writers |-> NoMessage]
  /\ exitPc = "loaded" /\ it = NoMessage
  /\ settled = {} /\ overlapped = {}
  /\ death = "none"

\* The module is gone and nothing of it moves, or the kernel is dead.
Halted ==
  /\ death # "none" \/ (exitPc = "unloaded" /\ \A m \in Messages : thread[m] \in {"none", "gone"})
  /\ UNCHANGED vars

Next ==
  \/ /\ death = "none"
     /\ \/ \E w \in Writers : StoreAlloc(w) \/ Store(w)
        \/ \E m \in Messages : Func(m) \/ ThreadTimeout(m)
        \/ ExitBegin \/ Exit
  \/ Halted

\* The scheduler runs stores, threads and the exit; nobody must write or unload.
Fairness ==
  /\ \A w \in Writers : WF_vars(death = "none" /\ Store(w))
  /\ \A m \in Messages : WF_vars(death = "none" /\ Func(m))
  /\ WF_vars(death = "none" /\ Exit)

Spec == Init /\ [][Next]_vars
FairSpec == Spec /\ Fairness

-----------------------------------------------------------------------------
(* Properties *)

\* messanger_exit frees without a lock.  Still it frees no message twice, though writers
\* push new ones in front of its walk and cut others off; and a message whose store had
\* returned is freed only when its thread no longer touches it: such a thread is recorded
\* in m->task, and kthread_stop waits for it.
FreedOnceAfterThread ==
  /\ exitPc \in {"stop", "wait", "free"} => mem[it] = "live"
  /\ \A m \in settled : mem[m] = "freed" => thread[m] \in {"none", "return", "gone"}

\* Two list_add at once lose messages, a thread can end before its own task field is
\* assigned; still, a message whose list_add was alone and whose store had returned
\* is freed when the module is gone.
SettledMessagesFreed ==
  exitPc = "unloaded" /\ death = "none" =>
    \A m \in settled \ overlapped : mem[m] = "freed"

\* rmmod returns: every thread asks kthread_should_stop after each sleep, so its total
\* time need not pass.
ExitCompletes == exitPc = "walk" ~> (exitPc = "unloaded" \/ death # "none")

=============================================================================
