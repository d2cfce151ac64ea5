------------------------------ MODULE Reminder ------------------------------
(***************************************************************************)
(* task08/reminder.c: a line "user delay message" written to the class     *)
(* file `recorder' becomes a reminder on a list sorted by trigger time; an *)
(* hrtimer callback, once a second, prints and frees the reminders whose   *)
(* time has come; reading the file prints the list; unloading frees it.    *)
(*                                                                         *)
(* The list has no lock: stores, the callback, a reader and reminder_exit  *)
(* interleave.  list_add_tail is two steps, since it reads `prev' before   *)
(* it writes; list_del and kfree of one node are one.  Time is counted in  *)
(* seconds, the unit of ktime_set(t, 0).                                   *)
(*                                                                         *)
(* A use of a freed reminder, or of a null pointer, sets `faulted' and     *)
(* ends the run: nothing is claimed of what the kernel does after it.      *)
(***************************************************************************)
EXTENDS Integers, Sequences, FiniteSets

CONSTANTS
  Writers,        \* processes that write to the class file
  Readers,        \* processes that read it
  MaxReminders,   \* bound: the number of reminders stored in a run
  Delays,         \* the delays the users ask for
  MaxTime,        \* bound: the last second of a run
  KTimeMax        \* KTIME_MAX, the largest ktime_t

ASSUME ReminderAssumption ==
  /\ MaxReminders \in Nat /\ KTimeMax \in Nat
  /\ Delays \subseteq Nat
  /\ MaxTime \in 0..KTimeMax

Reminders == 1..MaxReminders
Head0 == 0            \* the node `reminders', at both ends of every walk
Nodes == Reminders \cup {Head0}

VARIABLES
  now,          \* ktime_get()
  nxt, prv,     \* the links of every node
  mem,          \* "unused", "live" or "freed"
  trigger,      \* r->trigger_time
  due,          \* history: the time the user asked for
  fired,        \* history: the reminders printed, in order
  expires,      \* when the timer is due
  tpc, ti, tn,  \* the callback: "idle" or "test", and its cursors i, in
  passDue,      \* history: the reminders listed and due when the callback began
  wpc,          \* each writer: "idle", "walk", "prev", "link", or "null" after a fault
  wnode, wit, wprev,
  rpc, rit,     \* each reader: "idle" or "walk", and its cursor
  exitPc, ei, en,
  atExit,       \* history: the reminders listed when the exit began
  clash,        \* history: the list changed under a store that was placing its reminder
  readClash,    \* history: the list changed under a reader
  faulted

listVars  == <<nxt, prv, mem>>
timerVars == <<expires, tpc, ti, tn, passDue, fired>>
storeVars == <<wpc, wnode, wit, wprev, trigger, due>>
readVars  == <<rpc, rit>>
exitVars  == <<exitPc, ei, en, atExit>>
vars == <<now, listVars, timerVars, storeVars, readVars, exitVars, clash, readClash, faulted>>

Freed(n) == n # Head0 /\ mem[n] = "freed"
Storing(w) == wpc[w] # "idle"
FileExists == exitPc \notin {"drain", "unloaded"}

-----------------------------------------------------------------------------
(* recorder_store and add_message                                            *)

\* ktime_get() + ktime_set(t, 0): ktime_set saturates, the sum wraps around.
TriggerTime(t) ==
  LET sum == now + (IF t < KTimeMax THEN t ELSE KTimeMax)
  IN  IF sum > KTimeMax THEN sum - 2 * (KTimeMax + 1) ELSE sum

\* A line that parses: fill a reminder, begin the walk of add_message.
StoreBegin(w) ==
  /\ FileExists /\ wpc[w] = "idle"
  /\ \E r \in Reminders, t \in Delays :
       /\ r = Cardinality({q \in Reminders : mem[q] # "unused"}) + 1
       /\ mem' = [mem EXCEPT ![r] = "live"]
       /\ trigger' = [trigger EXCEPT ![r] = TriggerTime(t)]
       /\ due' = [due EXCEPT ![r] = now + t]
       /\ wnode' = [wnode EXCEPT ![w] = r]
  /\ wit' = [wit EXCEPT ![w] = nxt[Head0]]
  /\ wpc' = [wpc EXCEPT ![w] = "walk"]
  /\ UNCHANGED <<now, nxt, prv, timerVars, wprev, readVars, exitVars, clash, readClash, faulted>>

\* A user and a delay but nothing behind them: the second strchr returns NULL, and the
\* strchr for the end of the line reads from there.  A text without a newline makes
\* m_last NULL, the lesser of the two, and strncpy gets a length beyond all memory.
StoreNoMessage(w) ==
  /\ FileExists /\ wpc[w] = "idle"
  /\ wpc' = [wpc EXCEPT ![w] = "null"]
  /\ faulted' = TRUE
  /\ UNCHANGED <<now, listVars, timerVars, wnode, wit, wprev, trigger, due, readVars,
                 exitVars, clash, readClash>>

\* The walk of add_message ends at the first later reminder (mutant: at one as late as
\* well).
Mut_GoesBefore(r, e) == trigger[e] >= trigger[r]
GoesBefore(r, e) == trigger[e] > trigger[r]

StoreWalk(w) ==
  /\ wpc[w] = "walk"
  /\ IF wit[w] = Head0 \/ GoesBefore(wnode[w], wit[w])
     THEN wpc' = [wpc EXCEPT ![w] = "prev"] /\ wit' = wit
     ELSE wpc' = wpc /\ wit' = [wit EXCEPT ![w] = nxt[@]]
  /\ faulted' = Freed(wit[w])
  /\ UNCHANGED <<now, listVars, timerVars, wnode, wprev, trigger, due, readVars, exitVars,
                 clash, readClash>>

\* list_add_tail(new, it): read it->prev.
StorePrev(w) ==
  /\ wpc[w] = "prev"
  /\ wprev' = [wprev EXCEPT ![w] = prv[wit[w]]]
  /\ wpc' = [wpc EXCEPT ![w] = "link"]
  /\ faulted' = Freed(wit[w])
  /\ UNCHANGED <<now, listVars, timerVars, wnode, wit, trigger, due, readVars, exitVars,
                 clash, readClash>>

\* Then link the new node between the two.
StoreLink(w) ==
  /\ wpc[w] = "link"
  /\ nxt' = [nxt EXCEPT ![wnode[w]] = wit[w], ![wprev[w]] = wnode[w]]
  /\ prv' = [prv EXCEPT ![wnode[w]] = wprev[w], ![wit[w]] = wnode[w]]
  /\ wpc' = [wpc EXCEPT ![w] = "idle"]
  /\ clash' = (clash \/ \E v \in Writers \ {w} : Storing(v))
  /\ readClash' = (readClash \/ \E q \in Readers : rpc[q] = "walk")
  /\ faulted' = (Freed(wit[w]) \/ Freed(wprev[w]))
  /\ UNCHANGED <<now, mem, timerVars, wnode, wit, wprev, trigger, due, readVars, exitVars>>

Store(w) == StoreWalk(w) \/ StorePrev(w) \/ StoreLink(w)

-----------------------------------------------------------------------------
(* Deleting nodes: trigger_messages in the callback, reminder_exit           *)

\* list_del (mutant: the predecessor is not told).
Mut_Unlinked(n) == nxt
Unlinked(n) == [nxt EXCEPT ![prv[n]] = nxt[n]]

\* list_del(n) and kfree; list_for_each_safe goes on to `next' and reads its link.
Delete(n, next) ==
  /\ nxt' = Unlinked(n)
  /\ prv' = [prv EXCEPT ![nxt[n]] = prv[n]]
  /\ mem' = [mem EXCEPT ![n] = "freed"]
  /\ clash' = (clash \/ \E w \in Writers : Storing(w))
  /\ readClash' = (readClash \/ \E q \in Readers : rpc[q] = "walk")
  /\ faulted' = (Freed(n) \/ Freed(prv[n]) \/ Freed(nxt[n]) \/ Freed(next) \/ next = n)

Listed(r) == mem[r] = "live" /\ ~\E w \in Writers : Storing(w) /\ wnode[w] = r

\* hrtimer_forward from the time the callback read (mutant: the timer is not restarted).
Mut_NextExpiry == MaxTime + 1
NextExpiry == now + 1

\* timer_callback enters trigger_messages: i = first, in = the next.
TimerBegin ==
  /\ tpc = "idle" /\ tpc' = "test"
  /\ exitPc = "loaded" /\ expires <= now
  /\ ti' = nxt[Head0] /\ tn' = nxt[nxt[Head0]]
  /\ passDue' = {r \in Reminders : Listed(r) /\ trigger[r] <= now}
  /\ expires' = NextExpiry
  /\ faulted' = Freed(nxt[Head0])
  /\ UNCHANGED <<now, listVars, fired, storeVars, readVars, exitVars, clash, readClash>>

\* A reminder is due from its trigger time on (mutants: only after it; a second before).
Mut_Due(r) == trigger[r] < now
Mut_DueSoon(r) == trigger[r] <= now + 1
Due(r) == trigger[r] <= now

\* One turn of the loop that prints and frees a reminder.
TimerFire ==
  /\ tpc = "test" /\ ti # Head0 /\ Due(ti)
  /\ fired' = Append(fired, ti)
  /\ Delete(ti, tn)
  /\ ti' = tn /\ tn' = nxt'[tn]
  /\ UNCHANGED <<now, expires, tpc, passDue, storeVars, readVars, exitVars>>

\* The end of the list, or a reminder that is not due; HRTIMER_RESTART.
TimerEnd ==
  /\ tpc = "test" /\ tpc' = "idle"
  /\ ti # Head0 => ~Due(ti)
  /\ faulted' = Freed(ti)
  /\ UNCHANGED <<now, listVars, expires, ti, tn, passDue, fired, storeVars, readVars,
                 exitVars, clash, readClash>>

Timer == TimerBegin \/ TimerFire \/ TimerEnd

-----------------------------------------------------------------------------
(* recorder_show and print_messages; current_user is never set, so no        *)
(* reminder is filtered out                                                  *)

ShowBegin(q) ==
  /\ FileExists /\ rpc[q] = "idle"
  /\ rpc' = [rpc EXCEPT ![q] = "walk"]
  /\ rit' = [rit EXCEPT ![q] = nxt[Head0]]
  /\ UNCHANGED <<now, listVars, timerVars, storeVars, exitVars, clash, readClash, faulted>>

ShowStep(q) ==
  /\ rpc[q] = "walk"
  /\ IF rit[q] = Head0
     THEN rpc' = [rpc EXCEPT ![q] = "idle"] /\ rit' = rit
     ELSE rpc' = rpc /\ rit' = [rit EXCEPT ![q] = nxt[@]]
  /\ faulted' = Freed(rit[q])
  /\ UNCHANGED <<now, listVars, timerVars, storeVars, exitVars, clash, readClash>>

-----------------------------------------------------------------------------
(* reminder_exit                                                             *)

\* hrtimer_cancel waits for the callback; then the loop of the exit begins.
ExitBegin ==
  /\ exitPc = "loaded" /\ tpc = "idle" /\ exitPc' = "free"
  /\ ei' = nxt[Head0] /\ en' = nxt[nxt[Head0]]
  /\ atExit' = {r \in Reminders : Listed(r)}
  /\ faulted' = Freed(nxt[Head0])
  /\ UNCHANGED <<now, listVars, timerVars, storeVars, readVars, clash, readClash>>

\* The loop runs to the end of the list (mutant: to the first reminder not due).
Mut_ExitDone == ei # Head0 => trigger[ei] > now
ExitDone == ei = Head0

ExitFree ==
  /\ exitPc = "free" /\ ~ExitDone
  /\ Delete(ei, en)
  /\ ei' = en /\ en' = nxt'[en]
  /\ UNCHANGED <<now, exitPc, atExit, timerVars, storeVars, readVars>>

\* class_remove_file: no new stores and reads, then wait for those inside.
ExitRemove ==
  /\ exitPc = "free" /\ ExitDone /\ exitPc' = "drain"
  /\ UNCHANGED <<now, listVars, timerVars, storeVars, readVars, ei, en, atExit, clash, readClash, faulted>>

ExitUnload ==
  /\ exitPc = "drain" /\ exitPc' = "unloaded"
  /\ \A w \in Writers : wpc[w] = "idle"
  /\ \A q \in Readers : rpc[q] = "idle"
  /\ UNCHANGED <<now, listVars, timerVars, storeVars, readVars, ei, en, atExit, clash, readClash, faulted>>

Exit == ExitFree \/ ExitRemove \/ ExitUnload

-----------------------------------------------------------------------------

Tick ==
  /\ now < MaxTime /\ now' = now + 1
  /\ UNCHANGED <<listVars, timerVars, storeVars, readVars, exitVars, clash, readClash, faulted>>

Init ==
  /\ now = 0
  /\ nxt = [n \in Nodes |-> Head0] /\ prv = [n \in Nodes |-> Head0]
  /\ mem = [r \in Reminders |-> "unused"]
  /\ trigger = [r \in Reminders |-> 0] /\ due = [r \in Reminders |-> 0]
  /\ fired = <<>>
  /\ expires = 1 /\ tpc = "idle" /\ ti = Head0 /\ tn = Head0 /\ passDue = {}
  /\ wpc = [w \in Writers |-> "idle"] /\ wnode = [w \in Writers |-> Head0]
  /\ wit = [w \in Writers |-> Head0] /\ wprev = [w \in Writers |-> Head0]
  /\ rpc = [q \in Readers |-> "idle"] /\ rit = [q \in Readers |-> Head0]
  /\ exitPc = "loaded" /\ ei = Head0 /\ en = Head0 /\ atExit = {}
  /\ clash = FALSE /\ readClash = FALSE /\ faulted = FALSE

\* The module is gone, the run has ended on a fault, or the bounds are reached.
Halted == (faulted \/ exitPc = "unloaded" \/ now = MaxTime) /\ UNCHANGED vars

Next ==
  \/ /\ ~faulted
     /\ \/ \E w \in Writers : StoreBegin(w) \/ StoreNoMessage(w) \/ Store(w)
        \/ \E q \in Readers : ShowBegin(q) \/ ShowStep(q)
        \/ exitPc # "unloaded" /\ Tick
        \/ Timer \/ ExitBegin \/ Exit
  \/ Halted

\* Time passes, the timer interrupt comes, and who is in the kernel goes on.
Fairness ==
  /\ WF_vars(~faulted /\ exitPc # "unloaded" /\ Tick)
  /\ WF_vars(~faulted /\ Timer)
  /\ \A w \in Writers : WF_vars(~faulted /\ Store(w))
  /\ \A q \in Readers : WF_vars(~faulted /\ ShowStep(q))
  /\ WF_vars(~faulted /\ Exit)

Spec == Init /\ [][Next]_vars
FairSpec == Spec /\ Fairness

-----------------------------------------------------------------------------
(* Properties *)

\* The order of the list: by trigger time, those of one time as they were stored.
Sooner(a, b) == trigger[a] < trigger[b] \/ (trigger[a] = trigger[b] /\ a < b)
Behind(n) == {r \in Reminders : Listed(r) /\ (n = Head0 \/ Sooner(n, r))}

\* As long as nothing changed the list under a store, the list is whole: each node on it
\* leads to the first of the reminders stored and not yet fired that come behind it in
\* the order, the last one back to the head, and the links back are those links reversed.
\* So a walk meets all of them, each once, sorted by trigger time.
ListWholeAndSorted ==
  ~clash /\ ~faulted =>
    \A n \in {r \in Reminders : Listed(r)} \cup {Head0} :
      /\ prv[nxt[n]] = n
      /\ IF Behind(n) = {} THEN nxt[n] = Head0
         ELSE nxt[n] \in Behind(n) /\ \A r \in Behind(n) : r = nxt[n] \/ Sooner(nxt[n], r)

\* A reader or a store meets a freed reminder only after the list changed under it: the
\* callback, whose loop frees what it stands on, and the exit are safe on their own.
FaultNeedsClash ==
  faulted => clash \/ readClash \/ \E w \in Writers : wpc[w] = "null"

\* One pass of the callback fires all that was listed and due when it began, though
\* stores insert around its cursors meanwhile.
PassFiresAllDue ==
  tpc = "idle" /\ ~clash /\ ~faulted =>
    \A r \in passDue : \E k \in DOMAIN fired : fired[k] = r

\* No reminder is printed twice, and none of those that did not overflow before the
\* time its user asked for.
FiredOnceNotEarly ==
  /\ \A k, l \in DOMAIN fired : fired[k] = fired[l] => k = l
  /\ \A k \in DOMAIN fired : due[fired[k]] <= KTimeMax => due[fired[k]] <= now

\* Every reminder that is stored is printed in the end, unless the module is unloaded
\* or its store met a change of the list.
StoredIsFired ==
  \A r \in Reminders :
    (Listed(r) /\ trigger[r] <= MaxTime /\ now < MaxTime) ~>
      ((\E k \in DOMAIN fired : fired[k] = r) \/ clash \/ faulted \/ exitPc # "loaded")

\* Unloading frees all that was on the list when it began, though stores go on until
\* class_remove_file; only what they add behind its back is left.
ExitFreesAll ==
  exitPc \in {"drain", "unloaded"} /\ ~clash => \A r \in atExit : mem[r] = "freed"

=============================================================================
