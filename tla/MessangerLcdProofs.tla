------------------------- MODULE MessangerLcdProofs -------------------------
(***************************************************************************)
(* Proofs about two programs that have nothing to do with each other.      *)
(*                                                                         *)
(* Messanger, for any finite set of writers and any number of messages:    *)
(* messages are numbered as they are allocated, and list_add puts them in  *)
(* front: along the list the numbers fall, whatever the races.  That alone *)
(* keeps the exit from freeing a message twice.  A message that was linked *)
(* by itself is passed over by no link of a later one: the exit finds it.  *)
(*                                                                         *)
(* Lcd, for any screen, font, texts, circles and size of the pieces: what  *)
(* main has done up to each of its operations is a function of the place   *)
(* where it stands, and of a frame that is under way the panel has every   *)
(* point that was sent.                                                    *)
(***************************************************************************)
EXTENDS Messanger, MCLcd, FiniteSetTheorems, SequenceTheorems, TLAPS

-----------------------------------------------------------------------------
(* Messanger                                                                 *)

Places == Messages \cup {NoMessage}
Busy(w) == wpc[w] # "idle"

\* The message is on the list, or was before another list_add cut it off.
Linked(m) ==
  m \in Messages /\ mem[m] # "unused" /\ \A w \in Writers : wpc[w] = "link" => wmsg[w] # m

\* The thread of the message no longer uses it.
Quiet(m) == thread[m] \in {"none", "return", "gone"}
Working == {"new", "loop", "clear"}

Types ==
  /\ head \in Places /\ next \in [Messages -> Places]
  /\ mem \in [Messages -> {"unused", "live", "freed"}]
  /\ task \in [Messages -> {"garbage", "null", "thread"}]
  /\ thread \in [Messages -> {"none", "new", "loop", "clear", "return", "gone"}]
  /\ wpc \in [Writers -> {"idle", "link", "parse", "assign"}]
  /\ wmsg \in [Writers -> Places] /\ wsucc \in [Writers -> Places]
  /\ exitPc \in {"loaded", "walk", "stop", "wait", "free", "remove", "drain", "unloaded"}
  /\ it \in Places

\* The numbers are given in order, each to one store.
Numbered ==
  /\ \A m, n \in Messages : n < m /\ mem[m] # "unused" => mem[n] # "unused"
  /\ \A m \in Messages : mem[m] = "unused" => thread[m] = "none"
  /\ \A w \in Writers : Busy(w) =>
       /\ wmsg[w] \in Messages /\ mem[wmsg[w]] # "unused"
       /\ \A v \in Writers : Busy(v) /\ wmsg[v] = wmsg[w] => v = w
       /\ wpc[w] \in {"link", "parse"} => thread[wmsg[w]] = "none"

\* From every message that is linked, or about to be, the links lead to lower numbers.
Falling ==
  /\ head # NoMessage => Linked(head)
  /\ \A m \in Messages : Linked(m) => next[m] < m /\ (next[m] # NoMessage => Linked(next[m]))
  /\ \A w \in Writers : wpc[w] = "link" =>
       wsucc[w] < wmsg[w] /\ (wsucc[w] # NoMessage => Linked(wsucc[w]))

\* The exit has freed only what lies behind its cursor.
Cursor ==
  /\ it # NoMessage => Linked(it)
  /\ exitPc \in {"stop", "wait", "free"} => it # NoMessage
  /\ \A m \in Messages : mem[m] = "freed" => exitPc # "loaded" /\ it < m /\ Linked(m)

\* A store that has returned recorded the thread it started.
Recorded ==
  /\ \A m \in settled : Linked(m) /\ \A w \in Writers : Busy(w) => wmsg[w] # m
  /\ \A m \in settled : thread[m] \in Working => task[m] = "thread"
  /\ exitPc = "free" /\ it \in settled => Quiet(it)
  /\ \A m \in settled : mem[m] = "freed" => Quiet(m)

SafeInv == Types /\ Numbered /\ Falling /\ Cursor /\ Recorded

\* No link leads past a message that was linked alone.
Passed(m) ==
  /\ head >= m
  /\ \A n \in Messages : Linked(n) /\ n > m => next[n] >= m
  /\ \A w \in Writers : wpc[w] = "link" => wmsg[w] > m /\ wsucc[w] >= m

\* A store that is linking without having met another has the highest number on the list.
Highest(w) == \A m \in Messages : Linked(m) => m < wmsg[w]

FoundInv ==
  /\ \A m \in Messages : Linked(m) /\ m \notin overlapped => Passed(m)
  /\ \A w \in Linking : wmsg[w] \notin overlapped => Highest(w)
  /\ \A m \in settled \ overlapped :
       /\ exitPc \in {"walk", "stop", "wait", "free"} => mem[m] = "freed" \/ it >= m
       /\ exitPc \in {"remove", "drain", "unloaded"} => mem[m] = "freed"

-----------------------------------------------------------------------------
(* Facts that several steps use                                              *)

\* The message a store allocates is the first that is unused.
LEMMA NextNumber ==
  ASSUME Types, Numbered, NEW m \in Messages, Cardinality(Allocated) = m - 1
  PROVE  /\ mem[m] = "unused"
         /\ \A n \in Messages : mem[n] # "unused" <=> n < m
<1>1. /\ IsFiniteSet(Messages) /\ Allocated \in SUBSET Messages
      /\ m \in Nat /\ m >= 1 /\ m - 1 \in Nat /\ MaxMessages \in Nat
  BY FS_Interval, MessangerAssumption DEF Messages, Allocated
<1>2. /\ IsFiniteSet(Allocated) /\ Cardinality(Allocated) = m - 1
      /\ Cardinality(1..m) = m
      /\ IsFiniteSet(1..(m - 1)) /\ Cardinality(1..(m - 1)) = m - 1
  <2>1. IsFiniteSet(Allocated)
    BY <1>1, FS_Subset
  <2>2. \A k \in Nat : IsFiniteSet(1..k) /\ Cardinality(1..k) = k
    BY FS_Interval
  <2> QED  BY <1>1, <2>1, <2>2
<1>3. m \notin Allocated
  <2> SUFFICES ASSUME m \in Allocated PROVE FALSE
    OBVIOUS
  <2>1. 1..m \in SUBSET Allocated
    BY <1>1 DEF Allocated, Numbered, Messages
  <2>2. m <= m - 1
    BY <1>2, <2>1, FS_Subset
  <2> QED  BY <1>1, <2>2
<1>4. Allocated \in SUBSET (1..(m - 1))
  BY <1>1, <1>3 DEF Allocated, Numbered, Messages
<1>5. Allocated = 1..(m - 1)
  BY <1>2, <1>4, FS_Subset
<1> QED  BY <1>1, <1>3, <1>5 DEF Allocated, Messages

\* A step that allocates nothing and links nothing.
LEMMA LinkedSame ==
  ASSUME wmsg' = wmsg, \A w \in Writers : wpc'[w] = "link" <=> wpc[w] = "link",
         \A m \in Messages : mem'[m] = "unused" <=> mem[m] = "unused"
  PROVE  \A m : Linked(m)' <=> Linked(m)
  BY DEF Linked

\* A step of one thread: while it works its task stays recorded, and once it is quiet it
\* stays so.
LEMMA ThreadKeeps ==
  ASSUME SafeInv, NEW m \in Messages, NEW here \in Working \cup {"return"},
         NEW there \in Working \cup {"return", "gone"},
         ThreadStep(m, here, there),
         \/ there \in Working /\ here \in Working /\ task' = task
         \/ there \in {"return", "gone"}
            /\ (task' = task \/ task' = [task EXCEPT ![m] = "null"])
  PROVE  SafeInv'
<1>1. /\ thread[m] = here /\ thread' = [thread EXCEPT ![m] = there]
      /\ UNCHANGED <<head, next, mem, stopReq, wpc, wmsg, wsucc, exitPc, it, settled>>
  BY DEF ThreadStep, storeVars, exitVars
<1>2. \A n : Linked(n)' <=> Linked(n)
  BY <1>1, LinkedSame
<1>3. Types'
  BY <1>1 DEF SafeInv, Types, Working
<1>4. Numbered'
  BY <1>1 DEF SafeInv, Types, Numbered, Busy, Working
<1>5. Falling' /\ Cursor'
  BY <1>1, <1>2 DEF SafeInv, Falling, Cursor
<1>6. Recorded'
  <2>1. \A n \in Messages : Quiet(n) => Quiet(n)'
    BY <1>1 DEF SafeInv, Types, Quiet, Working
  <2>2. \A n \in Messages : thread'[n] \in Working => thread[n] \in Working /\ task'[n] = task[n]
    BY <1>1 DEF SafeInv, Types, Working
  <2>3. settled \subseteq Messages
    BY DEF SafeInv, Recorded, Linked
  <2> QED  BY <1>1, <1>2, <2>1, <2>2, <2>3 DEF SafeInv, Recorded, Busy
<1> QED  BY <1>3, <1>4, <1>5, <1>6 DEF SafeInv

\* The steps of func.
LEMMA FuncSafe ==
  ASSUME SafeInv, NEW m \in Messages, Func(m) \/ ThreadTimeout(m)
  PROVE  SafeInv'
<1> USE DEF Working
<1>1. CASE ThreadStart(m)
  <2>1. ThreadStep(m, "new", IF stopReq[m] THEN "gone" ELSE "loop") /\ task' = task
    BY <1>1 DEF ThreadStart
  <2>2. CASE stopReq[m]
    <3>1. ThreadStep(m, "new", "gone")  BY <2>1, <2>2
    <3> QED  BY <2>1, <3>1, ThreadKeeps
  <2>3. CASE ~stopReq[m]
    <3>1. ThreadStep(m, "new", "loop")  BY <2>1, <2>3
    <3> QED  BY <2>1, <3>1, ThreadKeeps
  <2> QED  BY <2>2, <2>3
<1>2. CASE ThreadLoop(m)
  <2>1. ThreadStep(m, "loop", IF LoopEnds(m) THEN "clear" ELSE "loop") /\ task' = task
    BY <1>2 DEF ThreadLoop
  <2>2. CASE LoopEnds(m)
    <3>1. ThreadStep(m, "loop", "clear")  BY <2>1, <2>2
    <3> QED  BY <2>1, <3>1, ThreadKeeps
  <2>3. CASE ~LoopEnds(m)
    <3>1. ThreadStep(m, "loop", "loop")  BY <2>1, <2>3
    <3> QED  BY <2>1, <3>1, ThreadKeeps
  <2> QED  BY <2>2, <2>3
<1>3. CASE ThreadTimeout(m)
  BY <1>3, ThreadKeeps DEF ThreadTimeout
<1>4. CASE ThreadClear(m)
  BY <1>4, ThreadKeeps DEF ThreadClear
<1>5. CASE ThreadReturn(m)
  BY <1>5, ThreadKeeps DEF ThreadReturn
<1> QED  BY <1>1, <1>2, <1>3, <1>4, <1>5 DEF Func

\* The steps of messanger_store.
LEMMA StoreSafe ==
  ASSUME SafeInv, NEW w \in Writers, StoreAlloc(w) \/ Store(w)
  PROVE  SafeInv'
<1> USE DEF SafeInv
<1>1. CASE StoreAlloc(w)
  <2>1. PICK m \in Messages, garbage \in {"garbage", "null"} :
          /\ Cardinality(Allocated) = m - 1
          /\ mem' = [mem EXCEPT ![m] = "live"]
          /\ task' = [task EXCEPT ![m] = garbage]
          /\ wmsg' = [wmsg EXCEPT ![w] = m]
    BY <1>1 DEF StoreAlloc
  <2>2. /\ wpc[w] = "idle" /\ wpc' = [wpc EXCEPT ![w] = "link"]
        /\ wsucc' = [wsucc EXCEPT ![w] = head]
        /\ UNCHANGED <<head, next, thread, exitPc, it, settled>>
    BY <1>1 DEF StoreAlloc, thrVars, exitVars
  <2>3. mem[m] = "unused" /\ \A n \in Messages : mem[n] # "unused" <=> n < m
    BY <2>1, NextNumber
  <2>4. \A n : Linked(n)' <=> Linked(n)
    BY <2>1, <2>2, <2>3 DEF Linked, Types, Numbered, Busy
  <2>5. Types'
    BY <2>1, <2>2 DEF Types, Places
  <2>6. Numbered'
    BY <2>1, <2>2, <2>3 DEF Types, Numbered, Busy, Messages
  <2>7. Falling'
    <3>1. head # NoMessage => head < m
      BY <2>3 DEF Falling, Linked
    <3>2. head < m
      BY <3>1 DEF NoMessage, Messages
    <3> QED  BY <2>1, <2>2, <2>4, <3>2 DEF Falling, Types
  <2>8. Cursor'
    BY <2>1, <2>2, <2>4 DEF Cursor, Types
  <2>9. Recorded'
    BY <2>1, <2>2, <2>3, <2>4 DEF Recorded, Types, Busy, Quiet, Working, Linked
  <2> QED  BY <2>5, <2>6, <2>7, <2>8, <2>9
<1>2. CASE StoreLink(w)
  <2>1. /\ wpc[w] = "link" /\ wpc' = [wpc EXCEPT ![w] = "parse"]
        /\ next' = [next EXCEPT ![wmsg[w]] = wsucc[w]] /\ head' = wmsg[w]
        /\ UNCHANGED <<mem, task, thread, wmsg, wsucc, exitPc, it, settled>>
    BY <1>2 DEF StoreLink, Successor, thrVars, exitVars
  <2>2. wmsg[w] \in Messages /\ mem[wmsg[w]] # "unused" /\ ~Linked(wmsg[w])
    BY <2>1 DEF Numbered, Busy, Linked
  <2>3. \A n : Linked(n)' <=> Linked(n) \/ n = wmsg[w]
    BY <2>1, <2>2 DEF Linked, Types, Numbered, Busy
  <2>4. Types'
    BY <2>1, <2>2 DEF Types, Places
  <2>5. Numbered'
    BY <2>1 DEF Types, Numbered, Busy
  <2>6. Falling'
    BY <2>1, <2>2, <2>3 DEF Falling, Types, Numbered, Busy
  <2>7. Cursor'
    BY <2>1, <2>3 DEF Cursor
  <2>8. Recorded'
    BY <2>1, <2>3 DEF Recorded, Types, Busy, Quiet, Working
  <2> QED  BY <2>4, <2>5, <2>6, <2>7, <2>8
<1>3. CASE StoreRun(w)
  <2>1. /\ wpc[w] = "parse" /\ wpc' = [wpc EXCEPT ![w] = "assign"]
        /\ thread' = [thread EXCEPT ![wmsg[w]] = "new"]
        /\ UNCHANGED <<head, next, mem, task, wmsg, wsucc, exitPc, it, settled>>
    BY <1>3 DEF StoreRun, msgVars, exitVars
  <2>2. wmsg[w] \in Messages /\ mem[wmsg[w]] # "unused"
    BY <2>1 DEF Numbered, Busy
  <2>3. \A n : Linked(n)' <=> Linked(n)
    BY <2>1, LinkedSame DEF Types
  <2>4. Types'
    BY <2>1 DEF Types
  <2>5. Numbered'
    BY <2>1, <2>2 DEF Types, Numbered, Busy
  <2>6. Falling' /\ Cursor'
    BY <2>1, <2>3 DEF Falling, Cursor, Types
  <2>7. wmsg[w] \notin settled
    BY <2>1 DEF Recorded, Busy
  <2>8. Recorded'
    BY <2>1, <2>2, <2>3, <2>7 DEF Recorded, Types, Busy, Quiet, Working
  <2> QED  BY <2>4, <2>5, <2>6, <2>8
<1>4. CASE StoreReject(w) \/ StoreNoThread(w) \/ StoreAssign(w)
  <2> DEFINE m == wmsg[w]
  <2>1. /\ wpc[w] \in {"parse", "assign"} /\ wpc' = [wpc EXCEPT ![w] = "idle"]
        /\ settled' = (IF exitPc = "loaded" THEN settled \cup {m} ELSE settled)
        /\ UNCHANGED <<head, next, mem, thread, wmsg, wsucc, exitPc, it>>
    BY <1>4 DEF StoreReject, StoreNoThread, StoreAssign, msgVars, thrVars, exitVars
  <2>2. \/ task' = task /\ wpc[w] = "parse"
        \/ task' = [task EXCEPT ![m] = "garbage"] /\ wpc[w] = "parse"
        \/ task' = [task EXCEPT ![m] = "thread"]
    BY <1>4 DEF StoreReject, StoreNoThread, StoreAssign, StoredTask, msgVars
  <2>3. m \in Messages /\ mem[m] # "unused" /\ m \notin settled
    BY <2>1 DEF Numbered, Recorded, Busy
  <2>4. \A n : Linked(n)' <=> Linked(n)
    BY <2>1, LinkedSame DEF Types
  <2>5. Linked(m)
    BY <2>1, <2>3 DEF Linked, Numbered, Busy
  <2>6. Types'
    BY <2>1, <2>2 DEF Types
  <2>7. Numbered'
    BY <2>1 DEF Types, Numbered, Busy
  <2>8. Falling' /\ Cursor'
    BY <2>1, <2>4 DEF Falling, Cursor, Types
  <2>9. \A n \in settled' : Linked(n)' /\ \A v \in Writers : Busy(v)' => wmsg'[v] # n
    BY <2>1, <2>4, <2>5 DEF Recorded, Numbered, Types, Busy
  <2>10. \A n \in settled' : thread'[n] \in Working => task'[n] = "thread"
    BY <2>1, <2>2, <2>3 DEF Recorded, Numbered, Types, Busy, Linked, Working
  <2>11. \A n \in settled' : mem'[n] = "freed" => Quiet(n)'
    BY <2>1, <2>3 DEF Recorded, Cursor, Quiet
  <2>12. exitPc' = "free" /\ it' \in settled' => Quiet(it)'
    BY <2>1 DEF Recorded, Quiet
  <2> QED  BY <2>6, <2>7, <2>8, <2>9, <2>10, <2>11, <2>12 DEF Recorded
<1>5. CASE StoreNoText(w)
  BY <1>5 DEF StoreNoText, msgVars, thrVars, storeVars, exitVars, Types, Numbered, Falling,
              Cursor, Recorded, Linked, Busy, Quiet
<1> QED  BY <1>1, <1>2, <1>3, <1>4, <1>5 DEF Store

\* The steps of messanger_exit.
LEMMA ExitSafe ==
  ASSUME SafeInv, ExitBegin \/ Exit
  PROVE  SafeInv'
<1> USE DEF SafeInv
<1>1. CASE ExitFree
  <2>1. /\ exitPc = "free" /\ exitPc' = "walk"
        /\ mem' = [mem EXCEPT ![it] = "freed"] /\ it' = next[it]
        /\ UNCHANGED <<head, next, task, thread, wpc, wmsg, wsucc, settled>>
    BY <1>1 DEF ExitFree, thrVars, storeVars
  <2>2. Linked(it) /\ it \in Messages /\ mem[it] # "unused"
    BY <2>1 DEF Cursor, Linked
  <2>3. \A n : Linked(n)' <=> Linked(n)
    BY <2>1, <2>2 DEF Linked, Types
  <2>4. next[it] \in Places /\ next[it] < it /\ (next[it] # NoMessage => Linked(next[it]))
    BY <2>2 DEF Falling, Types
  <2>5. Types' /\ Falling'
    BY <2>1, <2>2, <2>3, <2>4 DEF Types, Falling
  <2>6. Numbered'
    BY <2>1, <2>2 DEF Types, Numbered, Busy
  <2>7. Cursor'
    <3>1. \A m \in Messages : mem'[m] = "freed" => m = it \/ mem[m] = "freed"
      BY <2>1 DEF Types
    <3>2. \A m \in Messages : mem'[m] = "freed" => it' < m
      BY <2>1, <2>4, <3>1 DEF Cursor, Types, Messages, Places, NoMessage
    <3>3. \A m \in Messages : mem'[m] = "freed" => Linked(m)'
      BY <2>2, <2>3, <3>1 DEF Cursor
    <3> QED  BY <2>1, <2>3, <2>4, <3>2, <3>3 DEF Cursor
  <2>8. Recorded'
    BY <2>1, <2>2, <2>3 DEF Recorded, Busy, Quiet, Types
  <2> QED  BY <2>5, <2>6, <2>7, <2>8
<1>2. CASE ~ExitFree
  <2>1. UNCHANGED <<head, next, mem, task, thread, wpc, wmsg, wsucc, settled>>
    BY <1>2 DEF ExitBegin, Exit, ExitTest, ExitStop, ExitWait, ExitRemove, ExitUnload,
                msgVars, thrVars, storeVars
  <2>2. \A n : Linked(n)' <=> Linked(n)
    BY <2>1, LinkedSame
  <2>3. \/ exitPc = "loaded" /\ exitPc' = "walk" /\ it' = head
        \/ /\ it' = it /\ exitPc # "loaded"
           /\ \/ /\ exitPc = "walk"
                 /\ exitPc' = IF it = NoMessage THEN "remove"
                              ELSE IF task[it] = "null" THEN "free" ELSE "stop"
              \/ exitPc = "stop" /\ exitPc' = "wait"
              \/ exitPc = "wait" /\ exitPc' = "free" /\ thread[it] = "gone"
              \/ exitPc = "remove" /\ exitPc' = "drain"
              \/ exitPc = "drain" /\ exitPc' = "unloaded"
    BY <1>2 DEF ExitBegin, Exit, ExitTest, ExitStop, ExitWait, ExitRemove, ExitUnload, Stopped
  <2>4. Types'
    BY <2>1, <2>3 DEF Types
  <2>5. Numbered'
    BY <2>1 DEF Numbered, Busy
  <2>6. Falling'
    BY <2>1, <2>2 DEF Falling
  <2>7. Cursor'
    BY <2>1, <2>2, <2>3 DEF Cursor, Falling
  <2>8. exitPc' = "free" /\ it' \in settled' => Quiet(it)'
    <3>1. it \in settled /\ task[it] = "null" => thread[it] \notin Working
      BY DEF Recorded
    <3>2. it \in settled => thread[it] \in Working \/ Quiet(it)
      BY DEF Recorded, Linked, Types, Working, Quiet
    <3> QED  BY <2>1, <2>3, <3>1, <3>2 DEF Quiet
  <2>9. Recorded'
    BY <2>1, <2>2, <2>8 DEF Recorded, Busy, Quiet
  <2> QED  BY <2>4, <2>5, <2>6, <2>7, <2>9
<1> QED  BY <1>1, <1>2

\* SafeInv is an inductive invariant.
LEMMA SafeInductive ==
  /\ Init => SafeInv
  /\ SafeInv /\ [Next]_vars => SafeInv'
<1>1. Init => SafeInv
  <2> SUFFICES ASSUME Init PROVE SafeInv
    OBVIOUS
  <2>1. Types
    BY DEF Init, Types, Places
  <2>2. Numbered /\ Falling /\ Cursor /\ Recorded
    BY DEF Init, Numbered, Falling, Cursor, Recorded, Busy, Linked
  <2> QED  BY <2>1, <2>2 DEF SafeInv
<1>2. ASSUME SafeInv, [Next]_vars PROVE SafeInv'
  <2>1. CASE UNCHANGED vars
    BY <1>2, <2>1 DEF vars, msgVars, thrVars, storeVars, exitVars, SafeInv, Types, Numbered,
                      Falling, Cursor, Recorded, Linked, Busy, Quiet
  <2>2. Halted => UNCHANGED vars
    BY DEF Halted
  <2> QED  BY <1>2, <2>1, <2>2, FuncSafe, StoreSafe, ExitSafe DEF Next
<1> QED  BY <1>1, <1>2

\* The exit frees no message twice, and none that its thread still uses if the store of the
\* message had returned before.
THEOREM FreedOnce == Spec => []FreedOnceAfterThread
<1>1. SafeInv => FreedOnceAfterThread
  <2> SUFFICES ASSUME SafeInv PROVE FreedOnceAfterThread
    OBVIOUS
  <2>1. exitPc \in {"stop", "wait", "free"} => it \in Messages /\ mem[it] # "unused" /\ mem[it] # "freed"
    BY DEF SafeInv, Cursor, Linked, Messages
  <2>2. exitPc \in {"stop", "wait", "free"} => mem[it] = "live"
    BY <2>1 DEF SafeInv, Types
  <2> QED  BY <2>2 DEF SafeInv, Recorded, Quiet, FreedOnceAfterThread
<1> QED  BY <1>1, SafeInductive, PTL DEF Spec

-----------------------------------------------------------------------------
(* The messages that were linked alone                                       *)

\* A step that links nothing, frees nothing and leaves the exit where it is.
LEMMA FoundKept ==
  ASSUME FoundInv, UNCHANGED <<head, next, wsucc, wmsg, overlapped, mem, exitPc, it>>,
         Types, \A w \in Writers : wpc'[w] = "link" <=> wpc[w] = "link",
         settled' = settled
  PROVE  FoundInv'
<1>1. \A n : Linked(n)' <=> Linked(n)
  BY LinkedSame
<1>2. Linking' = Linking
  BY DEF Linking
<1>3. \A m : Passed(m) => Passed(m)'
  BY <1>1 DEF Passed
<1>4. \A w \in Writers : Highest(w) => Highest(w)'
  BY <1>1 DEF Highest
<1> QED  BY <1>1, <1>2, <1>3, <1>4 DEF FoundInv, Linking

\* The steps of messanger_store keep what was linked alone in reach.
LEMMA StoreFound ==
  ASSUME SafeInv, FoundInv, NEW w \in Writers, StoreAlloc(w) \/ Store(w)
  PROVE  FoundInv'
<1> USE DEF SafeInv
<1>1. CASE StoreAlloc(w)
  <2>1. PICK m \in Messages :
          /\ Cardinality(Allocated) = m - 1
          /\ mem' = [mem EXCEPT ![m] = "live"]
          /\ wmsg' = [wmsg EXCEPT ![w] = m]
    BY <1>1 DEF StoreAlloc
  <2>2. /\ wpc[w] = "idle" /\ wpc' = [wpc EXCEPT ![w] = "link"]
        /\ wsucc' = [wsucc EXCEPT ![w] = head]
        /\ UNCHANGED <<head, next, exitPc, it, settled, overlapped>>
    BY <1>1 DEF StoreAlloc, exitVars
  <2>3. mem[m] = "unused" /\ \A n \in Messages : mem[n] # "unused" <=> n < m
    BY <2>1, NextNumber
  <2>4. \A n : Linked(n)' <=> Linked(n)
    BY <2>1, <2>2, <2>3 DEF Linked, Types, Numbered, Busy
  <2>5. \A n : Linked(n) => n < m
    BY <2>3 DEF Linked
  <2>6. \A n \in Messages : Linked(n) /\ Passed(n) => Passed(n)'
    BY <2>1, <2>2, <2>4, <2>5 DEF Passed, Types, Messages
  <2>7. \A v \in Linking' : wmsg'[v] \notin overlapped' => Highest(v)'
    <3>1. ASSUME NEW v \in Linking, v # w, wmsg[v] \notin overlapped PROVE Highest(v)'
      BY <2>1, <2>4, <3>1 DEF FoundInv, Highest, Linking, Types
    <3>2. Highest(w)'
      BY <2>1, <2>4, <2>5 DEF Highest, Types
    <3>3. \A v \in Linking' : v = w \/ (v \in Linking /\ wmsg'[v] = wmsg[v])
      BY <2>1, <2>2 DEF Linking, Types
    <3> QED  BY <2>2, <3>1, <3>2, <3>3
  <2>8. \A n \in Messages : Linked(n) => mem'[n] = mem[n]
    BY <2>1, <2>5 DEF Messages, Types
  <2>9. \A n \in Messages : Linked(n)' /\ n \notin overlapped' => Passed(n)'
    BY <2>2, <2>4, <2>6 DEF FoundInv
  <2>10. \A n \in settled : n \in Messages /\ Linked(n)
    BY DEF Recorded, Linked
  <2>11. settled' = settled
    BY <1>1 DEF StoreAlloc, exitVars
  <2> QED
    <3>1. ASSUME NEW n \in settled
          PROVE  n \in Messages /\ mem'[n] = mem[n]
      BY <2>8, <2>10, <3>1
    <3> QED  BY <2>2, <2>7, <2>9, <2>11, <3>1 DEF FoundInv
<1>2. CASE StoreLink(w)
  <2> DEFINE m == wmsg[w]
  <2>1. /\ wpc[w] = "link" /\ wpc' = [wpc EXCEPT ![w] = "parse"]
        /\ next' = [next EXCEPT ![m] = wsucc[w]] /\ head' = m
        /\ UNCHANGED <<mem, wmsg, wsucc, exitPc, it, settled>>
    BY <1>2 DEF StoreLink, Successor, exitVars
  <2>2. overlapped' = overlapped \cup
          (IF Linking = {w} THEN {} ELSE {wmsg[v] : v \in Linking})
    BY <1>2 DEF StoreLink
  <2>3. m \in Messages /\ mem[m] # "unused" /\ ~Linked(m)
    BY <2>1 DEF Numbered, Busy, Linked
  <2>4. \A n : Linked(n)' <=> Linked(n) \/ n = m
    BY <2>1, <2>3 DEF Linked, Types, Numbered, Busy
  <2>5. w \in Linking /\ Linking' = Linking \ {w}
    BY <2>1 DEF Linking, Types
  <2>6. ASSUME NEW n \in Messages, Linked(n), n \notin overlapped PROVE Passed(n)'
    <3>1. Passed(n) /\ m > n /\ wsucc[w] >= n
      BY <2>1, <2>6 DEF FoundInv, Passed
    <3> QED  BY <2>1, <2>3, <2>4, <3>1 DEF Passed, Types, Messages
  <2>7. ASSUME m \notin overlapped' PROVE Passed(m)'
    <3>1. Linking = {w} /\ m \notin overlapped
      BY <2>2, <2>5, <2>7
    <3>2. Highest(w)
      BY <2>5, <3>1 DEF FoundInv
    <3>3. \A n \in Messages : Linked(n)' => n <= m
      BY <2>3, <2>4, <3>2 DEF Highest, Messages
    <3>4. Linking' = {}
      BY <2>5, <3>1
    <3> QED  BY <2>1, <2>3, <3>3, <3>4 DEF Passed, Messages, Linking
  <2>8. ASSUME NEW v \in Linking', wmsg'[v] \notin overlapped' PROVE Highest(v)'
    <3>1. Linking # {w} /\ v \in Linking
      BY <2>5, <2>8
    <3>2. wmsg[v] \in overlapped'
      BY <2>2, <3>1
    <3> QED  BY <2>1, <2>8, <3>2
  <2>9. overlapped \subseteq overlapped'
    BY <2>2
  <2> QED  BY <2>1, <2>4, <2>6, <2>7, <2>8, <2>9 DEF FoundInv
<1>3. CASE StoreRun(w) \/ StoreNoText(w)
  <2>1. /\ UNCHANGED <<head, next, wsucc, wmsg, overlapped, mem, exitPc, it, settled>>
        /\ wpc' = wpc \/ (wpc[w] = "parse" /\ wpc' = [wpc EXCEPT ![w] = "assign"])
    BY <1>3 DEF StoreRun, StoreNoText, msgVars, storeVars, exitVars
  <2> QED  BY <2>1, FoundKept DEF Types
<1>4. CASE StoreReject(w) \/ StoreNoThread(w) \/ StoreAssign(w)
  <2>1. /\ UNCHANGED <<head, next, wsucc, wmsg, overlapped, mem, exitPc, it>>
        /\ wpc[w] # "link" /\ wpc' = [wpc EXCEPT ![w] = "idle"]
        /\ settled' = settled \/ exitPc = "loaded"
    BY <1>4 DEF StoreReject, StoreNoThread, StoreAssign, msgVars, exitVars
  <2>2. CASE settled' = settled
    BY <2>1, <2>2, FoundKept DEF Types
  <2>3. CASE exitPc = "loaded"
    <3>1. \A n : Linked(n)' <=> Linked(n)
      BY <2>1, LinkedSame DEF Types
    <3>2. Linking' = Linking
      BY <2>1 DEF Linking, Types
    <3>3. \A n : Passed(n) => Passed(n)'
      BY <2>1, <3>1 DEF Passed, Types
    <3>4. \A v \in Writers : Highest(v) => Highest(v)'
      BY <2>1, <3>1 DEF Highest
    <3> QED  BY <2>1, <2>3, <3>1, <3>2, <3>3, <3>4 DEF FoundInv, Linking
  <2> QED  BY <2>1, <2>2, <2>3
<1> QED  BY <1>1, <1>2, <1>3, <1>4 DEF Store

\* The exit passes over no message that was linked alone: from a higher number the link
\* leads to it or to one before it.
LEMMA ExitFound ==
  ASSUME SafeInv, FoundInv, ExitBegin \/ Exit
  PROVE  FoundInv'
<1> USE DEF SafeInv
<1>1. UNCHANGED <<head, next, wpc, wsucc, wmsg, overlapped, settled>>
  BY DEF ExitBegin, Exit, ExitTest, ExitStop, ExitWait, ExitFree, ExitRemove, ExitUnload,
         msgVars, storeVars
<1>2. \A m \in Messages : mem'[m] = mem[m] \/ (mem[m] # "unused" /\ mem'[m] = "freed")
  <2>1. ExitFree => it \in Messages /\ mem[it] # "unused" /\ mem' = [mem EXCEPT ![it] = "freed"]
    BY DEF ExitFree, Cursor, Linked
  <2>2. ~ExitFree => mem' = mem
    BY DEF ExitBegin, Exit, ExitTest, ExitStop, ExitWait, ExitRemove, ExitUnload, msgVars
  <2> QED  BY <2>1, <2>2 DEF Types
<1>3. \A n : Linked(n)' <=> Linked(n)
  BY <1>1, <1>2 DEF Linked, Types
<1>4. Linking' = Linking
  BY <1>1 DEF Linking
<1>5. /\ \A m \in Messages : Linked(m)' /\ m \notin overlapped' => Passed(m)'
      /\ \A w \in Linking' : wmsg'[w] \notin overlapped' => Highest(w)'
  <2>1. \A n : Passed(n) => Passed(n)'
    BY <1>1, <1>3 DEF Passed
  <2>2. \A v \in Writers : Highest(v) => Highest(v)'
    BY <1>1, <1>3 DEF Highest
  <2> QED  BY <1>1, <1>3, <1>4, <2>1, <2>2 DEF FoundInv, Linking
<1>6. ASSUME NEW m \in settled \ overlapped
      PROVE  /\ exitPc' \in {"walk", "stop", "wait", "free"} => mem'[m] = "freed" \/ it' >= m
             /\ exitPc' \in {"remove", "drain", "unloaded"} => mem'[m] = "freed"
  <2>1. Linked(m) /\ m \in Messages /\ Passed(m)
    BY <1>6 DEF Recorded, Linked, FoundInv
  <2>2. mem[m] = "freed" => mem'[m] = "freed"
    BY <1>2, <2>1
  <2>3. CASE ExitFree
    <3>1. /\ exitPc = "free" /\ exitPc' = "walk"
          /\ mem' = [mem EXCEPT ![it] = "freed"] /\ it' = next[it] /\ Linked(it)
      BY <2>3 DEF ExitFree, Cursor
    <3>2. mem[m] = "freed" \/ it >= m
      BY <1>6, <3>1 DEF FoundInv
    <3>3. it > m => next[it] >= m
      BY <2>1, <3>1 DEF Passed, Linked
    <3>4. it = m => mem'[m] = "freed"
      BY <2>1, <3>1 DEF Types
    <3> QED  BY <2>1, <2>2, <3>1, <3>2, <3>3, <3>4 DEF Messages, Linked
  <2>4. CASE ~ExitFree
    <3>1. \/ exitPc = "loaded" /\ exitPc' = "walk" /\ it' = head
          \/ /\ it' = it
             /\ \/ exitPc = "walk" /\ exitPc' \in {"free", "stop"}
                \/ exitPc = "walk" /\ exitPc' = "remove" /\ it = NoMessage
                \/ exitPc = "stop" /\ exitPc' = "wait"
                \/ exitPc = "wait" /\ exitPc' = "free"
                \/ exitPc = "remove" /\ exitPc' = "drain"
                \/ exitPc = "drain" /\ exitPc' = "unloaded"
      BY <2>4 DEF ExitBegin, Exit, ExitTest, ExitStop, ExitWait, ExitRemove, ExitUnload
    <3>2. ~(NoMessage >= m)
      BY <2>1 DEF NoMessage, Messages
    <3> QED  BY <1>6, <2>1, <2>2, <3>1, <3>2 DEF FoundInv, Passed
  <2> QED  BY <2>3, <2>4
<1> QED  BY <1>1, <1>5, <1>6 DEF FoundInv

\* Every message whose list_add met no other, and whose store had returned before the exit
\* began, has been freed when the module is gone.
THEOREM SettledFreed == Spec => []SettledMessagesFreed
<1>1. Init => FoundInv
  BY DEF Init, FoundInv, Linked, Linking
<1>2. SafeInv /\ FoundInv /\ [Next]_vars => FoundInv'
  <2> SUFFICES ASSUME SafeInv, FoundInv, [Next]_vars PROVE FoundInv'
    OBVIOUS
  <2>1. ASSUME NEW m \in Messages, Func(m) \/ ThreadTimeout(m) PROVE FoundInv'
    <3>1. UNCHANGED <<head, next, wpc, wsucc, wmsg, overlapped, mem, exitPc, it, settled>>
      BY <2>1 DEF Func, ThreadTimeout, ThreadStart, ThreadLoop, ThreadClear, ThreadReturn,
                  ThreadStep, storeVars, exitVars
    <3> QED  BY <3>1, FoundKept DEF SafeInv
  <2>2. UNCHANGED vars => FoundInv'
    BY FoundKept DEF vars, msgVars, storeVars, exitVars, SafeInv
  <2>3. Halted => UNCHANGED vars
    BY DEF Halted
  <2> QED  BY <2>1, <2>2, <2>3, StoreFound, ExitFound DEF Next
<1>3. FoundInv => SettledMessagesFreed
  BY DEF FoundInv, SettledMessagesFreed
<1> QED  BY <1>1, <1>2, <1>3, SafeInductive, PTL DEF Spec

-----------------------------------------------------------------------------
(* Lcd                                                                       *)

\* Quotient and remainder.
LEMMA Division ==
  ASSUME NEW x \in Int, NEW n \in Nat \ {0}
  PROVE  \E k \in Int, r \in 0..n - 1 :
           /\ k = x \div n /\ r = x % n /\ x = n * k + r
           /\ x \in Nat => k \in Nat
<1>1. x = n * (x \div n) + (x % n)
  OBVIOUS
<1>2. x % n \in 0..n - 1
  OBVIOUS
<1>3. x \div n \in Int
  OBVIOUS
<1>4. x \in Nat => x \div n \in Nat
  OBVIOUS
<1> WITNESS x \div n \in Int, x % n \in 0..n - 1
<1> QED  BY <1>1, <1>4

\* There is one remainder.
LEMMA OneRemainder ==
  ASSUME NEW n \in Nat \ {0}, NEW j \in Int, NEW k \in Int, NEW q \in 0..n - 1, NEW r \in 0..n - 1,
         n * j + q = n * k + r
  PROVE  q = r
OBVIOUS

\* A function on 1..n is a sequence of length n.
LEMMA FunctionIsSequence ==
  ASSUME NEW S, NEW n \in Nat, NEW f \in [1..n -> S]
  PROVE  f \in Seq(S) /\ Len(f) = n
<1>1. f = [k \in 1..n |-> f[k]] /\ \A k \in 1..n : f[k] \in S
  OBVIOUS
<1>2. f \in Seq(S)
  BY <1>1, IsASeq
<1>3. Len(f) \in Nat /\ DOMAIN f = 1..Len(f) /\ DOMAIN f = 1..n
  BY <1>2, LenProperties
<1>4. \A l \in Nat : 1..l = 1..n => l = n
  <2> TAKE l \in Nat
  <2> HAVE 1..l = 1..n
  <2>1. l > 0 => l \in 1..n
    OBVIOUS
  <2>2. n > 0 => n \in 1..l
    OBVIOUS
  <2> QED  BY <2>1, <2>2
<1> QED  BY <1>2, <1>3, <1>4

Colours == {LC!Black, LC!Green, LC!Blue}

\* Where main may be.
LastOp == 49 + Len(Circles)
Position ==
  /\ ip \in IpLengths /\ failures \in Nat
  /\ step \in {"host", "pins", "reset", "open", "pin", "send", "free", "done", "dead"}
  /\ at \in 1..LastOp + 1
  /\ step \in {"pin", "send"} => at <= LastOp
  /\ step \in {"host", "pins", "reset", "open"} => at = 1

\* What was drawn is in the buffer, the bytes of each colour the other way round.
Drawn ==
  /\ ~stray
  /\ frame \in [LC!Cells -> Nat] /\ picture \in [LC!Screen -> Colours]
  /\ \A pt \in LC!Screen : frame[LC!Cell(pt)] = LC!Swapped(picture[pt])

PanelStates ==
  [reached : BOOLEAN, awake : BOOLEAN, on : BOOLEAN, cmd : Int,
   regs : [LC!Registers -> Seq(Int)], at : Int, high : Int, ram : [LC!Screen -> Int]]

\* A register whose command is at place k, and whose data comes next.
Held(p, place, a, k, bytes) ==
  /\ place = k + 1 => p.cmd = a /\ p.regs[a] = <<>>
  /\ place > k + 1 => p.regs[a] = bytes

FirstToLast(last) == <<LC!High(0), LC!Low(0), LC!High(last), LC!Low(last)>>

\* A panel to which all was sent that comes before a place.
SetUpTo(p, place) ==
  /\ p.reached
  /\ place > 36 => p.awake
  /\ place > 37 => p.on
  /\ place <= 44 => p.cmd # LC!RAMWR
  /\ place > 44 => p.cmd = LC!RAMWR
  /\ place \in 3..35 /\ place % 2 = 1 /\ place # 23 => p.cmd \notin LC!Registers
  /\ Held(p, place, LC!COLMOD, 22, <<85>>)
  /\ Held(p, place, LC!MADCTL, 38, <<40>>)
  /\ Held(p, place, LC!CASET, 40, FirstToLast(Width - 1))
  /\ Held(p, place, LC!RASET, 42, FirstToLast(Height - 1))

\* A frame of which n bytes were sent.
ShownTo(n) ==
  /\ panel.at = n \div 2
  /\ panel.high = IF n % 2 = 1 THEN LC!Bytes[n] ELSE -1
  /\ \A pt \in LC!Screen : LC!Cell(pt) < n \div 2 => panel.ram[pt] = picture[pt]

Sending ==
  /\ LC!Op.kind \in {"command", "data", "frame"}
  /\ dc = IF LC!Op.kind = "command" THEN 0 ELSE 1
  /\ LC!Op.kind # "frame" => sent = 0 /\ left = Len(LC!Op.bytes)
  /\ LC!Op.kind = "frame" =>
       sent \in Nat /\ left \in Nat \ {0} /\ sent + left = 2 * (Width * Height) /\ ShownTo(sent)

\* As long as no call has failed.
Wired ==
  /\ panel \in PanelStates
  /\ step \in {"reset", "open", "pin", "send"} => {"dc", "cs"} \subseteq pins
  /\ step \in {"host", "pins", "reset", "dead"} => panel.cmd = 0
  /\ step \in {"open", "pin", "send", "free", "done"} => SetUpTo(panel, at)
  /\ step = "send" => Sending
  /\ step # "send" /\ at > 44 => panel.at = 0 /\ panel.high = -1
  /\ step # "send" /\ at \in {47, LastOp + 1} => panel.ram = picture

ShowInv == Position /\ Drawn /\ (failures = 0 => Wired)

\* What is assumed of the panel, the font, the texts and the circles.
LEMMA LcdNumbers ==
  /\ Width \in Nat \ {0} /\ Width < 65536 /\ Height \in Nat \ {0} /\ Height < 65536
  /\ DataSize \in Nat /\ DataSize >= 4
  /\ Margin \in Nat /\ TimeLength \in Nat /\ Font.w \in Nat \ {0} /\ Font.h \in Nat \ {0}
  /\ Margin + Font.h <= Height /\ Margin + (TimeLength + 1) * Font.w <= Width
  /\ \A n \in IpLengths : n \in Nat /\ Margin + n * Font.w <= Width
  /\ Circles \in Seq(SUBSET LC!Screen)
<1>1. /\ Width \in Nat \ {0} /\ Width < 65536 /\ Height \in Nat \ {0} /\ Height < 65536
      /\ DataSize \in Nat /\ DataSize >= 4
      /\ Margin \in Nat /\ TimeLength \in Nat /\ IpLengths \subseteq Nat
      /\ Font.w \in Nat \ {0} /\ Font.h \in Nat \ {0} /\ Margin + Font.h <= Height
      /\ \A n \in IpLengths \cup {TimeLength + 1} : Margin + n * Font.w <= Width
      /\ Circles \in Seq(SUBSET LC!Screen)
  BY PanelAssumption DEF LC!LcdAssumption
<1> QED  BY <1>1

\* Products of numbers keep their order.
LEMMA ProductGrows ==
  ASSUME NEW n \in Nat, NEW a \in Nat, NEW b \in Nat, a <= b
  PROVE  n * a <= n * b /\ n * a \in Nat /\ n * b \in Nat
<1>1. PICK d \in Nat : b = a + d
  <2>1. b - a \in Nat /\ b = a + (b - a)
    OBVIOUS
  <2> QED  BY <2>1
<1>2. n * d \in Nat /\ n * a \in Nat
  OBVIOUS
<1>3. n * b = n * a + n * d
  BY <1>1
<1>4. n * a <= n * b /\ n * b \in Nat
  BY <1>2, <1>3
<1> QED  BY <1>2, <1>4

\* Each cell is one point's.
LEMMA CellOfPoint ==
  ASSUME NEW x \in 0..Width - 1, NEW y \in 0..Height - 1
  PROVE  /\ x + Width * y \in 0..Width * Height - 1
         /\ (x + Width * y) % Width = x
         /\ (x + Width * y) \div Width = y
<1>0. Width \in Nat \ {0} /\ Height \in Nat \ {0} /\ x \in Nat /\ y \in Nat /\ x < Width /\ y + 1 <= Height
  BY LcdNumbers
<1>1. /\ Width * (y + 1) <= Width * Height /\ Width * (y + 1) = Width * y + Width
      /\ Width * y \in Nat /\ Width * Height \in Nat
  BY <1>0, ProductGrows
<1>2. PICK wy \in Nat, size \in Nat : wy = Width * y /\ size = Width * Height /\ wy + Width <= size
  BY <1>1
<1>3. x + wy \in 0..size - 1 /\ x + wy \in Nat
  BY <1>0, <1>2
<1>4. PICK k \in Int, r \in 0..Width - 1 :
        k = (x + wy) \div Width /\ r = (x + wy) % Width /\ x + wy = Width * k + r /\ k \in Nat
  BY <1>0, <1>3, Division
<1>5. Width * k + r = Width * y + x
  BY <1>0, <1>2, <1>4
<1>6. r = x
  <2>1. Width \in Nat \ {0} /\ k \in Int /\ y \in Int
    BY <1>0, <1>4
  <2> QED  BY ONLY <2>1, <1>5, OneRemainder
<1>7. k = y
  <2>1. PICK wk \in Nat : wk = Width * k
    BY <1>0, <1>4
  <2>2. wk = wy
    BY <1>2, <1>4, <1>6, <2>1
  <2>3. \A a, b \in Nat : a + 1 <= b => Width * a + Width <= Width * b
    <3> TAKE a \in Nat, b \in Nat
    <3> HAVE a + 1 <= b
    <3>1. Width * (a + 1) <= Width * b
      BY <1>0, ProductGrows
    <3>2. Width * (a + 1) = Width * a + Width
      BY <1>0
    <3> QED  BY <3>1, <3>2
  <2>4. ~(k + 1 <= y) /\ ~(y + 1 <= k)
    <3>1. Width * k = Width * y /\ Width * k \in Nat /\ Width \in Nat \ {0}
      BY <1>0, <1>2, <2>1, <2>2
    <3>2. PICK p \in Nat : p = Width * k /\ p = Width * y
      BY <3>1
    <3>3. k + 1 <= y => p + Width <= p
      BY <1>0, <1>4, <2>3, <3>2
    <3>4. y + 1 <= k => p + Width <= p
      BY <1>0, <1>4, <2>3, <3>2
    <3> QED  BY <3>1, <3>2, <3>3, <3>4
  <2> QED  BY <1>0, <1>4, <2>4
<1> QED  BY <1>2, <1>3, <1>4, <1>6, <1>7

\* Each cell is a point's.
LEMMA PointOfCell ==
  ASSUME NEW m \in 0..Width * Height - 1
  PROVE  /\ m % Width \in 0..Width - 1 /\ m \div Width \in 0..Height - 1
         /\ (m % Width) + Width * (m \div Width) = m
<1>0. Width \in Nat \ {0} /\ Height \in Nat \ {0}
  BY LcdNumbers
<1>1. PICK size \in Nat : size = Width * Height /\ m \in Nat /\ m < size
  <2>1. Width * Height \in Nat
    BY <1>0
  <2> QED  BY <2>1
<1>2. PICK k \in Int, r \in 0..Width - 1 :
        k = m \div Width /\ r = m % Width /\ m = Width * k + r /\ k \in Nat
  BY <1>0, <1>1, Division
<1>3. k < Height
  <2> SUFFICES ASSUME Height <= k PROVE FALSE
    BY <1>0, <1>2
  <2>1. Width * Height <= Width * k /\ Width * k \in Nat
    BY <1>0, <1>2, ProductGrows
  <2>2. PICK wk \in Nat : wk = Width * k
    BY <2>1
  <2> QED  BY <1>1, <1>2, <2>1, <2>2
<1>4. Width * k \in Int
  BY <1>0, <1>2
<1> QED  BY <1>0, <1>2, <1>3, <1>4

\* The points of the screen and the cells of the buffer are one to one.
LEMMA ScreenAndCells ==
  /\ \A pt \in LC!Screen : /\ LC!Cell(pt) \in LC!Cells /\ pt = <<pt[1], pt[2]>>
                        /\ pt[1] \in 0..Width - 1 /\ pt[2] \in 0..Height - 1
                        /\ <<LC!Cell(pt) % Width, LC!Cell(pt) \div Width>> = pt
  /\ \A m \in LC!Cells : /\ <<m % Width, m \div Width>> \in LC!Screen
                      /\ LC!Cell(<<m % Width, m \div Width>>) = m
  /\ \A p, q \in LC!Screen : LC!Cell(p) = LC!Cell(q) => p = q
<1>1. ASSUME NEW pt \in LC!Screen
      PROVE  /\ pt = <<pt[1], pt[2]>> /\ pt[1] \in 0..Width - 1 /\ pt[2] \in 0..Height - 1
             /\ LC!Cell(pt) \in LC!Cells /\ <<LC!Cell(pt) % Width, LC!Cell(pt) \div Width>> = pt
  <2>1. PICK x \in 0..Width - 1, y \in 0..Height - 1 : pt = <<x, y>>
    BY DEF LC!Screen
  <2>2. pt[1] = x /\ pt[2] = y /\ LC!Cell(pt) = x + Width * y
    BY <2>1 DEF LC!Cell
  <2>3. /\ x + Width * y \in 0..Width * Height - 1
        /\ (x + Width * y) % Width = x /\ (x + Width * y) \div Width = y
    BY CellOfPoint
  <2>4. LC!Cell(pt) % Width = x /\ LC!Cell(pt) \div Width = y /\ LC!Cell(pt) \in 0..Width * Height - 1
    BY <2>2, <2>3, Zenon
  <2> QED  BY <2>1, <2>2, <2>4 DEF LC!Cells
<1>2. ASSUME NEW m \in LC!Cells
      PROVE  /\ <<m % Width, m \div Width>> \in LC!Screen
             /\ LC!Cell(<<m % Width, m \div Width>>) = m
  <2>1. PICK r \in 0..Width - 1, k \in 0..Height - 1 : r = m % Width /\ k = m \div Width /\ r + Width * k = m
    BY PointOfCell DEF LC!Cells
  <2>2. <<r, k>> \in LC!Screen
    BY DEF LC!Screen
  <2>3. LC!Cell(<<r, k>>) = r + Width * k
    BY DEF LC!Cell
  <2> QED  BY <2>1, <2>2, <2>3
<1>3. ASSUME NEW p \in LC!Screen, NEW q \in LC!Screen, LC!Cell(p) = LC!Cell(q) PROVE p = q
  BY <1>1, <1>3, Zenon
<1> QED  BY <1>1, <1>2, <1>3

-----------------------------------------------------------------------------

\* A sequence of anything, and one of a given length.
IsSequence(s) == \E S : s \in Seq(S)

HasLength(s, n) == IsSequence(s) /\ n \in Nat /\ Len(s) = n

\* Two sequences, one behind the other.
Behind(u, s, m, t, n, l) ==
  /\ HasLength(u, l)
  /\ \A k \in 1..m : u[k] = s[k]
  /\ \A k \in 1..n : u[m + k] = t[k]

\* What follows another sequence.
LEMMA Joined ==
  ASSUME NEW s, NEW t, NEW m, NEW n, NEW l, HasLength(s, m), HasLength(t, n), m + n = l
  PROVE  Behind(s \o t, s, m, t, n, l)
<1>0. IsSequence(s) /\ IsSequence(t) /\ m \in Nat /\ n \in Nat /\ Len(s) = m /\ Len(t) = n
  BY DEF HasLength
<1>1. PICK S : s \in Seq(S)
  BY <1>0 DEF IsSequence
<1>2. PICK T : t \in Seq(T)
  BY <1>0 DEF IsSequence
<1>3. s \in Seq(S \cup T) /\ t \in Seq(S \cup T)
  <2>1. DOMAIN s = 1..Len(s) /\ \A k \in 1..Len(s) : s[k] \in S \cup T
    BY <1>1, ElementOfSeq
  <2>2. DOMAIN t = 1..Len(t) /\ \A k \in 1..Len(t) : t[k] \in S \cup T
    BY <1>2, ElementOfSeq
  <2> QED  BY <1>1, <1>2, <2>1, <2>2, SeqDef
<1>4. /\ s \o t \in Seq(S \cup T)
      /\ Len(s \o t) = Len(s) + Len(t)
      /\ \A k \in 1..(Len(s) + Len(t)) : (s \o t)[k] = IF k <= Len(s) THEN s[k] ELSE t[k - Len(s)]
  BY <1>3, ConcatProperties
<1>5. \A k \in 1..n : m + k \in 1..m + n /\ ~(m + k <= m) /\ (m + k) - m = k
  BY <1>0
<1>6. IsSequence(s \o t)
  BY <1>4 DEF IsSequence
<1>7. m + n \in Nat /\ Len(s \o t) = m + n /\ \A k \in 1..m : k \in 1..m + n /\ k <= m
  BY <1>0, <1>4
<1>8. \A k \in 1..m : (s \o t)[k] = s[k]
  BY <1>0, <1>4, <1>7
<1>9. \A k \in 1..n : (s \o t)[m + k] = t[k]
  BY <1>0, <1>4, <1>5
<1> QED  BY <1>6, <1>7, <1>8, <1>9 DEF Behind, HasLength

\* A function on 1..n is a sequence.
LEMMA FunctionIsOne ==
  ASSUME NEW S, NEW n \in Nat, NEW f \in [1..n -> S]
  PROVE  IsSequence(f) /\ Len(f) = n
BY FunctionIsSequence DEF IsSequence

\* The codes of the commands are not the same.
LEMMA Apart ==
  /\ LC!SWRESET = 1 /\ LC!SLPOUT = 17 /\ LC!DISPON = 41 /\ LC!CASET = 42 /\ LC!RASET = 43
  /\ LC!RAMWR = 44 /\ LC!MADCTL = 54 /\ LC!COLMOD = 58 /\ LC!Registers = {42, 43, 54, 58}
BY DEF LC!SWRESET, LC!SLPOUT, LC!DISPON, LC!CASET, LC!RASET, LC!RAMWR, LC!MADCTL, LC!COLMOD, LC!Registers

\* The commands that the panel does nothing for, and their data.
TuningCodes == Nat \ {LC!SWRESET, LC!SLPOUT, LC!DISPON, LC!RAMWR, LC!CASET, LC!RASET, LC!MADCTL, LC!COLMOD}
TuningCommand(op) == \E b \in TuningCodes : op = LC!Command(b)

\* Commands that the panel keeps to itself come with a byte of data each.
LEMMA Tuned ==
  ASSUME NEW n \in Nat, NEW codes \in Seq(Nat), Len(codes) = n, \A k \in 1..n : codes[k] \in TuningCodes
  PROVE  /\ IsSequence(LC!Tuning(codes)) /\ Len(LC!Tuning(codes)) = 2 * n
         /\ \A k \in 1..2 * n : IF k % 2 = 1 THEN TuningCommand(LC!Tuning(codes)[k])
                                             ELSE LC!Tuning(codes)[k] = LC!Data(<<0>>)
<1> DEFINE f == LC!Tuning(codes)
           S == {f[k] : k \in 1..2 * n}
<1>1. f = [k \in 1..2 * n |-> IF k % 2 = 1 THEN LC!Command(codes[(k + 1) \div 2]) ELSE LC!Data(<<0>>)]
  BY DEF LC!Tuning
<1>2. f \in [1..2 * n -> S]
  BY <1>1
<1>3. IsSequence(f) /\ Len(f) = 2 * n
  <2>1. 2 * n \in Nat
    OBVIOUS
  <2> HIDE DEF f, S
  <2> QED  BY <1>2, <2>1, FunctionIsOne
<1>4. ASSUME NEW k \in 1..2 * n PROVE IF k % 2 = 1 THEN TuningCommand(f[k]) ELSE f[k] = LC!Data(<<0>>)
  <2>1. CASE k % 2 = 1
    <3>1. (k + 1) \div 2 \in 1..n
      OBVIOUS
    <3>2. f[k] = LC!Command(codes[(k + 1) \div 2])
      BY <1>1, <2>1
    <3>3. codes[(k + 1) \div 2] \in TuningCodes
      BY <3>1
    <3> QED  BY <2>1, <3>2, <3>3 DEF TuningCommand
  <2>2. CASE k % 2 # 1
    BY <1>1, <2>2
  <2> QED  BY <2>1, <2>2
<1> QED  BY <1>3, <1>4

\* Those of lcd_init_ili9341 are of this kind.
LEMMA CurvesAreTuning ==
  LET a == <<203, 207, 232, 234, 237, 247, 192, 193, 197, 199>>
      b == <<177, 182, 242, 38, 224, 225>>
  IN  /\ IsSequence(LC!Tuning(a)) /\ Len(LC!Tuning(a)) = 20
      /\ \A k \in 1..20 : IF k % 2 = 1 THEN TuningCommand(LC!Tuning(a)[k])
                                       ELSE LC!Tuning(a)[k] = LC!Data(<<0>>)
      /\ IsSequence(LC!Tuning(b)) /\ Len(LC!Tuning(b)) = 12
      /\ \A k \in 1..12 : IF k % 2 = 1 THEN TuningCommand(LC!Tuning(b)[k])
                                       ELSE LC!Tuning(b)[k] = LC!Data(<<0>>)
<1> DEFINE a == <<203, 207, 232, 234, 237, 247, 192, 193, 197, 199>>
           b == <<177, 182, 242, 38, 224, 225>>
<1>1. a \in Seq(Nat) /\ Len(a) = 10 /\ b \in Seq(Nat) /\ Len(b) = 6
  OBVIOUS
<1>2. \A k \in 1..10 : a[k] \in TuningCodes
  BY Apart DEF TuningCodes
<1>3. \A k \in 1..6 : b[k] \in TuningCodes
  BY Apart DEF TuningCodes
<1> HIDE DEF a, b
<1>4. /\ IsSequence(LC!Tuning(a)) /\ Len(LC!Tuning(a)) = 2 * 10
      /\ \A k \in 1..2 * 10 : IF k % 2 = 1 THEN TuningCommand(LC!Tuning(a)[k])
                                           ELSE LC!Tuning(a)[k] = LC!Data(<<0>>)
  BY <1>1, <1>2, Tuned
<1>5. /\ IsSequence(LC!Tuning(b)) /\ Len(LC!Tuning(b)) = 2 * 6
      /\ \A k \in 1..2 * 6 : IF k % 2 = 1 THEN TuningCommand(LC!Tuning(b)[k])
                                          ELSE LC!Tuning(b)[k] = LC!Data(<<0>>)
  BY <1>1, <1>3, Tuned
<1>6. 2 * 10 = 20 /\ 2 * 6 = 12
  OBVIOUS
<1> USE DEF a, b
<1> QED  BY <1>4, <1>5, <1>6

\* What the panel is set up with, operation by operation.
SetUpTable(m) ==
  /\ m[1] = LC!Command(LC!SWRESET)
  /\ \A k \in (2..21) \cup (24..35) : IF k % 2 = 0 THEN TuningCommand(m[k]) ELSE m[k] = LC!Data(<<0>>)
  /\ m[22] = LC!Command(LC!COLMOD) /\ m[23] = LC!Data(<<85>>)
  /\ m[36] = LC!Command(LC!SLPOUT) /\ m[37] = LC!Command(LC!DISPON)
  /\ m[38] = LC!Command(LC!MADCTL) /\ m[39] = LC!Data(<<40>>)

\* lcd_init_ili9341, operation by operation.
LEMMA SetUp ==
  HasLength(LC!InitCommands, 39) /\ SetUpTable(LC!InitCommands)
<1> DEFINE a == LC!Tuning(<<203, 207, 232, 234, 237, 247, 192, 193, 197, 199>>)
           b == LC!Tuning(<<177, 182, 242, 38, 224, 225>>)
           p == <<LC!Command(LC!SWRESET)>>
           q == <<LC!Command(LC!COLMOD), LC!Data(<<85>>)>>
           r == <<LC!Command(LC!SLPOUT), LC!Command(LC!DISPON), LC!Command(LC!MADCTL), LC!Data(<<40>>)>>
           ok(s, k) == IF k % 2 = 1 THEN TuningCommand(s[k]) ELSE s[k] = LC!Data(<<0>>)
<1>1. /\ IsSequence(a) /\ Len(a) = 20 /\ \A k \in 1..20 : ok(a, k)
      /\ IsSequence(b) /\ Len(b) = 12 /\ \A k \in 1..12 : ok(b, k)
  BY CurvesAreTuning
<1>2. /\ IsSequence(p) /\ Len(p) = 1 /\ p[1] = LC!Command(LC!SWRESET)
      /\ IsSequence(q) /\ Len(q) = 2 /\ q[1] = LC!Command(LC!COLMOD) /\ q[2] = LC!Data(<<85>>)
      /\ IsSequence(r) /\ Len(r) = 4 /\ r[1] = LC!Command(LC!SLPOUT) /\ r[2] = LC!Command(LC!DISPON)
      /\ r[3] = LC!Command(LC!MADCTL) /\ r[4] = LC!Data(<<40>>)
  <2>1. p \in Seq({LC!Command(LC!SWRESET)})
    OBVIOUS
  <2>2. q \in Seq({LC!Command(LC!COLMOD), LC!Data(<<85>>)})
    OBVIOUS
  <2>3. r \in Seq({LC!Command(LC!SLPOUT), LC!Command(LC!DISPON), LC!Command(LC!MADCTL), LC!Data(<<40>>)})
    OBVIOUS
  <2> QED  BY <2>1, <2>2, <2>3 DEF IsSequence
<1> DEFINE pa == p \o a
           paq == pa \o q
           paqb == paq \o b
           all == paqb \o r
<1>3. LC!InitCommands = all
  BY DEF LC!InitCommands
<1> HIDE DEF a, b, p, q, r
<1>a. HasLength(p, 1) /\ HasLength(a, 20) /\ HasLength(q, 2) /\ HasLength(b, 12) /\ HasLength(r, 4)
  BY <1>1, <1>2 DEF HasLength
<1>4. HasLength(pa, 21) /\ (\A k \in 1..1 : pa[k] = p[k]) /\ \A k \in 1..20 : pa[1 + k] = a[k]
  <2>1. Behind(pa, p, 1, a, 20, 21)
    <3>1. 1 + 20 = 21
      OBVIOUS
    <3> QED  BY <1>a, <3>1, Joined, Zenon
  <2> QED  BY <2>1, Zenon DEF Behind
<1> HIDE DEF pa
<1>5. HasLength(paq, 23) /\ (\A k \in 1..21 : paq[k] = pa[k]) /\ \A k \in 1..2 : paq[21 + k] = q[k]
  <2>1. Behind(paq, pa, 21, q, 2, 23)
    <3>1. 21 + 2 = 23
      OBVIOUS
    <3> QED  BY <1>a, <1>4, <3>1, Joined, Zenon
  <2> QED  BY <2>1, Zenon DEF Behind
<1> HIDE DEF paq
<1>6. HasLength(paqb, 35) /\ (\A k \in 1..23 : paqb[k] = paq[k]) /\ \A k \in 1..12 : paqb[23 + k] = b[k]
  <2>1. Behind(paqb, paq, 23, b, 12, 35)
    <3>1. 23 + 12 = 35
      OBVIOUS
    <3> QED  BY <1>a, <1>5, <3>1, Joined, Zenon
  <2> QED  BY <2>1, Zenon DEF Behind
<1> HIDE DEF paqb
<1>7. HasLength(all, 39) /\ (\A k \in 1..35 : all[k] = paqb[k]) /\ \A k \in 1..4 : all[35 + k] = r[k]
  <2>1. Behind(all, paqb, 35, r, 4, 39)
    <3>1. 35 + 4 = 39
      OBVIOUS
    <3> QED  BY <1>a, <1>6, <3>1, Joined, Zenon
  <2> QED  BY <2>1, Zenon DEF Behind
<1> HIDE DEF all
<1>8. all[1] = p[1]
  BY <1>4, <1>5, <1>6, <1>7
<1>9. ASSUME NEW k \in 2..21 PROVE all[k] = a[k - 1] /\ k - 1 \in 1..20
  <2>1. k - 1 \in 1..20 /\ 1 + (k - 1) = k /\ k \in 1..21 /\ k \in 1..23 /\ k \in 1..35
    OBVIOUS
  <2>2. pa[1 + (k - 1)] = a[k - 1]
    BY <1>4, <2>1
  <2> QED  BY <1>5, <1>6, <1>7, <2>1, <2>2
<1>10. ASSUME NEW k \in 24..35 PROVE all[k] = b[k - 23] /\ k - 23 \in 1..12
  <2>1. k - 23 \in 1..12 /\ 23 + (k - 23) = k /\ k \in 1..35
    OBVIOUS
  <2>2. paqb[23 + (k - 23)] = b[k - 23]
    BY <1>6, <2>1
  <2> QED  BY <1>7, <2>1, <2>2
<1>11. all[22] = q[1] /\ all[23] = q[2]
  <2>1. paq[21 + 1] = q[1] /\ paq[21 + 2] = q[2]
    BY <1>5
  <2> QED  BY <1>6, <1>7, <2>1
<1>12. all[36] = r[1] /\ all[37] = r[2] /\ all[38] = r[3] /\ all[39] = r[4]
  <2>1. all[35 + 1] = r[1] /\ all[35 + 2] = r[2] /\ all[35 + 3] = r[3] /\ all[35 + 4] = r[4]
    BY <1>7
  <2> QED  BY <2>1
<1>13. \A k \in (2..21) \cup (24..35) : IF k % 2 = 0 THEN TuningCommand(all[k]) ELSE all[k] = LC!Data(<<0>>)
  <2>1. ASSUME NEW k \in 2..21
        PROVE  IF k % 2 = 0 THEN TuningCommand(all[k]) ELSE all[k] = LC!Data(<<0>>)
    <3>1. (k - 1) % 2 = 1 <=> k % 2 = 0
      OBVIOUS
    <3>2. ok(a, k - 1)
      BY <1>1, <1>9
    <3> QED  BY <1>9, <3>1, <3>2
  <2>2. ASSUME NEW k \in 24..35
        PROVE  IF k % 2 = 0 THEN TuningCommand(all[k]) ELSE all[k] = LC!Data(<<0>>)
    <3>1. (k - 23) % 2 = 1 <=> k % 2 = 0
      OBVIOUS
    <3>2. ok(b, k - 23)
      BY <1>1, <1>10
    <3> QED  BY <1>10, <3>1, <3>2
  <2> QED  BY <2>1, <2>2
<1> QED  BY <1>2, <1>3, <1>7, <1>8, <1>11, <1>12, <1>13 DEF SetUpTable

\* All that main does.
Texts(n) == << [kind |-> "fill"], LC!Update,
               LC!String(Width - Margin - (TimeLength + 1) * Font.w, Margin, TimeLength),
               LC!String(Margin, Height - Font.h - Margin, n) >>
Figures == [k \in DOMAIN Circles |-> LC!Circle(Circles[k])]
WindowTable(m) ==
  /\ m[40] = LC!Command(LC!CASET) /\ m[41] = LC!Bounds(0, Width - 1)
  /\ m[42] = LC!Command(LC!RASET) /\ m[43] = LC!Bounds(0, Height - 1)
  /\ m[44] = LC!Command(LC!RAMWR)
DrawTable(m, n) ==
  /\ \A k \in 1..4 : m[44 + k] = Texts(n)[k]
  /\ \A k \in 1..Len(Circles) : m[48 + k] = LC!Circle(Circles[k])
  /\ m[49 + Len(Circles)] = LC!Update
Table(m, n) == SetUpTable(m) /\ WindowTable(m) /\ DrawTable(m, n)

\* The circles are on the screen.
LEMMA CircleFacts ==
  /\ Len(Circles) \in Nat /\ DOMAIN Circles = 1..Len(Circles)
  /\ \A k \in 1..Len(Circles) : Circles[k] \subseteq LC!Screen
<1>1. Circles \in Seq(SUBSET LC!Screen)
  BY LcdNumbers
<1> QED  BY <1>1, LenProperties

\* main, operation by operation: the setting up, the window, texts, circles and frames.
LEMMA MainTable ==
  ASSUME NEW n \in IpLengths
  PROVE  HasLength(LC!Mains[n], 49 + Len(Circles)) /\ Table(LC!Mains[n], n)
<1> DEFINE c == Len(Circles)
           w == LC!AddressWindow(0, 0, Width - 1, Height - 1)
           u == <<LC!Update>>
           iw == LC!InitCommands \o w
           iwt == iw \o Texts(n)
           iwtf == iwt \o Figures
           all == iwtf \o u
<1>1. LC!Mains[n] = all
  BY DEF LC!Mains, LC!MainFor, Texts, Figures
<1>2. c \in Nat /\ 48 + c \in Nat /\ 49 + c \in Nat
  BY CircleFacts
<1>3. HasLength(LC!InitCommands, 39) /\ SetUpTable(LC!InitCommands)
  BY SetUp
<1>4. /\ HasLength(w, 5)
      /\ w[1] = LC!Command(LC!CASET) /\ w[2] = LC!Bounds(0, Width - 1) /\ w[3] = LC!Command(LC!RASET)
      /\ w[4] = LC!Bounds(0, Height - 1) /\ w[5] = LC!Command(LC!RAMWR)
  <2> DEFINE a == LC!Command(LC!CASET)
             b == LC!Bounds(0, Width - 1)
             d == LC!Command(LC!RASET)
             e == LC!Bounds(0, Height - 1)
             f == LC!Command(LC!RAMWR)
  <2>1. w = <<a, b, d, e, f>>
    BY DEF LC!AddressWindow
  <2> HIDE DEF a, b, d, e, f, w
  <2>2. w \in Seq({a, b, d, e, f}) /\ Len(w) = 5 /\ w[1] = a /\ w[2] = b /\ w[3] = d /\ w[4] = e /\ w[5] = f
    BY <2>1
  <2> QED  BY <2>2 DEF HasLength, IsSequence, a, b, d, e, f
<1>5. HasLength(Texts(n), 4)
  <2> DEFINE a == [kind |-> "fill"]
             b == LC!Update
             d == LC!String(Width - Margin - (TimeLength + 1) * Font.w, Margin, TimeLength)
             e == LC!String(Margin, Height - Font.h - Margin, n)
  <2>1. Texts(n) = <<a, b, d, e>>
    BY DEF Texts
  <2> HIDE DEF a, b, d, e
  <2>2. Texts(n) \in Seq({a, b, d, e}) /\ Len(Texts(n)) = 4
    BY <2>1
  <2> QED  BY <2>2 DEF HasLength, IsSequence
<1>6. HasLength(Figures, c) /\ \A k \in 1..c : Figures[k] = LC!Circle(Circles[k])
  <2> DEFINE S == {LC!Circle(Circles[k]) : k \in 1..c}
  <2>1. Figures \in [1..c -> S] /\ \A k \in 1..c : Figures[k] = LC!Circle(Circles[k])
    BY CircleFacts DEF Figures
  <2> HIDE DEF S, c
  <2>2. IsSequence(Figures) /\ Len(Figures) = c
    BY <1>2, <2>1, FunctionIsOne
  <2> QED  BY <1>2, <2>1, <2>2 DEF HasLength
<1>7. HasLength(u, 1) /\ u[1] = LC!Update
  <2>1. u \in Seq({LC!Update}) /\ Len(u) = 1 /\ u[1] = LC!Update
    OBVIOUS
  <2> QED  BY <2>1 DEF HasLength, IsSequence
<1> HIDE DEF w, u, c
<1>8. HasLength(iw, 44) /\ (\A k \in 1..39 : iw[k] = LC!InitCommands[k]) /\ \A k \in 1..5 : iw[39 + k] = w[k]
  <2>1. Behind(iw, LC!InitCommands, 39, w, 5, 44)
    <3>1. 39 + 5 = 44
      OBVIOUS
    <3> QED  BY <1>3, <1>4, <3>1, Joined, ZenonT(60)
  <2> QED  BY <2>1, Zenon DEF Behind
<1> HIDE DEF iw
<1>9. HasLength(iwt, 48) /\ (\A k \in 1..44 : iwt[k] = iw[k]) /\ \A k \in 1..4 : iwt[44 + k] = Texts(n)[k]
  <2>1. Behind(iwt, iw, 44, Texts(n), 4, 48)
    <3>1. 44 + 4 = 48
      OBVIOUS
    <3> QED  BY <1>5, <1>8, <3>1, Joined, ZenonT(60)
  <2> QED  BY <2>1, Zenon DEF Behind
<1> HIDE DEF iwt
<1>10. HasLength(iwtf, 48 + c) /\ (\A k \in 1..48 : iwtf[k] = iwt[k]) /\ \A k \in 1..c : iwtf[48 + k] = Figures[k]
  <2>1. Behind(iwtf, iwt, 48, Figures, c, 48 + c)
    BY <1>6, <1>9, Joined, ZenonT(60)
  <2> QED  BY <2>1, Zenon DEF Behind
<1> HIDE DEF iwtf
<1>11. HasLength(all, 49 + c) /\ (\A k \in 1..48 + c : all[k] = iwtf[k]) /\ all[49 + c] = LC!Update
  <2>1. Behind(all, iwtf, 48 + c, u, 1, 49 + c)
    <3>1. (48 + c) + 1 = 49 + c
      BY <1>2
    <3> QED  BY <1>7, <1>10, <3>1, Joined, ZenonT(60)
  <2>2. 1 \in 1..1 /\ (48 + c) + 1 = 49 + c
    BY <1>2
  <2>3. HasLength(all, 49 + c) /\ (\A k \in 1..48 + c : all[k] = iwtf[k]) /\ \A k \in 1..1 : all[(48 + c) + k] = u[k]
    BY <2>1, Zenon DEF Behind
  <2> QED  BY <1>7, <2>2, <2>3, Zenon
<1> HIDE DEF all
<1>12. \A k \in 1..48 : all[k] = iwt[k]
  <2>1. \A k \in 1..48 : k \in 1..48 + c
    BY <1>2
  <2> QED  BY <1>10, <1>11, <2>1, Zenon
<1>13. \A k \in 1..44 : all[k] = iw[k]
  <2>1. \A k \in 1..44 : k \in 1..48
    OBVIOUS
  <2> QED  BY <1>9, <1>12, <2>1, Zenon
<1>14. \A k \in 1..39 : all[k] = LC!InitCommands[k]
  <2>1. \A k \in 1..39 : k \in 1..44
    OBVIOUS
  <2> QED  BY <1>8, <1>13, <2>1, Zenon
<1>15. SetUpTable(all)
  BY <1>3, <1>14 DEF SetUpTable
<1>16. WindowTable(all)
  <2>1. all[39 + 1] = w[1] /\ all[39 + 2] = w[2] /\ all[39 + 3] = w[3] /\ all[39 + 4] = w[4] /\ all[39 + 5] = w[5]
    BY <1>8, <1>13
  <2>2. all[40] = w[1] /\ all[41] = w[2] /\ all[42] = w[3] /\ all[43] = w[4] /\ all[44] = w[5]
    BY <2>1
  <2> QED  BY <1>4, <2>2 DEF WindowTable
<1>17. \A k \in 1..4 : all[44 + k] = Texts(n)[k]
  BY <1>9, <1>12
<1>18. \A k \in 1..c : all[48 + k] = LC!Circle(Circles[k])
  <2>1. \A k \in 1..c : 48 + k \in 1..48 + c
    BY <1>2
  <2> QED  BY <1>6, <1>10, <1>11, <2>1
<1>19. DrawTable(all, n)
  BY <1>11, <1>17, <1>18 DEF DrawTable, c
<1> QED  BY <1>1, <1>11, <1>15, <1>16, <1>19 DEF Table, c

-----------------------------------------------------------------------------

\* Which operations are where.
KindTable(m, n) ==
  LET last == 49 + Len(Circles) IN
  \A k \in 1..last :
    /\ k <= 44 => m[k].kind \in {"command", "data"}
    /\ k = 45 => m[k].kind = "fill"
    /\ k = 46 \/ k = last => m[k].kind = "frame"
    /\ k = 47 => m[k] = LC!String(Width - Margin - (TimeLength + 1) * Font.w, Margin, TimeLength)
    /\ k = 48 => m[k] = LC!String(Margin, Height - Font.h - Margin, n)
    /\ k \in 47..48 => m[k].kind = "string"
    /\ k > 48 /\ k < last => /\ k - 48 \in 1..Len(Circles) /\ m[k] = LC!Circle(Circles[k - 48])
                             /\ m[k].kind = "circle"

\* The kind of each of main's operations.
LEMMA Kinds ==
  ASSUME NEW n \in IpLengths
  PROVE  KindTable(LC!Mains[n], n)
<1> DEFINE m == LC!Mains[n]
           c == Len(Circles)
<1>1. SetUpTable(m) /\ WindowTable(m) /\ DrawTable(m, n)
  BY MainTable DEF Table
<1>2. c \in Nat
  BY CircleFacts
<1>3. \A b : LC!Command(b).kind = "command" /\ LC!Data(b).kind = "data"
  BY DEF LC!Command, LC!Data
<1> HIDE DEF m
<1>4. ASSUME NEW k \in 1..44 PROVE m[k].kind \in {"command", "data"}
  <2>1. CASE k \in (2..21) \cup (24..35)
    <3>1. CASE k % 2 = 0
      BY <1>1, <1>3, <2>1, <3>1 DEF SetUpTable, TuningCommand
    <3>2. CASE k % 2 # 0
      BY <1>1, <1>3, <2>1, <3>2 DEF SetUpTable
    <3> QED  BY <3>1, <3>2
  <2>2. CASE k \in {1, 22, 23, 36, 37, 38, 39}
    BY <1>1, <1>3, <2>2 DEF SetUpTable
  <2>3. CASE k \in {40, 41, 42, 43, 44}
    BY <1>1, <1>3, <2>3 DEF WindowTable, LC!Bounds
  <2>4. k \in (2..21) \cup (24..35) \/ k \in {1, 22, 23, 36, 37, 38, 39} \/ k \in {40, 41, 42, 43, 44}
    OBVIOUS
  <2> QED  BY <2>1, <2>2, <2>3, <2>4
<1>5. /\ m[45] = [kind |-> "fill"] /\ m[46] = LC!Update
      /\ m[47] = LC!String(Width - Margin - (TimeLength + 1) * Font.w, Margin, TimeLength)
      /\ m[48] = LC!String(Margin, Height - Font.h - Margin, n)
  <2>1. m[44 + 1] = Texts(n)[1] /\ m[44 + 2] = Texts(n)[2] /\ m[44 + 3] = Texts(n)[3] /\ m[44 + 4] = Texts(n)[4]
    BY <1>1 DEF DrawTable
  <2> QED  BY <2>1 DEF Texts
<1>6. LC!Update.kind = "frame" /\ \A x, y, l : LC!String(x, y, l).kind = "string"
  BY DEF LC!Update, LC!String
<1>7. \A p : LC!Circle(p).kind = "circle"
  BY DEF LC!Circle
<1>8. m[49 + c] = LC!Update /\ \A k \in 1..c : m[48 + k] = LC!Circle(Circles[k])
  BY <1>1 DEF DrawTable
<1>9. ASSUME NEW k \in 1..49 + c, k > 48, k < 49 + c
      PROVE  k - 48 \in 1..c /\ m[k] = LC!Circle(Circles[k - 48])
  <2>1. k - 48 \in 1..c /\ 48 + (k - 48) = k
    BY <1>2, <1>9
  <2> HIDE DEF c
  <2> QED  BY <1>8, <2>1
<1> HIDE DEF c
<1>10. ASSUME NEW k \in 1..49 + c
       PROVE  /\ k <= 44 => m[k].kind \in {"command", "data"}
              /\ k = 45 => m[k].kind = "fill"
              /\ k = 46 \/ k = 49 + c => m[k].kind = "frame"
              /\ k = 47 => m[k] = LC!String(Width - Margin - (TimeLength + 1) * Font.w, Margin, TimeLength)
              /\ k = 48 => m[k] = LC!String(Margin, Height - Font.h - Margin, n)
              /\ k \in 47..48 => m[k].kind = "string"
              /\ k > 48 /\ k < 49 + c => /\ k - 48 \in 1..c /\ m[k] = LC!Circle(Circles[k - 48])
                                         /\ m[k].kind = "circle"
  <2>1. k <= 44 => m[k].kind \in {"command", "data"}
    BY <1>4
  <2>2. k = 45 => m[k].kind = "fill"
    BY <1>5
  <2>3. k = 46 \/ k = 49 + c => m[k].kind = "frame"
    BY <1>5, <1>6, <1>8
  <2>4. k \in 47..48 => k = 47 \/ k = 48
    OBVIOUS
  <2>5. k \in 47..48 => m[k].kind = "string"
    BY <1>5, <1>6, <2>4
  <2>6. k > 48 /\ k < 49 + c => /\ k - 48 \in 1..c /\ m[k] = LC!Circle(Circles[k - 48]) /\ m[k].kind = "circle"
    BY <1>7, <1>9
  <2> QED  BY <1>5, <2>1, <2>2, <2>3, <2>5, <2>6
<1> QED  BY <1>10 DEF KindTable, c, m

-----------------------------------------------------------------------------

\* A colour with its bytes swapped, swapped again, is the colour.
LEMMA ColourNumbers ==
  /\ LC!Black = 0 /\ LC!Green = 2016 /\ LC!Blue = 31
  /\ \A v \in Nat : LC!High(v) = v \div 256 /\ LC!Low(v) = v % 256
  /\ \A v \in Colours : v \in Nat /\ LC!Swapped(v) \in Nat
  /\ \A v \in Colours : 256 * LC!Low(LC!Swapped(v)) + LC!High(LC!Swapped(v)) = v
  /\ LC!Swapped(LC!Black) = 0
BY DEF Colours, LC!Black, LC!Green, LC!Blue, LC!Swapped, LC!High, LC!Low

\* What is put into the buffer is what is seen on the screen.
LEMMA PutDraws ==
  ASSUME Drawn, NEW colors, DOMAIN colors \subseteq LC!Cells, \A k \in DOMAIN colors : colors[k] \in Colours,
         LC!Put(colors),
         picture' = [pt \in LC!Screen |->
           IF LC!Cell(pt) \in DOMAIN colors THEN colors[LC!Cell(pt)] ELSE picture[pt]]
  PROVE  Drawn'
<1>1. /\ frame' = [k \in LC!Cells |-> IF k \in DOMAIN colors THEN LC!Swapped(colors[k]) ELSE frame[k]]
      /\ ~stray'
  BY DEF LC!Put, Drawn
<1>2. frame' \in [LC!Cells -> Nat]
  BY <1>1, ColourNumbers DEF Drawn
<1>3. picture' \in [LC!Screen -> Colours]
  BY DEF Drawn
<1>4. ASSUME NEW pt \in LC!Screen PROVE frame'[LC!Cell(pt)] = LC!Swapped(picture'[pt])
  <2>1. LC!Cell(pt) \in LC!Cells
    BY ScreenAndCells
  <2> QED  BY <1>1, <2>1 DEF Drawn
<1> QED  BY <1>1, <1>2, <1>3, <1>4 DEF Drawn

\* The columns and the rows of a rectangle that are on the screen.
LEMMA ClippedSides ==
  ASSUME NEW x \in Nat, NEW n \in Nat
  PROVE  /\ x < Width /\ x + n - 1 # Width =>
              {a \in x..x + n - 1 : a < Width} = {x + c : c \in 0..LC!ClippedWidth(x, n) - 1}
         /\ x < Height /\ x + n - 1 # Height =>
              {b \in x..x + n - 1 : b < Height} = {x + r : r \in 0..LC!ClippedHeight(x, n) - 1}
<1>0. Width \in Nat /\ Height \in Nat
  BY LcdNumbers
<1>1. ASSUME NEW size \in Nat, NEW m, m = (IF x + n - 1 > size THEN size - x ELSE n), x < size, x + n - 1 # size
      PROVE  {a \in x..x + n - 1 : a < size} = {x + c : c \in 0..m - 1}
  <2>1. m \in Int
    BY <1>1
  <2>2. \A a \in x..x + n - 1 : a < size => a - x \in 0..m - 1 /\ x + (a - x) = a
    BY <1>1, <2>1
  <2>3. \A c \in 0..m - 1 : x + c \in x..x + n - 1 /\ x + c < size
    BY <1>1, <2>1
  <2> QED  BY <2>2, <2>3
<1>2. /\ LC!ClippedWidth(x, n) = IF x + n - 1 > Width THEN Width - x ELSE n
      /\ LC!ClippedHeight(x, n) = IF x + n - 1 > Height THEN Height - x ELSE n
  BY DEF LC!ClippedWidth, LC!ClippedHeight
<1> QED  BY <1>0, <1>1, <1>2

\* A rectangle's columns or rows that are on the screen, and the cells of columns and rows.
Part(x, n, size) == {a \in x..x + n - 1 : a < size}
Area(cols, rows) == {a + Width * b : a \in cols, b \in rows}

\* lcd_fill_rectangle reaches the cells of its part on the screen.
LEMMA Rectangles ==
  ASSUME NEW x \in Nat, NEW w \in Nat, NEW y \in Nat, NEW h \in Nat, x + w - 1 # Width, y + h - 1 # Height
  PROVE  LC!RectangleCells(x, y, w, h) = Area(Part(x, w, Width), Part(y, h, Height))
<1>0. Width \in Nat /\ Height \in Nat
  BY LcdNumbers
<1> DEFINE cols == Part(x, w, Width)
           rows == Part(y, h, Height)
<1>1. CASE x >= Width \/ y >= Height
  <2>1. (cols = {} \/ rows = {}) /\ cols \in SUBSET Int /\ rows \in SUBSET Int
    BY <1>0, <1>1 DEF Part
  <2> HIDE DEF cols, rows
  <2>2. Area(cols, rows) = {}
    BY <2>1 DEF Area
  <2> QED  BY <1>1, <2>2 DEF LC!RectangleCells, cols, rows
<1>2. CASE ~(x >= Width \/ y >= Height)
  <2> DEFINE cs == 0..LC!ClippedWidth(x, w) - 1
             rs == 0..LC!ClippedHeight(y, h) - 1
  <2>1. cols = {x + c : c \in cs} /\ rows = {y + r : r \in rs}
    <3>1. x < Width /\ y < Height
      BY <1>0, <1>2
    <3> QED  BY <3>1, ClippedSides DEF Part
  <2>2. LC!RectangleCells(x, y, w, h) = {(x + Width * y) + (c + Width * r) : c \in cs, r \in rs}
    BY <1>2 DEF LC!RectangleCells
  <2>3. \A c \in cs, r \in rs : (x + Width * y) + (c + Width * r) = (x + c) + Width * (y + r)
    BY <1>0
  <2> HIDE DEF cols, rows, cs, rs
  <2>4. {(x + Width * y) + (c + Width * r) : c \in cs, r \in rs} = Area(cols, rows)
    BY <2>1, <2>3 DEF Area
  <2> QED  BY <2>2, <2>4 DEF cols, rows
<1> QED  BY <1>1, <1>2

\* The cells of columns and rows are those of their points.
LEMMA AreaOfPoints ==
  ASSUME NEW cols \in SUBSET Int, NEW rows \in SUBSET Int
  PROVE  Area(cols, rows) = {LC!Cell(pt) : pt \in cols \X rows}
<1>1. \A a \in cols, b \in rows : LC!Cell(<<a, b>>) = a + Width * b
  BY DEF LC!Cell
<1>2. ASSUME NEW k \in Area(cols, rows) PROVE k \in {LC!Cell(pt) : pt \in cols \X rows}
  <2>1. PICK a \in cols, b \in rows : k = a + Width * b
    BY DEF Area
  <2>2. <<a, b>> \in cols \X rows /\ k = LC!Cell(<<a, b>>)
    BY <1>1, <2>1
  <2> QED  BY <2>2
<1>3. ASSUME NEW pt \in cols \X rows PROVE LC!Cell(pt) \in Area(cols, rows)
  <2>1. pt = <<pt[1], pt[2]>> /\ pt[1] \in cols /\ pt[2] \in rows
    OBVIOUS
  <2>2. LC!Cell(pt) = pt[1] + Width * pt[2]
    BY DEF LC!Cell
  <2>3. PICK a \in cols, b \in rows : a = pt[1] /\ b = pt[2] /\ LC!Cell(pt) = a + Width * b
    BY <2>1, <2>2
  <2>4. a + Width * b \in Area(cols, rows)
    BY DEF Area
  <2> QED  BY <2>3, <2>4
<1> QED  BY <1>2, <1>3

\* Cells of points of the screen are the buffer's.
LEMMA CellsOfPoints ==
  ASSUME NEW points \in SUBSET LC!Screen
  PROVE  /\ {LC!Cell(pt) : pt \in points} \subseteq LC!Cells
         /\ \A pt \in LC!Screen : LC!Cell(pt) \in {LC!Cell(q) : q \in points} <=> pt \in points
<1>1. \A pt \in points : LC!Cell(pt) \in LC!Cells
  BY ScreenAndCells
<1>2. ASSUME NEW pt \in LC!Screen, LC!Cell(pt) \in {LC!Cell(q) : q \in points} PROVE pt \in points
  <2>1. PICK q \in points : LC!Cell(pt) = LC!Cell(q)
    BY <1>2
  <2>2. pt = q
    BY <2>1, ScreenAndCells
  <2> QED  BY <2>2
<1> QED  BY <1>1, <1>2

\* The two texts are on the screen.
OnScreen(op) ==
  /\ op.x \in Nat /\ op.y \in Nat /\ op.length \in Nat
  /\ op.x + op.length * Font.w <= Width /\ op.y + Font.h <= Height

\* Both are, whatever the length of the address.
LEMMA TextsOnScreen ==
  /\ OnScreen(LC!String(Width - Margin - (TimeLength + 1) * Font.w, Margin, TimeLength))
  /\ \A n \in IpLengths : OnScreen(LC!String(Margin, Height - Font.h - Margin, n))
<1>1. \A x, y, l : LC!String(x, y, l).x = x /\ LC!String(x, y, l).y = y /\ LC!String(x, y, l).length = l
  BY DEF LC!String
<1>2. PICK fw \in Nat \ {0}, fh \in Nat \ {0} : fw = Font.w /\ fh = Font.h
  BY LcdNumbers
<1>3. OnScreen(LC!String(Width - Margin - (TimeLength + 1) * Font.w, Margin, TimeLength))
  <2> DEFINE op == LC!String(Width - Margin - (TimeLength + 1) * Font.w, Margin, TimeLength)
  <2>1. /\ Width \in Nat /\ Height \in Nat /\ Margin \in Nat /\ TimeLength \in Nat
        /\ Margin + fh <= Height /\ Margin + (TimeLength + 1) * fw <= Width
    BY <1>2, LcdNumbers
  <2>2. PICK long \in Nat, short \in Nat :
          long = (TimeLength + 1) * fw /\ short = TimeLength * fw /\ long = short + fw
    <3>1. (TimeLength + 1) * fw = TimeLength * fw + fw /\ TimeLength * fw \in Nat /\ (TimeLength + 1) * fw \in Nat
      BY <2>1
    <3> QED  BY <3>1
  <2>3. Width - Margin - long \in Nat /\ Width - Margin - long + short <= Width
    BY <2>1, <2>2
  <2>4. op.x = Width - Margin - long /\ op.y = Margin /\ op.length = TimeLength
    BY <1>1, <1>2, <2>2
  <2> HIDE DEF op
  <2>5. OnScreen(op)
    BY <1>2, <2>1, <2>2, <2>3, <2>4 DEF OnScreen
  <2> QED  BY <2>5 DEF op
<1>4. ASSUME NEW n \in IpLengths
      PROVE  OnScreen(LC!String(Margin, Height - Font.h - Margin, n))
  <2> DEFINE op == LC!String(Margin, Height - Font.h - Margin, n)
  <2>1. /\ Width \in Nat /\ Height \in Nat /\ Margin \in Nat /\ n \in Nat
        /\ Margin + fh <= Height /\ Margin + n * fw <= Width
    BY <1>2, LcdNumbers
  <2>2. op.x = Margin /\ op.y = Height - fh - Margin /\ op.length = n
    BY <1>1, <1>2
  <2>3. Height - fh - Margin \in Nat /\ Height - fh - Margin + fh <= Height
    BY <1>2, <2>1
  <2> HIDE DEF op
  <2>4. OnScreen(op)
    BY <1>2, <2>1, <2>2, <2>3 DEF OnScreen
  <2> QED  BY <2>4 DEF op
<1> QED  BY <1>3, <1>4

\* What main is at.
LEMMA AtOp ==
  ASSUME Position, step \in {"pin", "send"}
  PROVE  /\ at \in 1..LastOp /\ LC!Op = LC!Mains[ip][at] /\ KindTable(LC!Mains[ip], ip)
         /\ at <= 44 <=> LC!Op.kind \in {"command", "data"}
         /\ at \in {46, LastOp} <=> LC!Op.kind = "frame"
         /\ LC!Op.kind = "fill" => at = 45
         /\ LC!Op.kind = "string" => at \in {47, 48} /\ OnScreen(LC!Op)
         /\ LC!Op.kind = "circle" => at \in 49..LastOp - 1 /\ LC!Op.points \subseteq LC!Screen
<1>1. at \in 1..LastOp /\ ip \in IpLengths /\ LastOp = 49 + Len(Circles) /\ Len(Circles) \in Nat
  BY CircleFacts DEF Position, LastOp
<1>2. LC!Op = LC!Mains[ip][at] /\ KindTable(LC!Mains[ip], ip)
  BY <1>1, Kinds DEF LC!Op
<1>3. /\ at <= 44 => LC!Op.kind \in {"command", "data"}
      /\ at = 45 => LC!Op.kind = "fill"
      /\ at = 46 \/ at = LastOp => LC!Op.kind = "frame"
      /\ at = 47 => LC!Op = LC!String(Width - Margin - (TimeLength + 1) * Font.w, Margin, TimeLength)
      /\ at = 48 => LC!Op = LC!String(Margin, Height - Font.h - Margin, ip)
      /\ at \in 47..48 => LC!Op.kind = "string"
      /\ at > 48 /\ at < LastOp => /\ at - 48 \in 1..Len(Circles) /\ LC!Op = LC!Circle(Circles[at - 48])
                                 /\ LC!Op.kind = "circle"
  BY <1>1, <1>2 DEF KindTable
<1>4. at <= 44 \/ at = 45 \/ at = 46 \/ at = 47 \/ at = 48 \/ (at > 48 /\ at < LastOp) \/ at = LastOp
  BY <1>1
<1>5. at = 47 \/ at = 48 => OnScreen(LC!Op)
  BY <1>1, <1>3, TextsOnScreen
<1>6. at > 48 /\ at < LastOp => LC!Op.points \subseteq LC!Screen
  BY <1>3, CircleFacts DEF LC!Circle
<1>7. at = 47 \/ at = 48 => at \in 47..48
  OBVIOUS
<1>8. at > 48 /\ at < LastOp => at \in 49..LastOp - 1
  BY <1>1
<1> QED  BY <1>1, <1>2, <1>3, <1>4, <1>5, <1>6, <1>7, <1>8

\* lcd_fill_screen draws the same into the buffer as on the screen.
LEMMA FillDraws == ASSUME Position, Drawn, LC!FillScreen PROVE Drawn'
<1>0. Width \in Nat \ {0} /\ Height \in Nat \ {0}
  BY LcdNumbers
<1> DEFINE cells == LC!RectangleCells(0, 0, Width - 1, Height - 1)
           colors == [k \in cells |-> LC!Green]
<1> DEFINE points == (0..Width - 2) \X (0..Height - 2)
<1>1. cells = {LC!Cell(pt) : pt \in points}
  <2>1. PICK w \in Nat, h \in Nat : w = Width - 1 /\ h = Height - 1
    BY <1>0
  <2>2. 0 \in Nat /\ 0 + w - 1 # Width /\ 0 + h - 1 # Height
    BY <1>0, <2>1
  <2>3. LC!RectangleCells(0, 0, w, h) = Area(Part(0, w, Width), Part(0, h, Height))
    BY <2>2, Rectangles
  <2>4. /\ Part(0, w, Width) = 0..Width - 2 /\ Part(0, h, Height) = 0..Height - 2
        /\ Part(0, w, Width) \in SUBSET Int /\ Part(0, h, Height) \in SUBSET Int
    BY <1>0, <2>1 DEF Part
  <2> QED  BY <2>1, <2>3, <2>4, AreaOfPoints
<1>2. points \in SUBSET LC!Screen
  BY <1>0 DEF LC!Screen
<1>3. \A pt \in LC!Screen : pt \in points <=> pt[1] < Width - 1 /\ pt[2] < Height - 1
  BY <1>0 DEF LC!Screen
<1> HIDE DEF cells, points
<1>4. cells \subseteq LC!Cells
  BY <1>1, <1>2, CellsOfPoints
<1>5. ASSUME NEW pt \in LC!Screen
      PROVE  LC!Cell(pt) \in cells <=> pt[1] < Width - 1 /\ pt[2] < Height - 1
  BY <1>1, <1>2, <1>3, CellsOfPoints
<1>6. LC!Put(colors)
  BY DEF LC!FillScreen, cells
<1>7. picture' = [pt \in LC!Screen |-> IF LC!Cell(pt) \in DOMAIN colors THEN colors[LC!Cell(pt)] ELSE picture[pt]]
  <2>1. picture' = [pt \in LC!Screen |-> IF pt[1] < Width - 1 /\ pt[2] < Height - 1 THEN LC!Green ELSE picture[pt]]
    BY DEF LC!FillScreen
  <2>2. DOMAIN colors = cells /\ \A k \in cells : colors[k] = LC!Green
    OBVIOUS
  <2> HIDE DEF cells, colors
  <2> QED  BY <1>5, <2>1, <2>2
<1>8. DOMAIN colors \subseteq LC!Cells /\ \A k \in DOMAIN colors : colors[k] \in Colours
  BY <1>4 DEF Colours
<1> HIDE DEF colors
<1> QED  BY <1>6, <1>7, <1>8, PutDraws

\* So does lcd_put_string.
LEMMA StringDraws == ASSUME Position, Drawn, LC!PutString PROVE Drawn'
<1>0. Width \in Nat \ {0} /\ Height \in Nat \ {0}
  BY LcdNumbers
<1>1. step \in {"pin", "send"} /\ LC!Op.kind = "string"
  BY DEF LC!PutString
<1>2. OnScreen(LC!Op)
  BY <1>1, AtOp
<1> DEFINE text == LC!Letters
           points == DOMAIN text
           colors == [k \in {LC!Cell(pt) : pt \in points} |-> text[CHOOSE pt \in points : LC!Cell(pt) = k]]
<1>3. /\ LC!Put(colors)
      /\ picture' = [pt \in LC!Screen |-> IF pt \in points THEN text[pt] ELSE picture[pt]]
  BY DEF LC!PutString
<1>4. points \subseteq LC!Screen /\ \A pt \in points : text[pt] \in Colours
  <2>1. points = (LC!Op.x..LC!Op.x + LC!Op.length * Font.w - 1) \X (LC!Op.y..LC!Op.y + Font.h - 1)
    BY DEF LC!Letters
  <2>2. PICK x \in Nat, y \in Nat, tw \in Nat, th \in Nat :
          /\ x = LC!Op.x /\ y = LC!Op.y /\ tw = LC!Op.length * Font.w /\ th = Font.h
          /\ x + tw <= Width /\ y + th <= Height
    <3>1. LC!Op.length * Font.w \in Nat /\ Font.h \in Nat
      BY <1>2, LcdNumbers DEF OnScreen
    <3> QED  BY <1>2, <3>1 DEF OnScreen
  <2>3. points = (x..x + tw - 1) \X (y..y + th - 1)
    BY <2>1, <2>2
  <2>4. (x..x + tw - 1) \subseteq 0..Width - 1 /\ (y..y + th - 1) \subseteq 0..Height - 1
    BY <1>0, <2>2
  <2>5. \A pt \in points : text[pt] \in {LC!Black, LC!Green}
    BY DEF LC!Letters
  <2> HIDE DEF text, points
  <2> QED  BY <2>3, <2>4, <2>5 DEF LC!Screen, Colours
<1> HIDE DEF text, points
<1>5. ASSUME NEW pt \in points
      PROVE  LC!Cell(pt) \in DOMAIN colors /\ colors[LC!Cell(pt)] = text[pt]
  <2>1. \A q \in points : LC!Cell(q) = LC!Cell(pt) => q = pt
    BY <1>4, ScreenAndCells
  <2>2. (CHOOSE q \in points : LC!Cell(q) = LC!Cell(pt)) = pt
    BY <2>1
  <2> QED  BY <2>2
<1>6. DOMAIN colors = {LC!Cell(pt) : pt \in points}
  OBVIOUS
<1> HIDE DEF colors
<1>7. DOMAIN colors \subseteq LC!Cells /\ \A k \in DOMAIN colors : colors[k] \in Colours
  <2>1. ASSUME NEW k \in DOMAIN colors PROVE colors[k] \in Colours
    <3>1. PICK pt \in points : k = LC!Cell(pt)
      BY <1>6
    <3> QED  BY <1>4, <1>5, <3>1
  <2> QED  BY <1>4, <1>6, <2>1, CellsOfPoints
<1>8. \A pt \in LC!Screen : LC!Cell(pt) \in DOMAIN colors => pt \in points
  BY <1>4, <1>6, CellsOfPoints
<1>9. picture' = [pt \in LC!Screen |-> IF LC!Cell(pt) \in DOMAIN colors THEN colors[LC!Cell(pt)] ELSE picture[pt]]
  BY <1>3, <1>5, <1>8
<1> QED  BY <1>3, <1>7, <1>9, PutDraws

\* So does lcd_put_circle.
LEMMA CircleDraws == ASSUME Position, Drawn, LC!PutCircle PROVE Drawn'
<1>0. Width \in Nat \ {0} /\ Height \in Nat \ {0}
  BY LcdNumbers
<1>1. step \in {"pin", "send"} /\ LC!Op.kind = "circle"
  BY DEF LC!PutCircle
<1> DEFINE points == LC!Op.points
           colors == [k \in {LC!Cell(pt) : pt \in {q \in points : q[1] < Width /\ q[2] < Height}} |-> LC!Blue]
<1>2. points \subseteq LC!Screen
  BY <1>1, AtOp
<1>3. LC!Put(colors) /\ picture' = [pt \in LC!Screen |-> IF pt \in points THEN LC!Blue ELSE picture[pt]]
  BY DEF LC!PutCircle
<1> HIDE DEF points
<1>4. {q \in points : q[1] < Width /\ q[2] < Height} = points
  <2>1. \A q \in LC!Screen : q[1] < Width /\ q[2] < Height
    BY <1>0 DEF LC!Screen
  <2> QED  BY <1>2, <2>1
<1>5. DOMAIN colors = {LC!Cell(pt) : pt \in points} /\ \A k \in DOMAIN colors : colors[k] = LC!Blue
  BY <1>4
<1> HIDE DEF colors
<1>6. DOMAIN colors \subseteq LC!Cells /\ \A k \in DOMAIN colors : colors[k] \in Colours
  BY <1>2, <1>5, CellsOfPoints DEF Colours
<1>7. \A pt \in LC!Screen : LC!Cell(pt) \in DOMAIN colors <=> pt \in points
  BY <1>2, <1>5, CellsOfPoints
<1>8. picture' = [pt \in LC!Screen |-> IF LC!Cell(pt) \in DOMAIN colors THEN colors[LC!Cell(pt)] ELSE picture[pt]]
  BY <1>3, <1>5, <1>7
<1> QED  BY <1>3, <1>6, <1>8, PutDraws

-----------------------------------------------------------------------------

\* main has 49 operations and the circles.
LEMMA MainEnds == ASSUME Position PROVE Len(LC!Mains[ip]) = LastOp /\ LastOp \in Nat /\ LastOp >= 49
<1>1. ip \in IpLengths
  BY DEF Position
<1>2. HasLength(LC!Mains[ip], 49 + Len(Circles))
  BY <1>1, MainTable
<1>3. Len(Circles) \in Nat
  BY CircleFacts
<1> QED  BY <1>2, <1>3 DEF HasLength, LastOp

\* When an operation is over, main goes on with the next.
LEMMA NextOpMoves ==
  ASSUME Position, step \in {"pin", "send"}, LC!NextOp, ip' = ip, failures' \in Nat
  PROVE  Position' /\ at' = at + 1 /\ at \in 1..LastOp /\ step' \in {"pin", "free"}
<1>1. at' = at + 1 /\ step' = IF at = LastOp THEN "free" ELSE "pin"
  BY MainEnds DEF LC!NextOp
<1>2. at \in 1..LastOp /\ LastOp \in Nat
  BY MainEnds DEF Position
<1>3. LastOp' = LastOp
  BY DEF LastOp
<1>4. at' \in 1..LastOp + 1 /\ (step' \in {"pin", "send"} => at' <= LastOp)
  BY <1>1, <1>2
<1>5. step' \in {"pin", "free"}
  BY <1>1
<1> QED  BY <1>1, <1>2, <1>3, <1>4, <1>5 DEF Position

\* Failures are counted.
LEMMA FailuresCount == ASSUME Position, LC!Fail \/ LC!Work PROVE failures' \in Nat
BY DEF Position, LC!Fail, LC!Work

\* Every step keeps the position.
LEMMA PositionKept == ASSUME Position, LC!Next PROVE Position'
<1> USE DEF LC!drawVars, LC!wires
<1>0. LastOp' = LastOp /\ 1 \in 1..LastOp + 1
  BY MainEnds DEF LastOp
<1>1. CASE LC!FindHost
  BY <1>0, <1>1 DEF LC!FindHost, Position
<1>2. CASE LC!InitPins
  <2>1. failures' \in Nat
    BY <1>2, FailuresCount DEF LC!InitPins
  <2> QED  BY <1>0, <1>2, <2>1 DEF LC!InitPins, Position
<1>3. CASE LC!ResetPanel
  <2>1. failures' \in Nat
    BY <1>3, FailuresCount DEF LC!ResetPanel
  <2> QED  BY <1>0, <1>3, <2>1 DEF LC!ResetPanel, Position
<1>4. CASE LC!OpenDevice
  <2>1. failures' \in Nat
    BY <1>4, FailuresCount DEF LC!OpenDevice
  <2>2. 1 <= LastOp
    BY MainEnds
  <2> QED  BY <1>0, <1>4, <2>1, <2>2 DEF LC!OpenDevice, Position
<1>5. CASE LC!FreePins
  <2>1. failures' \in Nat
    BY <1>5, FailuresCount DEF LC!FreePins
  <2> QED  BY <1>0, <1>5, <2>1 DEF LC!FreePins, Position
<1>6. CASE LC!SetPin
  <2>1. failures' \in Nat
    BY <1>6, FailuresCount DEF LC!SetPin
  <2> QED  BY <1>0, <1>6, <2>1 DEF LC!SetPin, Position
<1>7. CASE LC!SendPiece
  <2>1. failures' \in Nat
    BY <1>7, FailuresCount DEF LC!SendPiece, LC!SpiWrite
  <2> QED  BY <1>0, <1>7, <2>1 DEF LC!SendPiece, Position
<1>8. CASE LC!SendRest
  <2>1. failures' \in Nat
    BY <1>8, FailuresCount DEF LC!SendRest, LC!SpiWrite
  <2> QED  BY <1>8, <2>1, NextOpMoves DEF LC!SendRest
<1>9. CASE LC!FillScreen \/ LC!PutString \/ LC!PutCircle
  <2>1. failures' = failures /\ failures \in Nat
    BY <1>9 DEF LC!FillScreen, LC!PutString, LC!PutCircle, Position
  <2> QED  BY <1>9, <2>1, NextOpMoves DEF LC!FillScreen, LC!PutString, LC!PutCircle
<1>10. CASE LC!Halted
  BY <1>0, <1>10 DEF LC!Halted, LC!vars, LC!mainVars, Position
<1> QED  BY <1>1, <1>2, <1>3, <1>4, <1>5, <1>6, <1>7, <1>8, <1>9, <1>10 DEF LC!Next

\* Every step keeps buffer and screen the same.
LEMMA DrawnKept == ASSUME Position, Drawn, LC!Next PROVE Drawn'
<1> USE DEF LC!drawVars, LC!wires
<1>1. CASE LC!FillScreen
  BY <1>1, FillDraws
<1>2. CASE LC!PutString
  BY <1>2, StringDraws
<1>3. CASE LC!PutCircle
  BY <1>3, CircleDraws
<1>4. CASE UNCHANGED LC!drawVars
  BY <1>4 DEF Drawn
<1>5. LC!Next => LC!FillScreen \/ LC!PutString \/ LC!PutCircle \/ UNCHANGED LC!drawVars
  BY DEF LC!Next, LC!FindHost, LC!InitPins, LC!ResetPanel, LC!OpenDevice, LC!FreePins, LC!SetPin,
         LC!SendPiece, LC!SendRest, LC!Halted, LC!vars
<1> QED  BY <1>1, <1>2, <1>3, <1>4, <1>5

\* At the start the buffer is black, as the screen is.
LEMMA LcdBegins == ASSUME LC!Init PROVE Position /\ Drawn
<1>1. LastOp \in Nat
  BY CircleFacts DEF LastOp
<1>2. Position
  BY <1>1 DEF LC!Init, Position
<1>3. \A pt \in LC!Screen : LC!Cell(pt) \in LC!Cells
  BY ScreenAndCells
<1> QED  BY <1>2, <1>3, ColourNumbers DEF LC!Init, Drawn, Colours

\* What is drawn, and every rectangle that the test for clipping is right about, is inside.
LEMMA RectanglesInside == ASSUME Drawn PROVE LC!DrawsInside
<1>1. ASSUME NEW x \in 0..2 * Width, NEW w \in 0..2 * Width, NEW y \in 0..2 * Height, NEW h \in 0..2 * Height,
             x + w - 1 # Width /\ y + h - 1 # Height
      PROVE  LC!RectangleCells(x, y, w, h) =
               {a + Width * b : a \in {a \in x..x + w - 1 : a < Width},
                                b \in {b \in y..y + h - 1 : b < Height}}
  <2>1. x \in Nat /\ w \in Nat /\ y \in Nat /\ h \in Nat
    BY LcdNumbers
  <2>2. LC!RectangleCells(x, y, w, h) = Area(Part(x, w, Width), Part(y, h, Height))
    BY <1>1, <2>1, Rectangles
  <2>3. /\ Part(x, w, Width) = {a \in x..x + w - 1 : a < Width}
        /\ Part(y, h, Height) = {b \in y..y + h - 1 : b < Height}
    BY DEF Part
  <2> QED  BY <2>2, <2>3 DEF Area
<1>2. ~stray
  BY DEF Drawn
<1> QED  BY <1>1, <1>2 DEF LC!DrawsInside

-----------------------------------------------------------------------------

\* The fields of the panel.
LEMMA PanelFields ==
  ASSUME NEW p \in PanelStates
  PROVE  /\ {p.reached, p.awake, p.on} \subseteq BOOLEAN /\ p.cmd \in Int /\ p.at \in Int /\ p.high \in Int
         /\ p.regs \in [LC!Registers -> Seq(Int)] /\ p.ram \in [LC!Screen -> Int]
BY DEF PanelStates

\* The panel gets a command.
LEMMA CommandArrives ==
  ASSUME NEW p \in PanelStates, NEW b \in Int, b # LC!SWRESET,
         NEW q, q = LC!PanelCommands(p, <<b>>)
  PROVE  /\ q \in PanelStates /\ q.reached = p.reached /\ q.cmd = b /\ q.at = 0 /\ q.high = -1 /\ q.ram = p.ram
         /\ p.awake \/ b = LC!SLPOUT => q.awake
         /\ p.on \/ b = LC!DISPON => q.on
         /\ \A a \in LC!Registers : q.regs[a] = IF a = b THEN <<>> ELSE p.regs[a]
<1> DEFINE codes == <<b>>
           resets == {k \in DOMAIN codes : codes[k] = LC!SWRESET}
           given == {codes[k] : k \in {k \in DOMAIN codes : \A l \in resets : k > l}}
           regs == [a \in LC!Registers |-> IF a \in given THEN <<>> ELSE p.regs[a]]
<1>1. DOMAIN codes = {1} /\ codes[1] = b /\ Len(codes) = 1
  OBVIOUS
<1>2. resets = {}
  BY <1>1
<1>3. given = {b}
  BY <1>1, <1>2
<1>4. q = [p EXCEPT !.cmd = codes[Len(codes)], !.at = 0, !.high = -1,
                    !.awake = @ \/ LC!SLPOUT \in given, !.on = @ \/ LC!DISPON \in given, !.regs = regs]
  <2>1. given # {}
    BY <1>3
  <2> QED  BY <1>2, <2>1 DEF LC!PanelCommands
<1>5. regs \in [LC!Registers -> Seq(Int)] /\ \A a \in LC!Registers : regs[a] = IF a = b THEN <<>> ELSE p.regs[a]
  BY <1>3, PanelFields
<1> HIDE DEF codes, resets, given, regs
<1>6. q = [p EXCEPT !.cmd = b, !.at = 0, !.high = -1,
                    !.awake = p.awake \/ LC!SLPOUT \in {b}, !.on = p.on \/ LC!DISPON \in {b}, !.regs = regs]
  BY <1>1, <1>3, <1>4
<1>7. PICK awake \in BOOLEAN, on \in BOOLEAN :
        awake = (p.awake \/ LC!SLPOUT \in {b}) /\ on = (p.on \/ LC!DISPON \in {b})
  OBVIOUS
<1>8. q = [p EXCEPT !.cmd = b, !.at = 0, !.high = -1, !.awake = awake, !.on = on, !.regs = regs]
  BY <1>6, <1>7, Zenon
<1>9. /\ q \in PanelStates /\ q.reached = p.reached /\ q.cmd = b /\ q.at = 0 /\ q.high = -1 /\ q.ram = p.ram
      /\ q.awake = awake /\ q.on = on /\ q.regs = regs
  <2>1. PICK low \in Int : low = -1
    OBVIOUS
  <2>2. q = [p EXCEPT !.cmd = b, !.at = 0, !.high = low, !.awake = awake, !.on = on, !.regs = regs]
    BY <1>8, <2>1
  <2>3. p = [reached |-> p.reached, awake |-> p.awake, on |-> p.on, cmd |-> p.cmd, regs |-> p.regs,
             at |-> p.at, high |-> p.high, ram |-> p.ram]
    BY DEF PanelStates
  <2>4. q = [reached |-> p.reached, awake |-> awake, on |-> on, cmd |-> b, regs |-> regs,
             at |-> 0, high |-> low, ram |-> p.ram]
    BY <2>2, <2>3
  <2>5. q \in PanelStates
    BY <1>5, <2>4, PanelFields DEF PanelStates
  <2> QED  BY <2>1, <2>4, <2>5
<1> QED  BY <1>5, <1>7, <1>9

\* Data of a register.
LEMMA DataArrives ==
  ASSUME NEW p \in PanelStates, NEW bytes \in Seq(Int), p.cmd # LC!RAMWR,
         NEW q, q = LC!PanelData(p, bytes)
  PROVE  /\ q \in PanelStates /\ q.reached = p.reached /\ q.cmd = p.cmd /\ q.at = p.at /\ q.high = p.high
         /\ q.ram = p.ram /\ q.awake = p.awake /\ q.on = p.on
         /\ \A a \in LC!Registers : q.regs[a] = IF a = p.cmd THEN p.regs[a] \o bytes ELSE p.regs[a]
<1>1. CASE p.cmd \in LC!Registers
  <2>1. q = [p EXCEPT !.regs = [p.regs EXCEPT ![p.cmd] = p.regs[p.cmd] \o bytes]]
    BY <1>1 DEF LC!PanelData
  <2>2. p.regs[p.cmd] \o bytes \in Seq(Int)
    BY <1>1, PanelFields, ConcatProperties
  <2> DEFINE new == [p.regs EXCEPT ![p.cmd] = p.regs[p.cmd] \o bytes]
  <2>3. new \in [LC!Registers -> Seq(Int)]
        /\ \A a \in LC!Registers : new[a] = IF a = p.cmd THEN p.regs[a] \o bytes ELSE p.regs[a]
    BY <2>2, PanelFields
  <2> HIDE DEF new
  <2>4. q = [p EXCEPT !.regs = new]
    BY <2>1 DEF new
  <2> QED  BY <2>3, <2>4 DEF PanelStates
<1>2. CASE p.cmd \notin LC!Registers
  BY <1>2 DEF LC!PanelData
<1> QED  BY <1>1, <1>2

\* A panel after a reset.
LEMMA FreshPanel == LC!Reset \in PanelStates /\ LC!Reset.cmd = 0
BY EmptySeq DEF LC!Reset, PanelStates

\* A reset.
LEMMA ResetArrives ==
  ASSUME NEW p, NEW q, q = LC!PanelCommands(p, <<LC!SWRESET>>)
  PROVE  q \in PanelStates /\ q.reached /\ q.cmd = 0
<1> DEFINE codes == <<LC!SWRESET>>
           resets == {k \in DOMAIN codes : codes[k] = LC!SWRESET}
           given == {codes[k] : k \in {k \in DOMAIN codes : \A l \in resets : k > l}}
<1>1. DOMAIN codes = {1} /\ codes[1] = LC!SWRESET
  OBVIOUS
<1>2. resets = {1}
  BY <1>1
<1>3. given = {}
  <2>1. ~(1 > 1)
    OBVIOUS
  <2> QED  BY <1>1, <1>2, <2>1
<1>4. q = [LC!Reset EXCEPT !.reached = TRUE]
  <2>1. resets # {}
    BY <1>2
  <2> QED  BY <1>3, <2>1 DEF LC!PanelCommands
<1> QED  BY <1>4, FreshPanel DEF PanelStates

\* What comes for each place of the setting up.
Arrives(q, p, op) ==
  q = IF op.kind = "command" THEN LC!PanelCommands(p, op.bytes) ELSE LC!PanelData(p, op.bytes)

\* The fields of commands and data.
LEMMA OpFields ==
  \A b : /\ LC!Command(b).kind = "command" /\ LC!Command(b).bytes = <<b>>
         /\ LC!Data(b).kind = "data" /\ LC!Data(b).bytes = b
BY DEF LC!Command, LC!Data

\* What a command and the data of a register leave behind.
CommandTaken(q, p, b) ==
  /\ q \in PanelStates /\ q.reached = p.reached /\ q.cmd = b
  /\ p.awake \/ b = LC!SLPOUT => q.awake
  /\ p.on \/ b = LC!DISPON => q.on
  /\ \A a \in LC!Registers : q.regs[a] = IF a = b THEN <<>> ELSE p.regs[a]
DataTaken(q, p, bytes) ==
  /\ q \in PanelStates /\ q.reached = p.reached /\ q.cmd = p.cmd
  /\ q.awake = p.awake /\ q.on = p.on
  /\ \A a \in LC!Registers : q.regs[a] = IF a = p.cmd THEN p.regs[a] \o bytes ELSE p.regs[a]

\* A command other than a reset, as an operation.
LEMMA CommandAt ==
  ASSUME NEW p \in PanelStates, NEW b \in Int, b # LC!SWRESET, NEW q,
         NEW op, op = LC!Command(b), Arrives(q, p, op)
  PROVE  CommandTaken(q, p, b)
<1>1. q = LC!PanelCommands(p, <<b>>)
  BY OpFields DEF Arrives
<1> QED  BY <1>1, CommandArrives DEF CommandTaken

\* Data of a register, as an operation.
LEMMA DataAt ==
  ASSUME NEW p \in PanelStates, NEW bytes \in Seq(Int), p.cmd # LC!RAMWR, NEW q,
         NEW op, op = LC!Data(bytes), Arrives(q, p, op)
  PROVE  DataTaken(q, p, bytes)
<1>1. q = LC!PanelData(p, bytes)
  BY OpFields DEF Arrives
<1> QED  BY <1>1, DataArrives DEF DataTaken

-----------------------------------------------------------------------------

\* The high and the low byte of a number make the number.
LEMMA Sums == \A v \in Nat : LC!High(v) \in Nat /\ LC!Low(v) \in Nat /\ 256 * LC!High(v) + LC!Low(v) = v
BY DEF LC!High, LC!Low

\* The four bytes that bound the window in one direction.
LEMMA FirstToLastBytes ==
  ASSUME NEW v \in Nat
  PROVE  /\ FirstToLast(v) \in Seq(Int) /\ Len(FirstToLast(v)) = 4
         /\ FirstToLast(v)[1] = LC!High(0) /\ FirstToLast(v)[2] = LC!Low(0)
         /\ FirstToLast(v)[3] = LC!High(v) /\ FirstToLast(v)[4] = LC!Low(v)
<1>1. PICK a \in Int, b \in Int, c \in Int, d \in Int :
        a = LC!High(0) /\ b = LC!Low(0) /\ c = LC!High(v) /\ d = LC!Low(v)
  BY Sums
<1>2. FirstToLast(v) = <<a, b, c, d>>
  BY <1>1 DEF FirstToLast
<1> QED  BY <1>1, <1>2

\* The bounds of the screen are such bytes.
LEMMA LastBytes == FirstToLast(Width - 1) \in Seq(Int) /\ FirstToLast(Height - 1) \in Seq(Int)
<1>1. Width - 1 \in Nat /\ Height - 1 \in Nat
  BY LcdNumbers
<1> QED  BY <1>1, FirstToLastBytes

\* A register is empty before its data comes.
LEMMA FirstData == ASSUME NEW bytes \in Seq(Int) PROVE <<>> \o bytes = bytes
BY ConcatEmptySeq

\* One more operation of the setting up.
LEMMA SetUpGoes ==
  ASSUME NEW p \in PanelStates, NEW n \in IpLengths, NEW k \in 1..44, k > 1 => SetUpTo(p, k),
         NEW q, Arrives(q, p, LC!Mains[n][k])
  PROVE  q \in PanelStates /\ SetUpTo(q, k + 1)
<1> DEFINE op == LC!Mains[n][k]
<1>1. SetUpTable(LC!Mains[n]) /\ WindowTable(LC!Mains[n])
  BY MainTable DEF Table
<1>0. Arrives(q, p, op)
  OBVIOUS
<1>2. CASE k = 1
  <2>1. op = LC!Command(LC!SWRESET)
    BY <1>1, <1>2 DEF SetUpTable
  <2>2. q = LC!PanelCommands(p, <<LC!SWRESET>>)
    BY <2>1, OpFields DEF Arrives
  <2>3. q \in PanelStates /\ q.reached /\ q.cmd = 0
    BY <2>2, ResetArrives
  <2> QED  BY <1>2, <2>3, Apart DEF SetUpTo, Held
<1>3. CASE k \in (2..21) \cup (24..35) /\ k % 2 = 0
  <2>1. PICK b \in TuningCodes : op = LC!Command(b)
    BY <1>1, <1>3 DEF SetUpTable, TuningCommand
  <2>2. b \in Int /\ b \notin {1, 17, 41, 44, 42, 43, 54, 58} /\ b # LC!SWRESET
    BY Apart DEF TuningCodes
  <2> HIDE DEF op
  <2>3. CommandTaken(q, p, b)
    BY <1>0, <2>1, <2>2, CommandAt
  <2>4. \A a \in LC!Registers : q.regs[a] = p.regs[a]
    BY <2>2, <2>3, Apart DEF CommandTaken
  <2>5. SetUpTo(p, k)
    BY <1>3
  <2> QED  BY <1>3, <2>2, <2>3, <2>4, <2>5, Apart DEF SetUpTo, Held, CommandTaken
<1>4. CASE k \in (2..21) \cup (24..35) /\ k % 2 # 0
  <2>1. op = LC!Data(<<0>>)
    BY <1>1, <1>4 DEF SetUpTable
  <2>2. SetUpTo(p, k)
    BY <1>4
  <2>3. p.cmd \notin LC!Registers /\ p.cmd # LC!RAMWR
    BY <1>4, <2>2 DEF SetUpTo
  <2>4. <<0>> \in Seq(Int)
    OBVIOUS
  <2> HIDE DEF op
  <2>5. DataTaken(q, p, <<0>>)
    BY <1>0, <2>1, <2>3, <2>4, DataAt
  <2>6. \A a \in LC!Registers : q.regs[a] = p.regs[a]
    BY <2>3, <2>5 DEF DataTaken
  <2> QED  BY <1>4, <2>2, <2>3, <2>5, <2>6, Apart DEF SetUpTo, Held, DataTaken
<1>5. CASE k = 22
  <2>1. op = LC!Command(LC!COLMOD)
    BY <1>1, <1>5 DEF SetUpTable
  <2>2. LC!COLMOD \in Int /\ LC!COLMOD # LC!SWRESET
    BY Apart
  <2> HIDE DEF op
  <2>3. CommandTaken(q, p, LC!COLMOD)
    BY <1>0, <2>1, <2>2, CommandAt
  <2>4. SetUpTo(p, 22)
    BY <1>5
  <2>5. SetUpTo(q, 23)
    BY <2>3, <2>4, Apart, SMTT(90) DEF SetUpTo, Held, CommandTaken
  <2> QED  BY <1>5, <2>3, <2>5 DEF CommandTaken
<1>6. CASE k = 23
  <2>1. PICK bytes \in Seq(Int) : bytes = <<85>>
    <3>1. <<85>> \in Seq(Int)
      OBVIOUS
    <3> QED  BY <3>1, Zenon
  <2>2. op = LC!Data(bytes)
    BY <1>1, <1>6, <2>1 DEF SetUpTable
  <2>3. SetUpTo(p, 23)
    BY <1>6
  <2>4. p.cmd = LC!COLMOD /\ p.regs[LC!COLMOD] = <<>> /\ p.cmd # LC!RAMWR
    BY <2>3, Apart DEF SetUpTo, Held
  <2> HIDE DEF op
  <2>5. DataTaken(q, p, bytes)
    BY <1>0, <2>2, <2>4, DataAt
  <2>6. \A a \in LC!Registers : q.regs[a] = IF a = LC!COLMOD THEN bytes ELSE p.regs[a]
    BY <2>4, <2>5, FirstData DEF DataTaken
  <2>7. SetUpTo(q, 24)
    BY <2>1, <2>3, <2>4, <2>5, <2>6, Apart, SMTT(90) DEF SetUpTo, Held, DataTaken
  <2> QED  BY <1>6, <2>5, <2>7 DEF DataTaken
<1>7. CASE k = 36
  <2>1. op = LC!Command(LC!SLPOUT)
    BY <1>1, <1>7 DEF SetUpTable
  <2>2. LC!SLPOUT \in Int /\ LC!SLPOUT # LC!SWRESET
    BY Apart
  <2> HIDE DEF op
  <2>3. CommandTaken(q, p, LC!SLPOUT)
    BY <1>0, <2>1, <2>2, CommandAt
  <2>4. SetUpTo(p, 36)
    BY <1>7
  <2>5. SetUpTo(q, 37)
    BY <2>3, <2>4, Apart, SMTT(90) DEF SetUpTo, Held, CommandTaken
  <2> QED  BY <1>7, <2>3, <2>5 DEF CommandTaken
<1>8. CASE k = 37
  <2>1. op = LC!Command(LC!DISPON)
    BY <1>1, <1>8 DEF SetUpTable
  <2>2. LC!DISPON \in Int /\ LC!DISPON # LC!SWRESET
    BY Apart
  <2> HIDE DEF op
  <2>3. CommandTaken(q, p, LC!DISPON)
    BY <1>0, <2>1, <2>2, CommandAt
  <2>4. SetUpTo(p, 37)
    BY <1>8
  <2>5. SetUpTo(q, 38)
    BY <2>3, <2>4, Apart, SMTT(90) DEF SetUpTo, Held, CommandTaken
  <2> QED  BY <1>8, <2>3, <2>5 DEF CommandTaken
<1>9. CASE k = 38
  <2>1. op = LC!Command(LC!MADCTL)
    BY <1>1, <1>9 DEF SetUpTable
  <2>2. LC!MADCTL \in Int /\ LC!MADCTL # LC!SWRESET
    BY Apart
  <2> HIDE DEF op
  <2>3. CommandTaken(q, p, LC!MADCTL)
    BY <1>0, <2>1, <2>2, CommandAt
  <2>4. SetUpTo(p, 38)
    BY <1>9
  <2>5. SetUpTo(q, 39)
    BY <2>3, <2>4, Apart, SMTT(90) DEF SetUpTo, Held, CommandTaken
  <2> QED  BY <1>9, <2>3, <2>5 DEF CommandTaken
<1>10. CASE k = 39
  <2>1. PICK bytes \in Seq(Int) : bytes = <<40>>
    <3>1. <<40>> \in Seq(Int)
      OBVIOUS
    <3> QED  BY <3>1, Zenon
  <2>2. op = LC!Data(bytes)
    BY <1>1, <1>10, <2>1 DEF SetUpTable
  <2>3. SetUpTo(p, 39)
    BY <1>10
  <2>4. p.cmd = LC!MADCTL /\ p.regs[LC!MADCTL] = <<>> /\ p.cmd # LC!RAMWR
    BY <2>3, Apart DEF SetUpTo, Held
  <2> HIDE DEF op
  <2>5. DataTaken(q, p, bytes)
    BY <1>0, <2>2, <2>4, DataAt
  <2>6. \A a \in LC!Registers : q.regs[a] = IF a = LC!MADCTL THEN bytes ELSE p.regs[a]
    BY <2>4, <2>5, FirstData DEF DataTaken
  <2>7. SetUpTo(q, 40)
    BY <2>1, <2>3, <2>4, <2>5, <2>6, Apart, SMTT(90) DEF SetUpTo, Held, DataTaken
  <2> QED  BY <1>10, <2>5, <2>7 DEF DataTaken
<1>11. CASE k = 40
  <2>1. op = LC!Command(LC!CASET)
    BY <1>1, <1>11 DEF WindowTable
  <2>2. LC!CASET \in Int /\ LC!CASET # LC!SWRESET
    BY Apart
  <2> HIDE DEF op
  <2>3. CommandTaken(q, p, LC!CASET)
    BY <1>0, <2>1, <2>2, CommandAt
  <2>4. SetUpTo(p, 40)
    BY <1>11
  <2>5. SetUpTo(q, 41)
    BY <2>3, <2>4, Apart, SMTT(90) DEF SetUpTo, Held, CommandTaken
  <2> QED  BY <1>11, <2>3, <2>5 DEF CommandTaken
<1>12. CASE k = 41
  <2>1. PICK bytes \in Seq(Int) : bytes = FirstToLast(Width - 1)
    BY LastBytes
  <2>2. op = LC!Data(bytes)
    BY <1>1, <1>12, <2>1 DEF WindowTable, LC!Bounds, FirstToLast
  <2>3. SetUpTo(p, 41)
    BY <1>12
  <2>4. p.cmd = LC!CASET /\ p.regs[LC!CASET] = <<>> /\ p.cmd # LC!RAMWR
    BY <2>3, Apart DEF SetUpTo, Held
  <2> HIDE DEF op
  <2>5. DataTaken(q, p, bytes)
    BY <1>0, <2>2, <2>4, DataAt
  <2>6. \A a \in LC!Registers : q.regs[a] = IF a = LC!CASET THEN bytes ELSE p.regs[a]
    BY <2>4, <2>5, FirstData DEF DataTaken
  <2>7. SetUpTo(q, 42)
    BY <2>1, <2>3, <2>4, <2>5, <2>6, Apart, SMTT(90) DEF SetUpTo, Held, DataTaken
  <2> QED  BY <1>12, <2>5, <2>7 DEF DataTaken
<1>13. CASE k = 42
  <2>1. op = LC!Command(LC!RASET)
    BY <1>1, <1>13 DEF WindowTable
  <2>2. LC!RASET \in Int /\ LC!RASET # LC!SWRESET
    BY Apart
  <2> HIDE DEF op
  <2>3. CommandTaken(q, p, LC!RASET)
    BY <1>0, <2>1, <2>2, CommandAt
  <2>4. SetUpTo(p, 42)
    BY <1>13
  <2>6. /\ p.reached /\ p.awake /\ p.on /\ p.regs[LC!COLMOD] = <<85>> /\ p.regs[LC!MADCTL] = <<40>>
        /\ p.regs[LC!CASET] = FirstToLast(Width - 1)
    BY <2>4 DEF SetUpTo, Held
  <2>7. /\ LC!RASET # LC!COLMOD /\ LC!RASET # LC!MADCTL /\ LC!RASET # LC!CASET /\ LC!RASET # LC!RAMWR
        /\ {LC!COLMOD, LC!MADCTL, LC!CASET, LC!RASET} \subseteq LC!Registers
    BY Apart
  <2>8. /\ q.reached /\ q.awake /\ q.on /\ q.cmd = LC!RASET
        /\ q.regs[LC!COLMOD] = <<85>> /\ q.regs[LC!MADCTL] = <<40>>
        /\ q.regs[LC!CASET] = FirstToLast(Width - 1) /\ q.regs[LC!RASET] = <<>>
    BY <2>3, <2>6, <2>7 DEF CommandTaken
  <2>5. SetUpTo(q, 43)
    BY <2>7, <2>8, SMTT(90) DEF SetUpTo, Held
  <2> QED  BY <1>13, <2>3, <2>5 DEF CommandTaken
<1>14. CASE k = 43
  <2>1. PICK bytes \in Seq(Int) : bytes = FirstToLast(Height - 1)
    BY LastBytes
  <2>2. op = LC!Data(bytes)
    BY <1>1, <1>14, <2>1 DEF WindowTable, LC!Bounds, FirstToLast
  <2>3. SetUpTo(p, 43)
    BY <1>14
  <2>4. p.cmd = LC!RASET /\ p.regs[LC!RASET] = <<>> /\ p.cmd # LC!RAMWR
    BY <2>3, Apart DEF SetUpTo, Held
  <2> HIDE DEF op
  <2>5. DataTaken(q, p, bytes)
    BY <1>0, <2>2, <2>4, DataAt
  <2>6. \A a \in LC!Registers : q.regs[a] = IF a = LC!RASET THEN bytes ELSE p.regs[a]
    BY <2>4, <2>5, FirstData DEF DataTaken
  <2>7. SetUpTo(q, 44)
    BY <2>1, <2>3, <2>4, <2>5, <2>6, Apart, SMTT(90) DEF SetUpTo, Held, DataTaken
  <2> QED  BY <1>14, <2>5, <2>7 DEF DataTaken
<1>15. CASE k = 44
  <2>1. op = LC!Command(LC!RAMWR)
    BY <1>1, <1>15 DEF WindowTable
  <2>2. LC!RAMWR \in Int /\ LC!RAMWR # LC!SWRESET
    BY Apart
  <2> HIDE DEF op
  <2>3. CommandTaken(q, p, LC!RAMWR)
    BY <1>0, <2>1, <2>2, CommandAt
  <2>4. SetUpTo(p, 44)
    BY <1>15
  <2>5. SetUpTo(q, 45)
    BY <2>3, <2>4, Apart, SMTT(90) DEF SetUpTo, Held, CommandTaken
  <2> QED  BY <1>15, <2>3, <2>5 DEF CommandTaken
<1>16. \/ k = 1 \/ k \in (2..21) \cup (24..35) \/ k = 22 \/ k = 23 \/ k = 36 \/ k = 37 \/ k = 38
      \/ k = 39 \/ k = 40 \/ k = 41 \/ k = 42 \/ k = 43 \/ k = 44
  OBVIOUS
<1> QED  BY <1>2, <1>3, <1>4, <1>5, <1>6, <1>7, <1>8, <1>9, <1>10, <1>11, <1>12, <1>13, <1>14, <1>15, <1>16

-----------------------------------------------------------------------------

\* A panel that is ready: its window is the screen.
Framed(p) ==
  /\ LC!Window(p, LC!CASET) = <<0, Width - 1>> /\ LC!Window(p, LC!RASET) = <<0, Height - 1>>
  /\ LC!Span(p, LC!CASET) = Width /\ LC!Span(p, LC!RASET) = Height

\* With these bytes in its register, the window goes from 0 to the last column or row.
LEMMA WindowOf ==
  ASSUME NEW p, NEW a, NEW v \in Nat, p.regs[a] = FirstToLast(v)
  PROVE  LC!Window(p, a) = <<0, v>> /\ LC!Span(p, a) = v + 1
<1>1. /\ Len(FirstToLast(v)) = 4
      /\ FirstToLast(v)[1] = LC!High(0) /\ FirstToLast(v)[2] = LC!Low(0)
      /\ FirstToLast(v)[3] = LC!High(v) /\ FirstToLast(v)[4] = LC!Low(v)
  BY FirstToLastBytes
<1>2. 256 * LC!High(0) + LC!Low(0) = 0 /\ 256 * LC!High(v) + LC!Low(v) = v
  BY Sums
<1>3. LC!Window(p, a) = <<0, v>>
  BY <1>1, <1>2 DEF LC!Window
<1> QED  BY <1>3 DEF LC!Span

\* After the setting up the panel is ready.
LEMMA ReadyPanel ==
  ASSUME NEW p \in PanelStates, NEW k \in Nat, k > 44, SetUpTo(p, k)
  PROVE  /\ Framed(p) /\ p.cmd = LC!RAMWR /\ p.reached /\ p.awake /\ p.on
         /\ p.regs[LC!COLMOD] = <<85>> /\ p.regs[LC!MADCTL] = <<40>>
<1>1. p.regs[LC!CASET] = FirstToLast(Width - 1) /\ p.regs[LC!RASET] = FirstToLast(Height - 1)
  BY DEF SetUpTo, Held
<1>2. Width - 1 \in Nat /\ Height - 1 \in Nat /\ (Width - 1) + 1 = Width /\ (Height - 1) + 1 = Height
  BY LcdNumbers
<1>3. Framed(p)
  BY <1>1, <1>2, WindowOf DEF Framed
<1> QED  BY <1>3 DEF SetUpTo, Held

\* Where pixels go.
LEMMA PointsOfPanel ==
  ASSUME NEW p, Framed(p), NEW m \in LC!Cells, NEW pt \in LC!Screen
  PROVE  LC!Point(p, m) = pt <=> m = LC!Cell(pt)
<1>1. LC!Point(p, m) = <<0 + (m % Width), 0 + (m \div Width)>>
  BY DEF LC!Point, Framed
<1>2. <<m % Width, m \div Width>> \in LC!Screen /\ LC!Cell(<<m % Width, m \div Width>>) = m
  BY ScreenAndCells
<1>3. m % Width \in Int /\ m \div Width \in Int
  <2>1. m \in Int /\ Width \in Nat \ {0}
    BY LcdNumbers DEF LC!Cells
  <2> QED  BY <2>1, Division
<1>4. LC!Point(p, m) = <<m % Width, m \div Width>>
  <2>1. 0 + (m % Width) = m % Width /\ 0 + (m \div Width) = m \div Width
    BY <1>3
  <2> QED  BY <1>1, <2>1, Zenon
<1> QED  BY <1>2, <1>4, ScreenAndCells

\* The number of the cells.
LEMMA ScreenSize == Width * Height \in Nat \ {0} /\ LC!Cells = 0..Width * Height - 1
<1>1. Width \in Nat \ {0} /\ Height \in Nat \ {0}
  BY LcdNumbers
<1>2. Width * 1 <= Width * Height /\ Width * Height \in Nat
  <2>1. Width \in Nat /\ 1 \in Nat /\ Height \in Nat /\ 1 <= Height
    BY <1>1
  <2> QED  BY <2>1, ProductGrows
<1>3. Width * 1 = Width
  BY <1>1
<1> QED  BY <1>1, <1>2, <1>3 DEF LC!Cells

\* Bytes that come for the cells from a on, which the window has room for.
PixelsTaken(q, p, bytes, a, l) ==
  /\ q \in PanelStates /\ q.reached = p.reached /\ q.cmd = p.cmd /\ q.awake = p.awake /\ q.on = p.on
  /\ q.regs = p.regs
  /\ q.at = (a + l \div 2) % (Width * Height)
  /\ q.high = IF l % 2 = 1 THEN bytes[l] ELSE -1
  /\ \A pt \in LC!Screen :
       /\ a <= LC!Cell(pt) /\ LC!Cell(pt) < a + l \div 2 =>
            q.ram[pt] = 256 * bytes[2 * (LC!Cell(pt) - a) + 1] + bytes[2 * (LC!Cell(pt) - a) + 2]
       /\ ~(a <= LC!Cell(pt) /\ LC!Cell(pt) < a + l \div 2) => q.ram[pt] = p.ram[pt]

\* A number below n is its own remainder.
LEMMA SmallRemainder ==
  ASSUME NEW n \in Nat \ {0}, NEW x \in 0..n - 1
  PROVE  x % n = x
<1>1. PICK k \in Int, r \in 0..n - 1 : r = x % n /\ x = n * k + r
  <2>1. x \in Int
    OBVIOUS
  <2> QED  BY <2>1, Division
<1>2. n * 0 + x = n * k + r
  BY <1>1
<1>3. x = r
  <2>1. n \in Nat \ {0} /\ 0 \in Int /\ k \in Int /\ x \in 0..n - 1 /\ r \in 0..n - 1
    OBVIOUS
  <2> QED  BY ONLY <2>1, <1>2, OneRemainder
<1> QED  BY <1>1, <1>3

\* Pixels from cell a on fill the next cells, and the window goes on behind them.
LEMMA PixelsFill ==
  ASSUME NEW p \in PanelStates, Framed(p), NEW l \in Nat, NEW bytes \in Seq(Nat), Len(bytes) = l,
         NEW a \in Nat, p.at = a, 2 * a + l <= 2 * (Width * Height)
  PROVE  PixelsTaken(LC!Pixels(p, bytes), p, bytes, a, l)
<1>1. PICK size \in Nat \ {0} : size = Width * Height /\ LC!Cells = 0..size - 1
  BY ScreenSize
<1>2. PICK h \in Nat : h = l \div 2 /\ 2 * h <= l /\ l <= 2 * h + 1 /\ (l % 2 = 1 => l >= 1)
  <2>1. l \div 2 \in Nat /\ 2 * (l \div 2) <= l /\ l <= 2 * (l \div 2) + 1 /\ (l % 2 = 1 => l >= 1)
    OBVIOUS
  <2> QED  BY <2>1
<1>3. a + h <= size
  <2>1. 2 * (a + h) <= 2 * size
    BY <1>1, <1>2
  <2> QED  BY <2>1
<1>4. \A j \in 1..l : bytes[j] \in Nat
  BY ElementOfSeq
<1> DEFINE window == LC!Span(p, LC!CASET) * LC!Span(p, LC!RASET)
           Hits(pt) == {k \in 0..(Len(bytes) \div 2) - 1 : LC!Point(p, (p.at + k) % window) = pt}
           Latest(pt) == CHOOSE k \in Hits(pt) : \A j \in Hits(pt) : j <= k
           ram == [pt \in LC!Screen |->
                     IF Hits(pt) = {} THEN p.ram[pt]
                     ELSE 256 * bytes[2 * Latest(pt) + 1] + bytes[2 * Latest(pt) + 2]]
           high == IF Len(bytes) % 2 = 1 THEN bytes[Len(bytes)] ELSE -1
           after == (p.at + (Len(bytes) \div 2)) % window
           q == LC!Pixels(p, bytes)
<1>5. window = size
  BY <1>1 DEF Framed
<1>9. q = [p EXCEPT !.at = after, !.high = high, !.ram = ram]
  BY DEF LC!Pixels
<1> HIDE DEF window
<1>6. ASSUME NEW pt \in LC!Screen
      PROVE  /\ LC!Cell(pt) \in 0..size - 1
             /\ a <= LC!Cell(pt) /\ LC!Cell(pt) < a + h => Hits(pt) = {LC!Cell(pt) - a}
             /\ ~(a <= LC!Cell(pt) /\ LC!Cell(pt) < a + h) => Hits(pt) = {}
  <2>1. PICK c \in 0..size - 1 : c = LC!Cell(pt)
    BY <1>1, ScreenAndCells
  <2>2. ASSUME NEW k \in 0..h - 1
        PROVE  LC!Point(p, (p.at + k) % window) = pt <=> a + k = c
    <3>1. a + k \in 0..size - 1
      BY <1>3
    <3>2. (p.at + k) % window = a + k
      BY <1>5, <3>1, SmallRemainder
    <3>3. LC!Point(p, a + k) = pt <=> a + k = c
      BY <1>1, <2>1, <3>1, PointsOfPanel
    <3> QED  BY <3>2, <3>3, Zenon
  <2>3. \A k : k \in Hits(pt) <=> k \in 0..h - 1 /\ LC!Point(p, (p.at + k) % window) = pt
    BY <1>2
  <2> HIDE DEF Hits
  <2>4. \A k : k \in Hits(pt) <=> k \in 0..h - 1 /\ a + k = c
    BY <2>2, <2>3, Zenon
  <2>5. a <= c /\ c < a + h => c - a \in 0..h - 1 /\ a + (c - a) = c
    BY <1>1
  <2>6. a <= c /\ c < a + h => Hits(pt) = {c - a}
    BY <2>4, <2>5
  <2>7. ~(a <= c /\ c < a + h) => Hits(pt) = {}
    <3> SUFFICES ASSUME NEW k, k \in Hits(pt) PROVE a <= c /\ c < a + h
      OBVIOUS
    <3>1. k \in 0..h - 1 /\ a + k = c
      BY <2>4
    <3> QED  BY <3>1
  <2> QED  BY <2>1, <2>6, <2>7
<1>7. ASSUME NEW pt \in LC!Screen
      PROVE  LET c == LC!Cell(pt) IN
             /\ a <= c /\ c < a + h => ram[pt] = 256 * bytes[2 * (c - a) + 1] + bytes[2 * (c - a) + 2]
             /\ ~(a <= c /\ c < a + h) => ram[pt] = p.ram[pt]
  <2>1. PICK c \in 0..size - 1 : c = LC!Cell(pt)
    BY <1>6
  <2>2. ram[pt] = IF Hits(pt) = {} THEN p.ram[pt]
                  ELSE 256 * bytes[2 * Latest(pt) + 1] + bytes[2 * Latest(pt) + 2]
    OBVIOUS
  <2>3. /\ a <= c /\ c < a + h => Hits(pt) = {c - a}
        /\ ~(a <= c /\ c < a + h) => Hits(pt) = {}
    BY <1>6, <2>1
  <2> HIDE DEF Hits, ram
  <2>4. Hits(pt) = {c - a} => Latest(pt) = c - a
    OBVIOUS
  <2> HIDE DEF Latest
  <2>5. a <= c /\ c < a + h => ram[pt] = 256 * bytes[2 * (c - a) + 1] + bytes[2 * (c - a) + 2]
    <3> HAVE a <= c /\ c < a + h
    <3>1. Hits(pt) # {} /\ Latest(pt) = c - a
      BY <2>3, <2>4
    <3> QED  BY <2>2, <3>1, Zenon
  <2>6. ~(a <= c /\ c < a + h) => ram[pt] = p.ram[pt]
    BY <2>2, <2>3
  <2> QED  BY <2>1, <2>5, <2>6
<1> HIDE DEF Hits, Latest
<1>10. /\ after = (a + h) % size /\ after \in Int
       /\ high = (IF l % 2 = 1 THEN bytes[l] ELSE -1) /\ high \in Int
  <2>1. after = (a + h) % size
    BY <1>2, <1>5
  <2>2. high = IF l % 2 = 1 THEN bytes[l] ELSE -1
    OBVIOUS
  <2>3. l % 2 = 1 => bytes[l] \in Nat
    BY <1>2, <1>4
  <2>4. (a + h) % size \in Int
    OBVIOUS
  <2> QED  BY <2>1, <2>2, <2>3, <2>4
<1>11. ram \in [LC!Screen -> Int]
  <2>1. ASSUME NEW pt \in LC!Screen PROVE ram[pt] \in Int
    <3> HIDE DEF ram
    <3>1. PICK c \in 0..size - 1 : c = LC!Cell(pt)
      BY <1>6
    <3>2. CASE a <= c /\ c < a + h
      <4>1. 2 * (c - a) + 1 \in 1..l /\ 2 * (c - a) + 2 \in 1..l
        BY <1>1, <1>2, <3>2
      <4>2. ram[pt] = 256 * bytes[2 * (c - a) + 1] + bytes[2 * (c - a) + 2]
        BY <1>7, <3>1, <3>2
      <4>3. PICK u \in Nat, v \in Nat : u = bytes[2 * (c - a) + 1] /\ v = bytes[2 * (c - a) + 2]
        BY <1>4, <4>1
      <4> QED  BY <4>2, <4>3
    <3>3. CASE ~(a <= c /\ c < a + h)
      <4>1. p.ram[pt] \in Int
        BY PanelFields
      <4> QED  BY <1>7, <3>1, <3>3, <4>1
    <3> QED  BY <3>2, <3>3
  <2>2. ram = [pt \in LC!Screen |-> ram[pt]]
    OBVIOUS
  <2> HIDE DEF ram
  <2> QED  BY <2>1, <2>2
<1> HIDE DEF ram, high, after, q
<1>12. /\ q \in PanelStates /\ q.reached = p.reached /\ q.cmd = p.cmd /\ q.awake = p.awake /\ q.on = p.on
       /\ q.regs = p.regs /\ q.at = after /\ q.high = high /\ q.ram = ram
  BY <1>9, <1>10, <1>11 DEF PanelStates
<1>13. after = (a + l \div 2) % (Width * Height)
  BY <1>1, <1>2, <1>10, Zenon
<1>14. ASSUME NEW pt \in LC!Screen
       PROVE  /\ a <= LC!Cell(pt) /\ LC!Cell(pt) < a + l \div 2 =>
                   q.ram[pt] = 256 * bytes[2 * (LC!Cell(pt) - a) + 1] + bytes[2 * (LC!Cell(pt) - a) + 2]
              /\ ~(a <= LC!Cell(pt) /\ LC!Cell(pt) < a + l \div 2) => q.ram[pt] = p.ram[pt]
  BY <1>2, <1>7, <1>12, Zenon
<1>15. q.at = (a + l \div 2) % (Width * Height) /\ q.high = IF l % 2 = 1 THEN bytes[l] ELSE -1
  BY <1>10, <1>12, <1>13, Zenon
<1> QED  BY <1>12, <1>14, <1>15 DEF PixelsTaken, q

-----------------------------------------------------------------------------

\* The bytes of a frame are the colours of the screen, two for each cell in order.
LEMMA FrameBytes ==
  ASSUME Drawn, LC!Op.kind = "frame"
  PROVE  /\ \A k \in 1..2 * (Width * Height) : LC!Bytes[k] \in Nat
         /\ \A pt \in LC!Screen :
              256 * LC!Bytes[2 * LC!Cell(pt) + 1] + LC!Bytes[2 * LC!Cell(pt) + 2] = picture[pt]
<1>1. PICK size \in Nat \ {0} : size = Width * Height /\ LC!Cells = 0..size - 1
  BY ScreenSize
<1>2. 2 * Width * Height = 2 * size
  <2>1. Width \in Nat /\ Height \in Nat
    BY LcdNumbers
  <2> QED  BY <1>1, <2>1
<1> DEFINE Byte(k) == LET v == frame[(k - 1) \div 2] IN IF k % 2 = 1 THEN LC!Low(v) ELSE LC!High(v)
<1>3. LC!Bytes = [k \in 1..2 * Width * Height |-> Byte(k)]
  BY DEF LC!Bytes
<1>4. \A k \in 1..2 * size : LC!Bytes[k] = Byte(k)
  <2> HIDE DEF Byte
  <2> QED  BY <1>2, <1>3
<1>5. ASSUME NEW c \in 0..size - 1
      PROVE  /\ 2 * c + 1 \in 1..2 * size /\ 2 * c + 2 \in 1..2 * size
             /\ Byte(2 * c + 1) = LC!Low(frame[c]) /\ Byte(2 * c + 2) = LC!High(frame[c])
  <2>1. /\ 2 * c + 1 \in 1..2 * size /\ 2 * c + 2 \in 1..2 * size
        /\ ((2 * c + 1) - 1) \div 2 = c /\ ((2 * c + 2) - 1) \div 2 = c
        /\ (2 * c + 1) % 2 = 1 /\ (2 * c + 2) % 2 # 1
    OBVIOUS
  <2> QED  BY <2>1, Zenon
<1>6. ASSUME NEW k \in 1..2 * size PROVE LC!Bytes[k] \in Nat
  <2>1. PICK c \in 0..size - 1 : c = (k - 1) \div 2
    OBVIOUS
  <2>2. frame[c] \in Nat
    BY <1>1 DEF Drawn
  <2>3. LC!Low(frame[c]) \in Nat /\ LC!High(frame[c]) \in Nat
    BY <2>2, Sums
  <2>4. Byte(k) = IF k % 2 = 1 THEN LC!Low(frame[c]) ELSE LC!High(frame[c])
    BY <2>1, Zenon
  <2> HIDE DEF Byte
  <2> QED  BY <1>4, <2>3, <2>4
<1>7. ASSUME NEW pt \in LC!Screen
      PROVE  256 * LC!Bytes[2 * LC!Cell(pt) + 1] + LC!Bytes[2 * LC!Cell(pt) + 2] = picture[pt]
  <2>1. PICK c \in 0..size - 1 : c = LC!Cell(pt)
    BY <1>1, ScreenAndCells
  <2>2. LC!Bytes[2 * c + 1] = LC!Low(frame[c]) /\ LC!Bytes[2 * c + 2] = LC!High(frame[c])
    <3> HIDE DEF Byte
    <3> QED  BY <1>4, <1>5
  <2>3. frame[c] = LC!Swapped(picture[pt]) /\ picture[pt] \in Colours
    BY <2>1 DEF Drawn
  <2>4. 256 * LC!Low(LC!Swapped(picture[pt])) + LC!High(LC!Swapped(picture[pt])) = picture[pt]
    BY <2>3, ColourNumbers
  <2> QED  BY <2>1, <2>2, <2>3, <2>4, Zenon
<1> QED  BY <1>1, <1>6, <1>7, Zenon

\* The bytes that come, with the one that was left over.
Joint(B, s, n, high, bytes, a, l) ==
  /\ a = s \div 2 /\ 2 * a + l = s + n /\ Len(bytes) = l
  /\ bytes = IF high = -1 THEN SubSeq(B, s + 1, s + n) ELSE <<high>> \o SubSeq(B, s + 1, s + n)
  /\ \A k \in 1..l : bytes[k] = B[2 * a + k]

\* With the byte that was left over they begin at an even place.
LEMMA WithRest ==
  ASSUME NEW B, NEW total \in Nat, \A k \in 1..total : B[k] \in Nat,
         NEW s \in Nat, NEW n \in Nat, s + n <= total, NEW high,
         high = IF s % 2 = 1 THEN B[s] ELSE -1
  PROVE  \E bytes \in Seq(Nat), a \in Nat, l \in Nat : Joint(B, s, n, high, bytes, a, l)
<1> DEFINE t == SubSeq(B, s + 1, s + n)
<1>1. /\ t \in Seq(Nat) /\ Len(t) = n
      /\ \A k \in 1..n : t[k] = B[s + k]
  <2>1. \A k \in s + 1..s + n : B[k] \in Nat
    OBVIOUS
  <2>2. /\ t \in Seq(Nat) /\ Len(t) = (IF s + 1 <= s + n THEN (s + n) - (s + 1) + 1 ELSE 0)
        /\ \A k \in 1..(s + n) - (s + 1) + 1 : t[k] = B[(s + 1) + k - 1]
    <3>1. s + 1 \in Int /\ s + n \in Int
      OBVIOUS
    <3> QED  BY ONLY <2>1, <3>1, SubSeqProperties
  <2>3. (s + n) - (s + 1) + 1 = n /\ (IF s + 1 <= s + n THEN (s + n) - (s + 1) + 1 ELSE 0) = n
    OBVIOUS
  <2>4. \A k \in 1..n : (s + 1) + k - 1 = s + k
    OBVIOUS
  <2> HIDE DEF t
  <2> QED  BY <2>2, <2>3, <2>4
<1> HIDE DEF t
<1>2. PICK a \in Nat : a = s \div 2 /\ (s % 2 = 1 => s = 2 * a + 1) /\ (s % 2 # 1 => s = 2 * a)
  <2>1. s \div 2 \in Nat /\ (s % 2 = 1 => s = 2 * (s \div 2) + 1) /\ (s % 2 # 1 => s = 2 * (s \div 2))
    OBVIOUS
  <2> QED  BY <2>1
<1>3. CASE s % 2 = 1
  <2>1. s \in 1..total /\ s = 2 * a + 1
    BY <1>2, <1>3
  <2>2. high \in Nat /\ high = B[s] /\ high # -1
    BY <1>3, <2>1
  <2>3. <<high>> \in Seq(Nat) /\ Len(<<high>>) = 1 /\ <<high>>[1] = high
    BY <2>2
  <2> DEFINE bytes == <<high>> \o t
  <2>4. /\ bytes \in Seq(Nat) /\ Len(bytes) = 1 + n
        /\ \A k \in 1..1 + n : bytes[k] = IF k <= 1 THEN <<high>>[k] ELSE t[k - 1]
    BY <1>1, <2>3, ConcatProperties
  <2>5. ASSUME NEW k \in 1..1 + n PROVE bytes[k] = B[2 * a + k]
    <3>1. CASE k = 1
      BY <2>1, <2>2, <2>3, <2>4, <3>1
    <3>2. CASE k # 1
      <4>1. k - 1 \in 1..n /\ ~(k <= 1) /\ s + (k - 1) = 2 * a + k
        BY <2>1, <3>2
      <4> HIDE DEF bytes
      <4> QED  BY <1>1, <2>4, <4>1
    <3> QED  BY <3>1, <3>2
  <2>6. 1 + n \in Nat /\ 2 * a + (1 + n) = s + n
    BY <2>1
  <2>7. bytes = IF high = -1 THEN t ELSE <<high>> \o t
    BY <2>2
  <2> HIDE DEF bytes
  <2>8. \E l \in Nat : /\ 2 * a + l = s + n /\ Len(bytes) = l
                       /\ \A k \in 1..l : bytes[k] = B[2 * a + k]
    BY <2>4, <2>5, <2>6
  <2> QED  BY <1>2, <2>4, <2>7, <2>8 DEF t, Joint
<1>4. CASE s % 2 # 1
  <2>1. high = -1 /\ s = 2 * a
    BY <1>2, <1>4
  <2>2. t = IF high = -1 THEN t ELSE <<high>> \o t
    BY <2>1
  <2>3. /\ 2 * a + n = s + n /\ Len(t) = n
        /\ \A k \in 1..n : t[k] = B[2 * a + k]
    BY <1>1, <2>1
  <2> QED  BY <1>1, <1>2, <2>2, <2>3 DEF t, Joint
<1> QED  BY <1>3, <1>4

\* A piece of a frame arrives.
PieceTaken(n) ==
  /\ panel' \in PanelStates /\ panel'.reached = panel.reached /\ panel'.cmd = panel.cmd
  /\ panel'.awake = panel.awake /\ panel'.on = panel.on /\ panel'.regs = panel.regs
  /\ panel'.at = (n \div 2) % (Width * Height)
  /\ panel'.high = IF n % 2 = 1 THEN LC!Bytes[n] ELSE -1
  /\ \A pt \in LC!Screen : LC!Cell(pt) < n \div 2 => panel'.ram[pt] = picture[pt]

\* What is sent of a frame, up to its end, arrives where it belongs.
LEMMA PieceArrives ==
  ASSUME Drawn, LC!Op.kind = "frame", panel \in PanelStates, NEW k \in Nat, k > 44, SetUpTo(panel, k),
         dc = 1, sent \in Nat, NEW n \in Nat, sent + n <= 2 * (Width * Height), ShownTo(sent),
         panel' = LC!Received(SubSeq(LC!Bytes, sent + 1, sent + n))
  PROVE  PieceTaken(sent + n)
<1>1. PICK size \in Nat \ {0} : size = Width * Height /\ LC!Cells = 0..size - 1
  BY ScreenSize
<1>2. Framed(panel) /\ panel.cmd = LC!RAMWR /\ panel.reached
  BY ReadyPanel
<1>3. /\ \A j \in 1..2 * size : LC!Bytes[j] \in Nat
      /\ \A pt \in LC!Screen :
           256 * LC!Bytes[2 * LC!Cell(pt) + 1] + LC!Bytes[2 * LC!Cell(pt) + 2] = picture[pt]
  BY <1>1, FrameBytes
<1>40. PICK bytes \in Seq(Nat), a \in Nat, l \in Nat : Joint(LC!Bytes, sent, n, panel.high, bytes, a, l)
  <2>0. PICK B, high : B = LC!Bytes /\ high = panel.high
    OBVIOUS
  <2>1. PICK total \in Nat : total = 2 * size
    BY <1>1
  <2>2. sent + n <= total /\ \A j \in 1..total : B[j] \in Nat
    BY <1>1, <1>3, <2>0, <2>1
  <2>3. high = IF sent % 2 = 1 THEN B[sent] ELSE -1
    BY <2>0 DEF ShownTo
  <2>4. \E bytes \in Seq(Nat), a \in Nat, l \in Nat : Joint(B, sent, n, high, bytes, a, l)
    BY <2>2, <2>3, WithRest
  <2> QED  BY ONLY <2>0, <2>4
<1>4. /\ a = sent \div 2 /\ 2 * a + l = sent + n /\ Len(bytes) = l
      /\ bytes = IF panel.high = -1 THEN SubSeq(LC!Bytes, sent + 1, sent + n)
                 ELSE <<panel.high>> \o SubSeq(LC!Bytes, sent + 1, sent + n)
      /\ \A j \in 1..l : bytes[j] = LC!Bytes[2 * a + j]
  BY ONLY <1>40, Zenon DEF Joint
<1>5. panel' = LC!Pixels(panel, bytes)
  <2>1. LC!RAMWR \notin LC!Registers
    BY Apart
  <2>2. panel' = LC!PanelData(panel, SubSeq(LC!Bytes, sent + 1, sent + n))
    BY <1>2 DEF LC!Received
  <2>3. panel' = LC!Pixels(panel, IF panel.high = -1 THEN SubSeq(LC!Bytes, sent + 1, sent + n)
                                  ELSE <<panel.high>> \o SubSeq(LC!Bytes, sent + 1, sent + n))
    BY ONLY <1>2, <2>1, <2>2, Zenon DEF LC!PanelData
  <2>4. bytes = IF panel.high = -1 THEN SubSeq(LC!Bytes, sent + 1, sent + n)
                ELSE <<panel.high>> \o SubSeq(LC!Bytes, sent + 1, sent + n)
    BY <1>4
  <2> QED  BY ONLY <2>3, <2>4, Zenon
<1>6. PixelsTaken(panel', panel, bytes, a, l)
  <2>1. panel.at = a
    BY <1>4 DEF ShownTo
  <2>2. 2 * a + l <= 2 * (Width * Height)
    BY <1>4
  <2> QED  BY <1>2, <1>4, <1>5, <2>1, <2>2, PixelsFill
<1>7. PICK h \in Nat : /\ h = l \div 2 /\ a + h = (sent + n) \div 2 /\ l % 2 = (sent + n) % 2
                       /\ 2 * h <= l /\ (l % 2 = 1 => l \in 1..l /\ 2 * a + l = sent + n)
  <2>1. /\ l \div 2 \in Nat /\ a + (l \div 2) = (2 * a + l) \div 2 /\ l % 2 = (2 * a + l) % 2
        /\ 2 * (l \div 2) <= l /\ (l % 2 = 1 => l \in 1..l)
    OBVIOUS
  <2> QED  BY <1>4, <2>1
<1>8. panel'.high = IF (sent + n) % 2 = 1 THEN LC!Bytes[sent + n] ELSE -1
  <2>1. l % 2 = 1 => bytes[l] = LC!Bytes[sent + n]
    <3> HAVE l % 2 = 1
    <3>1. bytes[l] = LC!Bytes[2 * a + l]
      BY <1>4, <1>7
    <3> QED  BY <1>7, <3>1
  <2>2. panel'.high = IF l % 2 = 1 THEN bytes[l] ELSE -1
    BY <1>6 DEF PixelsTaken
  <2> QED  BY <1>7, <2>1, <2>2
<1>9. ASSUME NEW pt \in LC!Screen, LC!Cell(pt) < (sent + n) \div 2 PROVE panel'.ram[pt] = picture[pt]
  <2>1. PICK c \in 0..size - 1 : c = LC!Cell(pt)
    BY <1>1, ScreenAndCells
  <2>2. /\ a <= c /\ c < a + h => panel'.ram[pt] = 256 * bytes[2 * (c - a) + 1] + bytes[2 * (c - a) + 2]
        /\ ~(a <= c /\ c < a + h) => panel'.ram[pt] = panel.ram[pt]
    BY <1>6, <1>7, <2>1 DEF PixelsTaken
  <2>3. CASE a <= c
    <3>0. c \in Nat /\ a \in Nat /\ h \in Nat /\ l \in Nat /\ c < a + h /\ 2 * h <= l
      <4>1. c < a + h
        BY ONLY <1>7, <1>9, <2>1
      <4>2. c \in Nat
        BY ONLY <2>1, <1>1
      <4> QED  BY <1>7, <4>1, <4>2
    <3>1. /\ 2 * (c - a) + 1 \in 1..l /\ 2 * (c - a) + 2 \in 1..l /\ c < a + h
          /\ 2 * a + (2 * (c - a) + 1) = 2 * c + 1 /\ 2 * a + (2 * (c - a) + 2) = 2 * c + 2
      BY ONLY <3>0, <2>3
    <3>2. bytes[2 * (c - a) + 1] = LC!Bytes[2 * c + 1] /\ bytes[2 * (c - a) + 2] = LC!Bytes[2 * c + 2]
      BY <1>4, <3>1
    <3>3. 256 * LC!Bytes[2 * c + 1] + LC!Bytes[2 * c + 2] = picture[pt]
      BY <1>3, <2>1
    <3> QED  BY <2>2, <2>3, <3>1, <3>2, <3>3
  <2>4. CASE ~(a <= c)
    <3>1. LC!Cell(pt) < sent \div 2
      BY <1>4, <2>1, <2>4
    <3>2. panel.ram[pt] = picture[pt]
      BY <3>1 DEF ShownTo
    <3> QED  BY <2>2, <2>4, <3>2
  <2> QED  BY <2>3, <2>4
<1>10. panel'.at = ((sent + n) \div 2) % (Width * Height)
  BY <1>6, <1>7 DEF PixelsTaken
<1> QED  BY <1>6, <1>8, <1>9, <1>10 DEF PieceTaken, PixelsTaken

-----------------------------------------------------------------------------

\* The panel is what it was, and main is at another place behind the setting up.
LEMMA StaysSetUp ==
  ASSUME NEW p, NEW q, NEW k \in Nat, NEW l \in Nat, k > 44, l > 44, SetUpTo(p, k),
         q.reached = p.reached, q.awake = p.awake, q.on = p.on, q.cmd = p.cmd, q.regs = p.regs
  PROVE  SetUpTo(q, l)
BY DEF SetUpTo, Held

\* A call that works.
LEMMA NoFailure ==
  ASSUME Position, failures' = 0, LC!Fail \/ LC!Work
  PROVE  failures = 0 /\ ~LC!Fail
<1>1. failures \in Nat
  BY DEF Position
<1> QED  BY <1>1 DEF LC!Fail, LC!Work

\* A command is one byte, and its data are four at most.
LEMMA ShortOps ==
  ASSUME NEW n \in IpLengths, NEW k \in 1..44
  PROVE  /\ LC!Mains[n][k].bytes \in Seq(Int)
         /\ Len(LC!Mains[n][k].bytes) \in 1..4
<1> DEFINE op == LC!Mains[n][k]
<1>1. SetUpTable(LC!Mains[n]) /\ WindowTable(LC!Mains[n])
  BY MainTable DEF Table
<1>2. \A b \in Int : <<b>> \in Seq(Int) /\ Len(<<b>>) = 1
  OBVIOUS
<1>3. FirstToLast(Width - 1) \in Seq(Int) /\ FirstToLast(Height - 1) \in Seq(Int)
      /\ Len(FirstToLast(Width - 1)) = 4 /\ Len(FirstToLast(Height - 1)) = 4
  <2>1. Width - 1 \in Nat /\ Height - 1 \in Nat
    BY LcdNumbers
  <2> QED  BY <2>1, FirstToLastBytes
<1>4. \A b \in Int : LC!Command(b).bytes \in Seq(Int) /\ Len(LC!Command(b).bytes) = 1
  BY <1>2, OpFields
<1>5. \A b \in Int : LC!Data(<<b>>).bytes \in Seq(Int) /\ Len(LC!Data(<<b>>).bytes) = 1
  BY <1>2, OpFields
<1>6. \A b : LC!Data(b).bytes = b
  BY OpFields
<1>7. CASE k \in (2..21) \cup (24..35)
  <2>1. CASE k % 2 = 0
    <3>1. PICK b \in TuningCodes : op = LC!Command(b)
      BY <1>1, <1>7, <2>1 DEF SetUpTable, TuningCommand
    <3>2. b \in Int
      BY DEF TuningCodes
    <3> QED  BY <1>4, <3>1, <3>2
  <2>2. CASE k % 2 # 0
    <3>1. op = LC!Data(<<0>>)
      BY <1>1, <1>7, <2>2 DEF SetUpTable
    <3> QED  BY <1>5, <3>1
  <2> QED  BY <2>1, <2>2
<1>8. CASE k \in {1, 22, 36, 37, 38, 40, 42, 44}
  <2>1. PICK b \in Int : op = LC!Command(b)
    BY <1>1, <1>8, Apart DEF SetUpTable, WindowTable
  <2> QED  BY <1>4, <2>1
<1>9. CASE k \in {23, 39}
  <2>1. PICK b \in Int : op = LC!Data(<<b>>)
    BY <1>1, <1>9 DEF SetUpTable
  <2> QED  BY <1>5, <2>1
<1>10. CASE k \in {41, 43}
  <2>1. op = LC!Data(FirstToLast(Width - 1)) \/ op = LC!Data(FirstToLast(Height - 1))
    BY <1>1, <1>10 DEF WindowTable, LC!Bounds, FirstToLast
  <2> QED  BY <1>3, <1>6, <2>1
<1>11. \/ k \in (2..21) \cup (24..35) \/ k \in {1, 22, 36, 37, 38, 40, 42, 44} \/ k \in {23, 39} \/ k \in {41, 43}
  OBVIOUS
<1> QED  BY <1>7, <1>8, <1>9, <1>10, <1>11

\* A piece that is not the last keeps what holds without failures: it is of a frame.
LEMMA SendsPiece ==
  ASSUME Position, Drawn, Wired, failures' = 0, LC!SendPiece
  PROVE  Wired'
<1>0. failures = 0 /\ ~LC!Fail
  BY NoFailure DEF LC!SendPiece, LC!SpiWrite
<1>1. /\ step = "send" /\ step' = "send" /\ left > DataSize /\ at' = at
      /\ sent' = sent + DataSize /\ left' = left - DataSize
      /\ UNCHANGED <<ip, frame, picture, dc, pins>>
      /\ panel' = LC!Received(SubSeq(LC!Bytes, sent + 1, sent + DataSize))
  BY <1>0 DEF LC!SendPiece, LC!SpiWrite, LC!NextPiece, LC!drawVars, LC!wires
<1>2. at \in 1..LastOp /\ LastOp \in Nat /\ LC!Op = LC!Mains[ip][at] /\ (at <= 44 <=> LC!Op.kind \in {"command", "data"})
  BY <1>1, AtOp, MainEnds
<1>3. SetUpTo(panel, at) /\ Sending /\ panel \in PanelStates /\ {"dc", "cs"} \subseteq pins
  BY <1>1 DEF Wired
<1>4. LC!Op.kind = "frame"
  <2> SUFFICES ASSUME LC!Op.kind # "frame" PROVE FALSE
    OBVIOUS
  <2>1. at \in 1..44 /\ left = Len(LC!Op.bytes)
    BY <1>2, <1>3 DEF Sending
  <2>2. Len(LC!Op.bytes) <= 4 /\ Len(LC!Op.bytes) \in Nat
    <3>1. ip \in IpLengths
      BY DEF Position
    <3>2. Len(LC!Mains[ip][at].bytes) \in 1..4
      BY <2>1, <3>1, ShortOps, Zenon
    <3>3. Len(LC!Op.bytes) \in 1..4
      BY <1>2, <3>2, Zenon
    <3>4. \A x \in 1..4 : x <= 4 /\ x \in Nat
      OBVIOUS
    <3> QED  BY <3>3, <3>4, Zenon
  <2> QED  BY <1>1, <2>1, <2>2, LcdNumbers
<1>5. /\ dc = 1 /\ sent \in Nat /\ left \in Nat \ {0} /\ sent + left = 2 * (Width * Height) /\ ShownTo(sent)
      /\ at > 44 /\ at \in Nat
  BY <1>2, <1>3, <1>4 DEF Sending
<1>6. PICK size \in Nat \ {0} : size = Width * Height /\ LC!Cells = 0..size - 1
  BY ScreenSize
<1>7. PICK n \in Nat : n = DataSize /\ sent + n < 2 * size /\ sent + n \in Nat /\ left - n \in Nat \ {0}
                       /\ (sent + n) + (left - n) = 2 * size
  BY <1>1, <1>5, <1>6, LcdNumbers
<1>8. PieceTaken(sent + n)
  <2>1. sent + n <= 2 * (Width * Height)
    BY <1>6, <1>7
  <2>2. panel' = LC!Received(SubSeq(LC!Bytes, sent + 1, sent + n))
    BY <1>1, <1>7
  <2>3. Drawn /\ LC!Op.kind = "frame" /\ panel \in PanelStates /\ at \in Nat /\ at > 44 /\ SetUpTo(panel, at)
        /\ dc = 1 /\ sent \in Nat /\ n \in Nat /\ ShownTo(sent)
    BY <1>3, <1>4, <1>5, <1>7
  <2> QED  BY <2>1, <2>2, <2>3, PieceArrives, Zenon
<1>9. /\ SetUpTo(panel', at) /\ panel' \in PanelStates
  BY <1>3, <1>5, <1>8, StaysSetUp DEF PieceTaken
<1>10. LC!Op' = LC!Op /\ LC!Bytes' = LC!Bytes
  <2>1. LC!Op' = LC!Op
    BY <1>1 DEF LC!Op, LC!Mains, LC!MainFor
  <2> QED  BY <1>1, <2>1 DEF LC!Bytes
<1>11. (sent + n) \div 2 \in 0..size - 1 /\ ((sent + n) \div 2) % size = (sent + n) \div 2
  <2>1. (sent + n) \div 2 \in 0..size - 1
    BY <1>7
  <2> QED  BY <2>1, SmallRemainder
<1>12. PICK m \in Nat : m = sent + n /\ sent' = m /\ left' \in Nat \ {0} /\ m + left' = 2 * (Width * Height)
  BY <1>1, <1>6, <1>7
<1>13. ShownTo(sent)'
  <2>1. /\ panel'.at = m \div 2 /\ panel'.high = IF m % 2 = 1 THEN LC!Bytes[m] ELSE -1
        /\ \A pt \in LC!Screen : LC!Cell(pt) < m \div 2 => panel'.ram[pt] = picture[pt]
    BY <1>6, <1>8, <1>11, <1>12 DEF PieceTaken
  <2>2. /\ panel'.at = sent' \div 2 /\ panel'.high = IF sent' % 2 = 1 THEN LC!Bytes[sent'] ELSE -1
        /\ \A pt \in LC!Screen : LC!Cell(pt) < sent' \div 2 => panel'.ram[pt] = picture[pt]
    BY ONLY <1>12, <2>1, Zenon
  <2> QED  BY <1>1, <1>10, <2>2, Zenon DEF ShownTo
<1>14. Sending'
  <2>1. sent' \in Nat /\ left' \in Nat \ {0} /\ sent' + left' = 2 * (Width * Height)
    BY <1>12
  <2> QED  BY <1>1, <1>4, <1>5, <1>10, <1>13, <2>1, Zenon DEF Sending
<1> QED  BY <1>1, <1>3, <1>9, <1>14 DEF Wired

-----------------------------------------------------------------------------

\* All of an operation of the setting up goes in one piece.
LEMMA ShortOpArrives ==
  ASSUME NEW bytes \in Seq(Int), NEW l, l = Len(bytes)
  PROVE  SubSeq(bytes, 0 + 1, 0 + l) = bytes
<1>1. l \in Nat /\ 1 \in Int /\ l \in Int /\ 0 + 1 = 1 /\ 0 + l = l
  OBVIOUS
<1>2. \A k \in 1..l : bytes[k] \in Int
  OBVIOUS
<1>3. /\ SubSeq(bytes, 1, l) \in Seq(Int) /\ Len(SubSeq(bytes, 1, l)) = l
      /\ \A k \in 1..l : SubSeq(bytes, 1, l)[k] = bytes[k]
  <2>1. /\ SubSeq(bytes, 1, l) \in Seq(Int) /\ Len(SubSeq(bytes, 1, l)) = (IF 1 <= l THEN l - 1 + 1 ELSE 0)
        /\ \A k \in 1..l - 1 + 1 : SubSeq(bytes, 1, l)[k] = bytes[1 + k - 1]
    BY ONLY <1>1, <1>2, SubSeqProperties
  <2>2. (IF 1 <= l THEN l - 1 + 1 ELSE 0) = l /\ l - 1 + 1 = l /\ \A k \in 1..l : 1 + k - 1 = k
    BY <1>1
  <2> QED  BY <2>1, <2>2
<1>4. SubSeq(bytes, 1, l) = bytes
  BY <1>3, SeqEqual
<1> QED  BY <1>1, <1>4

\* RAMWR begins a frame at the first pixel.
LEMMA FrameBegins ==
  ASSUME NEW p \in PanelStates, NEW n \in IpLengths, NEW q, Arrives(q, p, LC!Mains[n][44])
  PROVE  q.at = 0 /\ q.high = -1
<1>1. LC!Mains[n][44] = LC!Command(LC!RAMWR)
  BY MainTable DEF Table, WindowTable
<1>2. q = LC!PanelCommands(p, <<LC!RAMWR>>)
  BY <1>1, OpFields DEF Arrives
<1>3. LC!RAMWR \in Int /\ LC!RAMWR # LC!SWRESET
  BY DEF LC!RAMWR, LC!SWRESET
<1> QED  BY <1>2, <1>3, CommandArrives

\* A full window has begun again.
LEMMA SelfRemainder == ASSUME NEW n \in Nat \ {0} PROVE n % n = 0
<1>1. PICK k \in Int, r \in 0..n - 1 : r = n % n /\ n = n * k + r
  <2>1. n \in Int
    OBVIOUS
  <2> QED  BY <2>1, Division
<1>2. n * 1 + 0 = n * k + r
  BY <1>1
<1>3. 0 \in 0..n - 1 /\ 1 \in Int
  OBVIOUS
<1>4. r = 0
  BY ONLY <1>2, <1>3, k \in Int, r \in 0..n - 1, n \in Nat \ {0}, OneRemainder
<1> QED  BY <1>1, <1>4

\* So does the last piece, or the only one: an operation of the setting up has arrived, or a
\* frame.
LEMMA SendsRest ==
  ASSUME Position, Drawn, Wired, failures' = 0, LC!SendRest
  PROVE  Wired'
<1>0. failures = 0 /\ ~LC!Fail
  BY NoFailure DEF LC!SendRest, LC!SpiWrite
<1>1. /\ step = "send" /\ left <= DataSize /\ LC!NextOp /\ sent' = 0 /\ left' = 0
      /\ UNCHANGED <<ip, frame, picture, dc, pins>>
      /\ panel' = LC!Received(SubSeq(LC!Bytes, sent + 1, sent + left))
  BY <1>0 DEF LC!SendRest, LC!SpiWrite, LC!drawVars, LC!wires
<1>2. /\ at \in 1..LastOp /\ LastOp \in Nat /\ LastOp >= 49 /\ LC!Op = LC!Mains[ip][at]
      /\ (at <= 44 <=> LC!Op.kind \in {"command", "data"})
      /\ at' = at + 1 /\ step' \in {"pin", "free"} /\ LastOp' = LastOp /\ at \in Nat
  <2>1. Position /\ step \in {"pin", "send"} /\ LC!NextOp /\ ip' = ip /\ failures' \in Nat
    BY <1>1
  <2>2. at' = at + 1 /\ at \in 1..LastOp /\ step' \in {"pin", "free"}
    BY <2>1, NextOpMoves
  <2>3. LastOp' = LastOp
    BY DEF LastOp
  <2> QED  BY <2>1, <2>2, <2>3, AtOp, MainEnds
<1>3. SetUpTo(panel, at) /\ Sending /\ panel \in PanelStates /\ {"dc", "cs"} \subseteq pins /\ panel.reached
  BY <1>1 DEF Wired, SetUpTo
<1>4. CASE LC!Op.kind # "frame"
  <2>1. at \in 1..44 /\ sent = 0 /\ left = Len(LC!Op.bytes) /\ LC!Op.kind \in {"command", "data"}
        /\ dc = IF LC!Op.kind = "command" THEN 0 ELSE 1
    BY <1>2, <1>3, <1>4 DEF Sending
  <2>2. ip \in IpLengths
    BY DEF Position
  <2>3. LC!Op.bytes \in Seq(Int)
    <3>1. LC!Mains[ip][at].bytes \in Seq(Int)
      BY <2>1, <2>2, ShortOps, Zenon
    <3> QED  BY <1>2, <3>1, Zenon
  <2>4. panel' = LC!Received(LC!Op.bytes)
    <3>1. LC!Bytes = LC!Op.bytes
      BY <1>4 DEF LC!Bytes
    <3>2. SubSeq(LC!Op.bytes, 0 + 1, 0 + left) = LC!Op.bytes
      BY <2>1, <2>3, ShortOpArrives, Zenon
    <3> QED  BY <1>1, <2>1, <3>1, <3>2, Zenon
  <2>5. Arrives(panel', panel, LC!Mains[ip][at])
    <3>1. dc = 0 <=> LC!Op.kind = "command"
      BY <2>1
    <3>2. panel' = IF LC!Op.kind = "command" THEN LC!PanelCommands(panel, LC!Op.bytes)
                   ELSE LC!PanelData(panel, LC!Op.bytes)
      BY <1>3, <2>4, <3>1, Zenon DEF LC!Received
    <3> QED  BY <1>2, <3>2, Zenon DEF Arrives
  <2>6. panel' \in PanelStates /\ SetUpTo(panel', at')
    <3>1. panel' \in PanelStates /\ SetUpTo(panel', at + 1)
      BY <1>3, <2>1, <2>2, <2>5, SetUpGoes, Zenon
    <3> QED  BY <1>2, <3>1, Zenon
  <2>7. at' > 44 => panel'.at = 0 /\ panel'.high = -1
    <3> HAVE at' > 44
    <3>1. at = 44
      BY <1>2, <2>1
    <3> QED  BY <1>3, <2>2, <2>5, <3>1, FrameBegins
  <2>8. at' \notin {47, LastOp + 1} /\ step' # "send" /\ step' \notin {"host", "pins", "reset", "dead"}
    BY <1>2, <2>1
  <2> QED  BY <1>1, <1>2, <1>3, <2>6, <2>7, <2>8 DEF Wired
<1>5. CASE LC!Op.kind = "frame"
  <2>1. /\ dc = 1 /\ sent \in Nat /\ left \in Nat /\ sent + left = 2 * (Width * Height) /\ ShownTo(sent) /\ at > 44
    BY <1>2, <1>3, <1>5 DEF Sending
  <2>2. sent + left <= 2 * (Width * Height)
    BY <2>1, ScreenSize
  <2>3. PieceTaken(sent + left)
    BY <1>1, <1>2, <1>3, <1>5, <2>1, <2>2, PieceArrives, Zenon
  <2>4. PICK size \in Nat \ {0} : size = Width * Height /\ LC!Cells = 0..size - 1
    BY ScreenSize
  <2>5. (sent + left) \div 2 = size /\ (sent + left) % 2 = 0
    BY <2>1, <2>4
  <2>6. size % size = 0
    BY ONLY <2>4, SelfRemainder
  <2>7. panel'.at = 0 /\ panel'.high = -1
    BY <2>3, <2>4, <2>5, <2>6 DEF PieceTaken
  <2>8. \A pt \in LC!Screen : panel'.ram[pt] = picture[pt]
    <3> SUFFICES ASSUME NEW pt \in LC!Screen PROVE panel'.ram[pt] = picture[pt]
      OBVIOUS
    <3>1. LC!Cell(pt) \in 0..size - 1
      BY <2>4, ScreenAndCells
    <3>2. LC!Cell(pt) < size
      BY <3>1
    <3> QED  BY <2>3, <2>5, <3>2 DEF PieceTaken
  <2>9. panel'.ram = picture'
    <3>1. panel'.ram \in [LC!Screen -> Int] /\ picture \in [LC!Screen -> Colours]
      BY <2>3, PanelFields DEF PieceTaken, Drawn
    <3> QED  BY <1>1, <2>8, <3>1
  <2>10. SetUpTo(panel', at') /\ panel' \in PanelStates
    <3>1. at' \in Nat /\ at' > 44
      BY <1>2, <2>1
    <3> QED  BY <1>2, <1>3, <2>1, <2>3, <3>1, StaysSetUp DEF PieceTaken
  <2>11. step' # "send" /\ step' \notin {"host", "pins", "reset", "dead"}
    BY <1>2
  <2> QED  BY <1>1, <1>2, <1>3, <2>7, <2>9, <2>10, <2>11 DEF Wired
<1> QED  BY <1>4, <1>5

-----------------------------------------------------------------------------

\* So does the pin, which says whether a command or data comes.
LEMMA SetsPin ==
  ASSUME Position, Drawn, Wired, failures' = 0, LC!SetPin
  PROVE  Wired'
<1>0. failures = 0 /\ ~LC!Fail
  BY NoFailure DEF LC!SetPin
<1>1. /\ step = "pin" /\ step' = "send" /\ sent' = 0 /\ LC!Op.kind \in {"command", "data", "frame"}
      /\ left' = IF LC!Op.kind = "frame" THEN 2 * Width * Height ELSE Len(LC!Op.bytes)
      /\ UNCHANGED <<ip, frame, picture, pins, at, panel>>
  BY DEF LC!SetPin, LC!drawVars
<1>2. /\ at \in 1..LastOp /\ LastOp \in Nat /\ (at <= 44 <=> LC!Op.kind \in {"command", "data"}) /\ LastOp' = LastOp
  BY <1>1, AtOp, MainEnds DEF LastOp
<1>3. SetUpTo(panel, at) /\ panel \in PanelStates /\ {"dc", "cs"} \subseteq pins
      /\ (at > 44 => panel.at = 0 /\ panel.high = -1)
  BY <1>1 DEF Wired
<1>4. dc' = IF LC!Op.kind = "command" THEN 0 ELSE 1
  BY <1>0, <1>3 DEF LC!SetPin
<1>5. LC!Op' = LC!Op /\ LC!Bytes' = LC!Bytes
  <2>1. LC!Op' = LC!Op
    BY <1>1 DEF LC!Op, LC!Mains, LC!MainFor
  <2> QED  BY <1>1, <2>1 DEF LC!Bytes
<1>6. CASE LC!Op.kind # "frame"
  <2>1. left' = Len(LC!Op.bytes) /\ LC!Op'.kind # "frame"
    BY <1>1, <1>5, <1>6
  <2>2. Sending'
    BY <1>1, <1>4, <1>5, <1>6, <2>1, Zenon DEF Sending
  <2> QED  BY <1>1, <1>3, <2>2 DEF Wired
<1>7. CASE LC!Op.kind = "frame"
  <2>1. PICK size \in Nat \ {0} : size = Width * Height /\ LC!Cells = 0..size - 1
    BY ScreenSize
  <2>2. left' = 2 * size
    <3>1. Width \in Nat /\ Height \in Nat
      BY LcdNumbers
    <3> QED  BY <1>1, <1>7, <2>1, <3>1
  <2>3. left' \in Nat \ {0} /\ sent' \in Nat /\ sent' + left' = 2 * (Width * Height)
    BY <1>1, <2>1, <2>2
  <2>4. panel.at = 0 /\ panel.high = -1
    BY <1>2, <1>3, <1>7
  <2>5. \A pt \in LC!Screen : ~(LC!Cell(pt) < 0)
    <3> SUFFICES ASSUME NEW pt \in LC!Screen PROVE ~(LC!Cell(pt) < 0)
      OBVIOUS
    <3>1. LC!Cell(pt) \in 0..size - 1
      BY <2>1, ScreenAndCells
    <3> QED  BY <3>1
  <2>6. /\ panel'.at = sent' \div 2 /\ panel'.high = IF sent' % 2 = 1 THEN LC!Bytes[sent'] ELSE -1
        /\ \A pt \in LC!Screen : LC!Cell(pt) < sent' \div 2 => panel'.ram[pt] = picture[pt]
    <3>1. 0 \div 2 = 0 /\ 0 % 2 # 1
      OBVIOUS
    <3> QED  BY ONLY <1>1, <2>4, <2>5, <3>1, Zenon
  <2>7. ShownTo(sent)'
    BY <1>1, <1>5, <2>6, Zenon DEF ShownTo
  <2>8. Sending'
    BY <1>1, <1>4, <1>5, <1>7, <2>3, <2>7, Zenon DEF Sending
  <2> QED  BY <1>1, <1>3, <2>8 DEF Wired
<1> QED  BY <1>6, <1>7

\* So does drawing, which is never the last operation before a frame counts as sent.
LEMMA DrawingKeepsWired ==
  ASSUME Position, Wired, failures' = 0, step \in {"pin", "send"},
         LC!FillScreen \/ LC!PutString \/ LC!PutCircle
  PROVE  Wired'
<1>1. /\ step = "pin" /\ LC!NextOp /\ LC!Op.kind \in {"fill", "string", "circle"} /\ failures = 0
      /\ UNCHANGED <<ip, pins, panel>>
  BY DEF LC!FillScreen, LC!PutString, LC!PutCircle, LC!wires
<1>2. at' = at + 1 /\ at \in 1..LastOp /\ step' \in {"pin", "free"} /\ LastOp' = LastOp
  <2>1. Position /\ step \in {"pin", "send"} /\ LC!NextOp /\ ip' = ip /\ failures' \in Nat
    BY <1>1
  <2> QED  BY <2>1, NextOpMoves DEF LastOp
<1>3. at > 44 /\ at \notin {46, LastOp} /\ LastOp \in Nat
  <2>1. (at <= 44 <=> LC!Op.kind \in {"command", "data"}) /\ (at \in {46, LastOp} <=> LC!Op.kind = "frame")
    BY <1>1, AtOp
  <2>2. at \in Nat /\ LastOp \in Nat
    BY <1>2, MainEnds
  <2>3. LC!Op.kind \notin {"command", "data", "frame"}
    BY <1>1
  <2> QED  BY <2>1, <2>2, <2>3
<1>4. at' > 44 /\ at' \in Nat /\ at \in Nat /\ at' \notin {47, LastOp + 1} /\ step' # "send"
      /\ step' \notin {"host", "pins", "reset", "dead"}
  BY <1>2, <1>3
<1>5. SetUpTo(panel, at) /\ panel \in PanelStates /\ {"dc", "cs"} \subseteq pins
      /\ panel.at = 0 /\ panel.high = -1
  BY <1>1, <1>3 DEF Wired
<1>6. SetUpTo(panel', at')
  <2>1. SetUpTo(panel, at')
    BY <1>3, <1>4, <1>5, StaysSetUp
  <2> QED  BY <1>1, <2>1
<1> QED  BY <1>1, <1>2, <1>4, <1>5, <1>6 DEF Wired

\* So do the calls around main's operations.
LEMMA SettingUpKeepsWired ==
  ASSUME Position, Wired, failures' = 0,
         LC!FindHost \/ LC!InitPins \/ LC!ResetPanel \/ LC!OpenDevice \/ LC!FreePins
  PROVE  Wired'
<1> USE DEF LC!drawVars, LC!wires
<1>0. LastOp \in Nat /\ LastOp >= 49 /\ LastOp' = LastOp
  BY MainEnds DEF LastOp
<1>1. CASE LC!FindHost
  <2>1. /\ step = "host" /\ step' \in {"pins", "dead"} /\ at = 1
        /\ UNCHANGED <<ip, picture, pins, at, panel>>
    BY <1>1 DEF LC!FindHost, Position
  <2>2. 1 \notin {47, LastOp + 1} /\ ~(1 > 44)
    BY <1>0
  <2> QED  BY <1>0, <2>1, <2>2 DEF Wired
<1>2. CASE LC!InitPins
  <2>0. failures = 0 /\ ~LC!Fail
    BY <1>2, NoFailure DEF LC!InitPins
  <2>1. /\ step = "pins" /\ step' = "reset" /\ at = 1 /\ pins' = {"reset", "dc", "cs"}
        /\ UNCHANGED <<ip, picture, at, panel>>
    BY <1>2, <2>0 DEF LC!InitPins, Position
  <2>2. 1 \notin {47, LastOp + 1} /\ ~(1 > 44)
    BY <1>0
  <2> QED  BY <1>0, <2>1, <2>2 DEF Wired
<1>3. CASE LC!ResetPanel
  <2>0. failures = 0 /\ ~LC!Fail
    BY <1>3, NoFailure DEF LC!ResetPanel
  <2>1. /\ step = "reset" /\ step' = "open" /\ at = 1 /\ panel' = [panel EXCEPT !.reached = "cs" \in pins]
        /\ UNCHANGED <<ip, picture, at, pins>>
    BY <1>3, <2>0 DEF LC!ResetPanel, Position
  <2>2. panel \in PanelStates /\ {"dc", "cs"} \subseteq pins /\ panel.cmd = 0
    BY <2>1 DEF Wired
  <2>3. panel' = [panel EXCEPT !.reached = TRUE]
    <3>1. ("cs" \in pins) = TRUE
      BY <2>2
    <3> QED  BY <2>1, <3>1, Zenon
  <2>4. panel' \in PanelStates /\ panel'.reached /\ panel'.cmd = 0
    BY <2>2, <2>3 DEF PanelStates
  <2>5. SetUpTo(panel', 1)
    <3>1. 0 # LC!RAMWR /\ panel'.cmd = 0
      BY <2>4 DEF LC!RAMWR
    <3> QED  BY <2>4, <3>1 DEF SetUpTo, Held
  <2>6. 1 \notin {47, LastOp + 1} /\ ~(1 > 44)
    BY <1>0
  <2> QED  BY <1>0, <2>1, <2>2, <2>4, <2>5, <2>6 DEF Wired
<1>4. CASE LC!OpenDevice
  <2>0. failures = 0 /\ ~LC!Fail
    BY <1>4, NoFailure DEF LC!OpenDevice
  <2>1. /\ step = "open" /\ step' = "pin" /\ at = 1
        /\ UNCHANGED <<ip, picture, at, pins, panel>>
    BY <1>4, <2>0 DEF LC!OpenDevice, Position
  <2>2. 1 \notin {47, LastOp + 1} /\ ~(1 > 44)
    BY <1>0
  <2> QED  BY <1>0, <2>1, <2>2 DEF Wired
<1>5. CASE LC!FreePins
  <2>0. failures = 0 /\ ~LC!Fail
    BY <1>5, NoFailure DEF LC!FreePins
  <2>1. /\ step = "free" /\ step' = "done"
        /\ UNCHANGED <<ip, picture, at, panel>>
    BY <1>5 DEF LC!FreePins
  <2> QED  BY <1>0, <2>1 DEF Wired
<1> QED  BY <1>1, <1>2, <1>3, <1>4, <1>5

\* So does a step that changes nothing.
LEMMA WiredStays ==
  ASSUME Wired, UNCHANGED LC!vars
  PROVE  Wired'
<1>1. /\ UNCHANGED <<ip, frame, picture, dc, pins, at, step, sent, left, panel>>
  BY DEF LC!vars, LC!drawVars, LC!wires, LC!mainVars
<1>2. LC!Op' = LC!Op /\ LC!Bytes' = LC!Bytes /\ LastOp' = LastOp
  <2>1. LC!Op' = LC!Op
    BY <1>1 DEF LC!Op, LC!Mains, LC!MainFor
  <2> QED  BY <1>1, <2>1 DEF LC!Bytes, LastOp
<1>3. ShownTo(sent)' <=> ShownTo(sent)
  BY <1>1, <1>2 DEF ShownTo
<1>4. Sending' <=> Sending
  BY <1>1, <1>2, <1>3 DEF Sending
<1> QED  BY <1>1, <1>2, <1>4 DEF Wired

\* Every step keeps the invariant.
LEMMA ShowKept == ASSUME ShowInv, LC!Next PROVE ShowInv'
<1>1. Position' /\ Drawn' /\ Position /\ Drawn
  BY PositionKept, DrawnKept DEF ShowInv
<1>2. ASSUME failures' = 0 PROVE Wired'
  <2>1. failures = 0
    <3>1. failures \in Nat
      BY <1>1 DEF Position
    <3>2. failures' = failures \/ failures' = failures + 1
      BY DEF LC!Next, LC!FindHost, LC!InitPins, LC!ResetPanel, LC!OpenDevice, LC!FreePins, LC!SetPin,
             LC!SendPiece, LC!SendRest, LC!SpiWrite, LC!FillScreen, LC!PutString, LC!PutCircle,
             LC!Halted, LC!vars, LC!Fail, LC!Work
    <3> QED  BY <1>2, <3>1, <3>2
  <2>2. Wired
    BY <2>1 DEF ShowInv
  <2>3. CASE LC!FindHost \/ LC!InitPins \/ LC!ResetPanel \/ LC!OpenDevice \/ LC!FreePins
    BY <1>1, <1>2, <2>2, <2>3, SettingUpKeepsWired
  <2>4. CASE LC!SetPin
    BY <1>1, <1>2, <2>2, <2>4, SetsPin
  <2>5. CASE LC!SendPiece
    BY <1>1, <1>2, <2>2, <2>5, SendsPiece
  <2>6. CASE LC!SendRest
    BY <1>1, <1>2, <2>2, <2>6, SendsRest
  <2>7. CASE step \in {"pin", "send"} /\ (LC!FillScreen \/ LC!PutString \/ LC!PutCircle)
    BY <1>1, <1>2, <2>2, <2>7, DrawingKeepsWired
  <2>8. CASE LC!Halted
    BY <2>2, <2>8, WiredStays DEF LC!Halted
  <2> QED  BY <2>3, <2>4, <2>5, <2>6, <2>7, <2>8 DEF LC!Next
<1> QED  BY <1>1, <1>2 DEF ShowInv

\* It holds at the start.
LEMMA ShowBegins == ASSUME LC!Init PROVE ShowInv
<1>1. Position /\ Drawn
  BY LcdBegins
<1>2. LastOp \in Nat /\ LastOp >= 49
  BY <1>1, MainEnds
<1>3. step = "host" /\ at = 1 /\ panel = LC!Reset
  BY DEF LC!Init
<1>4. 1 \notin {47, LastOp + 1} /\ ~(1 > 44)
  BY <1>2
<1>5. Wired
  BY <1>3, <1>4, FreshPanel DEF Wired
<1> QED  BY <1>1, <1>5 DEF ShowInv

\* It says that the panel shows the picture.
LEMMA PanelShows == ASSUME ShowInv PROVE LC!PanelShowsPicture
<1> SUFFICES ASSUME failures = 0
             PROVE  /\ panel.cmd = LC!RAMWR => LC!Ready
                    /\ at > 1 /\ LC!Mains[ip][at - 1].kind = "frame" /\ step # "send" => panel.ram = picture
  BY DEF LC!PanelShowsPicture
<1>1. Position /\ Wired /\ LastOp \in Nat /\ LastOp >= 49 /\ at \in Nat
  BY MainEnds DEF ShowInv, Position
<1>2. ASSUME panel.cmd = LC!RAMWR PROVE LC!Ready
  <2>1. panel.cmd # 0
    BY <1>2 DEF LC!RAMWR
  <2>2. SetUpTo(panel, at) /\ panel \in PanelStates
    BY <1>1, <2>1 DEF Wired, Position
  <2>3. at > 44
    BY <1>1, <1>2, <2>2 DEF SetUpTo
  <2>4. Framed(panel) /\ panel.awake /\ panel.on /\ panel.regs[LC!COLMOD] = <<85>> /\ panel.regs[LC!MADCTL] = <<40>>
    BY <1>1, <2>2, <2>3, ReadyPanel
  <2> QED  BY <2>4 DEF Framed, LC!Ready
<1>3. ASSUME at > 1, LC!Mains[ip][at - 1].kind = "frame", step # "send" PROVE panel.ram = picture
  <2>1. PICK k \in 1..LastOp : k = at - 1
    <3>1. at - 1 \in 1..LastOp
      BY <1>1, <1>3 DEF Position
    <3> QED  BY <3>1
  <2>2. LastOp = 49 + Len(Circles) /\ KindTable(LC!Mains[ip], ip)
    BY <1>1, Kinds DEF LastOp, Position
  <2>3. /\ k <= 44 => LC!Mains[ip][k].kind \in {"command", "data"}
        /\ k = 45 => LC!Mains[ip][k].kind = "fill"
        /\ k \in 47..48 => LC!Mains[ip][k].kind = "string"
        /\ k > 48 /\ k < LastOp => LC!Mains[ip][k].kind = "circle"
    BY <2>1, <2>2 DEF KindTable
  <2>4. k <= 44 \/ k = 45 \/ k = 46 \/ k \in 47..48 \/ (k > 48 /\ k < LastOp) \/ k = LastOp
    BY <1>1, <2>1
  <2>5. LC!Mains[ip][k].kind = "frame"
    BY <1>3, <2>1
  <2>6. k \in {46, LastOp}
    BY <2>3, <2>4, <2>5
  <2>7. at \in {47, LastOp + 1}
    BY <1>1, <2>1, <2>6
  <2> QED  BY <1>1, <1>3, <2>7 DEF Wired
<1> QED  BY <1>2, <1>3

\* The step that changes nothing keeps the invariant.
LEMMA ShowStays == ASSUME ShowInv, UNCHANGED LC!vars PROVE ShowInv'
<1>1. UNCHANGED <<ip, frame, picture, stray, at, step, failures>>
  BY DEF LC!vars, LC!drawVars, LC!mainVars
<1>2. Position' /\ Drawn'
  BY <1>1 DEF ShowInv, Position, Drawn, LastOp
<1>3. (failures = 0 => Wired)'
  BY <1>1, WiredStays DEF ShowInv
<1> QED  BY <1>2, <1>3 DEF ShowInv

\* For any screen, size of the pieces, font, texts and circles: as long as no call failed, no
\* pixel is sent to a panel that is not ready, and once a frame is sent the panel shows what
\* was drawn, each point in its place and in its colour.
THEOREM PictureShown == LcdSpec => []PanelShowsPicture
<1>1. LC!Init => ShowInv
  BY ShowBegins
<1>2. ShowInv /\ [LC!Next]_(LC!vars) => ShowInv'
  BY ShowKept, ShowStays
<1>3. ShowInv => PanelShowsPicture
  BY PanelShows DEF PanelShowsPicture
<1> QED  BY <1>1, <1>2, <1>3, PTL DEF LcdSpec, LC!Spec

\* For any screen, font, texts and circles, whatever fails: nothing is drawn outside of
\* frame_buffer, and a rectangle of any place and size reaches the cells of its part on the
\* screen, all but those that are just one column or one row too large.
THEOREM DrawingInside == LcdSpec => []DrawsInside
<1>1. LC!Init => ShowInv
  BY ShowBegins
<1>2. ShowInv /\ [LC!Next]_(LC!vars) => ShowInv'
  BY ShowKept, ShowStays
<1>3. ShowInv => DrawsInside
  BY RectanglesInside DEF DrawsInside, ShowInv
<1> QED  BY <1>1, <1>2, <1>3, PTL DEF LcdSpec, LC!Spec

=============================================================================
