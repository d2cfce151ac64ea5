-------------------------- MODULE ThreadPoolProofs --------------------------
(***************************************************************************)
(* Proofs about ThreadPool for any number of workers, every set of block   *)
(* shapes, any number of blocks, any terminal with room for the workers'   *)
(* rows and the input row, with and without spurious wakeups.              *)
(***************************************************************************)
EXTENDS ThreadPool, FiniteSetTheorems, SequenceTheorems, TLAPS

\* The workers are finitely many rows of the terminal, above the input row.
LEMMA WorkerSet ==
  /\ IsFiniteSet(Workers) /\ Workers # {} /\ Nobody \notin Workers
  /\ \A w \in Workers : w \in Nat /\ w < InputRow /\ w + 1 < InputRow
  /\ InputRow \in 0..LastRow
<1>1. IsFiniteSet(Workers)
  BY WorkersAssumption, FS_Interval DEF Workers
<1>2. QED
  BY <1>1, WorkersAssumption, TerminalAssumption DEF Workers, InputRow

\* The number of signals is the number of threads, a natural number.
LEMMA SignalsAreNat == ShutdownSignals \in Nat /\ Cardinality(Workers) \in Nat
  BY FS_CardinalityType, WorkerSet DEF ShutdownSignals

\* What Append, Head and Tail do to the type and the elements of a sequence.
LEMMA AppendType ==
  ASSUME NEW S, NEW s \in Seq(S), NEW e \in S
  PROVE  /\ Append(s, e) \in Seq(S)
         /\ Len(Append(s, e)) = Len(s) + 1
         /\ Append(s, e)[Len(s) + 1] = e
         /\ \A k \in 1..Len(s) : Append(s, e)[k] = s[k]
  OBVIOUS

\* An element of a sequence has the type of the elements.
LEMMA ElementType ==
  ASSUME NEW S, NEW s \in Seq(S), NEW k \in 1..Len(s)
  PROVE  s[k] \in S
  OBVIOUS

\* What the head and the tail of a queue that is not empty are.
LEMMA QueueHeadTail ==
  ASSUME NEW s \in Seq(Nat), s # <<>>
  PROVE  /\ Head(s) \in Nat /\ Head(s) = s[1]
         /\ Tail(s) \in Seq(Nat)
         /\ Len(s) \in Nat \ {0} /\ Len(Tail(s)) = Len(s) - 1
         /\ \A k \in 1..Len(Tail(s)) : Tail(s)[k] = s[k + 1]
  OBVIOUS

\* A worker's loop counter may be stepped or reset.
LEMMA CounterType ==
  ASSUME NEW f \in [Workers -> Nat], NEW w \in Workers
  PROVE  /\ [f EXCEPT ![w] = @ + 1] \in [Workers -> Nat]
         /\ [f EXCEPT ![w] = 0] \in [Workers -> Nat]
  OBVIOUS

\* The places of the cursor: the rows of the workers, where it moves, and below them.
LEMMA PlaceTypes ==
  /\ At(0, 0) \in Place /\ At(InputRow, 0) \in Place
  /\ \A w \in Workers, x \in Nat : x < Columns => At(w, x) \in Place
BY WorkerSet, TerminalAssumption DEF At, Place

\* A character that is put keeps the screen a screen and the cursor on it.
LEMMA PutTypes ==
  ASSUME screen \in [Workers -> [0..Columns - 1 -> Nat]], cursor \in Place,
         NEW c \in Nat, Put(c)
  PROVE  screen' \in [Workers -> [0..Columns - 1 -> Nat]] /\ cursor' \in Place
<1>1. CASE cursor.y \notin Workers
  BY <1>1 DEF Put
<1>2. CASE cursor.y \in Workers
  <2>1. cursor.y \in Nat /\ cursor.y + 1 \in 0..LastRow /\ cursor.x \in 0..Columns - 1
    BY <1>2, WorkerSet, TerminalAssumption DEF Place
  <2>2. cursor' = Behind(cursor)
    BY <1>2 DEF Put
  <2>3. cursor' \in Place
    BY <2>1, <2>2, TerminalAssumption DEF Behind, At, Place
  <2>4. screen' = [screen EXCEPT ![cursor.y][cursor.x] = c]
    BY <1>2 DEF Put
  <2>5. QED
    BY <1>2, <2>1, <2>3, <2>4
<1>3. QED
  BY <1>1, <1>2

\* The variables have their types in every reachable state.
THEOREM TypeCorrect == Spec => []TypeOK
<1>1. Init => TypeOK
  <2> SUFFICES ASSUME Init PROVE TypeOK
    OBVIOUS
  <2>1. enabled \in BOOLEAN /\ crashed \in BOOLEAN
    BY DEF Init
  <2>2. /\ submitted \in Seq([len : Nat, num : Nat])
        /\ dataList \in Seq(Nat) /\ text \in [Workers -> Seq(Nat)]
    BY DEF Init
  <2>3. signals \in 0..Cardinality(Workers)
    BY SignalsAreNat DEF Init
  <2>4. /\ screen \in [Workers -> [0..Columns - 1 -> Nat]]
        /\ cursor \in Place /\ saved \in [Workers -> Place]
    BY PlaceTypes DEF Init, Space
  <2>5. QED
    BY <2>1, <2>2, <2>3, <2>4 DEF Init, TypeOK
<1>2. TypeOK /\ [Next]_vars => TypeOK'
  <2> SUFFICES ASSUME TypeOK, [Next]_vars PROVE TypeOK'
    OBVIOUS
  <2> USE DEF TypeOK, Goto, listVars, screenVars, stopVars
  <2>1. ASSUME NEW w \in Workers, RunnerLoop(w) PROVE TypeOK'
    BY <2>1 DEF RunnerLoop
  <2>2. ASSUME NEW w \in Workers, RunnerLock(w) PROVE TypeOK'
    <3>1. mutex' \in Workers \cup {Nobody}
      BY <2>2 DEF RunnerLock
    <3>2. pc' = [pc EXCEPT ![w] = "wait"] \/ pc' = [pc EXCEPT ![w] = "check"]
      BY <2>2 DEF RunnerLock
    <3>3. UNCHANGED <<mainPc, i, j, crashed, listVars, screenVars, stopVars>>
      BY <2>2 DEF RunnerLock
    <3>4. (crashed \in BOOLEAN /\ enabled \in BOOLEAN)'
      BY <3>3
    <3>5. pc' \in [Workers -> {"unborn", "loop", "lock", "wait", "relock", "check",
                              "print", "move", "write", "restore", "sleep", "exited"}]
      BY <3>2
    <3>6. QED
      BY <3>1, <3>3, <3>4, <3>5
  <2>3. ASSUME NEW w \in Workers, RunnerRelock(w) PROVE TypeOK'
    BY <2>3 DEF RunnerRelock
  <2>4. ASSUME NEW w \in Workers, RunnerTake(w) PROVE TypeOK'
    <3>1. CASE ~enabled
      BY <2>4, <3>1 DEF RunnerTake
    <3>2. CASE enabled /\ dataList # <<>>
      <4>1. Head(dataList) \in Nat /\ Tail(dataList) \in Seq(Nat)
        BY <3>2, QueueHeadTail
      <4>2. /\ pc' = [pc EXCEPT ![w] = "print"] /\ mutex' = Nobody
            /\ data' = [data EXCEPT ![w] = Head(dataList)]
            /\ dataList' = Tail(dataList)
            /\ i' = [i EXCEPT ![w] = 0] /\ j' = [j EXCEPT ![w] = 0]
            /\ UNCHANGED <<crashed, mainPc, submitted, freed, screenVars, stopVars>>
        BY <2>4, <3>2 DEF RunnerTake, RemoveFirst
      <4>3. QED
        BY <4>1, <4>2
    <3>3. CASE enabled /\ dataList = <<>>
      <4>1. crashed' \in BOOLEAN
        BY <2>4, <3>3 DEF RunnerTake
      <4>2. UNCHANGED <<pc, mainPc, mutex, i, j, listVars, screenVars, stopVars>>
        BY <2>4, <3>3 DEF RunnerTake
      <4>3. QED
        BY <4>1, <4>2
    <3>4. QED
      BY <3>1, <3>2, <3>3
  <2>5. ASSUME NEW w \in Workers, PutCharLock(w) PROVE TypeOK'
    BY <2>5 DEF PutCharLock
  <2>5a. ASSUME NEW w \in Workers, PutCharMove(w) PROVE TypeOK'
    <3>1. cursor' \in Place
      BY <2>5a, PlaceTypes DEF PutCharMove, RoomLeft
    <3>2. QED
      BY <2>5a, <3>1 DEF PutCharMove
  <2>6. ASSUME NEW w \in Workers, PutCharWrite(w) PROVE TypeOK'
    <3>1. PICK c \in Nat : /\ c = IF j[w] < Shape(w).len THEN data[w] ELSE Space
      BY DEF Space
    <3>2. text' \in [Workers -> Seq(Nat)]
      BY <2>6, <3>1, AppendType DEF PutCharWrite
    <3>3. screen' \in [Workers -> [0..Columns - 1 -> Nat]] /\ cursor' \in Place
      BY <2>6, <3>1, PutTypes DEF PutCharWrite
    <3>4. QED
      BY <2>6, <3>2, <3>3 DEF PutCharWrite
  <2>7. ASSUME NEW w \in Workers, PutCharUnlock(w) PROVE TypeOK'
    BY <2>7, PlaceTypes DEF PutCharUnlock
  <2>8. ASSUME NEW w \in Workers, RunnerSleep(w) PROVE TypeOK'
    <3>1. i' \in [Workers -> Nat] /\ j' \in [Workers -> Nat]
      <4>1. \/ i' = i /\ j' = j
            \/ i' = i /\ j' = [j EXCEPT ![w] = @ + 1]
            \/ i' = [i EXCEPT ![w] = @ + 1] /\ j' = [j EXCEPT ![w] = 0]
        BY <2>8, Zenon DEF RunnerSleep
      <4>2. /\ [i EXCEPT ![w] = @ + 1] \in [Workers -> Nat]
            /\ [j EXCEPT ![w] = @ + 1] \in [Workers -> Nat]
            /\ [j EXCEPT ![w] = 0] \in [Workers -> Nat]
        BY CounterType
      <4>3. QED
        BY <4>1, <4>2
    <3>2. pc' = [pc EXCEPT ![w] = "exited"] \/ pc' = [pc EXCEPT ![w] = "print"]
      BY <2>8 DEF RunnerSleep
    <3>3. UNCHANGED <<mainPc, mutex, crashed, listVars, screenVars, stopVars>>
      BY <2>8 DEF RunnerSleep
    <3>4. pc' \in [Workers -> {"unborn", "loop", "lock", "wait", "relock", "check",
                              "print", "move", "write", "restore", "sleep", "exited"}]
      BY <3>2
    <3>5. (crashed \in BOOLEAN /\ enabled \in BOOLEAN)'
      BY <3>3
    <3>6. QED
      BY <3>1, <3>3, <3>4, <3>5
  <2>9. ASSUME NEW w \in Workers, RunnerFree(w) PROVE TypeOK'
    BY <2>9 DEF RunnerFree
  <2>10. ASSUME NEW w \in Workers, SpuriousWakeup(w) PROVE TypeOK'
    BY <2>10 DEF SpuriousWakeup
  <2>11. ASSUME NEW w \in Workers, CreateThread(w) PROVE TypeOK'
    BY <2>11 DEF CreateThread
  <2>12. CASE InitNcurses
    BY <2>12 DEF InitNcurses
  <2>13. CASE Prompt
    <3>1. touched' \in BOOLEAN /\ astray' \in BOOLEAN
      BY <2>13, Zenon DEF Prompt
    <3>2. cursor' \in Place
      BY <2>13, PlaceTypes DEF Prompt
    <3>3. QED
      BY <2>13, <3>1, <3>2 DEF Prompt
  <2>13a. CASE Clear
    <3>1. touched' \in BOOLEAN
      BY <2>13a, Zenon DEF Clear
    <3>2. screen' \in [Workers -> [0..Columns - 1 -> Nat]]
      BY <2>13a DEF Clear, Space
    <3>3. QED
      BY <2>13a, <3>1, <3>2 DEF Clear
  <2>13b. CASE Echo
    <3>1. screen' \in [Workers -> [0..Columns - 1 -> Nat]] /\ cursor' \in Place
      <4>1. Typed \in Nat
        BY InputAssumption DEF Typed
      <4>2. QED
        BY <2>13b, <4>1, PutTypes DEF Echo
    <3>2. QED
      BY <2>13b, <3>1 DEF Echo
  <2>13c. CASE GetLine
    <3>1. touched' \in BOOLEAN
      BY <2>13c, Zenon DEF GetLine
    <3>2. cursor' \in Place
      <4>1. cursor.y \in 0..LastRow /\ LastRow \in Nat /\ 0 \in 0..Columns - 1
        BY TerminalAssumption DEF Place
      <4>2. (IF cursor.y < LastRow THEN cursor.y + 1 ELSE cursor.y) \in 0..LastRow
        BY <4>1
      <4>3. QED
        BY <2>13c, <4>1, <4>2 DEF GetLine, At, Place
    <3>3. QED
      BY <2>13c, <3>1, <3>2 DEF GetLine
  <2>14. CASE SignalAppended
    BY <2>14 DEF SignalAppended, WakeForBlock, WakeOne, Waiting
  <2>15. CASE SignalShutdown
    <3>1. signals' \in 0..Cardinality(Workers)
      BY <2>15, SignalsAreNat DEF SignalShutdown, ShutdownSignals
    <3>2. QED
      BY <2>15, <3>1 DEF SignalShutdown, WakeOne, Waiting
  <2>16. CASE JoinThreads
    BY <2>16 DEF JoinThreads, AllSignalled
  <2>17. CASE ShutdownNcurses
    BY <2>17 DEF ShutdownNcurses
  <2>18. CASE Disable
    BY <2>18 DEF Disable, Waiting
  <2>19. ASSUME NEW shape \in Shapes, AppendData(shape) PROVE TypeOK'
    <3>1. submitted' \in Seq([len : Nat, num : Nat])
      BY <2>19, AppendType, InputAssumption DEF AppendData
    <3>2. dataList' \in Seq(Nat)
      BY <2>19, AppendType DEF AppendData, Enqueue
    <3>3. QED
      BY <2>19, <3>1, <3>2 DEF AppendData
  <2>20. CASE UNCHANGED vars
    BY <2>20 DEF vars
  <2>21. QED
    BY <2>1, <2>2, <2>3, <2>4, <2>5, <2>5a, <2>6, <2>7, <2>8, <2>9, <2>10, <2>11,
       <2>12, <2>13, <2>13a, <2>13b, <2>13c, <2>14, <2>15, <2>16, <2>17, <2>18, <2>19, <2>20
       DEF Next, MainStep, UserLine, Runner, Stopped
<1>3. QED
  BY <1>1, <1>2, PTL DEF Spec

-----------------------------------------------------------------------------
(* Sleeping workers and the queue.  AwakeWorkersCoverQueue is inductive      *)
(* relative to TypeOK: only RunnerLock sends a worker to sleep, and it does  *)
(* so with an empty queue; only AppendData makes the queue longer, and       *)
(* SignalAppended then wakes a worker if one sleeps.                         *)

Awake == Workers \ Waiting

\* The count of awake workers is a natural number and grows with their set.
LEMMA AwakeCount ==
  /\ Cardinality(Awake) \in Nat
  /\ Cardinality(Awake') \in Nat
  /\ Waiting' \subseteq Waiting => Cardinality(Awake) <= Cardinality(Awake')
<1>1. IsFiniteSet(Awake) /\ IsFiniteSet(Awake')
  BY FS_Subset, WorkerSet DEF Awake
<1>2. Waiting' \subseteq Waiting => Awake \in SUBSET Awake'
  BY DEF Awake
<1>3. QED
  BY <1>1, <1>2, FS_CardinalityType, FS_Subset

\* What a step of one worker does to the set of sleeping workers.
LEMMA WaitingMoves ==
  ASSUME NEW w \in Workers, DOMAIN pc = Workers, NEW there,
         pc' = [pc EXCEPT ![w] = there]
  PROVE  Waiting' = IF there = "wait" THEN Waiting \cup {w} ELSE Waiting \ {w}
  BY DEF Waiting

\* A signal wakes a worker, if one sleeps.
LEMMA SignalWakes ==
  ASSUME TypeOK, WakeOne, Waiting # {}
  PROVE  Cardinality(Awake') = Cardinality(Awake) + 1 /\ Waiting' \subseteq Waiting
<1>1. PICK w \in Waiting : Goto(w, "wait", "relock")
  BY DEF WakeOne
<1>2. w \in Workers /\ Waiting' = Waiting \ {w}
  BY <1>1 DEF TypeOK, Goto, Waiting
<1>3. Awake' = Awake \cup {w} /\ w \notin Awake
  BY <1>1, <1>2 DEF Awake
<1>4. IsFiniteSet(Awake)
  BY FS_Subset, WorkerSet DEF Awake
<1>5. QED
  BY <1>2, <1>3, <1>4, FS_AddElement

\* A step that sends nobody to sleep and does not lengthen the queue keeps the cover.
LEMMA CoverKept ==
  ASSUME TypeOK, AwakeWorkersCoverQueue, Waiting' \subseteq Waiting,
         enabled' => enabled, Len(dataList)' \in Nat,
         Len(dataList)' <= Len(dataList),
         mainPc = "signal" => mainPc' = "signal"
  PROVE  AwakeWorkersCoverQueue'
<1>1. Len(dataList) \in Nat
  BY DEF TypeOK
<1>2. SUFFICES ASSUME enabled', Waiting' # {}
               PROVE  Len(dataList)' <= Cardinality(Awake')
                        + (IF mainPc' = "signal" THEN 1 ELSE 0)
  BY DEF AwakeWorkersCoverQueue, Awake
<1>3. Len(dataList) <= Cardinality(Awake) + (IF mainPc = "signal" THEN 1 ELSE 0)
  BY <1>2 DEF AwakeWorkersCoverQueue, Awake
<1>4. QED
  BY <1>1, <1>3, AwakeCount

\* In every reachable state the awake workers cover the queue while one sleeps.
THEOREM AwakeWorkersCover == Spec => []AwakeWorkersCoverQueue
<1>1. Init => AwakeWorkersCoverQueue
  BY DEF Init, AwakeWorkersCoverQueue, Waiting
<1>2. TypeOK /\ TypeOK' /\ AwakeWorkersCoverQueue /\ [Next]_vars
        => AwakeWorkersCoverQueue'
  <2> SUFFICES ASSUME TypeOK, TypeOK', AwakeWorkersCoverQueue, [Next]_vars
               PROVE  AwakeWorkersCoverQueue'
    OBVIOUS
  <2>0. /\ DOMAIN pc = Workers
        /\ dataList \in Seq(Nat) /\ dataList' \in Seq(Nat)
        /\ Len(dataList) \in Nat /\ Len(dataList)' \in Nat
    <3>1. DOMAIN pc = Workers /\ dataList \in Seq(Nat) /\ dataList' \in Seq(Nat)
      BY DEF TypeOK
    <3>2. QED
      BY <3>1
  <2>1. ASSUME Waiting' \subseteq Waiting, dataList' = dataList, enabled' => enabled,
               mainPc = "signal" => mainPc' = "signal"
        PROVE  AwakeWorkersCoverQueue'
    <3>1. Len(dataList)' <= Len(dataList)
      BY <2>0, <2>1
    <3>2. QED
      BY <2>0, <2>1, <3>1, CoverKept, Zenon
  <2>2. ASSUME NEW w \in Workers, NEW there, there # "wait",
               pc' = [pc EXCEPT ![w] = there] \/ pc' = pc
        PROVE  Waiting' \subseteq Waiting
    BY <2>0, <2>2, WaitingMoves DEF Waiting
  <2>3. ASSUME NEW w \in Workers, RunnerLock(w) PROVE AwakeWorkersCoverQueue'
    <3>1. CASE dataList = <<>>
      <4>1. Len(dataList)' = 0
        BY <2>3, <3>1 DEF RunnerLock, listVars
      <4>2. QED
        BY <4>1, AwakeCount DEF AwakeWorkersCoverQueue, Awake
    <3>2. CASE dataList # <<>>
      <4>1. /\ pc' = [pc EXCEPT ![w] = "check"]
            /\ UNCHANGED <<dataList, enabled, mainPc>>
        BY <2>3, <3>2 DEF RunnerLock, Goto, listVars, stopVars
      <4>2. QED
        BY <2>1, <2>2, <4>1
    <3>3. QED
      BY <3>1, <3>2
  <2>4. ASSUME NEW w \in Workers, RunnerTake(w) PROVE AwakeWorkersCoverQueue'
    <3>1. CASE dataList' = dataList
      <4>1. pc' = pc \/ pc' = [pc EXCEPT ![w] = "exited"]
                     \/ pc' = [pc EXCEPT ![w] = "print"]
        BY <2>4 DEF RunnerTake, Goto
      <4>2. UNCHANGED <<enabled, mainPc>>
        BY <2>4 DEF RunnerTake, stopVars
      <4>3. QED
        BY <2>1, <2>2, <3>1, <4>1, <4>2
    <3>2. CASE dataList' # dataList
      <4>1. /\ dataList # <<>> /\ dataList' = Tail(dataList)
            /\ pc' = [pc EXCEPT ![w] = "print"]
            /\ UNCHANGED <<enabled, mainPc>>
        BY <2>4, <3>2 DEF RunnerTake, RemoveFirst, Goto, stopVars
      <4>2. Len(dataList)' <= Len(dataList)
        BY <2>0, <4>1, QueueHeadTail
      <4>3. Waiting' \subseteq Waiting
        BY <2>2, <4>1
      <4>4. QED
        BY <2>0, <4>1, <4>2, <4>3, CoverKept, Zenon
    <3>3. QED
      BY <3>1, <3>2
  <2>5. ASSUME NEW w \in Workers, Runner(w) \/ SpuriousWakeup(w)
        PROVE  AwakeWorkersCoverQueue'
    <3>1. ASSUME ~RunnerLock(w), ~RunnerTake(w) PROVE AwakeWorkersCoverQueue'
      <4>1. UNCHANGED <<dataList, enabled, mainPc>>
        BY <2>5, <3>1
           DEF Runner, RunnerLoop, SpuriousWakeup, RunnerRelock, PutCharLock,
               PutCharMove, PutCharWrite, PutCharUnlock, RunnerSleep, RunnerFree, listVars, stopVars
      <4>2. PICK there : there # "wait" /\ pc' = [pc EXCEPT ![w] = there]
        BY <2>5, <3>1
           DEF Runner, RunnerLoop, SpuriousWakeup, RunnerRelock, PutCharLock,
               PutCharMove, PutCharWrite, PutCharUnlock, RunnerSleep, RunnerFree, Goto
      <4>3. QED
        BY <2>1, <2>2, <4>1, <4>2
    <3>2. QED
      BY <2>3, <2>4, <3>1
  <2>6. CASE SignalAppended
    <3>1. UNCHANGED <<dataList, enabled>> /\ mainPc = "signal"
      BY <2>6 DEF SignalAppended, listVars, stopVars
    <3>2. CASE Waiting = {}
      BY <2>6, <3>2 DEF SignalAppended, WakeForBlock, WakeOne, Waiting, AwakeWorkersCoverQueue
    <3>3. CASE Waiting # {}
      <4>1. Cardinality(Awake') = Cardinality(Awake) + 1 /\ Waiting' \subseteq Waiting
        BY <2>6, <3>3, SignalWakes DEF SignalAppended, WakeForBlock
      <4>2. enabled => Len(dataList) <= Cardinality(Awake) + 1
        BY <3>1, <3>3 DEF AwakeWorkersCoverQueue, Awake
      <4>3. QED
        BY <2>0, <3>1, <4>1, <4>2, AwakeCount DEF AwakeWorkersCoverQueue, Awake
    <3>4. QED
      BY <3>2, <3>3
  <2>7. CASE SignalShutdown
    <3>1. UNCHANGED <<dataList, enabled, mainPc>>
      BY <2>7 DEF SignalShutdown, listVars, stopVars
    <3>2. Waiting' \subseteq Waiting
      BY <2>7, SignalWakes DEF SignalShutdown, WakeOne, Waiting
    <3>3. QED
      BY <2>1, <3>1, <3>2
  <2>8. ASSUME NEW shape \in Shapes, AppendData(shape) PROVE AwakeWorkersCoverQueue'
    <3>1. /\ Len(dataList)' = Len(dataList) + 1 /\ mainPc = "parse" /\ mainPc' = "signal"
          /\ pc' = pc /\ enabled' = enabled
      <4>1. Len(submitted) + 1 \in Nat
        BY DEF TypeOK
      <4>2. QED
        BY <2>0, <2>8, <4>1, AppendType DEF AppendData, Enqueue, stopVars
    <3>2. Waiting' = Waiting /\ Awake' = Awake
      BY <3>1 DEF Waiting, Awake
    <3>3. enabled /\ Waiting # {} => Len(dataList) <= Cardinality(Awake)
      <4>1. SUFFICES ASSUME enabled, Waiting # {}
                     PROVE  Len(dataList) <= Cardinality(Awake)
        OBVIOUS
      <4>2. Len(dataList) <= Cardinality(Awake) + (IF mainPc = "signal" THEN 1 ELSE 0)
        BY <4>1, Zenon DEF AwakeWorkersCoverQueue, Awake
      <4>3. QED
        BY <3>1, <4>2, AwakeCount
    <3>4. enabled' /\ Waiting' # {} => Len(dataList)' <= Cardinality(Awake') + 1
      BY <2>0, <3>1, <3>2, <3>3, AwakeCount
    <3>5. QED
      BY <3>1, <3>4 DEF AwakeWorkersCoverQueue, Awake
  <2>9. CASE MainStep
    <3>1. ASSUME NEW w \in Workers, CreateThread(w) PROVE AwakeWorkersCoverQueue'
      <4>1. Waiting' \subseteq Waiting
        BY <2>2, <3>1 DEF CreateThread, Goto
      <4>2. UNCHANGED <<dataList, enabled>> /\ mainPc = "create"
        BY <3>1 DEF CreateThread, listVars, stopVars
      <4>3. QED
        BY <2>1, <4>1, <4>2
    <3>2. CASE InitNcurses \/ Prompt \/ Clear \/ JoinThreads \/ ShutdownNcurses
      <4>1. UNCHANGED <<pc, dataList, enabled>> /\ mainPc # "signal"
        BY <3>2 DEF InitNcurses, Prompt, Clear, JoinThreads, AllSignalled, ShutdownNcurses,
                    listVars, stopVars
      <4>2. QED
        BY <2>1, <4>1 DEF Waiting
    <3>3. CASE Disable
      BY <3>3, Zenon DEF Disable, AwakeWorkersCoverQueue
    <3>4. QED
      BY <2>6, <2>7, <2>8, <2>9, <3>1, <3>2, <3>3 DEF MainStep
  <2>10. CASE UserLine
    <3>1. UNCHANGED <<pc, dataList, enabled>> /\ mainPc # "signal"
      BY <2>10 DEF UserLine, Echo, GetLine, listVars, stopVars
    <3>2. QED
      BY <2>1, <3>1 DEF Waiting
  <2>11. CASE UNCHANGED vars
    BY <2>1, <2>11 DEF vars, listVars, stopVars, Waiting
  <2>12. QED
    BY <2>5, <2>9, <2>10, <2>11 DEF Next, Stopped
<1>3. QED
  BY <1>1, <1>2, TypeCorrect, PTL DEF Spec

-----------------------------------------------------------------------------
(* The signals of shutdown_threads.  Once `enabled' is cleared, a worker     *)
(* that leaves the wait can only go on to exit, and each signal sent while a *)
(* worker sleeps sends one there.  So as long as a worker that slept when    *)
(* the flag was cleared still sleeps, the signals sent are no more than the  *)
(* workers already gone; the last signal finds one worker too many.          *)

Stopping == mainPc \in {"stop", "endwin", "done"}
Gone == {w \in Workers : pc[w] \in {"relock", "check", "exited"}}

StopInv ==
  /\ enabled <=> ~Stopping
  /\ ~Stopping => signals = 0
  /\ Stopping => sleepers \subseteq Waiting \cup Gone
  /\ Stopping /\ sleepers \cap Waiting # {} => signals <= Cardinality(Gone)

\* The gone workers can be counted, and their count grows with their set.
LEMMA GoneCount ==
  /\ Cardinality(Gone) \in Nat /\ Cardinality(Gone') \in Nat
  /\ Gone \subseteq Gone' => Cardinality(Gone) <= Cardinality(Gone')
  /\ \A w \in Workers \ Gone : Cardinality(Gone) + 1 <= Cardinality(Workers)
  /\ \A w : Gone' = Gone \cup {w} /\ w \notin Gone
              => Cardinality(Gone') = Cardinality(Gone) + 1
<1>1. IsFiniteSet(Gone) /\ IsFiniteSet(Gone')
  BY FS_Subset, WorkerSet DEF Gone
<1>2. ASSUME NEW w \in Workers \ Gone
      PROVE  Cardinality(Gone) + 1 <= Cardinality(Workers)
  <2>1. Gone \in SUBSET (Workers \ {w})
    BY <1>2 DEF Gone
  <2>2. IsFiniteSet(Workers \ {w}) /\ Cardinality(Workers \ {w}) = Cardinality(Workers) - 1
    BY <1>2, FS_RemoveElement, WorkerSet
  <2>3. QED
    BY <1>1, <2>1, <2>2, FS_Subset, FS_CardinalityType, SignalsAreNat
<1>3. QED
  BY <1>1, <1>2, FS_CardinalityType, FS_Subset, FS_AddElement

\* A step after shutdown that wakes or ends workers and sends no signal keeps StopInv.
LEMMA StopKept ==
  ASSUME StopInv, Stopping, Stopping', enabled' = enabled,
         UNCHANGED <<signals, sleepers>>, signals \in Nat,
         Gone \subseteq Gone', Waiting \subseteq Waiting' \cup Gone',
         sleepers \cap Waiting' \subseteq Waiting
  PROVE  StopInv'
<1>1. (enabled <=> ~Stopping)'
  BY Zenon DEF StopInv
<1>2. (sleepers \subseteq Waiting \cup Gone)'
  BY DEF StopInv
<1>3. (sleepers \cap Waiting # {} => signals <= Cardinality(Gone))'
  BY GoneCount DEF StopInv
<1>4. QED
  BY <1>1, <1>2, <1>3 DEF StopInv

\* Before shutdown only the flag and the signal counter matter.
LEMMA RunKept ==
  ASSUME StopInv, ~Stopping, ~Stopping', UNCHANGED <<enabled, signals>>
  PROVE  StopInv'
  BY Zenon DEF StopInv

\* What the step of one worker does to the gone workers.
LEMMA GoneMoves ==
  ASSUME NEW w \in Workers, DOMAIN pc = Workers, NEW there,
         pc' = [pc EXCEPT ![w] = there]
  PROVE  Gone' = IF there \in {"relock", "check", "exited"}
                 THEN Gone \cup {w} ELSE Gone \ {w}
  BY DEF Gone

\* A worker's step keeps StopInv if, during shutdown, it leaves Gone never, the wait
\* only for Gone, and goes to sleep only from the test of the empty list.
LEMMA WorkerKeepsStopInv ==
  ASSUME StopInv, NEW w \in Workers, DOMAIN pc = Workers, signals \in Nat, NEW there,
         pc' = [pc EXCEPT ![w] = there],
         UNCHANGED <<mainPc, enabled, signals, sleepers>>,
         Stopping => \/ there \in {"relock", "check", "exited"}
                     \/ there = "wait" /\ pc[w] = "lock"
                     \/ there # "wait" /\ w \notin Waiting \cup Gone
  PROVE  StopInv'
<1>1. Stopping' <=> Stopping
  BY DEF Stopping
<1>2. CASE ~Stopping
  BY <1>1, <1>2, RunKept
<1>3. CASE Stopping
  <2>1. /\ Gone' = IF there \in {"relock", "check", "exited"}
                   THEN Gone \cup {w} ELSE Gone \ {w}
        /\ Waiting' = IF there = "wait" THEN Waiting \cup {w} ELSE Waiting \ {w}
    BY GoneMoves, WaitingMoves
  <2>2. pc[w] = "lock" => w \notin Waiting \cup Gone /\ w \notin sleepers
    BY <1>3 DEF StopInv, Waiting, Gone
  <2>3. /\ Gone \subseteq Gone' /\ Waiting \subseteq Waiting' \cup Gone'
        /\ sleepers \cap Waiting' \subseteq Waiting
    BY <1>3, <2>1, <2>2
  <2>4. QED
    BY <1>1, <1>3, <2>3, StopKept
<1>4. QED
  BY <1>2, <1>3

\* After the last signal of shutdown_threads every worker that slept when
\* `enabled' was cleared is awake.
THEOREM ShutdownWakes == Spec => []ShutdownWakesSleepers
<1>1. Init => StopInv
  BY DEF Init, StopInv, Stopping
<1>2. TypeOK /\ StopInv /\ [Next]_vars => StopInv'
  <2> SUFFICES ASSUME TypeOK, StopInv, [Next]_vars PROVE StopInv'
    OBVIOUS
  <2>0. DOMAIN pc = Workers /\ signals \in Nat
    BY SignalsAreNat DEF TypeOK
  <2>1. ASSUME UNCHANGED <<pc, mainPc, stopVars>> PROVE StopInv'
    BY <2>1 DEF StopInv, Stopping, Waiting, Gone, stopVars
  <2>2. ASSUME NEW w \in Workers, Runner(w) \/ SpuriousWakeup(w) PROVE StopInv'
    <3>1. CASE RunnerTake(w)
      <4>1. Stopping => ~enabled
        BY Zenon DEF StopInv
      <4>2. \/ UNCHANGED <<pc, mainPc, stopVars>>
            \/ /\ UNCHANGED <<mainPc, stopVars>>
               /\ \/ pc' = [pc EXCEPT ![w] = "exited"]
                  \/ pc' = [pc EXCEPT ![w] = "print"] /\ ~Stopping
        BY <3>1, <4>1 DEF RunnerTake, Goto
      <4>3. QED
        BY <2>0, <2>1, <4>2, WorkerKeepsStopInv DEF stopVars
    <3>2. CASE ~RunnerTake(w)
      <4>1. UNCHANGED <<mainPc, stopVars>>
        BY <2>2, <3>2
           DEF Runner, RunnerLoop, RunnerLock, SpuriousWakeup, RunnerRelock, PutCharLock,
               PutCharMove, PutCharWrite, PutCharUnlock, RunnerSleep, RunnerFree
      <4>2. Stopping => ~enabled
        BY Zenon DEF StopInv
      <4>3. PICK there :
              /\ pc' = [pc EXCEPT ![w] = there]
              /\ Stopping => \/ there \in {"relock", "check", "exited"}
                             \/ there = "wait" /\ pc[w] = "lock"
                             \/ /\ there \in {"move", "write", "restore", "sleep", "print", "loop"}
                                /\ pc[w] \in {"print", "move", "write", "restore", "sleep"}
        BY <2>2, <3>2, <4>2
           DEF Runner, RunnerLoop, RunnerLock, SpuriousWakeup, RunnerRelock, PutCharLock,
               PutCharMove, PutCharWrite, PutCharUnlock, RunnerSleep, RunnerFree, Goto
      <4>4. Stopping => \/ there \in {"relock", "check", "exited"}
                        \/ there = "wait" /\ pc[w] = "lock"
                        \/ there # "wait" /\ w \notin Waiting \cup Gone
        BY <4>3 DEF Waiting, Gone
      <4>5. QED
        BY <2>0, <4>1, <4>3, <4>4, WorkerKeepsStopInv DEF stopVars
    <3>3. QED
      BY <3>1, <3>2
  <2>3. ASSUME NEW w \in Workers, CreateThread(w) PROVE StopInv'
    <3>1. ~Stopping /\ ~Stopping' /\ UNCHANGED <<enabled, signals>>
      BY <2>3 DEF CreateThread, Stopping, stopVars
    <3>2. QED
      BY <3>1, RunKept
  <2>4. ASSUME \/ InitNcurses \/ Prompt \/ Clear \/ Echo \/ GetLine
               \/ SignalAppended \/ \E s \in Shapes : AppendData(s)
        PROVE  StopInv'
    <3>1. ~Stopping /\ ~Stopping' /\ UNCHANGED <<enabled, signals>>
      BY <2>4 DEF InitNcurses, Prompt, Clear, Echo, GetLine, SignalAppended, AppendData,
                  Stopping, stopVars
    <3>2. QED
      BY <3>1, RunKept
  <2>5. CASE Disable
    <3>1. signals = 0 /\ signals' = 0
      BY <2>5 DEF Disable, StopInv, Stopping
    <3>2. Stopping' /\ ~enabled'
      BY <2>5 DEF Disable, Stopping
    <3>3. sleepers' = Waiting'
      BY <2>5 DEF Disable, Waiting
    <3>4. signals' <= Cardinality(Gone')
      BY <3>1, GoneCount
    <3>5. QED
      BY <3>1, <3>2, <3>3, <3>4, Zenon DEF StopInv
  <2>6. CASE SignalShutdown
    <3>1. /\ Stopping /\ Stopping' /\ UNCHANGED <<enabled, sleepers>>
          /\ signals' = signals + 1 /\ WakeOne
      BY <2>6 DEF SignalShutdown, Stopping
    <3>2. (enabled <=> ~Stopping)'
      BY <3>1, Zenon DEF StopInv
    <3>3. CASE Waiting = {}
      <4>1. pc' = pc /\ Waiting' = {} /\ Gone' = Gone
        BY <3>1, <3>3 DEF WakeOne, Waiting, Gone
      <4>2. QED
        BY <3>1, <3>2, <3>3, <4>1 DEF StopInv
    <3>4. CASE Waiting # {}
      <4>1. PICK w \in Waiting : pc' = [pc EXCEPT ![w] = "relock"]
        BY <3>1, <3>4 DEF WakeOne, Goto
      <4>2. w \in Workers /\ w \notin Gone
        BY <4>1 DEF Waiting, Gone
      <4>3. Waiting' = Waiting \ {w} /\ Gone' = Gone \cup {w}
        BY <2>0, <4>1, <4>2, WaitingMoves, GoneMoves
      <4>4. Cardinality(Gone') = Cardinality(Gone) + 1
        BY <4>2, <4>3, GoneCount
      <4>5. (sleepers \subseteq Waiting \cup Gone)'
        BY <3>1, <4>3 DEF StopInv
      <4>6. sleepers' \cap Waiting' # {} => signals' <= Cardinality(Gone')
        BY <2>0, <3>1, <4>3, <4>4, GoneCount DEF StopInv
      <4>7. QED
        BY <3>1, <3>2, <4>5, <4>6 DEF StopInv
    <3>5. QED
      BY <3>3, <3>4
  <2>7. CASE JoinThreads \/ ShutdownNcurses
    <3>1. Stopping /\ Stopping' /\ UNCHANGED <<pc, stopVars>>
      BY <2>7 DEF JoinThreads, AllSignalled, ShutdownNcurses, Stopping, stopVars
    <3>2. Waiting' = Waiting /\ Gone' = Gone
      BY <3>1 DEF Waiting, Gone
    <3>3. QED
      BY <2>0, <3>1, <3>2, StopKept DEF stopVars
  <2>8. CASE UNCHANGED vars
    BY <2>1, <2>8 DEF vars
  <2>9. QED
    BY <2>2, <2>3, <2>4, <2>5, <2>6, <2>7, <2>8
       DEF Next, MainStep, UserLine, Stopped
<1>3. TypeOK /\ StopInv => ShutdownWakesSleepers
  <2> SUFFICES ASSUME TypeOK, StopInv, AllSignalled, sleepers \cap Waiting # {}
               PROVE  FALSE
    BY DEF ShutdownWakesSleepers
  <2>1. Cardinality(Workers) <= Cardinality(Gone)
    BY DEF StopInv, AllSignalled, Stopping, ShutdownSignals
  <2>2. PICK w \in Workers : w \notin Gone
    BY DEF Waiting, Gone
  <2>3. QED
    BY <2>1, <2>2, GoneCount, SignalsAreNat
<1>4. QED
  BY <1>1, <1>2, <1>3, TypeCorrect, PTL DEF Spec

-----------------------------------------------------------------------------
(* The queue implements Dispatcher.  The queue holds the last blocks that    *)
(* were typed, in order, so the block at its head is the one after those     *)
(* taken; a worker holds a block from the take to the free and at no other   *)
(* time, except when it left in the middle of a block.                       *)

Seeking == {"unborn", "loop", "lock", "wait", "relock", "check"}
Printing == {"print", "move", "write", "restore", "sleep"}

QueueInv ==
  /\ Len(dataList) <= Len(submitted)
  /\ \A k \in 1..Len(dataList) : dataList[k] = Taken + k
  /\ \A w \in Workers : pc[w] \in Seeking => data[w] = 0
  /\ \A w \in Workers : pc[w] \in Printing => data[w] \in 1..Taken
  /\ \A w \in Workers : data[w] <= Taken

\* The lengths of the two lists and the count of taken blocks are natural numbers.
LEMMA QueueCounts ==
  ASSUME TypeOK, QueueInv
  PROVE  /\ Len(dataList) \in Nat /\ Len(submitted) \in Nat /\ Taken \in Nat
         /\ dataList \in Seq(Nat)
         /\ Len(submitted) = Taken + Len(dataList)
<1>1. dataList \in Seq(Nat) /\ submitted \in Seq([len : Nat, num : Nat])
  BY DEF TypeOK
<1>2. Len(dataList) \in Nat /\ Len(submitted) \in Nat
  BY <1>1, LenProperties
<1>3. QED
  BY <1>1, <1>2 DEF QueueInv, Taken

\* Every step but the append, the take and the free of a block leaves the queue and the
\* blocks that the workers hold alone, and moves no worker between seeking and printing.
QueueStutter ==
  /\ UNCHANGED <<submitted, dataList, data, freed>>
  /\ \A w \in Workers : pc'[w] = pc[w] \/ pc'[w] = "exited"
                        \/ (pc[w] \in Seeking /\ pc'[w] \in Seeking)
                        \/ (pc[w] \in Printing /\ pc'[w] \in Printing)

\* The step of one worker that takes and frees no block is such a step.
LEMMA QueueMoves ==
  ASSUME TypeOK, NEW w \in Workers, NEW there,
         pc' = [pc EXCEPT ![w] = there],
         \/ there = "exited"
         \/ pc[w] \in Seeking /\ there \in Seeking
         \/ pc[w] \in Printing /\ there \in Printing,
         UNCHANGED listVars
  PROVE  QueueStutter
  BY DEF TypeOK, QueueStutter, listVars

\* Each step appends a block, takes one, frees one, or does nothing to the queue.
LEMMA QueueSteps ==
  ASSUME TypeOK, [Next]_vars
  PROVE  \/ QueueStutter
         \/ \E shape \in Shapes : AppendData(shape)
         \/ \E w \in Workers : \/ RunnerTake(w) /\ dataList # <<>> /\ pc' # pc
                                  /\ pc'[w] = "print"
                               \/ RunnerFree(w)
<1>1. ASSUME NEW w \in Workers, Runner(w) \/ SpuriousWakeup(w),
             ~RunnerFree(w), ~(RunnerTake(w) /\ dataList # <<>> /\ pc' # pc
                                  /\ pc'[w] = "print")
      PROVE  QueueStutter
  <2>1. CASE RunnerTake(w)
    <3>1. \/ pc' = [pc EXCEPT ![w] = "exited"] /\ UNCHANGED listVars
          \/ UNCHANGED <<pc, listVars>>
      BY <1>1, <2>1 DEF RunnerTake, Goto, listVars, TypeOK
    <3>2. QED
      BY <3>1, QueueMoves DEF QueueStutter, listVars
  <2>2. CASE ~RunnerTake(w)
    <3>1. UNCHANGED listVars
      BY <1>1, <2>2
         DEF Runner, RunnerLoop, RunnerLock, SpuriousWakeup, RunnerRelock, PutCharLock,
             PutCharMove, PutCharWrite, PutCharUnlock, RunnerSleep
    <3>2. PICK there :
            /\ pc' = [pc EXCEPT ![w] = there]
            /\ \/ there = "exited"
               \/ pc[w] \in Seeking /\ there \in Seeking
               \/ pc[w] \in Printing /\ there \in Printing
      BY <1>1, <2>2
         DEF Runner, RunnerLoop, RunnerLock, SpuriousWakeup, RunnerRelock, PutCharLock,
             PutCharMove, PutCharWrite, PutCharUnlock, RunnerSleep, Goto, Seeking, Printing
    <3>3. QED
      BY <3>1, <3>2, QueueMoves
  <2>3. QED
    BY <2>1, <2>2
<1>2. ASSUME MainStep \/ UserLine, ~\E shape \in Shapes : AppendData(shape)
      PROVE  QueueStutter
  <2>1. UNCHANGED listVars
    BY <1>2 DEF MainStep, CreateThread, InitNcurses, Prompt, Clear, SignalAppended,
                SignalShutdown, JoinThreads, ShutdownNcurses, Disable, UserLine,
                Echo, GetLine
  <2>2. pc' = pc \/ \E w \in Workers, there \in Seeking :
                      pc[w] \in Seeking /\ pc' = [pc EXCEPT ![w] = there]
    BY <1>2 DEF MainStep, CreateThread, InitNcurses, Prompt, Clear, SignalAppended,
                SignalShutdown, JoinThreads, ShutdownNcurses, Disable, WakeForBlock,
                WakeOne, Waiting, Goto, Seeking, UserLine, Echo, GetLine
  <2>3. QED
    BY <2>1, <2>2, QueueMoves DEF QueueStutter, listVars
<1>3. CASE UNCHANGED vars
  BY <1>3 DEF vars, listVars, QueueStutter
<1>4. QED
  BY <1>1, <1>2, <1>3 DEF Next, Stopped

\* A step that leaves the queue alone keeps its invariant.
LEMMA QueueStutterKeeps ==
  ASSUME TypeOK, QueueInv, QueueStutter PROVE QueueInv'
<1>1. Taken' = Taken
  BY DEF QueueStutter, Taken
<1>2. \A w \in Workers : /\ pc'[w] \in Seeking => pc[w] \in Seeking
                         /\ pc'[w] \in Printing => pc[w] \in Printing
  BY DEF QueueStutter, Seeking, Printing
<1>3. QED
  BY <1>1, <1>2 DEF QueueStutter, QueueInv

\* What the take of a block does, in terms of Dispatcher.
LEMMA TakeIsTake ==
  ASSUME TypeOK, QueueInv, NEW w \in Workers,
         RunnerTake(w), dataList # <<>>, pc' # pc, pc'[w] = "print"
  PROVE  /\ data[w] = 0 /\ Taken < Len(submitted)
         /\ Taken' = Taken + 1 /\ data' = [data EXCEPT ![w] = Taken + 1]
         /\ UNCHANGED <<submitted, freed>>
         /\ pc' = [pc EXCEPT ![w] = "print"]
         /\ dataList' = Tail(dataList)
<1>1. /\ dataList' = Tail(dataList) /\ data' = [data EXCEPT ![w] = Head(dataList)]
      /\ pc[w] = "check" /\ pc' = [pc EXCEPT ![w] = "print"]
      /\ UNCHANGED <<submitted, freed>>
  BY DEF RunnerTake, RemoveFirst, Goto, TypeOK
<1>2. /\ Len(dataList) \in Nat \ {0} /\ Len(Tail(dataList)) = Len(dataList) - 1
      /\ Head(dataList) = dataList[1]
  BY QueueCounts, QueueHeadTail
<1>3. dataList[1] = Taken + 1
  BY <1>2 DEF QueueInv
<1>4. Taken' = Taken + 1
  BY <1>1, <1>2, QueueCounts DEF Taken
<1>5. data[w] = 0
  BY <1>1 DEF QueueInv, Seeking
<1>6. Taken < Len(submitted)
  BY <1>2, QueueCounts
<1>7. QED
  BY <1>1, <1>2, <1>3, <1>4, <1>5, <1>6

\* The take of a block keeps the invariant of the queue.
LEMMA TakeKeeps ==
  ASSUME TypeOK, QueueInv, NEW w \in Workers,
         RunnerTake(w), dataList # <<>>, pc' # pc, pc'[w] = "print"
  PROVE  QueueInv'
<1>1. /\ Taken' = Taken + 1 /\ data' = [data EXCEPT ![w] = Taken + 1]
      /\ UNCHANGED submitted /\ pc' = [pc EXCEPT ![w] = "print"]
      /\ dataList' = Tail(dataList)
  BY TakeIsTake
<1>2. /\ Len(dataList)' = Len(dataList) - 1 /\ Len(dataList)' \in Nat
      /\ \A k \in 1..Len(dataList)' : dataList'[k] = dataList[k + 1]
  BY <1>1, QueueCounts, QueueHeadTail
<1>3. Taken \in Nat /\ Len(dataList) \in Nat /\ Len(submitted) \in Nat
  BY QueueCounts
<1>4. Len(dataList)' <= Len(submitted)'
  BY <1>1, <1>2, <1>3 DEF QueueInv
<1>5. \A k \in 1..Len(dataList)' : dataList'[k] = Taken' + k
  BY <1>1, <1>2, <1>3 DEF QueueInv
<1>6. ASSUME NEW v \in Workers
      PROVE  /\ pc'[v] \in Seeking => data'[v] = 0
             /\ pc'[v] \in Printing => data'[v] \in 1..Taken'
             /\ data'[v] <= Taken'
  <2>1. CASE v = w
    <3>1. pc'[w] = "print" /\ data'[w] = Taken + 1
      BY <1>1 DEF TypeOK
    <3>2. QED
      BY <1>1, <1>3, <2>1, <3>1 DEF Seeking
  <2>2. CASE v # w
    <3>1. pc'[v] = pc[v] /\ data'[v] = data[v] /\ data[v] \in Nat
      BY <1>1, <2>2 DEF TypeOK
    <3>2. QED
      BY <1>1, <1>3, <3>1 DEF QueueInv
  <2>3. QED
    BY <2>1, <2>2
<1>7. QED
  BY <1>4, <1>5, <1>6 DEF QueueInv

\* What the append of a block does, in terms of Dispatcher.
LEMMA AppendKeeps ==
  ASSUME TypeOK, QueueInv, NEW shape \in Shapes, AppendData(shape)
  PROVE  /\ QueueInv'
         /\ Len(submitted)' = Len(submitted) + 1 /\ Taken' = Taken
         /\ UNCHANGED <<pc, data, freed>>
<1>1. /\ submitted' = Append(submitted, shape)
      /\ dataList' = Append(dataList, Len(submitted) + 1)
      /\ UNCHANGED <<pc, data, freed>>
  BY DEF AppendData, Enqueue
<1>2. /\ submitted \in Seq([len : Nat, num : Nat]) /\ dataList \in Seq(Nat)
      /\ shape \in [len : Nat, num : Nat]
  BY InputAssumption DEF TypeOK
<1>3. /\ Taken \in Nat /\ Len(dataList) \in Nat /\ Len(submitted) \in Nat
      /\ Len(submitted) = Taken + Len(dataList)
  BY QueueCounts
<1>4. Len(submitted)' = Len(submitted) + 1
  BY <1>1, <1>2, AppendType
<1>5. /\ Len(dataList)' = Len(dataList) + 1
      /\ dataList'[Len(dataList) + 1] = Len(submitted) + 1
      /\ \A k \in 1..Len(dataList) : dataList'[k] = dataList[k]
  BY <1>1, <1>2, <1>3, AppendType
<1>6. Taken' = Taken
  BY <1>3, <1>4, <1>5 DEF Taken
<1>7. Len(dataList)' <= Len(submitted)'
  BY <1>3, <1>4, <1>5
<1>8. \A k \in 1..Len(dataList)' : dataList'[k] = Taken' + k
  BY <1>3, <1>5, <1>6 DEF QueueInv
<1>9. QED
  BY <1>1, <1>4, <1>6, <1>7, <1>8 DEF QueueInv

\* What the free of a block does, in terms of Dispatcher.
LEMMA FreeKeeps ==
  ASSUME TypeOK, QueueInv, NEW w \in Workers, RunnerFree(w)
  PROVE  /\ QueueInv' /\ data[w] \in 1..Taken
         /\ freed' = freed \cup {data[w]} /\ data' = [data EXCEPT ![w] = 0]
         /\ UNCHANGED <<submitted, dataList>> /\ Taken' = Taken
<1>1. /\ pc[w] = "print" /\ pc' = [pc EXCEPT ![w] = "loop"]
      /\ freed' = freed \cup {data[w]} /\ data' = [data EXCEPT ![w] = 0]
      /\ UNCHANGED <<submitted, dataList>> /\ Taken' = Taken
  BY DEF RunnerFree, Goto, Taken
<1>2. data[w] \in 1..Taken
  BY <1>1 DEF QueueInv, Printing
<1>3. ASSUME NEW v \in Workers
      PROVE  /\ pc'[v] \in Seeking => data'[v] = 0
             /\ pc'[v] \in Printing => data'[v] \in 1..Taken'
             /\ data'[v] <= Taken'
  <2>1. CASE v = w
    <3>1. pc'[w] = "loop" /\ data'[w] = 0
      BY <1>1 DEF TypeOK
    <3>2. QED
      BY <1>1, <2>1, <3>1, QueueCounts DEF Printing
  <2>2. CASE v # w
    <3>1. pc'[v] = pc[v] /\ data'[v] = data[v]
      BY <1>1, <2>2 DEF TypeOK
    <3>2. QED
      BY <1>1, <3>1 DEF QueueInv
  <2>3. QED
    BY <2>1, <2>2
<1>4. QED
  BY <1>1, <1>2, <1>3 DEF QueueInv

\* The invariant of the queue holds initially and every step keeps it.
LEMMA QueueInductive ==
  /\ Init => QueueInv
  /\ TypeOK /\ QueueInv /\ [Next]_vars => QueueInv'
<1>1. Init => QueueInv
  <2> SUFFICES ASSUME Init PROVE QueueInv
    OBVIOUS
  <2>1. Len(submitted) = 0 /\ Len(dataList) = 0 /\ Taken = 0
    BY DEF Init, Taken
  <2>2. QED
    BY <2>1 DEF Init, QueueInv, Printing
<1>2. TypeOK /\ QueueInv /\ [Next]_vars => QueueInv'
  BY QueueSteps, QueueStutterKeeps, TakeKeeps, AppendKeeps, FreeKeeps
<1>3. QED
  BY <1>1, <1>2

\* The pool implements Dispatcher: the blocks go to the workers in the order they were
\* typed, each to one worker, and a worker frees its block before it takes another.
THEOREM Dispatches == Spec => DispatchesInOrder
<1>1. Init => Queue!Init
  <2>1. Init => Len(submitted) = 0 /\ Taken = 0
    BY DEF Init, Taken
  <2>2. QED
    BY <2>1 DEF Init, Queue!Init
<1>2. TypeOK /\ QueueInv /\ [Next]_vars => [Queue!Next]_Queue!vars
  <2> SUFFICES ASSUME TypeOK, QueueInv, [Next]_vars
               PROVE  Queue!Next \/ UNCHANGED Queue!vars
    OBVIOUS
  <2>1. CASE QueueStutter
    BY <2>1 DEF QueueStutter, Taken, Queue!vars
  <2>2. ASSUME NEW shape \in Shapes, AppendData(shape) PROVE Queue!Submit
    BY <2>2, AppendKeeps DEF Queue!Submit
  <2>3. ASSUME NEW w \in Workers, RunnerTake(w), dataList # <<>>, pc' # pc,
               pc'[w] = "print"
        PROVE  Queue!Take(w)
    BY <2>3, TakeIsTake DEF Queue!Take
  <2>4. ASSUME NEW w \in Workers, RunnerFree(w) PROVE Queue!Finish(w)
    BY <2>4, FreeKeeps DEF Queue!Finish
  <2>5. QED
    BY <2>1, <2>2, <2>3, <2>4, QueueSteps DEF Queue!Next
<1>3. QED
  BY <1>1, <1>2, QueueInductive, TypeCorrect, PTL DEF Spec, DispatchesInOrder, Queue!Spec

-----------------------------------------------------------------------------
(* The cursor.  A worker holds print_lock exactly while it is inside         *)
(* put_char; it gets there only with a block, hence after main's first       *)
(* prompt.  What counts is the row where the cursor stands or, while a       *)
(* worker has moved it away, the row it goes back to: no step of a worker    *)
(* changes it, and main moves it to the input row or further down only.      *)

InPutChar == {"move", "write", "restore"}
Started == submitted # <<>> \/ mainPc \in Prompted

Home == IF printLock = Nobody THEN cursor.y ELSE saved[printLock].y

CursorInv ==
  /\ \A w \in Workers : pc[w] \in InPutChar <=> printLock = w
  /\ \A w \in Workers : pc[w] \in Printing => submitted # <<>>
  /\ dataList # <<>> => submitted # <<>>
  /\ submitted # <<>> => mainPc \notin {"create", "initscr"}
  /\ mainPc \notin {"create", "initscr", "done"} => window = "on"
  /\ mainPc \in {"endwin", "done"} => AllJoined
  /\ Started => Home >= InputRow
  /\ mainPc \in Reading /\ ~astray => Home = InputRow

\* A step outside put_char that starts no block and leaves main alone keeps CursorInv.
LEMMA OutsidePutChar ==
  ASSUME TypeOK, CursorInv, NEW w \in Workers, NEW there,
         pc' = [pc EXCEPT ![w] = there],
         there \notin InPutChar, pc[w] \notin InPutChar,
         there \in Printing => submitted # <<>>,
         pc[w] # "exited",
         dataList' # <<>> => dataList # <<>>,
         UNCHANGED <<submitted, mainPc, screenVars>>
  PROVE  CursorInv'
<1>1. /\ UNCHANGED <<submitted, mainPc, window, cursor, saved, printLock, astray>>
      /\ \A v \in Workers \ {w} : pc'[v] = pc[v]
      /\ pc'[w] = there
  BY DEF screenVars, TypeOK
<1>2. Started' = Started /\ Home' = Home
  BY <1>1 DEF Started, Home
<1>3. mainPc \notin {"endwin", "done"}
  BY DEF CursorInv, AllJoined
<1>4. (\A v \in Workers : pc[v] \in InPutChar <=> printLock = v)'
  BY <1>1 DEF CursorInv
<1>5. (\A v \in Workers : pc[v] \in Printing => submitted # <<>>)'
  BY <1>1 DEF CursorInv
<1>6. QED
  BY <1>1, <1>2, <1>3, <1>4, <1>5 DEF CursorInv

\* The four steps of put_char keep CursorInv.
LEMMA InsidePutChar ==
  ASSUME TypeOK, CursorInv, NEW w \in Workers,
         PutCharLock(w) \/ PutCharMove(w) \/ PutCharWrite(w) \/ PutCharUnlock(w)
  PROVE  CursorInv'
<1>0. /\ UNCHANGED <<submitted, dataList, mainPc, window, astray>>
      /\ Started' = Started
      /\ DOMAIN pc = Workers /\ DOMAIN saved = Workers
      /\ \A v \in Workers : v # Nobody
  BY WorkerSet DEF PutCharLock, PutCharMove, PutCharWrite, PutCharUnlock, listVars,
                   Started, TypeOK
<1>1. mainPc \notin {"endwin", "done"}
  BY DEF CursorInv, AllJoined, PutCharLock, PutCharMove, PutCharWrite, PutCharUnlock, Goto
<1>2. pc[w] \in Printing /\ submitted # <<>>
  BY DEF CursorInv, PutCharLock, PutCharMove, PutCharWrite, PutCharUnlock, Goto, Printing
<1>3. SUFFICES
        /\ \A v \in Workers : pc'[v] \in InPutChar <=> printLock' = v
        /\ Home' = Home
  <2>1. \A v \in Workers : pc'[v] \in Printing => pc[v] \in Printing
    BY DEF PutCharLock, PutCharMove, PutCharWrite, PutCharUnlock, Goto, Printing, TypeOK
  <2>2. QED
    BY <1>0, <1>1, <1>2, <2>1 DEF CursorInv
<1>4. CASE PutCharLock(w)
  <2>1. /\ printLock = Nobody /\ printLock' = w
        /\ pc' = [pc EXCEPT ![w] = "move"]
        /\ saved' = [saved EXCEPT ![w] = cursor]
    BY <1>4 DEF PutCharLock, PrintLockFree, Goto
  <2>2. Home' = Home
    BY <1>0, <2>1 DEF Home
  <2>3. QED
    BY <1>0, <2>1, <2>2 DEF CursorInv, InPutChar
<1>5. CASE PutCharMove(w) \/ PutCharWrite(w)
  <2>1. /\ \/ pc[w] = "move" /\ pc' = [pc EXCEPT ![w] = "write"]
           \/ pc[w] = "write" /\ pc' = [pc EXCEPT ![w] = "restore"]
        /\ UNCHANGED <<saved, printLock>>
    BY <1>5 DEF PutCharMove, PutCharWrite, Goto
  <2>2. printLock = w
    BY <2>1 DEF CursorInv, InPutChar
  <2>3. QED
    BY <1>0, <2>1, <2>2 DEF CursorInv, InPutChar, Home
<1>6. CASE PutCharUnlock(w)
  <2>1. /\ pc[w] = "restore" /\ pc' = [pc EXCEPT ![w] = "sleep"]
        /\ printLock' = Nobody /\ cursor' = saved[w]
    BY <1>6 DEF PutCharUnlock, Goto
  <2>2. printLock = w
    BY <2>1 DEF CursorInv, InPutChar
  <2>3. QED
    BY <1>0, <2>1, <2>2 DEF CursorInv, InPutChar, Home
<1>7. QED
  BY <1>4, <1>5, <1>6

\* A step of main keeps CursorInv.
LEMMA MainKeepsCursor ==
  ASSUME TypeOK, CursorInv, MainStep \/ UserLine PROVE CursorInv'
<1> USE DEF Prompted, Reading
<1>1. ASSUME NEW w \in Workers, CreateThread(w) PROVE CursorInv'
  <2>1. /\ pc[w] = "unborn" /\ pc' = [pc EXCEPT ![w] = "loop"]
        /\ mainPc = "create" /\ mainPc' \in {"create", "initscr"}
        /\ UNCHANGED <<submitted, dataList, window, cursor, saved, printLock, astray>>
    BY <1>1 DEF CreateThread, Goto, listVars, screenVars
  <2>2. \A v \in Workers : \/ pc'[v] = pc[v]
                           \/ /\ pc'[v] = "loop" /\ pc[v] = "unborn"
    BY <2>1 DEF TypeOK
  <2>3. QED
    BY <2>1, <2>2 DEF CursorInv, Started, Printing, InPutChar, Home
<1>2. CASE InitNcurses
  BY <1>2 DEF InitNcurses, CursorInv, Started, listVars, AllJoined, Home
<1>3. CASE Prompt
  <2>1. /\ mainPc = "prompt" /\ mainPc' = "clear" /\ cursor' = At(InputRow, 0)
        /\ UNCHANGED <<pc, submitted, dataList, window, saved, printLock>>
        /\ astray' <=> \E w \in Workers : printLock = w /\ saved[w].y # InputRow
    BY <1>3 DEF Prompt, listVars
  <2>2. printLock # Nobody => printLock \in Workers /\ submitted # <<>>
    BY DEF CursorInv, TypeOK, Printing, InPutChar
  <2>3. printLock # Nobody => Home' = Home /\ Home >= InputRow
    BY <2>1, <2>2 DEF CursorInv, Started, Home
  <2>4. printLock = Nobody => Home' = InputRow
    BY <2>1 DEF Home, At
  <2>5. Home' >= InputRow
    BY <2>3, <2>4, WorkerSet, TerminalAssumption
  <2>6. ~astray' => Home' = InputRow
    BY <2>1, <2>2, <2>4 DEF Home
  <2>7. QED
    BY <2>1, <2>5, <2>6 DEF CursorInv, Started
<1>4. CASE Clear
  BY <1>4 DEF Clear, CursorInv, Started, listVars, AllJoined, Home
<1>5. CASE Echo
  <2>1. /\ mainPc = "read" /\ cursor.y \in Workers
        /\ UNCHANGED <<pc, mainPc, submitted, dataList, window, saved, printLock, astray>>
    BY <1>5 DEF Echo, listVars
  <2>2. printLock # Nobody
    BY <2>1, WorkerSet DEF CursorInv, Started, Home
  <2>3. QED
    BY <2>1, <2>2 DEF CursorInv, Started, Home, AllJoined
<1>6. CASE GetLine
  <2>1. /\ mainPc = "read" /\ mainPc' = "parse"
        /\ UNCHANGED <<pc, submitted, dataList, window, saved, printLock, astray>>
        /\ cursor' = At(IF cursor.y < LastRow THEN cursor.y + 1 ELSE cursor.y, 0)
    BY <1>6 DEF GetLine, listVars
  <2>2. Home >= InputRow
    BY <2>1 DEF CursorInv, Started
  <2>3. cursor.y \in Nat /\ InputRow \in Nat /\ LastRow \in Nat
    BY WorkerSet, TerminalAssumption DEF TypeOK, Place
  <2>4. Home' >= InputRow
    BY <2>1, <2>2, <2>3 DEF Home, At
  <2>5. QED
    BY <2>1, <2>4 DEF CursorInv, Started
<1>7. CASE SignalAppended \/ SignalShutdown
  <2>1. /\ UNCHANGED <<submitted, dataList, window, cursor, saved, printLock, astray>>
        /\ \/ mainPc = "signal" /\ mainPc' = "prompt"
           \/ mainPc = "stop" /\ mainPc' = "stop"
        /\ WakeOne
    BY <1>7 DEF SignalAppended, SignalShutdown, WakeForBlock, listVars, screenVars
  <2>2. \A v \in Workers : pc'[v] = pc[v] \/ (pc[v] = "wait" /\ pc'[v] = "relock")
    BY <2>1 DEF WakeOne, Waiting, Goto, TypeOK
  <2>3. QED
    BY <2>1, <2>2 DEF CursorInv, Started, Printing, InPutChar, Home
<1>8. CASE JoinThreads
  BY <1>8 DEF JoinThreads, AllSignalled, AllJoined, CursorInv, Started, listVars,
              screenVars, Home
<1>9. CASE ShutdownNcurses
  BY <1>9 DEF ShutdownNcurses, AllJoined, CursorInv, Started, listVars, Home
<1>10. CASE Disable
  BY <1>10 DEF Disable, CursorInv, Started, listVars, screenVars, Home
<1>11. ASSUME NEW shape \in Shapes, AppendData(shape) PROVE CursorInv'
  <2>1. /\ mainPc = "parse" /\ mainPc' = "signal"
        /\ submitted' = Append(submitted, shape)
        /\ UNCHANGED <<pc, window, cursor, saved, printLock, astray>>
    BY <1>11 DEF AppendData, screenVars
  <2>2. submitted' # <<>>
    <3>1. submitted \in Seq([len : Nat, num : Nat]) /\ shape \in [len : Nat, num : Nat]
      BY InputAssumption DEF TypeOK
    <3>2. Len(submitted') = Len(submitted) + 1 /\ Len(submitted) \in Nat
      BY <2>1, <3>1, AppendType, LenProperties
    <3>3. QED
      BY <3>2
  <2>3. QED
    BY <2>1, <2>2 DEF CursorInv, Started, Home
<1>12. QED
  BY <1>1, <1>2, <1>3, <1>4, <1>5, <1>6, <1>7, <1>8, <1>9, <1>10, <1>11
     DEF MainStep, UserLine

\* CursorInv holds initially and every step keeps it.
LEMMA CursorInductive ==
  /\ Init => CursorInv
  /\ TypeOK /\ CursorInv /\ [Next]_vars => CursorInv'
<1>1. Init => CursorInv
  BY WorkerSet DEF Init, CursorInv, Started, Printing, AllJoined, InPutChar, Prompted, Reading
<1>2. TypeOK /\ CursorInv /\ [Next]_vars => CursorInv'
  <2> SUFFICES ASSUME TypeOK, CursorInv, [Next]_vars PROVE CursorInv'
    OBVIOUS
  <2>1. ASSUME NEW w \in Workers, RunnerTake(w) PROVE CursorInv'
    <3>1. CASE pc' = pc
      <4>1. /\ UNCHANGED <<submitted, mainPc, window, cursor, saved, printLock, astray>>
            /\ dataList' = dataList
        BY <2>1, <3>1 DEF RunnerTake, screenVars, Goto, TypeOK
      <4>2. QED
        BY <3>1, <4>1 DEF CursorInv, Started, AllJoined, Home
    <3>2. CASE pc' # pc
      <4>1. PICK there \in {"exited", "print"} :
              /\ pc[w] = "check" /\ pc' = [pc EXCEPT ![w] = there]
              /\ there = "print" => dataList # <<>>
              /\ dataList' # <<>> => dataList # <<>>
              /\ UNCHANGED <<submitted, mainPc, screenVars>>
        BY <2>1, <3>2 DEF RunnerTake, RemoveFirst, Goto
      <4>2. there = "print" => submitted # <<>>
        BY <4>1 DEF CursorInv
      <4>3. QED
        BY <4>1, <4>2, OutsidePutChar DEF Printing, InPutChar
    <3>3. QED
      BY <3>1, <3>2
  <2>2. ASSUME NEW w \in Workers,
               \/ RunnerLoop(w) \/ RunnerLock(w) \/ RunnerRelock(w)
               \/ RunnerSleep(w) \/ RunnerFree(w) \/ SpuriousWakeup(w)
        PROVE  CursorInv'
    <3>1. UNCHANGED <<submitted, dataList, mainPc, screenVars>>
      BY <2>2 DEF RunnerLoop, RunnerLock, RunnerRelock, RunnerSleep, RunnerFree,
                  SpuriousWakeup, listVars
    <3>2. PICK there : /\ pc' = [pc EXCEPT ![w] = there]
                       /\ there \notin InPutChar
                       /\ pc[w] \notin InPutChar /\ pc[w] # "exited"
                       /\ there \in Printing => pc[w] \in Printing
      BY <2>2 DEF RunnerLoop, RunnerLock, RunnerRelock, RunnerSleep, RunnerFree,
                  SpuriousWakeup, Goto, Printing, InPutChar
    <3>3. there \in Printing => submitted # <<>>
      BY <3>2 DEF CursorInv
    <3>4. QED
      BY <3>1, <3>2, <3>3, OutsidePutChar
  <2>3. CASE UNCHANGED vars
    BY <2>3 DEF vars, listVars, screenVars, CursorInv, Started, AllJoined, Home
  <2>4. QED
    BY <2>1, <2>2, <2>3, InsidePutChar, MainKeepsCursor DEF Next, Runner, Stopped
<1>3. QED
  BY <1>1, <1>2

\* put_char always finds the window open, no worker leaves the cursor on a worker's row,
\* and while main waits for a line with print_lock free the cursor is on the input row
\* unless a worker undid main's move.
THEOREM CursorReturns == Spec => []CursorReturnsToInput
<1>1. TypeOK /\ CursorInv => CursorReturnsToInput
  <2>1. ASSUME CursorInv, NEW w \in Workers, pc[w] \in {"move", "write", "restore"}
        PROVE  window = "on"
    BY <2>1 DEF CursorInv, Printing, AllJoined
  <2>2. QED
    BY <2>1 DEF CursorInv, CursorReturnsToInput, Started, Home
<1>2. QED
  BY <1>1, CursorInductive, TypeCorrect, PTL DEF Spec

-----------------------------------------------------------------------------
(* What the workers print.  A block has one holder and is in the text of     *)
(* that worker alone; the text has no block younger than the one held; and   *)
(* the loop counters say how many characters of it are printed already:      *)
(* i whole runs of len characters and j more, or j + 1 between the write and *)
(* the end of the sleep.                                                     *)

Numbers ==
  /\ freed \subseteq 1..Taken
  /\ \A w \in Workers : \A k \in DOMAIN text[w] : text[w][k] <= Taken

Owned ==
  /\ \A w, v \in Workers : w # v /\ data[w] # 0 => data[v] # data[w]
  /\ \A w \in Workers : data[w] \notin freed
  /\ \A w, v \in Workers : w # v /\ data[v] # 0 =>
       \A k \in DOMAIN text[w] : text[w][k] # data[v]

Sorted(w) ==
  /\ \A k, l \in DOMAIN text[w] : k < l /\ text[w][l] # Space => text[w][k] <= text[w][l]
  /\ data[w] # 0 => \A k \in DOMAIN text[w] : text[w][k] <= data[w]

FreedShown(b) ==
  \E w \in Workers : /\ Printed(b, w) = submitted[b].len * submitted[b].num
                     /\ \A v \in Workers \ {w} : Printed(b, v) = 0

\* The characters of the current run that are printed.
RunPrinted(w) ==
  IF pc[w] \in {"restore", "sleep"} /\ j[w] < Shape(w).len THEN j[w] + 1 ELSE j[w]

Progress(w) ==
  pc[w] \in Printing =>
    /\ j[w] <= Shape(w).len
    /\ pc[w] # "print" => i[w] # Shape(w).num
    /\ pc[w] = "print" /\ i[w] = Shape(w).num => j[w] = 0
    /\ Printed(data[w], w) = i[w] * Shape(w).len + RunPrinted(w)

Rows ==
  /\ Numbers /\ Owned
  /\ \A w \in Workers : Sorted(w)
  /\ \A b \in freed : FreedShown(b)

RowInv == Rows /\ \A w \in Workers : Progress(w)

Count(s, b) == Cardinality({k \in DOMAIN s : s[k] = b})

\* How often a character is in a text: never, if no place has it; and once more
\* after it was appended.
LEMMA CountAppend ==
  ASSUME NEW s \in Seq(Nat), NEW e \in Nat, NEW b
  PROVE  /\ Count(s, b) \in Nat
         /\ (\A k \in DOMAIN s : s[k] # b) => Count(s, b) = 0
         /\ Count(Append(s, e), b) = Count(s, b) + (IF e = b THEN 1 ELSE 0)
<1> DEFINE Set == {k \in DOMAIN s : s[k] = b}
           After == {k \in DOMAIN Append(s, e) : Append(s, e)[k] = b}
<1>1. Len(s) \in Nat /\ DOMAIN s = 1..Len(s) /\ DOMAIN Append(s, e) = 1..(Len(s) + 1)
  BY AppendType, LenProperties
<1>2. IsFiniteSet(Set)
  <2>1. IsFiniteSet(1..Len(s))
    BY <1>1, FS_Interval
  <2>2. Set \in SUBSET (1..Len(s))
    BY <1>1
  <2>3. QED
    BY <2>1, <2>2, FS_Subset, Zenon
<1>3. Cardinality(Set) \in Nat
  BY <1>2, FS_CardinalityType
<1>4. After = IF e = b THEN Set \cup {Len(s) + 1} ELSE Set
  BY <1>1, AppendType
<1>5. Len(s) + 1 \notin Set
  BY <1>1
<1>6. Cardinality(After) = Cardinality(Set) + (IF e = b THEN 1 ELSE 0)
  <2> HIDE DEF Set, After
  <2>1. CASE e = b
    BY <1>2, <1>4, <1>5, <2>1, FS_AddElement
  <2>2. CASE e # b
    BY <1>3, <1>4, <2>2
  <2>3. QED
    BY <2>1, <2>2
<1>7. (\A k \in DOMAIN s : s[k] # b) => Cardinality(Set) = 0
  <2>1. (\A k \in DOMAIN s : s[k] # b) => Set = {}
    OBVIOUS
  <2>2. QED
    BY <2>1, FS_EmptySet
<1>8. QED
  BY <1>3, <1>6, <1>7 DEF Count

\* A run more is as many characters more as a run has.
LEMMA OneRunMore ==
  \A a, l \in Nat : (a + 1) * l = a * l + l /\ a * l \in Nat /\ a * l = l * a
  OBVIOUS

\* The shape of a block is a pair of natural numbers.
LEMMA ShapeType ==
  ASSUME TypeOK, NEW b \in 1..Len(submitted)
  PROVE  submitted[b].len \in Nat /\ submitted[b].num \in Nat
<1>1. submitted \in Seq([len : Nat, num : Nat])
  BY DEF TypeOK
<1>2. submitted[b] \in [len : Nat, num : Nat]
  BY <1>1, ElementType, Zenon
<1>3. QED
  BY <1>2

\* Steps that leave texts, holders and freed blocks alone keep what was printed.
LEMMA RowsSame ==
  ASSUME TypeOK, QueueInv, Rows, UNCHANGED <<text, data, freed>>, Taken' = Taken,
         \A b \in 1..Taken : submitted'[b] = submitted[b]
  PROVE  Rows'
<1>1. Numbers' /\ Owned' /\ \A w \in Workers : Sorted(w)'
  BY DEF Rows, Numbers, Owned, Sorted
<1>2. ASSUME NEW b \in freed PROVE FreedShown(b)'
  <2>1. submitted'[b] = submitted[b] /\ FreedShown(b)
    BY <1>2 DEF Rows, Numbers
  <2>2. \A w : Printed(b, w)' = Printed(b, w)
    BY DEF Printed
  <2>3. QED
    BY <2>1, <2>2 DEF FreedShown
<1>3. QED
  BY <1>1, <1>2 DEF Rows

\* A worker's progress stays as it is when the step is not its own.
LEMMA ProgressSame ==
  ASSUME TypeOK, QueueInv, NEW v \in Workers, Progress(v), Taken' >= Taken,
         \A b \in 1..Taken : submitted'[b] = submitted[b],
         data'[v] = data[v], text'[v] = text[v], i'[v] = i[v], j'[v] = j[v],
         pc'[v] = pc[v]
  PROVE  Progress(v)'
<1>1. pc[v] \in Printing => data[v] \in 1..Taken
  BY DEF QueueInv
<1>2. pc[v] \in Printing => Shape(v)' = Shape(v)
  BY <1>1 DEF Shape
<1>3. Printed(data[v], v)' = Printed(data[v], v)
  BY DEF Printed
<1>4. QED
  BY <1>2, <1>3 DEF Progress, RunPrinted

\* put_char takes one character of the worker's own block, or the space after a run.
LEMMA WriteKeepsRows ==
  ASSUME TypeOK, QueueInv, RowInv, NEW w \in Workers, PutCharWrite(w)
  PROVE  RowInv'
<1>a. PICK b0 : b0 = data[w]
  OBVIOUS
<1>b. PICK e : e = IF j[w] < Shape(w).len THEN data[w] ELSE Space
  OBVIOUS
<1>1. /\ pc[w] = "write" /\ pc' = [pc EXCEPT ![w] = "restore"]
      /\ text' = [text EXCEPT ![w] = Append(text[w], e)]
      /\ UNCHANGED <<submitted, dataList, data, freed, i, j>>
  BY <1>b DEF PutCharWrite, Goto, listVars
<1>2. /\ b0 \in 1..Taken /\ Taken \in Nat /\ Taken' = Taken /\ e \in {0, b0}
      /\ e \in Nat
  BY <1>1, <1>a, <1>b, QueueCounts DEF QueueInv, Printing, Space, Taken
<1>3. /\ \A v \in Workers \ {w} : text'[v] = text[v] /\ pc'[v] = pc[v]
      /\ text'[w] = Append(text[w], e) /\ pc'[w] = "restore"
      /\ text[w] \in Seq(Nat)
  BY <1>1 DEF TypeOK
<1>4. /\ DOMAIN text[w] = 1..Len(text[w]) /\ Len(text[w]) \in Nat
      /\ DOMAIN text'[w] = 1..(Len(text[w]) + 1)
      /\ text'[w][Len(text[w]) + 1] = e
      /\ \A k \in DOMAIN text[w] : text'[w][k] = text[w][k] /\ text[w][k] \in Nat
  BY <1>2, <1>3, AppendType, ElementType, LenProperties
<1>5. Numbers'
  <2>1. ASSUME NEW v \in Workers, NEW k \in DOMAIN text'[v] PROVE text'[v][k] <= Taken
    <3>1. CASE v = w
      BY <1>2, <1>4, <2>1, <3>1 DEF RowInv, Rows, Numbers
    <3>2. CASE v # w
      BY <1>3, <2>1, <3>2 DEF RowInv, Rows, Numbers
    <3>3. QED
      BY <3>1, <3>2
  <2>2. QED
    BY <1>1, <1>2, <2>1 DEF RowInv, Rows, Numbers
<1>6. Owned'
  <2>1. ASSUME NEW u \in Workers, NEW v \in Workers, u # v, data[v] # 0,
               NEW k \in DOMAIN text'[u]
        PROVE  text'[u][k] # data[v]
    <3>1. CASE u = w
      <4>1. b0 # data[v] /\ \A l \in DOMAIN text[w] : text[w][l] # data[v]
        BY <1>a, <2>1, <3>1 DEF RowInv, Rows, Owned
      <4>2. QED
        BY <1>2, <1>4, <2>1, <3>1, <4>1
    <3>2. CASE u # w
      BY <1>3, <2>1, <3>2 DEF RowInv, Rows, Owned
    <3>3. QED
      BY <3>1, <3>2
  <2>2. QED
    BY <1>1, <2>1 DEF RowInv, Rows, Owned
<1>7. ASSUME NEW v \in Workers PROVE Sorted(v)'
  <2>1. CASE v # w
    BY <1>1, <1>3, <2>1 DEF RowInv, Rows, Sorted
  <2>2. CASE v = w
    <3>1. /\ \A k \in DOMAIN text[w] : text[w][k] <= b0
          /\ \A k, l \in DOMAIN text[w] : k < l /\ text[w][l] # Space => text[w][k] <= text[w][l]
      BY <1>2, <1>a DEF RowInv, Rows, Sorted
    <3>2. \A k \in DOMAIN text'[w] : text'[w][k] <= b0
      BY <1>2, <1>4, <3>1
    <3>3. ASSUME NEW k \in DOMAIN text'[w], NEW l \in DOMAIN text'[w], k < l,
                 text'[w][l] # Space
          PROVE  text'[w][k] <= text'[w][l]
      <4>1. k \in DOMAIN text[w]
        BY <1>4, <3>3
      <4>2. CASE l \in DOMAIN text[w]
        BY <1>4, <3>1, <3>3, <4>1, <4>2
      <4>3. CASE l = Len(text[w]) + 1
        BY <1>2, <1>4, <3>1, <3>3, <4>1, <4>3 DEF Space
      <4>4. QED
        BY <1>4, <4>2, <4>3
    <3>4. QED
      BY <1>1, <1>a, <2>2, <3>2, <3>3 DEF Sorted
  <2>3. QED
    BY <2>1, <2>2
<1>8. ASSUME NEW b PROVE /\ \A v \in Workers \ {w} : Printed(b, v)' = Printed(b, v)
                         /\ Printed(b, w)' = Printed(b, w) + (IF e = b THEN 1 ELSE 0)
                         /\ Printed(b, w) \in Nat
  <2>1. \A v \in Workers : Printed(b, v) = Count(text[v], b) /\ Printed(b, v)' = Count(text'[v], b)
    BY DEF Printed, Count
  <2>2. QED
    <3>1. \A v \in Workers \ {w} : Printed(b, v)' = Printed(b, v)
      BY <1>3, <2>1
    <3>2. QED
      <4>1. text[w] \in Seq(Nat) /\ e \in Nat
        BY <1>2, <1>3
      <4>2. /\ Count(text[w], b) \in Nat
            /\ Count(Append(text[w], e), b) = Count(text[w], b) + (IF e = b THEN 1 ELSE 0)
        BY <4>1, CountAppend
      <4>3. QED
        BY <1>3, <2>1, <3>1, <4>2
<1>9. ASSUME NEW b \in freed PROVE FreedShown(b)'
  <2>1. b # e
    BY <1>2, <1>9, <1>a, QueueCounts DEF RowInv, Rows, Numbers, Owned
  <2>2. \A v \in Workers : Printed(b, v)' = Printed(b, v)
    <3>1. Printed(b, w)' = Printed(b, w)
      BY <1>8, <2>1
    <3>2. QED
      BY <1>8, <3>1
  <2>3. QED
    BY <1>1, <2>2 DEF RowInv, Rows, FreedShown
<1>10. ASSUME NEW v \in Workers PROVE Progress(v)'
  <2>1. CASE v # w
    BY <1>1, <1>2, <1>3, <2>1, ProgressSame DEF RowInv
  <2>2. CASE v = w
    <3>1. /\ j[w] <= Shape(w).len /\ i[w] # Shape(w).num
          /\ Printed(b0, w) = i[w] * Shape(w).len + j[w]
      BY <1>1, <1>a DEF RowInv, Progress, RunPrinted, Printing
    <3>2. Shape(w)' = Shape(w) /\ pc'[w] = "restore"
      BY <1>1, <1>3 DEF Shape
    <3>3. j[w] \in Nat /\ i[w] \in Nat /\ Shape(w).len \in Nat /\ i[w] * Shape(w).len \in Nat
      <4>1. b0 \in 1..Len(submitted)
        BY <1>2, QueueCounts
      <4>2. QED
        BY <1>a, <4>1, ShapeType, OneRunMore DEF TypeOK, Shape
    <3>4. e = b0 <=> j[w] < Shape(w).len
      BY <1>2, <1>a, <1>b DEF Space
    <3>5. Printed(b0, w)' = i[w] * Shape(w).len + (IF j[w] < Shape(w).len THEN j[w] + 1 ELSE j[w])
      <4>1. Printed(b0, w)' = Printed(b0, w) + (IF e = b0 THEN 1 ELSE 0)
        BY <1>8
      <4>2. QED
        BY <3>1, <3>3, <3>4, <4>1
    <3>6. data'[w] = b0 /\ j'[w] = j[w] /\ i'[w] = i[w]
      BY <1>1, <1>a
    <3>7. Printed(data[w], w)' = Printed(b0, w)'
      BY <3>6 DEF Printed
    <3>8. QED
      BY <2>2, <3>1, <3>2, <3>5, <3>6, <3>7 DEF Progress, RunPrinted
  <2>3. QED
    BY <2>1, <2>2
<1>11. QED
  BY <1>1, <1>5, <1>6, <1>7, <1>9, <1>10 DEF RowInv, Rows

\* A worker takes a block that no text has yet.
LEMMA TakeKeepsRows ==
  ASSUME TypeOK, QueueInv, RowInv, NEW w \in Workers,
         RunnerTake(w), dataList # <<>>, pc' # pc, pc'[w] = "print"
  PROVE  RowInv'
<1>a. PICK new : new = Taken + 1
  OBVIOUS
<1>1. /\ data[w] = 0 /\ Taken < Len(submitted) /\ Taken \in Nat /\ Len(submitted) \in Nat
      /\ Taken' = new /\ data' = [data EXCEPT ![w] = new]
      /\ UNCHANGED <<submitted, freed, text>>
      /\ pc' = [pc EXCEPT ![w] = "print"]
      /\ i' = [i EXCEPT ![w] = 0] /\ j' = [j EXCEPT ![w] = 0]
  <2>1. pc[w] # "print"
    BY DEF TypeOK, RunnerTake, Goto
  <2>2. /\ i' = [i EXCEPT ![w] = 0] /\ j' = [j EXCEPT ![w] = 0]
        /\ UNCHANGED <<submitted, freed, text>>
    BY <2>1 DEF RunnerTake, screenVars, Goto, TypeOK
  <2>3. QED
    BY <1>a, <2>2, TakeIsTake, QueueCounts
<1>2. /\ data'[w] = new /\ pc'[w] = "print" /\ i'[w] = 0 /\ j'[w] = 0
      /\ \A v \in Workers \ {w} : /\ data'[v] = data[v] /\ pc'[v] = pc[v]
                                  /\ i'[v] = i[v] /\ j'[v] = j[v]
  BY <1>1 DEF TypeOK
<1>3. /\ \A v \in Workers : data[v] \in Nat /\ data[v] # new
      /\ \A v \in Workers : \A k \in DOMAIN text[v] : text[v][k] <= Taken
      /\ freed \subseteq 1..Taken
  <2>1. ASSUME NEW v \in Workers PROVE data[v] \in Nat /\ data[v] <= Taken
    BY DEF QueueInv, TypeOK
  <2>2. QED
    BY <1>1, <1>a, <2>1 DEF RowInv, Rows, Numbers
<1>4. \A v \in Workers : \A k \in DOMAIN text[v] : text[v][k] \in Nat
  <2>1. ASSUME NEW v \in Workers, NEW k \in DOMAIN text[v] PROVE text[v][k] \in Nat
    <3>1. text[v] \in Seq(Nat)
      BY DEF TypeOK
    <3>2. k \in 1..Len(text[v])
      BY <2>1, <3>1, LenProperties
    <3>3. QED
      BY <3>1, <3>2, ElementType, Zenon
  <2>2. QED
    BY <2>1
<1>5. Numbers'
  <2>1. \A v \in Workers : \A k \in DOMAIN text[v] : text[v][k] <= new
    BY <1>1, <1>3, <1>4, <1>a
  <2>2. freed \subseteq 1..new
    BY <1>1, <1>3, <1>a
  <2>3. QED
    BY <1>1, <2>1, <2>2 DEF Numbers
<1>6. Owned'
  <2>1. new \notin freed /\ \A v \in Workers : \A k \in DOMAIN text[v] : text[v][k] # new
    BY <1>1, <1>3, <1>a
  <2>2. QED
    BY <1>1, <1>2, <1>3, <2>1 DEF RowInv, Rows, Owned
<1>7. ASSUME NEW v \in Workers PROVE Sorted(v)'
  <2>1. \A k \in DOMAIN text[v] : text[v][k] <= new
    BY <1>1, <1>3, <1>4, <1>a
  <2>2. QED
    BY <1>1, <1>2, <2>1 DEF RowInv, Rows, Sorted
<1>8. ASSUME NEW b \in freed PROVE FreedShown(b)'
  <2>1. \A v : Printed(b, v)' = Printed(b, v)
    BY <1>1 DEF Printed
  <2>2. QED
    BY <1>1, <1>8, <2>1 DEF RowInv, Rows, FreedShown
<1>9. ASSUME NEW v \in Workers PROVE Progress(v)'
  <2>1. CASE v # w
    BY <1>1, <1>2, <1>a, <2>1, ProgressSame DEF RowInv
  <2>2. CASE v = w
    <3>1. new \in 1..Len(submitted)
      BY <1>1, <1>a
    <3>2. submitted[new].len \in Nat /\ Shape(w)' = submitted[new]
      BY <1>1, <1>2, <3>1, ShapeType DEF Shape
    <3>3. Printed(new, w) = 0
      <4>1. text[w] \in Seq(Nat) /\ \A k \in DOMAIN text[w] : text[w][k] # new
        BY <1>1, <1>3, <1>a DEF TypeOK
      <4>2. 0 \in Nat
        OBVIOUS
      <4>3. Count(text[w], new) = 0
        BY <4>1, <4>2, CountAppend, Zenon
      <4>4. QED
        BY <4>3 DEF Count, Printed
    <3>4. Printed(data[w], w)' = Printed(new, w)
      BY <1>1, <1>2 DEF Printed
    <3>5. 0 = 0 * submitted[new].len + 0
      BY <3>2
    <3>6. QED
      BY <1>2, <2>2, <3>2, <3>3, <3>4, <3>5 DEF Progress, RunPrinted
  <2>3. QED
    BY <2>1, <2>2
<1>10. QED
  BY <1>1, <1>5, <1>6, <1>7, <1>8, <1>9 DEF RowInv, Rows

\* A block is freed when the outer loop has run number times: it is printed whole.
LEMMA FreeKeepsRows ==
  ASSUME TypeOK, QueueInv, RowInv, NEW w \in Workers, RunnerFree(w)
  PROVE  RowInv'
<1>a. PICK b0 : b0 = data[w]
  OBVIOUS
<1>1. /\ pc[w] = "print" /\ pc' = [pc EXCEPT ![w] = "loop"]
      /\ i[w] = Shape(w).num
      /\ freed' = freed \cup {b0} /\ data' = [data EXCEPT ![w] = 0]
      /\ UNCHANGED <<submitted, text, i, j>> /\ Taken' = Taken
      /\ b0 \in 1..Taken /\ Taken \in Nat
  BY <1>a, FreeKeeps, QueueCounts DEF RunnerFree, Goto, BlockDone, screenVars
<1>2. /\ data'[w] = 0 /\ pc'[w] = "loop"
      /\ \A v \in Workers \ {w} : data'[v] = data[v] /\ pc'[v] = pc[v]
  BY <1>1 DEF TypeOK
<1>3. Numbers'
  BY <1>1 DEF RowInv, Rows, Numbers
<1>4. Owned'
  <2>1. 0 \notin freed'
    BY <1>1 DEF RowInv, Rows, Numbers
  <2>2. \A v \in Workers \ {w} : data[v] # b0
    BY <1>1, <1>a DEF RowInv, Rows, Owned
  <2>3. QED
    BY <1>1, <1>2, <2>1, <2>2 DEF RowInv, Rows, Owned
<1>5. ASSUME NEW v \in Workers PROVE Sorted(v)'
  BY <1>1, <1>2 DEF RowInv, Rows, Sorted
<1>6. \A b, v : Printed(b, v)' = Printed(b, v)
  BY <1>1 DEF Printed
<1>7. ASSUME NEW b \in freed' PROVE FreedShown(b)'
  <2>1. CASE b \in freed
    BY <1>1, <1>6, <2>1 DEF RowInv, Rows, FreedShown
  <2>2. CASE b = b0
    <3>1. j[w] = 0 /\ Printed(b0, w) = i[w] * Shape(w).len + j[w]
      BY <1>1, <1>a DEF RowInv, Progress, RunPrinted, Printing
    <3>2. Shape(w) = submitted[b0] /\ submitted[b0].len \in Nat /\ submitted[b0].num \in Nat
      <4>1. b0 \in 1..Len(submitted)
        BY <1>1, QueueCounts
      <4>2. QED
        BY <1>a, <4>1, ShapeType DEF Shape
    <3>3. Printed(b0, w) = submitted[b0].len * submitted[b0].num
      BY <1>1, <3>1, <3>2, OneRunMore
    <3>4. ASSUME NEW v \in Workers \ {w} PROVE Printed(b0, v) = 0
      <4>1. \A k \in DOMAIN text[v] : text[v][k] # b0
        BY <1>1, <1>a DEF RowInv, Rows, Owned
      <4>2. text[v] \in Seq(Nat) /\ 0 \in Nat
        BY DEF TypeOK
      <4>3. Count(text[v], b0) = 0
        BY <4>1, <4>2, CountAppend, Zenon
      <4>4. QED
        BY <4>3 DEF Count, Printed
    <3>5. QED
      BY <1>1, <1>6, <2>2, <3>3, <3>4 DEF FreedShown
  <2>3. QED
    BY <1>1, <1>7, <2>1, <2>2
<1>8. ASSUME NEW v \in Workers PROVE Progress(v)'
  <2>1. CASE v # w
    BY <1>1, <1>2, <2>1, ProgressSame DEF RowInv
  <2>2. CASE v = w
    BY <1>2, <2>2 DEF Progress, Printing
  <2>3. QED
    BY <2>1, <2>2
<1>9. QED
  BY <1>3, <1>4, <1>5, <1>7, <1>8 DEF RowInv, Rows

\* After the sleep the loops count the character, or the run.
LEMMA SleepKeepsRows ==
  ASSUME TypeOK, QueueInv, RowInv, NEW w \in Workers, RunnerSleep(w)
  PROVE  RowInv'
<1>a. PICK len : len = Shape(w).len
  OBVIOUS
<1>b. PICK num : num = Shape(w).num
  OBVIOUS
<1>1. /\ UNCHANGED <<submitted, text, data, freed>> /\ Taken' = Taken
      /\ pc[w] = "sleep"
  BY DEF RunnerSleep, Goto, listVars, screenVars, Taken
<1>2. Rows'
  BY <1>1, RowsSame DEF RowInv
<1>3. /\ j[w] <= len /\ i[w] # num
      /\ Printed(data[w], w) = i[w] * len + (IF j[w] < len THEN j[w] + 1 ELSE j[w])
  BY <1>1, <1>a, <1>b DEF RowInv, Progress, RunPrinted, Printing
<1>4. i[w] \in Nat /\ j[w] \in Nat /\ len \in Nat /\ num \in Nat
  <2>1. data[w] \in 1..Len(submitted)
    BY <1>1, QueueCounts DEF QueueInv, Printing
  <2>2. QED
    BY <1>a, <1>b, <2>1, ShapeType DEF Shape, TypeOK
<1>5. Shape(w)' = Shape(w) /\ Printed(data[w], w)' = Printed(data[w], w)
  BY <1>1 DEF Shape, Printed
<1>6. \/ pc'[w] = "exited"
      \/ pc'[w] = "print" /\ j[w] < len /\ j'[w] = j[w] + 1 /\ i'[w] = i[w]
      \/ pc'[w] = "print" /\ j[w] = len /\ j'[w] = 0 /\ i'[w] = i[w] + 1
  BY <1>a DEF RunnerSleep, Goto, TypeOK
<1>7. Progress(w)'
  <2>1. CASE pc'[w] = "exited"
    BY <2>1 DEF Progress, Printing
  <2>2. CASE pc'[w] = "print" /\ j[w] < len /\ j'[w] = j[w] + 1 /\ i'[w] = i[w]
    <3>1. /\ j'[w] <= len /\ i'[w] # num
          /\ Printed(data[w], w)' = i'[w] * len + j'[w]
      BY <1>3, <1>4, <1>5, <2>2
    <3>2. QED
      BY <1>5, <1>a, <1>b, <2>2, <3>1 DEF Progress, RunPrinted
  <2>3. CASE pc'[w] = "print" /\ j[w] = len /\ j'[w] = 0 /\ i'[w] = i[w] + 1
    <3>1. /\ j'[w] <= len
          /\ Printed(data[w], w)' = i'[w] * len + j'[w]
      BY <1>3, <1>4, <1>5, <2>3, OneRunMore
    <3>2. QED
      BY <1>5, <1>a, <1>b, <2>3, <3>1 DEF Progress, RunPrinted
  <2>4. QED
    BY <1>6, <2>1, <2>2, <2>3
<1>8. ASSUME NEW v \in Workers, v # w PROVE Progress(v)'
  <2>1. pc'[v] = pc[v] /\ i'[v] = i[v] /\ j'[v] = j[v]
    BY <1>8 DEF RunnerSleep, Goto, TypeOK
  <2>2. QED
    BY <1>1, <2>1, ProgressSame, QueueCounts DEF RowInv
<1>9. QED
  BY <1>2, <1>7, <1>8 DEF RowInv

\* A step that moves no block, text or counter keeps RowInv if each worker stays, stops
\* printing, enters put_char with runs left, or leaves put_char.
LEMMA StillKeepsRows ==
  ASSUME TypeOK, QueueInv, RowInv, UNCHANGED <<text, data, freed, i, j>>, Taken' = Taken,
         \A b \in 1..Taken : submitted'[b] = submitted[b],
         \A w \in Workers : \/ pc'[w] = pc[w] \/ pc'[w] \notin Printing
                            \/ pc[w] = "print" /\ pc'[w] = "move" /\ ~BlockDone(w)
                            \/ pc[w] = "move" /\ pc'[w] = "write"
                            \/ pc[w] = "restore" /\ pc'[w] = "sleep"
  PROVE  RowInv'
<1>1. Rows'
  BY RowsSame DEF RowInv
<1>2. ASSUME NEW w \in Workers PROVE Progress(w)'
  <2>1. CASE pc'[w] = pc[w]
    BY <2>1, ProgressSame, QueueCounts DEF RowInv
  <2>2. CASE pc'[w] \notin Printing
    BY <2>2 DEF Progress
  <2>3. CASE \/ pc[w] = "print" /\ pc'[w] = "move" /\ ~BlockDone(w)
             \/ pc[w] = "move" /\ pc'[w] = "write"
             \/ pc[w] = "restore" /\ pc'[w] = "sleep"
    <3>1. pc[w] \in Printing /\ data[w] \in 1..Taken
      BY <2>3 DEF Printing, QueueInv
    <3>2. Shape(w)' = Shape(w) /\ Printed(data[w], w)' = Printed(data[w], w)
      BY <3>1 DEF Shape, Printed
    <3>3. RunPrinted(w)' = RunPrinted(w)
      BY <2>3, <3>2 DEF RunPrinted
    <3>4. /\ j[w] <= Shape(w).len /\ i[w] # Shape(w).num
          /\ Printed(data[w], w) = i[w] * Shape(w).len + RunPrinted(w)
      BY <2>3, <3>1 DEF RowInv, Progress, BlockDone
    <3>5. pc'[w] # "print"
      BY <2>3
    <3>6. QED
      BY <3>2, <3>3, <3>4, <3>5 DEF Progress
  <2>4. QED
    BY <2>1, <2>2, <2>3
<1>3. QED
  BY <1>1, <1>2 DEF RowInv

\* The steps of main that append no block.
MainOther ==
  \/ \E w \in Workers : CreateThread(w)
  \/ InitNcurses \/ Prompt \/ Clear \/ Echo \/ GetLine
  \/ Disable \/ SignalAppended \/ SignalShutdown \/ JoinThreads \/ ShutdownNcurses

\* RowInv holds initially and every step keeps it.
LEMMA RowInductive ==
  /\ Init => RowInv
  /\ TypeOK /\ QueueInv /\ RowInv /\ [Next]_vars => RowInv'
<1>1. Init => RowInv
  <2> SUFFICES ASSUME Init PROVE RowInv
    OBVIOUS
  <2>1. \A w \in Workers : DOMAIN text[w] = {} /\ data[w] = 0 /\ pc[w] = "unborn"
    BY DEF Init
  <2>2. freed = {}
    BY DEF Init
  <2>3. QED
    BY <2>1, <2>2
       DEF RowInv, Rows, Numbers, Owned, Sorted, Progress, Printing
<1>2. TypeOK /\ QueueInv /\ RowInv /\ [Next]_vars => RowInv'
  <2> SUFFICES ASSUME TypeOK, QueueInv, RowInv, [Next]_vars PROVE RowInv'
    OBVIOUS
  <2>1. ASSUME QueueStutter, UNCHANGED <<text, i, j>>,
               \A w \in Workers : \/ pc'[w] = pc[w] \/ pc'[w] \notin Printing
                                  \/ pc[w] = "print" /\ pc'[w] = "move" /\ ~BlockDone(w)
                                  \/ pc[w] = "move" /\ pc'[w] = "write"
                                  \/ pc[w] = "restore" /\ pc'[w] = "sleep"
        PROVE  RowInv'
    <3>1. UNCHANGED <<submitted, data, freed>> /\ Taken' = Taken
      BY <2>1 DEF QueueStutter, Taken
    <3>2. QED
      BY <2>1, <3>1, StillKeepsRows
  <2>2. ASSUME QueueStutter,
               MainOther \/ UNCHANGED vars \/
               \E w \in Workers : \/ RunnerLoop(w) \/ RunnerLock(w) \/ RunnerRelock(w)
                                  \/ SpuriousWakeup(w) \/ RunnerTake(w)
                                  \/ PutCharLock(w) \/ PutCharMove(w) \/ PutCharUnlock(w),
               UNCHANGED <<text, i, j>>
        PROVE  RowInv'
    <3>1. CASE \E w \in Workers : \/ RunnerLoop(w) \/ RunnerLock(w) \/ RunnerRelock(w)
                                  \/ SpuriousWakeup(w) \/ RunnerTake(w)
                                  \/ PutCharLock(w) \/ PutCharMove(w) \/ PutCharUnlock(w)
      <4>1. PICK w \in Workers : \/ RunnerLoop(w) \/ RunnerLock(w) \/ RunnerRelock(w)
                                 \/ SpuriousWakeup(w) \/ RunnerTake(w)
                                 \/ PutCharLock(w) \/ PutCharMove(w) \/ PutCharUnlock(w)
        BY <3>1
      <4>2. /\ \A v \in Workers \ {w} : pc'[v] = pc[v]
            /\ \/ pc'[w] = pc[w] \/ pc'[w] \notin Printing
               \/ pc[w] = "check" /\ pc'[w] = "print"
               \/ pc[w] = "print" /\ pc'[w] = "move" /\ ~BlockDone(w)
               \/ pc[w] = "move" /\ pc'[w] = "write"
               \/ pc[w] = "restore" /\ pc'[w] = "sleep"
        BY <4>1 DEF RunnerLoop, RunnerLock, RunnerRelock, SpuriousWakeup, RunnerTake,
                    PutCharLock, PutCharMove, PutCharUnlock, Goto, Printing, TypeOK
      <4>3. ~(pc[w] = "check" /\ pc'[w] = "print")
        BY <2>2 DEF QueueStutter, Seeking, Printing
      <4>4. QED
        BY <2>1, <2>2, <4>2, <4>3
    <3>2. CASE MainOther \/ UNCHANGED vars
      <4>1. \A v \in Workers : pc'[v] = pc[v] \/ pc'[v] \in {"loop", "relock"}
        BY <3>2 DEF MainOther, CreateThread, InitNcurses, Prompt, Clear, Echo, GetLine,
                    SignalAppended, SignalShutdown, JoinThreads, ShutdownNcurses, Disable,
                    WakeForBlock, WakeOne, Waiting, Goto, vars, TypeOK
      <4>2. QED
        BY <2>1, <2>2, <4>1 DEF Printing
    <3>3. QED
      BY <2>2, <3>1, <3>2
  <2>3. ASSUME NEW shape \in Shapes, AppendData(shape) PROVE RowInv'
    <3>1. /\ UNCHANGED <<pc, text, i, j, data, freed>> /\ Taken' = Taken
          /\ submitted' = Append(submitted, shape)
      BY <2>3, AppendKeeps DEF AppendData, screenVars
    <3>2. /\ submitted \in Seq([len : Nat, num : Nat]) /\ shape \in [len : Nat, num : Nat]
      BY InputAssumption DEF TypeOK
    <3>3. \A b \in 1..Len(submitted) : submitted'[b] = submitted[b]
      BY <3>1, <3>2, AppendType
    <3>4. \A b \in 1..Taken : submitted'[b] = submitted[b]
      BY <3>3, QueueCounts
    <3>5. QED
      BY <3>1, <3>4, StillKeepsRows
  <2>4. ASSUME QueueStutter, ~(\E w \in Workers : PutCharWrite(w) \/ RunnerSleep(w)),
               ~(\E shape \in Shapes : AppendData(shape)),
               ~(\E w \in Workers : RunnerFree(w))
        PROVE  RowInv'
    <3>1. MainOther \/ UNCHANGED vars \/
               \E w \in Workers : \/ RunnerLoop(w) \/ RunnerLock(w) \/ RunnerRelock(w)
                                  \/ SpuriousWakeup(w) \/ RunnerTake(w)
                                  \/ PutCharLock(w) \/ PutCharMove(w) \/ PutCharUnlock(w)
      BY <2>4 DEF Next, Runner, MainStep, UserLine, MainOther, Stopped
    <3>2. UNCHANGED text
      BY <3>1 DEF MainOther, CreateThread, InitNcurses, Prompt, Clear, Echo, GetLine,
                  SignalAppended, SignalShutdown, JoinThreads, ShutdownNcurses, Disable, vars,
                  RunnerLoop, RunnerLock, RunnerRelock, SpuriousWakeup, RunnerTake,
                  PutCharLock, PutCharMove, PutCharUnlock, screenVars
    <3>3. CASE UNCHANGED <<i, j>>
      BY <2>2, <2>4, <3>1, <3>2, <3>3
    <3>4. CASE ~UNCHANGED <<i, j>>
      <4>1. PICK w \in Workers : /\ RunnerTake(w) /\ pc[w] = "check"
                                 /\ pc' = [pc EXCEPT ![w] = "print"]
        BY <3>1, <3>4
           DEF MainOther, CreateThread, InitNcurses, Prompt, Clear, Echo, GetLine,
               SignalAppended, SignalShutdown, JoinThreads, ShutdownNcurses, Disable, vars,
               RunnerLoop, RunnerLock, RunnerRelock, SpuriousWakeup, RunnerTake,
               PutCharLock, PutCharMove, PutCharUnlock, Goto
      <4>2. QED
        BY <2>4, <4>1 DEF QueueStutter, Seeking, Printing, TypeOK
    <3>5. QED
      BY <3>3, <3>4
  <2>5. QED
    BY <2>3, <2>4, QueueSteps, WriteKeepsRows, SleepKeepsRows, TakeKeepsRows, FreeKeepsRows
<1>3. QED
  BY <1>1, <1>2

-----------------------------------------------------------------------------
(* The screen.  A worker that is about to write has the cursor where its     *)
(* character belongs: the lock keeps the other workers off the cursor, and   *)
(* main is off it as long as nothing is touched.                             *)

Shows(w) == \A x \in 0..Columns - 1 :
              screen[w][x] = IF x < Len(text[w]) THEN text[w][x + 1] ELSE Space

ScreenInv ==
  ~touched => \A w \in Workers :
    /\ Shows(w)
    /\ pc[w] = "write" /\ RoomLeft(w) => cursor = At(w, Len(text[w]))

\* A step that writes nothing and brings nobody to a write keeps ScreenInv.
LEMMA ScreenSame ==
  ASSUME ScreenInv, UNCHANGED <<text, screen>>, touched' \/ ~touched,
         \A w \in Workers : pc'[w] = "write" => touched' \/ (cursor' = cursor /\ pc[w] = "write")
  PROVE  ScreenInv'
BY DEF ScreenInv, Shows, RoomLeft

\* The write of put_char puts the character at the end of what the row shows.
LEMMA WriteKeepsScreen ==
  ASSUME TypeOK, CursorInv, ScreenInv, NEW w \in Workers, PutCharWrite(w)
  PROVE  ScreenInv'
<1>a. PICK c : c = IF j[w] < Shape(w).len THEN data[w] ELSE Space
  OBVIOUS
<1>1. /\ pc[w] = "write" /\ pc' = [pc EXCEPT ![w] = "restore"]
      /\ text' = [text EXCEPT ![w] = Append(text[w], c)] /\ touched' = touched
      /\ IF RoomLeft(w) THEN Put(c) ELSE UNCHANGED <<screen, cursor>>
  BY <1>a DEF PutCharWrite, Goto
<1>2. c \in Nat /\ text[w] \in Seq(Nat) /\ Len(text[w]) \in Nat
      /\ Columns \in Nat /\ DOMAIN text = Workers
      /\ screen \in [Workers -> [0..Columns - 1 -> Nat]]
  <2>1. c \in Nat
    BY <1>a DEF TypeOK, Space
  <2>2. text \in [Workers -> Seq(Nat)] /\ screen \in [Workers -> [0..Columns - 1 -> Nat]]
    BY DEF TypeOK
  <2>3. text[w] \in Seq(Nat) /\ Len(text[w]) \in Nat
    BY <2>2, LenProperties
  <2>4. QED
    BY <2>1, <2>2, <2>3, TerminalAssumption
<1>3. SUFFICES ASSUME ~touched PROVE \A v \in Workers : Shows(v)' /\ pc'[v] # "write"
  BY <1>1 DEF ScreenInv
<1>4. ASSUME NEW v \in Workers PROVE pc'[v] # "write"
  BY <1>1 DEF CursorInv, InPutChar, TypeOK
<1>5. /\ Len(text'[w]) = Len(text[w]) + 1 /\ text'[w][Len(text[w]) + 1] = c
      /\ \A k \in 1..Len(text[w]) : text'[w][k] = text[w][k]
      /\ \A v \in Workers \ {w} : text'[v] = text[v]
  BY <1>1, <1>2, AppendType
<1>6. CASE ~RoomLeft(w)
  <2>1. Len(text[w]) >= Columns /\ screen' = screen
    BY <1>1, <1>2, <1>6 DEF RoomLeft
  <2>2. Shows(w)'
    <3>1. Shows(w)
      BY <1>3 DEF ScreenInv
    <3>2. QED
      BY <1>2, <1>5, <2>1, <3>1 DEF Shows
  <2>3. \A v \in Workers \ {w} : Shows(v)'
    BY <1>3, <1>5, <2>1 DEF ScreenInv, Shows
  <2>4. QED
    BY <1>4, <2>2, <2>3
<1>7. CASE RoomLeft(w)
  <2>1. cursor.y = w /\ cursor.x = Len(text[w]) /\ Len(text[w]) \in 0..Columns - 1
    BY <1>1, <1>2, <1>3, <1>7 DEF ScreenInv, RoomLeft, At
  <2>2. screen' = [screen EXCEPT ![w][Len(text[w])] = c]
    BY <1>1, <1>7, <2>1 DEF Put
  <2>3. /\ screen'[w][Len(text[w])] = c
        /\ \A x \in 0..Columns - 1 : x # Len(text[w]) => screen'[w][x] = screen[w][x]
        /\ \A v \in Workers \ {w} : screen'[v] = screen[v]
    BY <1>2, <2>1, <2>2
  <2>4. Shows(w)'
    <3>1. Shows(w)
      BY <1>3 DEF ScreenInv
    <3>2. ASSUME NEW x \in 0..Columns - 1
          PROVE  screen'[w][x] = IF x < Len(text'[w]) THEN text'[w][x + 1] ELSE Space
      <4>1. CASE x = Len(text[w])
        BY <1>2, <1>5, <2>3, <4>1
      <4>2. CASE x # Len(text[w])
        BY <1>2, <1>5, <2>3, <3>1, <3>2, <4>2 DEF Shows
      <4>3. QED
        BY <4>1, <4>2
    <3>3. QED
      BY <3>2 DEF Shows
  <2>5. \A v \in Workers \ {w} : Shows(v)'
    BY <1>3, <1>5, <2>3 DEF ScreenInv, Shows
  <2>6. QED
    BY <1>4, <2>4, <2>5
<1>8. QED
  BY <1>6, <1>7

\* The other steps of put_char: the move brings the cursor to where the text ends, and
\* nobody else is about to write while a worker takes or has print_lock.
LEMMA PutCharKeepsScreen ==
  ASSUME TypeOK, CursorInv, ScreenInv, NEW w \in Workers,
         PutCharLock(w) \/ PutCharMove(w) \/ PutCharUnlock(w)
  PROVE  ScreenInv'
<1>1. DOMAIN pc = Workers /\ UNCHANGED <<text, screen, touched>> /\ \A v \in Workers : v # Nobody
  BY WorkerSet DEF TypeOK, PutCharLock, PutCharMove, PutCharUnlock
<1>2. CASE PutCharLock(w)
  <2>1. cursor' = cursor /\ pc' = [pc EXCEPT ![w] = "move"]
    BY <1>2 DEF PutCharLock, Goto
  <2>2. QED
    BY <1>1, <2>1, ScreenSame
<1>3. CASE PutCharMove(w)
  <2>1. /\ pc[w] = "move" /\ pc' = [pc EXCEPT ![w] = "write"]
        /\ RoomLeft(w) => cursor' = At(w, Len(text[w]))
    BY <1>3 DEF PutCharMove, Goto
  <2>2. \A v \in Workers \ {w} : pc'[v] # "write"
    BY <1>1, <2>1 DEF CursorInv, InPutChar
  <2>3. QED
    BY <1>1, <2>1, <2>2 DEF ScreenInv, Shows, RoomLeft
<1>4. CASE PutCharUnlock(w)
  <2>1. pc[w] = "restore" /\ pc' = [pc EXCEPT ![w] = "sleep"]
    BY <1>4 DEF PutCharUnlock, Goto
  <2>2. \A v \in Workers : pc'[v] # "write"
    BY <1>1, <2>1 DEF CursorInv, InPutChar
  <2>3. QED
    BY <1>1, <2>2, ScreenSame
<1>5. QED
  BY <1>2, <1>3, <1>4

\* The steps of main with which it moves the cursor, clears or echoes.
LEMMA MainKeepsScreen ==
  ASSUME TypeOK, ScreenInv, Prompt \/ Clear \/ Echo \/ GetLine
  PROVE  ScreenInv'
<1>1. CASE Prompt \/ GetLine
  <2>1. UNCHANGED <<pc, text, screen>>
    BY <1>1 DEF Prompt, GetLine
  <2>2. touched' \/ ~(touched \/ MidPrint)
    BY <1>1, Zenon DEF Prompt, GetLine
  <2>2a. /\ touched' \/ ~touched
         /\ \A w \in Workers : pc'[w] = "write" => touched'
    BY <2>1, <2>2 DEF MidPrint
  <2>3. QED
    BY <2>1, <2>2a, ScreenSame
<1>2. CASE Clear
  <2>1. /\ UNCHANGED <<pc, text, cursor>>
        /\ screen' = [w \in Workers |-> [x \in 0..Columns - 1 |->
                        IF cursor.y = w /\ x >= cursor.x THEN Space ELSE screen[w][x]]]
    BY <1>2 DEF Clear
  <2>2. cursor.y \notin Workers => screen' = screen
    <3>1. \A w \in Workers : screen[w] = [x \in 0..Columns - 1 |-> screen[w][x]]
      BY DEF TypeOK
    <3>2. screen = [w \in Workers |-> screen[w]]
      BY DEF TypeOK
    <3>3. QED
      BY <2>1, <3>1, <3>2
  <2>2a. touched' \/ (~touched /\ cursor.y \notin Workers)
    BY <1>2, Zenon DEF Clear
  <2>3. CASE touched'
    BY <2>3 DEF ScreenInv
  <2>4. CASE ~touched'
    BY <2>1, <2>2, <2>2a, <2>4, ScreenSame
  <2>5. QED
    BY <2>3, <2>4
<1>3. CASE Echo
  BY <1>3 DEF Echo, ScreenInv
<1>4. QED
  BY <1>1, <1>2, <1>3

\* ScreenInv holds initially and every step keeps it.
LEMMA ScreenInductive ==
  /\ Init => ScreenInv
  /\ TypeOK /\ CursorInv /\ ScreenInv /\ [Next]_vars => ScreenInv'
<1>1. Init => ScreenInv
  <2> SUFFICES ASSUME Init PROVE \A w \in Workers : Shows(w) /\ pc[w] # "write"
    BY DEF ScreenInv
  <2>1. \A w \in Workers : Len(text[w]) = 0
    BY DEF Init
  <2>2. QED
    BY <2>1 DEF Init, Shows
<1>2. TypeOK /\ CursorInv /\ ScreenInv /\ [Next]_vars => ScreenInv'
  <2> SUFFICES ASSUME TypeOK, CursorInv, ScreenInv, [Next]_vars PROVE ScreenInv'
    OBVIOUS
  <2>1. ASSUME UNCHANGED <<text, screen, cursor, touched>>,
               \A w \in Workers : pc'[w] = "write" => pc[w] = "write"
        PROVE  ScreenInv'
    BY <2>1, ScreenSame
  <2>2. ASSUME NEW w \in Workers,
               \/ RunnerLoop(w) \/ RunnerLock(w) \/ RunnerRelock(w) \/ RunnerTake(w)
               \/ RunnerSleep(w) \/ RunnerFree(w) \/ SpuriousWakeup(w)
        PROVE  ScreenInv'
    <3>1. UNCHANGED screenVars
      BY <2>2 DEF RunnerLoop, RunnerLock, RunnerRelock, RunnerTake, RunnerSleep,
                  RunnerFree, SpuriousWakeup
    <3>2. \A v \in Workers : pc'[v] = "write" => pc[v] = "write"
      BY <2>2 DEF RunnerLoop, RunnerLock, RunnerRelock, RunnerTake, RunnerSleep,
                  RunnerFree, SpuriousWakeup, Goto, TypeOK
    <3>3. QED
      BY <2>1, <3>1, <3>2 DEF screenVars
  <2>3. ASSUME \/ \E w \in Workers : CreateThread(w)
               \/ InitNcurses \/ Disable \/ \E shape \in Shapes : AppendData(shape)
               \/ SignalAppended \/ SignalShutdown \/ JoinThreads \/ ShutdownNcurses
        PROVE  ScreenInv'
    <3>1. UNCHANGED <<text, screen, cursor, touched>>
      BY <2>3 DEF CreateThread, InitNcurses, Disable, AppendData, SignalAppended,
                  SignalShutdown, JoinThreads, ShutdownNcurses, screenVars
    <3>2. \A v \in Workers : pc'[v] = "write" => pc[v] = "write"
      BY <2>3 DEF CreateThread, InitNcurses, Disable, AppendData, SignalAppended,
                  SignalShutdown, JoinThreads, ShutdownNcurses, WakeForBlock, WakeOne,
                  Waiting, Goto, TypeOK
    <3>3. QED
      BY <2>1, <3>1, <3>2
  <2>4. CASE UNCHANGED vars
    BY <2>1, <2>4 DEF vars, screenVars
  <2>5. QED
    BY <2>2, <2>3, <2>4, WriteKeepsScreen, PutCharKeepsScreen, MainKeepsScreen
       DEF Next, Runner, MainStep, UserLine, Stopped
<1>3. QED
  BY <1>1, <1>2

\* A block that was freed was printed whole by one worker and by no other, a worker
\* prints its blocks in the order they were typed, and the row of a worker shows what
\* it printed, up to the last column, unless main touched the cursor in between.
THEOREM RowsWhole == Spec => []RowsShowWholeBlocks
<1>1. RowInv /\ ScreenInv => RowsShowWholeBlocks
  BY DEF RowInv, Rows, Sorted, FreedShown, RowsShowWholeBlocks, ScreenInv, Shows
<1>2. QED
  BY <1>1, RowInductive, ScreenInductive, CursorInductive, QueueInductive, TypeCorrect,
     PTL DEF Spec

=============================================================================
