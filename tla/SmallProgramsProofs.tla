------------------------- MODULE SmallProgramsProofs ------------------------
(***************************************************************************)
(* The small programs, for any callers, buffer, number of nodes, rate and  *)
(* width of the clock.  One program runs in each behaviour: what its       *)
(* module promises follows from an invariant of that module, and the       *)
(* theorems are those of the specification that runs them side by side.    *)
(***************************************************************************)
EXTENDS MCSmallPrograms, FiniteSetTheorems, SequenceTheorems, TLAPS

\* The program stays the one that was chosen, and each step is a step of its module.
LEMMA OneProgramRuns ==
  ASSUME [Next]_vars
  PROVE  /\ which' = which
         /\ which = "ProcBuffer" => [PB!Next]_(PB!vars)
         /\ which = "FixDev" => [FD!Next]_(FD!vars)
         /\ which = "DynDev" => [DD!Next]_(DD!vars)
         /\ which = "MyTimer" => [MT!Next]_(MT!vars)
         /\ which = "HrTimer" => [HT!Next]_(HT!vars)
         /\ which = "TimingTracker" => [TT!Next]_(TT!vars)
         /\ which = "Dice" => [DI!Next]_(DI!vars)
<1> USE DEF bufferCalls, fixCalls, dynNodes, timer, times, game
<1>1. CASE Next
  BY <1>1 DEF Next, ProcBufferStep, FixDevStep, DynDevStep, MyTimerStep, HrTimerStep, TimingStep, DiceStep
<1>2. CASE UNCHANGED vars
  BY <1>2 DEF vars, PB!vars, PB!loadVars, PB!callVars, FD!vars, FD!loadVars, FD!callVars,
              DD!vars, DD!loadVars, DD!nodeVars, DD!callVars, MT!vars, HT!vars,
              TT!vars, TT!loadVars, TT!showVars, DI!vars
<1> QED  BY <1>1, <1>2

-----------------------------------------------------------------------------
(* ProcBuffer: no read passes the end of the message                         *)

BufferLoadTypes ==
  /\ stack \in Seq({"buffer", "dir", "file"})
  /\ phase \in {"absent", "loading", "loaded", "leaving", "gone"}

BufferCallTypes ==
  /\ pc \in [Callers -> {"outside", "write", "read"}]
  /\ msgLength \in 0..BufferSize /\ readPos \in Nat
  /\ take \in [Callers -> Nat]
  /\ fault \in {"none", "read"}

\* Before the file is there, nothing has happened.
BufferUntouched ==
  /\ ~PB!FileExists /\ Len(stack) <= 2
  /\ \A c \in Callers : pc[c] = "outside" /\ take[c] = 0
  /\ readPos = 0 /\ msgLength = 0 /\ fault = "none"

\* Nobody is beside another, and what is read now ends inside of the message.
OneInFile ==
  /\ \A c, d \in Callers : pc[c] # "outside" /\ pc[d] # "outside" => c = d
  /\ \A c \in Callers : readPos + take[c] <= msgLength
  /\ fault = "none"

OnlyReadersTake == \A c \in Callers : pc[c] # "read" => take[c] = 0

BufferInv ==
  /\ BufferLoadTypes /\ BufferCallTypes /\ OnlyReadersTake
  /\ phase \in {"absent", "loading"} => BufferUntouched
  /\ PB!FileExists /\ ~overlap => OneInFile /\ readPos <= msgLength

-----------------------------------------------------------------------------

\* A prefix of a sequence.
LEMMA Prefix ==
  ASSUME NEW S, NEW s \in Seq(S), NEW n \in 0..Len(s)
  PROVE  /\ SubSeq(s, 1, n) \in Seq(S)
         /\ Len(SubSeq(s, 1, n)) = n
         /\ \A i \in 1..n : SubSeq(s, 1, n)[i] = s[i]
<1>1. Len(s) \in Nat /\ n \in Nat /\ n <= Len(s)
  BY LenProperties
<1>2. \A i \in 1..n : s[i] \in S
  BY <1>1, LenProperties
<1>3. /\ SubSeq(s, 1, n) \in Seq(S)
      /\ Len(SubSeq(s, 1, n)) = IF 1 <= n THEN n - 1 + 1 ELSE 0
      /\ \A i \in 1..(n - 1 + 1) : SubSeq(s, 1, n)[i] = s[1 + i - 1]
  BY <1>1, <1>2, SubSeqProperties
<1>4. n - 1 + 1 = n /\ \A i \in 1..n : 1 + i - 1 = i
  BY <1>1
<1>5. (IF 1 <= n THEN n - 1 + 1 ELSE 0) = n
  BY <1>1
<1> QED  BY <1>3, <1>4, <1>5

\* The first two parts are no file.
LEMMA PartsMade ==
  ASSUME NEW k \in 0..2, NEW made, made = SubSeq(<<"buffer", "dir", "file">>, 1, k + 1)
  PROVE  /\ made \in Seq({"buffer", "dir", "file"})
         /\ k # 2 => ~PB!Contains(made, "file") /\ Len(made) <= 2
<1> DEFINE all == <<"buffer", "dir", "file">>
<1>1. all \in Seq({"buffer", "dir", "file"}) /\ Len(all) = 3
  OBVIOUS
<1>2. k + 1 \in 0..3 /\ (k # 2 => k + 1 \in 0..2)
  OBVIOUS
<1>3. /\ made \in Seq({"buffer", "dir", "file"})
      /\ Len(made) = k + 1
      /\ \A i \in 1..(k + 1) : made[i] = all[i]
  <2> HIDE DEF all
  <2> QED  BY <1>1, <1>2, Prefix DEF all
<1>4. \A i \in 1..2 : all[i] # "file"
  OBVIOUS
<1>5. ASSUME k # 2 PROVE ~PB!Contains(made, "file")
  <2>1. \A i \in 1..(k + 1) : i \in 1..2
    BY <1>2, <1>5
  <2> HIDE DEF all
  <2> QED  BY <1>3, <1>4, <2>1 DEF PB!Contains
<1>6. k # 2 => Len(made) <= 2
  BY <1>2, <1>3
<1> QED  BY <1>3, <1>5, <1>6

\* Dropping the last part brings no file back.
LEMMA PartsDropped ==
  ASSUME NEW S, NEW s \in Seq(S), s # <<>>
  PROVE  /\ PB!Front(s) \in Seq(S)
         /\ PB!Contains(PB!Front(s), "file") => PB!Contains(s, "file") /\ PB!Front(s) # <<>>
<1>1. Len(s) \in Nat \ {0}
  BY EmptySeq
<1>2. Len(s) - 1 \in 0..Len(s) /\ 1..(Len(s) - 1) \subseteq 1..Len(s)
  BY <1>1
<1>3. /\ PB!Front(s) \in Seq(S)
      /\ Len(PB!Front(s)) = Len(s) - 1
      /\ \A i \in 1..(Len(s) - 1) : PB!Front(s)[i] = s[i]
  BY <1>2, Prefix DEF PB!Front
<1>4. PB!Contains(PB!Front(s), "file") => PB!Contains(s, "file")
  BY <1>2, <1>3 DEF PB!Contains
<1>5. ~PB!Contains(<<>>, "file")
  BY DEF PB!Contains
<1> QED  BY <1>3, <1>4, <1>5

-----------------------------------------------------------------------------

\* Every call keeps the invariant.  A call that begins beside another sets `overlap'; without
\* one it is alone, so that what it reads begins where the last read ended.
LEMMA BufferCallKeeps ==
  ASSUME PB!BufferAssumption, BufferInv, fault = "none", NEW c \in Callers, PB!Call(c)
  PROVE  BufferInv'
<1> USE DEF BufferInv, BufferLoadTypes, BufferCallTypes, OnlyReadersTake
<1>0. PB!FileExists \/ pc[c] # "outside" => phase \notin {"absent", "loading"}
  BY DEF BufferUntouched
<1>1. CASE PB!WriteBegin(c)
  <2>1. /\ PB!FileExists /\ pc[c] = "outside" /\ pc' = [pc EXCEPT ![c] = "write"]
        /\ readPos' = 0
        /\ UNCHANGED <<phase, stack, take, fault>>
    BY <1>1 DEF PB!WriteBegin, PB!Goto, PB!PositionAfterWrite, PB!loadVars
  <2>2. msgLength' \in 0..BufferSize
    BY <1>1 DEF PB!WriteBegin, PB!Smaller, PB!BufferAssumption
  <2>3. overlap' \/ PB!Alone(c)
    BY <1>1, Zenon DEF PB!WriteBegin
  <2>4. PB!Alone(c) => OneInFile' /\ readPos' <= msgLength'
    BY <2>1, <2>2 DEF PB!Alone, OneInFile, PB!BufferAssumption
  <2>5. phase' \notin {"absent", "loading"}
    BY <1>0, <2>1
  <2> QED  BY <2>1, <2>2, <2>3, <2>4, <2>5
<1>2. CASE PB!WriteEnd(c)
  BY <1>0, <1>2 DEF PB!WriteEnd, PB!Goto, PB!loadVars, OneInFile, PB!FileExists
<1>3. CASE PB!ReadBegin(c)
  <2>1. /\ PB!FileExists /\ pc[c] = "outside" /\ pc' = [pc EXCEPT ![c] = "read"]
        /\ UNCHANGED <<phase, stack, msgLength, readPos>>
    BY <1>3 DEF PB!ReadBegin, PB!Goto, PB!loadVars
  <2>2. PICK ask \in Asks : \E copied \in 0..PB!Available(ask) :
          /\ take' = [take EXCEPT ![c] = copied]
          /\ fault' = IF copied > 0 /\ readPos + copied > BufferSize THEN "read" ELSE fault
    BY <1>3 DEF PB!ReadBegin
  <2>3. PICK copied \in 0..PB!Available(ask) :
          /\ take' = [take EXCEPT ![c] = copied]
          /\ fault' = IF copied > 0 /\ readPos + copied > BufferSize THEN "read" ELSE fault
    BY <2>2
  <2>4. overlap' \/ (~overlap /\ PB!Alone(c))
    BY <1>3, Zenon DEF PB!ReadBegin
  <2>5. ASSUME ~overlap, PB!Alone(c) PROVE OneInFile' /\ readPos' <= msgLength'
    <3>1. readPos <= msgLength /\ OneInFile
      BY <2>1, <2>5
    <3>2. readPos + copied <= msgLength /\ fault' = "none"
      BY <2>3, <3>1 DEF PB!Available, PB!Smaller, PB!BufferAssumption
    <3> QED  BY <2>1, <2>3, <2>5, <3>1, <3>2 DEF PB!Alone, OneInFile
  <2>6. phase' \notin {"absent", "loading"}
    BY <1>0, <2>1
  <2>7. BufferLoadTypes' /\ BufferCallTypes' /\ OnlyReadersTake'
    BY <2>1, <2>3
  <2> QED  BY <2>4, <2>5, <2>6, <2>7
<1>4. CASE PB!ReadEnd(c)
  <2>1. /\ pc[c] = "read" /\ pc' = [pc EXCEPT ![c] = "outside"]
        /\ readPos' = readPos + take[c] /\ take' = [take EXCEPT ![c] = 0]
        /\ UNCHANGED <<phase, stack, msgLength, fault, overlap>>
    BY <1>4 DEF PB!ReadEnd, PB!Goto, PB!loadVars
  <2>2. ASSUME OneInFile PROVE OneInFile' /\ readPos' <= msgLength'
    <3>1. \A d \in Callers : pc'[d] = "outside" /\ take'[d] = 0
      BY <2>1, <2>2 DEF OneInFile
    <3> QED  BY <2>1, <2>2, <3>1 DEF OneInFile
  <2>3. phase' \notin {"absent", "loading"}
    BY <1>0, <2>1
  <2> QED  BY <2>1, <2>2, <2>3 DEF PB!FileExists
<1> QED  BY <1>1, <1>2, <1>3, <1>4 DEF PB!Call

\* Loading and unloading keep it: nothing has happened before the file is there.
LEMMA BufferLoadKeeps ==
  ASSUME PB!BufferAssumption, BufferInv, PB!Load
  PROVE  BufferInv'
<1> USE DEF BufferInv, BufferLoadTypes
<1>1. CASE PB!MakePart
  <2>1. /\ BufferUntouched /\ Len(stack) <= 2
        /\ stack' = SubSeq(<<"buffer", "dir", "file">>, 1, Len(stack) + 1)
        /\ phase' = IF Len(stack) = 2 THEN "loaded" ELSE "loading"
        /\ UNCHANGED <<pc, msgLength, readPos, take, fault, overlap>>
    BY <1>1 DEF PB!MakePart, BufferUntouched, PB!callVars
  <2>2. BufferLoadTypes' /\ (Len(stack) # 2 => ~PB!FileExists' /\ Len(stack') <= 2)
    <3>1. Len(stack) \in 0..2
      <4>1. Len(stack) <= 2  BY <2>1
      <4>2. Len(stack) \in Nat  BY LenProperties
      <4>3. \A k \in Nat : k <= 2 => k \in 0..2  OBVIOUS
      <4> QED  BY <4>1, <4>2, <4>3, Zenon
    <3> QED  BY <2>1, <3>1, PartsMade DEF PB!FileExists
  <2>3. BufferCallTypes' /\ OnlyReadersTake'
    BY <2>1 DEF BufferCallTypes, OnlyReadersTake
  <2>4. phase' \in {"absent", "loading"} => BufferUntouched'
    BY <2>1, <2>2 DEF BufferUntouched
  <2>5. OneInFile' /\ readPos' <= msgLength'
    BY <2>1 DEF BufferUntouched, OneInFile
  <2> QED  BY <2>2, <2>3, <2>4, <2>5
<1>2. CASE PB!Leave \/ PB!Left
  BY <1>2 DEF PB!Leave, PB!Left, PB!callVars, BufferCallTypes, OnlyReadersTake, OneInFile, PB!FileExists
<1>3. CASE PB!DropPart
  <2>1. /\ phase = "leaving" /\ phase' = "leaving"
        /\ stack # <<>> /\ stack' = PB!Front(stack)
        /\ msgLength' = IF stack' = <<>> THEN 0 ELSE msgLength
        /\ UNCHANGED <<pc, readPos, take, fault, overlap>>
    BY <1>3 DEF PB!DropPart
  <2>2. BufferLoadTypes' /\ (PB!FileExists' => PB!FileExists /\ stack' # <<>>)
    BY <2>1, PartsDropped DEF PB!FileExists
  <2>3. BufferCallTypes' /\ OnlyReadersTake'
    BY <2>1 DEF BufferCallTypes, OnlyReadersTake, PB!BufferAssumption
  <2> QED  BY <2>1, <2>2, <2>3 DEF OneInFile
<1> QED  BY <1>1, <1>2, <1>3 DEF PB!Load

\* As long as no call ran beside the last write or a read since, no read passes the end of
\* the message, whatever the callers, the buffer, and the lengths written and asked for.
THEOREM ReadsStay == Spec => []ReadsStayInMessage
<1> DEFINE Inv == which = "ProcBuffer" => BufferInv
<1>0. PB!BufferAssumption
  BY Assumptions
<1>1. ASSUME PB!Init PROVE BufferInv
  <2>1. ~PB!FileExists /\ Len(stack) = 0
    BY <1>1 DEF PB!Init, PB!FileExists, PB!Contains
  <2> QED  BY <1>0, <1>1, <2>1 DEF PB!Init, BufferInv, BufferLoadTypes, BufferCallTypes, OnlyReadersTake,
                           BufferUntouched, PB!BufferAssumption
<1>2. ASSUME BufferInv, [PB!Next]_(PB!vars) PROVE BufferInv'
  <2>1. CASE UNCHANGED PB!vars
    BY <1>2, <2>1 DEF PB!vars, PB!loadVars, PB!callVars, BufferInv, BufferLoadTypes, BufferCallTypes,
                      OnlyReadersTake, BufferUntouched, OneInFile, PB!FileExists
  <2>2. PB!Halted => UNCHANGED PB!vars
    BY DEF PB!Halted
  <2> QED  BY <1>0, <1>2, <2>1, <2>2, BufferCallKeeps, BufferLoadKeeps DEF PB!Next
<1>3. Init => Inv
  BY <1>1 DEF Init
<1>4. Inv /\ [Next]_vars => Inv'
  BY <1>2, OneProgramRuns
<1>5. Inv => ReadsStayInMessage
  BY DEF BufferInv, OneInFile, ReadsStayInMessage, PB!ReadsStayInMessage
<1> QED  BY <1>3, <1>4, <1>5, PTL DEF Spec

-----------------------------------------------------------------------------
(* FixDev: one holder                                                        *)


Entered == {"passed", "opening"}

DeviceTypes ==
  /\ pc \in [Callers -> {"outside", "passed", "opening", "open", "closing"}]
  /\ deviceOpen \in Int /\ seen \in [Callers -> Int]
  /\ raced \in BOOLEAN

\* Nobody is past the test beside another, and the counter says how far the one is.
OneInDevice ==
  /\ \A c, d \in Callers : pc[c] # "outside" /\ pc[d] # "outside" => c = d
  /\ \A c \in Callers :
       /\ pc[c] \in Entered => deviceOpen = 0
       /\ pc[c] \in {"open", "closing"} => deviceOpen = 1
       /\ pc[c] = "opening" => seen[c] = 0
       /\ pc[c] = "closing" => seen[c] = 1
  /\ (\A c \in Callers : pc[c] = "outside") => deviceOpen = 0

DeviceInv == DeviceTypes /\ (~raced => OneInDevice)

-----------------------------------------------------------------------------

\* A set with at most one member is empty or a singleton.
LEMMA AtMostOne ==
  ASSUME NEW S, \A x, y \in S : x = y
  PROVE  /\ S = {} => Cardinality(S) = 0
         /\ S # {} => Cardinality(S) = 1
<1>1. S = {} => Cardinality(S) = 0
  BY FS_EmptySet
<1>2. ASSUME S # {} PROVE Cardinality(S) = 1
  <2> PICK x \in S : TRUE  BY <1>2
  <2> S = {x}  OBVIOUS
  <2> QED  BY FS_Singleton
<1> QED  BY <1>1, <1>2

\* The two definitions of cardinality are one.
LEMMA SameCount == \A S : FD!Cardinality(S) = Cardinality(S)
BY DEF FD!Cardinality, Cardinality

\* What the property says follows from the counter and the one caller inside.
LEMMA InsideGivesHolder == ASSUME DeviceInv PROVE FD!OneHolder
<1> SUFFICES ASSUME ~raced
             PROVE  /\ Cardinality(FD!Holding) <= 1
                    /\ (\A c \in Callers : pc[c] \in {"outside", "open"}) => deviceOpen = Cardinality(FD!Holding)
  BY SameCount DEF FD!OneHolder
<1>1. \A c, d \in FD!Holding : c = d
  BY DEF FD!Holding, DeviceInv, OneInDevice
<1>2. CASE FD!Holding = {}
  <2>1. Cardinality(FD!Holding) = 0  BY <1>1, <1>2, AtMostOne
  <2>2. (\A c \in Callers : pc[c] \in {"outside", "open"}) => \A c \in Callers : pc[c] = "outside"
    BY <1>2 DEF FD!Holding
  <2> QED  BY <2>1, <2>2 DEF DeviceInv, OneInDevice
<1>3. CASE FD!Holding # {}
  <2>1. Cardinality(FD!Holding) = 1  BY <1>1, <1>3, AtMostOne
  <2>2. deviceOpen = 1  BY <1>3 DEF FD!Holding, DeviceInv, OneInDevice
  <2> QED  BY <2>1, <2>2
<1> QED  BY <1>2, <1>3

\* Every step keeps the invariant: an open that passes the test beside another sets `raced',
\* and without one the counter is 0 only if nobody is inside.
LEMMA DeviceKept ==
  ASSUME DeviceInv, [FD!Next]_(FD!vars)
  PROVE  DeviceInv'
<1>0. FD!Next \/ UNCHANGED FD!vars
  OBVIOUS
<1> USE DEF DeviceInv, DeviceTypes, OneInDevice, Entered
<1>1. ASSUME NEW c \in Callers, FD!OpenTest(c) PROVE DeviceInv'
  <2>1. /\ deviceOpen = 0 /\ pc[c] = "outside"
        /\ pc' = [pc EXCEPT ![c] = "passed"]
        /\ deviceOpen' = deviceOpen /\ seen' = seen
    BY <1>1 DEF FD!OpenTest, FD!Goto, FD!Busy
  <2>2. raced' \in BOOLEAN
    BY <1>1, Zenon DEF FD!OpenTest
  <2>3. ~raced' => ~raced /\ \A d \in Callers : pc[d] \notin Entered
    BY <1>1, Zenon DEF FD!OpenTest
  <2>4. DeviceTypes'
    BY <2>1, <2>2
  <2>5. ASSUME ~raced' PROVE OneInDevice'
    <3>1. \A d \in Callers : pc[d] = "outside"
      BY <2>1, <2>3, <2>5
    <3> QED  BY <2>1, <3>1
  <2> QED  BY <2>4, <2>5
<1>2. ASSUME NEW c \in Callers, FD!OpenLoad(c) PROVE DeviceInv'
  BY <1>2 DEF FD!OpenLoad, FD!Goto
<1>3. ASSUME NEW c \in Callers, FD!OpenStore(c) PROVE DeviceInv'
  BY <1>3 DEF FD!OpenStore, FD!Goto
<1>4. ASSUME NEW c \in Callers, FD!Read(c) PROVE DeviceInv'
  BY <1>4 DEF FD!Read
<1>5. ASSUME NEW c \in Callers, FD!ReleaseLoad(c) PROVE DeviceInv'
  BY <1>5 DEF FD!ReleaseLoad, FD!Goto
<1>6. ASSUME NEW c \in Callers, FD!ReleaseStore(c) PROVE DeviceInv'
  BY <1>6 DEF FD!ReleaseStore, FD!Goto
<1>7. CASE UNCHANGED FD!callVars
  BY <1>7 DEF FD!callVars
<1>8. FD!Load \/ FD!Halted \/ UNCHANGED FD!vars => UNCHANGED FD!callVars
  BY DEF FD!Load, FD!MakePart, FD!Leave, FD!DropPart, FD!Left, FD!Halted, FD!vars, FD!callVars
<1>9. ASSUME NEW c \in Callers, FD!Call(c) PROVE DeviceInv'
  BY ONLY <1>9, <1>1, <1>2, <1>3, <1>4, <1>5, <1>6 DEF FD!Call
<1> QED  BY ONLY <1>0, <1>7, <1>8, <1>9 DEF FD!Next

\* As long as no two opens overlapped, one caller at most holds the device and the counter
\* is right, however many callers there are and however the module is loaded and unloaded.
THEOREM DeviceIsExclusive == Spec => []OneHolder
<1> DEFINE Inv == which = "FixDev" => DeviceInv
<1>1. ASSUME FD!Init PROVE DeviceInv
  <2>1. raced \in BOOLEAN
    BY <1>1 DEF FD!Init
  <2>2. DeviceTypes
    BY <1>1, <2>1 DEF FD!Init, DeviceTypes
  <2>3. OneInDevice
    BY <1>1 DEF FD!Init, OneInDevice, Entered
  <2> QED  BY <2>2, <2>3 DEF DeviceInv
<1>2. Init => Inv
  BY <1>1 DEF Init
<1>3. ASSUME Inv, [Next]_vars PROVE Inv'
  BY <1>3, DeviceKept, OneProgramRuns
<1>4. Inv => OneHolder
  BY InsideGivesHolder DEF OneHolder
<1> QED  BY <1>2, <1>3, <1>4, PTL DEF Spec

-----------------------------------------------------------------------------
(* The timers and DynDev: no code that is gone, no error used as a class      *)

\* Once del_timer has met no running function, the timer is still.
TimerInv ==
  /\ phase \in {"absent", "loaded", "leaving", "gone"}
  /\ phase = "absent" \/ (phase \in {"leaving", "gone"} /\ ~met) => ~armed /\ fn = "idle"
  /\ fault = "code" => met /\ phase = "gone"

\* The timer is in the queue or its callback runs only until it is cancelled.
CancelInv ==
  /\ phase \in {"absent", "loaded", "leaving", "gone"} /\ stack \in {<<>>, <<"timer">>}
  /\ phase \in {"absent", "gone"} => stack = <<>>
  /\ phase = "loaded" => stack = <<"timer">>
  /\ armed \/ fn # "idle" => stack = <<"timer">>
  /\ fault = "none"

ClassInv == fault = "none" \/ failed

\* Every step of mytimer.c keeps it.
LEMMA TimerKept ==
  ASSUME TimerInv, [MT!Next]_(MT!vars)
  PROVE  TimerInv'
<1> USE DEF TimerInv
<1>1. CASE MT!TimerStep
  BY <1>1 DEF MT!TimerStep, MT!Expire, MT!Rearm, MT!Return, MT!RunCode, MT!Armed
<1>2. CASE MT!Start \/ MT!Left
  BY <1>2 DEF MT!Start, MT!Left
<1>3. CASE MT!DelTimer
  BY <1>3, Zenon DEF MT!DelTimer
<1>4. CASE MT!Halted \/ UNCHANGED MT!vars
  BY <1>4 DEF MT!Halted, MT!vars
<1> QED  BY <1>1, <1>2, <1>3, <1>4 DEF MT!Next

\* Every step of hrtimer.c keeps it.
LEMMA CancelKept ==
  ASSUME CancelInv, [HT!Next]_(HT!vars)
  PROVE  CancelInv'
<1> USE DEF CancelInv
<1>0. <<>> # <<"timer">>
  OBVIOUS
<1>1. CASE HT!TimerStep
  BY <1>0, <1>1 DEF HT!TimerStep, HT!Expire, HT!Forward, HT!Restart, HT!RunCode
<1>2. CASE HT!Start \/ HT!Leave \/ HT!Left
  BY <1>0, <1>2 DEF HT!Start, HT!Leave, HT!Left
<1>3. CASE HT!Cancel
  BY <1>0, <1>3 DEF HT!Cancel, HT!Cancellable
<1>4. CASE HT!Halted \/ UNCHANGED HT!vars
  BY <1>4 DEF HT!Halted, HT!vars
<1> QED  BY <1>1, <1>2, <1>3, <1>4 DEF HT!Next

\* Every step of dyndev.c keeps it.
LEMMA ClassKept ==
  ASSUME ClassInv, [DD!Next]_(DD!vars)
  PROVE  ClassInv'
<1> USE DEF ClassInv
<1>1. CASE DD!CreateClass \/ DD!DestroyNode
  BY <1>1 DEF DD!CreateClass, DD!DestroyNode
<1>2. CASE DD!MakePart \/ DD!Fail \/ DD!CreateNode \/ DD!Leave \/ DD!DropPart \/ DD!Left
  BY <1>2 DEF DD!MakePart, DD!Fail, DD!CreateNode, DD!Leave, DD!DropPart, DD!Left, DD!nodeVars
<1>3. ASSUME NEW c \in Callers, DD!Call(c) PROVE ClassInv'
  BY <1>3 DEF DD!Call, DD!Open, DD!Read, DD!Close, DD!loadVars, DD!nodeVars
<1>4. CASE DD!Halted \/ UNCHANGED DD!vars
  BY <1>4 DEF DD!Halted, DD!vars, DD!loadVars, DD!nodeVars
<1> QED  BY <1>1, <1>2, <1>3, <1>4 DEF DD!Next, DD!Load, DD!Unload

\* mytimer.c runs code that is gone only if del_timer met the running function, hrtimer.c
\* never; dyndev.c uses an error as a class only when class_create had failed.
THEOREM LateCodeHasCause == Spec => []FaultNeedsCause
<1> DEFINE Inv == /\ which = "MyTimer" => TimerInv
                  /\ which = "HrTimer" => CancelInv
                  /\ which = "DynDev" => ClassInv
<1>1. Init => Inv
  BY DEF Init, MT!Init, HT!Init, DD!Init, TimerInv, CancelInv, ClassInv
<1>2. ASSUME Inv, [Next]_vars PROVE Inv'
  BY <1>2, OneProgramRuns, TimerKept, CancelKept, ClassKept
<1>3. Inv => FaultNeedsCause
  BY DEF FaultNeedsCause, TimerInv, CancelInv, ClassInv, MT!LateCodeNeedsMeeting, HT!NoLateCode
<1> QED  BY <1>1, <1>2, <1>3, PTL DEF Spec

-----------------------------------------------------------------------------
(* TimingTracker: what a read that ran alone shows                            *)

\* Quotient and remainder.
LEMMA Division ==
  ASSUME NEW x \in Int, NEW n \in Nat \ {0}
  PROVE  \E k \in Int, r \in 0..n - 1 :
           /\ k = x \div n /\ r = x % n /\ x = n * k + r
           /\ x \in Nat => k \in Nat
<1>1. x = n * (x \div n) + (x % n)
  OBVIOUS
<1>2. x % n \in 0..n - 1
  OBVIOUS
<1>3. x \div n \in Int
  OBVIOUS
<1>4. x \in Nat => x \div n \in Nat
  OBVIOUS
<1> WITNESS x \div n \in Int, x % n \in 0..n - 1
<1> QED  BY <1>1, <1>4

\* There is one remainder.
LEMMA OneRemainder ==
  ASSUME NEW n \in Nat \ {0}, NEW j \in Int, NEW k \in Int, NEW q \in 0..n - 1, NEW r \in 0..n - 1,
         n * j + q = n * k + r
  PROVE  q = r
OBVIOUS

\* The difference of two remainders has the remainder of the difference: timing_show finds
\* the time that went by, also when the 32 bits overflowed, if it was less than 2^32.
LEMMA DifferenceWraps ==
  ASSUME NEW n \in Nat \ {0}, NEW x \in Nat, NEW y \in Nat, y <= x, x - y < n
  PROVE  ((x % n) - (y % n)) % n = x - y
<1>0. x \in Int /\ y \in Int /\ x - y \in 0..n - 1
  OBVIOUS
<1>1. PICK j \in Int, q \in 0..n - 1 : x = n * j + q /\ q = x % n
  BY <1>0, Division
<1>2. PICK k \in Int, r \in 0..n - 1 : y = n * k + r /\ r = y % n
  BY <1>0, Division
<1>3. PICK i \in Int, p \in 0..n - 1 : q - r = n * i + p /\ p = (q - r) % n
  <2>1. q - r \in Int
    OBVIOUS
  <2> QED  BY <2>1, Division
<1>4. p = x - y
  <2>1. PICK z \in Int : z = j - k + i
    OBVIOUS
  <2>2. n * z = n * j - n * k + n * i
    BY <2>1
  <2>3. PICK u \in Int, v \in Int, w \in Int : u = n * j /\ v = n * k /\ w = n * i
    OBVIOUS
  <2>4. n * z + p = x - y
    <3>1. x = u + q /\ y = v + r /\ q - r = w + p
      BY <1>1, <1>2, <1>3, <2>3
    <3>2. PICK nz \in Int : nz = n * z /\ nz = u - v + w
      BY <2>2, <2>3
    <3> QED  BY <3>1, <3>2
  <2>5. n * z + p = n * 0 + (x - y)
    BY <2>4
  <2> QED  BY ONLY n \in Nat \ {0}, <1>0, <2>5, OneRemainder
<1> QED  BY <1>1, <1>2, <1>3, <1>4

\* The digits of the clock.
LEMMA ClockDigits ==
  ASSUME TT!TimingAssumption, NEW s \in Nat
  PROVE  /\ (TT!Clock(s)[1] * Base + TT!Clock(s)[2]) * Base + TT!Clock(s)[3] = s
         /\ TT!Clock(s)[2] < Base /\ TT!Clock(s)[3] < Base
<1>0. Base \in Nat \ {0}
  BY DEF TT!TimingAssumption
<1>1. PICK minutes \in Int, low \in 0..Base - 1 :
        s = Base * minutes + low /\ minutes = s \div Base /\ low = s % Base
  BY <1>0, Division
<1>2. PICK high \in Int, middle \in 0..Base - 1 :
        minutes = Base * high + middle /\ high = minutes \div Base /\ middle = minutes % Base
  BY <1>0, Division
<1>3. TT!Clock(s) = <<high, middle, low>>
  BY <1>1, <1>2 DEF TT!Clock
<1>4. high * Base = Base * high /\ minutes * Base = Base * minutes
  BY <1>0
<1>5. (high * Base + middle) * Base + low = s
  BY <1>0, <1>1, <1>2, <1>4
<1>6. PICK clock : clock = <<high, middle, low>>
  OBVIOUS
<1>7. clock[1] = high /\ clock[2] = middle /\ clock[3] = low
  BY <1>6
<1>8. middle < Base /\ low < Base
  BY <1>0
<1> QED  BY <1>3, <1>5, <1>6, <1>7, <1>8, Zenon

\* The parts of the module; reads run only while both stand.
TimingLoadInv ==
  /\ pc \in [Callers -> {"outside", "show", "store"}]
  /\ stack \in {<<>>, <<"class">>, <<"class", "file">>}
  /\ phase \in {"absent", "loading", "loaded", "leaving", "gone"}
  /\ phase \in {"absent", "loading", "gone"} => stack \in {<<>>, <<"class">>}
  /\ phase \in {"absent", "gone"} => stack = <<>>
  /\ \A c \in Callers : pc[c] # "outside" => stack = <<"class", "file">>

\* A read with nobody beside it is newer than the last one finished, and unless an older
\* read was stored last, last_jiffies is the newest time.
TimingTypes ==
  /\ now \in Nat /\ latest \in Nat /\ latest <= now /\ lastJiffies \in Int
  /\ sample \in [Callers -> Nat] /\ shown = [c \in Callers |-> shown[c]]
  /\ beside \in [Callers -> BOOLEAN]
NewestStored == ~behind => lastJiffies = TT!Cut(latest)
BesideKnown ==
  \A c, d \in Callers : c # d /\ pc[c] # "outside" /\ pc[d] # "outside" => beside[c]
SamplesNew ==
  \A c \in Callers : pc[c] # "outside" => sample[c] <= now /\ (~beside[c] => latest <= sample[c])
PrintsRight ==
  \A c \in Callers : pc[c] = "store" =>
    /\ ~beside[c] /\ ~behind => shown[c].since = TT!Since(TT!Cut(sample[c]), TT!Cut(latest))
    /\ shown[c].clock = TT!Clock(TT!Cut(sample[c]) \div HZ)
TimingInv == TimingTypes /\ NewestStored /\ BesideKnown /\ SamplesNew /\ PrintsRight

\* Sequences of one and two elements.
LEMMA TwoInARow ==
  ASSUME NEW a, NEW b
  PROVE  /\ Len(<<a>>) = 1 /\ Len(<<a, b>>) = 2
         /\ SubSeq(<<a>>, 1, 0) = <<>>
         /\ SubSeq(<<a, b>>, 1, 1) = <<a>> /\ SubSeq(<<a, b>>, 1, 2) = <<a, b>>
         /\ Append(<<>>, a) = <<a>> /\ Append(<<a>>, b) = <<a, b>>
<1> DEFINE S == {a, b}
           one == <<a>>
           both == <<a, b>>
<1>1. /\ one \in Seq(S) /\ Len(one) = 1 /\ one[1] = a
      /\ both \in Seq(S) /\ Len(both) = 2 /\ both[1] = a /\ both[2] = b
      /\ a \in S /\ b \in S
  OBVIOUS
<1>7. Append(<<>>, a) = <<a>>
  OBVIOUS
<1> HIDE DEF S, one, both
<1>2. ASSUME NEW s \in Seq(S), NEW t \in Seq(S), Len(s) = Len(t), \A i \in 1..Len(s) : s[i] = t[i]
      PROVE  s = t
  BY <1>2, SeqEqual
<1>3. SubSeq(one, 1, 0) = <<>>
  BY <1>1, Prefix, EmptySeq
<1>4. SubSeq(both, 1, 1) = one
  <2>1. /\ SubSeq(both, 1, 1) \in Seq(S) /\ Len(SubSeq(both, 1, 1)) = 1
        /\ SubSeq(both, 1, 1)[1] = a
    BY <1>1, Prefix
  <2> QED  BY <1>1, <1>2, <2>1
<1>5. SubSeq(both, 1, 2) = both
  <2>1. /\ SubSeq(both, 1, 2) \in Seq(S) /\ Len(SubSeq(both, 1, 2)) = 2
        /\ SubSeq(both, 1, 2)[1] = a /\ SubSeq(both, 1, 2)[2] = b
    BY <1>1, Prefix
  <2> QED  BY <1>1, <1>2, <2>1
<1>6. Append(one, b) = both
  <2>1. ASSUME NEW T, NEW s \in Seq(T), NEW e \in T, Len(s) = 1
        PROVE  /\ Append(s, e) \in Seq(T) /\ Len(Append(s, e)) = 2
               /\ Append(s, e)[1] = s[1] /\ Append(s, e)[2] = e
    <3>1. /\ Append(s, e) \in Seq(T) /\ Len(Append(s, e)) = Len(s) + 1
          /\ Append(s, e)[Len(s) + 1] = e
          /\ \A k \in 1..Len(s) : Append(s, e)[k] = s[k]
      OBVIOUS
    <3>2. Len(s) + 1 = 2 /\ 1 \in 1..Len(s)
      BY <2>1
    <3> QED  BY <3>1, <3>2, Zenon
  <2>2. /\ Append(one, b) \in Seq(S) /\ Len(Append(one, b)) = 2
        /\ Append(one, b)[1] = a /\ Append(one, b)[2] = b
    BY <1>1, <2>1
  <2> QED  BY <1>1, <1>2, <2>2
<1> QED  BY <1>1, <1>3, <1>4, <1>5, <1>6, <1>7 DEF one, both

\* The parts of the module.
LEMMA ClassAndFile ==
  /\ <<>> # <<"class">> /\ <<>> # <<"class", "file">> /\ <<"class">> # <<"class", "file">>
  /\ ~TT!Contains(<<>>, "file") /\ ~TT!Contains(<<"class">>, "file")
  /\ TT!Last(<<"class">>) = "class" /\ TT!Last(<<"class", "file">>) = "file"
  /\ TT!Front(<<"class">>) = <<>> /\ TT!Front(<<"class", "file">>) = <<"class">>
  /\ Append(<<"class">>, "file") = <<"class", "file">>
<1>1. <<>> # <<"class">> /\ <<>> # <<"class", "file">> /\ <<"class">> # <<"class", "file">>
  OBVIOUS
<1>2. ~TT!Contains(<<>>, "file") /\ ~TT!Contains(<<"class">>, "file")
  BY DEF TT!Contains
<1>3. TT!Last(<<"class">>) = "class" /\ TT!Last(<<"class", "file">>) = "file"
  BY DEF TT!Last
<1>4. TT!Front(<<"class">>) = <<>> /\ TT!Front(<<"class", "file">>) = <<"class">>
      /\ Append(<<"class">>, "file") = <<"class", "file">>
  BY TwoInARow DEF TT!Front
<1> QED  BY <1>1, <1>2, <1>3, <1>4

\* init and cleanup make and drop the parts, and reads come and go while both stand.
LEMMA TimingLoadKept ==
  ASSUME TimingLoadInv, [TT!Next]_(TT!vars)
  PROVE  TimingLoadInv'
<1>1. ASSUME NEW c \in Callers, TT!Show(c) PROVE TimingLoadInv'
  <2>1. /\ UNCHANGED <<phase, stack>>
        /\ pc[c] # "outside" \/ TT!Contains(stack, "file")
        /\ \E there \in {"outside", "show", "store"} : pc' = [pc EXCEPT ![c] = there]
    BY <1>1 DEF TT!Show, TT!ShowBegin, TT!ShowPrint, TT!ShowStore, TT!Goto, TT!loadVars
  <2>2. stack = <<"class", "file">>
    BY <2>1, ClassAndFile DEF TimingLoadInv
  <2> QED  BY <2>1, <2>2 DEF TimingLoadInv
<1>2. CASE TT!LoadTime \/ TT!CreateClass \/ TT!CreateFile \/ TT!Leave \/ TT!Left
  <2>1. pc' = pc /\ (stack' # stack => stack # <<"class", "file">>)
    BY <1>2, ClassAndFile DEF TT!LoadTime, TT!CreateClass, TT!CreateFile, TT!Leave, TT!Left, TT!showVars, TimingLoadInv
  <2> QED  BY <1>2, <2>1, ClassAndFile
             DEF TT!LoadTime, TT!CreateClass, TT!CreateFile, TT!Leave, TT!Left, TimingLoadInv
<1>3. CASE TT!DropPart
  <2>1. pc' = pc /\ phase' = phase /\ phase = "leaving" /\ \A c \in Callers : pc[c] = "outside"
    BY <1>3, ClassAndFile DEF TT!DropPart, TT!showVars, TimingLoadInv
  <2> QED  BY <1>3, <2>1, ClassAndFile DEF TT!DropPart, TimingLoadInv
<1>4. CASE TT!Tick \/ TT!Halted \/ UNCHANGED TT!vars
  BY <1>4 DEF TT!Tick, TT!Halted, TT!vars, TT!loadVars, TT!showVars, TimingLoadInv
<1> QED  BY <1>1, <1>2, <1>3, <1>4 DEF TT!Next, TT!Load

\* Every step of task07.c keeps it.
LEMMA TimingKept ==
  ASSUME TT!TimingAssumption, TimingLoadInv, TimingInv, [TT!Next]_(TT!vars)
  PROVE  TimingInv'
<1>0. pc \in [Callers -> {"outside", "show", "store"}]
  BY DEF TimingLoadInv
<1>1. ASSUME NEW c \in Callers, TT!ShowBegin(c) PROVE TimingInv'
  <2>1. /\ pc[c] = "outside" /\ pc' = [pc EXCEPT ![c] = "show"]
        /\ sample' = [sample EXCEPT ![c] = now]
        /\ UNCHANGED <<now, lastJiffies, shown, latest, behind>>
    BY <1>1 DEF TT!ShowBegin, TT!Goto
  <2>2. /\ beside' \in [Callers -> BOOLEAN]
        /\ beside'[c] <=> \E e \in Callers \ {c} : pc[e] # "outside"
        /\ \A d \in Callers \ {c} : beside'[d] <=> beside[d] \/ pc[d] # "outside"
    BY <1>1 DEF TT!ShowBegin
  <2>3. BesideKnown'
    BY <1>0, <2>1, <2>2 DEF BesideKnown
  <2>4. TimingTypes' /\ NewestStored'
    BY <2>1, <2>2 DEF TimingInv, TimingTypes, NewestStored
  <2>5. /\ sample'[c] = now /\ pc'[c] = "show"
        /\ \A d \in Callers \ {c} : /\ sample'[d] = sample[d] /\ pc'[d] = pc[d]
                                     /\ ~beside'[d] => ~beside[d]
    BY <1>0, <2>1, <2>2 DEF TimingInv, TimingTypes
  <2>6. SamplesNew'
    BY <2>1, <2>5 DEF TimingInv, TimingTypes, SamplesNew
  <2>7. PrintsRight'
    BY <2>1, <2>5 DEF TimingInv, PrintsRight
  <2> QED  BY <2>3, <2>4, <2>6, <2>7 DEF TimingInv
<1>2. ASSUME NEW c \in Callers, TT!ShowPrint(c) PROVE TimingInv'
  <2> DEFINE print == [since |-> TT!Since(TT!Cut(sample[c]), lastJiffies),
                       clock |-> TT!Clock(TT!Cut(sample[c]) \div HZ)]
  <2>1. /\ pc[c] = "show" /\ pc' = [pc EXCEPT ![c] = "store"]
        /\ shown' = [shown EXCEPT ![c] = print]
        /\ UNCHANGED <<now, lastJiffies, sample, latest, beside, behind>>
    BY <1>2 DEF TT!ShowPrint, TT!Goto
  <2>2. /\ print.since = TT!Since(TT!Cut(sample[c]), lastJiffies)
        /\ print.clock = TT!Clock(TT!Cut(sample[c]) \div HZ)
    OBVIOUS
  <2> HIDE DEF print
  <2>3. /\ shown' = [d \in Callers |-> shown'[d]] /\ shown'[c] = print
        /\ \A d \in Callers \ {c} : shown'[d] = shown[d]
    BY <2>1 DEF TimingInv, TimingTypes
  <2>4. TimingTypes' /\ NewestStored'
    BY <2>1, <2>3 DEF TimingInv, TimingTypes, NewestStored
  <2>5. BesideKnown' /\ SamplesNew'
    BY <1>0, <2>1 DEF TimingInv, BesideKnown, SamplesNew
  <2>6. PrintsRight'
    BY <1>0, <2>1, <2>2, <2>3 DEF TimingInv, NewestStored, PrintsRight
  <2> QED  BY <2>4, <2>5, <2>6 DEF TimingInv
<1>3. ASSUME NEW c \in Callers, TT!ShowStore(c) PROVE TimingInv'
  <2>1. /\ pc[c] = "store" /\ pc' = [pc EXCEPT ![c] = "outside"]
        /\ lastJiffies' = TT!Cut(sample[c])
        /\ latest' = IF sample[c] > latest THEN sample[c] ELSE latest
        /\ sample' = [sample EXCEPT ![c] = 0] /\ shown' = [shown EXCEPT ![c] = TT!Nothing]
        /\ beside' = [beside EXCEPT ![c] = FALSE] /\ now' = now
    BY <1>3 DEF TT!ShowStore, TT!Goto
  <2>2. ~behind' => ~(sample[c] < latest)
    BY <1>3, Zenon DEF TT!ShowStore
  <2>3. sample[c] \in Nat /\ sample[c] <= now /\ lastJiffies' \in Int
    BY <2>1 DEF TimingInv, TimingTypes, SamplesNew, TT!Cut, TT!TimingAssumption
  <2>4. /\ shown' = [d \in Callers |-> shown'[d]]
        /\ \A d \in Callers \ {c} : shown'[d] = shown[d]
    BY <2>1 DEF TimingInv, TimingTypes
  <2>5. TimingTypes'
    BY <2>1, <2>3, <2>4 DEF TimingInv, TimingTypes
  <2>6. NewestStored'
    BY <2>1, <2>2, <2>3 DEF TimingInv, TimingTypes, NewestStored
  <2>7. /\ pc'[c] = "outside"
        /\ \A d \in Callers \ {c} : /\ pc'[d] = pc[d] /\ sample'[d] = sample[d]
                                     /\ beside'[d] = beside[d]
    BY <1>0, <2>1 DEF TimingInv, TimingTypes
  <2>8. \A d \in Callers \ {c} : pc[d] # "outside" => beside[d]
    BY <2>1 DEF TimingInv, BesideKnown
  <2>9. BesideKnown' /\ SamplesNew' /\ PrintsRight'
    BY <2>1, <2>4, <2>7, <2>8 DEF TimingInv, BesideKnown, SamplesNew, PrintsRight
  <2> QED  BY <2>5, <2>6, <2>9 DEF TimingInv
<1>4. CASE TT!LoadTime
  <2>1. /\ \A c \in Callers : pc[c] = "outside"
        /\ lastJiffies' = TT!Cut(now) /\ latest' = now
        /\ UNCHANGED <<now, pc, sample, shown, beside, behind>>
    BY <1>4, ClassAndFile DEF TT!LoadTime, TimingLoadInv
  <2> QED  BY <2>1 DEF TimingInv, TimingTypes, NewestStored, BesideKnown, SamplesNew, PrintsRight, TT!Cut, TT!TimingAssumption
<1>5. CASE TT!Tick
  <2>1. now' = now + 1 /\ UNCHANGED <<lastJiffies, pc, sample, shown, latest, beside, behind>>
    BY <1>5 DEF TT!Tick, TT!showVars
  <2> QED  BY <2>1 DEF TimingInv, TimingTypes, NewestStored, BesideKnown, SamplesNew, PrintsRight
<1>6. ASSUME UNCHANGED <<now, lastJiffies, pc, sample, shown, latest, beside, behind>> PROVE TimingInv'
  BY <1>6 DEF TimingInv, TimingTypes, NewestStored, BesideKnown, SamplesNew, PrintsRight
<1>7. TT!CreateClass \/ TT!CreateFile \/ TT!Leave \/ TT!DropPart \/ TT!Left \/ TT!Halted \/ UNCHANGED TT!vars
        => UNCHANGED <<now, lastJiffies, pc, sample, shown, latest, beside, behind>>
  BY DEF TT!CreateClass, TT!CreateFile, TT!Leave, TT!DropPart, TT!Left, TT!Halted, TT!vars, TT!showVars
<1> QED  BY <1>1, <1>2, <1>3, <1>4, <1>5, <1>6, <1>7 DEF TT!Next, TT!Load, TT!Show

\* A read that ran alone, with last_jiffies the newest time, prints the whole seconds since
\* then, across the overflow too, and the clock's digits stand for the seconds, whatever the
\* callers, HZ, the width of the clock and its base.
THEOREM ElapsedShown == Spec => []ReadsElapsed
<1> DEFINE Inv == which = "TimingTracker" => TimingLoadInv /\ TimingInv
<1>0. TT!TimingAssumption
  BY Assumptions
<1>1. ASSUME TT!Init PROVE TimingLoadInv /\ TimingInv
  <2>1. TT!Cut(0) = 0
    BY <1>0 DEF TT!Cut, TT!TimingAssumption
  <2>2. FirstJiffies \in Nat
    BY <1>0 DEF TT!TimingAssumption
  <2>3. TimingLoadInv
    BY <1>1 DEF TT!Init, TimingLoadInv
  <2>4. \A c \in Callers : pc[c] = "outside"
    BY <1>1 DEF TT!Init
  <2>5. shown = [c \in Callers |-> shown[c]] /\ sample \in [Callers -> Nat]
    BY <1>1 DEF TT!Init
  <2>6. TimingTypes /\ NewestStored
    BY <1>1, <2>1, <2>2, <2>5 DEF TT!Init, TimingTypes, NewestStored
  <2> QED  BY <2>3, <2>4, <2>6 DEF TimingInv, BesideKnown, SamplesNew, PrintsRight
<1>2. Init => Inv
  BY <1>1 DEF Init
<1>3. ASSUME Inv, [Next]_vars PROVE Inv'
  BY <1>0, <1>3, OneProgramRuns, TimingLoadKept, TimingKept
<1>4. ASSUME TimingLoadInv, TimingInv PROVE TT!ReadsElapsed
  <2> SUFFICES ASSUME NEW c \in Callers, pc[c] = "store"
               PROVE  /\ ~beside[c] /\ ~behind /\ sample[c] - latest < Wrap
                           => shown[c].since * HZ \in sample[c] - latest - HZ + 1..sample[c] - latest
                      /\ (shown[c].clock[1] * Base + shown[c].clock[2]) * Base + shown[c].clock[3]
                           = TT!Cut(sample[c]) \div HZ
                      /\ shown[c].clock[2] < Base /\ shown[c].clock[3] < Base
    BY DEF TT!ReadsElapsed
  <2>1. /\ HZ \in Nat \ {0} /\ Wrap \in Nat \ {0}
        /\ sample[c] \in Nat /\ latest \in Nat
    BY <1>0, <1>4 DEF TT!TimingAssumption, TimingInv, TimingTypes
  <2>2. TT!Cut(sample[c]) \div HZ \in Nat
    BY <2>1 DEF TT!Cut
  <2>3. shown[c].clock = TT!Clock(TT!Cut(sample[c]) \div HZ)
    BY <1>4 DEF TimingInv, PrintsRight
  <2>4. ASSUME ~beside[c], ~behind, sample[c] - latest < Wrap
        PROVE  shown[c].since * HZ \in sample[c] - latest - HZ + 1..sample[c] - latest
    <3>1. shown[c].since = TT!Since(TT!Cut(sample[c]), TT!Cut(latest)) /\ latest <= sample[c]
      BY <1>4, <2>4 DEF TimingInv, SamplesNew, PrintsRight
    <3>2. TT!Cut(TT!Cut(sample[c]) - TT!Cut(latest)) = sample[c] - latest
      BY <2>1, <2>4, <3>1, DifferenceWraps DEF TT!Cut
    <3>3. shown[c].since = (sample[c] - latest) \div HZ
      BY <3>1, <3>2 DEF TT!Since
    <3>4. PICK d \in Int : d = sample[c] - latest
      BY <2>1
    <3>5. PICK k \in Int, r \in 0..HZ - 1 : k = d \div HZ /\ d = HZ * k + r
      BY <2>1, Division
    <3>6. k * HZ = HZ * k
      BY <2>1
    <3>7. k * HZ \in d - HZ + 1..d
      BY <2>1, <3>5, <3>6
    <3> QED  BY <3>3, <3>4, <3>5, <3>7
  <2> QED  BY <1>0, <2>2, <2>3, <2>4, ClockDigits
<1>5. Inv => ReadsElapsed
  BY <1>4 DEF ReadsElapsed
<1> QED  BY <1>2, <1>3, <1>5, PTL DEF Spec

-----------------------------------------------------------------------------
(* The load and the unload of the five modules                                *)

\* What the kernel sees of the module that runs.
seenPhase  == IF InLoadOrder THEN phase ELSE "absent"
seenStack  == IF which = "DynDev" THEN DD!standing ELSE IF InLoadOrder THEN stack ELSE <<>>
seenInside == IF Running THEN {Inside} ELSE {}
SeenParts  == {"buffer", "dir", "file", "region", "cdev", "class", "nodes", "timer"}

Seen == INSTANCE LoadOrder WITH
  Parts <- SeenParts, Entries <- {"file", "cdev", "timer"},
  phase <- seenPhase, stack <- seenStack, inside <- seenInside

\* The operators on sequences mean the same in all modules.
LEMMA SameSequences ==
  \A s, x : /\ Seen!ToSet(s) = ToSet(s) /\ Seen!Front(s) = Front(s) /\ Seen!Last(s) = Last(s)
            /\ Kernel!ToSet(s) = ToSet(s) /\ Kernel!Front(s) = Front(s) /\ Kernel!Last(s) = Last(s)
            /\ PB!Front(s) = Front(s) /\ FD!Front(s) = Front(s) /\ DD!Front(s) = Front(s)
            /\ TT!Front(s) = Front(s) /\ TT!Last(s) = Last(s)
            /\ PB!Contains(s, x) = Contains(s, x) /\ FD!Contains(s, x) = Contains(s, x)
            /\ DD!Contains(s, x) = Contains(s, x) /\ TT!Contains(s, x) = Contains(s, x)
BY DEF Seen!ToSet, Kernel!ToSet, ToSet, Seen!Front, Kernel!Front, PB!Front, FD!Front, DD!Front, TT!Front, Front,
       Seen!Last, Kernel!Last, TT!Last, Last, PB!Contains, FD!Contains, DD!Contains, TT!Contains, Contains

\* A step of what is seen is a step of the kernel's specification.
LEMMA SeenIsKernel ==
  /\ Seen!Init => Kernel!Init
  /\ [Seen!Next]_(Seen!vars) => [Kernel!Next]_(Kernel!vars)
<1> USE DEF seenPhase, seenStack, seenInside, SeenParts
<1>1. Seen!Init => Kernel!Init
  BY DEF Seen!Init, Kernel!Init
<1>2. Seen!Make => Kernel!Make
  BY SameSequences DEF Seen!Make, Kernel!Make
<1>3. Seen!Leave => Kernel!Leave
  BY DEF Seen!Leave, Kernel!Leave
<1>4. Seen!Drop => Kernel!Drop
  BY SameSequences DEF Seen!Drop, Kernel!Drop
<1>5. Seen!Gone => Kernel!Gone
  BY DEF Seen!Gone, Kernel!Gone
<1>6. Seen!Enter => Kernel!Enter
  BY SameSequences DEF Seen!Enter, Kernel!Enter
<1>7. Seen!Exit => Kernel!Exit
  BY DEF Seen!Exit, Kernel!Exit
<1>8. Seen!vars' = Seen!vars => Kernel!vars' = Kernel!vars
  BY DEF Seen!vars, Kernel!vars
<1> QED  BY ONLY <1>1, <1>2, <1>3, <1>4, <1>5, <1>6, <1>7, <1>8 DEF Seen!Next, Kernel!Next

\* What each program shows, before and after a step.
LEMMA WhatIsSeen ==
  ASSUME which' = which
  PROVE  /\ InLoadOrder => seenPhase = phase /\ seenPhase' = phase'
         /\ InLoadOrder /\ which # "DynDev" => seenStack = stack /\ seenStack' = stack'
         /\ which = "DynDev" => seenStack = DD!standing /\ seenStack' = DD!standing'
         /\ which \in {"ProcBuffer", "TimingTracker"} =>
              /\ seenInside = IF \E c \in Callers : pc[c] # "outside" THEN {"file"} ELSE {}
              /\ seenInside' = IF \E c \in Callers : pc'[c] # "outside" THEN {"file"} ELSE {}
         /\ which \in {"FixDev", "DynDev"} =>
              /\ seenInside = IF \E c \in Callers : pc[c] # "outside" THEN {"cdev"} ELSE {}
              /\ seenInside' = IF \E c \in Callers : pc'[c] # "outside" THEN {"cdev"} ELSE {}
         /\ which = "HrTimer" =>
              /\ seenInside = IF fn # "idle" THEN {"timer"} ELSE {}
              /\ seenInside' = IF fn' # "idle" THEN {"timer"} ELSE {}
<1>1. InLoadOrder' = InLoadOrder
  BY DEF InLoadOrder
<1>2. InLoadOrder => seenPhase = phase /\ seenPhase' = phase'
  BY <1>1 DEF seenPhase
<1>3. InLoadOrder /\ which # "DynDev" => seenStack = stack /\ seenStack' = stack'
  BY <1>1 DEF seenStack
<1>4. which = "DynDev" => seenStack = DD!standing /\ seenStack' = DD!standing'
  BY DEF seenStack
<1>5. which \in {"ProcBuffer", "TimingTracker"} => Inside = "file" /\ Inside' = "file"
  BY DEF Inside
<1>6. which \in {"FixDev", "DynDev"} => Inside = "cdev" /\ Inside' = "cdev"
  BY DEF Inside
<1>7. which = "HrTimer" => Inside = "timer" /\ Inside' = "timer"
  BY DEF Inside
<1>8. which # "HrTimer" => /\ Running <=> \E c \in Callers : pc[c] # "outside"
                           /\ Running' <=> \E c \in Callers : pc'[c] # "outside"
  BY DEF Running
<1>9. which = "HrTimer" => (Running <=> fn # "idle") /\ (Running' <=> fn' # "idle")
  BY DEF Running
<1> QED  BY <1>2, <1>3, <1>4, <1>5, <1>6, <1>7, <1>8, <1>9 DEF seenInside

\* Calls through one entry come and go while the module stands still.
LEMMA CallsSeen ==
  ASSUME NEW e \in {"file", "cdev", "timer"},
         seenPhase' = seenPhase, seenStack' = seenStack,
         seenInside \in {{}, {e}}, seenInside' \in {{}, {e}},
         seenInside # {} \/ seenInside' # {} => e \in ToSet(seenStack)
  PROVE  [Seen!Next]_(Seen!vars)
<1>1. CASE seenInside' = seenInside
  BY <1>1 DEF Seen!vars
<1>2. CASE seenInside = {} /\ seenInside' = {e}
  <2>1. Seen!Enter
    BY <1>2, SameSequences DEF Seen!Enter
  <2> QED  BY <2>1 DEF Seen!Next
<1>3. CASE seenInside = {e} /\ seenInside' = {}
  <2>1. Seen!Exit
    BY <1>3 DEF Seen!Exit
  <2> QED  BY <2>1 DEF Seen!Next
<1> QED  BY <1>1, <1>2, <1>3

BufferParts == <<"buffer", "dir", "file">>
Standing(k) == SubSeq(BufferParts, 1, k)

\* The parts are made in one order, and calls run only while all of them stand.
BufferLoadInv ==
  /\ pc \in [Callers -> {"outside", "write", "read"}]
  /\ Len(stack) \in 0..3 /\ stack = Standing(Len(stack))
  /\ phase \in {"absent", "loading"} => Len(stack) <= 2
  /\ \A c \in Callers : pc[c] # "outside" => Len(stack) = 3

\* What a prefix of the parts is made of, and what is behind it.
LEMMA StandingFacts ==
  ASSUME NEW k \in 0..3
  PROVE  /\ Standing(k) \in Seq({"buffer", "dir", "file"}) /\ Len(Standing(k)) = k
         /\ \A i \in 1..k : Standing(k)[i] = BufferParts[i]
         /\ PB!Contains(Standing(k), "file") <=> k = 3
         /\ "file" \in ToSet(Standing(k)) <=> k = 3
         /\ Standing(k) = <<>> <=> k = 0
<1>1. BufferParts \in Seq({"buffer", "dir", "file"}) /\ Len(BufferParts) = 3
  BY DEF BufferParts
<1>2. /\ Standing(k) \in Seq({"buffer", "dir", "file"}) /\ Len(Standing(k)) = k
      /\ \A i \in 1..k : Standing(k)[i] = BufferParts[i]
  BY <1>1, Prefix DEF Standing
<1>3. BufferParts[1] = "buffer" /\ BufferParts[2] = "dir" /\ BufferParts[3] = "file"
  BY DEF BufferParts
<1>4. (\E i \in 1..k : Standing(k)[i] = "file") <=> k = 3
  <2>1. \A i \in 1..k : i \in {1, 2, 3} /\ (i = 3 => k = 3)
    OBVIOUS
  <2>2. k = 3 => 3 \in 1..k
    OBVIOUS
  <2>3. ASSUME NEW i \in 1..k, Standing(k)[i] = "file" PROVE k = 3
    BY <1>2, <1>3, <2>1, <2>3
  <2> QED  BY <1>2, <1>3, <2>2, <2>3
<1>5. DOMAIN Standing(k) = 1..k
  BY <1>2, LenProperties
<1>6. PB!Contains(Standing(k), "file") <=> k = 3
  BY <1>2, <1>4 DEF PB!Contains
<1>7. "file" \in ToSet(Standing(k)) <=> k = 3
  BY <1>4, <1>5 DEF ToSet
<1>8. Standing(k) = <<>> <=> k = 0
  BY <1>2, EmptySeq
<1> QED  BY <1>2, <1>6, <1>7, <1>8

\* The next part, and the last.
LEMMA StandingSteps ==
  /\ \A k \in 0..2 : /\ Standing(k + 1) = Append(Standing(k), BufferParts[k + 1])
                     /\ BufferParts[k + 1] \in {"buffer", "dir", "file"} \ ToSet(Standing(k))
  /\ \A k \in 1..3 : /\ PB!Front(Standing(k)) = Standing(k - 1)
                     /\ Last(Standing(k)) = BufferParts[k]
<1>0. /\ BufferParts[1] = "buffer" /\ BufferParts[2] = "dir" /\ BufferParts[3] = "file"
  BY DEF BufferParts
<1>1. ASSUME NEW k \in 0..2
      PROVE  /\ Standing(k + 1) = Append(Standing(k), BufferParts[k + 1])
             /\ BufferParts[k + 1] \in {"buffer", "dir", "file"} \ ToSet(Standing(k))
  <2>1. k + 1 \in 0..3 /\ k \in 0..3 /\ k \in Nat /\ k + 1 \in {1, 2, 3}
    OBVIOUS
  <2>2. /\ Standing(k) \in Seq({"buffer", "dir", "file"}) /\ Len(Standing(k)) = k
        /\ \A i \in 1..k : Standing(k)[i] = BufferParts[i]
    BY <2>1, StandingFacts
  <2>3. /\ Standing(k + 1) \in Seq({"buffer", "dir", "file"}) /\ Len(Standing(k + 1)) = k + 1
        /\ \A i \in 1..k + 1 : Standing(k + 1)[i] = BufferParts[i]
    BY <2>1, StandingFacts
  <2>4. PICK part \in {"buffer", "dir", "file"} : part = BufferParts[k + 1]
    BY <1>0, <2>1
  <2>5. ASSUME NEW s \in Seq({"buffer", "dir", "file"})
        PROVE  /\ Append(s, part) \in Seq({"buffer", "dir", "file"})
               /\ Len(Append(s, part)) = Len(s) + 1
               /\ Append(s, part)[Len(s) + 1] = part
               /\ \A i \in 1..Len(s) : Append(s, part)[i] = s[i]
    OBVIOUS
  <2>6. PICK made \in Seq({"buffer", "dir", "file"}) :
          /\ made = Append(Standing(k), part) /\ Len(made) = k + 1
          /\ made[k + 1] = part /\ \A i \in 1..k : made[i] = BufferParts[i]
    BY <2>2, <2>5
  <2>7. \A i \in 1..k + 1 : made[i] = Standing(k + 1)[i]
    <3>1. \A i \in 1..k + 1 : i \in 1..k \/ i = k + 1
      OBVIOUS
    <3> QED  BY <2>3, <2>4, <2>6, <3>1
  <2>8. made = Standing(k + 1)
    BY <2>3, <2>6, <2>7, SeqEqual
  <2>9. part \notin ToSet(Standing(k))
    <3>1. DOMAIN Standing(k) = 1..k
      BY <2>2, LenProperties
    <3>2. \A i \in 1..k : BufferParts[i] # part
      BY <1>0, <2>4
    <3> QED  BY <2>2, <3>1, <3>2 DEF ToSet
  <2> QED  BY <2>4, <2>6, <2>8, <2>9
<1>2. ASSUME NEW k \in 1..3
      PROVE  PB!Front(Standing(k)) = Standing(k - 1) /\ Last(Standing(k)) = BufferParts[k]
  <2>1. k - 1 \in 0..3 /\ k \in 0..3 /\ k \in 1..k
    OBVIOUS
  <2>2. /\ Standing(k) \in Seq({"buffer", "dir", "file"}) /\ Len(Standing(k)) = k
        /\ \A i \in 1..k : Standing(k)[i] = BufferParts[i]
    BY <2>1, StandingFacts
  <2>3. /\ Standing(k - 1) \in Seq({"buffer", "dir", "file"}) /\ Len(Standing(k - 1)) = k - 1
        /\ \A i \in 1..k - 1 : Standing(k - 1)[i] = BufferParts[i]
    BY <2>1, StandingFacts
  <2>4. k - 1 \in 0..Len(Standing(k))
    BY <2>2
  <2>5. PICK front \in Seq({"buffer", "dir", "file"}) :
          /\ front = PB!Front(Standing(k)) /\ Len(front) = k - 1
          /\ \A i \in 1..k - 1 : front[i] = Standing(k)[i]
    BY <2>2, <2>4, Prefix DEF PB!Front
  <2>6. \A i \in 1..k - 1 : i \in 1..k
    OBVIOUS
  <2>7. \A i \in 1..k - 1 : front[i] = Standing(k - 1)[i]
    BY <2>2, <2>3, <2>5, <2>6
  <2>8. front = Standing(k - 1)
    BY <2>3, <2>5, <2>7, SeqEqual
  <2> QED  BY <2>1, <2>2, <2>5, <2>8 DEF Last
<1> QED  BY <1>1, <1>2

\* Every step of the proc buffer's module keeps it.
LEMMA BufferLoadKept ==
  ASSUME BufferLoadInv, [PB!Next]_(PB!vars)
  PROVE  BufferLoadInv'
<1>0. PB!FileExists <=> Len(stack) = 3
  BY StandingFacts DEF BufferLoadInv, PB!FileExists
<1>1. ASSUME NEW c \in Callers, PB!Call(c) PROVE BufferLoadInv'
  <2>1. /\ UNCHANGED <<phase, stack>>
        /\ pc[c] # "outside" \/ PB!FileExists
        /\ \E there \in {"outside", "write", "read"} : pc' = [pc EXCEPT ![c] = there]
    BY <1>1 DEF PB!Call, PB!WriteBegin, PB!WriteEnd, PB!ReadBegin, PB!ReadEnd, PB!Goto, PB!loadVars
  <2>2. Len(stack) = 3
    BY <1>0, <2>1 DEF BufferLoadInv
  <2> QED  BY <2>1, <2>2 DEF BufferLoadInv
<1>2. CASE PB!MakePart
  <2>1. PICK k \in 0..2 : k = Len(stack)
    BY <1>2 DEF PB!MakePart, BufferLoadInv
  <2>2. /\ pc' = pc /\ stack' = Standing(k + 1)
        /\ phase' = IF k = 2 THEN "loaded" ELSE "loading"
    BY <1>2, <2>1 DEF PB!MakePart, PB!callVars, Standing, BufferParts
  <2>3. \A c \in Callers : pc[c] = "outside"
    <3>1. k # 3
      OBVIOUS
    <3>2. Len(stack) # 3
      BY <2>1, <3>1, Zenon
    <3> QED  BY <3>2, Zenon DEF BufferLoadInv
  <2>4. k + 1 \in 0..3 /\ (k # 2 => k + 1 <= 2)
    OBVIOUS
  <2>5. Len(stack') = k + 1
    BY <2>2, <2>4, StandingFacts
  <2> QED  BY <2>2, <2>3, <2>4, <2>5 DEF BufferLoadInv
<1>3. CASE PB!Leave \/ PB!Left
  BY <1>3 DEF PB!Leave, PB!Left, BufferLoadInv, PB!callVars
<1>4. CASE PB!DropPart
  <2>1. PICK k \in 0..3 : k = Len(stack)
    BY DEF BufferLoadInv
  <2>2. /\ pc' = pc /\ phase' = "leaving" /\ k \in 1..3
        /\ stack' = PB!Front(Standing(k))
        /\ \A c \in Callers : pc[c] = "outside"
    BY <1>0, <1>4, <2>1, StandingFacts DEF PB!DropPart, BufferLoadInv
  <2>3. stack' = Standing(k - 1) /\ k - 1 \in 0..3
    BY <2>2, StandingSteps
  <2>4. Len(stack') = k - 1
    BY <2>3, StandingFacts
  <2> QED  BY <2>2, <2>3, <2>4 DEF BufferLoadInv
<1>5. CASE UNCHANGED PB!vars
  BY <1>5 DEF PB!vars, PB!loadVars, PB!callVars, BufferLoadInv
<1> QED  BY <1>1, <1>2, <1>3, <1>4, <1>5 DEF PB!Next, PB!Load, PB!Halted

\* example_init and its error path, and example_exit: the file comes last and goes first,
\* when nobody is inside.
LEMMA BufferLoads ==
  ASSUME which = "ProcBuffer", which' = which, BufferLoadInv, [PB!Next]_(PB!vars)
  PROVE  [Seen!Next]_(Seen!vars)
<1> DEFINE inside == IF \E c \in Callers : pc[c] # "outside" THEN {"file"} ELSE {}
<1>0. /\ seenPhase = phase /\ seenPhase' = phase' /\ seenStack = stack /\ seenStack' = stack'
      /\ seenInside = inside /\ seenInside' = inside'
  BY WhatIsSeen DEF InLoadOrder
<1>1. /\ PB!FileExists <=> Len(stack) = 3
      /\ "file" \in ToSet(stack) <=> Len(stack) = 3
      /\ stack = <<>> <=> Len(stack) = 0
  BY StandingFacts DEF BufferLoadInv, PB!FileExists
<1>2. pc' = pc => inside' = inside
  OBVIOUS
<1>3. ASSUME NEW c \in Callers, PB!Call(c) PROVE [Seen!Next]_(Seen!vars)
  <2>1. /\ UNCHANGED <<phase, stack>>
        /\ pc[c] # "outside" \/ PB!FileExists
    BY <1>3 DEF PB!Call, PB!WriteBegin, PB!WriteEnd, PB!ReadBegin, PB!ReadEnd, PB!Goto, PB!loadVars
  <2>2. "file" \in ToSet(stack)
    BY <1>1, <2>1 DEF BufferLoadInv
  <2>3. inside \in {{}, {"file"}} /\ inside' \in {{}, {"file"}}
    OBVIOUS
  <2> HIDE DEF inside
  <2> QED  BY <1>0, <2>1, <2>2, <2>3, CallsSeen
<1>4. CASE PB!MakePart
  <2>1. phase \in {"absent", "loading"} /\ phase' \in {"loading", "loaded"} /\ inside' = inside
    BY <1>2, <1>4 DEF PB!MakePart, PB!callVars
  <2>2. Len(stack) \in 0..2 /\ stack' = Standing(Len(stack) + 1) /\ stack = Standing(Len(stack))
    BY <1>4 DEF PB!MakePart, BufferLoadInv, Standing, BufferParts
  <2>3. \E part \in {"buffer", "dir", "file"} \ ToSet(stack) : stack' = Append(stack, part)
    BY <2>2, StandingSteps
  <2> HIDE DEF inside
  <2>4. Seen!Make
    BY <1>0, <2>1, <2>3, SameSequences DEF Seen!Make, SeenParts
  <2> QED  BY <2>4 DEF Seen!Next
<1>5. CASE PB!Leave
  <2>1. Seen!Leave
    BY <1>0, <1>2, <1>5 DEF PB!Leave, PB!callVars, Seen!Leave
  <2> QED  BY <2>1 DEF Seen!Next
<1>6. CASE PB!DropPart
  <2>1. inside = {} /\ inside' = inside
    BY <1>1, <1>2, <1>6 DEF PB!DropPart, BufferLoadInv
  <2>2. Seen!Drop
    BY <1>0, <1>6, <2>1, SameSequences DEF PB!DropPart, Seen!Drop
  <2> QED  BY <2>2 DEF Seen!Next
<1>7. CASE PB!Left
  <2>1. Seen!Gone
    BY <1>0, <1>2, <1>7 DEF PB!Left, PB!callVars, Seen!Gone
  <2> QED  BY <2>1 DEF Seen!Next
<1>8. CASE UNCHANGED PB!vars \/ PB!Halted
  BY <1>0, <1>2, <1>8 DEF PB!Halted, PB!vars, PB!loadVars, PB!callVars, Seen!vars
<1> QED  BY <1>3, <1>4, <1>5, <1>6, <1>7, <1>8 DEF PB!Next, PB!Load

-----------------------------------------------------------------------------

\* FixDev: the parts are made in one order, and the device is open only while both stand.
DeviceLoadInv ==
  /\ pc \in [Callers -> {"outside", "passed", "opening", "open", "closing"}]
  /\ stack \in {<<>>, <<"region">>, <<"region", "cdev">>}
  /\ phase \in {"absent", "loading", "loaded", "leaving", "gone"}
  /\ phase \in {"absent", "gone"} => stack = <<>>
  /\ phase = "loading" => stack = <<"region">>
  /\ phase = "loaded" => stack = <<"region", "cdev">>
  /\ \A c \in Callers : pc[c] # "outside" => phase = "loaded"

\* The sequences the parts can be.
LEMMA RegionAndCdev ==
  /\ <<>> # <<"region">> /\ <<>> # <<"region", "cdev">> /\ <<"region">> # <<"region", "cdev">>
  /\ Len(<<>>) = 0 /\ Len(<<"region">>) = 1 /\ Len(<<"region", "cdev">>) = 2
  /\ SubSeq(<<"region", "cdev">>, 1, 1) = <<"region">>
  /\ SubSeq(<<"region", "cdev">>, 1, 2) = <<"region", "cdev">>
  /\ Append(<<>>, "region") = <<"region">>
  /\ Append(<<"region">>, "cdev") = <<"region", "cdev">>
  /\ Front(<<"region">>) = <<>> /\ Front(<<"region", "cdev">>) = <<"region">>
  /\ ~Contains(<<>>, "cdev") /\ ~Contains(<<"region">>, "cdev")
  /\ ToSet(<<>>) = {} /\ ToSet(<<"region">>) = {"region"}
  /\ ToSet(<<"region", "cdev">>) = {"region", "cdev"}
<1>1. ToSet(<<>>) = {} /\ ToSet(<<"region">>) = {"region"}
      /\ ToSet(<<"region", "cdev">>) = {"region", "cdev"}
  BY DEF ToSet
<1>2. ~Contains(<<>>, "cdev") /\ ~Contains(<<"region">>, "cdev")
  BY DEF Contains
<1>3. <<>> # <<"region">> /\ <<>> # <<"region", "cdev">> /\ <<"region">> # <<"region", "cdev">>
      /\ Len(<<>>) = 0
  OBVIOUS
<1>4. /\ Len(<<"region">>) = 1 /\ Len(<<"region", "cdev">>) = 2
      /\ SubSeq(<<"region">>, 1, 0) = <<>>
      /\ SubSeq(<<"region", "cdev">>, 1, 1) = <<"region">>
      /\ SubSeq(<<"region", "cdev">>, 1, 2) = <<"region", "cdev">>
      /\ Append(<<>>, "region") = <<"region">>
      /\ Append(<<"region">>, "cdev") = <<"region", "cdev">>
  BY TwoInARow, Zenon
<1>5. Front(<<"region">>) = <<>> /\ Front(<<"region", "cdev">>) = <<"region">>
  BY <1>4 DEF Front
<1> QED  BY <1>1, <1>2, <1>3, <1>4, <1>5, Zenon

\* Every step of fixdev.c keeps it.
LEMMA DeviceLoadKept ==
  ASSUME DeviceLoadInv, [FD!Next]_(FD!vars)
  PROVE  DeviceLoadInv'
<1>1. ASSUME NEW c \in Callers, FD!Call(c) PROVE DeviceLoadInv'
  <2>1. /\ UNCHANGED <<phase, stack>>
        /\ pc[c] # "outside" \/ (Contains(stack, "cdev") /\ phase # "leaving")
        /\ pc' = pc \/ \E there \in {"outside", "passed", "opening", "open", "closing"} :
                         pc' = [pc EXCEPT ![c] = there]
    BY <1>1, SameSequences DEF FD!Call, FD!OpenTest, FD!OpenLoad, FD!OpenStore, FD!Read, FD!ReleaseLoad,
                               FD!ReleaseStore, FD!Goto, FD!loadVars
  <2>2. phase = "loaded"
    BY <2>1, RegionAndCdev DEF DeviceLoadInv
  <2> QED  BY <2>1, <2>2 DEF DeviceLoadInv
<1>2. CASE FD!MakePart
  <2>1. pc' = pc /\ \A c \in Callers : pc[c] = "outside"
    BY <1>2 DEF FD!MakePart, DeviceLoadInv, FD!callVars
  <2>2. CASE stack = <<>>
    <3>1. stack' = <<"region">> /\ phase' = "loading"
      BY <1>2, <2>2, RegionAndCdev DEF FD!MakePart
    <3> QED  BY <2>1, <3>1 DEF DeviceLoadInv
  <2>3. CASE stack = <<"region">>
    <3>1. stack' = <<"region", "cdev">> /\ phase' = "loaded"
      BY <1>2, <2>3, RegionAndCdev DEF FD!MakePart
    <3> QED  BY <2>1, <3>1 DEF DeviceLoadInv
  <2> QED  BY <1>2, <2>2, <2>3 DEF FD!MakePart, DeviceLoadInv
<1>3. CASE FD!Leave \/ FD!Left
  BY <1>3 DEF FD!Leave, FD!Left, DeviceLoadInv, FD!callVars
<1>4. CASE FD!DropPart
  BY <1>4, RegionAndCdev, SameSequences DEF FD!DropPart, DeviceLoadInv, FD!callVars
<1>5. CASE UNCHANGED FD!vars
  BY <1>5 DEF FD!vars, FD!loadVars, FD!callVars, DeviceLoadInv
<1> QED  BY <1>1, <1>2, <1>3, <1>4, <1>5 DEF FD!Next, FD!Load, FD!Halted

\* cdev_add comes after register_chrdev_region and cdev_del before unregister_chrdev_region,
\* also when either fails, and rmmod waits for those who have the device open.
LEMMA DeviceLoads ==
  ASSUME which = "FixDev", which' = which, DeviceLoadInv, [FD!Next]_(FD!vars)
  PROVE  [Seen!Next]_(Seen!vars)
<1> DEFINE inside == IF \E c \in Callers : pc[c] # "outside" THEN {"cdev"} ELSE {}
<1>0. /\ seenPhase = phase /\ seenPhase' = phase' /\ seenStack = stack /\ seenStack' = stack'
      /\ seenInside = inside /\ seenInside' = inside'
  BY WhatIsSeen DEF InLoadOrder
<1>1. pc' = pc => inside' = inside
  OBVIOUS
<1>2. ASSUME NEW c \in Callers, FD!Call(c) PROVE [Seen!Next]_(Seen!vars)
  <2>1. /\ UNCHANGED <<phase, stack>>
        /\ pc[c] # "outside" \/ (Contains(stack, "cdev") /\ phase # "leaving")
    BY <1>2, SameSequences DEF FD!Call, FD!OpenTest, FD!OpenLoad, FD!OpenStore, FD!Read, FD!ReleaseLoad,
                               FD!ReleaseStore, FD!Goto, FD!loadVars
  <2>2. ToSet(stack) = {"region", "cdev"}
    BY <2>1, RegionAndCdev DEF DeviceLoadInv
  <2>3. inside \in {{}, {"cdev"}} /\ inside' \in {{}, {"cdev"}}
    OBVIOUS
  <2> HIDE DEF inside
  <2> QED  BY <1>0, <2>1, <2>2, <2>3, CallsSeen
<1>3. CASE FD!MakePart
  <2>1. phase \in {"absent", "loading"} /\ phase' \in {"loading", "loaded"} /\ inside' = inside
    BY <1>1, <1>3 DEF FD!MakePart, FD!callVars
  <2>2. stack = <<>> \/ stack = <<"region">>
    BY <1>3 DEF FD!MakePart, DeviceLoadInv
  <2>3. stack = <<>> => stack' = <<"region">>
    BY <1>3, RegionAndCdev DEF FD!MakePart
  <2>4. stack = <<"region">> => stack' = <<"region", "cdev">>
    BY <1>3, RegionAndCdev DEF FD!MakePart
  <2>5. \/ stack = <<>> /\ stack' = Append(stack, "region")
        \/ stack = <<"region">> /\ stack' = Append(stack, "cdev")
    BY <2>2, <2>3, <2>4, RegionAndCdev, Zenon
  <2>6. \E part \in {"region", "cdev"} \ ToSet(stack) : stack' = Append(stack, part)
    BY <2>5, RegionAndCdev
  <2> HIDE DEF inside
  <2>7. Seen!Make
    BY <1>0, <2>1, <2>6, SameSequences DEF Seen!Make, SeenParts
  <2> QED  BY <2>7 DEF Seen!Next
<1>4. CASE FD!Leave
  <2>1. Seen!Leave
    BY <1>0, <1>1, <1>4 DEF FD!Leave, FD!callVars, Seen!Leave
  <2> QED  BY <2>1 DEF Seen!Next
<1>5. CASE FD!DropPart
  <2>1. inside = {} /\ inside' = inside
    BY <1>1, <1>5 DEF FD!DropPart, DeviceLoadInv, FD!callVars
  <2>2. Seen!Drop
    BY <1>0, <1>5, <2>1, SameSequences DEF FD!DropPart, Seen!Drop
  <2> QED  BY <2>2 DEF Seen!Next
<1>6. CASE FD!Left
  <2>1. Seen!Gone
    BY <1>0, <1>1, <1>6 DEF FD!Left, FD!callVars, Seen!Gone
  <2> QED  BY <2>1 DEF Seen!Next
<1>7. CASE UNCHANGED FD!vars \/ FD!Halted
  BY <1>0, <1>1, <1>7 DEF FD!Halted, FD!vars, FD!loadVars, FD!callVars, Seen!vars
<1> QED  BY <1>2, <1>3, <1>4, <1>5, <1>6, <1>7 DEF FD!Next, FD!Load

-----------------------------------------------------------------------------

\* TimingTracker: the class and the file, either of which may be missing.
LEMMA TimingLoads ==
  ASSUME which = "TimingTracker", which' = which, TimingLoadInv, [TT!Next]_(TT!vars)
  PROVE  [Seen!Next]_(Seen!vars)
<1> DEFINE inside == IF \E c \in Callers : pc[c] # "outside" THEN {"file"} ELSE {}
<1>0. /\ seenPhase = phase /\ seenPhase' = phase' /\ seenStack = stack /\ seenStack' = stack'
      /\ seenInside = inside /\ seenInside' = inside'
  BY WhatIsSeen DEF InLoadOrder
<1>1. pc' = pc => inside' = inside
  OBVIOUS
<1>2. ToSet(<<>>) = {} /\ ToSet(<<"class">>) = {"class"} /\ ToSet(<<"class", "file">>) = {"class", "file"}
  BY DEF ToSet
<1>3. ASSUME NEW c \in Callers, TT!Show(c) PROVE [Seen!Next]_(Seen!vars)
  <2>1. /\ UNCHANGED <<phase, stack>>
        /\ pc[c] # "outside" \/ TT!Contains(stack, "file")
    BY <1>3 DEF TT!Show, TT!ShowBegin, TT!ShowPrint, TT!ShowStore, TT!Goto, TT!loadVars
  <2>2. "file" \in ToSet(stack)
    BY <1>2, <2>1, ClassAndFile DEF TimingLoadInv
  <2>3. inside \in {{}, {"file"}} /\ inside' \in {{}, {"file"}}
    OBVIOUS
  <2> HIDE DEF inside
  <2> QED  BY <1>0, <2>1, <2>2, <2>3, CallsSeen
<1>4. CASE TT!LoadTime \/ TT!CreateClass \/ TT!CreateFile
  <2>1. phase \in {"absent", "loading"} /\ phase' \in {"loading", "loaded"} /\ inside' = inside
    BY <1>1, <1>4 DEF TT!LoadTime, TT!CreateClass, TT!CreateFile, TT!showVars
  <2>2. Append(<<>>, "class") = <<"class">>
    OBVIOUS
  <2>3. stack' = stack \/ \E part \in {"class", "file"} \ ToSet(stack) : stack' = Append(stack, part)
    BY <1>2, <1>4, <2>1, <2>2 DEF TT!LoadTime, TT!CreateClass, TT!CreateFile, TimingLoadInv
  <2> HIDE DEF inside
  <2>4. Seen!Make
    BY <1>0, <2>1, <2>3, SameSequences DEF Seen!Make, SeenParts
  <2> QED  BY <2>4 DEF Seen!Next
<1>5. CASE TT!Leave
  <2>1. Seen!Leave
    BY <1>0, <1>1, <1>5 DEF TT!Leave, TT!showVars, Seen!Leave
  <2> QED  BY <2>1 DEF Seen!Next
<1>6. CASE TT!DropPart
  <2>1. inside' = inside /\ Last(stack) \notin inside
    BY <1>1, <1>6, SameSequences DEF TT!DropPart, TT!showVars
  <2> HIDE DEF inside
  <2>2. Seen!Drop
    BY <1>0, <1>6, <2>1, SameSequences DEF TT!DropPart, Seen!Drop
  <2> QED  BY <2>2 DEF Seen!Next
<1>7. CASE TT!Left
  <2>1. Seen!Gone
    BY <1>0, <1>1, <1>7 DEF TT!Left, TT!showVars, Seen!Gone
  <2> QED  BY <2>1 DEF Seen!Next
<1>8. CASE UNCHANGED TT!vars \/ TT!Halted \/ TT!Tick
  BY <1>0, <1>1, <1>8 DEF TT!Halted, TT!Tick, TT!vars, TT!loadVars, TT!showVars, Seen!vars
<1> QED  BY <1>3, <1>4, <1>5, <1>6, <1>7, <1>8 DEF TT!Next, TT!Load

\* HrTimer: the callback runs inside of the timer, and hrtimer_cancel waits for it.
LEMMA CancelLoads ==
  ASSUME which = "HrTimer", which' = which, CancelInv, [HT!Next]_(HT!vars)
  PROVE  [Seen!Next]_(Seen!vars)
<1> DEFINE inside == IF fn # "idle" THEN {"timer"} ELSE {}
<1>0. /\ seenPhase = phase /\ seenPhase' = phase' /\ seenStack = stack /\ seenStack' = stack'
      /\ seenInside = inside /\ seenInside' = inside'
  BY WhatIsSeen DEF InLoadOrder
<1>1. fn' = fn => inside' = inside
  OBVIOUS
<1>2. ToSet(<<>>) = {} /\ ToSet(<<"timer">>) = {"timer"} /\ <<>> # <<"timer">>
      /\ Append(<<>>, "timer") = <<"timer">>
  BY DEF ToSet
<1>3. Front(<<"timer">>) = <<>>
  BY TwoInARow DEF Front
<1>4. CASE HT!TimerStep
  <2>1. UNCHANGED <<phase, stack>> /\ (armed \/ fn # "idle")
    BY <1>4 DEF HT!TimerStep, HT!Expire, HT!Forward, HT!Restart
  <2>2. "timer" \in ToSet(stack)
    BY <1>2, <2>1 DEF CancelInv
  <2>3. inside \in {{}, {"timer"}} /\ inside' \in {{}, {"timer"}}
    OBVIOUS
  <2> HIDE DEF inside
  <2> QED  BY <1>0, <2>1, <2>2, <2>3, CallsSeen
<1>5. CASE HT!Start
  <2>1. stack = <<>> /\ stack' = Append(stack, "timer") /\ inside' = inside
    BY <1>1, <1>2, <1>5 DEF HT!Start, CancelInv
  <2>2. Seen!Make
    BY <1>0, <1>2, <1>5, <2>1, SameSequences DEF HT!Start, Seen!Make, SeenParts
  <2> QED  BY <2>2 DEF Seen!Next
<1>6. CASE HT!Leave
  <2>1. Seen!Leave
    BY <1>0, <1>1, <1>6 DEF HT!Leave, Seen!Leave
  <2> QED  BY <2>1 DEF Seen!Next
<1>7. CASE HT!Cancel
  <2>1. inside = {} /\ inside' = inside /\ stack' = Front(stack)
    BY <1>1, <1>3, <1>7 DEF HT!Cancel, HT!Cancellable, CancelInv
  <2>2. Seen!Drop
    BY <1>0, <1>7, <2>1, SameSequences DEF HT!Cancel, Seen!Drop
  <2> QED  BY <2>2 DEF Seen!Next
<1>8. CASE HT!Left
  <2>1. Seen!Gone
    BY <1>0, <1>1, <1>8 DEF HT!Left, Seen!Gone
  <2> QED  BY <2>1 DEF Seen!Next
<1>9. CASE UNCHANGED HT!vars \/ HT!Halted
  BY <1>0, <1>1, <1>9 DEF HT!Halted, HT!vars, Seen!vars
<1> QED  BY <1>4, <1>5, <1>6, <1>7, <1>8, <1>9 DEF HT!Next

-----------------------------------------------------------------------------

\* What Append adds, Front takes away.
LEMMA AppendSeen ==
  ASSUME NEW S, NEW s \in Seq(S), NEW e \in S
  PROVE  /\ Append(s, e) \in Seq(S) /\ Len(Append(s, e)) = Len(s) + 1 /\ Append(s, e) # <<>>
         /\ Front(Append(s, e)) = s /\ Last(Append(s, e)) = e
         /\ ToSet(Append(s, e)) = ToSet(s) \cup {e}
<1>0. /\ Append(s, e) \in Seq(S) /\ Len(Append(s, e)) = Len(s) + 1
      /\ Append(s, e)[Len(s) + 1] = e /\ \A k \in 1..Len(s) : Append(s, e)[k] = s[k]
  OBVIOUS
<1>1. PICK t \in Seq(S) : /\ t = Append(s, e) /\ Len(t) = Len(s) + 1
                          /\ t[Len(s) + 1] = e /\ \A k \in 1..Len(s) : t[k] = s[k]
  BY <1>0, Zenon
<1>2. PICK n \in Nat : n = Len(s)
  BY LenProperties
<1>3. Len(t) = n + 1 /\ t[n + 1] = e /\ \A k \in 1..n : t[k] = s[k]
  BY <1>1, <1>2
<1>4. t # <<>> /\ n \in 0..Len(t)
  BY <1>2, <1>3, EmptySeq
<1>5. PICK front \in Seq(S) : front = SubSeq(t, 1, n) /\ Len(front) = n /\ \A i \in 1..n : front[i] = t[i]
  BY <1>4, Prefix
<1>6. front = s
  BY <1>2, <1>3, <1>5, SeqEqual
<1>7. Len(t) - 1 = n
  BY <1>2, <1>3
<1>8. Front(t) = s /\ Last(t) = e
  BY <1>3, <1>5, <1>6, <1>7 DEF Front, Last
<1>9. ToSet(t) = ToSet(s) \cup {e}
  <2>1. DOMAIN t = 1..n + 1 /\ DOMAIN s = 1..n
    BY <1>2, <1>3, LenProperties
  <2>2. 1..n + 1 = 1..n \cup {n + 1}
    BY <1>2
  <2> QED  BY <1>3, <2>1, <2>2 DEF ToSet
<1> QED  BY <1>1, <1>4, <1>8, <1>9

WithClass == Append(<<"region", "cdev">>, "class")

\* DynDev: nodes only in a class; the first are made first, and dev_exit goes by the same
\* numbers, so that none is left when its loop is done.
NodesInv ==
  /\ pc \in [Callers -> {"outside", "open"}]
  /\ stack \in {<<>>, <<"region">>, <<"region", "cdev">>, WithClass}
  /\ phase \in {"absent", "loading", "loaded", "leaving", "gone"}
  /\ phase \in {"absent", "gone"} => stack = <<>>
  /\ phase = "loaded" => next = DeviceCount /\ stack \in {<<"region", "cdev">>, WithClass}
  /\ next \in Nat /\ nodes \in SUBSET Nat
  /\ failed \/ stack # WithClass => nodes = {}
  /\ phase \in {"absent", "loading"} /\ failed => stack = <<"region", "cdev">>
  /\ phase \in {"absent", "loading", "loaded"} => \A i \in nodes : i < next
  /\ phase = "leaving" => \A i \in nodes : next <= i /\ i < DeviceCount
  /\ \A c \in Callers : pc[c] # "outside" =>
       phase \in {"loading", "loaded"} /\ stack \in {<<"region", "cdev">>, WithClass}

\* The sequences the parts can be.
LEMMA DynDevParts ==
  /\ Len(WithClass) = 3 /\ Front(WithClass) = <<"region", "cdev">>
  /\ WithClass \notin {<<>>, <<"region">>, <<"region", "cdev">>}
  /\ ToSet(WithClass) = {"region", "cdev", "class"}
  /\ WithClass \in Seq(SeenParts) /\ <<"region", "cdev">> \in Seq(SeenParts)
<1>0. <<"region", "cdev">> \in Seq(SeenParts) /\ "class" \in SeenParts
  BY DEF SeenParts
<1>1. PICK both \in Seq(SeenParts) : both = <<"region", "cdev">>
  BY <1>0
<1>2. ToSet(both) = {"region", "cdev"} /\ Len(both) = 2
  BY <1>1, RegionAndCdev
<1>3. /\ Append(both, "class") \in Seq(SeenParts) /\ Len(Append(both, "class")) = Len(both) + 1
      /\ Front(Append(both, "class")) = both
      /\ ToSet(Append(both, "class")) = ToSet(both) \cup {"class"}
  BY <1>0, AppendSeen, Zenon
<1>4. WithClass = Append(both, "class")
  BY <1>1 DEF WithClass
<1>5. ToSet(WithClass) = {"region", "cdev", "class"}
  BY <1>2, <1>3, <1>4
<1>6. Len(WithClass) = 3
  BY <1>2, <1>3, <1>4
<1> QED  BY <1>0, <1>1, <1>3, <1>4, <1>5, <1>6, RegionAndCdev

\* Every step of dyndev.c keeps it.
LEMMA NodesKept ==
  ASSUME NodesInv, [DD!Next]_(DD!vars)
  PROVE  NodesInv'
<1>0. /\ stack = <<>> => Len(stack) = 0
      /\ stack = <<"region">> => Len(stack) = 1
      /\ stack = <<"region", "cdev">> => Len(stack) = 2
      /\ stack = WithClass => Len(stack) = 3
  BY RegionAndCdev, DynDevParts
<1>1. ASSUME NEW c \in Callers, DD!Call(c) PROVE NodesInv'
  <2>1. /\ UNCHANGED <<phase, stack, nodes, next, failed>>
        /\ pc[c] # "outside" \/ (Contains(stack, "cdev") /\ phase # "leaving")
        /\ pc' = pc \/ \E there \in {"outside", "open"} : pc' = [pc EXCEPT ![c] = there]
    BY <1>1, SameSequences DEF DD!Call, DD!Open, DD!Read, DD!Close, DD!loadVars, DD!nodeVars
  <2>2. phase \in {"loading", "loaded"} /\ stack \in {<<"region", "cdev">>, WithClass}
    BY <2>1, RegionAndCdev DEF NodesInv
  <2> QED  BY <2>1, <2>2 DEF NodesInv
<1>2. CASE DD!MakePart
  <2>1. pc' = pc /\ nodes' = nodes /\ next' = next /\ failed' = failed /\ phase' = "loading"
        /\ stack \in {<<>>, <<"region">>}
    BY <1>0, <1>2 DEF DD!MakePart, DD!Failing, DD!nodeVars, DD!callVars, NodesInv
  <2>2. \A c \in Callers : pc[c] = "outside"
    BY <2>1, RegionAndCdev, DynDevParts DEF NodesInv
  <2>3. nodes = {} /\ ~failed
    BY <1>2, <2>1, RegionAndCdev, DynDevParts DEF DD!MakePart, DD!Failing, NodesInv
  <2>4. stack' \in {<<"region">>, <<"region", "cdev">>}
    <3>1. stack = <<>> => stack' = <<"region">>
      BY <1>2, RegionAndCdev DEF DD!MakePart
    <3>2. stack = <<"region">> => stack' = <<"region", "cdev">>
      BY <1>2, RegionAndCdev DEF DD!MakePart
    <3> QED  BY <2>1, <3>1, <3>2
  <2> QED  BY <2>1, <2>2, <2>3, <2>4 DEF NodesInv
<1>3. CASE DD!Fail
  <2>1. pc' = pc /\ nodes' = nodes /\ next' = next /\ failed' = failed /\ phase' = "leaving" /\ stack' = stack
        /\ stack \in {<<>>, <<"region">>}
    BY <1>0, <1>3 DEF DD!Fail, DD!Failing, DD!nodeVars, DD!callVars, NodesInv
  <2>2. \A c \in Callers : pc[c] = "outside"
    BY <2>1, RegionAndCdev, DynDevParts DEF NodesInv
  <2>3. nodes = {}
    BY <2>1, DynDevParts DEF NodesInv
  <2> QED  BY <2>1, <2>2, <2>3 DEF NodesInv
<1>4. CASE DD!CreateClass
  <2>0. stack = <<"region", "cdev">>
    BY <1>0, <1>4 DEF DD!CreateClass, NodesInv
  <2>1. /\ UNCHANGED <<pc, phase, nodes, next>> /\ phase = "loading"
        /\ (stack' = WithClass /\ ~failed') \/ stack' = stack
    BY <1>4, <2>0 DEF DD!CreateClass, DD!callVars, WithClass
  <2>2. nodes = {}
    BY <2>0, DynDevParts DEF NodesInv
  <2> QED  BY <2>0, <2>1, <2>2 DEF NodesInv
<1>5. CASE DD!CreateNode
  <2>1. /\ UNCHANGED <<pc, stack, failed>> /\ phase = "loading" /\ next' = next + 1
        /\ failed \/ stack = WithClass
        /\ phase' = IF next' = DeviceCount THEN "loaded" ELSE "loading"
    BY <1>0, <1>5 DEF DD!CreateNode, DD!callVars, NodesInv
  <2>2. PICK made \in SUBSET {next} : (failed => made = {}) /\ nodes' = nodes \cup made
    BY <1>5, Zenon DEF DD!CreateNode
  <2>3. failed => stack \in {<<"region", "cdev">>, WithClass}
    BY <2>1 DEF NodesInv
  <2> QED  BY <2>1, <2>2, <2>3 DEF NodesInv
<1>6. CASE DD!Leave
  <2>1. /\ UNCHANGED <<pc, stack, nodes, failed>> /\ phase = "loaded" /\ phase' = "leaving" /\ next' = 0
        /\ \A c \in Callers : pc[c] = "outside"
    BY <1>6 DEF DD!Leave, DD!callVars
  <2> QED  BY <2>1 DEF NodesInv
<1>7. CASE DD!DestroyNode
  <2>1. /\ UNCHANGED <<pc, phase, stack, failed>> /\ phase = "leaving" /\ next' = next + 1
        /\ nodes' = IF failed THEN nodes ELSE nodes \ {next}
    BY <1>7 DEF DD!DestroyNode, DD!callVars
  <2> QED  BY <2>1 DEF NodesInv
<1>8. CASE DD!DropPart
  <2>1. /\ UNCHANGED <<pc, phase, nodes, next, failed>> /\ phase = "leaving"
        /\ stack # <<>> /\ stack' = Front(stack)
        /\ stack = WithClass => next = DeviceCount
    BY <1>0, <1>8, SameSequences DEF DD!DropPart, DD!nodeVars, DD!callVars, DD!Visited
  <2>2. nodes = {}
    BY <2>1 DEF NodesInv
  <2>3. stack' \in {<<>>, <<"region">>, <<"region", "cdev">>}
    BY <2>1, RegionAndCdev, DynDevParts DEF NodesInv
  <2> QED  BY <2>1, <2>2, <2>3 DEF NodesInv
<1>9. CASE DD!Left
  <2>1. /\ UNCHANGED <<pc, stack, nodes, next, failed>> /\ phase = "leaving" /\ phase' = "gone" /\ stack = <<>>
    BY <1>9 DEF DD!Left, DD!nodeVars, DD!callVars
  <2>2. nodes = {} /\ \A c \in Callers : pc[c] = "outside"
    BY <2>1, DynDevParts DEF NodesInv
  <2> QED  BY <2>1, <2>2 DEF NodesInv
<1>10. CASE DD!Halted \/ UNCHANGED DD!vars
  <2>1. UNCHANGED <<pc, phase, stack, nodes, next, failed>>
    BY <1>10 DEF DD!Halted, DD!vars, DD!loadVars, DD!nodeVars, DD!callVars
  <2> QED  BY <2>1 DEF NodesInv
<1> QED  BY <1>1, <1>2, <1>3, <1>4, <1>5, <1>6, <1>7, <1>8, <1>9, <1>10 DEF DD!Next, DD!Load, DD!Unload

\* The nodes are one part, made with the first of them and gone with the last: dev_exit
\* destroys them, the class, the device and the region, in this order, when nobody has the
\* device open.
LEMMA NodesLoad ==
  ASSUME which = "DynDev", which' = which, NodesInv, NodesInv', [DD!Next]_(DD!vars)
  PROVE  [Seen!Next]_(Seen!vars)
<1> DEFINE inside == IF \E c \in Callers : pc[c] # "outside" THEN {"cdev"} ELSE {}
<1>0. /\ seenPhase = phase /\ seenPhase' = phase'
      /\ seenStack = DD!standing /\ seenStack' = DD!standing'
      /\ seenInside = inside /\ seenInside' = inside'
  BY WhatIsSeen DEF InLoadOrder
<1>1. pc' = pc => inside' = inside
  OBVIOUS
<1>2. /\ nodes = {} => DD!standing = stack
      /\ nodes' = {} => DD!standing' = stack'
      /\ nodes # {} => DD!standing = Append(stack, "nodes") /\ stack = WithClass
      /\ nodes' # {} => DD!standing' = Append(stack', "nodes") /\ stack' = WithClass
  BY DEF DD!standing, NodesInv
<1>3. /\ Append(WithClass, "nodes") # <<>>
      /\ Front(Append(WithClass, "nodes")) = WithClass /\ Last(Append(WithClass, "nodes")) = "nodes"
      /\ ToSet(Append(WithClass, "nodes")) = ToSet(WithClass) \cup {"nodes"}
  <2>1. "nodes" \in SeenParts /\ WithClass \in Seq(SeenParts)
    BY DynDevParts DEF SeenParts
  <2> QED  BY <2>1, AppendSeen
<1>4. /\ stack = <<>> => Len(stack) = 0
      /\ stack = <<"region">> => Len(stack) = 1
      /\ stack = <<"region", "cdev">> => Len(stack) = 2
      /\ stack = WithClass => Len(stack) = 3
  BY RegionAndCdev, DynDevParts
<1>5. ASSUME NEW c \in Callers, DD!Call(c) PROVE [Seen!Next]_(Seen!vars)
  <2>1. /\ UNCHANGED <<phase, stack, nodes>>
        /\ pc[c] # "outside" \/ Contains(stack, "cdev")
    BY <1>5, SameSequences DEF DD!Call, DD!Open, DD!Read, DD!Close, DD!loadVars, DD!nodeVars
  <2>2. stack \in {<<"region", "cdev">>, WithClass}
    BY <2>1, RegionAndCdev DEF NodesInv
  <2>3. "cdev" \in ToSet(DD!standing)
    BY <1>2, <1>3, <2>2, RegionAndCdev, DynDevParts
  <2>4. DD!standing' = DD!standing
    BY <2>1 DEF DD!standing
  <2>5. inside \in {{}, {"cdev"}} /\ inside' \in {{}, {"cdev"}}
    OBVIOUS
  <2> HIDE DEF inside
  <2> QED  BY <1>0, <2>1, <2>3, <2>4, <2>5, CallsSeen
<1>6. ASSUME pc' = pc, phase \in {"absent", "loading"}, phase' \in {"loading", "loaded"},
             \/ DD!standing' = DD!standing
             \/ \E part \in SeenParts \ ToSet(DD!standing) : DD!standing' = Append(DD!standing, part)
      PROVE  [Seen!Next]_(Seen!vars)
  <2>1. inside' = inside
    BY <1>1, <1>6
  <2> HIDE DEF inside
  <2>2. Seen!Make
    BY <1>0, <1>6, <2>1, SameSequences DEF Seen!Make
  <2> QED  BY <2>2 DEF Seen!Next
<1>7. CASE DD!MakePart
  <2>1. /\ pc' = pc /\ nodes' = nodes /\ phase \in {"absent", "loading"} /\ phase' = "loading"
        /\ stack \in {<<>>, <<"region">>}
    BY <1>4, <1>7 DEF DD!MakePart, DD!Failing, DD!nodeVars, DD!callVars, NodesInv
  <2>2. nodes = {} /\ nodes' = {}
    BY <2>1, DynDevParts DEF NodesInv
  <2>3. stack = <<>> => stack' = <<"region">>
    BY <1>7, RegionAndCdev DEF DD!MakePart
  <2>4. stack = <<"region">> => stack' = <<"region", "cdev">>
    BY <1>7, RegionAndCdev DEF DD!MakePart
  <2>5. \/ stack = <<>> /\ stack' = Append(stack, "region")
        \/ stack = <<"region">> /\ stack' = Append(stack, "cdev")
    BY <2>1, <2>3, <2>4, RegionAndCdev, Zenon
  <2>6. \E part \in SeenParts \ ToSet(stack) : stack' = Append(stack, part)
    BY <2>5, RegionAndCdev DEF SeenParts
  <2> QED  BY <1>2, <1>6, <2>1, <2>2, <2>6
<1>8. CASE DD!CreateClass
  <2>1. /\ pc' = pc /\ nodes' = nodes /\ phase' = phase /\ phase = "loading"
        /\ stack = <<"region", "cdev">> /\ stack' \in {stack, Append(stack, "class")}
    BY <1>4, <1>8 DEF DD!CreateClass, DD!callVars, NodesInv
  <2>2. nodes = {} /\ nodes' = {}
    BY <2>1, DynDevParts DEF NodesInv
  <2>3. "class" \in SeenParts \ ToSet(stack)
    BY <2>1, RegionAndCdev DEF SeenParts
  <2> QED  BY <1>2, <1>6, <2>1, <2>2, <2>3
<1>9. CASE DD!CreateNode
  <2>1. /\ pc' = pc /\ stack' = stack /\ phase = "loading" /\ phase' \in {"loading", "loaded"}
        /\ nodes \subseteq nodes'
    BY <1>9 DEF DD!CreateNode, DD!callVars
  <2>2. CASE nodes' = {} \/ nodes # {}
    <3>1. DD!standing' = DD!standing
      BY <2>1, <2>2 DEF DD!standing
    <3> QED  BY <1>6, <2>1, <3>1
  <2>3. CASE nodes = {} /\ nodes' # {}
    <3>1. DD!standing' = Append(DD!standing, "nodes") /\ DD!standing = WithClass
      BY <1>2, <2>1, <2>3
    <3>2. "nodes" \in SeenParts \ ToSet(DD!standing)
      BY <3>1, DynDevParts DEF SeenParts
    <3> QED  BY <1>6, <2>1, <3>1, <3>2
  <2> QED  BY <2>2, <2>3
<1>10. CASE DD!Fail \/ DD!Leave
  <2>1. /\ pc' = pc /\ nodes' = nodes /\ stack' = stack
        /\ phase \in {"absent", "loading", "loaded"} /\ phase' = "leaving"
    BY <1>10 DEF DD!Fail, DD!Failing, DD!Leave, DD!nodeVars, DD!callVars
  <2>2. DD!standing' = DD!standing
    BY <2>1 DEF DD!standing
  <2>3. Seen!Leave
    BY <1>0, <1>1, <2>1, <2>2 DEF Seen!Leave
  <2> QED  BY <2>3 DEF Seen!Next
<1>11. phase = "leaving" => inside = {}
  BY DEF NodesInv
<1>12. CASE DD!DestroyNode
  <2>1. /\ pc' = pc /\ stack' = stack /\ phase' = phase /\ phase = "leaving" /\ nodes' \subseteq nodes
    BY <1>12 DEF DD!DestroyNode, DD!callVars
  <2>2. CASE nodes = {} \/ nodes' # {}
    <3>1. DD!standing' = DD!standing
      BY <2>1, <2>2 DEF DD!standing
    <3> QED  BY <1>0, <1>1, <2>1, <3>1 DEF Seen!vars
  <2>3. CASE nodes # {} /\ nodes' = {}
    <3>1. /\ DD!standing = Append(WithClass, "nodes") /\ DD!standing' = WithClass
      BY <1>2, <2>1, <2>3
    <3>2. Seen!Drop
      BY <1>0, <1>1, <1>3, <1>11, <2>1, <3>1, SameSequences DEF Seen!Drop
    <3> QED  BY <3>2 DEF Seen!Next
  <2> QED  BY <2>2, <2>3
<1>13. CASE DD!DropPart
  <2>1. /\ pc' = pc /\ nodes' = nodes /\ phase' = phase /\ phase = "leaving"
        /\ stack # <<>> /\ stack' = Front(stack)
        /\ stack = WithClass => next = DeviceCount
    BY <1>4, <1>13, SameSequences DEF DD!DropPart, DD!nodeVars, DD!callVars, DD!Visited
  <2>2. nodes = {}
    BY <2>1 DEF NodesInv
  <2>3. Seen!Drop
    BY <1>0, <1>1, <1>2, <1>11, <2>1, <2>2, SameSequences DEF Seen!Drop
  <2> QED  BY <2>3 DEF Seen!Next
<1>14. CASE DD!Left
  <2>1. /\ pc' = pc /\ nodes' = nodes /\ stack' = stack /\ phase = "leaving" /\ phase' = "gone" /\ stack = <<>>
    BY <1>14 DEF DD!Left, DD!nodeVars, DD!callVars
  <2>2. nodes = {}
    BY <2>1, DynDevParts DEF NodesInv
  <2>3. Seen!Gone
    BY <1>0, <1>1, <1>2, <2>1, <2>2 DEF Seen!Gone
  <2> QED  BY <2>3 DEF Seen!Next
<1>15. CASE DD!Halted \/ UNCHANGED DD!vars
  <2>1. UNCHANGED <<pc, phase, stack, nodes>>
    BY <1>15 DEF DD!Halted, DD!vars, DD!loadVars, DD!nodeVars, DD!callVars
  <2> QED  BY <1>0, <1>1, <2>1 DEF DD!standing, Seen!vars
<1> QED  BY <1>5, <1>7, <1>8, <1>9, <1>10, <1>12, <1>13, <1>14, <1>15 DEF DD!Next, DD!Load, DD!Unload

-----------------------------------------------------------------------------

\* mytimer.c and dice.c show nothing.
LEMMA OthersStand ==
  ASSUME which \in {"MyTimer", "Dice"}, which' = which, [Next]_vars
  PROVE  UNCHANGED Seen!vars
<1>1. pc' = pc
  BY DEF Next, vars, ProcBufferStep, FixDevStep, DynDevStep, MyTimerStep, HrTimerStep, TimingStep, DiceStep
<1>2. seenPhase' = seenPhase /\ seenStack' = seenStack
  BY DEF seenPhase, seenStack, InLoadOrder
<1>3. seenInside' = seenInside
  BY <1>1 DEF seenInside, Running, Inside
<1> QED  BY <1>2, <1>3 DEF Seen!vars

\* However a load fails or ends, and whoever is inside, the parts of each module come down in
\* the reverse of the order they went up in, each only when no call runs through it, and none
\* is left: all five modules implement LoadOrder, whatever the callers and the number of
\* nodes.
THEOREM ModulesLoad == Spec => LoadsInOrder
<1> DEFINE Inv == /\ which \in {"ProcBuffer", "FixDev", "DynDev", "MyTimer", "HrTimer", "TimingTracker", "Dice"}
                  /\ which = "ProcBuffer" => BufferLoadInv
                  /\ which = "FixDev" => DeviceLoadInv
                  /\ which = "DynDev" => NodesInv
                  /\ which = "HrTimer" => CancelInv
                  /\ which = "TimingTracker" => TimingLoadInv
<1>1. ASSUME Init PROVE Inv /\ Kernel!Init
  <2>1. /\ phase = "absent" /\ stack = <<>> /\ fn = "idle" /\ nodes = {}
        /\ \A c \in Callers : pc[c] = "outside"
    BY <1>1 DEF Init, PB!Init, HT!Init, DD!Init
  <2>2. BufferLoadInv
    <3>1. Len(<<>>) = 0 /\ Standing(0) = <<>>
      BY StandingFacts
    <3> QED  BY <1>1, <2>1, <3>1 DEF Init, PB!Init, BufferLoadInv
  <2>3. DeviceLoadInv /\ TimingLoadInv
    BY <1>1, <2>1 DEF Init, FD!Init, DeviceLoadInv, TimingLoadInv
  <2>4. NodesInv
    BY <1>1, <2>1, DynDevParts DEF Init, DD!Init, NodesInv
  <2>5. CancelInv
    BY <1>1 DEF Init, HT!Init, CancelInv
  <2>6. Seen!Init
    BY <2>1 DEF Seen!Init, seenPhase, seenStack, seenInside, Running, DD!standing
  <2> QED  BY <1>1, <2>2, <2>3, <2>4, <2>5, <2>6, SeenIsKernel DEF Init
<1>2. ASSUME Inv, [Next]_vars PROVE Inv'
  BY <1>2, OneProgramRuns, BufferLoadKept, DeviceLoadKept, NodesKept, CancelKept, TimingLoadKept
<1>3. ASSUME Inv, Inv', [Next]_vars PROVE [Kernel!Next]_(Kernel!vars)
  <2>1. [Seen!Next]_(Seen!vars)
    <3>1. CASE which \in {"MyTimer", "Dice"}
      BY <1>3, <3>1, OneProgramRuns, OthersStand
    <3>2. CASE which \notin {"MyTimer", "Dice"}
      BY <1>3, <3>2, OneProgramRuns, BufferLoads, DeviceLoads, NodesLoad, CancelLoads, TimingLoads
    <3> QED  BY <3>1, <3>2
  <2> QED  BY <2>1, SeenIsKernel
<1> QED  BY <1>1, <1>2, <1>3, PTL DEF Spec, LoadsInOrder, Kernel!Spec

-----------------------------------------------------------------------------
(* Dice: the board is in order                                               *)

\* The two definitions of cardinality are one.
LEMMA SameCounts == \A S : DI!Cardinality(S) = Cardinality(S)
BY DEF DI!Cardinality, Cardinality


\* All n players, each once.
Everybody(list, n) ==
  /\ list \in [1..n -> 1..n]
  /\ \A k, l \in 1..n : list[k] = list[l] => k = l

\* The sort of the code puts the list in the order it means.
InOrder(list, value, result, n) ==
  \A k, l \in 1..n : k < l => DI!Before(list, value, result[k], result[l])

\* An injection of a finite set into itself reaches all of it.
LEMMA EverybodyThere ==
  ASSUME NEW n \in Nat, NEW list, Everybody(list, n)
  PROVE  /\ DI!ToSet(list) = 1..n /\ DOMAIN list = 1..n
         /\ \A p \in 1..n : DI!Place(list, p) \in 1..n /\ list[DI!Place(list, p)] = p
         /\ \A k \in 1..n : DI!Place(list, list[k]) = k
<1>1. list \in Injection(1..n, 1..n)
  BY DEF Everybody, Injection, IsInjective
<1>2. IsFiniteSet(1..n)
  BY FS_Interval
<1>3. list \in Surjection(1..n, 1..n)
  BY <1>1, <1>2, FS_Injection
<1>4. DOMAIN list = 1..n /\ \A p \in 1..n : \E k \in 1..n : list[k] = p
  BY <1>3 DEF Surjection
<1>5. DI!ToSet(list) = 1..n
  BY <1>4 DEF DI!ToSet, Everybody
<1>6. \A p \in 1..n : DI!Place(list, p) \in 1..n /\ list[DI!Place(list, p)] = p
  BY <1>4 DEF DI!Place
<1>7. \A k \in 1..n : DI!Place(list, list[k]) = k
  BY <1>6 DEF Everybody
<1> QED  BY <1>4, <1>5, <1>6, <1>7

\* Who goes before whom is a strict order, total on the players.
LEMMA BeforeIsOrder ==
  ASSUME NEW n \in Nat, NEW list, Everybody(list, n), NEW value \in [1..n -> Int]
  PROVE  /\ \A p \in 1..n : ~DI!Before(list, value, p, p)
         /\ \A p, q \in 1..n : p # q => DI!Before(list, value, p, q) \/ DI!Before(list, value, q, p)
         /\ \A p, q, r \in 1..n :
              DI!Before(list, value, p, q) /\ DI!Before(list, value, q, r) => DI!Before(list, value, p, r)
<1>1. \A p \in 1..n : DI!Place(list, p) \in Int /\ list[DI!Place(list, p)] = p
  BY EverybodyThere
<1>2. \A p, q \in 1..n : DI!Place(list, p) = DI!Place(list, q) => p = q
  BY <1>1
<1>3. \A p \in 1..n : value[p] \in Int
  OBVIOUS
<1>4. \A p \in 1..n : ~DI!Before(list, value, p, p)
  BY <1>1, <1>3 DEF DI!Before
<1>5. \A p, q \in 1..n : p # q => DI!Before(list, value, p, q) \/ DI!Before(list, value, q, p)
  BY <1>1, <1>2, <1>3 DEF DI!Before
<1>6. \A p, q, r \in 1..n :
        DI!Before(list, value, p, q) /\ DI!Before(list, value, q, r) => DI!Before(list, value, p, r)
  BY <1>1, <1>3 DEF DI!Before
<1> QED  BY <1>4, <1>5, <1>6

\* How many go before a player: fewer than there are, a number of their own for each, and
\* fewer for whom goes before.
LEMMA AheadCounts ==
  ASSUME NEW n \in Nat, NEW list, Everybody(list, n), NEW value \in [1..n -> Int]
  PROVE  /\ \A p \in 1..n : Cardinality(DI!Ahead(list, value, p)) \in 0..n - 1
         /\ \A p, q \in 1..n : DI!Before(list, value, p, q) =>
              Cardinality(DI!Ahead(list, value, p)) < Cardinality(DI!Ahead(list, value, q))
<1> DEFINE A(p) == DI!Ahead(list, value, p)
<1>1. \A p, q \in 1..n : q \in A(p) <=> DI!Before(list, value, q, p)
  BY EverybodyThere DEF DI!Ahead
<1>2. \A p : A(p) \subseteq 1..n
  BY EverybodyThere DEF DI!Ahead
<1>3. IsFiniteSet(1..n) /\ Cardinality(1..n) = n
  BY FS_Interval
<1>4. \A p : IsFiniteSet(A(p)) /\ Cardinality(A(p)) \in Nat /\ Cardinality(A(p)) <= n
            /\ (Cardinality(A(p)) = n => A(p) = 1..n)
  <2> TAKE p
  <2>1. IsFiniteSet(A(p)) /\ Cardinality(A(p)) <= n /\ (n = Cardinality(A(p)) => 1..n = A(p))
    BY <1>2, <1>3, FS_Subset
  <2>2. Cardinality(A(p)) \in Nat
    BY <2>1, FS_CardinalityType
  <2> QED  BY <2>1, <2>2
<1> HIDE DEF A
<1>5. ASSUME NEW p \in 1..n PROVE Cardinality(A(p)) \in 0..n - 1
  <2>1. p \notin A(p)
    BY <1>1, BeforeIsOrder
  <2>2. Cardinality(A(p)) # n
    BY <1>4, <2>1
  <2> QED  BY <1>4, <2>2
<1>6. ASSUME NEW p \in 1..n, NEW q \in 1..n, DI!Before(list, value, p, q)
      PROVE  Cardinality(A(p)) < Cardinality(A(q))
  <2>1. A(p) \subseteq A(q)
    BY <1>1, <1>2, <1>6, BeforeIsOrder
  <2>2. p \in A(q) /\ p \notin A(p)
    BY <1>1, <1>6, BeforeIsOrder
  <2>3. /\ Cardinality(A(p)) <= Cardinality(A(q))
        /\ Cardinality(A(q)) = Cardinality(A(p)) => A(q) = A(p)
    BY <1>4, <2>1, FS_Subset
  <2> QED  BY <1>4, <2>2, <2>3
<1> QED  BY <1>5, <1>6 DEF A

\* The sort gives all players, in the order it means.
LEMMA SortGives ==
  ASSUME NEW n \in Nat, NEW list, Everybody(list, n), NEW value \in [1..n -> Int]
  PROVE  /\ Everybody(DI!Sorted(list, value), n)
         /\ InOrder(list, value, DI!Sorted(list, value), n)
<1> DEFINE R(p) == Cardinality(DI!Ahead(list, value, p))
           s == DI!Sorted(list, value)
<1>1. /\ \A p \in 1..n : R(p) \in 0..n - 1
      /\ \A p, q \in 1..n : DI!Before(list, value, p, q) => R(p) < R(q)
  BY AheadCounts
<1> HIDE DEF R
<1>3. ASSUME NEW p \in 1..n, NEW q \in 1..n, p # q PROVE R(p) # R(q)
  <2>1. R(p) < R(q) \/ R(q) < R(p)
    BY <1>1, <1>3, BeforeIsOrder
  <2>2. R(p) \in Int /\ R(q) \in Int
    BY <1>1
  <2> QED  BY <2>1, <2>2
<1>4. \A k \in 1..n : \E p \in 1..n : R(p) = k - 1
  <2> DEFINE f == [p \in 1..n |-> R(p) + 1]
  <2>1. \A p \in 1..n : f[p] = R(p) + 1 /\ R(p) + 1 \in 1..n
    BY <1>1
  <2>2. f \in [1..n -> 1..n]
    BY <2>1
  <2>3. \A p, q \in 1..n : f[p] = f[q] => p = q
    BY <1>1, <1>3, <2>1
  <2> HIDE DEF f
  <2>4. Everybody(f, n)
    BY <2>2, <2>3 DEF Everybody
  <2>5. \A k \in 1..n : DI!Place(f, k) \in 1..n /\ f[DI!Place(f, k)] = k
    BY <2>4, EverybodyThere
  <2>6. ASSUME NEW k \in 1..n PROVE \E p \in 1..n : R(p) = k - 1
    <3>1. PICK p \in 1..n : f[p] = k
      BY <2>5
    <3>2. R(p) \in Int /\ k = R(p) + 1
      BY <1>1, <2>1, <3>1
    <3> QED  BY <3>2
  <2> QED  BY <2>6
<1>5. \A k \in 1..n : s[k] \in 1..n /\ R(s[k]) = k - 1
  <2> TAKE k \in 1..n
  <2>1. DI!ToSet(list) = 1..n /\ DOMAIN list = 1..n
    BY EverybodyThere
  <2>2. \A p : DI!Cardinality(DI!Ahead(list, value, p)) = R(p)
    BY SameCounts DEF R
  <2>3. PICK p \in DI!ToSet(list) : DI!Cardinality(DI!Ahead(list, value, p)) = k - 1
    BY <1>4, <2>1, <2>2
  <2>4. k \in DOMAIN list
    BY <2>1
  <2>5. s[k] = CHOOSE q \in DI!ToSet(list) : DI!Cardinality(DI!Ahead(list, value, q)) = k - 1
    BY <2>4 DEF DI!Sorted
  <2>6. s[k] \in DI!ToSet(list) /\ DI!Cardinality(DI!Ahead(list, value, s[k])) = k - 1
    BY <2>3, <2>5, Zenon
  <2> QED  BY <2>1, <2>2, <2>6
<1>6. s \in [1..n -> 1..n]
  <2>1. DOMAIN list = 1..n
    BY EverybodyThere
  <2>2. DOMAIN s = 1..n /\ s = [k \in 1..n |-> s[k]]
    BY <2>1 DEF DI!Sorted
  <2> HIDE DEF s
  <2> QED  BY <1>5, <2>2
<1> HIDE DEF s
<1>7. \A k, l \in 1..n : s[k] = s[l] => k = l
  BY <1>5
<1>8. ASSUME NEW k \in 1..n, NEW l \in 1..n, k < l PROVE DI!Before(list, value, s[k], s[l])
  <2>1. s[k] \in 1..n /\ s[l] \in 1..n /\ R(s[k]) < R(s[l])
    BY <1>5, <1>8
  <2>2. s[k] # s[l] /\ ~DI!Before(list, value, s[l], s[k])
    <3>1. R(s[k]) = k - 1 /\ R(s[l]) = l - 1
      BY <1>5
    <3>2. DI!Before(list, value, s[l], s[k]) => R(s[l]) < R(s[k])
      BY <1>1, <2>1
    <3> QED  BY <2>1, <3>1, <3>2
  <2> QED  BY <2>1, <2>2, BeforeIsOrder
<1> QED  BY <1>6, <1>7, <1>8 DEF Everybody, InOrder, s

-----------------------------------------------------------------------------

GameTypes ==
  /\ stage \in {"start", "roll", "win", "rank", "ask", "over", "crash"}
  /\ Len(players) \in Nat /\ Everybody(players, Len(players))
  /\ roll \in [DI!Created -> Int] /\ wins \in [DI!Created -> Int]
  /\ rounds \in Seq([DI!Created -> Int])

\* The rounds in which nobody rolled more than p.
RoundsOf(p) == {r \in 1..Len(rounds) : \A q \in DI!Created : rounds[r][q] <= rounds[r][p]}

\* Wins are counted up to the last round, which counts once its winners are told; and the
\* list is as the last sort left it.
BoardInv ==
  /\ GameTypes
  /\ stage = "start" => players = <<>> /\ rounds = <<>>
  /\ stage = "crash" => players = <<>>
  /\ stage # "win" => \A p \in DI!Created : wins[p] = Cardinality(RoundsOf(p))
  /\ stage = "win" =>
       /\ Len(rounds) > 0 /\ rounds[Len(rounds)] = roll /\ order = players
       /\ \A p \in DI!Created : wins[p] = Cardinality(RoundsOf(p) \cap 1..Len(rounds) - 1)
  /\ stage = "rank" =>
       /\ Everybody(order, Len(players))
       /\ InOrder(order, roll, players, Len(players))
  /\ stage = "ask" => \A k, l \in DI!Created : k < l => DI!Above(players[k], players[l])

\* A function on 1..n is a sequence of length n.
LEMMA FunctionIsSequence ==
  ASSUME NEW S, NEW n \in Nat, NEW f \in [1..n -> S]
  PROVE  f \in Seq(S) /\ Len(f) = n
<1>1. f = [k \in 1..n |-> f[k]] /\ \A k \in 1..n : f[k] \in S
  OBVIOUS
<1>2. f \in Seq(S)
  BY <1>1, IsASeq
<1>3. Len(f) \in Nat /\ DOMAIN f = 1..Len(f) /\ DOMAIN f = 1..n
  BY <1>2, LenProperties
<1>4. \A l \in Nat : 1..l = 1..n => l = n
  <2> TAKE l \in Nat
  <2> HAVE 1..l = 1..n
  <2>1. l > 0 => l \in 1..n
    OBVIOUS
  <2>2. n > 0 => n \in 1..l
    OBVIOUS
  <2> QED  BY <2>1, <2>2
<1> QED  BY <1>2, <1>3, <1>4

\* One more round counts if it is in the set.
LEMMA OneMoreRound ==
  ASSUME NEW S, NEW m \in Nat
  PROVE  /\ Cardinality(S \cap 1..m) \in Nat
         /\ Cardinality(S \cap 1..m + 1) = Cardinality(S \cap 1..m) + IF m + 1 \in S THEN 1 ELSE 0
<1>1. IsFiniteSet(1..m)
  BY FS_Interval
<1>2. IsFiniteSet(S \cap 1..m)
  BY <1>1, FS_Subset
<1>3. Cardinality(S \cap 1..m) \in Nat
  BY <1>2, FS_CardinalityType
<1>4. 1..m + 1 = 1..m \cup {m + 1} /\ m + 1 \notin 1..m
  OBVIOUS
<1>5. CASE m + 1 \in S
  <2>1. S \cap 1..m + 1 = (S \cap 1..m) \cup {m + 1} /\ m + 1 \notin S \cap 1..m
    BY <1>4, <1>5
  <2>2. Cardinality((S \cap 1..m) \cup {m + 1}) = Cardinality(S \cap 1..m) + 1
    BY <1>2, <2>1, FS_AddElement
  <2> QED  BY <1>3, <1>5, <2>1, <2>2
<1>6. CASE m + 1 \notin S
  <2>1. S \cap 1..m + 1 = S \cap 1..m
    BY <1>4, <1>6
  <2> QED  BY <1>3, <1>6, <2>1
<1> QED  BY <1>3, <1>5, <1>6

\* The sums of two dice are integers.
LEMMA SumsAreIntegers == DI!DiceAssumption => DI!Sums \subseteq Int
<1> SUFFICES ASSUME DI!DiceAssumption PROVE DI!Sums \subseteq Int
  OBVIOUS
<1>1. MaxRoll \in Nat
  BY DEF DI!DiceAssumption
<1>2. \A a, b \in 1..MaxRoll : a + b \in Int
  BY <1>1
<1> QED  BY <1>2 DEF DI!Sums

\* The game begins with an invariant board.
LEMMA GameCreated ==
  ASSUME BoardInv, DI!Create
  PROVE  BoardInv'
<1>1. PICK count \in Counts :
        LET n == IF count > MaxPlayers \/ count < 0 THEN 0 ELSE count IN
        /\ players' = [k \in 1..n |-> k]
        /\ roll' = [k \in 1..n |-> 0]
        /\ wins' = [k \in 1..n |-> 0]
  BY DEF DI!Create
<1>2. PICK n \in Nat : /\ players' = [k \in 1..n |-> k]
                       /\ roll' = [k \in 1..n |-> 0]
                       /\ wins' = [k \in 1..n |-> 0]
  <2> DEFINE m == IF count > MaxPlayers \/ count < 0 THEN 0 ELSE count
  <2>1. count \in Int
    BY Assumptions DEF DI!DiceAssumption
  <2>2. m \in Nat
    BY <2>1
  <2>3. /\ players' = [k \in 1..m |-> k]
        /\ roll' = [k \in 1..m |-> 0]
        /\ wins' = [k \in 1..m |-> 0]
    BY <1>1, Zenon
  <2> HIDE DEF m
  <2> QED  BY <2>2, <2>3
<1>3. players' \in [1..n -> 1..n] /\ \A k \in 1..n : players'[k] = k
  BY <1>2
<1>4. Len(players') = n
  BY <1>3, FunctionIsSequence
<1>5. stage' = "roll" /\ rounds' = <<>> /\ Len(<<>>) = 0
  BY DEF DI!Create, BoardInv
<1>6. GameTypes'
  <2>1. Everybody(players', Len(players'))
    BY <1>3, <1>4 DEF Everybody
  <2>2. roll' \in [1..n -> Int] /\ wins' \in [1..n -> Int]
    BY <1>2
  <2>3. rounds' \in Seq([DI!Created' -> Int])
    BY <1>5
  <2> QED  BY <1>4, <1>5, <2>1, <2>2, <2>3 DEF GameTypes, DI!Created
<1>7. ASSUME NEW p \in 1..n PROVE wins'[p] = Cardinality(RoundsOf(p)')
  <2>1. RoundsOf(p)' = {}
    BY <1>5 DEF RoundsOf
  <2> QED  BY <1>2, <2>1, FS_EmptySet
<1> QED  BY <1>4, <1>5, <1>6, <1>7 DEF BoardInv, DI!Created

\* The rolls of a round are the last of the history.
LEMMA RoundRolled ==
  ASSUME DI!DiceAssumption, BoardInv, DI!Roll
  PROVE  BoardInv'
<1>1. /\ stage = "roll" /\ stage' = "win"
      /\ roll' \in [DI!Created -> DI!Sums]
      /\ order' = players /\ rounds' = Append(rounds, roll')
      /\ players' = players /\ wins' = wins
  BY DEF DI!Roll
<1>2. DI!Created' = DI!Created
  BY <1>1 DEF DI!Created
<1>3. roll' \in [DI!Created -> Int]
  <2>1. DI!Sums \subseteq Int
    BY SumsAreIntegers
  <2> QED  BY <1>1, <2>1
<1>4. PICK m \in Nat : m = Len(rounds)
  BY LenProperties DEF BoardInv, GameTypes
<1>5. /\ rounds' \in Seq([DI!Created -> Int]) /\ Len(rounds') = m + 1
      /\ rounds'[m + 1] = roll' /\ \A r \in 1..m : rounds'[r] = rounds[r]
  <2>1. rounds \in Seq([DI!Created -> Int])
    BY DEF BoardInv, GameTypes
  <2> QED  BY <1>1, <1>3, <1>4, <2>1, AppendProperties
<1>6. GameTypes'
  BY <1>1, <1>2, <1>3, <1>5 DEF BoardInv, GameTypes
<1>7. ASSUME NEW p \in DI!Created
      PROVE  wins'[p] = Cardinality(RoundsOf(p)' \cap 1..Len(rounds') - 1)
  <2>1. m + 1 - 1 = m /\ 1..m \subseteq 1..m + 1
    OBVIOUS
  <2>2. RoundsOf(p)' = {r \in 1..m + 1 : \A q \in DI!Created : rounds'[r][q] <= rounds'[r][p]}
    BY <1>2, <1>5 DEF RoundsOf
  <2>3. RoundsOf(p)' \cap 1..m = RoundsOf(p)
    BY <1>4, <1>5, <2>1, <2>2 DEF RoundsOf
  <2>4. wins[p] = Cardinality(RoundsOf(p))
    BY <1>1 DEF BoardInv
  <2>5. Len(rounds') - 1 = m
    BY <1>5, <2>1
  <2> QED  BY <1>1, <2>3, <2>4, <2>5
<1>8. Len(rounds') > 0 /\ rounds'[Len(rounds')] = roll'
  BY <1>5
<1>9. /\ stage' = "win" /\ stage' # "start" /\ stage' # "crash" /\ stage' # "rank" /\ stage' # "ask"
      /\ order' = players'
  BY <1>1
<1> QED  BY <1>2, <1>6, <1>7, <1>8, <1>9, Zenon DEF BoardInv

\* Who is first in the sorted list has rolled the most, and so has everyone with its sum:
\* the round is one of theirs.
LEMMA RoundWon ==
  ASSUME BoardInv, DI!Win
  PROVE  BoardInv'
<1>1. /\ stage = "win" /\ players' = DI!Sorted(players, roll)
      /\ roll' = roll /\ order' = order /\ rounds' = rounds
  BY DEF DI!Win
<1>2. PICK n \in Nat : n = Len(players)
  BY DEF BoardInv, GameTypes
<1>3. DI!Created = 1..n
  BY <1>2 DEF DI!Created
<1>4. Everybody(players, n) /\ roll \in [1..n -> Int] /\ wins \in [1..n -> Int] /\ order = players
  BY <1>1, <1>2, <1>3 DEF BoardInv, GameTypes
<1>5. Everybody(players', n) /\ InOrder(players, roll, players', n)
  BY <1>1, <1>4, SortGives
<1>6. Len(players') = n
  BY <1>5, FunctionIsSequence DEF Everybody
<1>7. DI!Created' = 1..n
  BY <1>6 DEF DI!Created
<1>8. CASE players' = <<>>
  <2>1. n = 0
    BY <1>6, <1>8
  <2>2. stage' = "crash" /\ wins' = wins
    BY <1>8 DEF DI!Win
  <2> QED  BY <1>1, <1>3, <1>4, <1>5, <1>6, <1>7, <1>8, <2>1, <2>2 DEF BoardInv, GameTypes
<1>9. CASE players' # <<>>
  <2>1. /\ stage' = "rank"
        /\ wins' = [p \in 1..n |-> wins[p] + IF roll[p] = DI!MaxScore(players') THEN 1 ELSE 0]
    BY <1>3, <1>9 DEF DI!Win
  <2>2. n > 0 /\ 1 \in 1..n
    <3>1. players' \in Seq(1..n)
      BY <1>5, FunctionIsSequence DEF Everybody
    <3> QED  BY <1>6, <1>9, <3>1, EmptySeq
  <2>3. PICK best \in 1..n : best = players'[1]
    BY <1>5, <2>2 DEF Everybody
  <2>4. DI!MaxScore(players') = roll[best]
    BY <2>3 DEF DI!MaxScore
  <2>5. ASSUME NEW q \in 1..n PROVE roll[q] <= roll[best]
    <3>1. PICK k \in 1..n : players'[k] = q
      BY <1>5, EverybodyThere
    <3>2. k = 1 \/ DI!Before(players, roll, best, q)
      BY <1>5, <2>2, <2>3, <3>1 DEF InOrder
    <3>3. roll[q] \in Int /\ roll[best] \in Int
      BY <1>4
    <3> QED  BY <2>3, <3>1, <3>2, <3>3 DEF DI!Before
  <2>6. \A p \in 1..n : roll[p] = roll[best] <=> \A q \in 1..n : roll[q] <= roll[p]
    <3>1. \A p \in 1..n : roll[p] \in Int
      BY <1>4
    <3> QED  BY <2>5, <3>1
  <2>7. PICK m \in Nat : Len(rounds) = m + 1 /\ Len(rounds) - 1 = m /\ rounds[m + 1] = roll
    <3>1. Len(rounds) \in Nat /\ Len(rounds) > 0 /\ rounds[Len(rounds)] = roll
      BY <1>1, LenProperties DEF BoardInv, GameTypes
    <3>2. Len(rounds) - 1 \in Nat /\ Len(rounds) = (Len(rounds) - 1) + 1
      BY <3>1
    <3> QED  BY <3>1, <3>2
  <2>8. ASSUME NEW p \in 1..n PROVE wins'[p] = Cardinality(RoundsOf(p)')
    <3>1. RoundsOf(p)' = RoundsOf(p)
      BY <1>1, <1>3, <1>7 DEF RoundsOf
    <3>2. wins[p] = Cardinality(RoundsOf(p) \cap 1..m)
      BY <1>1, <1>3, <2>7 DEF BoardInv
    <3>3. RoundsOf(p) \cap 1..m + 1 = RoundsOf(p)
      BY <2>7 DEF RoundsOf
    <3>4. m + 1 \in RoundsOf(p) <=> roll[p] = DI!MaxScore(players')
      BY <1>3, <2>4, <2>6, <2>7 DEF RoundsOf
    <3>5. Cardinality(RoundsOf(p)) = wins[p] + IF m + 1 \in RoundsOf(p) THEN 1 ELSE 0
      BY <3>2, <3>3, OneMoreRound
    <3>6. wins'[p] = wins[p] + IF roll[p] = DI!MaxScore(players') THEN 1 ELSE 0
      BY <2>1
    <3> QED  BY <3>1, <3>4, <3>5, <3>6
  <2>9. GameTypes'
    <3>1. wins' \in [1..n -> Int]
      BY <1>4, <2>1
    <3> QED  BY <1>1, <1>3, <1>4, <1>5, <1>6, <1>7, <2>1, <3>1 DEF BoardInv, GameTypes
  <2> QED  BY <1>1, <1>4, <1>5, <1>6, <1>7, <2>1, <2>8, <2>9 DEF BoardInv
<1> QED  BY <1>8, <1>9

\* The second sort keeps the order of the first among those with as many wins.
LEMMA BoardRanked ==
  ASSUME BoardInv, DI!Rank
  PROVE  BoardInv'
<1>1. /\ stage = "rank" /\ stage' = "ask" /\ players' = DI!Sorted(players, wins)
      /\ roll' = roll /\ wins' = wins /\ order' = order /\ rounds' = rounds
  BY DEF DI!Rank
<1>2. PICK n \in Nat : n = Len(players)
  BY DEF BoardInv, GameTypes
<1>3. DI!Created = 1..n
  BY <1>2 DEF DI!Created
<1>4. /\ Everybody(players, n) /\ roll \in [1..n -> Int] /\ wins \in [1..n -> Int]
      /\ Everybody(order, n) /\ InOrder(order, roll, players, n)
  BY <1>1, <1>2, <1>3 DEF BoardInv, GameTypes
<1>5. Everybody(players', n) /\ InOrder(players, wins, players', n)
  BY <1>1, <1>4, SortGives
<1>6. Len(players') = n
  BY <1>5, FunctionIsSequence DEF Everybody
<1>7. DI!Created' = 1..n
  BY <1>6 DEF DI!Created
<1>8. ASSUME NEW k \in 1..n, NEW l \in 1..n, k < l
      PROVE  DI!Above(players[k], players[l])'
  <2>1. PICK p \in 1..n, q \in 1..n : p = players'[k] /\ q = players'[l]
    BY <1>5 DEF Everybody
  <2>2. DI!Before(players, wins, p, q)
    BY <1>5, <1>8, <2>1 DEF InOrder
  <2>3. DI!Place(players, p) < DI!Place(players, q) => DI!Before(order, roll, p, q)
    <3>1. /\ DI!Place(players, p) \in 1..n /\ players[DI!Place(players, p)] = p
          /\ DI!Place(players, q) \in 1..n /\ players[DI!Place(players, q)] = q
      BY <1>4, EverybodyThere
    <3> QED  BY <1>4, <3>1 DEF InOrder
  <2>4. \/ wins[p] > wins[q]
        \/ wins[p] = wins[q] /\ roll[p] > roll[q]
        \/ wins[p] = wins[q] /\ roll[p] = roll[q] /\ DI!Place(order, p) < DI!Place(order, q)
    BY <2>2, <2>3 DEF DI!Before
  <2> QED  BY <1>1, <2>1, <2>4 DEF DI!Above, DI!Place
<1>9. GameTypes'
  BY <1>1, <1>3, <1>5, <1>6, <1>7 DEF BoardInv, GameTypes
<1>10. ASSUME NEW p \in 1..n PROVE wins'[p] = Cardinality(RoundsOf(p)')
  <2>1. RoundsOf(p)' = RoundsOf(p)
    BY <1>1, <1>3, <1>7 DEF RoundsOf
  <2> QED  BY <1>1, <1>3, <2>1 DEF BoardInv
<1> QED  BY <1>1, <1>7, <1>8, <1>9, <1>10 DEF BoardInv

\* The other steps change the stage only.
LEMMA BoardStays ==
  ASSUME BoardInv, DI!Ask \/ DI!Halted \/ UNCHANGED DI!vars
  PROVE  BoardInv'
<1>1. UNCHANGED <<players, roll, wins, order, rounds>>
  BY DEF DI!Ask, DI!Halted, DI!vars
<1>2. stage' = stage \/ (stage = "ask" /\ stage' \in {"over", "roll"})
  BY DEF DI!Ask, DI!Halted, DI!vars
<1>3. DI!Created' = DI!Created /\ \A p : RoundsOf(p)' = RoundsOf(p)
  BY <1>1 DEF DI!Created, RoundsOf
<1>4. GameTypes'
  BY <1>1, <1>2, <1>3 DEF BoardInv, GameTypes
<1>5. CASE stage' = stage
  <2>1. \A p, q : DI!Above(p, q)' <=> DI!Above(p, q)
    BY <1>1 DEF DI!Above
  <2> QED  BY <1>1, <1>3, <1>4, <1>5, <2>1 DEF BoardInv, InOrder
<1>6. CASE stage = "ask" /\ stage' \in {"over", "roll"}
  BY <1>1, <1>3, <1>4, <1>6 DEF BoardInv
<1> QED  BY <1>2, <1>5, <1>6

\* For any number of players, rolls and rounds: after each round the list holds everybody,
\* sorted by wins, the last roll and the order before, the wins are right, and the game
\* crashes only without players.
THEOREM BoardSorted == Spec => []BoardInOrder
<1> DEFINE Inv == which = "Dice" => BoardInv
<1>0. DI!DiceAssumption
  BY Assumptions
<1>1. ASSUME DI!Init PROVE BoardInv
  <2>1. /\ stage = "start" /\ players = <<>> /\ roll = <<>> /\ wins = <<>> /\ rounds = <<>>
        /\ Len(<<>>) = 0 /\ 1..0 = {}
    BY <1>1 DEF DI!Init
  <2>2. DI!Created = {}
    BY <2>1 DEF DI!Created
  <2>3. GameTypes
    BY <2>1, <2>2 DEF GameTypes, Everybody
  <2> QED  BY <2>1, <2>2, <2>3 DEF BoardInv
<1>2. ASSUME BoardInv, [DI!Next]_(DI!vars) PROVE BoardInv'
  <2>1. DI!Create \/ DI!Roll \/ DI!Win \/ DI!Rank
          \/ (DI!Ask \/ DI!Halted \/ UNCHANGED DI!vars)
    BY <1>2 DEF DI!Next
  <2> QED  BY <1>0, <1>2, <2>1, GameCreated, RoundRolled, RoundWon, BoardRanked, BoardStays
<1>3. Init => Inv
  BY <1>1 DEF Init
<1>4. Inv /\ [Next]_vars => Inv'
  BY <1>2, OneProgramRuns
<1>5. BoardInv => DI!BoardInOrder
  <2> SUFFICES ASSUME BoardInv PROVE DI!BoardInOrder
    OBVIOUS
  <2>1. Everybody(players, Len(players)) /\ Len(players) \in Nat
    BY DEF BoardInv, GameTypes
  <2>2. DI!ToSet(players) = DI!Created
    BY <2>1, EverybodyThere DEF DI!Created
  <2>3. \A p \in DI!Created : DI!Won(p) = Cardinality(RoundsOf(p))
    BY SameCounts DEF DI!Won, RoundsOf
  <2> QED  BY <2>2, <2>3 DEF BoardInv, DI!BoardInOrder
<1>6. Inv => BoardInOrder
  BY <1>5 DEF BoardInOrder
<1> QED  BY <1>3, <1>4, <1>6, PTL DEF Spec

=============================================================================
