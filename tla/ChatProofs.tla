----------------------------- MODULE ChatProofs -----------------------------
(***************************************************************************)
(* Proofs about Chat for every set of processes, names and texts, every    *)
(* size of the table and every set of buffer sizes.                        *)
(***************************************************************************)
EXTENDS Chat, SequenceTheorems, FiniteSetTheorems, WellFoundedInduction, TLAPS

States == {"idle"} \cup Writing \cup Session \cup Statting \cup Adding \cup Resetting

\* The steps of the calls of stat behind its opening, and those of a reader of a device
\* that look neither at the buffer nor at what it has of it.
StatStep(p) == \/ StatEnd(p) \/ StatDrop(p) \/ StatNone(p)
               \/ StatBegin(p) \/ StatSend(p) \/ StatReturn(p)

ReadAside(p) == \/ ReadOpen(p) \/ ReadEnd(p) \/ ReadZero(p) \/ ReadNone(p)
                \/ ReadReturn(p) \/ CloseEarly(p)

\* What a step does to the place of one process, with the other processes left alone.
LEMMA OneMoves ==
  ASSUME pc \in [Procs -> States], NEW p \in Procs, NEW there \in States,
         pc' = [pc EXCEPT ![p] = there]
  PROVE  /\ pc' \in [Procs -> States] /\ pc'[p] = there
         /\ \A q \in Procs \ {p} : pc'[q] = pc[q]
         /\ \A S : In(S)' = IF there \in S THEN In(S) \cup {p} ELSE In(S) \ {p}
  BY DEF In

-----------------------------------------------------------------------------
(* The end-of-file flags.  While readers do not meet there is one session    *)
(* of a kind at a time, and the flag is set only from the store of its first *)
(* read to that of its last one.  A module that leaves has no open device,   *)
(* so no reader of one.                                                      *)

FlagInv ==
  /\ pc \in [Procs -> States]
  /\ module \in {"free", "destroy", "unloaded"} => In(Writing \cup Session) = {}
  /\ ~broken =>
       /\ \A p, q \in In(Session) : p = q
       /\ \A p, q \in In(Statting) : p = q
       /\ bytesRead # 0 => In({"return", "again", "end"}) # {}
       /\ sent => In({"send", "restat", "drop"}) # {}

\* A step of a process that reads neither a device nor stat and leaves the flags alone.
LEMMA FlagBystander ==
  ASSUME FlagInv, NEW p \in Procs, NEW there \in States \ (Session \cup Statting),
         pc' = [pc EXCEPT ![p] = there], pc[p] \notin Session \cup Statting,
         there \in Writing => pc[p] \in Writing \/ DeviceFiles,
         UNCHANGED <<module, bytesRead, sent>>, ~broken' => ~broken
  PROVE  FlagInv'
<1>1. /\ pc' \in [Procs -> States]
      /\ In(Session)' = In(Session) /\ In(Statting)' = In(Statting)
      /\ In({"return", "again", "end"})' = In({"return", "again", "end"})
      /\ In({"send", "restat", "drop"})' = In({"send", "restat", "drop"})
  BY DEF FlagInv, In, Session, Reading, Statting, Reporting
<1>2. module \in {"free", "destroy", "unloaded"} => In(Writing \cup Session)' = {}
  <2>1. SUFFICES ASSUME module \in {"free", "destroy", "unloaded"}, NEW q \in Procs,
                        pc'[q] \in Writing \cup Session
                 PROVE  FALSE
    BY DEF In
  <2>2. \A o \in Procs : pc[o] \notin Writing \cup Session
    BY <2>1 DEF FlagInv, In
  <2>3. QED
    BY <2>1, <2>2 DEF DeviceFiles, FlagInv
<1>3. QED
  BY <1>1, <1>2 DEF FlagInv

\* The steps of a reader of a device keep FlagInv.
LEMMA FlagReader ==
  ASSUME FlagInv, NEW p \in Procs, ReadOpen(p) \/ Read(p)
  PROVE  FlagInv'
<1>0. pc \in [Procs -> States] /\ module' = module /\ sent' = sent
  BY DEF FlagInv, ReadOpen, Read, ReadEnd, ReadZero, ReadNone, ReadBegin, ReadLine, ReadCount,
         ReadReturn, eofVars
<1>1. PICK there \in Session \cup {"idle"} :
        /\ pc' = [pc EXCEPT ![p] = there]
        /\ \/ pc[p] \in Session /\ broken' = broken
           \/ /\ pc[p] = "idle" /\ there = "test" /\ DeviceFiles
              /\ ~broken' => ~broken /\ In(Session) = {}
        /\ \/ bytesRead' = 0
           \/ there \in {"return", "again", "end"}
           \/ bytesRead # 0 /\ pc[p] \notin {"return", "again", "end"}
  <2>1. CASE ReadOpen(p)
    <3>1. /\ pc[p] = "idle" /\ pc' = [pc EXCEPT ![p] = "test"] /\ DeviceFiles
          /\ UNCHANGED bytesRead
          /\ ~broken' => ~broken /\ In(Session) = {}
      BY <2>1, Zenon DEF ReadOpen, Goto, eofVars
    <3>2. "test" \in Session
      BY DEF Session
    <3>3. bytesRead' = 0 \/ (bytesRead # 0 /\ pc[p] \notin {"return", "again", "end"})
      BY <3>1
    <3>4. QED
      BY <3>1, <3>2, <3>3, Zenon
  <2>2. CASE ReadEnd(p)
    BY <2>2 DEF ReadEnd, Session, histVars
  <2>3. CASE ReadZero(p)
    BY <2>3 DEF ReadZero, FlagTaken, Goto, Session, histVars
  <2>4. CASE ReadNone(p)
    BY <2>4 DEF ReadNone, ReadAgain, Session, eofVars, histVars
  <2>5. CASE ReadBegin(p)
    BY <2>5 DEF ReadBegin, Session, Reading, eofVars
  <2>6. CASE ReadLine(p)
    <3>1. /\ pc[p] = "walk" /\ UNCHANGED <<bytesRead, broken>>
          /\ pc' = pc \/ pc' = [pc EXCEPT ![p] = "count"]
      BY <2>6 DEF ReadLine, eofVars, histVars
    <3>2. pc = [pc EXCEPT ![p] = "walk"]
      BY <1>0, <3>1
    <3>3. QED
      BY <3>1, <3>2 DEF Session, Reading
  <2>7. CASE ReadCount(p)
    BY <2>7 DEF ReadCount, Goto, Session, Reading, histVars
  <2>8. CASE ReadReturn(p)
    BY <2>8 DEF ReadReturn, ReadAgain, Session, Reading, eofVars
  <2>9. QED
    BY <2>1, <2>2, <2>3, <2>4, <2>5, <2>6, <2>7, <2>8 DEF Read
<1>2. there \in States
  BY <1>1 DEF States
<1>3. /\ pc' \in [Procs -> States] /\ pc'[p] = there
      /\ \A q \in Procs \ {p} : pc'[q] = pc[q]
  BY <1>0, <1>1, <1>2, OneMoves
<1>4. module' \in {"free", "destroy", "unloaded"} => In(Writing \cup Session)' = {}
  <2>1. ASSUME module \in {"free", "destroy", "unloaded"} PROVE FALSE
    BY <1>1, <2>1 DEF FlagInv, In, DeviceFiles
  <2>2. QED
    BY <1>0, <2>1
<1>5. /\ In(Statting)' = In(Statting)
      /\ In({"send", "restat", "drop"})' = In({"send", "restat", "drop"})
  BY <1>0, <1>1, <1>3 DEF In, Session, Reading, Statting, Reporting
<1>6. ~broken' => \A q, o \in In(Session)' : q = o
  BY <1>1, <1>3 DEF FlagInv, In
<1>7. ~broken' /\ bytesRead' # 0 => In({"return", "again", "end"})' # {}
  <2>1. SUFFICES ASSUME ~broken', bytesRead' # 0, there \notin {"return", "again", "end"}
                 PROVE  In({"return", "again", "end"})' # {}
    BY <1>3 DEF In
  <2>2. ~broken /\ bytesRead # 0 /\ pc[p] \notin {"return", "again", "end"}
    <3>1. bytesRead # 0 /\ pc[p] \notin {"return", "again", "end"}
      BY <1>1, <2>1, Zenon
    <3>2. ~broken
      BY <1>1, <2>1, Zenon
    <3>3. QED
      BY <3>1, <3>2
  <2>3. PICK q \in In({"return", "again", "end"}) : TRUE
    BY <2>2 DEF FlagInv
  <2>4. q # p /\ q \in In({"return", "again", "end"})'
    BY <1>3, <2>2, <2>3 DEF In
  <2>5. QED
    BY <2>4
<1>8. QED
  BY <1>0, <1>1, <1>3, <1>4, <1>5, <1>6, <1>7 DEF FlagInv

\* The steps of a reader of stat keep FlagInv.
LEMMA FlagStat ==
  ASSUME FlagInv, NEW p \in Procs, StatOpen(p) \/ StatStep(p)
  PROVE  FlagInv'
<1>0. pc \in [Procs -> States] /\ module' = module /\ bytesRead' = bytesRead
  BY DEF FlagInv, StatOpen, StatStep, StatEnd, StatDrop, StatNone, StatBegin, StatSend,
         StatReturn, eofVars
<1>1. PICK there \in Statting \cup {"idle"} :
        /\ pc' = [pc EXCEPT ![p] = there]
        /\ \/ pc[p] \in Statting /\ broken' = broken
           \/ /\ pc[p] = "idle" /\ there = "stat"
              /\ ~broken' => ~broken /\ In(Statting) = {}
        /\ \/ ~sent'
           \/ there \in {"send", "restat", "drop"}
           \/ sent /\ pc[p] \notin {"send", "restat", "drop"}
  <2>1. CASE StatOpen(p)
    BY <2>1, Zenon DEF StatOpen, ProcCall, Statting, eofVars
  <2>2. CASE StatEnd(p)
    BY <2>2 DEF StatEnd, Statting, Reporting, histVars
  <2>3. CASE StatDrop(p)
    BY <2>3 DEF StatDrop, Goto, Statting, Reporting, histVars
  <2>4. CASE StatNone(p)
    BY <2>4 DEF StatNone, Goto, Statting, Reporting, eofVars, histVars
  <2>5. CASE StatBegin(p)
    BY <2>5 DEF StatBegin, Statting, Reporting, eofVars, histVars
  <2>6. CASE StatSend(p)
    BY <2>6 DEF StatSend, Goto, Statting, Reporting, histVars
  <2>7. CASE StatReturn(p)
    BY <2>7 DEF StatReturn, Goto, Statting, Reporting, eofVars, histVars
  <2>8. QED
    BY <2>1, <2>2, <2>3, <2>4, <2>5, <2>6, <2>7 DEF StatStep
<1>2. there \in States
  BY <1>1 DEF States
<1>3. /\ pc' \in [Procs -> States] /\ pc'[p] = there
      /\ \A q \in Procs \ {p} : pc'[q] = pc[q]
  BY <1>0, <1>1, <1>2, OneMoves
<1>4. /\ In(Writing \cup Session)' = In(Writing \cup Session)
      /\ In(Session)' = In(Session)
      /\ In({"return", "again", "end"})' = In({"return", "again", "end"})
  BY <1>0, <1>1, <1>3 DEF In, Session, Reading, Statting, Reporting, Writing
<1>5. ~broken' => \A q, o \in In(Statting)' : q = o
  BY <1>1, <1>3 DEF FlagInv, In
<1>6. ~broken' /\ sent' => In({"send", "restat", "drop"})' # {}
  <2>1. SUFFICES ASSUME ~broken', sent', there \notin {"send", "restat", "drop"}
                 PROVE  In({"send", "restat", "drop"})' # {}
    BY <1>3 DEF In
  <2>2. sent /\ ~broken /\ pc[p] \notin {"send", "restat", "drop"}
    BY <1>1, <2>1
  <2>3. PICK q \in In({"send", "restat", "drop"}) : TRUE
    BY <2>2 DEF FlagInv
  <2>4. q # p /\ q \in In({"send", "restat", "drop"})'
    BY <1>3, <2>2, <2>3 DEF In
  <2>5. QED
    BY <2>4
<1>7. module' \in {"free", "destroy", "unloaded"} => In(Writing \cup Session)' = {}
  BY <1>0, <1>4 DEF FlagInv
<1>8. ~broken' => ~broken
  BY <1>1
<1>9. ~broken' => /\ \A q, o \in In(Session)' : q = o
                  /\ bytesRead' # 0 => In({"return", "again", "end"})' # {}
  BY <1>0, <1>4, <1>8 DEF FlagInv
<1>10. QED
  BY <1>3, <1>5, <1>6, <1>7, <1>9 DEF FlagInv

\* The invariant of the flags holds initially and every step keeps it.
LEMMA FlagInductive ==
  /\ Init => FlagInv
  /\ FlagInv /\ [Next]_vars => FlagInv'
<1>1. Init => FlagInv
  <2> SUFFICES ASSUME Init PROVE FlagInv
    OBVIOUS
  <2>1. pc \in [Procs -> States] /\ In(Session) = {} /\ In(Statting) = {}
    BY DEF Init, In, States, Session, Reading, Statting, Reporting
  <2>2. module = "alloc" /\ bytesRead = 0 /\ ~sent
    BY DEF Init
  <2>3. QED
    BY <2>1, <2>2 DEF FlagInv
<1>2. FlagInv /\ [Next]_vars => FlagInv'
  <2> SUFFICES ASSUME FlagInv, [Next]_vars PROVE FlagInv'
    OBVIOUS
  <2>0. pc \in [Procs -> States]
    BY DEF FlagInv
  <2>1. ASSUME NEW p \in Procs,
               \/ WriteBegin(p) \/ Write(p) \/ AddBegin(p) \/ AddStore(p) \/ AddLoad(p)
               \/ AddBump(p) \/ ResetBegin(p) \/ ResetAlloc(p)
        PROVE  FlagInv'
    <3>1. UNCHANGED <<module, bytesRead, sent, broken>>
      BY <2>1 DEF WriteBegin, Write, WriteName, WriteScan, WriteText, AddBegin, AddStore,
                  AddLoad, AddBump, ResetBegin, ResetAlloc, eofVars, histVars
    <3>2. PICK there \in States \ (Session \cup Statting) :
            /\ pc' = [pc EXCEPT ![p] = there]
            /\ there \in Writing => pc[p] \in Writing \/ DeviceFiles
      BY <2>1 DEF WriteBegin, Write, WriteName, WriteScan, WriteText, AddBegin, AddStore,
                  AddLoad, AddBump, ResetBegin, ResetAlloc, ProcCall, Goto,
                  States, Session, Reading, Statting, Reporting, Writing, Adding, Resetting
    <3>3. pc[p] \notin Session \cup Statting
      BY <2>1 DEF WriteBegin, Write, WriteName, WriteScan, WriteText, AddBegin, AddStore,
                  AddLoad, AddBump, ResetBegin, ResetAlloc, ProcCall, Goto,
                  Session, Reading, Statting, Reporting
    <3>4. QED
      BY <3>1, <3>2, <3>3, FlagBystander
  <2>2. ASSUME NEW p \in Procs, CloseEarly(p) PROVE FlagInv'
    <3>1. pc' = [pc EXCEPT ![p] = "idle"] /\ broken' /\ module' = module
      BY <2>2 DEF CloseEarly
    <3>2. pc' \in [Procs -> States]
      BY <2>0, <3>1 DEF States
    <3>3. In(Writing \cup Session)' \subseteq In(Writing \cup Session)
      BY <2>0, <3>1 DEF In, Writing, Session, Reading
    <3>4. QED
      BY <3>1, <3>2, <3>3 DEF FlagInv
  <2>3. CASE ExitFree
    BY <2>3 DEF ExitFree, FlagInv, In, eofVars, histVars
  <2>4. CASE ExitCleanup
    <3>1. /\ module = "free" /\ pc' = [p \in Procs |-> "idle"]
          /\ UNCHANGED <<bytesRead, sent>>
          /\ ~broken' => ~broken /\ In(Statting) = {}
      BY <2>4, Zenon DEF ExitCleanup, eofVars
    <3>2. \A S : "idle" \notin S => In(S)' = {}
      BY <3>1 DEF In
    <3>3. In({"return", "again", "end"}) = {}
      BY <3>1 DEF FlagInv, In, Session, Reading
    <3>4. ~broken' => In({"send", "restat", "drop"}) = {}
      BY <3>1 DEF In, Statting, Reporting
    <3>5. /\ In(Session)' = {} /\ In(Statting)' = {}
          /\ In(Writing \cup Session)' = {}
      BY <3>2 DEF Session, Reading, Statting, Reporting, Writing
    <3>6. pc' \in [Procs -> States]
      BY <3>1 DEF States
    <3>7. QED
      BY <3>1, <3>3, <3>4, <3>5, <3>6 DEF FlagInv
  <2>5. CASE Module /\ ~ExitFree /\ ~ExitCleanup
    <3>1. /\ UNCHANGED <<pc, bytesRead, sent, broken>>
          /\ module' \in {"free", "destroy", "unloaded"} =>
               module \in {"free", "destroy", "unloaded"}
      BY <2>5 DEF Module, InitFiles, InitFails, InitClass, InitAll, ExitDestroy,
                  eofVars, histVars
    <3>2. QED
      BY <3>1 DEF FlagInv, In
  <2>6. CASE UNCHANGED vars
    BY <2>6 DEF vars, eofVars, histVars, FlagInv, In
  <2>7. QED
    BY <2>1, <2>2, <2>3, <2>4, <2>5, <2>6, FlagReader, FlagStat
       DEF Next, Halted, Proc, StatStep
<1>3. QED
  BY <1>1, <1>2

\* The end-of-file flags are set only while a reader that got its data is still to read
\* the end, so long as no two readers of a kind meet and none leaves early.
THEOREM FlagsBelong == Spec => []FlagBelongsToReader
<1>1. FlagInv => FlagBelongsToReader
  BY DEF FlagInv, FlagBelongsToReader
<1>2. QED
  BY <1>1, FlagInductive, PTL DEF Spec

-----------------------------------------------------------------------------
(* The users and their devices.  As long as no two add_user meet, one        *)
(* process at most is adding; the next minor has a device only while it is;  *)
(* and the place of the table that belongs to that minor is filled between   *)
(* the store and the bump.                                                   *)

Early == {"alloc", "files", "class"}
Stored == {"load", "bump"}

DeviceInv ==
  /\ pc \in [Procs -> States] /\ DOMAIN at = Procs
  /\ module \in {"destroy", "unloaded"} => In(Adding) = {}
  /\ ~adds =>
       /\ userCount \in Nat
       /\ \A p, q \in In(Adding) : p = q
       /\ module \in Early => userCount = 0 /\ devices = {} /\ In(Adding) = {}
       /\ \A p \in In({"bump"}) : at[p] = userCount
       /\ \A d \in devices : /\ d[1] \in Nat /\ d[1] <= userCount
                             /\ d[1] = userCount => In(Adding) # {}
       /\ module = "unloaded" => devices = {}

HasUser(name, n) == \E v \in 0..n - 1 : users[v] = name

TableInv ==
  /\ DOMAIN users = Users /\ DOMAIN arg = Procs
  /\ ~adds /\ fault = "none" =>
       /\ userCount <= MaxUsers
       /\ \A p \in In(Adding) : /\ arg[p] \in Names
                                /\ <<userCount, arg[p]>> \in devices \/ HasUser(arg[p], userCount)
       /\ \A p \in In(Stored) : userCount \in Users /\ users[userCount] = arg[p]
       /\ \A u \in Users : u > userCount \/ (u = userCount /\ In(Stored) = {})
                             => users[u] = NoName
       /\ \A d \in devices : /\ d[1] < userCount => d[2] = users[d[1]]
                             /\ d[1] = userCount => \A p \in In(Adding) : d[2] = arg[p]
       /\ module # "unloaded" => \A u \in 0..userCount - 1 :
            users[u] # NoName /\ (<<u, users[u]>> \in devices \/ HasUser(users[u], u))

UserInv == DeviceInv /\ TableInv

\* A step that adds no user leaves the invariant alone, unless the module goes.
LEMMA UsersSame ==
  ASSUME UserInv, UNCHANGED userVars, ~adds' => ~adds,
         fault' = "none" => fault = "none",
         pc' \in [Procs -> States], DOMAIN at' = Procs, DOMAIN arg' = Procs,
         \A q \in Procs : pc[q] \in Adding \/ pc'[q] \in Adding =>
           pc'[q] = pc[q] /\ at'[q] = at[q] /\ arg'[q] = arg[q],
         module' \in Early => module \in Early,
         module' = "unloaded" <=> module = "unloaded",
         module' \in {"destroy", "unloaded"} => In(Adding)' = {}
  PROVE  UserInv'
<1>1. \A S \in {Adding, Stored, {"bump"}} : In(S)' = In(S)
  BY DEF In, Adding, Stored
<1>2. /\ In(Adding)' = In(Adding) /\ In(Stored)' = In(Stored) /\ In({"bump"})' = In({"bump"})
      /\ \A p \in In(Adding) : arg'[p] = arg[p] /\ at'[p] = at[p]
      /\ In(Stored) \subseteq In(Adding) /\ In({"bump"}) \subseteq In(Adding)
  BY <1>1 DEF In, Adding, Stored
<1>3. DeviceInv'
  <2>1. SUFFICES ASSUME ~adds' PROVE
          /\ userCount' \in Nat
          /\ \A p, q \in In(Adding)' : p = q
          /\ module' \in Early => userCount' = 0 /\ devices' = {} /\ In(Adding)' = {}
          /\ \A p \in In({"bump"})' : at'[p] = userCount'
          /\ \A d \in devices' : /\ d[1] \in Nat /\ d[1] <= userCount'
                                 /\ d[1] = userCount' => In(Adding)' # {}
          /\ module' = "unloaded" => devices' = {}
    BY DEF DeviceInv
  <2>2. ~adds
    BY <2>1
  <2>3. QED
    BY <1>2, <2>2 DEF UserInv, DeviceInv, userVars
<1>4. TableInv'
  <2>1. ASSUME ~adds', fault' = "none" PROVE ~adds /\ fault = "none"
    BY <2>1
  <2>2. \A name, n : HasUser(name, n)' = HasUser(name, n)
    BY DEF HasUser, userVars
  <2>3. QED
    BY <1>2, <2>1, <2>2 DEF UserInv, TableInv, userVars
<1>5. QED
  BY <1>3, <1>4 DEF UserInv

\* device_create on the next minor: no other user is being added, so it is free.
LEMMA AddBeginKeeps ==
  ASSUME UserInv, fault = "none", NEW p \in Procs, AddBegin(p)
  PROVE  UserInv'
<1>1. PICK name \in Names :
        /\ pc[p] = "idle" /\ pc' = [pc EXCEPT ![p] = "store"]
        /\ arg' = [arg EXCEPT ![p] = name]
        /\ devices' = devices \cup
             (IF module = "files" \/ \E d \in devices : d[1] = userCount \/ d[2] = name
              THEN {} ELSE {<<userCount, name>>})
        /\ UNCHANGED <<users, userCount, module, at>>
        /\ module \notin {"destroy", "unloaded"}
        /\ ~adds' => ~adds /\ In(Adding) = {} /\ module \notin {"files", "class"}
  BY DEF AddBegin, ProcCall, ProcFiles, NewMinor, Adding
<1>2. /\ pc' \in [Procs -> States] /\ pc'[p] = "store"
      /\ \A q \in Procs \ {p} : pc'[q] = pc[q]
      /\ DOMAIN arg' = Procs /\ arg'[p] = name
  BY <1>1 DEF UserInv, DeviceInv, TableInv, States, Adding
<1>3. module # "alloc"
  BY DEF AddBegin, ProcCall, ProcFiles
<1>4. ASSUME ~adds'
      PROVE  /\ ~adds /\ In(Adding) = {} /\ In(Adding)' = {p} /\ In(Stored)' = {}
             /\ In({"bump"})' = {} /\ module' \notin Early
             /\ \A d \in devices : d[1] \in Nat /\ d[1] < userCount
             /\ userCount \in Nat
  <2>1. ~adds /\ In(Adding) = {} /\ module' \notin Early
    BY <1>1, <1>3, <1>4 DEF Early
  <2>2. In(Adding)' = {p} /\ In(Stored)' = {} /\ In({"bump"})' = {}
    BY <1>1, <1>2, <2>1 DEF In, Adding, Stored
  <2>3. QED
    BY <2>1, <2>2 DEF UserInv, DeviceInv
<1>5. DeviceInv'
  <2>1. \A d \in devices' : d \in devices \/ d[1] = userCount
    BY <1>1
  <2>2. ASSUME ~adds'
        PROVE  /\ userCount' \in Nat
               /\ \A o, q \in In(Adding)' : o = q
               /\ \A o \in In({"bump"})' : at'[o] = userCount'
               /\ \A d \in devices' : /\ d[1] \in Nat /\ d[1] <= userCount'
                                      /\ d[1] = userCount' => In(Adding)' # {}
    BY <1>1, <1>4, <2>1, <2>2
  <2>3. QED
    BY <1>1, <1>2, <1>4, <2>2 DEF UserInv, DeviceInv
<1>6. TableInv'
  <2>1. ASSUME ~adds'
        PROVE  <<userCount, name>> \in devices' \/ HasUser(name, userCount)
    <3>1. CASE \E d \in devices : d[1] = userCount \/ d[2] = name
      <4>1. PICK d \in devices : d[2] = name /\ d[1] \in Nat /\ d[1] < userCount
        BY <1>4, <2>1, <3>1
      <4>2. users[d[1]] = name
        BY <1>4, <2>1, <4>1 DEF UserInv, TableInv
      <4>3. QED
        BY <1>4, <2>1, <4>1, <4>2 DEF HasUser
    <3>2. CASE ~\E d \in devices : d[1] = userCount \/ d[2] = name
      BY <1>1, <2>1, <3>2
    <3>3. QED
      BY <3>1, <3>2
  <2>2. \A x, n : HasUser(x, n)' = HasUser(x, n)
    BY <1>1 DEF HasUser
  <2>3. ASSUME ~adds' PROVE In(Stored) = {}
    BY <1>4, <2>3 DEF In, Adding, Stored
  <2>4. devices \subseteq devices' /\ \A d \in devices' : d \in devices \/ d[1] = userCount
    BY <1>1
  <2>5. ASSUME ~adds', NEW u \in 0..userCount - 1, module # "unloaded"
        PROVE  users[u] # NoName /\ (<<u, users[u]>> \in devices' \/ HasUser(users[u], u))
    BY <1>4, <2>4, <2>5 DEF UserInv, TableInv
  <2>6. ASSUME ~adds', fault' = "none", NEW d \in devices'
        PROVE  /\ d[1] < userCount => d[2] = users[d[1]]
               /\ d[1] = userCount => \A o \in In(Adding)' : d[2] = arg'[o]
    BY <1>1, <1>2, <1>4, <2>4, <2>6 DEF UserInv, TableInv
  <2>7. QED
    BY <1>1, <1>2, <1>4, <2>1, <2>2, <2>3, <2>5, <2>6 DEF UserInv, TableInv
<1>7. QED
  BY <1>5, <1>6 DEF UserInv

\* The name is stored in the place of the next minor, which nobody else has.
LEMMA AddStoreKeeps ==
  ASSUME UserInv, fault = "none", NEW p \in Procs, AddStore(p)
  PROVE  UserInv'
<1>1. /\ pc[p] = "store" /\ pc' = [pc EXCEPT ![p] = "load"]
      /\ UNCHANGED <<userCount, devices, module, at, arg, adds>>
      /\ fault' = "none" => userCount \in Users /\ users' = [users EXCEPT ![userCount] = arg[p]]
      /\ DOMAIN users' = DOMAIN users
  BY DEF AddStore, Goto, locVars, histVars
<1>2. /\ pc' \in [Procs -> States] /\ pc'[p] = "load"
      /\ \A q \in Procs \ {p} : pc'[q] = pc[q]
      /\ p \in In(Adding) /\ In(Adding)' = In(Adding)
      /\ In({"bump"})' = In({"bump"})
      /\ In(Stored)' = In(Stored) \cup {p}
  BY <1>1 DEF UserInv, DeviceInv, States, Adding, Stored, In
<1>3. DeviceInv'
  BY <1>1, <1>2 DEF UserInv, DeviceInv
<1>4. TableInv'
  <2>1. SUFFICES ASSUME ~adds', fault' = "none" PROVE
          /\ userCount' <= MaxUsers
          /\ \A q \in In(Adding)' :
               /\ arg'[q] \in Names
               /\ <<userCount', arg'[q]>> \in devices' \/ HasUser(arg[q], userCount)'
          /\ \A q \in In(Stored)' : userCount' \in Users /\ users'[userCount'] = arg'[q]
          /\ \A u \in Users : u > userCount' \/ (u = userCount' /\ In(Stored)' = {})
                                => users'[u] = NoName
          /\ \A d \in devices' : /\ d[1] < userCount' => d[2] = users'[d[1]]
                                 /\ d[1] = userCount' => \A q \in In(Adding)' : d[2] = arg'[q]
          /\ module' # "unloaded" => \A u \in 0..userCount' - 1 :
               users'[u] # NoName /\ (<<u, users'[u]>> \in devices' \/ HasUser(users[u], u)')
    BY <1>1 DEF UserInv, TableInv
  <2>2. ~adds /\ userCount \in Users /\ userCount \in Nat
        /\ users' = [users EXCEPT ![userCount] = arg[p]]
    BY <1>1, <2>1 DEF UserInv, DeviceInv
  <2>3. /\ \A q \in In(Adding) : q = p
        /\ users'[userCount] = arg[p] /\ \A u \in Users : u # userCount => users'[u] = users[u]
    BY <1>2, <2>2 DEF UserInv, DeviceInv, TableInv
  <2>4. \A u \in 0..userCount - 1 : u \in Users /\ users'[u] = users[u]
    BY <2>2, <2>3, ChatAssumption DEF Users
  <2>5. \A x : \A n \in 0..userCount : HasUser(x, n)' <=> HasUser(x, n)
    BY <2>2, <2>4 DEF HasUser
  <2>6. \A q \in In(Adding)' :
               /\ arg'[q] \in Names
               /\ <<userCount', arg'[q]>> \in devices' \/ HasUser(arg[q], userCount)'
    BY <1>1, <1>2, <2>1, <2>2, <2>5 DEF UserInv, TableInv
  <2>7. \A q \in In(Stored)' : userCount' \in Users /\ users'[userCount'] = arg'[q]
    BY <1>1, <1>2, <2>2, <2>3 DEF In, Stored, Adding
  <2>8. \A u \in Users : u > userCount' \/ (u = userCount' /\ In(Stored)' = {})
                                => users'[u] = NoName
    BY <1>1, <1>2, <2>1, <2>2, <2>3 DEF UserInv, TableInv, Users
  <2>9. \A d \in devices' : /\ d[1] < userCount' => d[2] = users'[d[1]]
                            /\ d[1] = userCount' => \A q \in In(Adding)' : d[2] = arg'[q]
    BY <1>1, <1>2, <2>1, <2>2, <2>4 DEF UserInv, DeviceInv, TableInv
  <2>10. module' # "unloaded" => \A u \in 0..userCount' - 1 :
               users'[u] # NoName /\ (<<u, users'[u]>> \in devices' \/ HasUser(users[u], u)')
    BY <1>1, <2>1, <2>2, <2>4, <2>5 DEF UserInv, TableInv
  <2>11. QED
    BY <1>1, <2>1, <2>2, <2>6, <2>7, <2>8, <2>9, <2>10 DEF UserInv, TableInv
<1>5. QED
  BY <1>3, <1>4 DEF UserInv

\* ++user_count reads the count, which only this process changes.
LEMMA AddLoadKeeps ==
  ASSUME UserInv, NEW p \in Procs, AddLoad(p)
  PROVE  UserInv'
<1>1. /\ pc[p] = "load" /\ pc' = [pc EXCEPT ![p] = "bump"]
      /\ at' = [at EXCEPT ![p] = userCount]
      /\ UNCHANGED <<users, userCount, devices, module, arg, adds, fault>>
  BY DEF AddLoad, Goto, userVars, histVars
<1>2. /\ pc' \in [Procs -> States] /\ DOMAIN at' = Procs /\ at'[p] = userCount
      /\ In(Adding)' = In(Adding) /\ In(Stored)' = In(Stored)
      /\ In({"bump"})' = In({"bump"}) \cup {p}
      /\ \A q \in Procs \ {p} : at'[q] = at[q]
  BY <1>1 DEF UserInv, DeviceInv, States, Adding, Stored, In
<1>3. \A q \in In({"bump"})' : q \in Procs /\ (q = p \/ q \in In({"bump"}))
  BY <1>2 DEF In
<1>4. DeviceInv'
  BY <1>1, <1>2, <1>3 DEF UserInv, DeviceInv
<1>5. \A x, n : HasUser(x, n)' = HasUser(x, n)
  BY <1>1 DEF HasUser
<1>6. TableInv'
  BY <1>1, <1>2, <1>5 DEF UserInv, TableInv
<1>7. QED
  BY <1>4, <1>6 DEF UserInv

\* The user is counted: its place in the table and its device are those of its minor.
LEMMA AddBumpKeeps ==
  ASSUME UserInv, NEW p \in Procs, AddBump(p)
  PROVE  UserInv'
<1>1. /\ pc[p] = "bump" /\ pc' = [pc EXCEPT ![p] = "idle"]
      /\ userCount' = at[p] + 1
      /\ at' = [at EXCEPT ![p] = 0] /\ arg' = [arg EXCEPT ![p] = NoName]
      /\ UNCHANGED <<users, devices, module, adds, fault>>
  BY DEF AddBump, Goto, Forget, histVars
<1>2. /\ pc' \in [Procs -> States] /\ DOMAIN at' = Procs /\ DOMAIN arg' = Procs
      /\ p \in In(Adding) /\ p \in In(Stored) /\ p \in In({"bump"})
      /\ In(Adding)' = In(Adding) \ {p}
      /\ In(Stored)' = In(Stored) \ {p} /\ In({"bump"})' = In({"bump"}) \ {p}
      /\ In(Stored) \subseteq In(Adding) /\ In({"bump"}) \subseteq In(Adding)
  BY <1>1 DEF UserInv, DeviceInv, TableInv, States, Adding, Stored, In
<1>3. ASSUME ~adds
      PROVE  /\ userCount' = userCount + 1 /\ userCount \in Nat
             /\ In(Adding)' = {} /\ In(Stored)' = {} /\ In({"bump"})' = {}
  BY <1>1, <1>2, <1>3 DEF UserInv, DeviceInv
<1>4. DeviceInv'
  <2>1. ASSUME ~adds, NEW d \in devices PROVE d[1] \in Nat /\ d[1] < userCount + 1
    BY <1>3, <2>1 DEF UserInv, DeviceInv
  <2>2. module \in {"destroy", "unloaded"} => In(Adding)' = {}
    BY <1>2 DEF UserInv, DeviceInv
  <2>3. ~adds => module \notin Early /\ (module = "unloaded" => devices = {})
    BY <1>2 DEF UserInv, DeviceInv
  <2>4. ~adds => \A d \in devices' : /\ d[1] \in Nat /\ d[1] <= userCount'
                                     /\ d[1] # userCount'
    BY <1>1, <1>3, <2>1
  <2>5. QED
    BY <1>1, <1>2, <1>3, <2>2, <2>3, <2>4 DEF DeviceInv
<1>5. \A x, n : HasUser(x, n)' = HasUser(x, n)
  BY <1>1 DEF HasUser
<1>6. TableInv'
  <2>1. SUFFICES ASSUME ~adds, fault = "none" PROVE
          /\ userCount + 1 <= MaxUsers
          /\ \A u \in Users : u >= userCount + 1 => users[u] = NoName
          /\ \A d \in devices : d[1] < userCount + 1 => d[2] = users[d[1]]
          /\ module # "unloaded" => \A u \in 0..userCount :
               users[u] # NoName /\ (<<u, users[u]>> \in devices \/ HasUser(users[u], u))
    BY <1>1, <1>2, <1>3, <1>5 DEF UserInv, TableInv, Users
  <2>2. /\ userCount \in Users /\ userCount \in Nat
        /\ users[userCount] = arg[p] /\ arg[p] \in Names /\ arg[p] # NoName
        /\ <<userCount, arg[p]>> \in devices \/ HasUser(arg[p], userCount)
    BY <1>2, <1>3, <2>1, ChatAssumption DEF UserInv, TableInv
  <2>3. \A u \in Users : u >= userCount + 1 => users[u] = NoName
    BY <2>1, <2>2 DEF UserInv, TableInv, Users
  <2>4. ASSUME NEW d \in devices, d[1] < userCount + 1 PROVE d[2] = users[d[1]]
    <3>1. d[1] \in Nat /\ (d[1] < userCount \/ d[1] = userCount)
      BY <2>1, <2>2, <2>4 DEF UserInv, DeviceInv
    <3>2. QED
      BY <1>2, <2>1, <2>2, <3>1 DEF UserInv, TableInv
  <2>5. ASSUME module # "unloaded", NEW u \in 0..userCount
        PROVE  users[u] # NoName /\ (<<u, users[u]>> \in devices \/ HasUser(users[u], u))
    <3>1. CASE u = userCount
      BY <2>2, <3>1
    <3>2. CASE u # userCount
      BY <2>1, <2>2, <2>5, <3>2 DEF UserInv, TableInv
    <3>3. QED
      BY <3>1, <3>2
  <2>6. userCount + 1 <= MaxUsers
    BY <2>2, ChatAssumption DEF Users
  <2>7. QED
    BY <2>3, <2>4, <2>5, <2>6
<1>7. QED
  BY <1>4, <1>6 DEF UserInv

\* dev_init adds chat_all before anybody else was added.
LEMMA InitAllKeeps ==
  ASSUME UserInv, fault = "none", InitAll
  PROVE  UserInv'
<1>1. /\ module = "class" /\ module' = "loaded"
      /\ devices' = devices \cup (IF \E d \in devices : d[1] = 0 THEN {} ELSE {<<0, All>>})
      /\ fault' = "none" => userCount \in Users /\ users' = [users EXCEPT ![userCount] = All]
      /\ DOMAIN users' = DOMAIN users
      /\ userCount' = userCount + 1
      /\ ~adds' => ~adds
      /\ UNCHANGED <<pc, at, arg>>
  BY DEF InitAll, locVars
<1>2. \A S : In(S)' = In(S)
  BY <1>1 DEF In
<1>3. ASSUME ~adds'
      PROVE  /\ userCount = 0 /\ userCount' = 1 /\ devices' = {<<0, All>>}
             /\ \A S \in {Adding, Stored, {"bump"}} : In(S)' = {}
  <2>1. ~adds /\ userCount = 0 /\ devices = {} /\ In(Adding) = {}
    BY <1>1, <1>3 DEF UserInv, DeviceInv, Early
  <2>2. \A S \in {Adding, Stored, {"bump"}} : In(S) = {}
    BY <2>1 DEF In, Adding, Stored
  <2>3. QED
    BY <1>1, <1>2, <2>1, <2>2
<1>4. DeviceInv'
  <2>1. ASSUME ~adds'
        PROVE  /\ userCount' \in Nat /\ In(Adding)' = {} /\ In({"bump"})' = {}
               /\ \A d \in devices' : d[1] \in Nat /\ d[1] <= userCount' /\ d[1] # userCount'
    BY <1>3, <2>1
  <2>2. QED
    BY <1>1, <1>2, <2>1 DEF UserInv, DeviceInv, Early
<1>5. TableInv'
  <2>1. SUFFICES ASSUME ~adds', fault' = "none" PROVE
          /\ 1 <= MaxUsers
          /\ \A u \in Users : u > 1 \/ u = 1 => users'[u] = NoName
          /\ All = users'[0] /\ All # NoName
    BY <1>1, <1>2, <1>3 DEF UserInv, TableInv
  <2>2. ~adds /\ userCount = 0 /\ users' = [users EXCEPT ![0] = All] /\ 0 \in Users
    BY <1>1, <1>3, <2>1
  <2>3. In(Stored) = {}
    BY <1>2, <1>3, <2>1
  <2>4. \A u \in Users : u > 0 => users[u] = NoName
    BY <2>1, <2>2 DEF UserInv, TableInv
  <2>5. DOMAIN users = Users
    BY DEF UserInv, TableInv
  <2>6. All # NoName /\ 1 <= MaxUsers
    <3>1. All # NoName
      BY DEF All, NoName
    <3>2. 1 <= MaxUsers
      BY ChatAssumption
    <3>3. QED
      BY <3>1, <3>2
  <2>7. users'[0] = All /\ \A u \in Users : u > 0 => users'[u] = NoName
    BY <2>2, <2>4, <2>5
  <2>8. QED
    BY <2>6, <2>7 DEF Users
<1>6. QED
  BY <1>4, <1>5 DEF UserInv

\* The loop of dev_exit reaches every device, since nobody is adding any more.
LEMMA ExitDestroyKeeps ==
  ASSUME UserInv, ExitDestroy
  PROVE  UserInv'
<1>1. /\ module = "destroy" /\ module' = "unloaded"
      /\ devices' = {d \in devices : d[1] \notin 0..userCount - 1}
      /\ UNCHANGED <<users, userCount, pc, at, arg, fault, adds>>
  BY DEF ExitDestroy, Destroyed, locVars, histVars
<1>2. \A S : In(S)' = In(S)
  BY <1>1 DEF In
<1>3. In(Adding) = {} /\ In(Stored) = {} /\ In({"bump"}) = {}
  <2>1. In(Adding) = {}
    BY <1>1 DEF UserInv, DeviceInv
  <2>2. QED
    BY <2>1 DEF In, Adding, Stored
<1>4. ~adds => devices' = {}
  BY <1>1, <1>3 DEF UserInv, DeviceInv
<1>5. DeviceInv'
  BY <1>1, <1>2, <1>3, <1>4 DEF UserInv, DeviceInv, Early
<1>6. TableInv'
  BY <1>1, <1>2, <1>3, <1>4 DEF UserInv, TableInv
<1>7. QED
  BY <1>5, <1>6 DEF UserInv

\* The invariant of the users holds initially and every step keeps it.
LEMMA UserInductive ==
  /\ Init => UserInv
  /\ UserInv /\ [Next]_vars => UserInv'
<1>1. Init => UserInv
  <2> SUFFICES ASSUME Init PROVE UserInv
    OBVIOUS
  <2>1. \A S \in {Adding, Stored, {"bump"}} : In(S) = {}
    BY DEF Init, In, Adding, Stored
  <2>2. /\ pc \in [Procs -> States] /\ DOMAIN at = Procs /\ DOMAIN arg = Procs
        /\ DOMAIN users = Users /\ \A u \in Users : users[u] = NoName
        /\ userCount = 0 /\ devices = {} /\ module = "alloc"
    BY DEF Init, States
  <2>3. In(Adding) = {} /\ In(Stored) = {} /\ In({"bump"}) = {}
    BY <2>1
  <2>4. QED
    BY <2>2, <2>3, ChatAssumption DEF UserInv, DeviceInv, TableInv, Early
<1>2. UserInv /\ [Next]_vars => UserInv'
  <2> SUFFICES ASSUME UserInv, [Next]_vars PROVE UserInv'
    OBVIOUS
  <2>0. /\ pc \in [Procs -> States] /\ DOMAIN at = Procs /\ DOMAIN arg = Procs
        /\ module \in {"destroy", "unloaded"} => In(Adding) = {}
    BY DEF UserInv, DeviceInv, TableInv
  <2>1. ASSUME NEW p \in Procs,
               \/ WriteBegin(p) \/ Write(p) \/ ReadOpen(p) \/ Read(p) \/ CloseEarly(p)
               \/ ResetBegin(p) \/ StatOpen(p) \/ ResetAlloc(p) \/ StatStep(p),
               fault = "none"
        PROVE  UserInv'
    <3>0. ~adds' => ~adds
      <4>1. CASE WriteBegin(p)
        BY <4>1, Zenon DEF WriteBegin
      <4>2. CASE ReadOpen(p)
        BY <4>2, Zenon DEF ReadOpen
      <4>3. CASE ~WriteBegin(p) /\ ~ReadOpen(p)
        <5>1. adds' = adds
          BY <2>1, <4>3
             DEF Write, WriteName, WriteScan, WriteText, Read, ReadEnd, ReadZero, ReadNone,
                 ReadAgain, ReadReturn, ReadBegin, ReadLine, ReadCount, CloseEarly, ResetBegin,
                 StatOpen, ResetAlloc, StatStep, StatEnd, StatDrop, StatNone, StatBegin,
                 StatSend, StatReturn, histVars
        <5>2. QED
          BY <5>1, Zenon
      <4>4. QED
        BY <4>1, <4>2, <4>3
    <3>1. UNCHANGED userVars /\ module' = module
      BY <2>1 DEF WriteBegin, Write, WriteName, WriteScan, WriteText, ReadOpen, Read, ReadEnd,
                  ReadZero, ReadNone, ReadAgain, ReadReturn, ReadBegin, ReadLine, ReadCount,
                  CloseEarly, ResetBegin, StatOpen, ResetAlloc, StatStep, StatEnd, StatDrop,
                  StatNone, StatBegin, StatSend, StatReturn, histVars
    <3>2. PICK there \in States \ Adding :
            pc[p] \notin Adding /\ pc' = [pc EXCEPT ![p] = there]
      <4>1. CASE ReadLine(p)
        <5>1. pc[p] = "walk" /\ (pc' = pc \/ pc' = [pc EXCEPT ![p] = "count"])
          BY <4>1 DEF ReadLine
        <5>2. pc = [pc EXCEPT ![p] = "walk"]
          BY <2>0, <5>1
        <5>3. QED
          BY <5>1, <5>2 DEF States, Session, Reading, Adding
      <4>2. CASE ~ReadLine(p)
        BY <2>1, <4>2
           DEF WriteBegin, Write, WriteName, WriteScan, WriteText, ReadOpen, Read, ReadEnd,
               ReadZero, ReadNone, ReadAgain, ReadReturn, ReadBegin, ReadCount, CloseEarly,
               ResetBegin, StatOpen, ResetAlloc, StatStep, StatEnd, StatDrop, StatNone,
               StatBegin, StatSend, StatReturn, Goto, ProcCall, States, Writing, Session,
               Reading, Statting, Reporting, Adding, Resetting
      <4>3. QED
        BY <4>1, <4>2
    <3>3. /\ DOMAIN at' = Procs /\ DOMAIN arg' = Procs
          /\ \A q \in Procs \ {p} : at'[q] = at[q] /\ arg'[q] = arg[q]
      BY <2>0, <2>1
         DEF WriteBegin, Write, WriteName, WriteScan, WriteText, ReadOpen, Read, ReadEnd,
             ReadZero, ReadNone, ReadAgain, ReadReturn, ReadBegin, ReadLine, ReadCount,
             CloseEarly, ResetBegin, StatOpen, ResetAlloc, StatStep, StatEnd, StatDrop, StatNone,
             StatBegin, StatSend, StatReturn, Forget, locVars
    <3>4. /\ pc' \in [Procs -> States] /\ pc'[p] \notin Adding
          /\ \A q \in Procs \ {p} : pc'[q] = pc[q]
      BY <2>0, <3>2
    <3>5. In(Adding)' = In(Adding)
      BY <3>2, <3>4 DEF In
    <3>6. \A q \in Procs : pc[q] \in Adding \/ pc'[q] \in Adding =>
            pc'[q] = pc[q] /\ at'[q] = at[q] /\ arg'[q] = arg[q]
      BY <3>2, <3>3, <3>4
    <3>7. module' \in {"destroy", "unloaded"} => In(Adding)' = {}
      BY <2>0, <3>1, <3>5
    <3>8. QED
      BY <2>1, <3>0, <3>1, <3>3, <3>4, <3>6, <3>7, UsersSame, Zenon
  <2>2. ASSUME InitFiles \/ InitFails \/ InitClass \/ ExitFree, fault = "none" PROVE UserInv'
    <3>1. /\ UNCHANGED <<userVars, pc, at, arg, adds>>
          /\ module' \in Early => module \in Early
          /\ module # "unloaded" /\ module' \notin {"destroy", "unloaded"}
      BY <2>2 DEF InitFiles, InitFails, InitClass, ExitFree, Early, locVars, histVars
    <3>2. QED
      BY <2>0, <2>2, <3>1, UsersSame
  <2>3. ASSUME ExitCleanup, fault = "none" PROVE UserInv'
    <3>1. /\ UNCHANGED <<userVars, at, arg, adds>> /\ module = "free" /\ module' = "destroy"
          /\ In(Adding) = {} /\ pc' = [q \in Procs |-> "idle"]
      BY <2>3 DEF ExitCleanup, locVars, In
    <3>2. pc' \in [Procs -> States] /\ In(Adding)' = {}
      BY <3>1 DEF States, In, Adding
    <3>3. \A q \in Procs : pc[q] \notin Adding /\ pc'[q] \notin Adding
      BY <3>1, <3>2 DEF In
    <3>4. QED
      BY <2>0, <2>3, <3>1, <3>2, <3>3, UsersSame DEF Early
  <2>4. CASE UNCHANGED vars
    <3>1. UNCHANGED <<userVars, pc, at, arg, adds, module, fault>>
      BY <2>4 DEF vars, locVars, histVars
    <3>2. In(Adding)' = In(Adding)
      BY <3>1 DEF In
    <3>3. QED
      BY <2>0, <3>1, <3>2, UsersSame
  <2>5. QED
    BY <2>1, <2>2, <2>3, <2>4, AddBeginKeeps, AddStoreKeeps, AddLoadKeeps, AddBumpKeeps,
       InitAllKeeps, ExitDestroyKeeps
       DEF Next, Halted, Module, Proc, StatStep
<1>3. QED
  BY <1>1, <1>2

\* Unloading leaves no device, so long as no two add_user met: they would have counted
\* one user for two devices.
THEOREM DevicesGone == Spec => []NoDeviceLeft
<1>1. UserInv => NoDeviceLeft
  BY DEF UserInv, DeviceInv, NoDeviceLeft
<1>2. QED
  BY <1>1, UserInductive, PTL DEF Spec

\* So long as no two add_user met, each user of a loaded module has its place in the
\* table and a device, its own or that of the user of the same name before it.
THEOREM DevicesMade == Spec => []UsersHaveDevices
<1>1. UserInv => UsersHaveDevices
  <2>1. SUFFICES ASSUME UserInv, ~adds, module = "loaded", fault = "none",
                        NEW u \in 0..userCount - 1
                 PROVE  /\ users[u] # NoName
                        /\ <<u, users[u]>> \in devices \/ \E v \in 0..u - 1 : users[v] = users[u]
    BY DEF UsersHaveDevices
  <2>2. QED
    BY <2>1 DEF UserInv, TableInv, HasUser
<1>2. QED
  BY <1>1, UserInductive, PTL DEF Spec

-----------------------------------------------------------------------------
(* The buffer and its log.  As long as no write met another one or a reset,  *)
(* one process at most is inside of a write or a reset; the cells of the     *)
(* messages written lie behind each other from the start, what the writer    *)
(* has put behind them is one name at most, and the rest is empty.  So the   *)
(* first empty cell is where the next message goes, and readers stand        *)
(* between the start and the end of the messages.                            *)

Texts == Lines \cup OpenTexts
Called == Names \cup {All, NoName}
Scanned == {"scan", "text"}

\* The number of cells that the messages of the log take.
Taken == 2 * Len(log)

CellTypes ==
  /\ users \in [Users -> Called] /\ idx \in [Procs -> Users]
  /\ DOMAIN dangling = Procs /\ DOMAIN unsteady = Procs
  /\ \A p \in In(Adding) : arg[p] \in Names
  /\ \A p \in In(Writing) : arg[p] \in Texts
  /\ size \in Sizes
  /\ log \in Seq(Called \X Texts)
  /\ \E n \in Nat \ {0} : DOMAIN cells = 0..n - 1
  /\ module = "alloc" => In(Resetting) = {}

\* The cells, whatever the names in them.
CellsLaidOut ==
  /\ \A j \in 1..Len(log) : /\ 2 * j - 1 \in DOMAIN cells
                            /\ cells[2 * j - 2] \in {"name"} \X Called
                            /\ cells[2 * j - 1] = <<"text", log[j][2]>>
  /\ In(Scanned) # {} => cells[Taken] \in {"name"} \X Called
  /\ \A k \in DOMAIN cells :
       k > Taken \/ (k = Taken /\ In(Scanned) = {}) => cells[k] = Empty

\* Where the writer is, if there is one.
WriterPlaced ==
  /\ \A p, q \in In(Writing \cup Resetting) : p = q
  /\ \A p \in In({"name"}) : at[p] = Taken /\ Taken \in DOMAIN cells
  /\ \A p \in In(Scanned) : Taken + 1 \in DOMAIN cells
  /\ \A p \in In({"text"}) : at[p] = Taken + 1

\* Where the readers are; in a buffer of whole lines that stays as it is, at the start of
\* one, or at the end.
AllLines == \A k \in 1..Len(log) : log[k][2] \in Lines

ReadersPlaced ==
  /\ \A p \in In({"walk"}) : ~dangling[p] =>
       /\ In(Resetting) = {}
       /\ at[p] \in 0..Taken
       /\ ~unsteady[p] /\ AllLines =>
            In(Scanned) = {} /\ \E j \in 0..Len(log) : at[p] = 2 * j
  /\ In(Resetting) # {} => buffer # "live"

\* As long as no user is added beside, each name stays what it was when its writer began.
NamesRight ==
  /\ \A j \in 1..Len(log) : cells[2 * j - 2] = <<"name", log[j][1]>>
  /\ \A p \in In(Writing) : users[idx[p]] # NoName
  /\ \A p \in In(Scanned) : cells[Taken] = <<"name", users[idx[p]]>>

InOrder == CellsLaidOut /\ WriterPlaced /\ ReadersPlaced /\ (~adds => NamesRight)

CellInv ==
  /\ CellTypes
  /\ ~mixed /\ fault = "none" => InOrder
  /\ FaultsNeedCause

\* A nonempty set of naturals has a least element.
LEMMA LeastNatural ==
  ASSUME NEW S \in SUBSET Nat, S # {}
  PROVE  \E n \in S : \A m \in S : n <= m
<1>1. \E n \in S : \A m \in S : ~(m < n)
  <2>1. IsWellFoundedOn(OpToRel(<, Nat), Nat)
    BY NatLessThanWellFounded
  <2>2. PICK n \in S : \A m \in S : ~(<<m, n>> \in OpToRel(<, Nat))
    BY <2>1, WFMin
  <2>3. \A m \in S : ~(m < n)
    BY <2>2, Zenon DEF OpToRel
  <2>4. QED
    BY <2>3, Zenon
<1>2. QED
  BY <1>1

\* A pair is not the NUL.
LEMMA PairNotEmpty == \A x, y : <<x, y>> # Empty
  BY DEF Empty

\* The cells of n messages are two by two.
LEMMA Halves ==
  ASSUME NEW n \in Nat, NEW k \in 0..2 * n - 1
  PROVE  \E j \in 1..n : k = 2 * j - 2 \/ k = 2 * j - 1
<1>1. /\ k \div 2 \in Nat /\ k \div 2 + 1 \in 1..n
      /\ k = 2 * (k \div 2) \/ k = 2 * (k \div 2) + 1
  OBVIOUS
<1>2. PICK h : h = k \div 2
  OBVIOUS
<1>3. h + 1 \in 1..n /\ (k = 2 * (h + 1) - 2 \/ k = 2 * (h + 1) - 1)
  BY <1>1, <1>2
<1>4. QED
  BY <1>3

\* Where the string ends: at the end of the messages, or behind the name of the next.
StringEnd == IF In(Scanned) = {} THEN Taken ELSE Taken + 1

\* The layout of the cells in numbers.
LEMMA CellsEnd ==
  ASSUME CellTypes, CellsLaidOut, WriterPlaced
  PROVE  /\ Len(log) \in Nat /\ StringEnd \in Nat
         /\ \E n \in Nat \ {0} : /\ DOMAIN cells = 0..n - 1 /\ Taken <= n
                                 /\ StringEnd \notin DOMAIN cells => Taken = n
         /\ \A k \in DOMAIN cells : k \in Nat /\ (cells[k] = Empty <=> k >= StringEnd)
<1>1. Len(log) \in Nat
  BY DEF CellTypes
<1>2. PICK n \in Nat \ {0} : DOMAIN cells = 0..n - 1
  BY DEF CellTypes
<1>3. Taken \in Nat /\ Taken <= n
  <2>1. CASE Len(log) = 0
    BY <1>2, <2>1 DEF Taken
  <2>2. CASE Len(log) # 0
    <3>1. 2 * Len(log) - 1 \in 0..n - 1
      BY <1>1, <1>2, <2>2 DEF CellsLaidOut
    <3>2. QED
      BY <1>1, <1>2, <3>1 DEF Taken
  <2>3. QED
    BY <2>1, <2>2
<1>4. In(Scanned) # {} => Taken + 1 \in 0..n - 1
  BY <1>2 DEF WriterPlaced
<1>5. ASSUME NEW k \in 0..n - 1, k < Taken PROVE cells[k] # Empty
  <2>1. PICK j \in 1..Len(log) : k = 2 * j - 2 \/ k = 2 * j - 1
    <3>1. PICK l \in Nat : l = Len(log)
      BY <1>1
    <3>2. k \in 0..2 * l - 1
      BY <1>5, <3>1 DEF Taken
    <3>3. QED
      BY <3>1, <3>2, Halves
  <2>2. cells[2 * j - 2] \in {"name"} \X Called /\ cells[2 * j - 1] = <<"text", log[j][2]>>
    BY DEF CellsLaidOut
  <2>3. QED
    BY <2>1, <2>2, PairNotEmpty
<1>6. ASSUME NEW k \in 0..n - 1, k >= Taken PROVE cells[k] = Empty <=> k >= StringEnd
  <2>1. In(Scanned) # {} => cells[Taken] # Empty
    BY PairNotEmpty DEF CellsLaidOut
  <2>2. k > Taken \/ (k = Taken /\ In(Scanned) = {}) => cells[k] = Empty
    BY <1>2 DEF CellsLaidOut
  <2>3. QED
    BY <1>3, <1>6, <2>1, <2>2 DEF StringEnd
<1>7. StringEnd \in Nat /\ Taken <= StringEnd
  BY <1>3 DEF StringEnd
<1>8. \A k \in 0..n - 1 : cells[k] = Empty <=> k >= StringEnd
  BY <1>3, <1>5, <1>6, <1>7
<1>9. StringEnd \notin 0..n - 1 => Taken = n
  BY <1>3, <1>4 DEF StringEnd
<1>10. QED
  BY <1>1, <1>2, <1>3, <1>7, <1>8, <1>9

\* strlen and strcat from within the messages find the end of the string, unless the
\* messages fill the buffer.
LEMMA EndFound ==
  ASSUME CellTypes, CellsLaidOut, WriterPlaced, NEW k \in 0..Taken
  PROVE  IF StringEnd \in DOMAIN cells
         THEN End(k) = StringEnd /\ Terminated(k)
         ELSE ~Terminated(k) /\ End(k) = Taken /\ Taken = Cardinality(DOMAIN cells)
<1>1. Taken \in Nat /\ StringEnd \in Nat /\ k <= StringEnd
  BY CellsEnd DEF Taken, StringEnd
<1>2. PICK n \in Nat \ {0} : DOMAIN cells = 0..n - 1 /\ (StringEnd \notin DOMAIN cells => Taken = n)
  BY CellsEnd
<1>3. \A m \in 0..n - 1 : m >= k /\ cells[m] = Empty <=> m >= StringEnd
  BY <1>1, <1>2, CellsEnd
<1>4. CASE StringEnd \in DOMAIN cells
  <2>1. PICK free : free = {m \in DOMAIN cells : m >= k /\ cells[m] = Empty}
    OBVIOUS
  <2>2. free = {m \in 0..n - 1 : m >= StringEnd} /\ StringEnd \in free
    BY <1>1, <1>2, <1>3, <1>4, <2>1
  <2>3. \A m \in free : (\A o \in free : m <= o) <=> m = StringEnd
    BY <1>1, <1>2, <2>2
  <2>4. StringEnd = CHOOSE m \in free : \A o \in free : m <= o
    BY <2>2, <2>3
  <2>5. End(k) = StringEnd
    BY <2>1, <2>2, <2>4 DEF End
  <2>6. QED
    BY <1>4, <2>5 DEF Terminated
<1>5. CASE StringEnd \notin DOMAIN cells
  <2>1. Cardinality(0..n - 1) = n
    <3>1. Cardinality(0..n - 1) = IF 0 > n - 1 THEN 0 ELSE n - 1 - 0 + 1
      BY FS_Interval
    <3>2. QED
      BY <3>1
  <2>2. {m \in DOMAIN cells : m >= k /\ cells[m] = Empty} = {}
    BY <1>1, <1>2, <1>3, <1>5
  <2>3. End(k) = n
    BY <1>2, <2>1, <2>2 DEF End
  <2>4. QED
    BY <1>2, <1>5, <2>1, <2>3 DEF Terminated
<1>6. QED
  BY <1>4, <1>5

\* The end of the line that begins at cell k.
LEMMA LineEndFound ==
  ASSUME CellTypes, NEW k \in Nat, Newlines(k) # {}
  PROVE  /\ LineEnd(k) \in Newlines(k)
         /\ \A n \in Newlines(k) : LineEnd(k) <= n
<1>1. Newlines(k) \subseteq Nat
  BY DEF CellTypes, Newlines
<1>2. \E n \in Newlines(k) : \A m \in Newlines(k) : n <= m
  BY <1>1, LeastNatural
<1>3. QED
  BY <1>2 DEF LineEnd

\* The types of the table, the texts and the buffer.
LEMMA TypesKept ==
  ASSUME FlagInv, UserInv, CellTypes, fault = "none", [Next]_vars
  PROVE  CellTypes'
<1>0. /\ pc \in [Procs -> States] /\ pc' \in [Procs -> States] /\ DOMAIN arg = Procs
      /\ DOMAIN arg' = Procs
  <2>1. FlagInv' /\ UserInv'
    BY FlagInductive, UserInductive
  <2>2. QED
    BY <2>1 DEF FlagInv, UserInv, TableInv
<1>1. CASE UNCHANGED vars
  BY <1>1 DEF CellTypes, vars, userVars, locVars, histVars, bufVars, In
<1>2. CASE Module
  <2>1. UNCHANGED <<idx, dangling, unsteady, arg, size, log, cells>>
    BY <1>2 DEF Module, InitFiles, InitFails, InitClass, InitAll, ExitFree, ExitCleanup,
                ExitDestroy, locVars, histVars, bufVars
  <2>2. users' \in [Users -> Called]
    <3>1. users' = users \/ users' = [users EXCEPT ![userCount] = All]
      BY <1>2 DEF Module, InitFiles, InitFails, InitClass, InitAll, ExitFree, ExitCleanup,
                  ExitDestroy, userVars
    <3>2. QED
      BY <3>1 DEF CellTypes, Called
  <2>3. /\ module' # "alloc"
        /\ pc' = pc \/ \A q \in Procs : pc'[q] = "idle"
    BY <1>2 DEF Module, InitFiles, InitFails, InitClass, InitAll, ExitFree, ExitCleanup,
                ExitDestroy
  <2>4. \A S : "idle" \notin S => In(S)' \subseteq In(S)
    BY <2>3 DEF In
  <2>5. /\ In(Adding)' \subseteq In(Adding) /\ In(Writing)' \subseteq In(Writing)
    BY <2>4 DEF Adding, Writing
  <2>6. QED
    BY <2>1, <2>2, <2>3, <2>5 DEF CellTypes
<1>3. ASSUME NEW p \in Procs,
             \/ WriteBegin(p) \/ Write(p) \/ ReadOpen(p) \/ Read(p) \/ CloseEarly(p)
             \/ AddBegin(p) \/ ResetBegin(p) \/ StatOpen(p) \/ Proc(p)
      PROVE  CellTypes'
  <2>1. users' \in [Users -> Called]
    <3>1. CASE AddStore(p)
      <4>1. arg[p] \in Called
        BY <3>1 DEF AddStore, Goto, CellTypes, In, Adding, Called
      <4>2. users' = users \/ users' = [users EXCEPT ![userCount] = arg[p]]
        BY <3>1 DEF AddStore
      <4>3. QED
        BY <4>1, <4>2 DEF CellTypes
    <3>2. CASE ~AddStore(p)
      <4>1. users' = users
        BY <1>3, <3>2 DEF WriteBegin, Write, WriteName, WriteScan, WriteText, ReadOpen, Read,
                          ReadEnd, ReadZero, ReadNone, ReadAgain, ReadReturn, ReadBegin,
                          ReadLine, ReadCount, CloseEarly, AddBegin, AddLoad, AddBump,
                          ResetBegin, StatOpen, Proc, ResetAlloc, StatEnd, StatDrop,
                          StatNone, StatBegin, StatSend, StatReturn, userVars
      <4>2. QED
        BY <4>1 DEF CellTypes
    <3>3. QED
      BY <3>1, <3>2
  <2>2. idx' \in [Procs -> Users]
    <3>1. 0 \in Users
      BY ChatAssumption DEF Users
    <3>2. PICK i \in Users : idx' = idx \/ idx' = [idx EXCEPT ![p] = i]
      <4>1. CASE WriteBegin(p) \/ ReadOpen(p)
        BY <4>1, Zenon DEF WriteBegin, ReadOpen
      <4>2. CASE ~WriteBegin(p) /\ ~ReadOpen(p)
        BY <1>3, <3>1, <4>2
           DEF Write, WriteName, WriteScan, WriteText, Read, ReadEnd, ReadZero, ReadNone,
               ReadAgain, ReadReturn, ReadBegin, ReadLine, ReadCount, CloseEarly, AddBegin,
               AddStore, AddLoad, AddBump, ResetBegin, StatOpen, Proc, ResetAlloc, StatEnd,
               StatDrop, StatNone, StatBegin, StatSend, StatReturn, locVars, Forget
      <4>3. QED
        BY <4>1, <4>2
    <3>3. QED
      BY <3>2 DEF CellTypes
  <2>3. DOMAIN dangling' = Procs /\ DOMAIN unsteady' = Procs
    BY <1>3 DEF CellTypes, WriteBegin, Write, WriteName, WriteScan, WriteText, ReadOpen, Read,
                ReadEnd, ReadZero, ReadNone, ReadAgain, ReadReturn, ReadBegin, ReadLine,
                ReadCount, CloseEarly, AddBegin, AddStore, AddLoad, AddBump, ResetBegin,
                StatOpen, Proc, ResetAlloc, StatEnd, StatDrop, StatNone, StatBegin,
                StatSend, StatReturn, locVars, histVars, Forget, Disturb
  <2>4. ASSUME NEW q \in Procs
        PROVE  /\ pc'[q] \in Adding => arg'[q] \in Names
               /\ pc'[q] \in Writing => arg'[q] \in Texts
    <3>1. CASE q # p
      <4>1. pc'[q] = pc[q] /\ arg'[q] = arg[q]
        BY <1>0, <1>3, <3>1
           DEF WriteBegin, Write, WriteName, WriteScan, WriteText, ReadOpen, Read, ReadEnd,
               ReadZero, ReadNone, ReadAgain, ReadReturn, ReadBegin, ReadLine, ReadCount,
               CloseEarly, AddBegin, AddStore, AddLoad, AddBump, ResetBegin, StatOpen, Proc,
               ResetAlloc, StatEnd, StatDrop, StatNone, StatBegin, StatSend,
               StatReturn, locVars, Forget, Goto
      <4>2. QED
        BY <4>1 DEF CellTypes, In
    <3>2. CASE WriteBegin(p) /\ q = p
      <4>1. PICK text \in Texts : arg' = [arg EXCEPT ![p] = text] /\ pc' = [pc EXCEPT ![p] = "name"]
        BY <3>2, Zenon DEF WriteBegin, Texts, Goto
      <4>2. QED
        BY <1>0, <3>2, <4>1 DEF Adding
    <3>3. CASE AddBegin(p) /\ q = p
      <4>1. PICK name \in Names : arg' = [arg EXCEPT ![p] = name] /\ pc' = [pc EXCEPT ![p] = "store"]
        BY <3>3, Zenon DEF AddBegin
      <4>2. QED
        BY <1>0, <3>3, <4>1 DEF Writing
    <3>4. CASE ~WriteBegin(p) /\ ~AddBegin(p) /\ q = p
      <4>1. \/ pc'[p] \notin Adding \cup Writing
            \/ /\ pc[p] \in Adding <=> pc'[p] \in Adding
               /\ pc[p] \in Writing <=> pc'[p] \in Writing
               /\ arg'[p] = arg[p]
        BY <1>0, <1>3, <3>4
           DEF Write, WriteName, WriteScan, WriteText, ReadOpen, Read, ReadEnd, ReadZero,
               ReadNone, ReadAgain, ReadReturn, ReadBegin, ReadLine, ReadCount, CloseEarly,
               AddStore, AddLoad, AddBump, ResetBegin, StatOpen, Proc, ResetAlloc, StatEnd,
               StatDrop, StatNone, StatBegin, StatSend, StatReturn, locVars, Goto, Adding,
               Writing, Statting, Reporting
      <4>2. QED
        BY <3>4, <4>1 DEF CellTypes, In
    <3>5. QED
      BY <3>1, <3>2, <3>3, <3>4
  <2>5. size' \in Sizes
    BY <1>3 DEF CellTypes, WriteBegin, Write, WriteName, WriteScan, WriteText, ReadOpen, Read,
                ReadEnd, ReadZero, ReadNone, ReadAgain, ReadReturn, ReadBegin, ReadLine,
                ReadCount, CloseEarly, AddBegin, AddStore, AddLoad, AddBump, ResetBegin,
                StatOpen, Proc, ResetAlloc, StatEnd, StatDrop, StatNone, StatBegin,
                StatSend, StatReturn, bufVars
  <2>6. log' \in Seq(Called \X Texts)
    <3>0. PICK S : S = Called \X Texts /\ <<>> \in Seq(S) /\ log \in Seq(S)
      BY DEF CellTypes
    <3>1. CASE WriteText(p)
      <4>1. arg[p] \in Texts /\ users[idx[p]] \in Called
        BY <3>1 DEF WriteText, Goto, CellTypes, In, Writing
      <4>2. log' = <<>> \/ log' = Append(log, <<users[idx[p]], arg[p]>>)
        BY <3>1 DEF WriteText
      <4>3. <<users[idx[p]], arg[p]>> \in S
        BY <3>0, <4>1
      <4>4. \A s \in Seq(S), e \in S : Append(s, e) \in Seq(S)
        BY AppendProperties
      <4>5. QED
        BY <3>0, <4>2, <4>3, <4>4, Zenon
    <3>2. CASE ~WriteText(p)
      <4>1. log' = log \/ log' = <<>>
        BY <1>3, <3>2 DEF WriteBegin, Write, WriteName, WriteScan, ReadOpen, Read, ReadEnd,
                          ReadZero, ReadNone, ReadAgain, ReadReturn, ReadBegin, ReadLine,
                          ReadCount, CloseEarly, AddBegin, AddStore, AddLoad, AddBump,
                          ResetBegin, StatOpen, Proc, ResetAlloc, StatEnd, StatDrop,
                          StatNone, StatBegin, StatSend, StatReturn, histVars
      <4>2. QED
        BY <3>0, <4>1
    <3>3. QED
      BY <3>1, <3>2
  <2>7. \E n \in Nat \ {0} : DOMAIN cells' = 0..n - 1
    <3>1. CASE ResetAlloc(p)
      <4>1. size \in Nat \ {0} /\ DOMAIN cells' = 0..size - 1
        BY <3>1, ChatAssumption DEF ResetAlloc, Fresh, CellTypes
      <4>2. QED
        BY <4>1
    <3>2. CASE ~ResetAlloc(p)
      <4>1. DOMAIN cells' = DOMAIN cells
        BY <1>3, <3>2 DEF WriteBegin, Write, WriteName, WriteScan, WriteText, ReadOpen, Read,
                          ReadEnd, ReadZero, ReadNone, ReadAgain, ReadReturn, ReadBegin,
                          ReadLine, ReadCount, CloseEarly, AddBegin, AddStore, AddLoad, AddBump,
                          ResetBegin, StatOpen, Proc, StatEnd, StatDrop, StatNone,
                          StatBegin, StatSend, StatReturn, bufVars
      <4>2. QED
        BY <4>1 DEF CellTypes
    <3>3. QED
      BY <3>1, <3>2
  <2>8. module' = "alloc" => In(Resetting)' = {}
    <3>1. module' = module
      BY <1>3 DEF WriteBegin, Write, WriteName, WriteScan, WriteText, ReadOpen, Read, ReadEnd,
                  ReadZero, ReadNone, ReadAgain, ReadReturn, ReadBegin, ReadLine, ReadCount,
                  CloseEarly, AddBegin, AddStore, AddLoad, AddBump, ResetBegin, StatOpen, Proc,
                  ResetAlloc, StatEnd, StatDrop, StatNone, StatBegin, StatSend,
                  StatReturn
    <3>2. ASSUME NEW q \in Procs, module = "alloc" PROVE pc'[q] = "alloc" => pc[q] = "alloc"
      BY <1>0, <1>3, <3>2
         DEF WriteBegin, Write, WriteName, WriteScan, WriteText, ReadOpen, Read, ReadEnd,
             ReadZero, ReadNone, ReadAgain, ReadReturn, ReadBegin, ReadLine, ReadCount,
             CloseEarly, AddBegin, AddStore, AddLoad, AddBump, ResetBegin, StatOpen, Proc,
             ResetAlloc, StatEnd, StatDrop, StatNone, StatBegin, StatSend, StatReturn,
             Goto, ProcCall, ProcFiles
    <3>3. QED
      BY <3>1, <3>2 DEF CellTypes, In, Resetting
  <2>9. QED
    BY <2>1, <2>2, <2>3, <2>4, <2>5, <2>6, <2>7, <2>8 DEF CellTypes, In
<1>4. QED
  BY <1>1, <1>2, <1>3 DEF Next, Halted

\* A step that leaves the cells and their writer alone.
LEMMA CellsKept ==
  ASSUME CellTypes, CellTypes', ~mixed => InOrder, UNCHANGED <<cells, log>>,
         ~mixed' => ~mixed,
         \A q \in Procs : pc[q] \in Writing \cup Resetting \/ pc'[q] \in Writing \cup Resetting
           => pc'[q] = pc[q] /\ at'[q] = at[q] /\ idx'[q] = idx[q],
         ~mixed /\ ~adds' => ~adds /\ \A u \in Users : users[u] # NoName => users'[u] = users[u],
         ~mixed => ReadersPlaced'
  PROVE  ~mixed' => InOrder'
<1>1. SUFFICES ASSUME ~mixed' PROVE InOrder'
  OBVIOUS
<1>2. InOrder
  BY <1>1
<1>3. /\ \A S \in {Writing, Scanned, Writing \cup Resetting, {"name"}, {"text"}} : In(S)' = In(S)
      /\ Taken' = Taken
  BY DEF In, Writing, Scanned, Resetting, Taken
<1>4. \A q \in In(Writing) : at'[q] = at[q] /\ idx'[q] = idx[q]
  BY DEF In
<1>5. CellsLaidOut'
  BY <1>2, <1>3 DEF InOrder, CellsLaidOut
<1>6. WriterPlaced'
  BY <1>2, <1>3, <1>4 DEF InOrder, WriterPlaced, In, Writing, Scanned
<1>7. ~adds' => NamesRight'
  <2>1. SUFFICES ASSUME ~adds' PROVE NamesRight'
    OBVIOUS
  <2>2. NamesRight /\ \A u \in Users : users[u] # NoName => users'[u] = users[u]
    BY <1>1, <1>2, <2>1 DEF InOrder
  <2>3. \A q \in In(Writing) : users'[idx'[q]] = users[idx[q]] /\ users[idx[q]] # NoName
    BY <1>4, <2>2 DEF NamesRight, CellTypes, In
  <2>4. In(Scanned) \subseteq In(Writing)
    BY DEF In, Writing, Scanned
  <2>5. QED
    BY <1>3, <2>2, <2>3, <2>4 DEF NamesRight
<1>8. QED
  BY <1>1, <1>5, <1>6, <1>7 DEF InOrder

\* A step that begins no walk, moves no reader and leaves the scanner where it is.
LEMMA ReadersKept ==
  ASSUME ReadersPlaced, UNCHANGED log, In(Scanned)' = In(Scanned),
         In(Resetting)' = In(Resetting),
         In(Resetting) # {} /\ buffer' = "live" => buffer = "live",
         \A q \in Procs : pc'[q] = "walk" => /\ pc[q] = "walk" /\ at'[q] = at[q]
                                             /\ ~dangling'[q] => ~dangling[q]
                                             /\ ~unsteady'[q] => ~unsteady[q]
  PROVE  ReadersPlaced'
<1>1. Taken' = Taken /\ AllLines' = AllLines
  BY DEF Taken, AllLines
<1>2. \A q \in In({"walk"})' : q \in In({"walk"}) /\ at'[q] = at[q]
  BY DEF In
<1>3. QED
  BY <1>1, <1>2 DEF ReadersPlaced, In

\* Between the steps of a writer, the number of writers is one or none.
LEMMA WriterCount ==
  ASSUME WriterPlaced
  PROVE  Cardinality(In(Writing)) \in 0..1
<1>1. CASE In(Writing) = {}
  BY <1>1, FS_EmptySet
<1>2. CASE In(Writing) # {}
  <2>1. PICK p \in Procs : p \in In(Writing)
    BY <1>2 DEF In
  <2>2. In(Writing) = {p}
    BY <2>1 DEF WriterPlaced, In
  <2>3. QED
    BY <2>2, FS_Singleton
<1>3. QED
  BY <1>1, <1>2

\* A full buffer has no room for another message, whether or not its writer is there.
LEMMA FullBuffer ==
  ASSUME CellTypes, CellsLaidOut, WriterPlaced, StringEnd \notin DOMAIN cells
  PROVE  2 * (Len(log) + Cardinality(In(Writing))) + 1 > Cardinality(DOMAIN cells)
<1>1. Taken = Cardinality(DOMAIN cells)
  BY CellsEnd, EndFound DEF Taken
<1>2. QED
  BY <1>1, CellsEnd, WriterCount DEF Taken

\* A writer that is alone finds the end of the messages.
LEMMA WriteBeginKeeps ==
  ASSUME pc \in [Procs -> States], DOMAIN at = Procs, CellTypes, CellTypes', fault = "none",
         ~mixed => InOrder, NEW p \in Procs, WriteBegin(p)
  PROVE  (~mixed' /\ fault' = "none" => InOrder') /\ FaultsNeedCause'
<1>1. SUFFICES ASSUME ~mixed' PROVE (fault' = "none" => InOrder') /\ FaultsNeedCause'
  <2>1. fault' # "null"
    BY DEF WriteBegin
  <2>2. QED
    BY <2>1 DEF FaultsNeedCause
<1>2. PICK i \in Users \ {0} :
        /\ pc[p] = "idle" /\ pc' = [pc EXCEPT ![p] = "name"]
        /\ idx' = [idx EXCEPT ![p] = i] /\ (~adds' => ~adds /\ users[i] # NoName)
  BY Zenon DEF WriteBegin, Goto
<1>3. /\ dangling' = [dangling EXCEPT ![p] = FALSE] /\ at' = [at EXCEPT ![p] = End(0)]
      /\ ~mixed /\ In(Writing \cup Resetting) = {}
      /\ UNCHANGED <<users, buffer, cells, log, unsteady>>
      /\ fault' = IF buffer = "live" THEN IF Terminated(0) THEN "none" ELSE "full" ELSE "buffer"
  BY <1>1, Zenon DEF WriteBegin, userVars, bufVars
<1>4. InOrder /\ In(Scanned) = {} /\ In({"name"}) = {} /\ In(Resetting) = {} /\ StringEnd = Taken
  BY <1>3 DEF In, Writing, Scanned, StringEnd
<1>5. /\ In(Writing)' = {p} /\ In({"name"})' = {p} /\ In(Scanned)' = {} /\ In({"text"})' = {}
      /\ In(Writing \cup Resetting)' = {p} /\ In(Resetting)' = {}
  BY <1>2, <1>3 DEF In, Writing, Scanned, Resetting
<1>6. fault' = "none" => InOrder'
  <2>1. SUFFICES ASSUME fault' = "none" PROVE InOrder'
    OBVIOUS
  <2>2. Terminated(0)
    BY <1>3, <2>1
  <2>3. End(0) = Taken /\ Taken \in DOMAIN cells
    BY <1>4, <2>2, EndFound, CellsEnd DEF InOrder
  <2>4. Taken' = Taken /\ at'[p] = Taken
    BY <1>3, <2>3 DEF Taken
  <2>5. CellsLaidOut'
    BY <1>3, <1>4, <1>5, <2>4 DEF InOrder, CellsLaidOut
  <2>6. WriterPlaced'
    BY <1>3, <1>5, <2>3, <2>4 DEF WriterPlaced
  <2>7. ReadersPlaced'
    <3>1. \A q \in Procs : pc'[q] = "walk" => /\ pc[q] = "walk" /\ at'[q] = at[q]
                                              /\ dangling'[q] = dangling[q]
      BY <1>2, <1>3 DEF CellTypes
    <3>2. QED
      BY <1>3, <1>4, <1>5, <3>1, ReadersKept DEF InOrder
  <2>8. ~adds' => NamesRight'
    BY <1>2, <1>3, <1>4, <1>5 DEF InOrder, NamesRight, CellTypes
  <2>9. QED
    BY <2>5, <2>6, <2>7, <2>8 DEF InOrder
<1>7. FaultsNeedCause'
  <2>1. SUFFICES ASSUME fault' = "full"
                 PROVE  2 * (Len(log) + Cardinality(In(Writing)')) + 1 > Cardinality(DOMAIN cells)
    BY <1>3 DEF FaultsNeedCause
  <2>2. ~Terminated(0)
    BY <1>3, <2>1
  <2>3. Taken = Cardinality(DOMAIN cells)
    BY <1>4, <2>2, EndFound, CellsEnd DEF InOrder
  <2>4. Cardinality(In(Writing)') = 1
    BY <1>5, FS_Singleton
  <2>5. QED
    BY <2>3, <2>4, <1>4, CellsEnd DEF Taken, InOrder
<1>8. QED
  BY <1>6, <1>7

\* The name goes into the first empty cell, and an empty one follows if there is room.
LEMMA WriteNameKeeps ==
  ASSUME pc \in [Procs -> States], DOMAIN at = Procs, CellTypes, CellTypes', fault = "none",
         ~mixed => InOrder, NEW p \in Procs, WriteName(p)
  PROVE  (~mixed' /\ fault' = "none" => InOrder') /\ FaultsNeedCause'
<1>0. /\ pc[p] = "name" /\ pc' = [pc EXCEPT ![p] = "scan"]
      /\ fault' = Use(p, at[p] + 1 \in DOMAIN cells)
      /\ cells' = IF fault' # "none" THEN cells
                  ELSE [cells EXCEPT ![at[p]] = <<"name", users[idx[p]]>>, ![at[p] + 1] = Empty]
      /\ \A q \in Procs : unsteady'[q] <=> unsteady[q] \/ pc[q] \in Reading
      /\ UNCHANGED <<users, buffer, idx, dangling, at, log, mixed, adds>>
  BY DEF WriteName, Goto, Disturb, locVars, userVars
<1>1. SUFFICES ASSUME ~mixed' PROVE (fault' = "none" => InOrder') /\ FaultsNeedCause'
  BY <1>0 DEF FaultsNeedCause, Use
<1>2. InOrder /\ p \in In({"name"}) /\ p \in In(Writing \cup Resetting)
  BY <1>0, <1>1 DEF In, Writing
<1>3. /\ \A q \in In(Writing \cup Resetting) : q = p
      /\ at[p] = Taken /\ Taken \in DOMAIN cells
      /\ Taken \in Nat /\ Len(log) \in Nat
  BY <1>2, CellsEnd DEF InOrder, WriterPlaced, Taken
<1>4. /\ In(Scanned) = {} /\ In(Resetting) = {} /\ In(Writing) = {p}
  BY <1>0, <1>3 DEF In, Writing, Scanned, Resetting
<1>5. /\ In(Writing)' = {p} /\ In(Scanned)' = {p} /\ In({"name"})' = {} /\ In({"text"})' = {}
      /\ In(Writing \cup Resetting)' = {p} /\ In(Resetting)' = {}
  BY <1>0, <1>3 DEF In, Writing, Scanned, Resetting
<1>6. fault' = "none" => InOrder'
  <2>1. SUFFICES ASSUME fault' = "none" PROVE InOrder'
    OBVIOUS
  <2>2. Taken + 1 \in DOMAIN cells
    BY <1>0, <1>3, <2>1 DEF Use
  <2>3. /\ DOMAIN cells' = DOMAIN cells
        /\ cells'[Taken] = <<"name", users[idx[p]]>> /\ cells'[Taken + 1] = Empty
        /\ \A k \in DOMAIN cells : k # Taken /\ k # Taken + 1 => cells'[k] = cells[k]
    BY <1>0, <1>3, <2>1, <2>2
  <2>4. users[idx[p]] \in Called
    BY DEF CellTypes
  <2>5. Taken' = Taken /\ Len(log') = Len(log) /\ log' = log
    BY <1>0 DEF Taken
  <2>6. PICK n \in Nat : DOMAIN cells = 0..n - 1
    BY DEF CellTypes
  <2>7. \A j \in 1..Len(log) : /\ 2 * j - 1 \in DOMAIN cells' /\ cells'[2 * j - 2] = cells[2 * j - 2]
                               /\ cells'[2 * j - 1] = cells[2 * j - 1]
    BY <1>2, <1>3, <2>3, <2>6 DEF InOrder, CellsLaidOut, Taken
  <2>8. CellsLaidOut'
    <3>1. \A k \in DOMAIN cells : k > Taken => cells'[k] = Empty
      BY <1>2, <1>3, <2>3, <2>6 DEF InOrder, CellsLaidOut
    <3>2. \A j \in 1..Len(log) : /\ 2 * j - 1 \in DOMAIN cells'
                                 /\ cells'[2 * j - 2] \in {"name"} \X Called
                                 /\ cells'[2 * j - 1] = <<"text", log[j][2]>>
      BY <1>2, <2>7 DEF InOrder, CellsLaidOut
    <3>3. cells'[Taken] \in {"name"} \X Called
      BY <2>3, <2>4
    <3>4. QED
      BY <1>5, <2>3, <2>5, <3>1, <3>2, <3>3 DEF CellsLaidOut
  <2>9. WriterPlaced'
    BY <1>5, <2>2, <2>3, <2>5 DEF WriterPlaced
  <2>10. ReadersPlaced'
    <3>1. \A q \in In({"walk"})' : q \in In({"walk"}) /\ unsteady'[q]
      BY <1>0 DEF In, Reading
    <3>2. QED
      BY <1>0, <1>2, <1>4, <1>5, <2>5, <3>1 DEF InOrder, ReadersPlaced
  <2>11. ~adds' => NamesRight'
    <3>1. SUFFICES ASSUME ~adds PROVE NamesRight'
      BY <1>0
    <3>2. NamesRight
      BY <1>2, <3>1 DEF InOrder
    <3>3. users'[idx'[p]] = users[idx[p]] /\ users[idx[p]] # NoName
      BY <1>0, <1>4, <3>2 DEF NamesRight
    <3>4. QED
      BY <1>5, <2>3, <2>5, <2>7, <3>2, <3>3 DEF NamesRight
  <2>12. QED
    BY <2>8, <2>9, <2>10, <2>11 DEF InOrder
<1>7. FaultsNeedCause'
  <2>1. SUFFICES ASSUME fault' = "full"
                 PROVE  2 * (Len(log) + Cardinality(In(Writing)')) + 1 > Cardinality(DOMAIN cells)
    BY <1>0 DEF FaultsNeedCause, Use
  <2>2. Taken + 1 \notin DOMAIN cells
    BY <1>0, <1>3, <2>1 DEF Use
  <2>3. PICK n \in Nat \ {0} : DOMAIN cells = 0..n - 1
    BY DEF CellTypes
  <2>4. Cardinality(0..n - 1) = n
    <3>1. Cardinality(0..n - 1) = IF 0 > n - 1 THEN 0 ELSE n - 1 - 0 + 1
      BY FS_Interval
    <3>2. QED
      BY <3>1
  <2>5. Cardinality(In(Writing)') = 1
    BY <1>5, FS_Singleton
  <2>6. n <= Taken + 1
    BY <1>3, <2>2, <2>3
  <2>7. QED
    BY <1>3, <2>3, <2>4, <2>5, <2>6 DEF Taken
<1>8. QED
  BY <1>6, <1>7

\* Behind the name, strlen finds the empty cell that the name left.
LEMMA WriteScanKeeps ==
  ASSUME pc \in [Procs -> States], DOMAIN at = Procs, CellTypes, CellTypes', fault = "none",
         ~mixed => InOrder, NEW p \in Procs, WriteScan(p)
  PROVE  (~mixed' /\ fault' = "none" => InOrder') /\ FaultsNeedCause'
<1>0. /\ pc[p] = "scan" /\ pc' = [pc EXCEPT ![p] = "text"]
      /\ fault' = Use(p, Terminated(0)) /\ at' = [at EXCEPT ![p] = End(0)]
      /\ UNCHANGED <<users, buffer, cells, idx, dangling, log, mixed, unsteady, adds>>
  BY DEF WriteScan, Goto, TextPlace, userVars, bufVars, histVars
<1>1. SUFFICES ASSUME ~mixed' PROVE (fault' = "none" => InOrder') /\ FaultsNeedCause'
  BY <1>0 DEF FaultsNeedCause, Use
<1>2. InOrder /\ p \in In(Scanned) /\ p \in In(Writing \cup Resetting)
  BY <1>0, <1>1 DEF In, Scanned, Writing
<1>3. /\ \A q \in In(Writing \cup Resetting) : q = p
      /\ StringEnd = Taken + 1 /\ StringEnd \in DOMAIN cells
  BY <1>2 DEF InOrder, WriterPlaced, StringEnd
<1>4. End(0) = Taken + 1 /\ Terminated(0)
  BY <1>2, <1>3, EndFound, CellsEnd DEF InOrder, Taken
<1>5. fault' \notin {"full", "null"}
  BY <1>0, <1>4 DEF Use
<1>6. /\ In(Writing)' = {p} /\ In(Scanned)' = {p} /\ In({"name"})' = {} /\ In({"text"})' = {p}
      /\ In(Writing \cup Resetting)' = {p} /\ In(Resetting)' = {}
      /\ In(Writing) = {p} /\ In(Scanned) = {p} /\ In(Resetting) = {}
  BY <1>0, <1>3 DEF In, Writing, Scanned, Resetting
<1>7. Taken' = Taken /\ at'[p] = Taken + 1
  BY <1>0, <1>4 DEF Taken
<1>8. CellsLaidOut'
  BY <1>0, <1>2, <1>6, <1>7 DEF InOrder, CellsLaidOut
<1>9. WriterPlaced'
  BY <1>0, <1>3, <1>6, <1>7 DEF WriterPlaced
<1>10. ReadersPlaced'
  <2>1. \A q \in Procs : pc'[q] = "walk" => pc[q] = "walk" /\ at'[q] = at[q]
    BY <1>0
  <2>2. QED
    BY <1>0, <1>2, <1>6, <2>1, ReadersKept DEF InOrder
<1>11. ~adds' => NamesRight'
  BY <1>0, <1>2, <1>6, <1>7 DEF InOrder, NamesRight
<1>12. QED
  BY <1>5, <1>8, <1>9, <1>10, <1>11 DEF InOrder, FaultsNeedCause

\* The text goes behind its name, and the message is one of the log.
LEMMA WriteTextKeeps ==
  ASSUME pc \in [Procs -> States], DOMAIN at = Procs, CellTypes, CellTypes', fault = "none",
         ~mixed => InOrder, NEW p \in Procs, WriteText(p)
  PROVE  (~mixed' /\ fault' = "none" => InOrder') /\ FaultsNeedCause'
<1>0. /\ pc[p] = "text" /\ pc' = [pc EXCEPT ![p] = "idle"]
      /\ fault' = Use(p, at[p] \in DOMAIN cells)
      /\ cells' = IF fault' # "none" THEN cells
                  ELSE [cells EXCEPT ![at[p]] = <<"text", arg[p]>>]
      /\ \A q \in Procs : unsteady'[q] <=> unsteady[q] \/ pc[q] \in Reading
      /\ \A q \in Procs \ {p} : at'[q] = at[q] /\ (dangling'[q] <=> dangling[q])
      /\ UNCHANGED <<users, buffer, mixed, adds>>
  BY DEF WriteText, Goto, Disturb, Forget, Copied, userVars, CellTypes
<1>1. SUFFICES ASSUME ~mixed' PROVE (fault' = "none" => InOrder') /\ FaultsNeedCause'
  BY <1>0 DEF FaultsNeedCause, Use
<1>2. InOrder /\ p \in In({"text"}) /\ p \in In(Scanned) /\ p \in In(Writing \cup Resetting)
  BY <1>0, <1>1 DEF In, Scanned, Writing
<1>3. /\ \A q \in In(Writing \cup Resetting) : q = p
      /\ at[p] = Taken + 1 /\ Taken + 1 \in DOMAIN cells
      /\ Taken \in Nat /\ Len(log) \in Nat
  <2>1. CellsLaidOut /\ WriterPlaced
    BY <1>2 DEF InOrder
  <2>2. Len(log) \in Nat
    BY <2>1, CellsEnd
  <2>3. Taken \in Nat
    BY <2>2 DEF Taken
  <2>4. QED
    BY <1>2, <2>1, <2>2, <2>3 DEF WriterPlaced
<1>4. fault' \notin {"full", "null"}
  BY <1>0, <1>3 DEF Use
<1>5. /\ In(Scanned)' = {} /\ In({"name"})' = {} /\ In({"text"})' = {} /\ In(Writing)' = {}
      /\ In(Writing \cup Resetting)' = {} /\ In(Resetting)' = {}
      /\ In(Resetting) = {} /\ In(Scanned) = {p}
  BY <1>0, <1>3 DEF In, Writing, Scanned, Resetting
<1>6. SUFFICES ASSUME fault' = "none" PROVE InOrder'
  BY <1>4 DEF FaultsNeedCause
<1>7. PICK e : e = <<users[idx[p]], arg[p]>>
  OBVIOUS
<1>8. e[1] = users[idx[p]] /\ e[2] = arg[p]
  BY <1>7
<1>9. log' = Append(log, e)
  BY <1>0, <1>1, <1>7 DEF WriteText
<1>10. /\ Len(log') = Len(log) + 1 /\ log'[Len(log) + 1] = e
       /\ \A j \in 1..Len(log) : log'[j] = log[j]
  <2>1. PICK S : S = Called \X Texts /\ log \in Seq(S)
    BY DEF CellTypes
  <2>2. e \in S
    BY <1>2, <1>7, <2>1 DEF CellTypes, In, Writing
  <2>3. \A s \in Seq(S), x \in S :
          /\ Len(Append(s, x)) = Len(s) + 1 /\ Append(s, x)[Len(s) + 1] = x
          /\ \A j \in 1..Len(s) : Append(s, x)[j] = s[j]
    BY AppendProperties
  <2>4. /\ Len(Append(log, e)) = Len(log) + 1 /\ Append(log, e)[Len(log) + 1] = e
        /\ \A j \in 1..Len(log) : Append(log, e)[j] = log[j]
    BY <2>1, <2>2, <2>3
  <2>5. QED
    BY <1>9, <2>4
<1>11. Taken' = Taken + 2
  BY <1>3, <1>10 DEF Taken
<1>12. PICK n \in Nat : DOMAIN cells = 0..n - 1
  BY DEF CellTypes
<1>13. /\ DOMAIN cells' = DOMAIN cells /\ cells'[Taken + 1] = <<"text", e[2]>>
       /\ \A k \in DOMAIN cells : k # Taken + 1 => cells'[k] = cells[k]
  BY <1>0, <1>3, <1>6, <1>8
<1>14. \A j \in 1..Len(log) : /\ 2 * j - 1 \in DOMAIN cells' /\ cells'[2 * j - 2] = cells[2 * j - 2]
                              /\ cells'[2 * j - 1] = cells[2 * j - 1]
  <2>1. SUFFICES ASSUME NEW j \in 1..Len(log)
                 PROVE  /\ 2 * j - 1 \in DOMAIN cells'
                        /\ cells'[2 * j - 2] = cells[2 * j - 2]
                        /\ cells'[2 * j - 1] = cells[2 * j - 1]
    OBVIOUS
  <2>2. 2 * j - 1 \in DOMAIN cells
    BY <1>2 DEF InOrder, CellsLaidOut
  <2>3. j \in Nat /\ Taken \in Nat /\ 2 * j - 1 < Taken + 1 /\ 2 * j - 2 < Taken + 1 /\ 2 * j - 2 >= 0
    BY <1>3 DEF Taken
  <2>4. 2 * j - 2 \in DOMAIN cells
    BY <1>12, <2>2, <2>3
  <2>5. QED
    BY <1>13, <2>2, <2>3, <2>4
<1>15. PICK l \in Nat : l = Len(log) /\ Taken = 2 * l
  BY <1>3 DEF Taken
<1>16. /\ Len(log') = l + 1 /\ log'[l + 1] = e
       /\ 2 * (l + 1) - 1 = Taken + 1 /\ 2 * (l + 1) - 2 = Taken
       /\ Taken \in DOMAIN cells /\ cells'[Taken] = cells[Taken]
  BY <1>3, <1>10, <1>12, <1>13, <1>15
<1>17. CellsLaidOut'
  <2>1. \A k \in DOMAIN cells' : k > Taken + 1 => cells'[k] = Empty
    BY <1>2, <1>3, <1>12, <1>13 DEF InOrder, CellsLaidOut
  <2>2. \A k \in DOMAIN cells' : k >= Taken' => k > Taken + 1
    BY <1>3, <1>11, <1>12, <1>13
  <2>3. ASSUME NEW j \in 1..l + 1
        PROVE  /\ 2 * j - 1 \in DOMAIN cells'
               /\ cells'[2 * j - 2] \in {"name"} \X Called
               /\ cells'[2 * j - 1] = <<"text", log'[j][2]>>
    <3>1. CASE j \in 1..l
      BY <1>2, <1>10, <1>14, <1>15, <3>1 DEF InOrder, CellsLaidOut
    <3>2. CASE j = l + 1
      <4>1. cells[Taken] \in {"name"} \X Called
        BY <1>2, <1>5 DEF InOrder, CellsLaidOut
      <4>2. QED
        BY <1>3, <1>13, <1>16, <3>2, <4>1
    <3>3. QED
      BY <3>1, <3>2
  <2>4. \A k \in DOMAIN cells' : k > Taken' \/ k = Taken' => cells'[k] = Empty
    BY <1>3, <1>11, <1>12, <1>13, <2>1, <2>2
  <2>5. \A j \in 1..Len(log') : /\ 2 * j - 1 \in DOMAIN cells'
                                /\ cells'[2 * j - 2] \in {"name"} \X Called
                                /\ cells'[2 * j - 1] = <<"text", log'[j][2]>>
    BY <1>16, <2>3
  <2>6. QED
    BY <1>5, <2>4, <2>5 DEF CellsLaidOut
<1>18. WriterPlaced'
  BY <1>5 DEF WriterPlaced
<1>19. ReadersPlaced'
  <2>1. \A q \in In({"walk"})' : q \in In({"walk"}) /\ q # p /\ unsteady'[q]
    BY <1>0 DEF In, Reading
  <2>2. \A q \in In({"walk"}) : ~dangling[q] => at[q] \in 0..Taken + 2
    BY <1>2, <1>3 DEF InOrder, ReadersPlaced
  <2>3. \A q \in In({"walk"})' : ~dangling'[q] => at'[q] \in 0..Taken'
    BY <1>0, <1>11, <2>1, <2>2 DEF In
  <2>4. QED
    BY <1>5, <2>1, <2>3 DEF ReadersPlaced
<1>20. ~adds' => NamesRight'
  <2>1. SUFFICES ASSUME ~adds PROVE NamesRight'
    BY <1>0
  <2>2. NamesRight
    BY <1>2, <2>1 DEF InOrder
  <2>3. cells[Taken] = <<"name", e[1]>>
    BY <1>2, <1>8, <2>2 DEF NamesRight
  <2>4. ASSUME NEW j \in 1..l + 1 PROVE cells'[2 * j - 2] = <<"name", log'[j][1]>>
    <3>1. CASE j \in 1..l
      BY <1>10, <1>14, <1>15, <2>2, <3>1 DEF NamesRight
    <3>2. CASE j = l + 1
      BY <1>16, <2>3, <3>2
    <3>3. QED
      BY <3>1, <3>2
  <2>5. QED
    BY <1>5, <1>16, <2>4 DEF NamesRight
<1>21. QED
  BY <1>17, <1>18, <1>19, <1>20 DEF InOrder

\* A reset that is alone: who reads holds the old buffer, and the new one is empty.
LEMMA ResetKeeps ==
  ASSUME pc \in [Procs -> States], DOMAIN at = Procs, CellTypes, CellTypes', fault = "none",
         ~mixed => InOrder, NEW p \in Procs, ResetBegin(p) \/ ResetAlloc(p)
  PROVE  (~mixed' /\ fault' = "none" => InOrder') /\ FaultsNeedCause'
<1>1. CASE ResetBegin(p)
  <2>0. /\ pc[p] = "idle" /\ pc' = [pc EXCEPT ![p] = "alloc"]
        /\ fault' \notin {"null", "full"}
        /\ buffer' = IF buffer = "live" THEN "freed" ELSE buffer
        /\ dangling' = [q \in Procs |-> pc[q] \in Writing \cup {"walk"}]
        /\ ~mixed' => ~mixed /\ In(Writing \cup Resetting) = {}
        /\ UNCHANGED <<users, cells, at, log, adds>>
    BY <1>1 DEF ResetBegin, ProcCall, userVars, Dead
  <2>1. SUFFICES ASSUME ~mixed' PROVE InOrder'
    BY <2>0 DEF FaultsNeedCause
  <2>2. InOrder /\ In(Writing \cup Resetting) = {}
    BY <2>0, <2>1
  <2>3. /\ In(Scanned) = {} /\ In({"text"})' = {} /\ In(Writing)' = {}
        /\ In(Scanned)' = {} /\ In({"name"})' = {}
        /\ In(Writing \cup Resetting)' = {p}
    BY <2>0, <2>2 DEF In, Writing, Scanned, Resetting
  <2>4. \A q \in In({"walk"})' : dangling'[q]
    BY <2>0 DEF In
  <2>5. Taken' = Taken /\ buffer' # "live"
    BY <2>0 DEF Taken
  <2>6. CellsLaidOut'
    BY <2>0, <2>2, <2>3, <2>5 DEF InOrder, CellsLaidOut
  <2>7. WriterPlaced' /\ ReadersPlaced'
    BY <2>3, <2>4, <2>5 DEF WriterPlaced, ReadersPlaced
  <2>8. ~adds' => NamesRight'
    BY <2>0, <2>2, <2>3 DEF InOrder, NamesRight
  <2>9. QED
    BY <2>6, <2>7, <2>8 DEF InOrder
<1>2. CASE ResetAlloc(p)
  <2>0. /\ pc[p] = "alloc" /\ pc' = [pc EXCEPT ![p] = "idle"]
        /\ cells' = [k \in 0..size - 1 |-> Empty] /\ log' = <<>>
        /\ UNCHANGED <<dangling, fault, mixed>>
    BY <1>2 DEF ResetAlloc, Goto, Fresh, locVars
  <2>1. SUFFICES ASSUME ~mixed PROVE InOrder'
    BY <2>0 DEF FaultsNeedCause
  <2>2. InOrder /\ p \in In(Writing \cup Resetting) /\ p \in In(Resetting)
    BY <2>0, <2>1 DEF In, Resetting
  <2>3. \A q \in In(Writing \cup Resetting) : q = p
    BY <2>2 DEF InOrder, WriterPlaced
  <2>4. /\ In({"text"})' = {} /\ In(Writing)' = {} /\ In(Scanned)' = {} /\ In({"name"})' = {}
        /\ In(Writing \cup Resetting)' = {} /\ In(Resetting)' = {}
    BY <2>0, <2>3 DEF In, Writing, Scanned, Resetting
  <2>5. \A q \in In({"walk"})' : dangling'[q]
    <3>1. In({"walk"})' \subseteq In({"walk"})
      BY <2>0 DEF In
    <3>2. \A q \in In({"walk"}) : dangling[q]
      BY <2>2 DEF InOrder, ReadersPlaced
    <3>3. QED
      BY <2>0, <3>1, <3>2
  <2>6. Len(log') = 0 /\ Taken' = 0
    BY <2>0 DEF Taken
  <2>7. CellsLaidOut'
    BY <2>0, <2>4, <2>6 DEF CellsLaidOut
  <2>8. WriterPlaced'
    BY <2>4 DEF WriterPlaced
  <2>9. ReadersPlaced'
    BY <2>4, <2>5 DEF ReadersPlaced
  <2>10. NamesRight'
    BY <2>4, <2>6 DEF NamesRight
  <2>11. QED
    BY <2>7, <2>8, <2>9, <2>10 DEF InOrder
<1>3. QED
  BY <1>1, <1>2

\* Newlines are at the ends of messages.
LEMMA NewlinePlaces ==
  ASSUME CellTypes, CellsLaidOut, NEW k \in Nat, NEW n \in Newlines(k)
  PROVE  n \in DOMAIN cells /\ n \in Nat /\ n >= k /\ n < Taken
<1>1. n \in DOMAIN cells /\ n \in Nat /\ n >= k /\ cells[n] \in {"text"} \X Lines
  BY DEF CellTypes, Newlines
<1>2. Taken \in Nat
  BY DEF CellTypes, Taken
<1>3. CASE n > Taken \/ (n = Taken /\ In(Scanned) = {})
  <2>1. cells[n] = Empty
    BY <1>1, <1>3 DEF CellsLaidOut
  <2>2. QED
    BY <1>1, <2>1, PairNotEmpty
<1>4. CASE n = Taken /\ In(Scanned) # {}
  <2>1. cells[n] \in {"name"} \X Called
    BY <1>4 DEF CellsLaidOut
  <2>2. QED
    BY <1>1, <2>1
<1>5. QED
  BY <1>1, <1>2, <1>3, <1>4

\* In whole lines, the line that begins with the name of a message ends with its text.
LEMMA LineIsMessage ==
  ASSUME CellTypes, CellsLaidOut, WriterPlaced, AllLines, In(Scanned) = {},
         NEW j \in Nat, 2 * j < Taken
  PROVE  j + 1 <= Len(log) /\ 2 * j + 1 \in Newlines(2 * j) /\ LineEnd(2 * j) = 2 * j + 1
<1>1. PICK l \in Nat : l = Len(log) /\ Taken = 2 * l
  BY DEF CellTypes, Taken
<1>2. j + 1 \in 1..l
  BY <1>1
<1>3. /\ 2 * (j + 1) - 1 = 2 * j + 1 /\ 2 * (j + 1) - 2 = 2 * j
      /\ 2 * j \in 0..Taken /\ 2 * j + 1 < Taken
  BY <1>1, <1>2
<1>4. /\ 2 * j + 1 \in DOMAIN cells /\ cells[2 * j + 1] = <<"text", log[j + 1][2]>>
      /\ cells[2 * j] \in {"name"} \X Called
  BY <1>1, <1>2, <1>3 DEF CellsLaidOut
<1>5. cells[2 * j + 1] \in {"text"} \X Lines
  BY <1>1, <1>2, <1>4 DEF AllLines
<1>6. End(2 * j) = Taken
  <2>1. StringEnd = Taken
    BY DEF StringEnd
  <2>2. QED
    BY <1>3, <2>1, EndFound
<1>7. 2 * j + 1 \in Newlines(2 * j)
  BY <1>3, <1>4, <1>5, <1>6 DEF Newlines
<1>8. 2 * j \notin Newlines(2 * j)
  BY <1>4 DEF Newlines
<1>9. LineEnd(2 * j) \in Newlines(2 * j) /\ LineEnd(2 * j) <= 2 * j + 1
  BY <1>7, LineEndFound
<1>10. LineEnd(2 * j) \in Nat /\ LineEnd(2 * j) >= 2 * j
  BY <1>9, NewlinePlaces
<1>11. QED
  BY <1>1, <1>2, <1>7, <1>8, <1>9, <1>10

\* A turn of a reader's loop ends behind a text, and steps to NULL only behind an open one.
LEMMA ReadLineKeeps ==
  ASSUME pc \in [Procs -> States], DOMAIN at = Procs, CellTypes, CellTypes', fault = "none",
         ~mixed => InOrder, NEW p \in Procs, ReadLine(p)
  PROVE  (~mixed' /\ fault' = "none" => InOrder') /\ FaultsNeedCause'
<1>0. /\ pc[p] = "walk" /\ p \in In({"walk"})
      /\ UNCHANGED <<users, buffer, cells, idx, dangling, log, mixed, unsteady, adds>>
  BY DEF ReadLine, In, userVars, bufVars, histVars
<1>1. CASE Use(p, Terminated(at[p]) \/ Newlines(at[p]) # {}) # "none"
  <2>1. pc' = pc /\ fault' = Use(p, FALSE)
    BY <1>1 DEF ReadLine
  <2>2. fault' # "none" /\ fault' # "null"
    BY <2>1 DEF Use
  <2>3. ASSUME fault' = "full", ~mixed
        PROVE  2 * (Len(log) + Cardinality(In(Writing))) + 1 > Cardinality(DOMAIN cells)
    <3>1. buffer = "live" /\ ~dangling[p] /\ ~Terminated(at[p])
      BY <1>1, <2>1, <2>3 DEF Use
    <3>2. InOrder /\ at[p] \in 0..Taken
      BY <1>0, <2>3, <3>1 DEF InOrder, ReadersPlaced
    <3>3. StringEnd \notin DOMAIN cells
      BY <3>1, <3>2, EndFound DEF InOrder
    <3>4. QED
      BY <3>2, <3>3, FullBuffer DEF InOrder
  <2>4. In(Writing)' = In(Writing)
    BY <2>1 DEF In
  <2>5. QED
    BY <1>0, <2>2, <2>3, <2>4 DEF FaultsNeedCause
<1>2. CASE Use(p, Terminated(at[p]) \/ Newlines(at[p]) # {}) = "none"
  <2>1. ~dangling[p] /\ buffer = "live" /\ (Terminated(at[p]) \/ Newlines(at[p]) # {})
    BY <1>2 DEF Use
  <2>2. ASSUME ~mixed PROVE InOrder /\ at[p] \in 0..Taken /\ at[p] \in Nat
    BY <1>0, <2>1, <2>2, CellsEnd DEF InOrder, ReadersPlaced, Taken
  <2>3. CASE fault' = fault /\ at' = at /\ (pc' = [pc EXCEPT ![p] = "count"])
    <3>1. ~mixed => ReadersPlaced'
      <4>1. /\ In(Scanned)' = In(Scanned) /\ In(Resetting)' = In(Resetting)
            /\ \A q \in Procs : pc'[q] = "walk" => pc[q] = "walk"
        BY <1>0, <2>3 DEF In, Scanned, Resetting
      <4>2. QED
        BY <1>0, <2>2, <2>3, <4>1, ReadersKept DEF InOrder
    <3>2. \A q \in Procs : pc[q] \in Writing \cup Resetting \/ pc'[q] \in Writing \cup Resetting
            => pc'[q] = pc[q] /\ at'[q] = at[q] /\ idx'[q] = idx[q]
      BY <1>0, <2>3 DEF Writing, Resetting
    <3>3. QED
      BY <1>0, <2>3, <3>1, <3>2, CellsKept DEF FaultsNeedCause
  <2>4. CASE cells[at[p]] # Empty /\ Newlines(at[p]) = {} /\ fault' = "null"
    <3>1. SUFFICES ASSUME ~mixed, \A q \in Procs : ~unsteady[q],
                          \A k \in DOMAIN log : log[k][2] \notin OpenTexts
                   PROVE  FALSE
      BY <1>0, <2>4 DEF FaultsNeedCause
    <3>2. InOrder /\ at[p] \in 0..Taken /\ Terminated(at[p])
      BY <2>1, <2>2, <2>4, <3>1
    <3>3. AllLines
      BY <3>1 DEF AllLines, CellTypes, Texts
    <3>4. PICK j \in 0..Len(log) : at[p] = 2 * j /\ In(Scanned) = {}
      BY <1>0, <2>1, <3>1, <3>2, <3>3 DEF InOrder, ReadersPlaced
    <3>5. StringEnd = Taken /\ Taken \in DOMAIN cells /\ Taken \in Nat
      <4>1. StringEnd = Taken
        BY <3>4 DEF StringEnd
      <4>2. QED
        BY <3>2, <4>1, EndFound, CellsEnd DEF InOrder
    <3>6. at[p] \in DOMAIN cells /\ at[p] \in Nat
      BY <3>2, <3>5 DEF CellTypes
    <3>7. at[p] < Taken
      <4>1. ~(at[p] >= StringEnd)
        BY <2>4, <3>2, <3>6, CellsEnd DEF InOrder
      <4>2. QED
        BY <3>5, <3>6, <4>1
    <3>8. Newlines(at[p]) # {}
      <4>1. j \in Nat
        OBVIOUS
      <4>2. QED
        BY <3>2, <3>3, <3>4, <3>7, <4>1, LineIsMessage DEF InOrder
    <3>9. QED
      BY <2>4, <3>8
  <2>5. CASE /\ Newlines(at[p]) # {} /\ fault' = fault /\ pc' = pc
             /\ at' = [at EXCEPT ![p] = LineEnd(at[p]) + 1]
    <3>1. ASSUME ~mixed PROVE ReadersPlaced'
      <4>1. /\ LineEnd(at[p]) \in Newlines(at[p]) /\ LineEnd(at[p]) \in Nat
            /\ LineEnd(at[p]) >= at[p] /\ LineEnd(at[p]) < Taken
        <5>1. LineEnd(at[p]) \in Newlines(at[p])
          BY <2>2, <2>5, <3>1, LineEndFound
        <5>2. QED
          BY <2>2, <3>1, <5>1, NewlinePlaces DEF InOrder
      <4>2. at'[p] \in 0..Taken
        BY <2>5, <4>1, <2>2, <3>1 DEF CellTypes, Taken
      <4>3. ASSUME ~unsteady[p], AllLines
            PROVE  In(Scanned) = {} /\ \E j \in 0..Len(log) : at'[p] = 2 * j
        <5>1. InOrder
          BY <2>2, <3>1
        <5>2. In(Scanned) = {} /\ \E j \in 0..Len(log) : at[p] = 2 * j
          BY <1>0, <2>1, <4>3, <5>1 DEF InOrder, ReadersPlaced
        <5>3. PICK j \in Nat : at[p] = 2 * j
          BY <5>2
        <5>4. 2 * j < Taken
          BY <2>2, <3>1, <4>1, <5>3 DEF CellTypes, Taken
        <5>5. j + 1 <= Len(log) /\ LineEnd(2 * j) = 2 * j + 1
          BY <4>3, <5>1, <5>2, <5>4, LineIsMessage DEF InOrder
        <5>6. at'[p] = 2 * (j + 1) /\ j + 1 \in 0..Len(log)
          BY <2>5, <5>3, <5>5 DEF CellTypes
        <5>7. QED
          BY <5>2, <5>6
      <4>4. /\ Taken' = Taken /\ AllLines' = AllLines /\ Len(log') = Len(log)
            /\ \A S : In(S)' = In(S)
        BY <1>0, <2>5 DEF Taken, AllLines, In
      <4>5. \A q \in Procs \ {p} : at'[q] = at[q]
        BY <2>5
      <4>6. ReadersPlaced
        BY <2>2, <3>1 DEF InOrder
      <4>7. ASSUME NEW q \in In({"walk"}), ~dangling[q]
            PROVE  /\ In(Resetting) = {} /\ at'[q] \in 0..Taken
                   /\ ~unsteady[q] /\ AllLines =>
                        In(Scanned) = {} /\ \E j \in 0..Len(log) : at'[q] = 2 * j
        <5>1. CASE q = p
          BY <4>2, <4>3, <4>6, <4>7, <5>1 DEF ReadersPlaced
        <5>2. CASE q # p
          BY <4>5, <4>6, <4>7, <5>2 DEF ReadersPlaced, In
        <5>3. QED
          BY <5>1, <5>2
      <4>8. QED
        BY <1>0, <4>4, <4>6, <4>7 DEF ReadersPlaced
    <3>2. \A q \in Procs : pc[q] \in Writing \cup Resetting \/ pc'[q] \in Writing \cup Resetting
            => pc'[q] = pc[q] /\ at'[q] = at[q] /\ idx'[q] = idx[q]
      BY <1>0, <2>5 DEF Writing, Resetting
    <3>3. QED
      BY <1>0, <2>5, <3>1, <3>2, CellsKept DEF FaultsNeedCause
  <2>6. QED
    BY <1>2, <2>3, <2>4, <2>5 DEF ReadLine
<1>3. QED
  BY <1>1, <1>2

\* A reader begins at the start, with the buffer that is there.
LEMMA ReadBeginKeeps ==
  ASSUME pc \in [Procs -> States], DOMAIN at = Procs, CellTypes, CellTypes', fault = "none",
         ~mixed => InOrder, NEW p \in Procs, ReadBegin(p)
  PROVE  (~mixed' /\ fault' = "none" => InOrder') /\ FaultsNeedCause'
<1>1. /\ pc[p] \in {"test", "again"} /\ pc' = [pc EXCEPT ![p] = "walk"]
      /\ at' = [at EXCEPT ![p] = 0]
      /\ dangling' = [dangling EXCEPT ![p] = buffer # "live"]
      /\ unsteady' = [unsteady EXCEPT ![p] = In(Writing \cup Resetting) # {}]
      /\ UNCHANGED <<users, buffer, cells, idx, fault, log, mixed, adds>>
  BY DEF ReadBegin, userVars, bufVars
<1>2. /\ In(Scanned)' = In(Scanned) /\ In(Resetting)' = In(Resetting)
      /\ In(Writing)' = In(Writing)
      /\ \A q \in Procs : pc[q] \in Writing \cup Resetting \/ pc'[q] \in Writing \cup Resetting
           => pc'[q] = pc[q] /\ at'[q] = at[q] /\ idx'[q] = idx[q]
  BY <1>1 DEF In, Scanned, Writing, Resetting
<1>3. ASSUME ~mixed PROVE ReadersPlaced'
  <2>1. ReadersPlaced /\ Taken' = Taken /\ AllLines' = AllLines /\ Len(log) \in Nat /\ Taken \in Nat
    BY <1>1, <1>3 DEF InOrder, Taken, AllLines, CellTypes
  <2>2. ASSUME NEW q \in In({"walk"})', ~dangling'[q]
        PROVE  /\ In(Resetting) = {} /\ at'[q] \in 0..Taken
               /\ ~unsteady'[q] /\ AllLines =>
                    In(Scanned) = {} /\ \E j \in 0..Len(log) : at'[q] = 2 * j
    <3>1. CASE q = p
      <4>1. buffer = "live"
        BY <1>1, <2>2, <3>1 DEF CellTypes
      <4>2. In(Resetting) = {}
        BY <2>1, <4>1 DEF ReadersPlaced
      <4>3. ~unsteady'[q] => In(Scanned) = {}
        BY <1>1, <3>1 DEF CellTypes, In, Scanned, Writing
      <4>4. at'[q] = 0 /\ 0 \in 0..Len(log) /\ 0 = 2 * 0
        BY <1>1, <2>1, <3>1
      <4>5. QED
        BY <2>1, <4>2, <4>3, <4>4
    <3>2. CASE q # p
      <4>1. /\ q \in In({"walk"}) /\ at'[q] = at[q] /\ dangling'[q] = dangling[q]
            /\ unsteady'[q] = unsteady[q]
        BY <1>1, <2>2, <3>2 DEF In
      <4>2. QED
        BY <2>1, <2>2, <4>1 DEF ReadersPlaced
    <3>3. QED
      BY <3>1, <3>2
  <2>3. QED
    BY <1>1, <1>2, <2>1, <2>2 DEF ReadersPlaced
<1>4. QED
  BY <1>1, <1>2, <1>3, CellsKept DEF FaultsNeedCause

\* A name that is there stays while users are added one at a time.
LEMMA NamesStay ==
  ASSUME UserInv, fault = "none", ~adds, NEW name,
         \/ In(Adding) = {}
         \/ \E p \in In({"store"}) : TRUE,
         users' = users \/ (userCount \in Users /\ users' = [users EXCEPT ![userCount] = name])
  PROVE  \A u \in Users : users[u] # NoName => users'[u] = users[u]
<1>1. In(Stored) = {}
  BY DEF UserInv, DeviceInv, In, Adding, Stored
<1>2. userCount \in Users => users[userCount] = NoName
  BY <1>1 DEF UserInv, TableInv
<1>3. QED
  BY <1>2 DEF UserInv, TableInv

\* The names that are there stay, whatever these calls do.
LEMMA CallKeepsNames ==
  ASSUME UserInv, fault = "none", NEW p \in Procs,
         \/ ReadAside(p) \/ ReadCount(p) \/ AddBegin(p)
         \/ AddStore(p) \/ AddLoad(p) \/ AddBump(p) \/ StatOpen(p) \/ StatStep(p)
  PROVE  ~adds' => ~adds /\ \A u \in Users : users[u] # NoName => users'[u] = users[u]
<1>1. CASE AddStore(p)
  <2>1. adds' = adds
    BY <1>1 DEF AddStore, histVars
  <2>2. p \in In({"store"})
    BY <1>1 DEF AddStore, Goto, In
  <2>3. users' = users \/ (userCount \in Users /\ users' = [users EXCEPT ![userCount] = arg[p]])
    BY <1>1 DEF AddStore
  <2>4. QED
    BY <2>1, <2>2, <2>3, NamesStay
<1>2. CASE ~AddStore(p)
  <2>1. users' = users
    BY <1>2 DEF ReadAside, ReadOpen, ReadEnd, ReadZero, ReadNone, ReadAgain, ReadReturn,
                ReadCount, CloseEarly, AddBegin, AddLoad, AddBump, StatOpen, StatStep, StatEnd,
                StatDrop, StatNone, StatBegin, StatSend, StatReturn, userVars
  <2>2. ~adds' => ~adds
    <3>1. CASE ReadOpen(p)
      BY <3>1, Zenon DEF ReadOpen
    <3>2. CASE AddBegin(p)
      BY <3>2, Zenon DEF AddBegin
    <3>3. CASE ~ReadOpen(p) /\ ~AddBegin(p)
      BY <1>2, <3>3 DEF ReadAside, ReadEnd, ReadZero, ReadNone, ReadAgain, ReadReturn, ReadCount,
                        CloseEarly, AddLoad, AddBump, StatOpen, StatStep, StatEnd, StatDrop,
                        StatNone, StatBegin, StatSend, StatReturn, histVars
    <3>4. QED
      BY <3>1, <3>2, <3>3
  <2>3. QED
    BY <2>1, <2>2
<1>3. QED
  BY <1>1, <1>2

\* They stay while the module is loaded and unloaded.
LEMMA ModuleKeepsNames ==
  ASSUME UserInv, fault = "none", Module
  PROVE  ~adds' => ~adds /\ \A u \in Users : users[u] # NoName => users'[u] = users[u]
<1>1. CASE InitAll
  <2>1. ~adds' => ~adds /\ In(Adding) = {}
    BY <1>1, Zenon DEF InitAll
  <2>2. users' = users \/ (userCount \in Users /\ users' = [users EXCEPT ![userCount] = All])
    BY <1>1 DEF InitAll
  <2>3. QED
    BY <2>1, <2>2, NamesStay
<1>2. CASE ~InitAll
  <2>1. users' = users
    BY <1>2 DEF Module, InitFiles, InitFails, InitClass, ExitFree, ExitCleanup, ExitDestroy,
                userVars
  <2>2. adds' = adds
    BY <1>2 DEF Module, InitFiles, InitFails, InitClass, ExitFree, ExitCleanup, ExitDestroy,
                histVars
  <2>3. QED
    BY <2>1, <2>2
<1>3. QED
  BY <1>1, <1>2

\* The other calls leave the cells alone, and stat finds a buffer that ends.
LEMMA OthersKeep ==
  ASSUME pc \in [Procs -> States], DOMAIN at = Procs, UserInv, CellTypes, CellTypes',
         fault = "none", ~mixed => InOrder, NEW p \in Procs,
         \/ ReadAside(p) \/ ReadCount(p) \/ AddBegin(p)
         \/ AddStore(p) \/ AddLoad(p) \/ AddBump(p) \/ StatOpen(p) \/ StatStep(p)
  PROVE  (~mixed' /\ fault' = "none" => InOrder') /\ FaultsNeedCause'
<1>1. UNCHANGED <<buffer, cells, log, mixed>> /\ fault' # "null"
  BY DEF ReadAside, ReadOpen, ReadEnd, ReadZero, ReadNone, ReadAgain, ReadReturn, ReadCount,
         CloseEarly, AddBegin, AddStore, AddLoad, AddBump, StatOpen, StatStep, StatEnd, StatDrop,
         StatNone, StatBegin, StatSend, StatReturn, bufVars, histVars, Dead
<1>2. PICK there \in States \ (Writing \cup Resetting \cup {"walk"}) :
        /\ pc[p] \notin Writing \cup Resetting \cup {"walk"}
        /\ pc' = [pc EXCEPT ![p] = there]
  BY DEF ReadAside, ReadOpen, ReadEnd, ReadZero, ReadNone, ReadAgain, ReadReturn, ReadCount,
         CloseEarly, AddBegin, AddStore, AddLoad, AddBump, StatOpen, StatStep, StatEnd, StatDrop,
         StatNone, StatBegin, StatSend, StatReturn, Goto, ProcCall, States, Writing, Resetting,
         Session, Reading, Statting, Reporting, Adding
<1>3. \A q \in Procs \ {p} :
        /\ at'[q] = at[q] /\ idx'[q] = idx[q]
        /\ dangling'[q] = dangling[q] /\ unsteady'[q] = unsteady[q]
  BY DEF ReadAside, CellTypes, ReadOpen, ReadEnd, ReadZero, ReadNone, ReadAgain, ReadReturn,
         ReadCount, CloseEarly, AddBegin, AddStore, AddLoad, AddBump, StatOpen, StatStep,
         StatEnd, StatDrop, StatNone, StatBegin, StatSend, StatReturn, locVars, histVars, Forget
<1>4. /\ In(Scanned)' = In(Scanned) /\ In(Resetting)' = In(Resetting)
      /\ In(Writing)' = In(Writing)
      /\ \A q \in Procs : pc[q] \in Writing \cup Resetting \/ pc'[q] \in Writing \cup Resetting
           => pc'[q] = pc[q] /\ at'[q] = at[q] /\ idx'[q] = idx[q]
      /\ \A q \in Procs : pc'[q] = "walk" => pc[q] = "walk" /\ q # p
  BY <1>2, <1>3 DEF In, Scanned, Writing, Resetting
<1>5. ~mixed => ReadersPlaced'
  BY <1>1, <1>3, <1>4, ReadersKept DEF InOrder
<1>6. ~adds' => ~adds /\ \A u \in Users : users[u] # NoName => users'[u] = users[u]
  BY CallKeepsNames
<1>7. ASSUME fault' = "full", ~mixed
      PROVE  2 * (Len(log) + Cardinality(In(Writing))) + 1 > Cardinality(DOMAIN cells)
  <2>1. ~Terminated(0)
    BY <1>7 DEF ReadAside, ReadOpen, ReadEnd, ReadZero, ReadNone, ReadAgain, ReadReturn,
                ReadCount, CloseEarly, AddBegin, AddStore, AddLoad, AddBump, StatOpen, StatStep,
                StatEnd, StatDrop, StatNone, StatBegin, StatSend, StatReturn, Dead
  <2>2. InOrder /\ 0 \in 0..Taken
    BY <1>7, CellsEnd DEF InOrder, Taken
  <2>3. QED
    BY <2>1, <2>2, EndFound, FullBuffer DEF InOrder
<1>8. ~mixed' => InOrder'
  BY <1>1, <1>4, <1>5, <1>6, CellsKept
<1>9. FaultsNeedCause'
  BY <1>1, <1>4, <1>7 DEF FaultsNeedCause
<1>10. QED
  BY <1>8, <1>9

\* Loading makes the buffer before there are calls, and unloading waits for the writers.
LEMMA ModuleKeepsCells ==
  ASSUME FlagInv, UserInv, CellTypes, CellTypes', fault = "none", ~mixed => InOrder, Module
  PROVE  (~mixed' /\ fault' = "none" => InOrder') /\ FaultsNeedCause'
<1>1. /\ UNCHANGED <<cells, log, mixed, at, idx, dangling, unsteady>>
      /\ fault' \notin {"null", "full"}
  BY DEF Module, InitFiles, InitFails, InitClass, InitAll, ExitFree, ExitCleanup, ExitDestroy,
         bufVars, locVars, histVars
<1>2. /\ \A q \in Procs : pc[q] \in Writing \cup Resetting \/ pc'[q] \in Writing \cup Resetting
           => pc'[q] = pc[q]
      /\ \A q \in Procs : pc'[q] = "walk" => pc[q] = "walk"
  <2>1. CASE ExitCleanup
    <3>1. /\ module = "free" /\ In(Resetting) = {} /\ \A q \in Procs : pc'[q] = "idle"
      BY <2>1 DEF ExitCleanup, In, Resetting
    <3>2. \A q \in Procs : pc[q] \notin Writing \cup Resetting
      BY <3>1 DEF FlagInv, In
    <3>3. QED
      BY <3>1, <3>2 DEF Writing, Resetting
  <2>2. CASE ~ExitCleanup
    BY <2>2 DEF Module, InitFiles, InitFails, InitClass, InitAll, ExitFree, ExitDestroy
  <2>3. QED
    BY <2>1, <2>2
<1>3. In(Scanned)' = In(Scanned) /\ In(Resetting)' = In(Resetting)
  BY <1>2 DEF In, Scanned, Writing, Resetting
<1>4. In(Resetting) # {} /\ buffer' = "live" => buffer = "live"
  BY DEF CellTypes, Module, InitFiles, InitFails, InitClass, InitAll, ExitFree, ExitCleanup,
         ExitDestroy, bufVars
<1>5. ~mixed => ReadersPlaced'
  BY <1>1, <1>2, <1>3, <1>4, ReadersKept DEF InOrder
<1>6. ~adds' => ~adds /\ \A u \in Users : users[u] # NoName => users'[u] = users[u]
  BY ModuleKeepsNames
<1>7. QED
  BY <1>1, <1>2, <1>5, <1>6, CellsKept DEF FaultsNeedCause

\* The invariant of the cells holds initially, and every step keeps it together with those
\* of the flags and the users.
LEMMA CellInductive ==
  /\ Init => CellInv
  /\ FlagInv /\ UserInv /\ CellInv /\ [Next]_vars => CellInv'
<1>1. Init => CellInv
  <2> SUFFICES ASSUME Init PROVE CellInv
    OBVIOUS
  <2>1. \A S : "idle" \notin S => In(S) = {}
    BY DEF Init, In
  <2>2. /\ In(Adding) = {} /\ In(Writing) = {} /\ In(Resetting) = {} /\ In(Scanned) = {}
        /\ In(Writing \cup Resetting) = {} /\ In({"name"}) = {} /\ In({"text"}) = {}
        /\ In({"walk"}) = {}
    BY <2>1 DEF Adding, Writing, Resetting, Scanned
  <2>3. log = <<>> /\ Len(log) = 0 /\ Taken = 0 /\ fault = "none"
    BY DEF Init, Taken
  <2>4. CellTypes
    <3>1. log \in Seq(Called \X Texts)
      BY <2>3
    <3>2. DefaultSize \in Nat \ {0} /\ size \in Sizes /\ DOMAIN cells = 0..DefaultSize - 1
      BY ChatAssumption DEF Init
    <3>3. users \in [Users -> Called] /\ idx \in [Procs -> Users]
      BY ChatAssumption DEF Init, Called, Users
    <3>4. DOMAIN dangling = Procs /\ DOMAIN unsteady = Procs
      BY DEF Init
    <3>5. QED
      BY <2>2, <3>1, <3>2, <3>3, <3>4 DEF CellTypes
  <2>5. CellsLaidOut
    <3>1. \A k \in DOMAIN cells : cells[k] = Empty
      BY DEF Init
    <3>2. QED
      BY <2>2, <2>3, <3>1 DEF CellsLaidOut
  <2>6. WriterPlaced
    BY <2>2 DEF WriterPlaced
  <2>7. ReadersPlaced
    BY <2>2 DEF ReadersPlaced
  <2>8. NamesRight
    BY <2>2, <2>3 DEF NamesRight
  <2>9. QED
    BY <2>3, <2>4, <2>5, <2>6, <2>7, <2>8 DEF CellInv, InOrder, FaultsNeedCause
<1>2. FlagInv /\ UserInv /\ CellInv /\ [Next]_vars => CellInv'
  <2> SUFFICES ASSUME FlagInv, UserInv, CellInv, [Next]_vars PROVE CellInv'
    OBVIOUS
  <2>1. CASE UNCHANGED vars
    <3>1. UNCHANGED <<users, userCount, devices, module, buffer, size, cells, pc, idx, arg,
                      dangling, at, fault, log, mixed, unsteady, adds>>
      BY <2>1 DEF vars, userVars, bufVars, locVars, histVars
    <3>2. \A S : In(S)' = In(S)
      BY <3>1 DEF In
    <3>3. CellTypes'
      BY <3>1, <3>2 DEF CellInv, CellTypes
    <3>4. InOrder' <=> InOrder
      <4>1. Taken' = Taken /\ (AllLines' <=> AllLines)
        BY <3>1 DEF Taken, AllLines
      <4>2. (CellsLaidOut' <=> CellsLaidOut) /\ (WriterPlaced' <=> WriterPlaced)
        BY <3>1, <3>2, <4>1 DEF CellsLaidOut, WriterPlaced
      <4>3. (ReadersPlaced' <=> ReadersPlaced) /\ (NamesRight' <=> NamesRight)
        BY <3>1, <3>2, <4>1 DEF ReadersPlaced, NamesRight
      <4>4. QED
        BY <3>1, <4>2, <4>3 DEF InOrder
    <3>5. FaultsNeedCause' <=> FaultsNeedCause
      BY <3>1, <3>2 DEF FaultsNeedCause
    <3>6. QED
      BY <3>1, <3>3, <3>4, <3>5 DEF CellInv
  <2>2. ASSUME fault = "none", \/ Module
                               \/ \E p \in Procs :
                                    \/ WriteBegin(p) \/ Write(p) \/ ReadOpen(p) \/ Read(p)
                                    \/ CloseEarly(p) \/ AddBegin(p) \/ ResetBegin(p)
                                    \/ StatOpen(p) \/ Proc(p)
        PROVE  CellInv'
    <3>1. /\ pc \in [Procs -> States] /\ DOMAIN at = Procs /\ CellTypes /\ (~mixed => InOrder)
          /\ CellTypes'
      BY <2>2, TypesKept DEF CellInv, FlagInv, UserInv, DeviceInv
    <3>2. CASE Module
      BY <2>2, <3>1, <3>2, ModuleKeepsCells DEF CellInv
    <3>3. ASSUME NEW p \in Procs, WriteBegin(p) \/ Write(p) PROVE CellInv'
      BY <2>2, <3>1, <3>3, WriteBeginKeeps, WriteNameKeeps, WriteScanKeeps, WriteTextKeeps
         DEF CellInv, Write
    <3>4. ASSUME NEW p \in Procs, ReadLine(p) \/ ReadBegin(p) PROVE CellInv'
      BY <2>2, <3>1, <3>4, ReadLineKeeps, ReadBeginKeeps DEF CellInv
    <3>5. ASSUME NEW p \in Procs, ResetBegin(p) \/ ResetAlloc(p) PROVE CellInv'
      BY <2>2, <3>1, <3>5, ResetKeeps DEF CellInv
    <3>6. ASSUME NEW p \in Procs,
                 \/ ReadAside(p) \/ ReadCount(p) \/ AddBegin(p)
                 \/ AddStore(p) \/ AddLoad(p) \/ AddBump(p) \/ StatOpen(p) \/ StatStep(p)
          PROVE  CellInv'
      BY <2>2, <3>1, <3>6, OthersKeep DEF CellInv
    <3>7. QED
      BY <2>2, <3>2, <3>3, <3>4, <3>5, <3>6 DEF Read, Proc, ReadAside, StatStep
  <2>3. QED
    BY <2>1, <2>2 DEF Next, Halted
<1>3. QED
  BY <1>1, <1>2

\* Unless a write met another one or a reset, or users were added two at a time, the buffer
\* is the log: whatever the number of writers, readers and messages, strcat and
\* copy_from_user put each message whole behind the one before.
THEOREM LogBuffered == Spec => []BufferIsLog
<1>1. CellInv => BufferIsLog
  <2>1. SUFFICES ASSUME CellTypes, InOrder, NamesRight, In(Writing) = {},
                        NEW k \in DOMAIN cells
                 PROVE  cells[k] = IF k < 2 * Len(log) THEN CellsOf(log)[k + 1] ELSE Empty
    BY DEF CellInv, InOrder, BufferIsLog
  <2>2. PICK l \in Nat : l = Len(log) /\ Taken = 2 * l /\ k \in Nat
    BY <2>1 DEF CellTypes, Taken
  <2>3. CASE k < 2 * l
    <3>1. k \in 0..2 * l - 1
      BY <2>2, <2>3
    <3>2. PICK j \in 1..l : k = 2 * j - 2 \/ k = 2 * j - 1
      BY <2>2, <3>1, Halves
    <3>3. CASE k = 2 * j - 2
      <4>1. k + 1 \in 1..2 * l /\ (k + 1 + 1) \div 2 = j /\ (k + 1) % 2 = 1
        BY <3>2, <3>3
      <4>2. CellsOf(log)[k + 1] = <<"name", log[j][1]>>
        BY <2>2, <4>1 DEF CellsOf
      <4>3. QED
        BY <2>1, <2>2, <2>3, <3>3, <4>2 DEF NamesRight
    <3>4. CASE k = 2 * j - 1
      <4>1. k + 1 \in 1..2 * l /\ (k + 1 + 1) \div 2 = j /\ (k + 1) % 2 # 1
        BY <3>2, <3>4
      <4>2. CellsOf(log)[k + 1] = <<"text", log[j][2]>>
        BY <2>2, <4>1 DEF CellsOf
      <4>3. QED
        BY <2>1, <2>2, <2>3, <3>4, <4>2 DEF InOrder, CellsLaidOut
    <3>5. QED
      BY <3>2, <3>3, <3>4
  <2>4. CASE ~(k < 2 * l)
    <3>1. In(Scanned) = {}
      BY <2>1 DEF In, Scanned, Writing
    <3>2. k > Taken \/ k = Taken
      BY <2>2, <2>4
    <3>3. cells[k] = Empty
      BY <2>1, <3>1, <3>2 DEF InOrder, CellsLaidOut
    <3>4. QED
      BY <2>2, <2>4, <3>3
  <2>5. QED
    BY <2>3, <2>4
<1>2. QED
  BY <1>1, FlagInductive, UserInductive, CellInductive, PTL DEF Spec

\* For any number of writers, readers and messages, dev_read steps to NULL only behind a
\* text without a newline or beside a write, and the end of the buffer is passed only when
\* it has no room for the messages since the last reset.
THEOREM FaultsCaused == Spec => []FaultsNeedCause
<1>1. CellInv => FaultsNeedCause
  BY DEF CellInv
<1>2. QED
  BY <1>1, FlagInductive, UserInductive, CellInductive, PTL DEF Spec

-----------------------------------------------------------------------------
(* What the readers get.  A reader that goes through a buffer that stays as  *)
(* it is has, at the start of a line, its messages up to there.              *)

Cell == ({"name"} \X Called) \cup ({"text"} \X Texts)

\* g holds the messages of l up to m whose places are in S, each whole and in order.
Holds(g, l, S, m) ==
  /\ g \in Seq(Cell) /\ Len(g) = 2 * Cardinality(S \cap 1..m)
  /\ \A k \in S \cap 1..m :
       LET place == 2 * Cardinality(S \cap 1..k) IN
       g[place - 1] = <<"name", l[k][1]>> /\ g[place] = <<"text", l[k][2]>>

\* The places of a reader's messages.
Mine(p) == {k \in 1..Len(log) : idx[p] = 0 \/ log[k][1] = users[idx[p]]}

ReaderHas(p) ==
  /\ pc[p] = "walk" /\ ~dangling[p] =>
       \E m \in 0..Len(log) : at[p] = 2 * m /\ Holds(got[p], log, Mine(p), m)
  /\ pc[p] \in {"count", "return"} => Holds(got[p], log, Mine(p), Len(log))

LinesInv ==
  /\ DOMAIN got = Procs
  /\ ~adds => \A p \in In(Session) : users[idx[p]] # NoName
  /\ ~mixed /\ ~adds /\ AllLines => \A p \in Procs : ~unsteady[p] => ReaderHas(p)

\* One more place: it counts if it is in the set.
LEMMA OneMorePlace ==
  ASSUME NEW S, NEW m \in Nat
  PROVE  /\ Cardinality(S \cap 1..m) \in Nat
         /\ m + 1 \in S => Cardinality(S \cap 1..(m + 1)) = Cardinality(S \cap 1..m) + 1
         /\ m + 1 \notin S => S \cap 1..(m + 1) = S \cap 1..m
<1>1. IsFiniteSet(S \cap 1..m)
  <2>1. IsFiniteSet(1..m)
    BY FS_Interval
  <2> QED  BY <2>1, FS_Subset
<1>2. Cardinality(S \cap 1..m) \in Nat
  BY <1>1, FS_CardinalityType
<1>3. ASSUME m + 1 \in S PROVE Cardinality(S \cap 1..(m + 1)) = Cardinality(S \cap 1..m) + 1
  <2>1. S \cap 1..(m + 1) = (S \cap 1..m) \cup {m + 1} /\ m + 1 \notin S \cap 1..m
    BY <1>3
  <2> QED  BY <1>1, <2>1, FS_AddElement
<1>4. m + 1 \notin S => S \cap 1..(m + 1) = S \cap 1..m
  OBVIOUS
<1> QED  BY <1>2, <1>3, <1>4

\* The rank of a place.
LEMMA RankIs ==
  ASSUME NEW S, NEW m \in Nat, NEW k \in S \cap 1..m
  PROVE  Cardinality(S \cap 1..k) \in 1..Cardinality(S \cap 1..m)
<1>1. IsFiniteSet(S \cap 1..m)
  <2>1. IsFiniteSet(1..m)
    BY FS_Interval
  <2> QED  BY <2>1, FS_Subset
<1>2. S \cap 1..k \subseteq S \cap 1..m /\ k \in S \cap 1..k
  OBVIOUS
<1>3. IsFiniteSet(S \cap 1..k) /\ Cardinality(S \cap 1..k) <= Cardinality(S \cap 1..m)
  BY <1>1, <1>2, FS_Subset
<1>4. Cardinality(S \cap 1..k) \in Nat /\ Cardinality(S \cap 1..m) \in Nat
  BY <1>1, <1>3, FS_CardinalityType
<1>5. Cardinality(S \cap 1..k) # 0
  BY <1>2, <1>3, FS_EmptySet
<1> QED  BY <1>3, <1>4, <1>5

\* Nothing is held of no messages.
LEMMA HoldsNone ==
  ASSUME NEW l, NEW S
  PROVE  Holds(<<>>, l, S, 0)
<1>1. S \cap 1..0 = {}
  OBVIOUS
<1>2. Cardinality(S \cap 1..0) = 0
  BY <1>1, FS_EmptySet
<1>3. <<>> \in Seq(Cell) /\ Len(<<>>) = 0
  OBVIOUS
<1> QED  BY <1>1, <1>2, <1>3 DEF Holds

\* The next message is added when it is the reader's.
LEMMA HoldsNext ==
  ASSUME NEW l, NEW S, NEW m \in Nat, NEW g, Holds(g, l, S, m), m + 1 \in S,
         NEW two \in Seq(Cell), Len(two) = 2,
         two[1] = <<"name", l[m + 1][1]>>, two[2] = <<"text", l[m + 1][2]>>
  PROVE  Holds(g \o two, l, S, m + 1)
<1>0. /\ Cardinality(S \cap 1..m) \in Nat
      /\ Cardinality(S \cap 1..(m + 1)) = Cardinality(S \cap 1..m) + 1
  BY OneMorePlace, Zenon
<1>1. PICK c \in Nat : c = Cardinality(S \cap 1..m) /\ Cardinality(S \cap 1..(m + 1)) = c + 1
  BY <1>0
<1>2. g \in Seq(Cell) /\ Len(g) = 2 * c
  BY <1>1 DEF Holds
<1>3. /\ g \o two \in Seq(Cell) /\ Len(g \o two) = 2 * c + 2
      /\ \A i \in 1..2 * c + 2 : (g \o two)[i] = IF i <= 2 * c THEN g[i] ELSE two[i - 2 * c]
  <2>1. /\ g \o two \in Seq(Cell) /\ Len(g \o two) = Len(g) + Len(two)
        /\ \A i \in 1..Len(g) + Len(two) :
             (g \o two)[i] = IF i <= Len(g) THEN g[i] ELSE two[i - Len(g)]
    BY <1>2, ConcatProperties
  <2>2. PICK n : n = Len(g) + Len(two) /\ n = 2 * c + 2
    BY <1>2
  <2> QED  BY <1>2, <2>1, <2>2
<1>4. ASSUME NEW k \in S \cap 1..(m + 1)
      PROVE  LET place == 2 * Cardinality(S \cap 1..k) IN
             (g \o two)[place - 1] = <<"name", l[k][1]>> /\ (g \o two)[place] = <<"text", l[k][2]>>
  <2>1. CASE k \in S \cap 1..m
    <3>1. PICK r \in 1..c : r = Cardinality(S \cap 1..k)
      BY <1>1, <2>1, RankIs
    <3>2. g[2 * r - 1] = <<"name", l[k][1]>> /\ g[2 * r] = <<"text", l[k][2]>>
      BY <2>1, <3>1 DEF Holds
    <3>3. /\ 2 * r - 1 \in 1..2 * c + 2 /\ 2 * r \in 1..2 * c + 2
          /\ 2 * r - 1 <= 2 * c /\ 2 * r <= 2 * c
      OBVIOUS
    <3> QED  BY <1>3, <3>1, <3>2, <3>3
  <2>2. CASE k \notin S \cap 1..m
    <3>1. k = m + 1 /\ Cardinality(S \cap 1..k) = c + 1
      <4>1. k = m + 1
        BY <2>2
      <4> QED  BY <1>1, <4>1
    <3>2. /\ 2 * (c + 1) - 1 \in 1..2 * c + 2 /\ 2 * (c + 1) \in 1..2 * c + 2
          /\ ~(2 * (c + 1) - 1 <= 2 * c) /\ ~(2 * (c + 1) <= 2 * c)
          /\ 2 * (c + 1) - 1 - 2 * c = 1 /\ 2 * (c + 1) - 2 * c = 2
      OBVIOUS
    <3>3. (g \o two)[2 * (c + 1) - 1] = two[1] /\ (g \o two)[2 * (c + 1)] = two[2]
      BY <1>3, <3>2
    <3> QED  BY <3>1, <3>3
  <2> QED  BY <2>1, <2>2
<1>5. Len(g \o two) = 2 * Cardinality(S \cap 1..(m + 1))
  <2>1. 2 * (c + 1) = 2 * c + 2
    OBVIOUS
  <2> QED  BY <1>1, <1>3, <2>1
<1> QED  BY <1>3, <1>4, <1>5, Zenon DEF Holds

\* A message of somebody else adds nothing.
LEMMA HoldsSkip ==
  ASSUME NEW l, NEW S, NEW m \in Nat, NEW g, Holds(g, l, S, m), m + 1 \notin S
  PROVE  Holds(g, l, S, m + 1)
<1>1. S \cap 1..(m + 1) = S \cap 1..m
  BY OneMorePlace
<1> QED  BY <1>1 DEF Holds

\* A step that leaves each steady reader what it has, or gives it what it is to have.
LEMMA LinesKept ==
  ASSUME LinesInv, DOMAIN got' = Procs, ~mixed' => ~mixed, ~adds' => ~adds,
         ~adds' => \A p \in Procs : pc'[p] \in Session =>
           users'[idx'[p]] # NoName,
         ~mixed' /\ ~adds' /\ AllLines' =>
           \A p \in Procs : pc'[p] \in Reading /\ ~unsteady'[p] =>
             \/ /\ pc'[p] = pc[p] /\ got'[p] = got[p] /\ at'[p] = at[p] /\ log' = log
                /\ idx'[p] = idx[p] /\ users'[idx[p]] = users[idx[p]]
                /\ ~unsteady[p] /\ (~dangling'[p] => ~dangling[p])
             \/ ReaderHas(p)'
  PROVE  LinesInv'
<1>1. ~adds' => \A p \in In(Session)' : users'[idx'[p]] # NoName
  BY DEF In
<1>2. ASSUME ~mixed', ~adds', AllLines', NEW p \in Procs, ~unsteady'[p]
      PROVE  ReaderHas(p)'
  <2>1. CASE pc'[p] \notin Reading
    BY <2>1 DEF ReaderHas, Reading
  <2>2. CASE /\ pc'[p] = pc[p] /\ got'[p] = got[p] /\ at'[p] = at[p] /\ log' = log
             /\ idx'[p] = idx[p] /\ users'[idx[p]] = users[idx[p]]
             /\ ~unsteady[p] /\ (~dangling'[p] => ~dangling[p])
    <3>1. AllLines
      BY <1>2, <2>2 DEF AllLines
    <3>2. ReaderHas(p)
      BY <1>2, <2>2, <3>1 DEF LinesInv
    <3>3. Mine(p)' = Mine(p)
      BY <2>2 DEF Mine
    <3> QED  BY <2>2, <3>2, <3>3 DEF ReaderHas
  <2> QED  BY <1>2, <2>1, <2>2
<1> QED  BY <1>1, <1>2 DEF LinesInv

\* A reader's two cells of a message.
LEMMA TwoCells ==
  ASSUME CellTypes, NEW j \in 1..Len(log), NEW two,
         two = [k \in 1..2 |-> IF k = 1 THEN <<"name", log[j][1]>> ELSE <<"text", log[j][2]>>]
  PROVE  /\ two \in Seq(Cell) /\ Len(two) = 2
         /\ two[1] = <<"name", log[j][1]>> /\ two[2] = <<"text", log[j][2]>>
<1>1. log[j] \in Called \X Texts
  BY LenProperties DEF CellTypes
<1>2. <<"name", log[j][1]>> \in Cell /\ <<"text", log[j][2]>> \in Cell
  BY <1>1 DEF Cell
<1> HIDE DEF Cell
<1>3. two \in [1..2 -> Cell]
  BY <1>2
<1> QED  BY <1>3

\* A turn of the reader's loop: it has one more line if that is its own; at the end it has
\* all.
LEMMA ReadLineGives ==
  ASSUME pc \in [Procs -> States], DOMAIN at = Procs, CellTypes, fault = "none",
         ~mixed => InOrder, LinesInv, NEW p \in Procs, ReadLine(p)
  PROVE  LinesInv'
<1>1. /\ pc[p] = "walk"
      /\ UNCHANGED <<users, buffer, cells, idx, dangling, log, mixed, unsteady, adds>>
  BY DEF ReadLine, userVars, bufVars, histVars
<1>2. /\ DOMAIN got' = Procs /\ pc'[p] \in {"walk", "count"}
      /\ \A q \in Procs : q # p => pc'[q] = pc[q] /\ at'[q] = at[q] /\ got'[q] = got[q]
  BY <1>1 DEF ReadLine, LinesInv
<1>3. \A q \in Procs : pc'[q] \in Session => pc[q] \in Session
  BY <1>1, <1>2 DEF Session, Reading
<1>4. ASSUME ~mixed, ~adds, AllLines, ~unsteady[p], ~(UNCHANGED <<pc, at, got>>)
      PROVE  ReaderHas(p)'
  <2>1. InOrder /\ In(Scanned) = {}
    <3>1. InOrder
      BY <1>4
    <3>2. ~dangling[p]
      BY <1>4 DEF ReadLine, Use
    <3>3. p \in In({"walk"})
      BY <1>1 DEF In
    <3> QED  BY <1>4, <3>1, <3>2, <3>3 DEF InOrder, ReadersPlaced
  <2>2. ~dangling[p]
    BY <1>4 DEF ReadLine, Use
  <2>3. PICK m \in Nat : m \in 0..Len(log) /\ at[p] = 2 * m /\ Holds(got[p], log, Mine(p), m)
    <3>1. \E m \in 0..Len(log) : at[p] = 2 * m /\ Holds(got[p], log, Mine(p), m)
      BY <1>1, <1>4, <2>2 DEF LinesInv, ReaderHas
    <3> QED  BY <3>1
  <2>4. PICK l \in Nat : l = Len(log) /\ Taken = 2 * l
    BY DEF CellTypes, Taken
  <2>5. Mine(p)' = Mine(p)
    BY <1>1 DEF Mine
  <2>6. CASE cells[at[p]] = Empty /\ pc' = [pc EXCEPT ![p] = "count"] /\ UNCHANGED <<at, got>>
    <3>1. m = l
      <4>1. SUFFICES ASSUME m # l PROVE FALSE
        OBVIOUS
      <4>2. m + 1 \in 1..l /\ 2 * (m + 1) - 2 = 2 * m
        BY <2>3, <2>4, <4>1
      <4>3. cells[2 * (m + 1) - 2] \in {"name"} \X Called
        BY <2>1, <2>4, <4>2 DEF InOrder, CellsLaidOut
      <4> QED  BY <2>3, <2>6, <4>2, <4>3, PairNotEmpty
    <3>2. pc'[p] = "count"
      BY <2>6
    <3> QED  BY <1>1, <2>3, <2>4, <2>5, <2>6, <3>1, <3>2 DEF ReaderHas
  <2>7. CASE /\ Newlines(at[p]) # {} /\ pc' = pc
             /\ got' = IF ~IsMine(p, at[p]) THEN got
                       ELSE [got EXCEPT ![p] = @ \o [k \in 1..LineEnd(at[p]) - at[p] + 1 |->
                                                       cells[at[p] + k - 1]]]
             /\ at' = [at EXCEPT ![p] = LineEnd(at[p]) + 1]
    <3>1. 2 * m < 2 * l
      <4>1. PICK n \in Newlines(2 * m) : TRUE
        BY <2>3, <2>7
      <4>2. 2 * m \in Nat
        OBVIOUS
      <4>3. n \in Nat /\ n >= 2 * m /\ n < Taken
        BY <2>1, <4>1, <4>2, NewlinePlaces DEF InOrder
      <4> QED  BY <2>4, <4>3
    <3>2. LineEnd(at[p]) = 2 * m + 1
      BY <1>4, <2>1, <2>3, <2>4, <3>1, LineIsMessage DEF InOrder
    <3>3. PICK j \in 1..l : j = m + 1
      BY <3>1
    <3>4. cells[2 * m] = <<"name", log[j][1]>> /\ cells[2 * m + 1] = <<"text", log[j][2]>>
      <4>1. 2 * j - 2 = 2 * m /\ 2 * j - 1 = 2 * m + 1
        BY <3>3
      <4>2. cells[2 * j - 2] = <<"name", log[j][1]>>
        BY <1>4, <2>1, <2>4 DEF InOrder, NamesRight
      <4>3. cells[2 * j - 1] = <<"text", log[j][2]>>
        BY <2>1, <2>4 DEF InOrder, CellsLaidOut
      <4> QED  BY <4>1, <4>2, <4>3
    <3>5. at'[p] = 2 * (m + 1) /\ m + 1 \in 0..Len(log)
      BY <2>3, <2>4, <2>7, <3>1, <3>2
    <3>6. IsMine(p, at[p]) <=> m + 1 \in Mine(p)
      <4>1. IsMine(p, at[p]) <=> idx[p] = 0 \/ log[j][1] = users[idx[p]]
        BY <2>3, <3>4 DEF IsMine
      <4>2. j \in Mine(p) <=> idx[p] = 0 \/ log[j][1] = users[idx[p]]
        BY <2>4 DEF Mine
      <4> QED  BY <3>3, <4>1, <4>2
    <3>7. Holds(got'[p], log, Mine(p), m + 1)
      <4>1. CASE m + 1 \notin Mine(p)
        <5>1. got' = got
          BY <2>7, <3>6, <4>1
        <5> QED  BY <2>3, <4>1, <5>1, HoldsSkip
      <4>2. CASE m + 1 \in Mine(p)
        <5>1. PICK two : two = [k \in 1..2 |-> IF k = 1 THEN <<"name", log[j][1]>> ELSE <<"text", log[j][2]>>]
          OBVIOUS
        <5>2. [k \in 1..LineEnd(at[p]) - at[p] + 1 |-> cells[at[p] + k - 1]] = two
          <6>1. LineEnd(at[p]) - at[p] + 1 = 2
            BY <2>3, <3>2
          <6>2. \A k \in 1..2 : cells[at[p] + k - 1] = two[k]
            <7>1. 2 * m + 1 - 1 = 2 * m /\ 2 * m + 2 - 1 = 2 * m + 1
              OBVIOUS
            <7>2. cells[at[p] + 1 - 1] = <<"name", log[j][1]>> /\ cells[at[p] + 2 - 1] = <<"text", log[j][2]>>
              BY <2>3, <3>4, <7>1
            <7> QED  BY <5>1, <7>2
          <6> QED  BY <5>1, <6>1, <6>2
        <5>3. got'[p] = got[p] \o two
          BY <2>7, <3>6, <4>2, <5>2 DEF LinesInv
        <5>4. /\ two \in Seq(Cell) /\ Len(two) = 2
              /\ two[1] = <<"name", log[m + 1][1]>> /\ two[2] = <<"text", log[m + 1][2]>>
          BY <2>4, <3>3, <5>1, TwoCells
        <5> QED  BY <2>3, <4>2, <5>3, <5>4, HoldsNext
      <4> QED  BY <4>1, <4>2
    <3>8. pc'[p] = "walk"
      BY <1>1, <2>7
    <3> QED  BY <1>1, <2>5, <3>5, <3>7, <3>8 DEF ReaderHas
  <2> QED  BY <1>4, <2>6, <2>7 DEF ReadLine
<1>5. AllLines' = AllLines
  BY <1>1 DEF AllLines
<1>6. ~adds => \A q \in Procs : pc'[q] \in Session => users[idx[q]] # NoName
  BY <1>3 DEF LinesInv, In
<1>7. ASSUME ~mixed, ~adds, AllLines, NEW q \in Procs, ~unsteady[q]
      PROVE  \/ pc'[q] = pc[q] /\ got'[q] = got[q] /\ at'[q] = at[q]
             \/ ReaderHas(q)'
  BY <1>2, <1>4, <1>7
<1> QED  BY <1>1, <1>2, <1>5, <1>6, <1>7, LinesKept

\* A reader begins with nothing.
LEMMA ReadBeginGives ==
  ASSUME pc \in [Procs -> States], DOMAIN at = Procs, CellTypes, LinesInv, NEW p \in Procs,
         ReadBegin(p)
  PROVE  LinesInv'
<1>1. /\ pc[p] \in {"test", "again"} /\ pc' = [pc EXCEPT ![p] = "walk"]
      /\ at' = [at EXCEPT ![p] = 0] /\ got' = [got EXCEPT ![p] = <<>>]
      /\ dangling' = [dangling EXCEPT ![p] = buffer # "live"]
      /\ unsteady' = [unsteady EXCEPT ![p] = In(Writing \cup Resetting) # {}]
      /\ UNCHANGED <<users, idx, log, mixed, adds>>
  BY DEF ReadBegin, userVars
<1>2. /\ pc'[p] = "walk" /\ at'[p] = 0 /\ got'[p] = <<>> /\ DOMAIN got' = Procs
      /\ \A q \in Procs : q # p =>
           /\ pc'[q] = pc[q] /\ at'[q] = at[q] /\ got'[q] = got[q]
           /\ dangling'[q] = dangling[q] /\ unsteady'[q] = unsteady[q]
  BY <1>1 DEF LinesInv, CellTypes
<1>3. \A q \in Procs : pc'[q] \in Session => pc[q] \in Session
  BY <1>1, <1>2 DEF Session
<1>4. ReaderHas(p)'
  <2>1. 0 \in 0..Len(log') /\ 0 = 2 * 0
    BY <1>1 DEF CellTypes
  <2>2. Holds(got'[p], log', Mine(p)', 0)
    BY <1>2, HoldsNone
  <2> QED  BY <1>2, <2>1, <2>2 DEF ReaderHas
<1>5. ~adds => \A q \in Procs : pc'[q] \in Session => users[idx[q]] # NoName
  BY <1>3 DEF LinesInv, In
<1> QED  BY <1>1, <1>2, <1>4, <1>5, LinesKept

\* The store of the count leaves what the reader has.
LEMMA ReadCountGives ==
  ASSUME pc \in [Procs -> States], CellTypes, LinesInv, NEW p \in Procs, ReadCount(p)
  PROVE  LinesInv'
<1>1. /\ pc[p] = "count" /\ pc' = [pc EXCEPT ![p] = "return"]
      /\ UNCHANGED <<users, at, got, idx, dangling, log, mixed, unsteady, adds>>
  BY DEF ReadCount, Goto, userVars, locVars, histVars
<1>2. /\ pc'[p] = "return" /\ DOMAIN got' = Procs
      /\ \A q \in Procs : q # p => pc'[q] = pc[q]
  BY <1>1 DEF LinesInv
<1>3. \A q \in Procs : pc'[q] \in Session => pc[q] \in Session
  BY <1>1, <1>2 DEF Session, Reading
<1>4. ASSUME ~mixed, ~adds, AllLines, ~unsteady[p] PROVE ReaderHas(p)'
  <2>1. Holds(got[p], log, Mine(p), Len(log))
    BY <1>1, <1>4 DEF LinesInv, ReaderHas
  <2>2. Mine(p)' = Mine(p)
    BY <1>1 DEF Mine
  <2> QED  BY <1>1, <1>2, <2>1, <2>2 DEF ReaderHas
<1>5. ~adds => \A q \in Procs : pc'[q] \in Session => users[idx[q]] # NoName
  BY <1>3 DEF LinesInv, In
<1>6. AllLines' = AllLines
  BY <1>1 DEF AllLines
<1> QED  BY <1>1, <1>2, <1>4, <1>5, <1>6, LinesKept

\* A write and a reset disturb the readers.
LEMMA DisturbedLines ==
  ASSUME pc \in [Procs -> States], CellTypes, LinesInv, NEW p \in Procs,
         WriteName(p) \/ WriteText(p) \/ ResetBegin(p) \/ ResetAlloc(p)
  PROVE  LinesInv'
<1>1. /\ users' = users /\ adds' = adds /\ (~mixed' => ~mixed) /\ DOMAIN got' = Procs
      /\ unsteady' = [q \in Procs |-> unsteady[q] \/ pc[q] \in Reading]
      /\ \A q \in Procs : q # p => idx'[q] = idx[q]
  <2>1. users' = users /\ adds' = adds /\ (~mixed' => ~mixed)
    <3>1. CASE ResetBegin(p)
      BY <3>1, Zenon DEF ResetBegin, userVars
    <3>2. CASE ~ResetBegin(p)
      BY <3>2 DEF WriteName, WriteText, ResetAlloc, userVars, histVars
    <3> QED  BY <3>1, <3>2
  <2>2. /\ DOMAIN got' = Procs
        /\ unsteady' = [q \in Procs |-> unsteady[q] \/ pc[q] \in Reading]
    BY DEF WriteName, WriteText, ResetBegin, ResetAlloc, locVars, Forget, Disturb, LinesInv
  <2>3. \A q \in Procs : q # p => idx'[q] = idx[q]
    BY DEF WriteName, WriteText, ResetBegin, ResetAlloc, locVars, Forget, CellTypes
  <2> QED  BY <2>1, <2>2, <2>3
<1>2. /\ pc'[p] \notin Session
      /\ \A q \in Procs : q # p => pc'[q] = pc[q]
  BY DEF WriteName, WriteText, ResetBegin, ResetAlloc, ProcCall, Goto, Session, Reading
<1>3. \A q \in Procs : pc'[q] \in Reading => unsteady'[q]
  BY <1>1, <1>2 DEF Session
<1>4. ~adds => \A q \in Procs : pc'[q] \in Session => users[idx'[q]] # NoName
  BY <1>1, <1>2 DEF LinesInv, In
<1> QED  BY <1>1, <1>3, <1>4, LinesKept

\* The other calls leave the log and the readers inside of a read alone.
LEMMA CalmLines ==
  ASSUME pc \in [Procs -> States], DOMAIN at = Procs, UserInv, CellTypes, CellTypes', LinesInv,
         fault = "none", NEW p \in Procs,
         \/ WriteBegin(p) \/ WriteScan(p)
         \/ ReadAside(p) \/ AddBegin(p)
         \/ AddStore(p) \/ AddLoad(p) \/ AddBump(p) \/ StatOpen(p) \/ StatStep(p)
  PROVE  LinesInv'
<1>1. log' = log /\ DOMAIN got' = Procs
  BY DEF ReadAside, WriteBegin, WriteScan, ReadOpen, ReadEnd, ReadZero, ReadNone, ReadAgain,
         ReadReturn, CloseEarly, AddBegin, AddStore, AddLoad, AddBump, StatOpen,
         StatStep, StatEnd, StatDrop, StatNone, StatBegin, StatSend, StatReturn, histVars,
         locVars, Forget, LinesInv
<1>2. ~mixed' => ~mixed
  <2>1. CASE WriteBegin(p)
    BY <2>1, Zenon DEF WriteBegin
  <2>2. CASE ~WriteBegin(p)
    BY <2>2 DEF ReadAside, WriteScan, ReadOpen, ReadEnd, ReadZero, ReadNone, ReadAgain,
                ReadReturn, CloseEarly, AddBegin, AddStore, AddLoad, AddBump,
                StatOpen, StatStep, StatEnd, StatDrop, StatNone, StatBegin, StatSend, StatReturn,
                histVars
  <2> QED  BY <2>1, <2>2
<1>3. /\ pc'[p] \notin Reading
      /\ \A q \in Procs : q # p => pc'[q] = pc[q]
  BY DEF ReadAside, WriteBegin, WriteScan, ReadOpen, ReadEnd, ReadZero, ReadNone, ReadAgain,
         ReadReturn, CloseEarly, AddBegin, AddStore, AddLoad, AddBump, StatOpen,
         StatStep, StatEnd, StatDrop, StatNone, StatBegin, StatSend, StatReturn, ProcCall, Goto,
         Reading
<1>4. \A q \in Procs : q # p =>
        /\ at'[q] = at[q] /\ idx'[q] = idx[q] /\ got'[q] = got[q]
        /\ dangling'[q] = dangling[q] /\ unsteady'[q] = unsteady[q]
  BY DEF ReadAside, CellTypes, LinesInv, WriteBegin, WriteScan, ReadOpen, ReadEnd, ReadZero,
         ReadNone, ReadAgain, ReadReturn, CloseEarly, AddBegin, AddStore, AddLoad,
         AddBump, StatOpen, StatStep, StatEnd, StatDrop, StatNone, StatBegin, StatSend,
         StatReturn, locVars, histVars, Forget
<1>5. ~adds' => ~adds /\ \A u \in Users : users[u] # NoName => users'[u] = users[u]
  <2>1. CASE WriteBegin(p) \/ WriteScan(p)
    <3>1. users' = users
      BY <2>1 DEF WriteBegin, WriteScan, userVars
    <3>2. ~adds' => ~adds
      <4>1. CASE WriteBegin(p)
        BY <4>1, Zenon DEF WriteBegin
      <4>2. CASE WriteScan(p)
        BY <4>2 DEF WriteScan, histVars
      <4> QED  BY <2>1, <4>1, <4>2
    <3> QED  BY <3>1, <3>2
  <2>2. CASE ~(WriteBegin(p) \/ WriteScan(p))
    BY <2>2, CallKeepsNames
  <2> QED  BY <2>1, <2>2
<1>6. ~adds' /\ pc'[p] \in Session => users'[idx'[p]] # NoName
  <2>1. CASE ReadOpen(p)
    <3>1. PICK device \in devices :
            /\ idx' = [idx EXCEPT ![p] = device[1]] /\ device[1] \in Users
            /\ adds' = (adds \/ users[device[1]] = NoName)
      BY <2>1 DEF ReadOpen
    <3>2. idx'[p] = device[1] /\ users' = users
      BY <2>1, <3>1 DEF CellTypes, ReadOpen, userVars
    <3> QED  BY <3>1, <3>2
  <2>2. CASE ReadAside(p) /\ ~ReadOpen(p)
    <3>1. users' = users /\ adds' = adds /\ idx \in [Procs -> Users]
      BY <2>2 DEF ReadAside, ReadEnd, ReadZero, ReadNone, ReadReturn, CloseEarly, userVars,
                  histVars, CellTypes
    <3>2. pc'[p] \in Session => pc[p] \in Session /\ idx'[p] = idx[p]
      BY <2>2, <3>1 DEF ReadAside, ReadEnd, ReadZero, ReadNone, ReadAgain, ReadReturn, CloseEarly,
                        Goto, Session, Reading, locVars
    <3>3. ~adds /\ pc[p] \in Session => users[idx[p]] # NoName
      BY DEF LinesInv, In
    <3> QED  BY <3>1, <3>2, <3>3
  <2>3. CASE ~ReadAside(p)
    <3>1. pc'[p] \notin Session
      BY <2>3 DEF WriteBegin, WriteScan, AddBegin, AddStore, AddLoad, AddBump, StatOpen,
                  StatStep, StatEnd, StatDrop, StatNone, StatBegin, StatSend, StatReturn,
                  ProcCall, Goto, Session, Reading
    <3> QED  BY <3>1
  <2> QED  BY <2>1, <2>2, <2>3
<1>7. ASSUME ~adds', NEW q \in Procs, q # p, pc[q] \in Session
      PROVE  users[idx[q]] # NoName /\ users'[idx[q]] = users[idx[q]]
  <2>1. ~adds /\ idx[q] \in Users
    BY <1>5, <1>7 DEF CellTypes
  <2>2. users[idx[q]] # NoName
    BY <1>7, <2>1 DEF LinesInv, In
  <2> QED  BY <1>5, <1>7, <2>1, <2>2
<1>8. ~adds' => \A q \in Procs : pc'[q] \in Session => users'[idx'[q]] # NoName
  BY <1>3, <1>4, <1>6, <1>7
<1>9. ASSUME ~adds', NEW q \in Procs, pc'[q] \in Reading, ~unsteady'[q]
      PROVE  /\ pc'[q] = pc[q] /\ got'[q] = got[q] /\ at'[q] = at[q]
             /\ idx'[q] = idx[q] /\ users'[idx[q]] = users[idx[q]]
             /\ ~unsteady[q] /\ (~dangling'[q] => ~dangling[q])
  <2>1. q # p /\ pc[q] \in Session
    BY <1>3, <1>9 DEF Session
  <2> QED  BY <1>3, <1>4, <1>7, <1>9, <2>1
<1> QED  BY <1>1, <1>2, <1>5, <1>8, <1>9, LinesKept

\* Nor do loading and unloading.
LEMMA ModuleKeepsLines ==
  ASSUME UserInv, CellTypes, LinesInv, fault = "none", Module
  PROVE  LinesInv'
<1>1. UNCHANGED <<log, mixed, at, idx, got, dangling, unsteady>>
  BY DEF Module, InitFiles, InitFails, InitClass, InitAll, ExitFree, ExitCleanup, ExitDestroy,
         locVars, histVars
<1>2. \A q \in Procs : pc'[q] = pc[q] \/ pc'[q] = "idle"
  BY DEF Module, InitFiles, InitFails, InitClass, InitAll, ExitFree, ExitCleanup, ExitDestroy
<1>3. ~adds' => ~adds /\ \A u \in Users : users[u] # NoName => users'[u] = users[u]
  BY ModuleKeepsNames
<1>4. ASSUME ~adds', NEW q \in Procs, pc'[q] \in Session
      PROVE  pc'[q] = pc[q] /\ users[idx[q]] # NoName /\ users'[idx[q]] = users[idx[q]]
  <2>1. pc'[q] = pc[q]
    BY <1>2, <1>4 DEF Session, Reading
  <2>2. ~adds /\ idx[q] \in Users
    BY <1>3, <1>4 DEF CellTypes
  <2>3. users[idx[q]] # NoName
    BY <1>4, <2>1, <2>2 DEF LinesInv, In
  <2> QED  BY <1>3, <1>4, <2>1, <2>2, <2>3
<1>5. DOMAIN got' = Procs
  BY <1>1 DEF LinesInv
<1>6. ~adds' => \A q \in Procs : pc'[q] \in Session => users'[idx'[q]] # NoName
  BY <1>1, <1>4
<1>7. Reading \subseteq Session
  BY DEF Session
<1> QED  BY <1>1, <1>3, <1>4, <1>5, <1>6, <1>7, LinesKept

\* The invariant of the readers holds initially, and every step keeps it together with
\* those of the flags, the users and the cells.
LEMMA LinesInductive ==
  /\ Init => LinesInv
  /\ FlagInv /\ UserInv /\ CellInv /\ CellInv' /\ LinesInv /\ [Next]_vars => LinesInv'
<1>1. Init => LinesInv
  <2> SUFFICES ASSUME Init PROVE LinesInv
    OBVIOUS
  <2>1. DOMAIN got = Procs /\ \A p \in Procs : pc[p] = "idle"
    BY DEF Init
  <2>2. In(Session) = {} /\ \A p \in Procs : ReaderHas(p)
    BY <2>1 DEF In, Session, Reading, ReaderHas
  <2> QED  BY <2>1, <2>2 DEF LinesInv
<1>2. ASSUME FlagInv, UserInv, CellInv, CellInv', LinesInv, [Next]_vars
      PROVE  LinesInv'
  <2>1. /\ pc \in [Procs -> States] /\ DOMAIN at = Procs /\ CellTypes /\ CellTypes'
        /\ (fault = "none" /\ ~mixed => InOrder)
    BY <1>2 DEF CellInv, FlagInv, UserInv, DeviceInv
  <2>2. CASE UNCHANGED vars
    <3>1. UNCHANGED <<users, pc, idx, dangling, at, got, log, mixed, unsteady, adds>>
      BY <2>2 DEF vars, userVars, locVars, histVars
    <3>2. /\ In(Session)' = In(Session) /\ AllLines' = AllLines
          /\ \A p \in Procs : ReaderHas(p)' = ReaderHas(p)
      BY <3>1 DEF In, AllLines, ReaderHas, Mine
    <3> QED  BY <1>2, <3>1, <3>2 DEF LinesInv
  <2>3. CASE fault = "none" /\ Module
    BY <1>2, <2>1, <2>3, ModuleKeepsLines
  <2>4. ASSUME fault = "none", NEW p \in Procs, \/ WriteBegin(p) \/ Write(p) \/ ReadOpen(p) \/ Read(p)
                                    \/ CloseEarly(p) \/ AddBegin(p) \/ ResetBegin(p)
                                    \/ StatOpen(p) \/ Proc(p)
        PROVE  LinesInv'
    <3>1. CASE ReadLine(p)
      BY <1>2, <2>1, <2>4, <3>1, ReadLineGives
    <3>2. CASE ReadBegin(p)
      BY <1>2, <2>1, <3>2, ReadBeginGives
    <3>3. CASE WriteName(p) \/ WriteText(p) \/ ResetBegin(p) \/ ResetAlloc(p)
      BY <1>2, <2>1, <3>3, DisturbedLines
    <3>4. CASE \/ WriteBegin(p) \/ WriteScan(p)
               \/ ReadAside(p) \/ AddBegin(p)
               \/ AddStore(p) \/ AddLoad(p) \/ AddBump(p) \/ StatOpen(p) \/ StatStep(p)
      BY <1>2, <2>1, <2>4, <3>4, CalmLines
    <3>5. CASE ReadCount(p)
      BY <1>2, <2>1, <3>5, ReadCountGives
    <3> QED  BY <2>4, <3>1, <3>2, <3>3, <3>4, <3>5 DEF Write, Read, Proc, ReadAside, StatStep
  <2> QED  BY <1>2, <2>2, <2>3, <2>4 DEF Next, Halted
<1> QED  BY <1>1, <1>2

(* What the readers are told.  While sessions do not meet, nobody else       *)
(* stores bytes_read between a reader's store and its reload.                *)

CountInv == ~broken => \A p \in In({"return"}) : bytesRead = Len(got[p])

\* The other steps of a reader: none of them stands between the store and the reload.
LEMMA ReaderCounts ==
  ASSUME FlagInv, LinesInv, CountInv, NEW p \in Procs, ReadOpen(p) \/ Read(p)
  PROVE  CountInv'
<1>0. /\ pc \in [Procs -> States] /\ DOMAIN got = Procs
      /\ ~broken => \A q, o \in In(Session) : q = o
  BY DEF FlagInv, LinesInv
<1>1. CASE ReadCount(p)
  <2>1. /\ pc[p] = "count" /\ pc' = [pc EXCEPT ![p] = "return"]
        /\ bytesRead' = Len(got[p]) /\ UNCHANGED <<got, broken>>
    BY <1>1 DEF ReadCount, Goto, locVars, histVars
  <2>2. SUFFICES ASSUME ~broken, NEW q \in Procs, pc'[q] = "return"
                 PROVE  bytesRead' = Len(got'[q])
    BY <2>1 DEF CountInv, In
  <2>3. CASE q = p
    BY <2>1, <2>3
  <2>4. CASE q # p
    <3>1. p \in In(Session) /\ q \in In(Session)
      BY <1>0, <2>1, <2>2, <2>4 DEF In, Session, Reading
    <3> QED  BY <1>0, <2>2, <2>4, <3>1
  <2> QED  BY <2>3, <2>4
<1>2. CASE ReadZero(p)
  <2>1. /\ pc[p] = "end" /\ pc' = [pc EXCEPT ![p] = "zero"]
        /\ UNCHANGED <<got, broken>>
    BY <1>2 DEF ReadZero, Goto, locVars, histVars
  <2>2. SUFFICES ASSUME ~broken, NEW q \in Procs, pc'[q] = "return" PROVE FALSE
    BY <2>1 DEF CountInv, In
  <2>3. q # p /\ p \in In(Session) /\ q \in In(Session)
    BY <1>0, <2>1, <2>2 DEF In, Session, Reading
  <2> QED  BY <1>0, <2>2, <2>3
<1>3. CASE ~ReadCount(p) /\ ~ReadZero(p)
  <2>1. bytesRead' = bytesRead /\ (~broken' => ~broken)
    <3>1. bytesRead' = bytesRead
      BY <1>3 DEF ReadOpen, Read, ReadEnd, ReadNone, ReadBegin, ReadLine, ReadReturn, eofVars
    <3>2. CASE ReadOpen(p)
      BY <3>1, <3>2, Zenon DEF ReadOpen
    <3>3. CASE ~ReadOpen(p)
      <4>1. broken' = broken
        BY <1>3, <3>3 DEF Read, ReadEnd, ReadNone, ReadBegin, ReadLine, ReadReturn, histVars
      <4> QED  BY <3>1, <4>1, Zenon
    <3> QED  BY <3>2, <3>3
  <2>2. /\ pc'[p] # "return"
        /\ \A q \in Procs : q # p => pc'[q] = pc[q] /\ got'[q] = got[q]
    BY <1>0, <1>3 DEF ReadOpen, Read, ReadEnd, ReadNone, ReadAgain, ReadBegin, ReadLine,
                      ReadReturn, Goto, Forget, locVars
  <2> QED  BY <2>1, <2>2 DEF CountInv, In
<1> QED  BY <1>1, <1>2, <1>3

\* The invariant of the count holds initially, and every step keeps it together with those
\* of the flags and the readers.
LEMMA CountInductive ==
  /\ Init => CountInv
  /\ FlagInv /\ LinesInv /\ CountInv /\ [Next]_vars => CountInv'
<1>1. Init => CountInv
  BY DEF Init, CountInv, In
<1>2. ASSUME FlagInv, LinesInv, CountInv, [Next]_vars PROVE CountInv'
  <2>0. pc \in [Procs -> States] /\ DOMAIN got = Procs
    BY <1>2 DEF FlagInv, LinesInv
  <2>1. ASSUME NEW p \in Procs, ReadOpen(p) \/ Read(p) PROVE CountInv'
    BY <1>2, <2>1, ReaderCounts
  <2>2. ASSUME NEW p \in Procs,
               \/ WriteBegin(p) \/ Write(p) \/ AddBegin(p) \/ AddStore(p) \/ AddLoad(p)
               \/ AddBump(p) \/ ResetBegin(p) \/ ResetAlloc(p) \/ StatOpen(p) \/ StatStep(p)
               \/ CloseEarly(p)
        PROVE  CountInv'
    <3>1. bytesRead' = bytesRead
      BY <2>2 DEF WriteBegin, Write, WriteName, WriteScan, WriteText, AddBegin, AddStore,
                  AddLoad, AddBump, ResetBegin, ResetAlloc, StatOpen, StatStep, StatEnd,
                  StatDrop, StatNone, StatBegin, StatSend, StatReturn, CloseEarly, eofVars
    <3>2. ~broken' => ~broken
      BY <2>2 DEF WriteBegin, Write, WriteName, WriteScan, WriteText, AddBegin, AddStore,
                  AddLoad, AddBump, ResetBegin, ResetAlloc, StatOpen, StatStep, StatEnd,
                  StatDrop, StatNone, StatBegin, StatSend, StatReturn, CloseEarly, histVars
    <3>3. /\ pc'[p] # "return"
          /\ \A q \in Procs : q # p => pc'[q] = pc[q] /\ got'[q] = got[q]
      BY <2>0, <2>2
         DEF WriteBegin, Write, WriteName, WriteScan, WriteText, AddBegin, AddStore, AddLoad,
             AddBump, ResetBegin, ResetAlloc, StatOpen, StatStep, StatEnd, StatDrop, StatNone,
             StatBegin, StatSend, StatReturn, CloseEarly, ProcCall, Goto, Forget, locVars
    <3> QED  BY <1>2, <3>1, <3>2, <3>3 DEF CountInv, In
  <2>3. CASE Module
    <3>1. /\ UNCHANGED <<bytesRead, got>>
          /\ \A p \in Procs : pc'[p] = "return" => pc[p] = "return"
      BY <2>3 DEF Module, InitFiles, InitFails, InitClass, InitAll, ExitFree, ExitCleanup,
                  ExitDestroy, eofVars, locVars, histVars
    <3>2. ~broken' => ~broken
      <4>1. CASE ExitCleanup
        BY <4>1, Zenon DEF ExitCleanup
      <4>2. CASE ~ExitCleanup
        <5>1. broken' = broken
          BY <2>3, <4>2 DEF Module, InitFiles, InitFails, InitClass, InitAll, ExitFree,
                            ExitDestroy, histVars
        <5> QED  BY <5>1, Zenon
      <4> QED  BY <4>1, <4>2
    <3> QED  BY <1>2, <3>1, <3>2 DEF CountInv, In
  <2>4. CASE UNCHANGED vars
    BY <1>2, <2>4 DEF CountInv, In, vars, eofVars, locVars, histVars
  <2> QED  BY <1>2, <2>1, <2>2, <2>3, <2>4 DEF Next, Halted, Proc, StatStep
<1> QED  BY <1>1, <1>2

\* Whatever the number of readers, writers, users and messages: a read of a buffer that did
\* not change copies each message of the reader's name once, whole and in order, and no
\* other, however the reads of other processes go on beside it.  It also returns the
\* length of that as long as no two sessions of readers have met.
THEOREM OwnLinesGiven == Spec => []ReadGivesOwnLines
<1>1. CellInv /\ LinesInv /\ CountInv => ReadGivesOwnLines
  <2> SUFFICES ASSUME CellTypes, LinesInv, CountInv, NEW p \in Procs
               PROVE
    /\ pc[p] \in {"count", "return"} /\ ~unsteady[p] /\ ~mixed /\ ~adds
       /\ (\A k \in DOMAIN log : log[k][2] \in Lines) =>
         /\ Len(got[p]) = 2 * Cardinality(Own(p, Len(log)))
         /\ \A k \in Own(p, Len(log)) :
              LET place == 2 * Cardinality(Own(p, k)) IN
              got[p][place - 1] = <<"name", log[k][1]>> /\ got[p][place] = <<"text", log[k][2]>>
    /\ pc[p] = "return" /\ ~broken => bytesRead = Len(got[p])
    BY DEF CellInv, ReadGivesOwnLines
  <2>1. ASSUME pc[p] \in {"count", "return"}, ~unsteady[p], ~mixed, ~adds,
               \A k \in DOMAIN log : log[k][2] \in Lines
        PROVE  /\ Len(got[p]) = 2 * Cardinality(Own(p, Len(log)))
               /\ \A k \in Own(p, Len(log)) :
                    LET place == 2 * Cardinality(Own(p, k)) IN
                    /\ got[p][place - 1] = <<"name", log[k][1]>>
                    /\ got[p][place] = <<"text", log[k][2]>>
    <3>1. AllLines
      BY <2>1 DEF AllLines, CellTypes
    <3>2. Holds(got[p], log, Mine(p), Len(log))
      BY <2>1, <3>1 DEF LinesInv, ReaderHas
    <3>3. PICK l \in Nat : l = Len(log)
      BY DEF CellTypes
    <3>4. \A n \in 0..l : Mine(p) \cap 1..n = Own(p, n)
      BY <3>3 DEF Mine, Own
    <3>5. l \in 0..l /\ \A k \in Own(p, l) : k \in 0..l
      BY <3>3 DEF Own
    <3> QED  BY <3>2, <3>3, <3>4, <3>5 DEF Holds
  <2>2. pc[p] = "return" /\ ~broken => bytesRead = Len(got[p])
    BY DEF CountInv, In
  <2> QED  BY <2>1, <2>2
<1> QED  BY <1>1, FlagInductive, UserInductive, CellInductive, LinesInductive, CountInductive,
            PTL DEF Spec

=============================================================================
