--------------------------- MODULE ExchangeProofs ---------------------------
(***************************************************************************)
(* Proofs about Exchange for any finite set of processes, any rates and    *)
(* inputs, any width of int and any number of amounts written.             *)
(***************************************************************************)
EXTENDS Exchange, TLAPS

Reading == ReadStates \cup {"end"}
States == Reading \cup {"idle", "reset", "fill", "scan"}

\* The buffer is made before the files, and freed when both are gone; a call is inside a
\* file that exists.
PartsInv ==
  /\ module \in {"class", "buffer", "dir", "uah", "eu", "loaded", "undo", "leaving", "failed",
                 "unloaded"}
  /\ module = "class" => parts = {}
  /\ module \in {"dir", "uah", "eu", "loaded"} => "buffer" \in parts
  /\ parts \cap Currency # {} => "buffer" \in parts
  /\ module \in {"failed", "unloaded"} => parts \subseteq {"class"}
  /\ pc \in [Procs -> States] /\ cur \in [Procs -> Currency \cup {"none"}]
  /\ \A p \in Calling : cur[p] \in Currency \cap parts

\* The fields hold numbers.
NumbersInv ==
  /\ amount \in [Currency -> Int] /\ l \in [Currency -> Int] /\ r \in [Currency -> Int]
  /\ rate \in Int /\ buf.num \in Int \cup {NoNumber}
  /\ n \in [Procs -> Int] /\ DOMAIN out = Procs /\ clean \in [Procs -> BOOLEAN]
  /\ DOMAIN stored = Currency
  /\ \A c \in Currency : stored[c] # Unknown => amount[c] = stored[c]

\* Beside a clean read there are only clean reads of the same file.
CleanInv ==
  \A p \in Procs : clean[p] /\ pc[p] \in Reading => \A o \in Calling : ReadsWith(o, cur[p])

\* The two numbers that a read of c computes.
Result(c) == <<Quot(Converted(c), 100), Rem(Converted(c), 100)>>

\* All clean reads compute the same, and find it wherever it is kept meanwhile.
Computed(p) == clean[p] /\ pc[p] \in ReadStates /\ (pc[p] = "right" => fault = "none")
ResultInv ==
  \A p \in Procs : Computed(p) =>
    /\ cur[p] = "uah" => rate # 0
    /\ l[Other[cur[p]]] = Result(cur[p])[1]
    /\ pc[p] = "right" => n[p] = Converted(cur[p])
    /\ pc[p] # "right" => r[Other[cur[p]]] = Result(cur[p])[2]
    /\ pc[p] = "copy" => buf.out = Result(cur[p])
    /\ pc[p] = "return" => out[p] = Result(cur[p])

ReadInv == PartsInv /\ NumbersInv /\ CleanInv /\ ResultInv

-----------------------------------------------------------------------------
(* Arithmetic                                                                *)

\* The quotient of naturals is the last multiple that fits.
LEMMA DivisionFacts ==
  \A x \in Nat, y \in Nat \ {0} :
    /\ x \div y \in Nat
    /\ (x \div y) * y <= x /\ x < (x \div y + 1) * y
  OBVIOUS

\* Numbers that an int holds do not wrap around.
LEMMA WrappedFits ==
  ASSUME NEW x \in Int, x <= IntMax, -IntMax <= x
  PROVE  Wrapped(x) = x
  <1>1. IntMax \in Nat
    BY ExchangeAssumption
  <1>2. \A y \in Nat, k \in Nat : y < k => y % k = y
    OBVIOUS
  <1>3. x + IntMax + 1 \in Nat /\ 2 * (IntMax + 1) \in Nat /\ x + IntMax + 1 < 2 * (IntMax + 1)
    BY <1>1
  <1>4. (x + IntMax + 1) % (2 * (IntMax + 1)) = x + IntMax + 1
    BY <1>2, <1>3
  <1> QED
    BY <1>1, <1>4 DEF Wrapped

\* Division as C has it, towards zero, gives an integer.
LEMMA QuotType ==
  ASSUME NEW a \in Int, NEW b \in Int, b # 0
  PROVE  Quot(a, b) \in Int
  <1> DEFINE x == IF a < 0 THEN -a ELSE a
             y == IF b < 0 THEN -b ELSE b
  <1>1. x \in Nat /\ y \in Nat \ {0}
    OBVIOUS
  <1>2. x \div y \in Nat
    BY <1>1, DivisionFacts
  <1>3. Quot(a, b) = IF (a < 0) = (b < 0) THEN x \div y ELSE -(x \div y)
    BY DEF Quot
  <1> HIDE DEF x, y
  <1> QED
    BY <1>2, <1>3

\* Division in C: the quotient is cut towards zero.
LEMMA QuotFacts ==
  ASSUME NEW a \in Int, NEW b \in Int, b # 0
  PROVE  /\ Abs(Quot(a, b)) * Abs(b) <= Abs(a) /\ Abs(a) < (Abs(Quot(a, b)) + 1) * Abs(b)
         /\ (a >= 0) = (b > 0) => Quot(a, b) >= 0
         /\ (a >= 0) # (b > 0) => Quot(a, b) <= 0
         /\ Quot(a, b) \in Int
  <1> DEFINE x == Abs(a)
             y == Abs(b)
             q == x \div y
  <1>1. x \in Nat /\ y \in Nat \ {0}
    BY DEF Abs
  <1>2. q \in Nat /\ q * y <= x /\ x < (q + 1) * y
    BY <1>1, DivisionFacts
  <1>3. Quot(a, b) = IF (a < 0) = (b < 0) THEN q ELSE -q
    BY DEF Quot, Abs
  <1>4. (a < 0) = (b < 0) <=> (a >= 0) = (b > 0)
    OBVIOUS
  <1> HIDE DEF q
  <1>5. Abs(Quot(a, b)) = q
    BY <1>2, <1>3 DEF Abs
  <1>6. Quot(a, b) \in Int
    BY <1>2, <1>3
  <1>7. (a >= 0) = (b > 0) => Quot(a, b) >= 0
    BY <1>2, <1>3, <1>4
  <1>8. (a >= 0) # (b > 0) => Quot(a, b) <= 0
    BY <1>2, <1>3, <1>4
  <1> QED
    BY <1>2, <1>5, <1>6, <1>7, <1>8

\* The point: the whole units and the hundredths of a number of hundredths.
LEMMA HundredthsFacts ==
  ASSUME NEW v \in Int
  PROVE  /\ Quot(v, 100) \in Int /\ Rem(v, 100) \in Int
         /\ 100 * Abs(Quot(v, 100)) + Abs(Rem(v, 100)) = Abs(v)
         /\ Abs(Rem(v, 100)) < 100
         /\ v >= 0 => Quot(v, 100) >= 0 /\ Rem(v, 100) >= 0
         /\ v <= 0 => Quot(v, 100) <= 0 /\ Rem(v, 100) <= 0
  BY DEF Quot, Rem, Abs

\* The conversion and the point together give the worth.
LEMMA ResultWorth ==
  ASSUME NEW c \in Currency, amount[c] \in Int, rate \in Int, c = "uah" => rate # 0,
         Fits(c, amount[c])
  PROVE  Worth(c, amount[c], Result(c)[1], Result(c)[2])
  <1> DEFINE a == amount[c]
             v == Converted(c)
  <1>0. IntMax \in Nat
    BY ExchangeAssumption
  <1>1. Wrapped(100 * a) = 100 * a
    <2>1. 100 * a \in Int /\ 100 * a <= IntMax /\ -IntMax <= 100 * a
      BY <1>0 DEF Fits, Abs
    <2> QED
      BY <2>1, WrappedFits
  <1>2. CASE c = "uah"
    <2>1. v = Quot(100 * a, rate)
      BY <1>1, <1>2 DEF Converted, UahToEu
    <2>2. /\ Abs(v) * Abs(rate) <= Abs(100 * a) /\ Abs(100 * a) < (Abs(v) + 1) * Abs(rate)
          /\ (100 * a >= 0) = (rate > 0) => v >= 0
          /\ (100 * a >= 0) # (rate > 0) => v <= 0
          /\ v \in Int
      <3>1. rate # 0 /\ 100 * a \in Int
        BY <1>2
      <3> HIDE DEF v
      <3> QED
        BY <2>1, <3>1, QuotFacts, Zenon
    <2>3. Abs(100 * a) = 100 * Abs(a) /\ (100 * a >= 0 <=> a >= 0) /\ (rate > 0 <=> rate >= 0)
      BY <1>2 DEF Abs
    <2> HIDE DEF v
    <2>4. /\ 100 * Abs(Quot(v, 100)) + Abs(Rem(v, 100)) = Abs(v)
          /\ Abs(Rem(v, 100)) < 100
          /\ v >= 0 => Quot(v, 100) >= 0 /\ Rem(v, 100) >= 0
          /\ v <= 0 => Quot(v, 100) <= 0 /\ Rem(v, 100) <= 0
      BY <2>2, HundredthsFacts
    <2>5. Result(c)[1] = Quot(v, 100) /\ Result(c)[2] = Rem(v, 100)
      BY DEF Result, v
    <2>6. IF (a >= 0) = (rate >= 0) THEN v >= 0 ELSE v <= 0
      BY <2>2, <2>3
    <2> QED
      BY <1>2, <2>2, <2>3, <2>4, <2>5, <2>6 DEF Worth
  <1>3. CASE c = "eu"
    <2>1. v = 100 * (a * rate)
      <3>1. 100 * a * rate \in Int /\ 100 * a * rate = 100 * (a * rate)
        OBVIOUS
      <3>2. 100 * (a * rate) <= IntMax /\ -IntMax <= 100 * (a * rate)
        BY <1>0, <1>3 DEF Fits, Abs
      <3>3. Wrapped(100 * a * rate) = 100 * a * rate
        BY <3>1, <3>2, WrappedFits
      <3> QED
        BY <1>1, <1>3, <3>1, <3>3 DEF Converted, EuToUah
    <2>2. v \in Int /\ Abs(v) = 100 * Abs(a * rate)
      BY <2>1 DEF Abs
    <2>3. IF (a >= 0) = (rate >= 0) THEN v >= 0 ELSE v <= 0
      <3>1. \A x, y \in Int : IF (x >= 0) = (y >= 0) THEN x * y >= 0 ELSE x * y <= 0
        OBVIOUS
      <3>2. IF (a >= 0) = (rate >= 0) THEN a * rate >= 0 ELSE a * rate <= 0
        BY <3>1
      <3>3. a * rate \in Int
        OBVIOUS
      <3> QED
        BY <2>1, <3>2, <3>3
    <2> HIDE DEF v
    <2>4. /\ 100 * Abs(Quot(v, 100)) + Abs(Rem(v, 100)) = Abs(v)
          /\ Abs(Rem(v, 100)) < 100
          /\ v >= 0 => Quot(v, 100) >= 0 /\ Rem(v, 100) >= 0
          /\ v <= 0 => Quot(v, 100) <= 0 /\ Rem(v, 100) <= 0
      BY <2>2, HundredthsFacts
    <2>5. Result(c)[1] = Quot(v, 100) /\ Result(c)[2] = Rem(v, 100)
      BY DEF Result, v
    <2> QED
      BY <1>3, <2>2, <2>3, <2>4, <2>5 DEF Worth
  <1> QED
    BY <1>2, <1>3 DEF Currency

-----------------------------------------------------------------------------
(* The buffer outlives the calls                                             *)

\* The class comes first, and nobody can call before it.
LEMMA PartsInit == Init => PartsInv
  BY DEF Init, PartsInv, Calling, States, Reading, ReadStates, Currency

\* A call that goes on stays inside the file it called.
LEMMA PartsCall ==
  ASSUME PartsInv, NEW p \in Procs, Call(p)
  PROVE  PartsInv'
  <1>1. module' = module /\ parts' = parts
    BY DEF Call, ReadBegin, ReadRight, ReadTest, ReadEnd, ReadPrint, ReadCopy, ReadReturn,
           WriteBegin, WriteReset, WriteFill, WriteScan
  <1>2. /\ pc' \in [Procs -> States] /\ cur' \in [Procs -> Currency \cup {"none"}]
        /\ \A q \in Procs \ {p} : pc'[q] = pc[q] /\ cur'[q] = cur[q]
        /\ pc'[p] # "idle" => cur'[p] \in Currency \cap parts
    <2>1. CASE ReadBegin(p) \/ WriteBegin(p)
      <3>1. PICK c \in Currency : /\ c \in parts /\ cur' = [cur EXCEPT ![p] = c]
                                 /\ \E s \in {"right", "reset", "fill"} : pc' = [pc EXCEPT ![p] = s]
        <4>1. CASE ReadBegin(p)
          BY <4>1, Zenon DEF ReadBegin, Goto
        <4>2. CASE WriteBegin(p)
          <5>1. PICK c \in Currency :
                  /\ c \in parts /\ cur' = [cur EXCEPT ![p] = c]
                  /\ pc' = [pc EXCEPT ![p] = IF wr[c] THEN "reset" ELSE "fill"]
            BY <4>2, Zenon DEF WriteBegin
          <5>2. (IF wr[c] THEN "reset" ELSE "fill") \in {"reset", "fill"}
            OBVIOUS
          <5> QED
            BY <5>1, <5>2
        <4> QED
          BY <2>1, <4>1, <4>2
      <3> QED
        BY <3>1 DEF PartsInv, States, Reading, ReadStates
    <2>2. CASE ReadRight(p) \/ ReadTest(p) \/ ReadPrint(p) \/ ReadCopy(p) \/ WriteFill(p)
      BY <2>2 DEF ReadRight, ReadTest, ReadPrint, ReadCopy, WriteFill, Goto, callVars, PartsInv,
                  Calling, States, Reading, ReadStates
    <2>3. CASE ReadEnd(p) \/ ReadReturn(p) \/ WriteReset(p) \/ WriteScan(p)
      BY <2>3 DEF ReadEnd, ReadReturn, WriteReset, WriteScan, Return, Goto, PartsInv,
                  States, Reading, ReadStates
    <2> QED
      BY <2>1, <2>2, <2>3 DEF Call
  <1> QED
    BY <1>1, <1>2 DEF PartsInv, Calling

\* Loading makes the parts in order; unloading and undoing drop them in order.
LEMMA PartsLoad ==
  ASSUME PartsInv, Load
  PROVE  PartsInv'
  <1>1. pc' = pc /\ cur' = cur
    BY DEF Load, MakePart, Leave, DropPart, Left, callVars
  <1>2. CASE MakePart
    BY <1>1, <1>2 DEF MakePart, PartsInv, Following, Calling, Currency
  <1>3. CASE Leave
    BY <1>1, <1>3 DEF Leave, PartsInv, Following, Calling
  <1>4. CASE DropPart
    <2>1. PICK k \in DOMAIN CleanupOrder :
            /\ \A j \in 1..k - 1 : CleanupOrder[j] \notin ToDrop
            /\ \A p \in Calling : cur[p] # CleanupOrder[k]
            /\ parts' = parts \ {CleanupOrder[k]}
      BY <1>4 DEF DropPart
    <2>2. k \in 1..5
      BY DEF CleanupOrder
    <2>3. CASE k = 4
      <3>1. 1 \in 1..k - 1 /\ 2 \in 1..k - 1
        BY <2>3
      <3>2. CleanupOrder[1] = "uah" /\ CleanupOrder[2] = "eu"
        BY DEF CleanupOrder
      <3>3. "uah" \notin ToDrop /\ "eu" \notin ToDrop
        BY <2>1, <3>1, <3>2
      <3>4. parts \cap Currency = {}
        BY <3>3 DEF ToDrop, Currency
      <3>5. Calling = {}
        BY <3>4 DEF PartsInv
      <3> QED
        BY <1>1, <1>4, <2>1, <3>4, <3>5 DEF DropPart, PartsInv, Calling
    <2>4. CASE k # 4
      <3>1. CleanupOrder[k] # "buffer"
        BY <2>2, <2>4 DEF CleanupOrder
      <3> QED
        BY <1>1, <1>4, <2>1, <3>1 DEF DropPart, PartsInv, Calling
    <2> QED
      BY <2>3, <2>4
  <1>5. CASE Left
    BY <1>1, <1>5 DEF Left, PartsInv, ToDrop, Calling
  <1> QED
    BY <1>2, <1>3, <1>4, <1>5 DEF Load

\* Every step keeps the order of the parts.
LEMMA PartsInductive ==
  ASSUME PartsInv, [Next]_vars
  PROVE  PartsInv'
  <1>1. CASE Load
    BY <1>1, PartsLoad
  <1>2. CASE StoreRate
    BY <1>2 DEF StoreRate, PartsInv, Calling, callVars
  <1>3. ASSUME NEW p \in Procs, Call(p)
        PROVE  PartsInv'
    BY <1>3, PartsCall
  <1>4. CASE UNCHANGED vars
    BY <1>4 DEF PartsInv, Calling, vars, callVars
  <1> QED
    BY <1>1, <1>2, <1>3, <1>4 DEF Next, Halted

\* No call is inside of the module when the buffer is freed, and what a failed or unloaded
\* module leaves behind is at most the class file: remove_proc_entry waits for the calls in
\* a file, and cleanup (and the error path of e_init) takes both files down before the
\* buffer.
THEOREM BufferOutlives == Spec => []BufferOutlivesCalls
  <1>1. PartsInv => BufferOutlivesCalls
    BY DEF PartsInv, BufferOutlivesCalls, Calling
  <1> QED
    BY <1>1, PartsInit, PartsInductive, PTL DEF Spec

-----------------------------------------------------------------------------
(* Clean reads give the worth                                                *)

\* Conversions that do not divide by a rate of zero give integers.
LEMMA ConvertedType ==
  ASSUME PartsInv, NumbersInv, NEW c \in Currency, c = "uah" => rate # 0
  PROVE  Converted(c) \in Int /\ Result(c) \in Int \X Int
  <1>0. IntMax \in Nat
    BY ExchangeAssumption
  <1>1. \A x \in Int : Wrapped(x) \in Int
    BY <1>0 DEF Wrapped
  <1>2. amount[c] \in Int /\ rate \in Int
    BY DEF NumbersInv
  <1>3. Converted(c) \in Int
    <2>1. CASE c = "uah"
      <3>1. Wrapped(100 * amount[c]) \in Int /\ rate # 0
        BY <1>1, <1>2, <2>1
      <3> QED
        BY <1>2, <2>1, <3>1, QuotType DEF Converted, UahToEu
    <2>2. CASE c = "eu"
      <3>1. Wrapped(100 * amount[c]) * rate \in Int
        BY <1>1, <1>2
      <3> QED
        BY <1>1, <2>2, <3>1 DEF Converted, EuToUah
    <2> QED
      BY <2>1, <2>2 DEF Currency
  <1> QED
    BY <1>3, HundredthsFacts DEF Result

\* The fields begin as numbers.
LEMMA NumbersInit == Init => NumbersInv
  BY ExchangeAssumption DEF Init, NumbersInv, Currency

\* A read that begins puts numbers into the fields of the other currency.
LEMMA NumbersRead ==
  ASSUME PartsInv, NumbersInv, NEW p \in Procs, ReadBegin(p)
  PROVE  NumbersInv'
  <1>1. PICK c \in Currency :
          /\ clean' = [q \in Procs |->
               IF q = p THEN \A o \in Calling : ReadsWith(o, c) ELSE clean[q] /\ ReadsWith(q, c)]
          /\ IF c = "uah" /\ rate = 0
             THEN fault' = "division" /\ UNCHANGED <<n, l>>
             ELSE /\ fault' = fault
                  /\ n' = [n EXCEPT ![p] = Converted(c)]
                  /\ l' = [l EXCEPT ![Other[c]] = Quot(Converted(c), 100)]
    BY Zenon DEF ReadBegin
  <1>2. UNCHANGED <<amount, r, rate, buf, out, stored>>
    BY DEF ReadBegin
  <1>3. l' \in [Currency -> Int] /\ n' \in [Procs -> Int]
    <2>1. CASE c = "uah" /\ rate = 0
      BY <1>1, <2>1 DEF NumbersInv
    <2>2. CASE ~(c = "uah" /\ rate = 0)
      <3>1. Converted(c) \in Int
        BY <2>2, ConvertedType
      <3>2. Quot(Converted(c), 100) \in Int
        BY <3>1, HundredthsFacts
      <3> QED
        BY <1>1, <2>2, <3>1, <3>2 DEF NumbersInv
    <2> QED
      BY <2>1, <2>2
  <1>4. clean' \in [Procs -> BOOLEAN]
    <2>1. ASSUME NEW q \in Procs
          PROVE  (IF q = p THEN \A o \in Calling : ReadsWith(o, c)
                           ELSE clean[q] /\ ReadsWith(q, c)) \in BOOLEAN
      OBVIOUS
    <2> QED
      BY <1>1, <2>1, Zenon
  <1> QED
    BY <1>2, <1>3, <1>4 DEF NumbersInv

\* Every step keeps the fields numbers.
LEMMA NumbersInductive ==
  ASSUME PartsInv, NumbersInv, [Next]_vars
  PROVE  NumbersInv'
  <1>1. CASE Load \/ UNCHANGED vars
    BY <1>1 DEF Load, MakePart, Leave, DropPart, Left, NumbersInv, vars, currencyVars, callVars
  <1>2. CASE StoreRate
    <2>1. rate' \in Int
      BY <1>2, ExchangeAssumption DEF StoreRate
    <2> QED
      BY <1>2, <2>1 DEF StoreRate, NumbersInv, currencyVars, callVars
  <1>3. ASSUME NEW p \in Procs, Call(p)
        PROVE  NumbersInv'
    <2>1. CASE ReadBegin(p)
      BY <2>1, NumbersRead
    <2>2. CASE ReadRight(p)
      <3>1. cur[p] \in Currency /\ Other[cur[p]] \in Currency
        BY <2>2 DEF ReadRight, Goto, PartsInv, Calling, Other, Currency
      <3>2. Rem(n[p], 100) \in Int
        BY HundredthsFacts DEF NumbersInv
      <3> QED
        BY <2>2, <3>1, <3>2 DEF ReadRight, NumbersInv
    <2>3. CASE ReadPrint(p)
      <3>1. cur[p] \in Currency /\ Other[cur[p]] \in Currency
        BY <2>3 DEF ReadPrint, Goto, PartsInv, Calling, Other, Currency
      <3>2. buf'.num = l[Other[cur[p]]]
        BY <2>3 DEF ReadPrint, Printed
      <3> QED
        BY <2>3, <3>1, <3>2 DEF ReadPrint, NumbersInv, callVars
    <2>4. CASE ReadTest(p) \/ ReadCopy(p)
      BY <2>4 DEF ReadTest, ReadCopy, NumbersInv, currencyVars, callVars
    <2>5. CASE ReadEnd(p) \/ ReadReturn(p) \/ WriteReset(p)
      <3>1. clean' = [clean EXCEPT ![p] = FALSE]
        BY <2>5 DEF ReadEnd, ReadReturn, WriteReset, Return
      <3>2. clean' \in [Procs -> BOOLEAN]
        BY <3>1 DEF NumbersInv
      <3> QED
        BY <2>5, <3>2 DEF ReadEnd, ReadReturn, WriteReset, NumbersInv, currencyVars
    <2>6. CASE WriteBegin(p)
      <3>1. clean' = [q \in Procs |-> q = p /\ Calling = {}]
        BY <2>6 DEF WriteBegin
      <3>2. clean' \in [Procs -> BOOLEAN]
        BY <3>1, Zenon
      <3> QED
        BY <2>6, <3>2 DEF WriteBegin, NumbersInv, currencyVars
    <2>7. CASE WriteFill(p)
      BY <2>7, ExchangeAssumption DEF WriteFill, NumbersInv
    <2>8. CASE WriteScan(p)
      <3>1. cur[p] \in Currency
        BY <2>8 DEF WriteScan, Return, Goto, PartsInv, Calling
      <3>2. clean' = [clean EXCEPT ![p] = FALSE]
        BY <2>8 DEF WriteScan, Return
      <3>3. clean' \in [Procs -> BOOLEAN]
        BY <3>2 DEF NumbersInv
      <3>4. amount' \in [Currency -> Int]
        BY <2>8, <3>1 DEF WriteScan, NumbersInv
      <3>5. DOMAIN stored' = Currency
        BY <2>8 DEF WriteScan, NumbersInv
      <3>6. ASSUME NEW c \in Currency, stored'[c] # Unknown
            PROVE  amount'[c] = stored'[c]
        <4>1. CASE clean[p] /\ buf.num = NoNumber
          BY <2>8, <3>6, <4>1 DEF WriteScan, NumbersInv
        <4>2. CASE ~(clean[p] /\ buf.num = NoNumber) /\ c = cur[p]
          <5>1. stored'[c] = IF clean[p] /\ whole[p] THEN buf.num ELSE Unknown
            BY <2>8, <4>2, Zenon DEF WriteScan, NumbersInv
          <5>2. clean[p] /\ stored'[c] = buf.num
            BY <3>6, <5>1
          <5> QED
            BY <2>8, <4>2, <5>2 DEF WriteScan, NumbersInv
        <4>3. CASE c # cur[p]
          BY <2>8, <3>6, <4>3 DEF WriteScan, NumbersInv
        <4> QED
          BY <4>1, <4>2, <4>3
      <3> QED
        BY <2>8, <3>3, <3>4, <3>5, <3>6 DEF WriteScan, NumbersInv
    <2> QED
      BY <1>3, <2>1, <2>2, <2>3, <2>4, <2>5, <2>6, <2>7, <2>8 DEF Call
  <1> QED
    BY <1>1, <1>2, <1>3 DEF Next, Halted

\* Nobody reads yet.
LEMMA CleanInit == Init => CleanInv /\ ResultInv
  BY DEF Init, CleanInv, ResultInv, Computed

\* Whoever calls beside a clean read spoils it unless it reads the same file.
LEMMA CleanInductive ==
  ASSUME PartsInv, NumbersInv, CleanInv, [Next]_vars
  PROVE  CleanInv'
  <1>1. CASE Load \/ UNCHANGED vars
    <2>1. UNCHANGED <<pc, cur, clean>>
      BY <1>1 DEF Load, MakePart, Leave, DropPart, Left, vars, callVars
    <2> QED
      BY <2>1 DEF CleanInv, Calling, ReadsWith
  <1>2. CASE StoreRate
    <2>1. clean' = [q \in Procs |-> FALSE]
      BY <1>2 DEF StoreRate
    <2> QED
      BY <2>1 DEF CleanInv
  <1>3. ASSUME NEW p \in Procs, Call(p)
        PROVE  CleanInv'
    <2>0. pc \in [Procs -> States] /\ clean \in [Procs -> BOOLEAN]
      BY DEF PartsInv, NumbersInv
    <2>1. CASE ReadBegin(p)
      <3>1. PICK c \in Currency :
              /\ pc[p] = "idle" /\ pc' = [pc EXCEPT ![p] = "right"] /\ cur' = [cur EXCEPT ![p] = c]
              /\ clean' = [q \in Procs |->
                   IF q = p THEN \A o \in Calling : ReadsWith(o, c)
                            ELSE clean[q] /\ ReadsWith(q, c)]
        BY <2>1, Zenon DEF ReadBegin, Goto
      <3>2. pc'[p] = "right" /\ cur'[p] = c
        BY <3>1 DEF PartsInv
      <3>3. clean'[p] <=> \A o \in Calling : ReadsWith(o, c)
        BY <3>1, Zenon
      <3>4. ASSUME NEW q \in Procs \ {p}
            PROVE  /\ clean'[q] <=> clean[q] /\ ReadsWith(q, c)
                   /\ pc'[q] = pc[q] /\ cur'[q] = cur[q]
        <4>1. clean'[q] <=> clean[q] /\ ReadsWith(q, c)
          BY <3>1, Zenon
        <4> QED
          BY <3>1, <4>1
      <3>5. ASSUME NEW q \in Procs, clean'[q], pc'[q] \in Reading
            PROVE  cur'[q] = c /\ \A o \in Calling : ReadsWith(o, c)
        <4>1. CASE q = p
          BY <3>2, <3>3, <3>5, <4>1
        <4>2. CASE q # p
          <5>1. clean[q] /\ ReadsWith(q, c) /\ cur'[q] = cur[q] /\ pc[q] \in Reading
            BY <3>4, <3>5, <4>2
          <5>2. cur[q] = c
            BY <5>1 DEF ReadsWith
          <5> QED
            BY <5>1, <5>2 DEF CleanInv
        <4> QED
          BY <4>1, <4>2
      <3>6. ASSUME NEW o \in Procs, pc'[o] # "idle", \A x \in Calling : ReadsWith(x, c)
            PROVE  pc'[o] \in Reading /\ cur'[o] = c /\ clean'[o]
        <4>1. CASE o = p
          BY <3>2, <3>3, <3>6, <4>1 DEF Reading, ReadStates
        <4>2. CASE o # p
          <5>1. ReadsWith(o, c)
            BY <3>4, <3>6, <4>2 DEF Calling
          <5> QED
            BY <3>4, <4>2, <5>1 DEF ReadsWith, Reading
        <4> QED
          BY <4>1, <4>2
      <3> QED
        BY <3>5, <3>6 DEF CleanInv, Calling, ReadsWith, Reading
    <2>2. CASE ReadRight(p) \/ ReadTest(p) \/ ReadPrint(p) \/ ReadCopy(p)
      <3>1. cur' = cur /\ clean' = clean
        BY <2>2 DEF ReadRight, ReadTest, ReadPrint, ReadCopy, callVars
      <3>2. \A q \in Procs : /\ pc'[q] \in Reading <=> pc[q] \in Reading
                             /\ pc'[q] = "idle" <=> pc[q] = "idle"
        BY <2>0, <2>2 DEF ReadRight, ReadTest, ReadPrint, ReadCopy, Goto, Reading, ReadStates
      <3> QED
        BY <3>1, <3>2 DEF CleanInv, Calling, ReadsWith, Reading
    <2>3. CASE ReadEnd(p) \/ ReadReturn(p) \/ WriteReset(p) \/ WriteScan(p)
      <3>1. /\ pc' = [pc EXCEPT ![p] = "idle"] /\ cur' = [cur EXCEPT ![p] = "none"]
            /\ clean' = [clean EXCEPT ![p] = FALSE]
        BY <2>3 DEF ReadEnd, ReadReturn, WriteReset, WriteScan, Return, Goto
      <3>2. \A q \in Procs \ {p} : pc'[q] = pc[q] /\ cur'[q] = cur[q] /\ clean'[q] = clean[q]
        BY <3>1
      <3>3. pc'[p] = "idle" /\ "idle" \notin Reading
        BY <2>0, <3>1 DEF Reading, ReadStates
      <3> QED
        BY <3>2, <3>3 DEF CleanInv, Calling, ReadsWith, Reading
    <2>4. CASE WriteBegin(p)
      <3>1. pc' = [pc EXCEPT ![p] = "reset"] \/ pc' = [pc EXCEPT ![p] = "fill"]
        BY <2>4 DEF WriteBegin
      <3>2. pc'[p] \notin Reading
        BY <2>0, <3>1 DEF Reading, ReadStates
      <3>3. \A q \in Procs \ {p} : ~clean'[q]
        BY <2>4, Zenon DEF WriteBegin
      <3> QED
        BY <3>2, <3>3 DEF CleanInv
    <2>5. CASE WriteFill(p)
      <3>1. clean' = clean /\ pc[p] = "fill" /\ pc' = [pc EXCEPT ![p] = "scan"]
        BY <2>5 DEF WriteFill, Goto
      <3>2. pc'[p] \notin Reading /\ \A q \in Procs \ {p} : pc'[q] = pc[q]
        BY <2>0, <3>1 DEF Reading, ReadStates
      <3>3. ASSUME NEW q \in Procs, clean[q], pc[q] \in Reading
            PROVE  FALSE
        <4>1. ReadsWith(p, cur[q])
          BY <3>1, <3>3 DEF CleanInv, Calling
        <4> QED
          BY <3>1, <4>1 DEF ReadsWith, ReadStates
      <3> QED
        BY <3>1, <3>2, <3>3 DEF CleanInv
    <2> QED
      BY <1>3, <2>1, <2>2, <2>3, <2>4, <2>5 DEF Call
  <1> QED
    BY <1>1, <1>2, <1>3 DEF Next, Halted

\* A conversion depends on nothing but the amount and the rate.
LEMMA SameResult ==
  ASSUME amount' = amount, rate' = rate
  PROVE  \A c \in Currency : Converted(c)' = Converted(c) /\ Result(c)' = Result(c)
  BY DEF Result, Converted, UahToEu, EuToUah

\* A clean read that begins computes what the reads beside it compute.
LEMMA ResultRead ==
  ASSUME PartsInv, NumbersInv, CleanInv, ResultInv, fault = "none",
         NEW p \in Procs, ReadBegin(p)
  PROVE  ResultInv'
  <1>1. PICK c \in Currency :
          /\ pc[p] = "idle" /\ pc' = [pc EXCEPT ![p] = "right"] /\ cur' = [cur EXCEPT ![p] = c]
          /\ clean' = [q \in Procs |->
               IF q = p THEN \A o \in Calling : ReadsWith(o, c) ELSE clean[q] /\ ReadsWith(q, c)]
          /\ IF c = "uah" /\ rate = 0
             THEN fault' = "division" /\ UNCHANGED <<n, l>>
             ELSE /\ fault' = fault
                  /\ n' = [n EXCEPT ![p] = Converted(c)]
                  /\ l' = [l EXCEPT ![Other[c]] = Quot(Converted(c), 100)]
    BY Zenon DEF ReadBegin, Goto
  <1>2. UNCHANGED <<amount, r, rate, buf, out>>
    BY DEF ReadBegin
  <1>3. pc'[p] = "right" /\ cur'[p] = c /\ Other[c] \in Currency
    BY <1>1 DEF PartsInv, Other, Currency
  <1>4. fault' = "none" => ~(c = "uah" /\ rate = 0)
    BY <1>1
  <1>5. fault' = "none" => n'[p] = Converted(c) /\ l'[Other[c]] = Result(c)[1]
    BY <1>1, <1>3, <1>4 DEF NumbersInv, Result
  <1>6. Converted(c)' = Converted(c) /\ Result(c)' = Result(c)
    BY <1>2, SameResult
  <1>7. ASSUME NEW q \in Procs, Computed(q)', q # p
        PROVE  /\ Computed(q) /\ cur[q] = c
               /\ pc'[q] = pc[q] /\ cur'[q] = cur[q] /\ n'[q] = n[q]
    <2>1. clean'[q] <=> clean[q] /\ ReadsWith(q, c)
      BY <1>1, <1>7, Zenon
    <2>2. pc'[q] = pc[q] /\ cur'[q] = cur[q] /\ n'[q] = n[q]
      <3>1. n' = n \/ n' = [n EXCEPT ![p] = Converted(c)]
        BY <1>1
      <3>2. pc' = [pc EXCEPT ![p] = "right"] /\ cur' = [cur EXCEPT ![p] = c]
        BY <1>1
      <3> QED
        BY <1>7, <3>1, <3>2 DEF PartsInv, NumbersInv
    <2>3. clean'[q] /\ pc'[q] \in ReadStates
      BY <1>7 DEF Computed
    <2>4. cur[q] = c
      BY <2>1, <2>3 DEF ReadsWith
    <2> QED
      BY <2>1, <2>2, <2>3, <2>4 DEF Computed
  <1>8. ASSUME NEW q \in Procs, Computed(q)', q # p
        PROVE  /\ c = "uah" => rate # 0
               /\ l[Other[c]] = Result(c)[1]
               /\ pc[q] = "right" => n[q] = Converted(c)
               /\ pc[q] # "right" => r[Other[c]] = Result(c)[2]
               /\ pc[q] = "copy" => buf.out = Result(c)
               /\ pc[q] = "return" => out[q] = Result(c)
    BY <1>7, <1>8 DEF ResultInv
  <1>9. ASSUME NEW q \in Procs, Computed(q)', q # p
        PROVE  l'[Other[c]] = Result(c)[1]
    <2>1. CASE c = "uah" /\ rate = 0
      BY <1>8, <1>9, <2>1
    <2>2. CASE ~(c = "uah" /\ rate = 0)
      BY <1>1, <1>3, <2>2 DEF NumbersInv, Result
    <2> QED
      BY <2>1, <2>2
  <1>10. ASSUME NEW q \in Procs, Computed(q)'
         PROVE  /\ cur'[q] = "uah" => rate' # 0
                /\ l'[Other[cur'[q]]] = Result(c)[1]
                /\ pc'[q] = "right" => n'[q] = Converted(c)
                /\ pc'[q] # "right" => r'[Other[cur'[q]]] = Result(c)[2]
                /\ pc'[q] = "copy" => buf'.out = Result(c)
                /\ pc'[q] = "return" => out'[q] = Result(c)
                /\ cur'[q] = c
    <2>1. CASE q = p
      <3>1. fault' = "none"
        BY <1>3, <1>10, <2>1 DEF Computed
      <3> QED
        BY <1>2, <1>3, <1>4, <1>5, <2>1, <3>1
    <2>2. CASE q # p
      BY <1>2, <1>7, <1>8, <1>9, <1>10, <2>2
    <2> QED
      BY <2>1, <2>2
  <1> QED
    BY <1>6, <1>10 DEF ResultInv

\* No step takes from a clean read what it has computed.
LEMMA ResultInductive ==
  ASSUME PartsInv, NumbersInv, CleanInv, ResultInv, [Next]_vars
  PROVE  ResultInv'
  <1>1. CASE (fault = "none" /\ Load) \/ UNCHANGED vars
    <2>1. /\ UNCHANGED <<amount, rate, l, r, buf, pc, cur, n, out, clean>>
          /\ fault' = "none" => fault = "none"
      BY <1>1 DEF Load, MakePart, Leave, DropPart, Left, vars, currencyVars, callVars
    <2>2. \A c \in Currency : Converted(c)' = Converted(c) /\ Result(c)' = Result(c)
      BY <2>1, SameResult
    <2>3. \A q \in Procs : Computed(q) => cur[q] \in Currency
      BY DEF Computed, PartsInv, Calling, ReadStates
    <2>4. \A q \in Procs : Computed(q)' => Computed(q)
      BY <2>1 DEF Computed
    <2> QED
      BY <2>1, <2>2, <2>3, <2>4 DEF ResultInv
  <1>2. CASE StoreRate
    <2>1. clean' = [q \in Procs |-> FALSE]
      BY <1>2 DEF StoreRate
    <2> QED
      BY <2>1 DEF ResultInv, Computed
  <1>3. ASSUME NEW p \in Procs, Call(p), fault = "none"
        PROVE  ResultInv'
    <2>0. /\ pc \in [Procs -> States] /\ clean \in [Procs -> BOOLEAN]
          /\ n \in [Procs -> Int] /\ DOMAIN out = Procs
          /\ \A q \in Procs : Computed(q) => q \in Calling /\ cur[q] \in Currency
      BY DEF PartsInv, NumbersInv, Computed, Calling, ReadStates
    <2>1. CASE ReadBegin(p)
      BY <1>3, <2>1, ResultRead
    <2>2. CASE pc[p] \in ReadStates /\ ~ReadBegin(p) /\ ~ReadReturn(p)
      \* p goes on, and what it stores is what every clean reader beside it stores.
      <3>1. /\ ReadRight(p) \/ ReadTest(p) \/ ReadPrint(p) \/ ReadCopy(p)
            /\ UNCHANGED <<amount, rate, cur, l, clean, fault>>
        BY <1>3, <2>2 DEF Call, ReadRight, ReadTest, ReadPrint, ReadCopy, ReadEnd, WriteBegin,
             WriteReset, WriteFill, WriteScan, Return, Goto, callVars, currencyVars, ReadStates
      <3>2. \A c \in Currency : Converted(c)' = Converted(c) /\ Result(c)' = Result(c)
        BY <3>1, SameResult
      <3>3. ASSUME NEW q \in Procs, Computed(q)'
            PROVE  /\ Computed(q) /\ Computed(p) /\ cur[q] = cur[p] /\ cur[q] \in Currency
                   /\ q # p => pc'[q] = pc[q] /\ n'[q] = n[q] /\ out'[q] = out[q]
        <4>1. clean[q] /\ pc[q] \in ReadStates
          BY <2>0, <2>2, <3>1, <3>3
          DEF Computed, ReadRight, ReadTest, ReadPrint, ReadCopy, Goto, callVars, ReadStates
        <4>2. Computed(q)
          BY <1>3, <4>1 DEF Computed
        <4>3. ReadsWith(p, cur[q])
          BY <2>2, <4>1 DEF CleanInv, Calling, ReadStates, Reading
        <4>4. Computed(p) /\ cur[p] = cur[q]
          BY <1>3, <2>2, <4>3 DEF Computed, ReadsWith
        <4>5. q # p => pc'[q] = pc[q] /\ n'[q] = n[q] /\ out'[q] = out[q]
          BY <2>0, <3>1 DEF ReadRight, ReadTest, ReadPrint, ReadCopy, Goto, callVars
        <4> QED
          BY <2>0, <4>2, <4>4, <4>5
      <3>4. ASSUME NEW q \in Procs, Computed(q)'
            PROVE  LET c == cur[q] IN
                   /\ c = "uah" => rate # 0
                   /\ l[Other[c]] = Result(c)[1]
                   /\ pc'[q] = "right" => n'[q] = Converted(c)
                   /\ pc'[q] # "right" => r'[Other[c]] = Result(c)[2]
                   /\ pc'[q] = "copy" => buf'.out = Result(c)
                   /\ pc'[q] = "return" => out'[q] = Result(c)
        <4> DEFINE c == cur[q]
        <4>1. /\ c = "uah" => rate # 0
              /\ l[Other[c]] = Result(c)[1]
              /\ pc[q] = "right" => n[q] = Converted(c)
              /\ pc[q] # "right" => r[Other[c]] = Result(c)[2]
              /\ pc[q] = "copy" => buf.out = Result(c)
              /\ pc[q] = "return" => out[q] = Result(c)
              /\ pc[p] = "right" => n[p] = Converted(c)
              /\ pc[p] # "right" => r[Other[c]] = Result(c)[2]
              /\ pc[p] = "copy" => buf.out = Result(c)
          BY <3>3, <3>4 DEF ResultInv
        <4>2. c = cur[p] /\ Other[c] \in Currency
          BY <3>3, <3>4 DEF Other, Currency
        <4>3. CASE ReadRight(p)
          <5>1. /\ pc[p] = "right" /\ pc' = [pc EXCEPT ![p] = "test"]
                /\ r' = [r EXCEPT ![Other[c]] = Rem(n[p], 100)] /\ buf' = buf /\ out' = out
            BY <4>2, <4>3 DEF ReadRight, Goto
          <5>2. r'[Other[c]] = Result(c)[2]
            BY <4>1, <4>2, <5>1 DEF NumbersInv, Result
          <5> QED
            BY <2>0, <3>3, <3>4, <4>1, <5>1, <5>2
        <4>4. CASE ReadTest(p)
          <5>1. /\ pc[p] = "test" /\ pc'[p] \in {"end", "print"} /\ n' = n
                /\ r' = r /\ buf' = buf /\ out' = out
            BY <2>0, <4>4 DEF ReadTest, currencyVars, callVars
          <5> QED
            BY <3>3, <3>4, <4>1, <5>1
        <4>5. CASE ReadPrint(p)
          <5>1. /\ pc[p] = "print" /\ pc'[p] = "copy" /\ r' = r /\ n' = n /\ out' = out
                /\ buf'.out = <<l[Other[c]], r[Other[c]]>>
            BY <2>0, <4>2, <4>5 DEF ReadPrint, Goto, Printed, callVars
          <5>2. buf'.out = Result(c)
            BY <4>1, <5>1 DEF Result
          <5> QED
            BY <3>3, <3>4, <4>1, <5>1, <5>2
        <4>6. CASE ReadCopy(p)
          <5>1. /\ pc[p] = "copy" /\ pc'[p] = "return" /\ r' = r /\ n' = n /\ buf' = buf
                /\ out'[p] = buf.out
            BY <2>0, <4>6 DEF ReadCopy, Goto, currencyVars
          <5> QED
            BY <3>3, <3>4, <4>1, <5>1
        <4> QED
          BY <3>1, <4>3, <4>4, <4>5, <4>6
      <3> QED
        BY <3>1, <3>2, <3>3, <3>4 DEF ResultInv
    <2>3. CASE ReadEnd(p) \/ ReadReturn(p)
      \* p leaves, and touches nothing that the others compute.
      <3>1. /\ UNCHANGED <<amount, rate, l, r, n, buf, fault>>
            /\ pc' = [pc EXCEPT ![p] = "idle"] /\ cur' = [cur EXCEPT ![p] = "none"]
            /\ clean' = [clean EXCEPT ![p] = FALSE]
            /\ out' = out \/ out' = [out EXCEPT ![p] = <<>>]
        BY <2>3 DEF ReadEnd, ReadReturn, Return, Goto, currencyVars
      <3>2. \A c \in Currency : Converted(c)' = Converted(c) /\ Result(c)' = Result(c)
        BY <3>1, SameResult
      <3>3. ASSUME NEW q \in Procs, Computed(q)'
            PROVE  /\ q # p /\ Computed(q) /\ cur'[q] = cur[q] /\ pc'[q] = pc[q]
                   /\ out'[q] = out[q]
        <4>1. q # p
          BY <2>0, <3>1, <3>3 DEF Computed
        <4>2. cur'[q] = cur[q] /\ pc'[q] = pc[q] /\ clean'[q] = clean[q]
          BY <2>0, <3>1, <4>1 DEF PartsInv
        <4>3. out'[q] = out[q]
          BY <2>0, <3>1, <4>1
        <4> QED
          BY <3>1, <3>3, <4>1, <4>2, <4>3 DEF Computed
      <3> QED
        BY <2>0, <3>1, <3>2, <3>3 DEF ResultInv
    <2>4. CASE pc[p] \notin ReadStates /\ ~ReadBegin(p) /\ ~ReadEnd(p)
      \* A write: no clean read is beside it.
      <3>1. WriteBegin(p) \/ WriteReset(p) \/ WriteFill(p) \/ WriteScan(p)
        BY <1>3, <2>4 DEF Call, ReadRight, ReadTest, ReadPrint, ReadCopy, ReadReturn, Return,
                          Goto, ReadStates
      <3>2. pc'[p] \notin ReadStates
        <4>1. \/ pc' = [pc EXCEPT ![p] = "idle"]
              \/ pc' = [pc EXCEPT ![p] = "reset"]
              \/ pc' = [pc EXCEPT ![p] = "fill"]
              \/ pc' = [pc EXCEPT ![p] = "scan"]
          BY <3>1 DEF WriteBegin, WriteReset, WriteFill, WriteScan, Return, Goto
        <4> QED
          BY <2>0, <4>1 DEF ReadStates
      <3>3. ASSUME NEW q \in Procs, Computed(q)'
            PROVE  FALSE
        <4>1. q # p /\ clean'[q]
          BY <3>2, <3>3 DEF Computed
        <4>2. ~WriteBegin(p)
          BY <4>1, Zenon DEF WriteBegin
        <4>3. /\ pc[p] \in {"reset", "fill", "scan"}
              /\ clean' = clean \/ clean' = [clean EXCEPT ![p] = FALSE]
              /\ \E s \in States : pc' = [pc EXCEPT ![p] = s]
          BY <3>1, <4>2
          DEF WriteReset, WriteFill, WriteScan, Return, Goto, States, Reading
        <4>4. clean[q] /\ pc[q] \in ReadStates
          BY <2>0, <3>3, <4>1, <4>3 DEF Computed
        <4>5. ReadsWith(p, cur[q])
          BY <4>3, <4>4 DEF CleanInv, Calling, Reading
        <4> QED
          BY <4>3, <4>5 DEF ReadsWith, ReadStates
      <3> QED
        BY <3>3 DEF ResultInv
    <2> QED
      BY <2>1, <2>2, <2>3, <2>4
  <1> QED
    BY <1>1, <1>2, <1>3 DEF Next, Halted

\* Two reads of one file may overlap as they like, though they share the fields of the
\* result and the buffer: as long as no write, no read of the other file and no new rate
\* comes between, each of them returns the worth of the amount last written, whatever the
\* rate, the amount and the width of int, if only the products fit (uah_to_eu_read,
\* eu_to_uah_read, exchange_read).
THEOREM ReadsGiveWorth == Spec => []ReadsWorth
  <1>1. Init => ReadInv
    BY PartsInit, NumbersInit, CleanInit DEF ReadInv
  <1>2. ReadInv /\ [Next]_vars => ReadInv'
    BY PartsInductive, NumbersInductive, CleanInductive, ResultInductive DEF ReadInv
  <1>3. ReadInv => ReadsWorth
    <2> SUFFICES ASSUME ReadInv, NEW p \in Procs, pc[p] = "return", clean[p],
                        stored[cur[p]] # Unknown, Fits(cur[p], stored[cur[p]])
                 PROVE  Worth(cur[p], stored[cur[p]], out[p][1], out[p][2])
      BY DEF ReadsWorth
    <2>1. cur[p] \in Currency
      BY DEF ReadInv, PartsInv, Calling
    <2>2. amount[cur[p]] = stored[cur[p]] /\ amount[cur[p]] \in Int /\ rate \in Int
      BY <2>1 DEF ReadInv, NumbersInv
    <2>3. out[p] = Result(cur[p]) /\ (cur[p] = "uah" => rate # 0)
      BY DEF ReadInv, ResultInv, Computed, ReadStates
    <2> QED
      BY <2>1, <2>2, <2>3, ResultWorth
  <1> QED
    BY <1>1, <1>2, <1>3, PTL DEF Spec

=============================================================================
