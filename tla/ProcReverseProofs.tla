-------------------------- MODULE ProcReverseProofs -------------------------
(***************************************************************************)
(* The reversing file, for any callers, buffer, lines and requests: it     *)
(* implements the plain file, and as long as calls do not overlap a line   *)
(* that met a NUL is reversed word by word, inside of the buffer, and read *)
(* back as it should be.                                                   *)
(***************************************************************************)
EXTENDS ProcReverse, NaturalsInduction, WellFoundedInduction, SequenceTheorems, TLAPS

\* Who is where, and what the locals are outside of the calls that use them.
States == {"outside", "flip", "word", "advance"}

TypeOK ==
  /\ mem \in [Cells -> Char] /\ msgLength \in 0..BufferSize /\ readPos \in Nat
  /\ stack \in Seq({"buffer", "dir", "file"})
  /\ phase \in {"absent", "loading", "loaded", "leaving", "gone"}
  /\ pc \in [Callers -> States] /\ take \in [Callers -> Nat]
  /\ ws \in [Callers -> Nat] /\ se \in [Callers -> 0..BufferSize]
  /\ fault \in {"none", "string", "read"}
  /\ line \in Seq(Char) /\ out \in Seq(Char) /\ stale \in BOOLEAN /\ overlap \in BOOLEAN

LocalsForgotten ==
  \A c \in Callers : /\ pc[c] # "word" => ws[c] = 0 /\ se[c] = 0
                     /\ pc[c] # "advance" => take[c] = 0

\* Before the file is there, nothing has happened.
Untouched ==
  /\ ~FileExists /\ Len(stack) <= 2
  /\ \A c \in Callers : pc[c] = "outside"
  /\ readPos = 0 /\ msgLength = 0 /\ line = <<>> /\ out = <<>> /\ fault = "none"

OneInside == \A c, d \in Callers : pc[c] # "outside" /\ pc[d] # "outside" => c = d

\* What was read so far, and is read now, ends where the position is or will be.
ReadSoFar ==
  /\ msgLength = Len(line) /\ Len(out) <= msgLength
  /\ \A c \in Callers : pc[c] # "outside" => Len(out) = readPos + take[c]
  /\ (\A c \in Callers : pc[c] = "outside") => Len(out) = readPos
  /\ (\E c \in Callers : pc[c] \in {"flip", "word"}) => readPos = 0

\* The line was put before a NUL.
Good == ~overlap /\ ~stale /\ WellFormed(line)

\* The character that stands at cell k once the line is mirrored.
Flipped(l, k) == toupper(l[Len(l) - 1 - k])

\* A word begins at cell k of the mirrored line.
WordAt(l, k) == k = 0 \/ l[Len(l) - k] = Blank

\* Words that were dealt with are in their own order, the others are still mirrored.
HalfDone(c) ==
  /\ SeveralWords(line) /\ se[c] = Len(line) - 1
  /\ ws[c] \in 0..Len(line) - 2 /\ WordAt(line, ws[c])
  /\ \A k \in 0..ws[c] - 1 : mem[k] = Reversed(line)[k + 1]
  /\ \A k \in ws[c]..Len(line) - 2 : mem[k] = Flipped(line, k)

TextRight ==
  /\ Len(line) <= BufferSize /\ fault = "none"
  /\ mem[Len(line)] = Nul /\ mem[Len(line) - 1] = Newline
  /\ \A c \in Callers : pc[c] = "flip" => \A k \in 0..Len(line) - 2 : mem[k] = line[k + 1]
  /\ \A c \in Callers : pc[c] = "word" => HalfDone(c)
  /\ SeveralWords(line) /\ (\A c \in Callers : pc[c] \notin {"flip", "word"}) =>
       \A k \in 0..Len(line) - 1 : mem[k] = Reversed(line)[k + 1]

\* What was read is what is in the buffer.
ReadsBuffer == \A k \in 1..Len(out) : out[k] = mem[k - 1]

\* Once a write is under way nothing was read of the line, and never more than there is.
OutInLine ==
  /\ Len(out) <= Len(line)
  /\ (\E c \in Callers : pc[c] \in {"flip", "word"}) => out = <<>>

TextRest ==
  /\ phase \in {"absent", "loading"} => Untouched
  /\ ~overlap => OneInside /\ OutInLine /\ ReadsBuffer
  /\ ~overlap /\ FileExists => ReadSoFar
  /\ Good => TextRight

TextInv == TypeOK /\ LocalsForgotten /\ TextRest

-----------------------------------------------------------------------------
(* Sequences, characters and searches                                        *)

\* A prefix of a sequence.
LEMMA Prefix ==
  ASSUME NEW S, NEW s \in Seq(S), NEW n \in 0..Len(s)
  PROVE  /\ SubSeq(s, 1, n) \in Seq(S)
         /\ Len(SubSeq(s, 1, n)) = n
         /\ \A i \in 1..n : SubSeq(s, 1, n)[i] = s[i]
<1>1. Len(s) \in Nat /\ n \in Nat /\ n <= Len(s)
  BY LenProperties
<1>2. \A i \in 1..n : s[i] \in S
  BY <1>1, LenProperties
<1>3. /\ SubSeq(s, 1, n) \in Seq(S)
      /\ Len(SubSeq(s, 1, n)) = IF 1 <= n THEN n - 1 + 1 ELSE 0
      /\ \A i \in 1..(n - 1 + 1) : SubSeq(s, 1, n)[i] = s[1 + i - 1]
  BY <1>1, <1>2, SubSeqProperties
<1>4. n - 1 + 1 = n /\ \A i \in 1..n : 1 + i - 1 = i
  BY <1>1
<1>5. (IF 1 <= n THEN n - 1 + 1 ELSE 0) = n
  BY <1>1
<1> QED  BY <1>3, <1>4, <1>5

\* The first two parts are no file.
LEMMA PartsMade ==
  ASSUME NEW k \in 0..2, NEW made, made = SubSeq(<<"buffer", "dir", "file">>, 1, k + 1)
  PROVE  /\ made \in Seq({"buffer", "dir", "file"})
         /\ k # 2 => ~Contains(made, "file") /\ Len(made) <= 2
<1> DEFINE all == <<"buffer", "dir", "file">>
<1>1. all \in Seq({"buffer", "dir", "file"}) /\ Len(all) = 3
  OBVIOUS
<1>2. k + 1 \in 0..3 /\ (k # 2 => k + 1 \in 0..2)
  OBVIOUS
<1>3. /\ made \in Seq({"buffer", "dir", "file"})
      /\ Len(made) = k + 1
      /\ \A i \in 1..(k + 1) : made[i] = all[i]
  <2> HIDE DEF all
  <2> QED  BY <1>1, <1>2, Prefix DEF all
<1>4. \A i \in 1..2 : all[i] # "file"
  OBVIOUS
<1>5. ASSUME k # 2 PROVE ~Contains(made, "file")
  <2>1. \A i \in 1..(k + 1) : i \in 1..2
    BY <1>2, <1>5
  <2> HIDE DEF all
  <2> QED  BY <1>3, <1>4, <2>1 DEF Contains
<1>6. k # 2 => Len(made) <= 2
  BY <1>2, <1>3
<1> QED  BY <1>3, <1>5, <1>6

\* Dropping the last part brings no file back.
LEMMA PartsDropped ==
  ASSUME NEW S, NEW s \in Seq(S), s # <<>>
  PROVE  /\ Front(s) \in Seq(S)
         /\ Contains(Front(s), "file") => Contains(s, "file") /\ Front(s) # <<>>
<1>1. Len(s) \in Nat \ {0}
  BY EmptySeq
<1>2. Len(s) - 1 \in 0..Len(s) /\ 1..(Len(s) - 1) \subseteq 1..Len(s)
  BY <1>1
<1>3. /\ Front(s) \in Seq(S)
      /\ Len(Front(s)) = Len(s) - 1
      /\ \A i \in 1..(Len(s) - 1) : Front(s)[i] = s[i]
  BY <1>2, Prefix DEF Front
<1>4. Contains(Front(s), "file") => Contains(s, "file")
  BY <1>2, <1>3 DEF Contains
<1>5. ~Contains(<<>>, "file")
  BY DEF Contains
<1> QED  BY <1>3, <1>4, <1>5

-----------------------------------------------------------------------------

\* A nonempty set of naturals has a least element.
LEMMA LeastNatural ==
  ASSUME NEW S \in SUBSET Nat, S # {}
  PROVE  \E n \in S : \A m \in S : n <= m
<1>1. \E n \in S : \A m \in S : ~(m < n)
  <2>1. IsWellFoundedOn(OpToRel(<, Nat), Nat)
    BY NatLessThanWellFounded
  <2>2. PICK n \in S : \A m \in S : ~(<<m, n>> \in OpToRel(<, Nat))
    BY <2>1, WFMin
  <2>3. \A m \in S : ~(m < n)
    BY <2>2, Zenon DEF OpToRel
  <2>4. QED
    BY <2>3, Zenon
<1>2. QED
  BY <1>1

\* toupper changes letters only.
LEMMA ToupperKeeps ==
  ASSUME NEW x \in Char
  PROVE  /\ toupper(x) \in Char
         /\ toupper(x) = Nul <=> x = Nul
         /\ toupper(x) = Blank <=> x = Blank
         /\ toupper(x) = Newline <=> x = Newline
<1>1. DOMAIN Capital = {"a", "b", "c"}
  BY DEF Capital
<1>2. Capital["a"] = "A" /\ Capital["b"] = "B" /\ Capital["c"] = "C"
  BY DEF Capital
<1> QED  BY <1>1, <1>2 DEF toupper, Char, Nul, Blank, Newline

\* Find gives the first place, or the one behind the last.
LEMMA FindIs ==
  ASSUME BufferSize \in Nat, NEW m, NEW k \in Nat, NEW x, NEW f, f = Find(m, k, x)
  PROVE  \/ f = BufferSize + 1 /\ \A n \in k..BufferSize : m[n] # x
         \/ f \in k..BufferSize /\ m[f] = x /\ \A n \in k..f - 1 : m[n] # x
<1> DEFINE at == {n \in k..BufferSize : m[n] = x}
<1>1. CASE at = {}
  BY <1>1 DEF Find
<1>2. CASE at # {}
  <2>1. at \in SUBSET Nat
    OBVIOUS
  <2>2. \E n \in at : \A o \in at : n <= o
    BY <1>2, <2>1, LeastNatural
  <2>3. f \in at /\ \A o \in at : f <= o
    BY <1>2, <2>2 DEF Find
  <2> QED  BY <2>3
<1> QED  BY <1>1, <1>2

\* A search that must stop at j stops there.
LEMMA FoundAt ==
  ASSUME BufferSize \in Nat, NEW m, NEW k \in Nat, NEW x,
         NEW j \in k..BufferSize, m[j] = x, \A n \in k..j - 1 : m[n] # x
  PROVE  Find(m, k, x) = j
<1>1. PICK f : f = Find(m, k, x)
  OBVIOUS
<1>2. \/ f = BufferSize + 1 /\ \A n \in k..BufferSize : m[n] # x
      \/ f \in k..BufferSize /\ m[f] = x /\ \A n \in k..f - 1 : m[n] # x
  BY <1>1, FindIs
<1>3. f \in k..BufferSize /\ m[f] = x /\ \A n \in k..f - 1 : m[n] # x
  BY <1>2
<1>4. ~(f < j) /\ ~(j < f)
  BY <1>3
<1> QED  BY <1>1, <1>3, <1>4

\* A string that ends, ends inside of the buffer or in the cell behind it.
LEMMA StringEnds ==
  ASSUME BufferSize \in Nat, NEW m, NEW k \in Nat, ~Unterminated(m, k)
  PROVE  /\ Find(m, k, Nul) \in k..BufferSize /\ m[Find(m, k, Nul)] = Nul
         /\ \A n \in k..Find(m, k, Nul) - 1 : m[n] # Nul
<1>1. PICK f : f = Find(m, k, Nul)
  OBVIOUS
<1>2. \/ f = BufferSize + 1 /\ \A n \in k..BufferSize : m[n] # Nul
      \/ f \in k..BufferSize /\ m[f] = Nul /\ \A n \in k..f - 1 : m[n] # Nul
  BY <1>1, FindIs
<1>3. ~(f > BufferSize)
  BY <1>1 DEF Unterminated
<1>4. f \in k..BufferSize /\ m[f] = Nul /\ \A n \in k..f - 1 : m[n] # Nul
  BY <1>2, <1>3
<1> QED  BY <1>1, <1>4, Zenon

\* Mirroring an interval of cells, and capitals in it, leave characters.
LEMMA MirroredType ==
  ASSUME BufferSize \in Nat, NEW m \in [Cells -> Char], NEW a \in Nat, NEW b \in Int,
         a <= BufferSize, b <= BufferSize, ~RunsAway(a, b)
  PROVE  Mirrored(m, a, b) \in [Cells -> Char]
<1>1. ASSUME NEW k \in Cells, k \in a..b \/ k \in b..a PROVE a + b - k \in Cells
  BY <1>1 DEF Cells, RunsAway
<1> QED  BY <1>1 DEF Mirrored

\* Turning letters to capitals leaves characters.
LEMMA CapitalsType ==
  ASSUME NEW m \in [Cells -> Char], NEW a, NEW b
  PROVE  Capitals(m, a, b) \in [Cells -> Char]
BY ToupperKeeps DEF Capitals

\* The length of what is written.
LEMMA FittingType ==
  ASSUME NEW text \in Lines
  PROVE  /\ text \in Seq(Char) /\ Len(text) \in Nat \ {0}
         /\ Fitting(text) \in 0..BufferSize /\ Fitting(text) \in 0..Len(text)
         /\ Fitting(text) \in Nat \ {0}
<1>1. text \in Seq(Char) /\ text # <<>> /\ BufferSize \in Nat \ {0}
  BY ProcReverseAssumption
<1>2. Len(text) \in Nat \ {0}
  BY <1>1, EmptySeq
<1> QED  BY <1>1, <1>2 DEF Fitting, Smaller

\* What ReverseString does when it does not run away.
LEMMA StringReversed ==
  ASSUME TypeOK, NEW c \in Callers, ReverseString(c), fault' = fault, fault = "none"
  PROVE  \E len \in 1..BufferSize :
           /\ len = Find(mem, 0, Nul)
           /\ mem' = Capitals(Mirrored(mem, 0, len - 2), 0, len - 2)
           /\ mem' \in [Cells -> Char]
           /\ \/ pc' = [pc EXCEPT ![c] = "word"] /\ se' = [se EXCEPT ![c] = len - 1]
                 /\ HasBlank(mem', 0)
              \/ pc' = [pc EXCEPT ![c] = "outside"] /\ se' = [se EXCEPT ![c] = 0]
                 /\ ~HasBlank(mem', 0)
<1>0. BufferSize \in Nat \ {0}
  BY ProcReverseAssumption
<1>1. PICK len : len = Find(mem, 0, Nul)
  OBVIOUS
<1>2. ~Unterminated(mem, 0) /\ ~RunsAway(0, len - 2)
  BY <1>1 DEF ReverseString
<1>3. len \in 0..BufferSize
  BY <1>0, <1>1, <1>2, StringEnds
<1>4. len \in 1..BufferSize
  BY <1>2, <1>3 DEF RunsAway
<1>5. mem' = Capitals(Mirrored(mem, 0, len - 2), 0, len - 2)
  BY <1>1, <1>2 DEF ReverseString
<1>6. mem' \in [Cells -> Char]
  <2>1. len - 2 \in Int /\ len - 2 <= BufferSize /\ 0 <= BufferSize
    BY <1>0, <1>4
  <2>2. Mirrored(mem, 0, len - 2) \in [Cells -> Char]
    BY <1>0, <1>2, <2>1, MirroredType DEF TypeOK
  <2> QED  BY <1>5, <2>2, CapitalsType
<1>7. \/ pc' = [pc EXCEPT ![c] = "word"] /\ se' = [se EXCEPT ![c] = len - 1]
         /\ HasBlank(mem', 0)
      \/ pc' = [pc EXCEPT ![c] = "outside"] /\ se' = [se EXCEPT ![c] = 0]
         /\ ~HasBlank(mem', 0)
  BY <1>1, <1>2, <1>5 DEF ReverseString
<1> QED  BY <1>1, <1>4, <1>5, <1>6, <1>7

\* What a turn of the loop does when it does not run away.
LEMMA WordReversed ==
  ASSUME TypeOK, NEW c \in Callers, ReverseWord(c), fault' = fault, fault = "none"
  PROVE  \E end \in -1..BufferSize - 1 :
           /\ mem' = Mirrored(mem, ws[c], end) /\ mem' \in [Cells -> Char]
           /\ \/ /\ HasBlank(mem, ws[c]) /\ end = Find(mem, ws[c], Blank) - 1
                 /\ pc' = pc /\ se' = se /\ end + 2 \in Nat
                 /\ ws' = [ws EXCEPT ![c] = end + 2]
              \/ /\ ~HasBlank(mem, ws[c]) /\ end = se[c] - 1
                 /\ pc' = [pc EXCEPT ![c] = "outside"]
                 /\ ws' = [ws EXCEPT ![c] = 0] /\ se' = [se EXCEPT ![c] = 0]
<1>0. BufferSize \in Nat \ {0} /\ ws[c] \in Nat /\ se[c] \in 0..BufferSize
  BY ProcReverseAssumption DEF TypeOK
<1>1. PICK we : we = Find(mem, ws[c], Blank)
  OBVIOUS
<1>2. PICK nul : nul = Find(mem, ws[c], Nul)
  OBVIOUS
<1>3. PICK end : end = WordEnd(IF HasBlank(mem, ws[c]) THEN we ELSE se[c])
  OBVIOUS
<1>4. ~Unterminated(mem, ws[c]) /\ ~RunsAway(ws[c], end)
  BY <1>1, <1>3 DEF ReverseWord
<1>5. nul \in ws[c]..BufferSize
  BY <1>0, <1>2, <1>4, StringEnds
<1>6. HasBlank(mem, ws[c]) => we \in ws[c]..BufferSize
  <2>1. HasBlank(mem, ws[c]) => we < nul
    BY <1>1, <1>2 DEF HasBlank
  <2>2. we = BufferSize + 1 \/ we \in ws[c]..BufferSize
    BY <1>0, <1>1, FindIs
  <2> QED  BY <1>0, <1>5, <2>1, <2>2
<1>7. HasBlank(mem, ws[c]) => end = we - 1
  BY <1>3 DEF WordEnd
<1>8. ~HasBlank(mem, ws[c]) => end = se[c] - 1
  BY <1>3 DEF WordEnd
<1>9. end \in -1..BufferSize - 1
  BY <1>0, <1>6, <1>7, <1>8
<1>10. mem' = Mirrored(mem, ws[c], end)
  BY <1>1, <1>3, <1>4 DEF ReverseWord
<1>11. mem' \in [Cells -> Char]
  <2>1. ws[c] <= BufferSize /\ end <= BufferSize /\ end \in Int
    BY <1>0, <1>5, <1>9
  <2> QED  BY <1>0, <1>4, <1>10, <2>1, MirroredType DEF TypeOK
<1>12. CASE HasBlank(mem, ws[c])
  <2>1. we + 1 = end + 2 /\ end + 2 \in Nat
    BY <1>0, <1>6, <1>7, <1>12
  <2>2. pc' = pc /\ se' = se /\ ws' = [ws EXCEPT ![c] = we + 1]
    BY <1>1, <1>3, <1>4, <1>12 DEF ReverseWord
  <2> QED  BY <1>1, <1>7, <1>9, <1>10, <1>11, <1>12, <2>1, <2>2
<1>13. CASE ~HasBlank(mem, ws[c])
  <2>1. /\ pc' = [pc EXCEPT ![c] = "outside"]
        /\ ws' = [ws EXCEPT ![c] = 0] /\ se' = [se EXCEPT ![c] = 0]
    BY <1>1, <1>3, <1>4, <1>13 DEF ReverseWord
  <2> QED  BY <1>8, <1>9, <1>10, <1>11, <1>13, <2>1
<1> QED  BY <1>12, <1>13

\* What can be read.
LEMMA AvailableType ==
  ASSUME NEW ask \in Asks, TypeOK
  PROVE  /\ Available(ask) \in Nat
         /\ readPos <= msgLength => readPos + Available(ask) <= msgLength
BY ProcReverseAssumption DEF Available, Smaller, TypeOK

-----------------------------------------------------------------------------
(* Types                                                                     *)

\* A line that is written.
LEMMA WriteKeepsTypes ==
  ASSUME TypeOK, LocalsForgotten, NEW c \in Callers, NEW text \in Lines, WriteBegin(c, text)
  PROVE  TypeOK' /\ LocalsForgotten'
<1>1. PICK copied \in {0, Fitting(text)} :
        /\ FileExists /\ Goto(c, "outside", "flip")
        /\ mem' = [k \in Cells |-> IF k \notin 0..Fitting(text) - 1 THEN mem[k]
                                   ELSE IF k < copied THEN text[k + 1] ELSE Nul]
        /\ msgLength' = copied /\ readPos' = 0
        /\ line' = SubSeq(text, 1, copied) /\ out' = <<>>
        /\ stale' = (Find(mem, Fitting(text), Nul) # Fitting(text))
        /\ overlap' = ~Alone(c)
        /\ UNCHANGED <<loadVars, ws, se, take, fault>>
  BY DEF WriteBegin
<1>2. /\ text \in Seq(Char) /\ Len(text) \in Nat \ {0}
      /\ copied \in 0..BufferSize /\ copied \in 0..Len(text)
  BY <1>1, FittingType, ProcReverseAssumption
<1>3. mem' \in [Cells -> Char]
  <2>1. ASSUME NEW k \in Cells, k \in 0..Fitting(text) - 1, k < copied PROVE text[k + 1] \in Char
    <3>1. k + 1 \in 1..Len(text)
      BY <1>2, <2>1 DEF Cells
    <3> QED  BY <1>2, <3>1, LenProperties
  <2>2. Nul \in Char
    BY DEF Char
  <2> QED  BY <1>1, <2>1, <2>2 DEF TypeOK
<1>4. line' \in Seq(Char) /\ out' \in Seq(Char)
  <2>1. line' \in Seq(Char)
    BY <1>1, <1>2, Prefix
  <2> QED  BY <1>1, <2>1
<1>5. pc' = [pc EXCEPT ![c] = "flip"] /\ pc' \in [Callers -> States] /\ pc[c] = "outside"
  BY <1>1 DEF TypeOK, Goto, States
<1>6. stale' \in BOOLEAN /\ overlap' \in BOOLEAN
  BY <1>1, Zenon
<1>7. TypeOK'
  BY <1>1, <1>2, <1>3, <1>4, <1>5, <1>6 DEF TypeOK, loadVars
<1>8. LocalsForgotten'
  BY <1>1, <1>5 DEF LocalsForgotten, TypeOK
<1> QED  BY <1>7, <1>8

\* What is read is added to what was read.
LEMMA ReadBegun ==
  ASSUME TypeOK, LocalsForgotten, NEW c \in Callers, ReadBegin(c)
  PROVE  \E length \in Nat :
           /\ FileExists /\ pc[c] = "outside" /\ pc' = [pc EXCEPT ![c] = "advance"]
           /\ take' = [take EXCEPT ![c] = length]
           /\ overlap' = (overlap \/ ~Alone(c))
           /\ readPos <= msgLength => readPos + length <= msgLength
           /\ \E ask \in Asks : length \in 0..Available(ask)
           /\ \/ length > 0 /\ readPos + length > BufferSize /\ fault' = "read" /\ out' = <<>>
              \/ /\ length = 0 \/ readPos + length <= BufferSize
                 /\ fault' = fault
                 /\ out' = IF overlap' THEN <<>>
                           ELSE out \o [k \in 1..length |-> mem[readPos + k - 1]]
           /\ UNCHANGED <<bufferVars, loadVars, ws, se, line, stale>>
<1>0. PICK length : \E ask \in Asks, fails \in BOOLEAN :
        /\ length = IF fails THEN 0 ELSE Available(ask)
        /\ FileExists /\ Goto(c, "outside", "advance")
        /\ take' = [take EXCEPT ![c] = length]
        /\ overlap' = (overlap \/ ~Alone(c))
        /\ IF length > 0 /\ readPos + length > BufferSize
           THEN fault' = "read" /\ out' = <<>>
           ELSE /\ fault' = fault
                /\ out' = IF overlap' THEN <<>>
                          ELSE out \o [k \in 1..length |-> mem[readPos + k - 1]]
        /\ UNCHANGED <<bufferVars, loadVars, ws, se, line, stale>>
  BY DEF ReadBegin
<1>1. PICK ask \in Asks, fails \in BOOLEAN :
        /\ length = IF fails THEN 0 ELSE Available(ask)
        /\ FileExists /\ Goto(c, "outside", "advance")
        /\ take' = [take EXCEPT ![c] = length]
        /\ overlap' = (overlap \/ ~Alone(c))
        /\ IF length > 0 /\ readPos + length > BufferSize
           THEN fault' = "read" /\ out' = <<>>
           ELSE /\ fault' = fault
                /\ out' = IF overlap' THEN <<>>
                          ELSE out \o [k \in 1..length |-> mem[readPos + k - 1]]
        /\ UNCHANGED <<bufferVars, loadVars, ws, se, line, stale>>
  BY <1>0
<1>2. /\ length \in Nat /\ length \in 0..Available(ask)
      /\ readPos <= msgLength => readPos + length <= msgLength
  <2>1. /\ Available(ask) \in Nat
        /\ readPos <= msgLength => readPos + Available(ask) <= msgLength
    BY AvailableType
  <2>2. PICK available \in Nat : available = Available(ask)
    BY <2>1
  <2> QED  BY <1>1, <2>1, <2>2 DEF TypeOK
<1>3. \/ length > 0 /\ readPos + length > BufferSize
      \/ length = 0 \/ readPos + length <= BufferSize
  BY <1>2, ProcReverseAssumption DEF TypeOK
<1>4. \/ length > 0 /\ readPos + length > BufferSize /\ fault' = "read" /\ out' = <<>>
      \/ /\ length = 0 \/ readPos + length <= BufferSize
         /\ fault' = fault
         /\ out' = IF overlap' THEN <<>>
                   ELSE out \o [k \in 1..length |-> mem[readPos + k - 1]]
  <2>1. CASE length > 0 /\ readPos + length > BufferSize
    BY <1>1, <2>1
  <2>2. CASE ~(length > 0 /\ readPos + length > BufferSize)
    BY <1>1, <1>3, <2>2
  <2> QED  BY <2>1, <2>2
<1> QED  BY <1>1, <1>2, <1>4, Zenon DEF Goto

\* The bytes of a read.
LEMMA BytesRead ==
  ASSUME TypeOK, NEW length \in Nat, length = 0 \/ readPos + length <= BufferSize, NEW bytes,
         bytes = [k \in 1..length |-> mem[readPos + k - 1]]
  PROVE  /\ bytes \in Seq(Char) /\ Len(bytes) = length
         /\ \A k \in 1..length : bytes[k] = mem[readPos + k - 1]
         /\ out \o bytes \in Seq(Char) /\ Len(out \o bytes) = Len(out) + length
         /\ \A k \in 1..Len(out) : (out \o bytes)[k] = out[k]
         /\ \A k \in Len(out) + 1..Len(out) + length : (out \o bytes)[k] = bytes[k - Len(out)]
<1>1. \A k \in 1..length : readPos + k - 1 \in Cells
  BY ProcReverseAssumption DEF TypeOK, Cells
<1>2. bytes \in [1..length -> Char]
  BY <1>1 DEF TypeOK
<1>3. bytes \in Seq(Char) /\ Len(bytes) = length
  BY <1>2
<1>4. /\ out \in Seq(Char) /\ Len(out) \in Nat
  BY LenProperties DEF TypeOK
<1>5. /\ out \o bytes \in Seq(Char) /\ Len(out \o bytes) = Len(out) + Len(bytes)
      /\ \A k \in 1..Len(out) + Len(bytes) :
           (out \o bytes)[k] = IF k <= Len(out) THEN out[k] ELSE bytes[k - Len(out)]
  BY <1>3, <1>4, ConcatProperties
<1>6. /\ \A k \in 1..Len(out) : k \in 1..Len(out) + length /\ k <= Len(out)
      /\ \A k \in Len(out) + 1..Len(out) + length : k \in 1..Len(out) + length /\ ~(k <= Len(out))
  BY <1>4
<1> QED  BY <1>3, <1>5, <1>6

\* Every step keeps the types and what outside of a call is forgotten.
LEMMA TypesKept ==
  ASSUME TypeOK, LocalsForgotten, phase \in {"absent", "loading"} => Untouched, [Next]_vars
  PROVE  TypeOK' /\ LocalsForgotten'
<1>0. /\ BufferSize \in Nat \ {0}
      /\ \A c \in Callers : /\ pc[c] \in States /\ ws[c] \in Nat /\ se[c] \in 0..BufferSize
                            /\ take[c] \in Nat
  BY ProcReverseAssumption DEF TypeOK
<1>1. CASE UNCHANGED vars
  BY <1>1 DEF vars, bufferVars, loadVars, callVars, histVars, TypeOK, LocalsForgotten
<1>2. ASSUME Load PROVE TypeOK' /\ LocalsForgotten'
  <2>1. /\ UNCHANGED <<mem, readPos, callVars, fault, histVars>>
        /\ msgLength' \in {0, msgLength}
        /\ phase' \in {"absent", "loading", "loaded", "leaving", "gone"}
    BY <1>2 DEF Load, MakePart, Leave, DropPart, Left, bufferVars, TypeOK
  <2>2. stack' \in Seq({"buffer", "dir", "file"})
    <3>1. CASE MakePart
      <4>1. stack' = SubSeq(<<"buffer", "dir", "file">>, 1, Len(stack) + 1) /\ Len(stack) <= 2
        BY <3>1 DEF MakePart, Untouched
      <4>2. Len(stack) \in Nat
        BY LenProperties DEF TypeOK
      <4>3. PICK k \in Nat : k = Len(stack)
        BY <4>2
      <4>4. k \in 0..2
        BY <4>1, <4>3
      <4> QED  BY <4>1, <4>3, <4>4, PartsMade
    <3>2. CASE stack' = stack
      BY <3>2 DEF TypeOK
    <3>3. CASE DropPart
      BY <3>3, PartsDropped DEF DropPart, TypeOK
    <3> QED  BY <1>2, <3>1, <3>2, <3>3 DEF Load, Leave, Left
  <2>3. msgLength' \in 0..BufferSize
    BY <1>0, <2>1 DEF TypeOK
  <2> QED  BY <2>1, <2>2, <2>3 DEF TypeOK, LocalsForgotten, callVars, histVars
<1>3. ASSUME NEW c \in Callers, NEW text \in Lines, WriteBegin(c, text)
      PROVE  TypeOK' /\ LocalsForgotten'
  BY <1>3, WriteKeepsTypes
<1>4. ASSUME NEW c \in Callers, fault = "none", ReverseString(c) \/ ReverseWord(c), fault' # fault
      PROVE  TypeOK' /\ LocalsForgotten'
  <2>1. fault' = "string" /\ UNCHANGED <<mem, pc, ws, se, msgLength, readPos, loadVars, take, histVars>>
    BY <1>4 DEF ReverseString, ReverseWord
  <2> QED  BY <2>1 DEF TypeOK, LocalsForgotten, loadVars, histVars
<1>5. ASSUME NEW c \in Callers, fault = "none", ReverseString(c), fault' = fault
      PROVE  TypeOK' /\ LocalsForgotten'
  <2>1. /\ UNCHANGED <<msgLength, readPos, loadVars, ws, take, histVars>> /\ pc[c] = "flip"
    BY <1>5 DEF ReverseString
  <2>2. PICK len \in 1..BufferSize :
          /\ mem' \in [Cells -> Char]
          /\ \/ pc' = [pc EXCEPT ![c] = "word"] /\ se' = [se EXCEPT ![c] = len - 1]
             \/ pc' = [pc EXCEPT ![c] = "outside"] /\ se' = [se EXCEPT ![c] = 0]
    BY <1>5, StringReversed
  <2>3. pc' \in [Callers -> States] /\ se' \in [Callers -> 0..BufferSize]
    <3>1. 0 \in 0..BufferSize /\ len - 1 \in 0..BufferSize
      BY <1>0
    <3>2. PICK r \in 0..BufferSize : r = len - 1
      BY <3>1
    <3>3. \A x \in 0..BufferSize : [se EXCEPT ![c] = x] \in [Callers -> 0..BufferSize]
      BY DEF TypeOK
    <3>4. se' \in [Callers -> 0..BufferSize]
      BY <2>2, <3>1, <3>2, <3>3
    <3> QED  BY <2>2, <3>4 DEF TypeOK, States
  <2>4. TypeOK'
    BY <1>5, <2>1, <2>2, <2>3 DEF TypeOK, loadVars, histVars
  <2>5. LocalsForgotten'
    BY <2>1, <2>2 DEF LocalsForgotten, TypeOK
  <2> QED  BY <2>4, <2>5
<1>6. ASSUME NEW c \in Callers, fault = "none", ReverseWord(c), fault' = fault
      PROVE  TypeOK' /\ LocalsForgotten'
  <2>1. /\ UNCHANGED <<msgLength, readPos, loadVars, take, histVars>> /\ pc[c] = "word"
    BY <1>6 DEF ReverseWord
  <2>2. PICK end \in -1..BufferSize - 1 :
           /\ mem' \in [Cells -> Char]
           /\ \/ /\ pc' = pc /\ se' = se /\ end + 2 \in Nat
                 /\ ws' = [ws EXCEPT ![c] = end + 2]
              \/ /\ pc' = [pc EXCEPT ![c] = "outside"]
                 /\ ws' = [ws EXCEPT ![c] = 0] /\ se' = [se EXCEPT ![c] = 0]
    BY <1>6, WordReversed
  <2>3. /\ pc' \in [Callers -> States] /\ se' \in [Callers -> 0..BufferSize]
        /\ ws' \in [Callers -> Nat]
    <3>1. /\ 0 \in 0..BufferSize
          /\ \A x \in Nat : [ws EXCEPT ![c] = x] \in [Callers -> Nat]
          /\ \A x \in 0..BufferSize : [se EXCEPT ![c] = x] \in [Callers -> 0..BufferSize]
      BY <1>0 DEF TypeOK
    <3>2. se' \in [Callers -> 0..BufferSize]
      BY <2>2, <3>1 DEF TypeOK
    <3>3. ws' \in [Callers -> Nat]
      <4>1. 0 \in Nat
        OBVIOUS
      <4> QED  BY <2>2, <3>1, <4>1
    <3> QED  BY <2>2, <3>2, <3>3 DEF TypeOK, States
  <2>4. TypeOK'
    BY <1>6, <2>1, <2>2, <2>3 DEF TypeOK, loadVars, histVars
  <2>5. LocalsForgotten'
    BY <2>1, <2>2 DEF LocalsForgotten, TypeOK
  <2> QED  BY <2>4, <2>5
<1>7. ASSUME NEW c \in Callers, ReadBegin(c) PROVE TypeOK' /\ LocalsForgotten'
  <2>1. PICK length \in Nat :
           /\ pc[c] = "outside" /\ pc' = [pc EXCEPT ![c] = "advance"]
           /\ take' = [take EXCEPT ![c] = length]
           /\ overlap' = (overlap \/ ~Alone(c))
           /\ \/ fault' = "read" /\ out' = <<>>
              \/ /\ length = 0 \/ readPos + length <= BufferSize
                 /\ fault' = fault
                 /\ out' = IF overlap' THEN <<>>
                           ELSE out \o [k \in 1..length |-> mem[readPos + k - 1]]
           /\ UNCHANGED <<bufferVars, loadVars, ws, se, line, stale>>
    BY <1>7, ReadBegun
  <2>2. out' \in Seq(Char)
    <3>1. <<>> \in Seq(Char)
      OBVIOUS
    <3>2. ASSUME length = 0 \/ readPos + length <= BufferSize
          PROVE  out \o [k \in 1..length |-> mem[readPos + k - 1]] \in Seq(Char)
      BY <3>2, BytesRead
    <3> QED  BY <2>1, <3>1, <3>2
  <2>3. /\ pc' \in [Callers -> States] /\ take' \in [Callers -> Nat] /\ overlap' \in BOOLEAN
        /\ fault' \in {"none", "string", "read"}
    <3>1. overlap' \in BOOLEAN
      BY <2>1, Zenon
    <3> QED  BY <2>1, <3>1 DEF TypeOK, States
  <2>4. TypeOK'
    BY <2>1, <2>2, <2>3 DEF TypeOK, loadVars, bufferVars
  <2>5. LocalsForgotten'
    BY <2>1 DEF LocalsForgotten, TypeOK
  <2> QED  BY <2>4, <2>5
<1>8. ASSUME NEW c \in Callers, ReadEnd(c) PROVE TypeOK' /\ LocalsForgotten'
  <2>1. /\ pc[c] = "advance" /\ pc' = [pc EXCEPT ![c] = "outside"]
        /\ readPos' = readPos + take[c] /\ take' = [take EXCEPT ![c] = 0]
        /\ UNCHANGED <<mem, msgLength, loadVars, ws, se, fault, histVars>>
    BY <1>8 DEF ReadEnd, Goto
  <2>2. pc' \in [Callers -> States] /\ take' \in [Callers -> Nat] /\ readPos' \in Nat
    BY <1>0, <2>1 DEF TypeOK, States
  <2> QED  BY <2>1, <2>2 DEF TypeOK, LocalsForgotten, loadVars, histVars
<1> QED
  <2>1. ASSUME NEW c \in Callers, fault = "none", Call(c) PROVE TypeOK' /\ LocalsForgotten'
    BY <1>3, <1>4, <1>5, <1>6, <1>7, <1>8, <2>1 DEF Call, Write, Read
  <2> QED  BY <1>1, <1>2, <2>1 DEF Next, Halted

-----------------------------------------------------------------------------
(* The reversal                                                              *)

\* The word that holds a place begins and ends where blanks, or the ends of the line, are.
LEMMA WordIs ==
  ASSUME NEW l \in Seq(Char), NEW a \in 1..Len(l) - 1, NEW b \in a..Len(l) - 1, NEW k \in a..b,
         \A j \in a..b : l[j] # Blank,
         a = 1 \/ l[a - 1] = Blank, b = Len(l) - 1 \/ l[b + 1] = Blank
  PROVE  WordStart(l, k) = a /\ WordStop(l, k) = b
<1>0. PICK n \in Nat : n = Len(l)
  BY LenProperties
<1>1. WordStart(l, k) = a
  <2>1. a \in 1..k /\ (\A j \in a..k : l[j] # Blank) /\ (a = 1 \/ l[a - 1] = Blank)
    BY <1>0
  <2>2. ASSUME NEW x \in 1..k, \A j \in x..k : l[j] # Blank, x = 1 \/ l[x - 1] = Blank
        PROVE  x = a
    <3>1. ~(x < a)
      <4>1. x < a => a - 1 \in x..k /\ a # 1
        BY <1>0
      <4> QED  BY <2>2, <4>1
    <3>2. ~(a < x)
      <4>1. a < x => x - 1 \in a..b /\ x # 1
        BY <1>0
      <4> QED  BY <2>2, <4>1
    <3> QED  BY <1>0, <3>1, <3>2
  <2> QED  BY <2>1, <2>2 DEF WordStart
<1>2. WordStop(l, k) = b
  <2>1. b \in k..Len(l) - 1 /\ (\A j \in k..b : l[j] # Blank) /\ (b = Len(l) - 1 \/ l[b + 1] = Blank)
    BY <1>0
  <2>2. ASSUME NEW x \in k..Len(l) - 1, \A j \in k..x : l[j] # Blank, x = Len(l) - 1 \/ l[x + 1] = Blank
        PROVE  x = b
    <3>1. ~(b < x)
      <4>1. b < x => b + 1 \in k..x /\ b # Len(l) - 1
        BY <1>0
      <4> QED  BY <2>2, <4>1
    <3>2. ~(x < b)
      <4>1. x < b => x + 1 \in a..b /\ x # Len(l) - 1
        BY <1>0
      <4> QED  BY <2>2, <4>1
    <3> QED  BY <1>0, <3>1, <3>2
  <2> QED  BY <2>1, <2>2 DEF WordStop
<1> QED  BY <1>1, <1>2

\* Cells w..e of the mirrored line hold a word: in the reversed line its letters are turned.
LEMMA LettersTurned ==
  ASSUME NEW l \in Seq(Char), NEW w \in 0..Len(l) - 2, NEW e \in w..Len(l) - 2, NEW k \in w..e,
         \A j \in w..e : l[Len(l) - 1 - j] # Blank,
         WordAt(l, w), e = Len(l) - 2 \/ l[Len(l) - 2 - e] = Blank
  PROVE  Reversed(l)[k + 1] = Flipped(l, w + e - k)
<1>0. PICK n \in Nat : n = Len(l)
  BY LenProperties
<1>1. PICK a \in 1..n - 1, b \in 1..n - 1, j \in 1..n - 1 :
        a = n - 1 - e /\ b = n - 1 - w /\ j = n - 1 - k /\ a <= j /\ j <= b
  <2>1. /\ n - 1 - e \in 1..n - 1 /\ n - 1 - w \in 1..n - 1 /\ n - 1 - k \in 1..n - 1
        /\ n - 1 - e <= n - 1 - k /\ n - 1 - k <= n - 1 - w
    BY <1>0
  <2> QED  BY <2>1
<1>2. \A i \in a..b : l[i] # Blank
  <2>1. ASSUME NEW i \in a..b PROVE n - 1 - i \in w..e /\ n - 1 - (n - 1 - i) = i
    BY <1>0, <1>1
  <2> QED  BY <1>0, <2>1
<1>3. a = 1 \/ l[a - 1] = Blank
  <2>1. e = n - 2 => a = 1
    BY <1>0, <1>1
  <2>2. a - 1 = n - 2 - e
    BY <1>0, <1>1
  <2> QED  BY <1>0, <2>1, <2>2
<1>4. b = n - 1 \/ l[b + 1] = Blank
  <2>1. b + 1 = n - w /\ (w = 0 => b = n - 1)
    BY <1>0, <1>1
  <2> QED  BY <1>0, <2>1 DEF WordAt
<1>5. WordStart(l, j) = a /\ WordStop(l, j) = b
  <2>1. a \in 1..Len(l) - 1 /\ b \in a..Len(l) - 1 /\ j \in a..b
    BY <1>0, <1>1
  <2> QED  BY <1>0, <1>2, <1>3, <1>4, <2>1, WordIs
<1>6. Source(l, j) = n - 1 - (w + e - k)
  <2>1. l[j] # Blank
    BY <1>1, <1>2
  <2>2. Source(l, j) = a + b - j
    BY <1>5, <2>1 DEF Source
  <2> QED  BY <1>0, <1>1, <2>2
<1>7. k + 1 \in 1..Len(l) /\ k + 1 # Len(l) /\ Len(l) - (k + 1) = j
  BY <1>0, <1>1
<1>8. Reversed(l)[k + 1] = toupper(l[Source(l, j)])
  BY <1>7 DEF Reversed
<1> QED  BY <1>0, <1>6, <1>8 DEF Flipped

\* A blank stays where it is in the mirrored line.
LEMMA BlankStays ==
  ASSUME NEW l \in Seq(Char), NEW k \in 0..Len(l) - 2, l[Len(l) - 1 - k] = Blank
  PROVE  Reversed(l)[k + 1] = Blank /\ Flipped(l, k) = Blank
<1>0. PICK n \in Nat : n = Len(l)
  BY LenProperties
<1>1. k + 1 \in 1..Len(l) /\ k + 1 # Len(l) /\ Len(l) - (k + 1) = Len(l) - 1 - k
  BY <1>0
<1>2. Source(l, Len(l) - 1 - k) = Len(l) - 1 - k
  BY DEF Source
<1>3. toupper(Blank) = Blank
  <2>1. Blank \in Char
    BY DEF Char
  <2> QED  BY <2>1, ToupperKeeps
<1> QED  BY <1>1, <1>2, <1>3 DEF Reversed, Flipped

\* The newline stays at the end.
LEMMA NewlineStays ==
  ASSUME NEW l \in Seq(Char), l # <<>>
  PROVE  Reversed(l)[Len(l)] = Newline
<1>1. Len(l) \in 1..Len(l)
  <2>1. PICK n \in Nat \ {0} : n = Len(l)
    BY EmptySeq, LenProperties
  <2> QED  BY <2>1
<1> QED  BY <1>1 DEF Reversed

\* A line as echo sends it, by its length and its characters.
LEMMA LineFacts ==
  ASSUME NEW l \in Seq(Char), WellFormed(l)
  PROVE  \E n \in Nat :
           /\ n = Len(l) /\ n >= 2 /\ l # <<>>
           /\ l[1] # Blank /\ l[n - 1] # Blank /\ l[n] = Newline
           /\ \A k \in 0..n - 2 :
                /\ l[k + 1] \notin {Nul, Newline} /\ l[n - 1 - k] \notin {Nul, Newline}
                /\ l[k + 1] \in Char /\ Flipped(l, k) \in Char
                /\ Flipped(l, k) = Blank <=> l[n - 1 - k] = Blank
                /\ Flipped(l, k) # Nul
<1>0. PICK n \in Nat : n = Len(l)
  BY LenProperties
<1>1. n > 1
  BY <1>0 DEF WellFormed
<1>2. \A k \in 1..n : l[k] \in Char
  BY <1>0, LenProperties
<1>3. \A k \in 1..n : l[k] # Nul /\ (l[k] = Newline <=> k = n)
  BY <1>0 DEF WellFormed
<1>4. l[n] = Newline
  BY <1>1, <1>3
<1>5. ASSUME NEW k \in 0..n - 2
      PROVE  /\ l[k + 1] \notin {Nul, Newline} /\ l[n - 1 - k] \notin {Nul, Newline}
             /\ l[k + 1] \in Char /\ Flipped(l, k) \in Char
             /\ Flipped(l, k) = Blank <=> l[n - 1 - k] = Blank
             /\ Flipped(l, k) # Nul
  <2>1. /\ k + 1 \in 1..n /\ k + 1 # n
        /\ n - 1 - k \in 1..n /\ n - 1 - k # n
    OBVIOUS
  <2>2. PICK x \in Char : x = l[n - 1 - k]
    BY <1>2, <2>1
  <2>3. Flipped(l, k) = toupper(x)
    BY <1>0, <2>2 DEF Flipped
  <2>4. x # Nul
    BY <1>3, <2>1, <2>2
  <2>5. toupper(x) \in Char /\ toupper(x) # Nul /\ (toupper(x) = Blank <=> x = Blank)
    BY <2>4, ToupperKeeps
  <2>6. l[k + 1] \notin {Nul, Newline} /\ l[n - 1 - k] \notin {Nul, Newline} /\ l[k + 1] \in Char
    BY <1>2, <1>3, <2>1
  <2> QED  BY <2>2, <2>3, <2>5, <2>6
<1>6. l[1] # Blank /\ l[n - 1] # Blank
  BY <1>0 DEF WellFormed
<1>7. l # <<>>
  BY <1>0, <1>1
<1> QED  BY <1>0, <1>1, <1>4, <1>5, <1>6, <1>7

\* ReverseString mirrors the line, and goes on word by word if there are several.
LEMMA LineFlipped ==
  ASSUME TypeOK, WellFormed(line), Len(line) <= BufferSize, fault = "none",
         mem[Len(line)] = Nul, mem[Len(line) - 1] = Newline,
         \A k \in 0..Len(line) - 2 : mem[k] = line[k + 1],
         NEW c \in Callers, ReverseString(c)
  PROVE  /\ fault' = fault
         /\ \A k \in Cells : k \notin 0..Len(line) - 2 => mem'[k] = mem[k]
         /\ \A k \in 0..Len(line) - 2 : mem'[k] = Flipped(line, k)
         /\ \/ /\ SeveralWords(line)
               /\ pc' = [pc EXCEPT ![c] = "word"] /\ se' = [se EXCEPT ![c] = Len(line) - 1]
            \/ ~SeveralWords(line) /\ pc' = [pc EXCEPT ![c] = "outside"]
<1>0. line \in Seq(Char) /\ mem \in [Cells -> Char] /\ BufferSize \in Nat \ {0}
  BY ProcReverseAssumption DEF TypeOK
<1>1. PICK n \in Nat :
           /\ n = Len(line) /\ n >= 2 /\ line # <<>>
           /\ line[1] # Blank /\ line[n - 1] # Blank /\ line[n] = Newline
           /\ \A k \in 0..n - 2 :
                /\ line[k + 1] \notin {Nul, Newline} /\ line[n - 1 - k] \notin {Nul, Newline}
                /\ line[k + 1] \in Char /\ Flipped(line, k) \in Char
                /\ Flipped(line, k) = Blank <=> line[n - 1 - k] = Blank
                /\ Flipped(line, k) # Nul
  BY <1>0, LineFacts
<1>2. Find(mem, 0, Nul) = n
  <2>1. n \in 0..BufferSize /\ mem[n] = Nul
    BY <1>0, <1>1
  <2>2. ASSUME NEW k \in 0..n - 1 PROVE mem[k] # Nul
    <3>1. k \in 0..n - 2 \/ k = n - 1
      OBVIOUS
    <3>2. Newline # Nul
      BY DEF Newline, Nul
    <3> QED  BY <1>1, <3>1, <3>2
  <2> QED  BY <1>0, <2>1, <2>2, FoundAt
<1>3. ~Unterminated(mem, 0) /\ ~RunsAway(0, n - 2)
  BY <1>0, <1>1, <1>2 DEF Unterminated, RunsAway
<1>4. PICK flipped : flipped = Capitals(Mirrored(mem, 0, n - 2), 0, n - 2)
  OBVIOUS
<1>5. /\ fault' = fault /\ mem' = flipped
      /\ HasBlank(flipped, 0) => /\ pc' = [pc EXCEPT ![c] = "word"]
                                 /\ se' = [se EXCEPT ![c] = n - 1]
      /\ ~HasBlank(flipped, 0) => pc' = [pc EXCEPT ![c] = "outside"]
  BY <1>2, <1>3, <1>4 DEF ReverseString
<1>6. ASSUME NEW k \in Cells, k \notin 0..n - 2 PROVE flipped[k] = mem[k]
  <2>1. k \notin n - 2..0
    BY <1>0, <1>1, <1>6 DEF Cells
  <2> QED  BY <1>4, <1>6, <2>1 DEF Capitals, Mirrored
<1>7. ASSUME NEW k \in 0..n - 2 PROVE flipped[k] = Flipped(line, k)
  <2>1. k \in Cells /\ n - 2 - k \in 0..n - 2 /\ 0 + (n - 2) - k = n - 2 - k
        /\ n - 2 - k + 1 = n - 1 - k
    BY <1>0, <1>1 DEF Cells
  <2>2. Mirrored(mem, 0, n - 2)[k] = mem[n - 2 - k]
    BY <2>1 DEF Mirrored
  <2>3. flipped[k] = toupper(mem[n - 2 - k])
    BY <1>4, <2>1, <2>2 DEF Capitals
  <2>4. mem[n - 2 - k] = line[n - 1 - k]
    BY <1>1, <2>1
  <2> QED  BY <1>1, <2>3, <2>4 DEF Flipped
<1>8. Find(flipped, 0, Nul) = n
  <2>1. n \in 0..BufferSize /\ n \in Cells /\ n \notin 0..n - 2 /\ n - 1 \in Cells /\ n - 1 \notin 0..n - 2
    BY <1>0, <1>1 DEF Cells
  <2>2. flipped[n] = Nul /\ flipped[n - 1] = Newline
    BY <1>1, <1>6, <2>1
  <2>3. ASSUME NEW k \in 0..n - 1 PROVE flipped[k] # Nul
    <3>1. k \in 0..n - 2 \/ k = n - 1
      OBVIOUS
    <3>2. Newline # Nul
      BY DEF Newline, Nul
    <3> QED  BY <1>1, <1>7, <2>2, <3>1, <3>2
  <2> QED  BY <1>0, <2>1, <2>2, <2>3, FoundAt
<1>9. HasBlank(flipped, 0) <=> SeveralWords(line)
  <2>0. PICK f : f = Find(flipped, 0, Blank)
    OBVIOUS
  <2>1. \/ f = BufferSize + 1 /\ \A j \in 0..BufferSize : flipped[j] # Blank
        \/ f \in 0..BufferSize /\ flipped[f] = Blank /\ \A j \in 0..f - 1 : flipped[j] # Blank
    BY <1>0, <2>0, FindIs
  <2>2. HasBlank(flipped, 0) <=> f < n
    BY <1>8, <2>0 DEF HasBlank
  <2>3. ASSUME SeveralWords(line) PROVE f < n
    <3>1. PICK k \in 1..n : line[k] = Blank
      BY <1>1, <2>3 DEF SeveralWords
    <3>2. k # n
      BY <1>1, <3>1 DEF Blank, Newline
    <3>3. n - 1 - k \in 0..n - 2 /\ n - 1 - (n - 1 - k) = k /\ n - 1 - k \in 0..BufferSize
      BY <1>0, <1>1, <3>2
    <3>4. flipped[n - 1 - k] = Blank
      BY <1>1, <1>7, <3>1, <3>3
    <3>5. f <= n - 1 - k
      BY <1>0, <2>1, <3>3, <3>4
    <3> QED  BY <1>0, <2>1, <3>3, <3>5
  <2>4. ASSUME f < n PROVE SeveralWords(line)
    <3>1. f \in 0..n - 1 /\ flipped[f] = Blank
      BY <1>0, <1>1, <2>1, <2>4
    <3>2. f # n - 1
      <4>1. n - 1 \in Cells /\ n - 1 \notin 0..n - 2
        BY <1>0, <1>1 DEF Cells
      <4>2. flipped[n - 1] = Newline
        BY <1>1, <1>6, <4>1
      <4> QED  BY <3>1, <4>2 DEF Newline, Blank
    <3>3. f \in 0..n - 2 /\ n - 1 - f \in 1..n
      BY <3>1, <3>2
    <3>4. line[n - 1 - f] = Blank
      BY <1>1, <1>7, <3>1, <3>3
    <3> QED  BY <1>1, <3>3, <3>4 DEF SeveralWords
  <2> QED  BY <2>2, <2>3, <2>4
<1> QED  BY <1>1, <1>5, <1>6, <1>7, <1>9

\* Cells w..e hold a word, and what is before it was dealt with.
WordStands(l, n, m, w, e) ==
  /\ n \in Nat /\ n = Len(l) /\ n <= BufferSize /\ w \in 0..n - 2 /\ e \in w..n - 2
  /\ \A k \in 0..w - 1 : m[k] = Reversed(l)[k + 1]
  /\ \A k \in w..n - 2 : m[k] = Flipped(l, k)
  /\ \A k \in w..e : l[n - 1 - k] # Blank
  /\ WordAt(l, w) /\ (e = n - 2 \/ l[n - 2 - e] = Blank)

\* What is before cell e and at it was dealt with.
WordDone(l, n, m, m2, e) ==
  /\ \A k \in Cells : k \notin 0..n - 2 => m2[k] = m[k]
  /\ \A k \in 0..e : m2[k] = Reversed(l)[k + 1]
  /\ \A k \in e + 1..n - 2 : m2[k] = Flipped(l, k)

\* A word of the mirrored line is put into its own order.
LEMMA PartTurned ==
  ASSUME BufferSize \in Nat, NEW l \in Seq(Char), NEW n, NEW m, NEW w, NEW e,
         WordStands(l, n, m, w, e)
  PROVE  WordDone(l, n, m, Mirrored(m, w, e), e)
<1>0. PICK m2 : m2 = Mirrored(m, w, e)
  OBVIOUS
<1> USE DEF WordStands
<1>1. ASSUME NEW k \in Cells, k \notin w..e PROVE m2[k] = m[k]
  <2>1. k \notin e..w
    BY <1>1 DEF Cells
  <2> QED  BY <1>0, <1>1, <2>1 DEF Mirrored
<1>2. ASSUME NEW k \in w..e PROVE m2[k] = Reversed(l)[k + 1]
  <2>1. k \in Cells /\ w + e - k \in w..n - 2
    BY <1>2 DEF Cells
  <2>2. m2[k] = m[w + e - k]
    BY <1>0, <1>2, <2>1 DEF Mirrored
  <2>3. m2[k] = Flipped(l, w + e - k)
    BY <2>1, <2>2
  <2> QED  BY <2>3, LettersTurned
<1>3. ASSUME NEW k \in 0..e PROVE m2[k] = Reversed(l)[k + 1]
  <2>1. /\ k \in w..e \/ k \in 0..w - 1
        /\ k \in 0..w - 1 => k \in Cells /\ k \notin w..e
    BY DEF Cells
  <2> QED  BY <1>1, <1>2, <2>1
<1>4. ASSUME NEW k \in e + 1..n - 2 PROVE m2[k] = Flipped(l, k)
  <2>1. k \in w..n - 2 /\ k \in Cells /\ k \notin w..e
    BY DEF Cells
  <2> QED  BY <1>1, <2>1
<1>5. \A k \in Cells : k \notin 0..n - 2 => k \notin w..e
  OBVIOUS
<1> QED  BY <1>0, <1>1, <1>3, <1>4, <1>5 DEF WordDone

\* Between two blanks there is no word, and the loop swaps them.
LEMMA BlanksSwapped ==
  ASSUME BufferSize \in Nat, NEW m, NEW m2, NEW w \in 1..BufferSize, m2 = Mirrored(m, w, w - 1),
         m[w - 1] = m[w]
  PROVE  \A k \in Cells : m2[k] = m[k]
<1>1. ASSUME NEW k \in Cells PROVE m2[k] = m[k]
  <2>1. CASE k = w
    <3>1. k \in w - 1..w /\ w + (w - 1) - k = w - 1
      BY <2>1
    <3> QED  BY <2>1, <3>1 DEF Mirrored
  <2>2. CASE k = w - 1
    <3>1. k \in w - 1..w /\ w + (w - 1) - k = w
      BY <2>2
    <3> QED  BY <2>2, <3>1 DEF Mirrored
  <2>3. CASE k # w /\ k # w - 1
    <3>1. k \notin w..w - 1 /\ k \notin w - 1..w
      BY <2>3 DEF Cells
    <3> QED  BY <3>1 DEF Mirrored
  <2> QED  BY <2>1, <2>2, <2>3
<1> QED  BY <1>1

\* A turn of the loop: the next word, or the last, in its own order.
LEMMA WordTurned ==
  ASSUME TypeOK, WellFormed(line), Len(line) <= BufferSize, fault = "none",
         mem[Len(line)] = Nul, mem[Len(line) - 1] = Newline,
         NEW c \in Callers, HalfDone(c), ReverseWord(c)
  PROVE  /\ fault' = fault
         /\ \A k \in Cells : k \notin 0..Len(line) - 2 => mem'[k] = mem[k]
         /\ \/ /\ pc' = pc /\ se' = se
               /\ \E w \in 0..Len(line) - 2 :
                    /\ ws' = [ws EXCEPT ![c] = w] /\ WordAt(line, w)
                    /\ \A k \in 0..w - 1 : mem'[k] = Reversed(line)[k + 1]
                    /\ \A k \in w..Len(line) - 2 : mem'[k] = Flipped(line, k)
            \/ /\ pc' = [pc EXCEPT ![c] = "outside"]
               /\ \A k \in 0..Len(line) - 2 : mem'[k] = Reversed(line)[k + 1]
<1>0. line \in Seq(Char) /\ mem \in [Cells -> Char] /\ BufferSize \in Nat \ {0}
  BY ProcReverseAssumption DEF TypeOK
<1>1. PICK n \in Nat :
           /\ n = Len(line) /\ n >= 2 /\ line # <<>>
           /\ line[1] # Blank /\ line[n - 1] # Blank /\ line[n] = Newline
           /\ \A k \in 0..n - 2 :
                /\ line[k + 1] \notin {Nul, Newline} /\ line[n - 1 - k] \notin {Nul, Newline}
                /\ line[k + 1] \in Char /\ Flipped(line, k) \in Char
                /\ Flipped(line, k) = Blank <=> line[n - 1 - k] = Blank
                /\ Flipped(line, k) # Nul
  BY <1>0, LineFacts
<1>2. PICK w \in 0..n - 2 :
        /\ w = ws[c] /\ WordAt(line, w) /\ se[c] = n - 1
        /\ \A k \in 0..w - 1 : mem[k] = Reversed(line)[k + 1]
        /\ \A k \in w..n - 2 : mem[k] = Flipped(line, k)
  BY <1>1 DEF HalfDone
<1>3. Find(mem, w, Nul) = n
  <2>1. n \in w..BufferSize /\ mem[n] = Nul
    BY <1>0, <1>1, <1>2
  <2>2. ASSUME NEW k \in w..n - 1 PROVE mem[k] # Nul
    <3>1. (k \in w..n - 2 /\ k \in 0..n - 2) \/ k = n - 1
      OBVIOUS
    <3>2. Newline # Nul
      BY DEF Newline, Nul
    <3> QED  BY <1>1, <1>2, <3>1, <3>2
  <2>3. w \in Nat /\ BufferSize \in Nat
    BY <1>0
  <2> QED  BY <2>1, <2>2, <2>3, FoundAt
<1>4. ~Unterminated(mem, w)
  BY <1>0, <1>1, <1>3 DEF Unterminated
<1>5. PICK we : we = Find(mem, w, Blank)
  OBVIOUS
<1>6. \/ we = BufferSize + 1 /\ \A j \in w..BufferSize : mem[j] # Blank
      \/ we \in w..BufferSize /\ mem[we] = Blank /\ \A j \in w..we - 1 : mem[j] # Blank
  BY <1>0, <1>2, <1>5, FindIs
<1>7. HasBlank(mem, w) <=> we < n
  BY <1>3, <1>5 DEF HasBlank
<1>8. CASE HasBlank(mem, w)
  <2>1. we \in w..n - 1 /\ mem[we] = Blank /\ \A j \in w..we - 1 : mem[j] # Blank
    BY <1>0, <1>1, <1>6, <1>7, <1>8
  <2>2. we # n - 1
    BY <1>1, <2>1 DEF Newline, Blank
  <2>3. we \in w..n - 2 /\ line[n - 1 - we] = Blank
    BY <1>1, <1>2, <2>1, <2>2
  <2>4. we # n - 2
    <3>1. n - 1 - (n - 2) = 1
      OBVIOUS
    <3> QED  BY <1>1, <2>3, <3>1
  <2>5. we + 1 \in 0..n - 2 /\ WordAt(line, we + 1)
    <3>1. n - (we + 1) = n - 1 - we
      BY <2>3
    <3> QED  BY <1>1, <2>3, <2>4, <3>1 DEF WordAt
  <2>6. Reversed(line)[we + 1] = Blank /\ Flipped(line, we) = Blank
    <3>1. we \in 0..n - 2
      BY <2>3
    <3> QED  BY <1>0, <1>1, <2>3, <3>1, BlankStays
  <2>7. ~RunsAway(w, we - 1)
    BY <2>3 DEF RunsAway
  <2>8. /\ fault' = fault /\ mem' = Mirrored(mem, w, we - 1) /\ pc' = pc /\ se' = se
        /\ ws' = [ws EXCEPT ![c] = we + 1]
    BY <1>2, <1>4, <1>5, <1>8, <2>7 DEF ReverseWord, WordEnd
  <2>9. /\ \A k \in Cells : k \notin 0..n - 2 => mem'[k] = mem[k]
        /\ \A k \in 0..we - 1 : mem'[k] = Reversed(line)[k + 1]
        /\ \A k \in we..n - 2 : mem'[k] = Flipped(line, k)
    <3>1. CASE we = w
      <4>1. w # 0
        <5>1. n - 1 - 0 = n - 1
          OBVIOUS
        <5> QED  BY <1>1, <2>3, <3>1, <5>1
      <4>2. line[n - w] = Blank
        BY <1>1, <1>2, <4>1 DEF WordAt
      <4>3. mem[w - 1] = Blank
        <5>1. w - 1 \in 0..n - 2 /\ n - 1 - (w - 1) = n - w /\ w - 1 \in 0..w - 1 /\ w - 1 + 1 = w
          BY <4>1
        <5>2. Reversed(line)[w - 1 + 1] = Blank
          BY <1>0, <1>1, <4>2, <5>1, BlankStays
        <5> QED  BY <1>2, <5>1, <5>2
      <4>4. w \in 1..BufferSize /\ mem[w - 1] = mem[w] /\ mem' = Mirrored(mem, w, w - 1)
        BY <1>0, <1>1, <2>1, <2>8, <3>1, <4>1, <4>3
      <4>5. \A k \in Cells : mem'[k] = mem[k]
        BY <1>0, <4>4, BlanksSwapped
      <4>6. 0..n - 2 \subseteq Cells
        BY <1>0, <1>1 DEF Cells
      <4> QED  BY <1>2, <3>1, <4>5, <4>6
    <3>2. CASE we # w
      <4>1. we - 1 \in w..n - 2 /\ we - 1 + 1 = we /\ n - 2 - (we - 1) = n - 1 - we
        BY <2>3, <3>2
      <4>2. \A k \in w..we - 1 : line[n - 1 - k] # Blank
        <5>1. \A k \in w..we - 1 : k \in w..n - 2 /\ k \in 0..n - 2
          BY <2>3
        <5> QED  BY <1>1, <1>2, <2>1, <5>1
      <4>3. PICK e \in w..n - 2 : e = we - 1
        BY <4>1
      <4>4. /\ e + 1 = we /\ mem' = Mirrored(mem, w, e) /\ line[n - 2 - e] = Blank
            /\ \A k \in w..e : line[n - 1 - k] # Blank
        BY <2>3, <2>8, <4>1, <4>2, <4>3
      <4>5. /\ \A k \in Cells : k \notin 0..n - 2 => mem'[k] = mem[k]
            /\ \A k \in 0..e : mem'[k] = Reversed(line)[k + 1]
            /\ \A k \in e + 1..n - 2 : mem'[k] = Flipped(line, k)
        <5>1. BufferSize \in Nat /\ n <= BufferSize /\ line \in Seq(Char)
          BY <1>0, <1>1
        <5>2. WordStands(line, n, mem, w, e)
          BY <1>1, <1>2, <4>4, <5>1, Zenon DEF WordStands
        <5>3. WordDone(line, n, mem, Mirrored(mem, w, e), e)
          BY <5>1, <5>2, PartTurned
        <5>4. WordDone(line, n, mem, mem', e)
          BY <4>4, <5>3, Zenon
        <5> QED  BY <5>4, Zenon DEF WordDone
      <4> QED  BY <1>1, <4>3, <4>4, <4>5
    <3> QED  BY <3>1, <3>2
  <2>10. mem'[we] = Blank
    BY <2>3, <2>6, <2>9
  <2>11. \A k \in 0..(we + 1) - 1 : mem'[k] = Reversed(line)[k + 1]
    <3>1. \A k \in 0..(we + 1) - 1 : k \in 0..we - 1 \/ k = we
      BY <2>3
    <3> QED  BY <2>6, <2>9, <2>10, <3>1
  <2>12. \A k \in we + 1..n - 2 : mem'[k] = Flipped(line, k)
    <3>1. \A k \in we + 1..n - 2 : k \in we..n - 2
      BY <2>3
    <3> QED  BY <2>9, <3>1
  <2> QED  BY <1>1, <2>5, <2>8, <2>9, <2>11, <2>12
<1>9. CASE ~HasBlank(mem, w)
  <2>0. n - 2 \in w..n - 2 /\ n - 1 - 1 = n - 2
    OBVIOUS
  <2>1. PICK e \in w..n - 2 : e = n - 1 - 1 /\ e = n - 2
    BY <2>0
  <2>2. \A k \in w..e : line[n - 1 - k] # Blank
    <3>1. ~(we < n)
      BY <1>7, <1>9
    <3>2. \A k \in w..n - 2 : mem[k] # Blank
      BY <1>0, <1>1, <1>6, <3>1
    <3>3. ASSUME NEW k \in w..n - 2 PROVE line[n - 1 - k] # Blank
      <4>1. k \in 0..n - 2
        OBVIOUS
      <4>2. Flipped(line, k) # Blank
        BY <1>2, <3>2
      <4> QED  BY <1>1, <4>1, <4>2
    <3> QED  BY <2>1, <3>3
  <2>3. ~RunsAway(w, e)
    BY DEF RunsAway
  <2>4. /\ fault' = fault /\ mem' = Mirrored(mem, w, e)
        /\ pc' = [pc EXCEPT ![c] = "outside"]
    BY <1>2, <1>4, <1>9, <2>1, <2>3 DEF ReverseWord, WordEnd
  <2>5. /\ \A k \in Cells : k \notin 0..n - 2 => mem'[k] = mem[k]
        /\ \A k \in 0..e : mem'[k] = Reversed(line)[k + 1]
    <3>1. BufferSize \in Nat /\ n <= BufferSize /\ line \in Seq(Char)
      BY <1>0, <1>1
    <3>2. WordStands(line, n, mem, w, e)
      BY <1>1, <1>2, <2>1, <2>2, <3>1, Zenon DEF WordStands
    <3>3. WordDone(line, n, mem, Mirrored(mem, w, e), e)
      BY <3>1, <3>2, PartTurned
    <3>4. WordDone(line, n, mem, mem', e)
      BY <2>4, <3>3, Zenon
    <3> QED  BY <3>4, Zenon DEF WordDone
  <2> QED  BY <1>1, <2>1, <2>4, <2>5
<1> QED  BY <1>8, <1>9

-----------------------------------------------------------------------------
(* The steps keep the text                                                   *)

\* Loading and unloading take place while nobody is inside, or leave the text alone.
LEMMA LoadKeepsText ==
  ASSUME TextInv, Load
  PROVE  TextRest'
<1>1. /\ UNCHANGED <<mem, readPos, callVars, fault, histVars>>
      /\ phase' # "absent"
  BY DEF Load, MakePart, Leave, DropPart, Left, bufferVars
<1> USE <1>1 DEF TextInv
<1>2. OneInside' = OneInside /\ OutInLine' = OutInLine /\ ReadsBuffer' = ReadsBuffer
  BY DEF OneInside, OutInLine, ReadsBuffer, callVars, histVars
<1>3. Good' = Good /\ TextRight' = TextRight /\ overlap' = overlap
  BY DEF Good, TextRight, HalfDone, callVars, histVars
<1>4. CASE MakePart
  <2>1. Untouched
    BY <1>4 DEF MakePart, TextRest
  <2>2. phase' = "loading" => Untouched'
    <3>1. stack' = SubSeq(<<"buffer", "dir", "file">>, 1, Len(stack) + 1) /\ Len(stack) <= 2
      BY <1>4, <2>1 DEF MakePart, Untouched
    <3>2. PICK k \in Nat : k = Len(stack)
      BY LenProperties DEF TypeOK
    <3>3. k \in 0..2 /\ (phase' = "loading" => k # 2)
      BY <1>4, <3>1, <3>2 DEF MakePart
    <3>4. phase' = "loading" => ~FileExists' /\ Len(stack') <= 2
      BY <3>1, <3>2, <3>3, PartsMade DEF FileExists
    <3>5. msgLength' = msgLength
      BY <1>4 DEF MakePart, bufferVars
    <3> QED  BY <2>1, <3>4, <3>5 DEF Untouched, callVars, histVars
  <2>3. ReadSoFar'
    <3>1. msgLength' = msgLength /\ Len(line) = 0 /\ Len(out) = 0
      BY <1>4, <2>1 DEF MakePart, bufferVars, Untouched
    <3> QED  BY <2>1, <3>1 DEF ReadSoFar, Untouched, callVars, histVars, LocalsForgotten
  <2> QED  BY <1>2, <1>3, <1>4, <2>2, <2>3 DEF TextRest, MakePart
<1>5. CASE ~MakePart
  <2>1. phase' \notin {"absent", "loading"}
    BY <1>5 DEF Load, Leave, DropPart, Left
  <2>2. FileExists' => FileExists /\ msgLength' = msgLength
    <3>1. CASE DropPart
      BY <3>1, PartsDropped DEF DropPart, TypeOK, FileExists
    <3>2. CASE ~DropPart
      BY <1>5, <3>2 DEF Load, Leave, Left, bufferVars, FileExists
    <3> QED  BY <3>1, <3>2
  <2>3. FileExists' => ReadSoFar' = ReadSoFar
    BY <2>2 DEF ReadSoFar, callVars, histVars
  <2> QED  BY <1>2, <1>3, <2>1, <2>2, <2>3 DEF TextRest
<1> QED  BY <1>4, <1>5

\* A caller goes on, the others stay where they are.
LEMMA CallerMoves ==
  ASSUME TypeOK, NEW c \in Callers, NEW there, pc' = [pc EXCEPT ![c] = there]
  PROVE  pc'[c] = there /\ \A d \in Callers : d # c => pc'[d] = pc[d]
BY DEF TypeOK

\* The call that writes: the line stands in the buffer, before a NUL if there was one.
LEMMA WriteKeepsText ==
  ASSUME TextInv, fault = "none", NEW c \in Callers, NEW text \in Lines, WriteBegin(c, text),
         TypeOK'
  PROVE  TextRest'
<1> USE DEF TextInv
<1>0. BufferSize \in Nat \ {0}
  BY ProcReverseAssumption
<1>1. PICK n \in Nat : n = Fitting(text)
  BY FittingType
<1>2. PICK copied \in {0, n} :
        /\ FileExists /\ Goto(c, "outside", "flip")
        /\ mem' = [k \in Cells |-> IF k \notin 0..n - 1 THEN mem[k]
                                   ELSE IF k < copied THEN text[k + 1] ELSE Nul]
        /\ msgLength' = copied /\ readPos' = 0
        /\ line' = SubSeq(text, 1, copied) /\ out' = <<>>
        /\ stale' = (Find(mem, n, Nul) # n)
        /\ overlap' = ~Alone(c)
        /\ UNCHANGED <<loadVars, ws, se, take, fault>>
  BY <1>1 DEF WriteBegin
<1>3. /\ text \in Seq(Char) /\ n \in 0..BufferSize /\ copied \in 0..BufferSize
      /\ copied \in 0..Len(text) /\ Len(text) \in Nat
  BY <1>0, <1>1, <1>2, FittingType
<1>4. Len(line') = copied /\ \A i \in 1..copied : line'[i] = text[i]
  BY <1>2, <1>3, Prefix
<1>5. pc'[c] = "flip" /\ pc[c] = "outside" /\ \A d \in Callers : d # c => pc'[d] = pc[d]
  BY <1>2, CallerMoves DEF Goto
<1>6. ~overlap' => \A d \in Callers : d # c => pc'[d] = "outside"
  BY <1>2, <1>5 DEF Alone
<1>7. Len(out') = 0 /\ take'[c] = 0
  BY <1>2, <1>5 DEF LocalsForgotten
<1>8. ~overlap' => OneInside' /\ OutInLine' /\ ReadsBuffer'
  <2>1. ~overlap' => OneInside'
    BY <1>6 DEF OneInside
  <2>2. OutInLine'
    BY <1>2, <1>4, <1>7 DEF OutInLine
  <2>3. ReadsBuffer'
    BY <1>7 DEF ReadsBuffer
  <2> QED  BY <2>1, <2>2, <2>3
<1>9. ~overlap' => ReadSoFar'
  BY <1>2, <1>4, <1>5, <1>6, <1>7 DEF ReadSoFar
<1>10. phase' \notin {"absent", "loading"}
  BY <1>2 DEF TextRest, Untouched, loadVars
<1>11. ASSUME Good' PROVE TextRight'
  <2>1. copied > 1 /\ line'[copied] = Newline
    <3>1. Len(line') > 1 /\ \A k \in 1..Len(line') : line'[k] = Newline <=> k = Len(line')
      BY <1>11 DEF Good, WellFormed
    <3>2. copied > 1 /\ copied \in 1..copied
      BY <1>3, <1>4, <3>1
    <3> QED  BY <1>4, <3>1, <3>2
  <2>2. copied = n
    BY <1>2, <2>1
  <2>3. mem[n] = Nul
    <3>1. Find(mem, n, Nul) = n
      BY <1>2, <1>11 DEF Good
    <3>2. ~Unterminated(mem, n)
      BY <1>0, <1>3, <3>1 DEF Unterminated
    <3> QED  BY <1>0, <3>1, <3>2, StringEnds
  <2>4. mem'[n] = Nul
    BY <1>2, <1>3, <2>3 DEF Cells
  <2>5. \A k \in 0..n - 1 : mem'[k] = text[k + 1] /\ text[k + 1] = line'[k + 1]
    <3>1. \A k \in 0..n - 1 : k \in Cells /\ k < copied /\ k + 1 \in 1..copied
      BY <1>0, <1>3, <2>2 DEF Cells
    <3> QED  BY <1>2, <1>4, <3>1
  <2>6. mem'[n - 1] = Newline
    BY <2>1, <2>2, <2>5
  <2>7. ~overlap'
    BY <1>11 DEF Good
  <2>8. /\ Len(line') = n /\ n <= BufferSize
        /\ \A k \in 0..n - 2 : mem'[k] = line'[k + 1]
    BY <1>0, <1>3, <1>4, <2>2, <2>5
  <2>9. \A d \in Callers : pc'[d] # "word"
    BY <1>5, <1>6, <2>7
  <2>10. ~(\A d \in Callers : pc'[d] \notin {"flip", "word"})
    BY <1>5
  <2>11. fault' = "none"
    BY <1>2
  <2> QED  BY <2>4, <2>6, <2>8, <2>9, <2>10, <2>11 DEF TextRight
<1> QED  BY <1>8, <1>9, <1>10, <1>11 DEF TextRest

\* Mirroring the line: nobody else is inside, and nothing was read of it.
LEMMA StringKeepsText ==
  ASSUME TextInv, fault = "none", NEW c \in Callers, ReverseString(c), TypeOK'
  PROVE  TextRest'
<1> USE DEF TextInv
<1>1. pc[c] = "flip" /\ UNCHANGED <<msgLength, readPos, loadVars, ws, take, histVars>>
  BY DEF ReverseString
<1>2. CASE fault' # fault
  <2>1. fault' = "string" /\ UNCHANGED <<mem, pc, se>>
    BY <1>2 DEF ReverseString
  <2>2. ~Good
    <3>1. ASSUME Good PROVE FALSE
      <4>1. TextRight /\ WellFormed(line)
        BY <3>1 DEF TextRest, Good
      <4>2. /\ Len(line) <= BufferSize /\ mem[Len(line)] = Nul /\ mem[Len(line) - 1] = Newline
            /\ \A k \in 0..Len(line) - 2 : mem[k] = line[k + 1]
        BY <1>1, <4>1 DEF TextRight
      <4> QED  BY <1>2, <4>1, <4>2, LineFlipped
    <3> QED  BY <3>1
  <2>3. OneInside' = OneInside /\ OutInLine' = OutInLine /\ ReadsBuffer' = ReadsBuffer /\ Good' = Good
    BY <1>1, <2>1 DEF OneInside, OutInLine, ReadsBuffer, Good, histVars
  <2>4. ReadSoFar' = ReadSoFar /\ FileExists' = FileExists /\ overlap' = overlap
    BY <1>1, <2>1 DEF ReadSoFar, FileExists, histVars, loadVars
  <2>5. phase \in {"absent", "loading"} => pc[c] = "outside"
    BY DEF TextRest, Untouched
  <2> QED  BY <1>1, <2>2, <2>3, <2>4, <2>5 DEF TextRest, loadVars
<1>3. CASE fault' = fault
  <2>1. pc'[c] \in {"word", "outside"} /\ \A d \in Callers : d # c => pc'[d] = pc[d]
    <3>1. PICK there \in {"word", "outside"} : pc' = [pc EXCEPT ![c] = there]
      BY <1>3, StringReversed
    <3> QED  BY <3>1, CallerMoves
  <2>2. phase' \notin {"absent", "loading"}
    BY <1>1 DEF TextRest, Untouched, loadVars
  <2>3. ASSUME ~overlap
        PROVE  OneInside' /\ OutInLine' /\ ReadsBuffer' /\ \A d \in Callers : d # c => pc'[d] = "outside"
    <3>1. OneInside /\ OutInLine
      BY <2>3 DEF TextRest
    <3>2. \A d \in Callers : d # c => pc[d] = "outside"
      BY <1>1, <3>1 DEF OneInside
    <3>3. \A d \in Callers : d # c => pc'[d] = "outside"
      BY <2>1, <3>2
    <3>4. out = <<>> /\ Len(out) <= Len(line)
      BY <1>1, <3>1 DEF OutInLine
    <3>5. OneInside' /\ OutInLine'
      BY <1>1, <2>1, <3>3, <3>4 DEF OneInside, OutInLine, histVars
    <3>6. ReadsBuffer'
      BY <1>1, <3>4 DEF ReadsBuffer, histVars
    <3> QED  BY <3>3, <3>5, <3>6
  <2>4. ASSUME ~overlap, FileExists PROVE ReadSoFar'
    <3>1. ReadSoFar
      BY <2>4 DEF TextRest
    <3>2. take[c] = 0 /\ Len(out) = readPos + take[c] /\ readPos = 0
      BY <1>1, <3>1 DEF ReadSoFar, LocalsForgotten
    <3>3. \A d \in Callers : pc'[d] # "outside" => d = c
      BY <2>3, <2>4
    <3> QED  BY <1>1, <3>1, <3>2, <3>3 DEF ReadSoFar, histVars
  <2>5. ASSUME Good PROVE TextRight'
    <3>1. TextRight /\ WellFormed(line) /\ ~overlap
      BY <2>5 DEF TextRest, Good
    <3>2. /\ Len(line) <= BufferSize /\ mem[Len(line)] = Nul /\ mem[Len(line) - 1] = Newline
          /\ \A k \in 0..Len(line) - 2 : mem[k] = line[k + 1]
      BY <1>1, <3>1 DEF TextRight
    <3>3. /\ \A k \in Cells : k \notin 0..Len(line) - 2 => mem'[k] = mem[k]
          /\ \A k \in 0..Len(line) - 2 : mem'[k] = Flipped(line, k)
          /\ \/ /\ SeveralWords(line)
                /\ pc' = [pc EXCEPT ![c] = "word"] /\ se' = [se EXCEPT ![c] = Len(line) - 1]
             \/ ~SeveralWords(line) /\ pc' = [pc EXCEPT ![c] = "outside"]
      BY <3>1, <3>2, LineFlipped
    <3>4. PICK n \in Nat : n = Len(line) /\ n > 1
      BY <3>1, LenProperties DEF WellFormed, TypeOK
    <3>5. mem'[n] = Nul /\ mem'[n - 1] = Newline
      <4>1. n \in Cells /\ n - 1 \in Cells /\ n \notin 0..n - 2 /\ n - 1 \notin 0..n - 2
        BY <3>2, <3>4, ProcReverseAssumption DEF Cells
      <4> QED  BY <3>2, <3>3, <3>4, <4>1
    <3>6. pc'[c] # "flip" /\ \A d \in Callers : d # c => pc'[d] = "outside"
      BY <2>1, <2>3, <3>1
    <3>7. pc'[c] = "word" => HalfDone(c)'
      <4>1. ASSUME pc'[c] = "word" PROVE SeveralWords(line) /\ se' = [se EXCEPT ![c] = Len(line) - 1]
        <5>1. pc' = [pc EXCEPT ![c] = "outside"] => pc'[c] = "outside"
          BY DEF TypeOK
        <5> QED  BY <3>3, <4>1, <5>1
      <4>2. ws[c] = 0
        BY <1>1 DEF LocalsForgotten
      <4>3. ASSUME pc'[c] = "word" PROVE se'[c] = n - 1
        BY <3>4, <4>1, <4>3 DEF TypeOK
      <4>4. /\ 0 \in 0..n - 2 /\ WordAt(line, 0)
            /\ \A k \in 0..0 - 1 : mem'[k] = Reversed(line)[k + 1]
        BY <3>4 DEF WordAt
      <4> QED  BY <1>1, <3>3, <3>4, <4>1, <4>2, <4>3, <4>4 DEF HalfDone, histVars
    <3>8. SeveralWords(line) => pc'[c] = "word"
      BY <3>3, CallerMoves
    <3>9. /\ \A d \in Callers : pc'[d] # "flip"
          /\ \A d \in Callers : pc'[d] = "word" => HalfDone(d)'
      <4>1. ASSUME NEW d \in Callers, pc'[d] = "word" PROVE d = c
        BY <3>6, <4>1
      <4> QED  BY <3>6, <3>7, <4>1
    <3>10. line' = line /\ fault' = "none"
      BY <1>1, <1>3 DEF histVars
    <3> QED  BY <3>2, <3>4, <3>5, <3>8, <3>9, <3>10 DEF TextRight
  <2>6. Good' = Good /\ FileExists' = FileExists /\ overlap' = overlap
    BY <1>1 DEF Good, FileExists, histVars, loadVars
  <2> QED  BY <2>2, <2>3, <2>4, <2>5, <2>6 DEF TextRest
<1> QED  BY <1>2, <1>3

\* A turn of the loop: one more word stands right, or all do.
LEMMA WordKeepsText ==
  ASSUME TextInv, fault = "none", NEW c \in Callers, ReverseWord(c), TypeOK'
  PROVE  TextRest'
<1> USE DEF TextInv
<1>1. pc[c] = "word" /\ UNCHANGED <<msgLength, readPos, loadVars, take, histVars>>
  BY DEF ReverseWord
<1>2. CASE fault' # fault
  <2>1. fault' = "string" /\ UNCHANGED <<mem, pc, ws, se>>
    BY <1>2 DEF ReverseWord
  <2>2. ~Good
    <3>1. ASSUME Good PROVE FALSE
      <4>1. TextRight /\ WellFormed(line)
        BY <3>1 DEF TextRest, Good
      <4>2. /\ Len(line) <= BufferSize /\ mem[Len(line)] = Nul /\ mem[Len(line) - 1] = Newline
            /\ HalfDone(c)
        BY <1>1, <4>1 DEF TextRight
      <4> QED  BY <1>2, <4>1, <4>2, WordTurned
    <3> QED  BY <3>1
  <2>3. OneInside' = OneInside /\ OutInLine' = OutInLine /\ ReadsBuffer' = ReadsBuffer /\ Good' = Good
    BY <1>1, <2>1 DEF OneInside, OutInLine, ReadsBuffer, Good, histVars
  <2>4. ReadSoFar' = ReadSoFar /\ FileExists' = FileExists /\ overlap' = overlap
    BY <1>1, <2>1 DEF ReadSoFar, FileExists, histVars, loadVars
  <2>5. phase \in {"absent", "loading"} => pc[c] = "outside"
    BY DEF TextRest, Untouched
  <2> QED  BY <1>1, <2>2, <2>3, <2>4, <2>5 DEF TextRest, loadVars
<1>3. CASE fault' = fault
  <2>1. pc'[c] \in {"word", "outside"} /\ \A d \in Callers : d # c => pc'[d] = pc[d]
    <3>1. pc' = pc \/ pc' = [pc EXCEPT ![c] = "outside"]
      BY <1>3, WordReversed
    <3> QED  BY <1>1, <3>1, CallerMoves
  <2>2. phase' \notin {"absent", "loading"}
    BY <1>1 DEF TextRest, Untouched, loadVars
  <2>3. ASSUME ~overlap
        PROVE  OneInside' /\ OutInLine' /\ ReadsBuffer' /\ \A d \in Callers : d # c => pc'[d] = "outside"
    <3>1. OneInside /\ OutInLine
      BY <2>3 DEF TextRest
    <3>2. \A d \in Callers : d # c => pc[d] = "outside"
      BY <1>1, <3>1 DEF OneInside
    <3>3. \A d \in Callers : d # c => pc'[d] = "outside"
      BY <2>1, <3>2
    <3>4. out = <<>> /\ Len(out) <= Len(line)
      BY <1>1, <3>1 DEF OutInLine
    <3>5. OneInside' /\ OutInLine'
      BY <1>1, <2>1, <3>3, <3>4 DEF OneInside, OutInLine, histVars
    <3>6. ReadsBuffer'
      BY <1>1, <3>4 DEF ReadsBuffer, histVars
    <3> QED  BY <3>3, <3>5, <3>6
  <2>4. ASSUME ~overlap, FileExists PROVE ReadSoFar'
    <3>1. ReadSoFar
      BY <2>4 DEF TextRest
    <3>2. take[c] = 0 /\ Len(out) = readPos + take[c] /\ readPos = 0
      BY <1>1, <3>1 DEF ReadSoFar, LocalsForgotten
    <3>3. \A d \in Callers : pc'[d] # "outside" => d = c
      BY <2>3, <2>4
    <3> QED  BY <1>1, <3>1, <3>2, <3>3 DEF ReadSoFar, histVars
  <2>5. ASSUME Good PROVE TextRight'
    <3>1. TextRight /\ WellFormed(line) /\ ~overlap
      BY <2>5 DEF TextRest, Good
    <3>2. /\ Len(line) <= BufferSize /\ mem[Len(line)] = Nul /\ mem[Len(line) - 1] = Newline
          /\ HalfDone(c)
      BY <1>1, <3>1 DEF TextRight
    <3>3. /\ \A k \in Cells : k \notin 0..Len(line) - 2 => mem'[k] = mem[k]
          /\ \/ /\ pc' = pc /\ se' = se
                /\ \E w \in 0..Len(line) - 2 :
                     /\ ws' = [ws EXCEPT ![c] = w] /\ WordAt(line, w)
                     /\ \A k \in 0..w - 1 : mem'[k] = Reversed(line)[k + 1]
                     /\ \A k \in w..Len(line) - 2 : mem'[k] = Flipped(line, k)
             \/ /\ pc' = [pc EXCEPT ![c] = "outside"]
                /\ \A k \in 0..Len(line) - 2 : mem'[k] = Reversed(line)[k + 1]
      BY <3>1, <3>2, WordTurned
    <3>4. PICK n \in Nat : n = Len(line) /\ n > 1
      BY <3>1, LenProperties DEF WellFormed, TypeOK
    <3>5. mem'[n] = Nul /\ mem'[n - 1] = Newline
      <4>1. n \in Cells /\ n - 1 \in Cells /\ n \notin 0..n - 2 /\ n - 1 \notin 0..n - 2
        BY <3>2, <3>4, ProcReverseAssumption DEF Cells
      <4> QED  BY <3>2, <3>3, <3>4, <4>1
    <3>6. pc'[c] # "flip" /\ \A d \in Callers : d # c => pc'[d] = "outside"
      BY <2>1, <2>3, <3>1
    <3>7. pc' = [pc EXCEPT ![c] = "outside"] => pc'[c] = "outside"
      BY DEF TypeOK
    <3>8. pc'[c] = "word" => HalfDone(c)'
      <4>1. SUFFICES ASSUME pc'[c] = "word" PROVE HalfDone(c)'
        OBVIOUS
      <4>2. PICK w \in 0..n - 2 :
              /\ se' = se /\ ws' = [ws EXCEPT ![c] = w] /\ WordAt(line, w)
              /\ \A k \in 0..w - 1 : mem'[k] = Reversed(line)[k + 1]
              /\ \A k \in w..n - 2 : mem'[k] = Flipped(line, k)
        BY <3>3, <3>4, <3>7, <4>1
      <4>3. ws'[c] = w
        BY <4>2 DEF TypeOK
      <4>4. SeveralWords(line) /\ se[c] = n - 1
        BY <3>2, <3>4 DEF HalfDone
      <4>5. line' = line
        BY <1>1 DEF histVars
      <4> QED  BY <3>4, <4>2, <4>3, <4>4, <4>5 DEF HalfDone
    <3>9. /\ \A d \in Callers : pc'[d] # "flip"
          /\ \A d \in Callers : pc'[d] = "word" => HalfDone(d)'
      <4>1. ASSUME NEW d \in Callers, pc'[d] = "word" PROVE d = c
        BY <3>6, <4>1
      <4> QED  BY <3>6, <3>8, <4>1
    <3>10. pc'[c] # "word" => \A k \in 0..n - 1 : mem'[k] = Reversed(line)[k + 1]
      <4>1. SUFFICES ASSUME pc'[c] # "word" PROVE \A k \in 0..n - 1 : mem'[k] = Reversed(line)[k + 1]
        OBVIOUS
      <4>2. \A k \in 0..n - 2 : mem'[k] = Reversed(line)[k + 1]
        BY <1>1, <3>3, <3>4, <4>1
      <4>3. Reversed(line)[n] = Newline
        <5>1. line \in Seq(Char) /\ line # <<>>
          BY <3>4 DEF TypeOK
        <5> QED  BY <3>4, <5>1, NewlineStays
      <4>4. n - 1 + 1 = n /\ \A k \in 0..n - 1 : k \in 0..n - 2 \/ k = n - 1
        BY <3>4
      <4> QED  BY <3>5, <4>2, <4>3, <4>4
    <3>11. line' = line /\ fault' = "none"
      BY <1>1, <1>3 DEF histVars
    <3> QED  BY <3>2, <3>4, <3>5, <3>9, <3>10, <3>11 DEF TextRight
  <2>6. Good' = Good /\ FileExists' = FileExists /\ overlap' = overlap
    BY <1>1 DEF Good, FileExists, histVars, loadVars
  <2> QED  BY <2>2, <2>3, <2>4, <2>5, <2>6 DEF TextRest
<1> QED  BY <1>2, <1>3

\* A read goes on where the last one ended, and takes what is in the buffer.
LEMMA ReadKeepsText ==
  ASSUME TextInv, fault = "none", NEW c \in Callers, ReadBegin(c), TypeOK'
  PROVE  TextRest'
<1> USE DEF TextInv
<1>1. PICK length \in Nat :
           /\ FileExists /\ pc[c] = "outside" /\ pc' = [pc EXCEPT ![c] = "advance"]
           /\ take' = [take EXCEPT ![c] = length]
           /\ overlap' = (overlap \/ ~Alone(c))
           /\ readPos <= msgLength => readPos + length <= msgLength
           /\ \/ length > 0 /\ readPos + length > BufferSize /\ fault' = "read" /\ out' = <<>>
              \/ /\ length = 0 \/ readPos + length <= BufferSize
                 /\ fault' = fault
                 /\ out' = IF overlap' THEN <<>>
                           ELSE out \o [k \in 1..length |-> mem[readPos + k - 1]]
           /\ UNCHANGED <<bufferVars, loadVars, ws, se, line, stale>>
  BY ReadBegun
<1>2. pc'[c] = "advance" /\ \A d \in Callers : d # c => pc'[d] = pc[d]
  BY <1>1, CallerMoves
<1>3. take'[c] = length
  BY <1>1 DEF TypeOK
<1>4. phase' \notin {"absent", "loading"} /\ (Good' => ~overlap')
  BY <1>1 DEF TextRest, Untouched, loadVars, Good
<1>5. ASSUME ~overlap'
      PROVE  OneInside' /\ OutInLine' /\ ReadsBuffer' /\ ReadSoFar' /\ (Good' => TextRight')
  <2>1. ~overlap /\ ReadSoFar /\ OneInside /\ OutInLine /\ ReadsBuffer
    BY <1>1, <1>5 DEF TextRest
  <2>2. \A d \in Callers : d # c => pc[d] = "outside" /\ pc'[d] = "outside"
    BY <1>1, <1>2, <1>5 DEF Alone
  <2>3. \A d \in Callers : pc[d] = "outside"
    BY <1>1, <2>2
  <2>4. PICK n \in Nat, p \in Nat :
          n = Len(line) /\ n = msgLength /\ p = Len(out) /\ p = readPos /\ p + length <= n
          /\ n <= BufferSize
    <3>1. Len(line) \in Nat /\ Len(out) \in Nat /\ msgLength \in 0..BufferSize
      BY LenProperties DEF TypeOK
    <3>2. Len(line) = msgLength /\ Len(out) <= msgLength /\ Len(out) = readPos
      BY <2>1, <2>3 DEF ReadSoFar
    <3> QED  BY <1>1, <3>1, <3>2, ProcReverseAssumption
  <2>5. p + length <= BufferSize
    BY <2>4, ProcReverseAssumption
  <2>6. PICK bytes : bytes = [k \in 1..length |-> mem[readPos + k - 1]]
    OBVIOUS
  <2>7. fault' = fault /\ out' = out \o bytes
    <3>1. readPos + length <= BufferSize /\ ~(readPos + length > BufferSize)
      BY <2>4, <2>5, ProcReverseAssumption
    <3> QED  BY <1>1, <1>5, <2>6, <3>1, Zenon
  <2>8. /\ Len(out') = p + length
        /\ \A k \in 1..p : out'[k] = out[k]
        /\ \A k \in p + 1..p + length : out'[k] = bytes[k - p]
        /\ \A k \in 1..length : bytes[k] = mem[p + k - 1]
    <3>1. readPos + length <= BufferSize
      BY <2>4, <2>5
    <3>2. /\ Len(out \o bytes) = Len(out) + length
          /\ \A k \in 1..Len(out) : (out \o bytes)[k] = out[k]
          /\ \A k \in Len(out) + 1..Len(out) + length : (out \o bytes)[k] = bytes[k - Len(out)]
          /\ \A k \in 1..length : bytes[k] = mem[readPos + k - 1]
      BY <2>6, <3>1, BytesRead
    <3> QED  BY <2>4, <2>7, <3>2
  <2>9. UNCHANGED <<mem, msgLength, readPos, line, stale>>
    BY <1>1 DEF bufferVars
  <2>10. ReadsBuffer'
    <3>1. \A k \in 1..p : out'[k] = mem'[k - 1]
      BY <2>1, <2>4, <2>8, <2>9 DEF ReadsBuffer
    <3>2. ASSUME NEW k \in p + 1..p + length PROVE out'[k] = mem'[k - 1]
      <4>1. k - p \in 1..length /\ p + (k - p) - 1 = k - 1
        OBVIOUS
      <4> QED  BY <2>8, <2>9, <4>1
    <3>3. \A k \in 1..p + length : k \in 1..p \/ k \in p + 1..p + length
      OBVIOUS
    <3> QED  BY <2>8, <3>1, <3>2, <3>3 DEF ReadsBuffer
  <2>11. OneInside' /\ OutInLine'
    <3>1. OneInside'
      BY <2>2 DEF OneInside
    <3>2. \A d \in Callers : pc'[d] \notin {"flip", "word"}
      BY <1>2, <2>2
    <3>3. Len(out') <= Len(line')
      BY <2>4, <2>8, <2>9
    <3> QED  BY <3>1, <3>2, <3>3 DEF OutInLine
  <2>12. ReadSoFar'
    <3>1. Len(out') = readPos' + take'[c] /\ msgLength' = Len(line') /\ Len(out') <= msgLength'
      BY <1>3, <2>4, <2>8, <2>9
    <3> QED  BY <1>2, <2>2, <3>1 DEF ReadSoFar
  <2>13. ASSUME Good' PROVE TextRight'
    <3>1. Good
      BY <2>1, <2>9, <2>13 DEF Good
    <3>2. TextRight
      BY <3>1 DEF TextRest
    <3>3. \A d \in Callers : pc'[d] \notin {"flip", "word"} /\ pc[d] \notin {"flip", "word"}
      BY <1>2, <2>2, <2>3
    <3> QED  BY <2>7, <2>9, <3>2, <3>3 DEF TextRight
  <2> QED  BY <2>10, <2>11, <2>12, <2>13
<1> QED  BY <1>4, <1>5 DEF TextRest

\* The end of a read: the position is where what was read ends.
LEMMA ReadEndKeepsText ==
  ASSUME TextInv, fault = "none", NEW c \in Callers, ReadEnd(c), TypeOK'
  PROVE  TextRest'
<1> USE DEF TextInv
<1>1. /\ pc[c] = "advance" /\ pc' = [pc EXCEPT ![c] = "outside"]
      /\ readPos' = readPos + take[c] /\ take' = [take EXCEPT ![c] = 0]
      /\ UNCHANGED <<mem, msgLength, loadVars, ws, se, fault, histVars>>
  BY DEF ReadEnd, Goto
<1>2. pc'[c] = "outside" /\ \A d \in Callers : d # c => pc'[d] = pc[d]
  BY <1>1, CallerMoves
<1>3. phase' \notin {"absent", "loading"}
  BY <1>1 DEF TextRest, Untouched, loadVars
<1>4. UNCHANGED <<line, out, stale, overlap>> /\ FileExists' = FileExists /\ Good' = Good
  BY <1>1 DEF histVars, loadVars, FileExists, Good
<1>5. ASSUME ~overlap
      PROVE  /\ OneInside' /\ OutInLine' /\ ReadsBuffer'
             /\ FileExists => ReadSoFar'
             /\ Good => TextRight'
  <2>1. OneInside /\ OutInLine /\ ReadsBuffer /\ (FileExists => ReadSoFar) /\ (Good => TextRight)
    BY <1>5 DEF TextRest
  <2>2. \A d \in Callers : d # c => pc[d] = "outside"
    BY <1>1, <2>1 DEF OneInside
  <2>3. \A d \in Callers : pc'[d] = "outside" /\ pc[d] \notin {"flip", "word"}
    BY <1>1, <1>2, <2>2
  <2>4. OneInside' /\ OutInLine' /\ ReadsBuffer'
    BY <1>1, <1>4, <2>1, <2>3 DEF OneInside, OutInLine, ReadsBuffer
  <2>5. FileExists => ReadSoFar'
    BY <1>1, <1>4, <2>1, <2>3 DEF ReadSoFar
  <2>6. Good => TextRight'
    BY <1>1, <1>4, <2>1, <2>3 DEF TextRight
  <2> QED  BY <2>4, <2>5, <2>6
<1>6. Good => ~overlap
  BY DEF Good
<1> QED  BY <1>3, <1>4, <1>5, <1>6 DEF TextRest

-----------------------------------------------------------------------------
(* The theorems                                                              *)

\* Every step keeps the invariant.
LEMMA TextKept ==
  ASSUME TextInv, [Next]_vars
  PROVE  TextInv'
<1>1. TypeOK' /\ LocalsForgotten'
  BY TypesKept DEF TextInv, TextRest
<1>2. CASE UNCHANGED vars
  <2>1. UNCHANGED <<mem, msgLength, readPos, phase, stack, pc, ws, se, take, fault, line, out, stale, overlap>>
    BY <1>2 DEF vars, bufferVars, loadVars, callVars, histVars
  <2>2. OneInside' = OneInside /\ OutInLine' = OutInLine /\ ReadsBuffer' = ReadsBuffer
    BY <2>1 DEF OneInside, OutInLine, ReadsBuffer
  <2>3. Good' = Good /\ TextRight' = TextRight /\ ReadSoFar' = ReadSoFar
    BY <2>1 DEF Good, TextRight, HalfDone, ReadSoFar
  <2>4. Untouched' = Untouched /\ FileExists' = FileExists
    BY <2>1 DEF Untouched, FileExists
  <2> QED  BY <1>1, <2>1, <2>2, <2>3, <2>4 DEF TextInv, TextRest
<1>3. CASE fault = "none" /\ Load
  BY <1>1, <1>3, LoadKeepsText DEF TextInv
<1>4. CASE \E c \in Callers : fault = "none" /\ Call(c)
  <2>1. PICK c \in Callers : fault = "none" /\ Call(c)
    BY <1>4
  <2>2. CASE \E text \in Lines : WriteBegin(c, text)
    BY <1>1, <2>1, <2>2, WriteKeepsText DEF TextInv
  <2>3. CASE ReverseString(c)
    BY <1>1, <2>1, <2>3, StringKeepsText DEF TextInv
  <2>4. CASE ReverseWord(c)
    BY <1>1, <2>1, <2>4, WordKeepsText DEF TextInv
  <2>5. CASE ReadBegin(c)
    BY <1>1, <2>1, <2>5, ReadKeepsText DEF TextInv
  <2>6. CASE ReadEnd(c)
    BY <1>1, <2>1, <2>6, ReadEndKeepsText DEF TextInv
  <2> QED  BY <2>1, <2>2, <2>3, <2>4, <2>5, <2>6 DEF Call, Write, Read
<1> QED  BY <1>2, <1>3, <1>4 DEF Next, Halted

\* The memory is as it was found, and there is no line.
LEMMA TextAtFirst ==
  ASSUME Init
  PROVE  TextInv
<1>1. TypeOK
  <2>1. mem \in [Cells -> Char] /\ msgLength \in 0..BufferSize /\ readPos \in Nat
    BY ProcReverseAssumption DEF Init
  <2>2. stack \in Seq({"buffer", "dir", "file"}) /\ line \in Seq(Char) /\ out \in Seq(Char)
    BY DEF Init
  <2>3. /\ pc \in [Callers -> States] /\ take \in [Callers -> Nat] /\ ws \in [Callers -> Nat]
        /\ se \in [Callers -> 0..BufferSize]
    <3>1. 0 \in 0..BufferSize
      BY ProcReverseAssumption
    <3> QED  BY <3>1 DEF Init, States
  <2> QED  BY <2>1, <2>2, <2>3 DEF Init, TypeOK
<1>2. LocalsForgotten
  BY DEF Init, LocalsForgotten
<1>3. Len(line) = 0 /\ Len(out) = 0 /\ Len(stack) = 0
  BY DEF Init
<1>4. Untouched /\ ~FileExists
  BY <1>3 DEF Init, Untouched, FileExists, Contains
<1>5. OneInside /\ OutInLine /\ ReadsBuffer
  BY <1>3 DEF Init, OneInside, OutInLine, ReadsBuffer
<1>6. ~Good
  BY <1>3 DEF Good, WellFormed
<1> QED  BY <1>1, <1>2, <1>4, <1>5, <1>6 DEF TextInv, TextRest

\* The types, what stands in the buffer and what was read of it, whoever calls.
THEOREM TextHolds == Spec => []TextInv
<1>1. Init => TextInv
  BY TextAtFirst
<1>2. TextInv /\ [Next]_vars => TextInv'
  BY TextKept
<1> QED  BY <1>1, <1>2, PTL DEF Spec

\* Any line has its words in reverse order in what is read of it, each byte once and in
\* pieces of any length, once it met a NUL, unless calls overlap.
THEOREM ReadsReversalHolds == Spec => []ReadsReversal
<1>1. TextInv => ReadsReversal
  <2> SUFFICES ASSUME TextInv, ~overlap, ~stale, WellFormed(line), SeveralWords(line)
               PROVE  IsPrefixOfReversed
    BY DEF ReadsReversal
  <2>1. TypeOK /\ OutInLine /\ ReadsBuffer /\ TextRight
    BY DEF TextInv, TextRest, Good
  <2>2. PICK n \in Nat, m \in Nat : n = Len(line) /\ m = Len(out) /\ m <= n
    BY <2>1, LenProperties DEF TypeOK, OutInLine
  <2> DEFINE R == Reversed(line)
             S == Char \cup {R[k] : k \in 1..n}
  <2>3. R \in Seq(S) /\ Len(R) = n
    BY <2>2 DEF Reversed
  <2>4. out \in Seq(S) /\ m \in 0..Len(R)
    BY <2>1, <2>2, <2>3 DEF TypeOK
  <2> HIDE DEF R
  <2>5. /\ SubSeq(R, 1, m) \in Seq(S) /\ Len(SubSeq(R, 1, m)) = m
        /\ \A k \in 1..m : SubSeq(R, 1, m)[k] = R[k]
    <3> HIDE DEF S
    <3> QED  BY <2>3, <2>4, Prefix
  <2>6. \A k \in 1..m : out[k] = R[k]
    <3>1. CASE \E c \in Callers : pc[c] \in {"flip", "word"}
      <4>1. Len(out) = 0
        BY <2>1, <3>1 DEF OutInLine
      <4> QED  BY <2>2, <4>1
    <3>2. CASE \A c \in Callers : pc[c] \notin {"flip", "word"}
      <4>1. \A k \in 0..n - 1 : mem[k] = R[k + 1]
        BY <2>1, <2>2, <3>2 DEF TextRight, R
      <4>2. \A k \in 1..m : out[k] = mem[k - 1]
        BY <2>1, <2>2 DEF ReadsBuffer
      <4>3. \A k \in 1..m : k - 1 \in 0..n - 1 /\ k - 1 + 1 = k
        BY <2>2
      <4> QED  BY <4>1, <4>2, <4>3
    <3> QED  BY <3>1, <3>2
  <2>7. out = SubSeq(R, 1, m)
    <3> HIDE DEF S
    <3>1. Len(out) = Len(SubSeq(R, 1, m)) /\ \A k \in 1..Len(out) : out[k] = SubSeq(R, 1, m)[k]
      BY <2>2, <2>5, <2>6
    <3> QED  BY <2>4, <2>5, <3>1, SeqEqual
  <2> QED  BY <2>2, <2>7 DEF R, IsPrefixOfReversed
<1> QED  BY <1>1, TextHolds, PTL

\* A line of any length that met a NUL, however long the buffer is, is dealt with inside of
\* the buffer.
THEOREM CleanLineStaysInsideHolds == Spec => CleanLineStaysInside
<1> DEFINE Stays == ~overlap' /\ ~stale' /\ WellFormed(line') =>
                      mem'[-1] = mem[-1] /\ mem'[BufferSize] = mem[BufferSize] /\ fault' = "none"
<1>1. TextInv /\ TextInv' /\ [Next]_vars => [Stays]_vars
  <2> SUFFICES ASSUME TextInv, TextInv', Next, ~overlap', ~stale', WellFormed(line')
               PROVE  mem'[-1] = mem[-1] /\ mem'[BufferSize] = mem[BufferSize] /\ fault' = "none"
    OBVIOUS
  <2>1. Good' /\ TextRight' /\ fault' = "none"
    BY DEF Good, TextInv, TextRest, TextRight
  <2>2. BufferSize \in Nat \ {0} /\ -1 \in Cells /\ BufferSize \in Cells
    BY ProcReverseAssumption DEF Cells
  <2>3. CASE mem' = mem
    BY <2>1, <2>3
  <2>4. ASSUME NEW c \in Callers, NEW text \in Lines, WriteBegin(c, text)
        PROVE  mem'[-1] = mem[-1] /\ mem'[BufferSize] = mem[BufferSize]
    <3>1. PICK n \in 0..BufferSize : n = Fitting(text)
      BY FittingType
    <3>2. \E copied : mem' = [k \in Cells |-> IF k \notin 0..n - 1 THEN mem[k]
                                             ELSE IF k < copied THEN text[k + 1] ELSE Nul]
      BY <2>4, <3>1 DEF WriteBegin
    <3> QED  BY <2>2, <3>2
  <2>5. ASSUME NEW c \in Callers, fault = "none", ReverseString(c) \/ ReverseWord(c)
        PROVE  mem'[-1] = mem[-1] /\ mem'[BufferSize] = mem[BufferSize]
    <3>1. UNCHANGED <<line, stale, overlap>> /\ pc[c] \in {"flip", "word"}
      BY <2>5 DEF ReverseString, ReverseWord, histVars
    <3>2. Good /\ TextRight /\ TypeOK /\ WellFormed(line)
      BY <2>1, <3>1 DEF Good, TextInv, TextRest
    <3>3. Len(line) <= BufferSize /\ mem[Len(line)] = Nul /\ mem[Len(line) - 1] = Newline
      BY <3>2 DEF TextRight
    <3>4. \A k \in Cells : k \notin 0..Len(line) - 2 => mem'[k] = mem[k]
      <4>1. CASE ReverseString(c)
        <5>1. \A k \in 0..Len(line) - 2 : mem[k] = line[k + 1]
          BY <3>2, <4>1 DEF TextRight, ReverseString
        <5> QED  BY <2>5, <3>2, <3>3, <4>1, <5>1, LineFlipped
      <4>2. CASE ReverseWord(c)
        <5>1. HalfDone(c)
          BY <3>2, <4>2 DEF TextRight, ReverseWord
        <5> QED  BY <2>5, <3>2, <3>3, <4>2, <5>1, WordTurned
      <4> QED  BY <2>5, <4>1, <4>2
    <3>5. PICK n \in Nat : n = Len(line)
      BY <3>2, LenProperties DEF TypeOK
    <3>6. -1 \notin 0..n - 2 /\ BufferSize \notin 0..n - 2
      BY <2>2, <3>3, <3>5
    <3> QED  BY <2>2, <3>4, <3>5, <3>6
  <2>6. ASSUME Load \/ Halted \/ \E c \in Callers : Read(c) PROVE mem' = mem
    BY <2>6 DEF Load, MakePart, Leave, DropPart, Left, Halted, Read, ReadBegin, ReadEnd,
                vars, bufferVars
  <2> QED  BY <2>1, <2>3, <2>4, <2>5, <2>6 DEF Next, Call, Write
<1>2. Spec => [][Next]_vars
  BY DEF Spec
<1>3. Spec => [][Stays]_vars
  BY <1>1, <1>2, TextHolds, PTL
<1> QED  BY <1>3 DEF CleanLineStaysInside

-----------------------------------------------------------------------------
(* The plain file                                                            *)

\* What ProcBuffer sees of the callers and of the faults.
PlainPc ==
  [c \in Callers |-> CASE pc[c] \in {"flip", "word"} -> "write"
                       [] pc[c] = "advance"         -> "read"
                       [] OTHER                     -> "outside"]
PlainFault == IF fault = "read" THEN "read" ELSE "none"

\* A caller's place there, by its place here.
LEMMA PlainPcIs ==
  ASSUME NEW c \in Callers
  PROVE  /\ PlainPc[c] \in {"outside", "write", "read"}
         /\ PlainPc[c] = "outside" <=> pc[c] \notin {"flip", "word", "advance"}
         /\ PlainPc[c] = "write" <=> pc[c] \in {"flip", "word"}
         /\ PlainPc[c] = "read" <=> pc[c] = "advance"
BY DEF PlainPc

\* A caller that goes on here goes on there.
LEMMA PlainPcMoves ==
  ASSUME TypeOK, NEW c \in Callers, NEW there \in States, pc' = [pc EXCEPT ![c] = there],
         NEW shown, shown = CASE there \in {"flip", "word"} -> "write"
                              [] there = "advance"         -> "read"
                              [] OTHER                     -> "outside"
  PROVE  PlainPc' = [PlainPc EXCEPT ![c] = shown]
<1>1. pc'[c] = there /\ \A d \in Callers : d # c => pc'[d] = pc[d]
  BY CallerMoves
<1>2. /\ PlainPc'[c] = shown
      /\ \A d \in Callers : d # c => PlainPc'[d] = PlainPc[d]
  BY <1>1 DEF PlainPc
<1>3. /\ PlainPc = [d \in Callers |-> PlainPc[d]] /\ PlainPc' = [d \in Callers |-> PlainPc'[d]]
  BY DEF PlainPc
<1> QED  BY <1>2, <1>3

\* The operators ProcBuffer brings along are those of this module.
LEMMA PlainOperators ==
  /\ Plain!FileExists <=> FileExists
  /\ \A s : Plain!Front(s) = Front(s)
  /\ \A ask : Plain!Available(ask) = Available(ask)
  /\ \A x, y : Plain!Smaller(x, y) = Smaller(x, y)
BY DEF Plain!FileExists, FileExists, Plain!Contains, Contains, Plain!Front, Front,
       Plain!Available, Available, Plain!Smaller, Smaller

\* Nobody else is inside, there as here.
LEMMA PlainAlone ==
  ASSUME TypeOK, NEW c \in Callers
  PROVE  /\ Alone(c) <=> \A d \in Callers \ {c} : PlainPc[d] = "outside"
         /\ (\A d \in Callers : pc[d] = "outside") <=> (\A d \in Callers : PlainPc[d] = "outside")
<1>1. \A d \in Callers : PlainPc[d] = "outside" <=> pc[d] = "outside"
  BY PlainPcIs DEF TypeOK, States
<1> QED  BY <1>1 DEF Alone

\* Every step of the reversing file is a step of the plain one, or changes nothing there.
LEMMA PlainSteps ==
  ASSUME TextInv, [Next]_vars
  PROVE  [Plain!Next]_(Plain!vars)
<1> USE DEF TextInv
<1>1. ASSUME UNCHANGED <<phase, stack, msgLength, readPos, take, overlap>>,
             PlainPc' = PlainPc, PlainFault' = PlainFault
      PROVE  UNCHANGED Plain!vars
  BY <1>1 DEF Plain!vars, Plain!loadVars, Plain!callVars, PlainPc, PlainFault
<1>2. CASE UNCHANGED vars
  <2>1. UNCHANGED <<phase, stack, pc, msgLength, readPos, take, fault, overlap>>
    BY <1>2 DEF vars, bufferVars, loadVars, callVars, histVars
  <2>2. PlainPc' = PlainPc /\ PlainFault' = PlainFault
    BY <2>1 DEF PlainPc, PlainFault
  <2> QED  BY <1>1, <2>1, <2>2
<1>3. ASSUME fault = "none" PROVE PlainFault = "none"
  BY <1>3 DEF PlainFault
<1>4. CASE fault = "none" /\ Load
  <2>1. UNCHANGED <<pc, take, fault, overlap, readPos>>
    BY <1>4 DEF Load, MakePart, Leave, DropPart, Left, bufferVars, callVars, histVars
  <2>2. PlainPc' = PlainPc /\ PlainFault' = PlainFault /\ PlainFault = "none"
    BY <1>3, <1>4, <2>1 DEF PlainPc, PlainFault
  <2>3. CASE MakePart
    <3>1. Plain!MakePart
      BY <2>1, <2>2, <2>3 DEF MakePart, Plain!MakePart, Plain!callVars, PlainPc, PlainFault, bufferVars
    <3> QED  BY <2>2, <3>1 DEF Plain!Next, Plain!Load, PlainFault
  <2>4. CASE Leave
    <3>1. Plain!Leave
      BY <2>1, <2>2, <2>4 DEF Leave, Plain!Leave, Plain!callVars, PlainPc, PlainFault, bufferVars
    <3> QED  BY <2>2, <3>1 DEF Plain!Next, Plain!Load, PlainFault
  <2>5. CASE Left
    <3>1. Plain!Left
      BY <2>1, <2>2, <2>5 DEF Left, Plain!Left, Plain!callVars, PlainPc, PlainFault, bufferVars
    <3> QED  BY <2>2, <3>1 DEF Plain!Next, Plain!Load, PlainFault
  <2>6. CASE DropPart
    <3>1. /\ phase = "leaving" /\ stack # <<>> /\ stack' = Plain!Front(stack)
          /\ msgLength' = IF stack' = <<>> THEN 0 ELSE msgLength
          /\ phase' = phase
      BY <2>6, PlainOperators DEF DropPart
    <3>2. Plain!FileExists => \A c \in Callers : PlainPc[c] = "outside"
      BY <2>6, PlainOperators, PlainPcIs DEF DropPart
    <3>3. Plain!DropPart
      BY <2>1, <2>2, <3>1, <3>2 DEF Plain!DropPart, PlainPc, PlainFault
    <3> QED  BY <2>2, <3>3 DEF Plain!Next, Plain!Load, PlainFault
  <2> QED  BY <1>4, <2>3, <2>4, <2>5, <2>6 DEF Load
<1>5. ASSUME NEW c \in Callers, fault = "none", Plain!Call(c) PROVE Plain!Next
  BY <1>3, <1>5 DEF Plain!Next, PlainFault
<1>6. ASSUME NEW c \in Callers, fault = "none", NEW text \in Lines, WriteBegin(c, text)
      PROVE  Plain!Call(c)
  <2>1. PICK copied \in {0, Fitting(text)} :
          /\ FileExists /\ pc[c] = "outside" /\ pc' = [pc EXCEPT ![c] = "flip"]
          /\ msgLength' = copied /\ readPos' = 0 /\ overlap' = ~Alone(c)
          /\ UNCHANGED <<phase, stack, take, fault>>
    BY <1>6 DEF WriteBegin, Goto, loadVars
  <2>2. PlainPc' = [PlainPc EXCEPT ![c] = "write"] /\ PlainPc[c] = "outside"
    BY <2>1, PlainPcMoves, PlainPcIs DEF States
  <2>3. \E length \in LineLengths : \E k \in 0..Plain!Smaller(length, BufferSize) : msgLength' = k
    <3>1. Plain!Smaller(Len(text), BufferSize) = Fitting(text)
      BY PlainOperators DEF Fitting
    <3>2. copied \in 0..Fitting(text)
      BY FittingType
    <3> QED  BY <2>1, <3>1, <3>2 DEF LineLengths
  <2>4. Plain!Alone(c) <=> Alone(c)
    BY PlainAlone DEF Plain!Alone, PlainPc
  <2>5. PlainFault' = PlainFault
    BY <2>1 DEF PlainFault
  <2>6. Plain!WriteBegin(c)
    BY <2>1, <2>2, <2>3, <2>4, <2>5, PlainOperators
       DEF Plain!WriteBegin, Plain!Goto, Plain!PositionAfterWrite, Plain!loadVars, PlainPc, PlainFault
  <2> QED  BY <2>6 DEF Plain!Call
<1>7. ASSUME NEW c \in Callers, fault = "none", ReverseString(c) \/ ReverseWord(c)
      PROVE  Plain!Call(c) \/ UNCHANGED Plain!vars
  <2>1. pc[c] \in {"flip", "word"} /\ UNCHANGED <<phase, stack, msgLength, readPos, take, overlap>>
    BY <1>7 DEF ReverseString, ReverseWord, loadVars, histVars
  <2>2. fault' \in {fault, "string"} /\ (fault' # fault => pc' = pc)
    BY <1>7 DEF ReverseString, ReverseWord
  <2>3. PlainFault' = PlainFault
    BY <1>7, <2>2 DEF PlainFault
  <2>4. pc' = pc \/ \E there \in {"word", "outside"} : pc' = [pc EXCEPT ![c] = there]
    <3>1. CASE fault' = fault
      BY <1>7, <3>1, StringReversed, WordReversed
    <3> QED  BY <2>2, <3>1
  <2>5. CASE pc' = [pc EXCEPT ![c] = "outside"]
    <3>1. PlainPc' = [PlainPc EXCEPT ![c] = "outside"] /\ PlainPc[c] = "write"
      BY <2>1, <2>5, PlainPcMoves, PlainPcIs DEF States
    <3>2. Plain!WriteEnd(c)
      BY <2>1, <2>3, <3>1 DEF Plain!WriteEnd, Plain!Goto, Plain!loadVars, PlainPc, PlainFault
    <3> QED  BY <3>2 DEF Plain!Call
  <2>6. CASE pc' = pc \/ pc' = [pc EXCEPT ![c] = "word"]
    <3>1. PlainPc' = PlainPc
      <4>1. CASE pc' = pc
        BY <4>1 DEF PlainPc
      <4>2. CASE pc' = [pc EXCEPT ![c] = "word"]
        <5>1. PlainPc' = [PlainPc EXCEPT ![c] = "write"] /\ PlainPc[c] = "write"
          BY <2>1, <4>2, PlainPcMoves, PlainPcIs DEF States
        <5>2. PlainPc = [d \in Callers |-> PlainPc[d]]
          BY DEF PlainPc
        <5> QED  BY <5>1, <5>2
      <4> QED  BY <2>6, <4>1, <4>2
    <3> QED  BY <1>1, <2>1, <2>3, <3>1
  <2> QED  BY <2>4, <2>5, <2>6
<1>8. ASSUME NEW c \in Callers, fault = "none", ReadBegin(c) PROVE Plain!Call(c)
  <2>1. PICK length \in Nat :
           /\ FileExists /\ pc[c] = "outside" /\ pc' = [pc EXCEPT ![c] = "advance"]
           /\ take' = [take EXCEPT ![c] = length]
           /\ overlap' = (overlap \/ ~Alone(c))
           /\ \E ask \in Asks : length \in 0..Available(ask)
           /\ \/ length > 0 /\ readPos + length > BufferSize /\ fault' = "read"
              \/ (length = 0 \/ readPos + length <= BufferSize) /\ fault' = fault
           /\ UNCHANGED <<msgLength, readPos, phase, stack>>
    BY <1>8, ReadBegun DEF bufferVars, loadVars
  <2>2. PlainPc' = [PlainPc EXCEPT ![c] = "read"] /\ PlainPc[c] = "outside"
    BY <2>1, PlainPcMoves, PlainPcIs DEF States
  <2>3. Plain!Alone(c) <=> Alone(c)
    BY PlainAlone DEF Plain!Alone, PlainPc
  <2>4. PlainFault' = IF length > 0 /\ readPos + length > BufferSize THEN "read" ELSE PlainFault
    <3>1. readPos \in Nat /\ BufferSize \in Nat
      BY ProcReverseAssumption DEF TypeOK
    <3> QED  BY <1>8, <2>1, <3>1 DEF PlainFault
  <2>5. PICK ask \in Asks : length \in 0..Plain!Available(ask)
    BY <2>1, PlainOperators
  <2>6. Plain!ReadBegin(c)
    BY <2>1, <2>2, <2>3, <2>4, <2>5, PlainOperators
       DEF Plain!ReadBegin, Plain!Goto, Plain!loadVars, PlainPc, PlainFault
  <2> QED  BY <2>6 DEF Plain!Call
<1>9. ASSUME NEW c \in Callers, fault = "none", ReadEnd(c) PROVE Plain!Call(c)
  <2>1. /\ pc[c] = "advance" /\ pc' = [pc EXCEPT ![c] = "outside"]
        /\ readPos' = readPos + take[c] /\ take' = [take EXCEPT ![c] = 0]
        /\ UNCHANGED <<phase, stack, msgLength, fault, overlap>>
    BY <1>9 DEF ReadEnd, Goto, loadVars, histVars
  <2>2. PlainPc' = [PlainPc EXCEPT ![c] = "outside"] /\ PlainPc[c] = "read"
    BY <2>1, PlainPcMoves, PlainPcIs DEF States
  <2>3. PlainFault' = PlainFault
    BY <2>1 DEF PlainFault
  <2>4. Plain!ReadEnd(c)
    BY <2>1, <2>2, <2>3 DEF Plain!ReadEnd, Plain!Goto, Plain!loadVars, PlainPc, PlainFault
  <2> QED  BY <2>4 DEF Plain!Call
<1>10. ASSUME NEW c \in Callers, fault = "none", Call(c) PROVE Plain!Next \/ UNCHANGED Plain!vars
  BY <1>5, <1>6, <1>7, <1>8, <1>9, <1>10 DEF Call, Write, Read
<1> QED  BY <1>2, <1>4, <1>10 DEF Next, Halted, Plain!Next, Plain!Load, PlainFault

\* Whoever calls and whatever they write, the reversing file keeps what the plain file
\* promises.
THEOREM KeepsProcBufferHolds == Spec => KeepsProcBuffer
<1>1. Init => Plain!Init
  <2> SUFFICES ASSUME Init PROVE Plain!Init
    OBVIOUS
  <2>1. PlainPc = [c \in Callers |-> "outside"] /\ PlainFault = "none"
    BY DEF Init, PlainPc, PlainFault
  <2> QED  BY <2>1 DEF Init, Plain!Init, PlainPc, PlainFault
<1>2. TextInv /\ [Next]_vars => [Plain!Next]_(Plain!vars)
  BY PlainSteps
<1> QED  BY <1>1, <1>2, TextHolds, PTL DEF Spec, KeepsProcBuffer, Plain!Spec

=============================================================================
