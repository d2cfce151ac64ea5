----------------------------- MODULE RleProofs -----------------------------
(***************************************************************************)
(* The round trip of task03 for every size of a byte and every input.      *)
(*                                                                         *)
(* EncInv: the runs written so far cover input[1 .. start[Len(start)]]     *)
(* without gap or overlap, and the pending run covers the rest up to pos.  *)
(* DecInv: what the decoder has written is a prefix of the input, and it   *)
(* ends where the pair it stands at says.                                  *)
(***************************************************************************)
EXTENDS Rle, SequenceTheorems, TLAPS

\* The runs written: each has a count that is a byte, and the bytes it covers.
RunsCover ==
  /\ Len(start) \in Nat \ {0} /\ start[1] = 0
  /\ Len(encoded) = 2 * (Len(start) - 1)
  /\ \A k \in 1..Len(start) - 1 :
       /\ start[k + 1] = start[k] + encoded[2 * k - 1]
       /\ start[k + 1] <= pos /\ start[k] \in Nat
       /\ \A x \in start[k] + 1..start[k + 1] : input[x] = encoded[2 * k]
  /\ start[Len(start)] \in Nat

\* The run not yet written.
PendingCovers ==
  /\ pos <= Len(input)
  /\ start[Len(start)] + count = pos
  /\ \A x \in start[Len(start)] + 1..pos : input[x] = p

EncInv ==
  /\ encPc = "open" => encoded = <<>> /\ start = <<0>> /\ decPc = "open" /\ pos = 0
  /\ encPc = "loop" => RunsCover /\ PendingCovers /\ decPc = "open"
  /\ encPc = "done" /\ input # <<>> =>
       RunsCover /\ start[Len(start)] = Len(input) /\ Len(start) > 1 /\ encRet = 0

DecInv ==
  /\ decPc = "open" => dpos = 0 /\ pair = 0 /\ decoded = <<>>
  /\ encPc = "done" /\ input # <<>> =>
     /\ decPc # "open" => decRet = 0
     /\ decPc = "count" =>
          pair <= Len(start) - 1 /\ dpos = 2 * pair /\ Len(decoded) = start[pair + 1]
     /\ decPc = "char" =>
          /\ pair < Len(start) - 1 /\ dpos = 2 * pair + 1
          /\ left = encoded[2 * pair + 1] /\ Len(decoded) = start[pair + 1]
     /\ decPc = "emit" =>
          /\ pair < Len(start) - 1 /\ dpos = 2 * pair + 2
          /\ c = encoded[2 * pair + 2]
          /\ start[pair + 1] <= Len(decoded) /\ Len(decoded) + left = start[pair + 2]
     /\ decPc = "done" => Len(decoded) = Len(input)
     /\ \A x \in 1..Len(decoded) : decoded[x] = input[x]

-----------------------------------------------------------------------------

\* What Append does to the type and the elements of a sequence.
LEMMA AppendFacts ==
  ASSUME NEW S, NEW s \in Seq(S), NEW e \in S
  PROVE  /\ Append(s, e) \in Seq(S) /\ Len(s) \in Nat
         /\ Len(Append(s, e)) = Len(s) + 1
         /\ Append(s, e)[Len(s) + 1] = e
         /\ \A k \in 1..Len(s) : Append(s, e)[k] = s[k]
  OBVIOUS

\* The remainder is the number itself when it is smaller than the divisor.
LEMMA SmallMod ==
  ASSUME NEW n \in Nat, n < MaxByte
  PROVE  (n + 1) % (MaxByte + 1) = n + 1
  BY RleAssumption

\* Every count and every byte stays in the range of an unsigned char.
THEOREM TypeCorrect == Spec => []TypeOK
<1>1. Init => TypeOK
  <2> SUFFICES ASSUME Init PROVE TypeOK
    OBVIOUS
  <2>1. input \in Seq(Byte) /\ encoded \in Seq(Byte) /\ decoded \in Seq(Byte)
    <3>1. <<>> \in Seq(Byte)
      OBVIOUS
    <3>2. QED
      BY <3>1, RleAssumption, Zenon DEF Init
  <2>2. start \in Seq(Nat) /\ start # <<>>
    BY DEF Init
  <2>3. p \in Byte /\ count \in Byte /\ c \in Byte /\ left \in Byte
    BY RleAssumption DEF Init, Byte
  <2>4. QED
    BY <2>1, <2>2, <2>3 DEF Init, TypeOK
<1>2. TypeOK /\ [Next]_vars => TypeOK'
  <2> SUFFICES ASSUME TypeOK, [Next]_vars PROVE TypeOK'
    OBVIOUS
  <2> USE RleAssumption DEF TypeOK, Byte, encVars, decVars
  <2>0. ASSUME WriteRun
        PROVE  /\ encoded' \in Seq(Byte) /\ Len(encoded)' = Len(encoded) + 2
               /\ start' \in Seq(Nat) /\ start' # <<>>
    <3>1. Append(encoded, count) \in Seq(Byte)
      BY AppendFacts
    <3>2. encoded' \in Seq(Byte) /\ Len(encoded)' = Len(encoded) + 2
      BY <2>0, <3>1, AppendFacts DEF WriteRun
    <3>3. start[Len(start)] + count \in Nat
      OBVIOUS
    <3>4. start' \in Seq(Nat) /\ Len(start') = Len(start) + 1 /\ Len(start) \in Nat
      BY <2>0, <3>3, AppendFacts DEF WriteRun
    <3>5. start' # <<>>
      BY <3>4, EmptySeq
    <3>6. QED
      BY <3>2, <3>4, <3>5
  <2>1. CASE EncodeEmpty
    BY <2>1 DEF EncodeEmpty
  <2>2. CASE EncodeFirst
    BY <2>2 DEF EncodeFirst
  <2>3. CASE EncodeCount
    <3>1. count' \in Byte
      BY <2>3, SmallMod DEF EncodeCount, Extends
    <3>2. QED
      BY <2>3, <3>1 DEF EncodeCount
  <2>4. CASE EncodeRun
    <3>1. input[pos + 1] \in Byte /\ 1 \in Byte
      BY <2>4 DEF EncodeRun
    <3>2. dpos \in 0..Len(encoded')
      BY <2>0, <2>4 DEF EncodeRun
    <3>3. QED
      BY <2>0, <2>4, <3>1, <3>2 DEF EncodeRun, NewCount
  <2>5. CASE EncodeEnd
    BY <2>0, <2>5 DEF EncodeEnd
  <2>6. CASE DecodeOpen
    BY <2>6 DEF DecodeOpen
  <2>7. CASE DecodeCount
    <3>1. CASE dpos = Len(encoded)
      BY <2>7, <3>1 DEF DecodeCount
    <3>2. CASE dpos # Len(encoded)
      <4>1. encoded[dpos + 1] \in Byte /\ dpos + 1 \in 0..Len(encoded)
        BY <3>2
      <4>2. QED
        BY <2>7, <3>2, <4>1 DEF DecodeCount
    <3>3. QED
      BY <3>1, <3>2
  <2>8. CASE DecodeChar
    <3>1. CASE dpos = Len(encoded)
      BY <2>8, <3>1 DEF DecodeChar, OddResult
    <3>2. CASE dpos # Len(encoded)
      <4>1. encoded[dpos + 1] \in Byte /\ dpos + 1 \in 0..Len(encoded)
        BY <3>2
      <4>2. QED
        BY <2>8, <3>2, <4>1 DEF DecodeChar
    <3>3. QED
      BY <3>1, <3>2
  <2>9. CASE DecodeEmit
    BY <2>9, AppendFacts DEF DecodeEmit
  <2>10. CASE DecodeNext
    BY <2>10 DEF DecodeNext, BelowZero
  <2>11. CASE UNCHANGED vars
    BY <2>11 DEF vars
  <2>12. QED
    BY <2>1, <2>2, <2>3, <2>4, <2>5, <2>6, <2>7, <2>8, <2>9, <2>10, <2>11
       DEF Next, Encode, Decode, Done
<1>3. QED
  BY <1>1, <1>2, PTL DEF Spec

\* An element of a sequence of numbers is a number.
LEMMA ElementType ==
  ASSUME NEW s \in Seq(Nat), NEW k \in 1..Len(s)
  PROVE  s[k] \in Nat
  OBVIOUS

\* Writing the pending run extends the cover up to pos.
LEMMA WriteRunCovers ==
  ASSUME TypeOK, RunsCover, PendingCovers, WriteRun, input' = input,
         pos' \in Nat, pos' >= pos
  PROVE  RunsCover' /\ Len(start') > 1 /\ start'[Len(start')] = pos
<1> DEFINE n == Len(start)
<1>1. /\ n \in Nat \ {0} /\ start \in Seq(Nat) /\ encoded \in Seq(Byte)
      /\ count \in Byte /\ p \in Byte /\ start[n] + count = pos /\ pos \in Nat
      /\ count \in Nat
  BY RleAssumption DEF RunsCover, PendingCovers, TypeOK, Byte
<1>2. /\ Len(start') = n + 1 /\ start'[n + 1] = pos
      /\ \A k \in 1..n : start'[k] = start[k]
  BY <1>1, AppendFacts DEF WriteRun
<1>3. /\ Len(encoded') = 2 * n
      /\ encoded'[2 * n - 1] = count /\ encoded'[2 * n] = p
      /\ \A k \in 1..2 * n - 2 : encoded'[k] = encoded[k]
  <2>1. Len(encoded) = 2 * n - 2
    BY <1>1 DEF RunsCover
  <2>2. Append(encoded, count) \in Seq(Byte)
    BY <1>1, AppendFacts
  <2>3. QED
    BY <1>1, <2>1, <2>2, AppendFacts DEF WriteRun
<1>4. ASSUME NEW k \in 1..Len(start') - 1
      PROVE  /\ start'[k + 1] = start'[k] + encoded'[2 * k - 1]
             /\ start'[k + 1] <= pos' /\ start'[k] \in Nat
             /\ \A x \in start'[k] + 1..start'[k + 1] : input'[x] = encoded'[2 * k]
  <2>1. CASE k < n
    <3>1. k \in 1..n - 1 /\ k + 1 \in 1..n /\ 2 * k - 1 \in 1..2 * n - 2
          /\ 2 * k \in 1..2 * n - 2
      BY <1>1, <1>2, <2>1
    <3>2. /\ start'[k + 1] = start[k + 1] /\ start'[k] = start[k]
          /\ encoded'[2 * k - 1] = encoded[2 * k - 1] /\ encoded'[2 * k] = encoded[2 * k]
      BY <1>2, <1>3, <3>1
    <3>3. /\ start[k + 1] = start[k] + encoded[2 * k - 1]
          /\ start[k + 1] <= pos /\ start[k] \in Nat /\ start[k + 1] \in Nat
          /\ \A x \in start[k] + 1..start[k + 1] : input[x] = encoded[2 * k]
      <4>1. /\ start[k + 1] = start[k] + encoded[2 * k - 1]
            /\ start[k + 1] <= pos /\ start[k] \in Nat
            /\ \A x \in start[k] + 1..start[k + 1] : input[x] = encoded[2 * k]
        BY <3>1, Zenon DEF RunsCover
      <4>2. start[k + 1] \in Nat
        BY <1>1, <3>1
      <4>3. QED
        BY <4>1, <4>2
    <3>4. QED
      BY <1>1, <3>2, <3>3
  <2>2. CASE k = n
    BY <1>1, <1>2, <1>3, <2>2 DEF PendingCovers
  <2>3. QED
    BY <1>1, <1>2, <2>1, <2>2
<1>5. start'[1] = 0
  <2>1. start[1] = 0
    BY DEF RunsCover
  <2>2. QED
    BY <1>1, <1>2, <2>1
<1>6. QED
  BY <1>1, <1>2, <1>3, <1>4, <1>5 DEF RunsCover

\* The steps of the encoder keep EncInv; the decoder does not start before it ends.
LEMMA EncInvKept ==
  ASSUME TypeOK, TypeOK', EncInv, [Next]_vars
  PROVE  EncInv'
<1>1. CASE EncodeEmpty
  BY <1>1 DEF EncodeEmpty, EncInv
<1>2. CASE EncodeFirst
  <2>1. /\ start' = <<0>> /\ encoded' = <<>> /\ pos' = 1 /\ count' = 1
        /\ p' = input[1] /\ input' = input /\ encPc' = "loop" /\ decPc' = "open"
        /\ Len(input) \in Nat \ {0}
    BY <1>2 DEF EncodeFirst, EncInv, decVars, TypeOK
  <2>2. RunsCover'
    BY <2>1 DEF RunsCover
  <2>3. PendingCovers'
    BY <2>1 DEF PendingCovers
  <2>4. QED
    BY <2>1, <2>2, <2>3 DEF EncInv
<1>3. CASE EncodeCount
  <2>1. /\ RunsCover /\ PendingCovers /\ decPc' = "open" /\ encPc' = "loop"
        /\ UNCHANGED <<input, encoded, start, p>>
        /\ pos' = pos + 1 /\ pos < Len(input) /\ input[pos + 1] = p
        /\ pos \in Nat /\ Len(input) \in Nat
    BY <1>3 DEF EncodeCount, EncInv, Extends, decVars, TypeOK
  <2>2. count' = count + 1 /\ count \in Nat
    BY <1>3, SmallMod, RleAssumption DEF EncodeCount, Extends, TypeOK, Byte
  <2>3. RunsCover'
    <3>1. ASSUME NEW k \in 1..Len(start) - 1
          PROVE  start[k + 1] <= pos'
      <4>1. start[k + 1] <= pos
        BY <2>1, Zenon DEF RunsCover
      <4>2. start \in Seq(Nat) /\ k + 1 \in 1..Len(start)
        BY DEF TypeOK
      <4>3. start[k + 1] \in Nat
        BY <4>2
      <4>4. QED
        BY <2>1, <4>1, <4>3
    <3>2. QED
      BY <2>1, <3>1 DEF RunsCover
  <2>4. PendingCovers'
    <3>1. start[Len(start)] \in Nat
      BY <2>1 DEF RunsCover
    <3>2. /\ start[Len(start)] + count = pos
          /\ \A x \in start[Len(start)] + 1..pos : input[x] = p
      BY <2>1 DEF PendingCovers
    <3>3. \A x \in start[Len(start)] + 1..pos + 1 : input[x] = p
      BY <2>1, <3>1, <3>2
    <3>4. QED
      BY <2>1, <2>2, <3>1, <3>2, <3>3 DEF PendingCovers
  <2>5. QED
    BY <2>1, <2>3, <2>4 DEF EncInv
<1>4. CASE EncodeRun
  <2>1. /\ RunsCover /\ PendingCovers /\ decPc' = "open" /\ encPc' = "loop"
        /\ input' = input /\ WriteRun
        /\ pos' = pos + 1 /\ pos < Len(input) /\ p' = input[pos + 1] /\ count' = 1
        /\ pos \in Nat /\ Len(input) \in Nat
    BY <1>4 DEF EncodeRun, EncInv, NewCount, decVars, TypeOK
  <2>2. RunsCover' /\ start'[Len(start')] = pos
    BY <2>1, WriteRunCovers
  <2>3. PendingCovers'
    BY <2>1, <2>2 DEF PendingCovers
  <2>4. QED
    BY <2>1, <2>2, <2>3 DEF EncInv
<1>5. CASE EncodeEnd
  <2>1. /\ RunsCover /\ PendingCovers /\ encPc' = "done" /\ encRet' = 0
        /\ input' = input /\ WriteRun /\ pos' = pos /\ pos = Len(input) /\ pos \in Nat
    BY <1>5 DEF EncodeEnd, EncInv, TypeOK
  <2>2. RunsCover' /\ Len(start') > 1 /\ start'[Len(start')] = pos
    BY <2>1, WriteRunCovers
  <2>3. QED
    BY <2>1, <2>2 DEF EncInv
<1>6. CASE Decode
  <2>1. UNCHANGED <<input, encoded, encVars>> /\ encPc \notin {"open", "loop"}
    BY <1>6 DEF Decode, DecodeOpen, DecodeCount, DecodeChar, DecodeEmit, DecodeNext, EncInv
  <2>2. RunsCover' = RunsCover
    BY <2>1 DEF RunsCover, encVars
  <2>3. QED
    BY <2>1, <2>2 DEF EncInv, encVars
<1>7. CASE UNCHANGED vars
  <2>1. UNCHANGED <<input, encoded, encVars, decPc>>
    BY <1>7 DEF vars, decVars
  <2>2. RunsCover' = RunsCover /\ PendingCovers' = PendingCovers
    BY <2>1 DEF RunsCover, PendingCovers, encVars
  <2>3. QED
    BY <2>1, <2>2 DEF EncInv, encVars
<1>8. QED
  BY <1>1, <1>2, <1>3, <1>4, <1>5, <1>6, <1>7 DEF Next, Encode, Done

\* What the cover says of the pair the decoder stands at.
LEMMA PairFacts ==
  ASSUME TypeOK, RunsCover, pair < Len(start) - 1
  PROVE  /\ start[pair + 2] = start[pair + 1] + encoded[2 * pair + 1]
         /\ start[pair + 1] \in Nat /\ start[pair + 2] \in Nat
         /\ encoded[2 * pair + 1] \in Nat
         /\ \A x \in start[pair + 1] + 1..start[pair + 2] : input[x] = encoded[2 * pair + 2]
<1> DEFINE k == pair + 1
<1>1. /\ k \in 1..Len(start) - 1 /\ k + 1 \in 1..Len(start) /\ Len(start) \in Nat
      /\ 2 * k - 1 \in 1..Len(encoded)
  <2>1. pair \in Nat /\ Len(start) \in Nat /\ Len(encoded) = 2 * (Len(start) - 1)
    BY DEF TypeOK, RunsCover
  <2>2. QED
    BY <2>1
<1>2. /\ start[k + 1] = start[k] + encoded[2 * k - 1]
      /\ start[k] \in Nat
      /\ \A x \in start[k] + 1..start[k + 1] : input[x] = encoded[2 * k]
  <2>1. k \in 1..Len(start) - 1
    BY <1>1
  <2> HIDE DEF k
  <2>2. QED
    BY <2>1, Zenon DEF RunsCover
<1>3. k + 1 = pair + 2 /\ 2 * k - 1 = 2 * pair + 1 /\ 2 * k = 2 * pair + 2
  BY DEF TypeOK
<1>4. encoded[2 * k - 1] \in Nat /\ start[k + 1] \in Nat
  <2>1. encoded \in Seq(Byte) /\ start \in Seq(Nat)
    BY DEF TypeOK
  <2>2. encoded[2 * k - 1] \in Byte /\ start[k + 1] \in Nat
    BY <1>1, <2>1
  <2>3. QED
    BY <2>2, RleAssumption DEF Byte
<1>5. QED
  BY <1>2, <1>3, <1>4

\* The steps of encoder and decoder keep DecInv.
LEMMA DecInvKept ==
  ASSUME TypeOK, TypeOK', EncInv, EncInv', DecInv, [Next]_vars
  PROVE  DecInv'
<1>1. CASE Encode
  <2>1. UNCHANGED decVars /\ decPc = "open"
    BY <1>1 DEF Encode, EncodeEmpty, EncodeFirst, EncodeCount, EncodeRun, EncodeEnd, EncInv
  <2>2. decPc' = "open" /\ dpos' = 0 /\ pair' = 0 /\ decoded' = <<>>
    BY <2>1 DEF decVars, DecInv
  <2>3. QED
    BY <2>2 DEF DecInv
<1>2. CASE UNCHANGED vars
  BY <1>2, Zenon DEF vars, encVars, decVars, DecInv
<1>3. CASE Decode /\ ~(encPc = "done" /\ input # <<>>)
  <2>1. UNCHANGED <<input, encPc>> /\ decPc' # "open"
    BY <1>3 DEF Decode, DecodeOpen, DecodeCount, DecodeChar, DecodeEmit, DecodeNext, encVars
  <2>2. QED
    BY <1>3, <2>1 DEF DecInv
<1>4. CASE Decode /\ encPc = "done" /\ input # <<>>
  <2>1. UNCHANGED <<input, encoded, encVars, encPc, start>> /\ decPc' # "open"
    BY <1>4 DEF Decode, DecodeOpen, DecodeCount, DecodeChar, DecodeEmit, DecodeNext, encVars
  <2>2. /\ RunsCover /\ start[Len(start)] = Len(input) /\ Len(start) > 1
        /\ start[1] = 0 /\ Len(encoded) = 2 * (Len(start) - 1)
        /\ Len(start) \in Nat /\ Len(decoded) \in Nat /\ pair \in Nat
        /\ left \in Nat /\ decoded \in Seq(Byte) /\ c \in Byte
    BY <1>4, RleAssumption DEF EncInv, RunsCover, TypeOK, Byte
  <2>3. \A x \in 1..Len(decoded) : decoded[x] = input[x]
    BY <1>4 DEF DecInv
  <2>4. CASE DecodeOpen
    <3>1. /\ decPc' = "count" /\ decRet' = 0 /\ dpos' = 0 /\ pair' = 0 /\ decoded' = <<>>
      BY <2>2, <2>4 DEF DecodeOpen, DecInv
    <3>2. QED
      BY <2>1, <2>2, <3>1 DEF DecInv
  <2>5. CASE DecodeCount
    <3>1. /\ decRet' = 0 /\ pair' = pair /\ decoded' = decoded
          /\ pair <= Len(start) - 1 /\ dpos = 2 * pair /\ Len(decoded) = start[pair + 1]
      BY <1>4, <2>5 DEF DecodeCount, DecInv
    <3>2. CASE dpos = Len(encoded)
      <4>1. decPc' = "done" /\ pair = Len(start) - 1
        BY <2>2, <2>5, <3>1, <3>2 DEF DecodeCount
      <4>2. Len(decoded) = Len(input)
        BY <2>2, <3>1, <4>1
      <4>3. QED
        BY <2>1, <2>3, <3>1, <4>1, <4>2 DEF DecInv
    <3>3. CASE dpos # Len(encoded)
      <4>1. /\ decPc' = "char" /\ left' = encoded[dpos + 1] /\ dpos' = dpos + 1
            /\ pair < Len(start) - 1
        BY <2>2, <2>5, <3>1, <3>3 DEF DecodeCount
      <4>2. QED
        BY <2>1, <2>3, <3>1, <4>1 DEF DecInv
    <3>4. QED
      BY <3>2, <3>3
  <2>6. CASE DecodeChar
    <3>1. /\ pair < Len(start) - 1 /\ dpos = 2 * pair + 1
          /\ left = encoded[2 * pair + 1] /\ Len(decoded) = start[pair + 1] /\ decRet = 0
      BY <1>4, <2>6 DEF DecodeChar, DecInv
    <3>2. dpos # Len(encoded)
      BY <2>2, <3>1
    <3>3. /\ decPc' = "emit" /\ c' = encoded[2 * pair + 2] /\ dpos' = 2 * pair + 2
          /\ UNCHANGED <<left, pair, decoded, decRet>>
      BY <2>2, <2>6, <3>1, <3>2 DEF DecodeChar
    <3>4. start[pair + 1] <= Len(decoded) /\ Len(decoded) + left = start[pair + 2]
      BY <2>2, <3>1, PairFacts
    <3>5. QED
      BY <2>1, <2>3, <3>1, <3>3, <3>4 DEF DecInv
  <2>7. CASE DecodeEmit
    <3>1. /\ pair < Len(start) - 1 /\ dpos = 2 * pair + 2
          /\ c = encoded[2 * pair + 2] /\ decRet = 0 /\ left # 0
          /\ start[pair + 1] <= Len(decoded) /\ Len(decoded) + left = start[pair + 2]
          /\ decPc' = "emit" /\ UNCHANGED <<pair, dpos, c, decRet>>
          /\ left' = left - 1 /\ decoded' = Append(decoded, c)
      BY <1>4, <2>7 DEF DecodeEmit, DecInv
    <3>2. Len(decoded)' = Len(decoded) + 1 /\ decoded'[Len(decoded) + 1] = c
          /\ \A x \in 1..Len(decoded) : decoded'[x] = decoded[x]
      BY <2>2, <3>1, AppendFacts
    <3>3. start[pair + 1] \in Nat /\ start[pair + 2] \in Nat
          /\ \A x \in start[pair + 1] + 1..start[pair + 2] : input[x] = c
      BY <2>2, <3>1, PairFacts
    <3>4. input[Len(decoded) + 1] = c
      <4>1. left \in Nat /\ Len(decoded) \in Nat
        BY <2>2
      <4>2. Len(decoded) + 1 \in start[pair + 1] + 1..start[pair + 2]
        BY <3>1, <3>3, <4>1
      <4>3. QED
        BY <3>3, <4>2
    <3>5. \A x \in 1..Len(decoded)' : decoded'[x] = input[x]
      BY <2>2, <2>3, <3>2, <3>4
    <3>6. start[pair + 1] <= Len(decoded)' /\ Len(decoded)' + left' = start[pair + 2]
      <4>1. /\ start[pair + 1] \in Nat /\ start[pair + 2] \in Nat
            /\ Len(decoded) \in Nat /\ left \in Nat
        BY <2>2, <3>3
      <4>2. Len(decoded)' = Len(decoded) + 1 /\ left' = left - 1
        BY <3>1, <3>2
      <4>3. start[pair + 1] <= Len(decoded) /\ Len(decoded) + left = start[pair + 2]
        BY <3>1
      <4>4. QED
        BY <4>1, <4>2, <4>3
    <3>7. QED
      BY <2>1, <3>1, <3>5, <3>6 DEF DecInv
  <2>8. CASE DecodeNext
    <3>1. /\ pair < Len(start) - 1 /\ dpos = 2 * pair + 2 /\ left = 0 /\ decRet = 0
          /\ Len(decoded) + left = start[pair + 2]
          /\ decPc' = "count" /\ pair' = pair + 1 /\ UNCHANGED <<dpos, decoded, decRet>>
      BY <1>4, <2>8 DEF DecodeNext, DecInv
    <3>2. /\ pair' <= Len(start) - 1 /\ dpos' = 2 * pair'
          /\ Len(decoded) = start[pair' + 1]
      BY <2>2, <3>1
    <3>3. QED
      BY <2>1, <2>3, <3>1, <3>2 DEF DecInv
  <2>9. QED
    BY <1>4, <2>4, <2>5, <2>6, <2>7, <2>8 DEF Decode
<1>5. QED
  BY <1>1, <1>2, <1>3, <1>4 DEF Next, Done

\* test.sh finds no difference: the decoder returns success and the bytes encoded, for
\* every nonempty input and every size of a byte.
THEOREM DecodedIsInput == Spec => []RoundTrip
<1>1. Init => EncInv /\ DecInv
  BY DEF Init, EncInv, DecInv
<1>2. TypeOK /\ TypeOK' /\ EncInv /\ DecInv /\ [Next]_vars => EncInv' /\ DecInv'
  BY EncInvKept, DecInvKept
<1>3. TypeOK /\ EncInv /\ DecInv => RoundTrip
  <2> SUFFICES ASSUME TypeOK, DecInv, decPc = "done", encPc = "done", input # <<>>
               PROVE  decRet = 0 /\ decoded = input
    BY DEF RoundTrip
  <2>1. /\ decRet = 0 /\ Len(decoded) = Len(input)
        /\ \A x \in 1..Len(decoded) : decoded[x] = input[x]
    BY DEF DecInv
  <2>2. decoded = input
    BY <2>1, SeqEqual DEF TypeOK
  <2>3. QED
    BY <2>1, <2>2
<1>4. QED
  BY <1>1, <1>2, <1>3, TypeCorrect, PTL DEF Spec

\* The pairs are full, or the next one has another byte; so has the pending run.
MaximalInv ==
  /\ encPc \in {"open", "absent"} => Len(start) = 1
  /\ RunsAreMaximal
  /\ encPc = "loop" /\ Len(start) > 1 /\ encoded[2 * Len(start) - 2] = p =>
       encoded[2 * Len(start) - 3] = MaxByte

\* A run that is written ends where its byte or its counter ends.
LEMMA MaximalStep ==
  ASSUME TypeOK, RunsCover, MaximalInv, encPc = "loop", WriteRun
  PROVE  /\ RunsAreMaximal' /\ Len(start') = Len(start) + 1
         /\ encoded'[2 * Len(start)] = p /\ encoded'[2 * Len(start) - 1] = count
<1> DEFINE n == Len(start)
<1>1. /\ n \in Nat \ {0} /\ start \in Seq(Nat) /\ encoded \in Seq(Byte)
      /\ count \in Byte /\ p \in Byte /\ count \in Nat
  BY RleAssumption DEF RunsCover, TypeOK, Byte
<1>2. start[n] + count \in Nat /\ Len(start') = n + 1
  <2>1. start[n] \in Nat
    BY <1>1
  <2>2. start[n] + count \in Nat
    BY <1>1, <2>1
  <2>3. QED
    BY <1>1, <2>2, AppendFacts DEF WriteRun
<1>3. /\ encoded'[2 * n - 1] = count /\ encoded'[2 * n] = p
      /\ \A k \in 1..2 * n - 2 : encoded'[k] = encoded[k]
  <2>1. Len(encoded) = 2 * n - 2
    BY <1>1 DEF RunsCover
  <2>2. Append(encoded, count) \in Seq(Byte)
    BY <1>1, AppendFacts
  <2>3. QED
    BY <1>1, <2>1, <2>2, AppendFacts DEF WriteRun
<1>4. ASSUME NEW k \in 1..n + 1 - 2, encoded'[2 * k] = encoded'[2 * k + 2]
      PROVE  encoded'[2 * k - 1] = MaxByte
  <2>1. CASE k < n - 1
    <3>1. k \in 1..n - 2
      BY <1>1, <2>1
    <3>2. 2 * k \in 1..2 * n - 2 /\ 2 * k + 2 \in 1..2 * n - 2 /\ 2 * k - 1 \in 1..2 * n - 2
      BY <1>1, <3>1
    <3>3. encoded[2 * k] = encoded[2 * k + 2] => encoded[2 * k - 1] = MaxByte
      BY <3>1, Zenon DEF MaximalInv, RunsAreMaximal
    <3> QED
      BY <1>3, <1>4, <3>2, <3>3
  <2>2. CASE k = n - 1
    <3>1. 2 * k \in 1..2 * n - 2 /\ 2 * k - 1 \in 1..2 * n - 2 /\ 2 * k + 2 = 2 * n
          /\ 2 * k = 2 * n - 2 /\ 2 * k - 1 = 2 * n - 3 /\ n > 1
      BY <1>1, <2>2
    <3>2. encoded[2 * n - 2] = p
      BY <1>3, <1>4, <3>1
    <3>3. encoded[2 * n - 3] = MaxByte
      BY <3>1, <3>2 DEF MaximalInv
    <3> QED
      BY <1>3, <3>1, <3>3
  <2> QED
    BY <1>1, <2>1, <2>2
<1> QED
  BY <1>2, <1>3, <1>4 DEF RunsAreMaximal

LEMMA MaximalKept ==
  ASSUME TypeOK, TypeOK', EncInv, MaximalInv, [Next]_vars
  PROVE  MaximalInv'
<1>1. CASE EncodeEmpty \/ EncodeFirst
  <2>1. encoded' = encoded /\ start' = start /\ Len(start) = 1
    BY <1>1 DEF EncodeEmpty, EncodeFirst, MaximalInv
  <2> QED
    BY <2>1 DEF MaximalInv, RunsAreMaximal
<1>2. CASE EncodeCount
  BY <1>2 DEF EncodeCount, MaximalInv, RunsAreMaximal
<1>3. CASE EncodeRun
  <2>1. /\ RunsCover /\ encPc = "loop" /\ encPc' = "loop" /\ WriteRun
        /\ p' = input[pos + 1] /\ ~(p' = p /\ count < MaxByte)
    BY <1>3 DEF EncodeRun, EncInv, Extends
  <2>2. /\ RunsAreMaximal' /\ Len(start') = Len(start) + 1
        /\ encoded'[2 * Len(start)] = p /\ encoded'[2 * Len(start) - 1] = count
    BY <2>1, MaximalStep
  <2>3. /\ Len(start) \in Nat /\ 2 * Len(start') - 2 = 2 * Len(start)
        /\ 2 * Len(start') - 3 = 2 * Len(start) - 1
    BY <2>1, <2>2 DEF RunsCover
  <2>4. p' = p => count = MaxByte
    BY <2>1, RleAssumption DEF TypeOK, Byte
  <2> QED
    BY <2>1, <2>2, <2>3, <2>4 DEF MaximalInv
<1>4. CASE EncodeEnd
  <2>1. RunsCover /\ encPc = "loop" /\ encPc' = "done" /\ WriteRun
    BY <1>4 DEF EncodeEnd, EncInv
  <2> QED
    BY <2>1, MaximalStep DEF MaximalInv
<1>5. CASE Decode \/ UNCHANGED vars
  <2>1. UNCHANGED <<encoded, encPc, p, start>>
    BY <1>5 DEF Decode, DecodeOpen, DecodeCount, DecodeChar, DecodeEmit, DecodeNext, encVars, vars
  <2> QED
    BY <2>1 DEF MaximalInv, RunsAreMaximal
<1> QED
  BY <1>1, <1>2, <1>3, <1>4, <1>5 DEF Next, Encode, Done

\* The encoder's file is the shortest of its kind, for every input and every MAX_COUNT:
\* two pairs of one byte follow each other only when the first is full (encode).
THEOREM RunsMaximal == Spec => []RunsAreMaximal
<1>1. Init => EncInv /\ MaximalInv
  BY DEF Init, EncInv, MaximalInv, RunsAreMaximal
<1>2. TypeOK /\ TypeOK' /\ EncInv /\ MaximalInv /\ [Next]_vars => EncInv' /\ MaximalInv'
  BY EncInvKept, MaximalKept
<1>3. MaximalInv => RunsAreMaximal
  BY DEF MaximalInv
<1> QED
  BY <1>1, <1>2, <1>3, TypeCorrect, PTL DEF Spec

\* Alone, the decoder reads in pairs, and stops for no reason but the end of the file.
CutInv ==
  encPc = "absent" =>
    /\ decPc = "open" => dpos = 0 /\ pair = 0
    /\ decPc \in {"count", "char", "emit"} => decRet = 0 /\ Len(encoded) >= 2
    /\ decPc = "count" => dpos = 2 * pair
    /\ decPc = "char" => dpos = 2 * pair + 1
    /\ decPc = "emit" => dpos = 2 * pair + 2
    /\ CutFileIsReported

\* decode fails on a file that is cut in the middle of a pair, and on no other of at least
\* one pair, whatever the counts in it (zero among them) and however long it is.
THEOREM CutReported == Spec => []CutFileIsReported
<1>1. Init => CutInv
  BY DEF Init, CutInv, CutFileIsReported
<1>2. ASSUME TypeOK, CutInv, [Next]_vars
      PROVE  CutInv'
  <2>0. /\ pair \in Nat /\ dpos \in 0..Len(encoded) /\ Len(encoded) \in Nat
        /\ CutFileIsReported <=>
             (decPc = "done" /\ encPc = "absent" =>
               (decRet = 0 <=> Len(encoded) >= 2 /\ Len(encoded) % 2 = 0))
    BY <1>2 DEF TypeOK, CutFileIsReported
  <2>1. CASE encPc # "absent" \/ Encode
    <3>1. encPc' # "absent"
      BY <1>2, <2>1 DEF Next, Encode, Decode, Done, EncodeEmpty, EncodeFirst, EncodeCount,
        EncodeRun, EncodeEnd, DecodeOpen, DecodeCount, DecodeChar, DecodeEmit, DecodeNext,
        encVars, vars
    <3> QED
      BY <3>1 DEF CutInv
  <2>2. CASE encPc = "absent" /\ DecodeOpen
    <3>1. UNCHANGED <<encoded, encPc, dpos, pair>>
      BY <2>2 DEF DecodeOpen, encVars
    <3> QED
      BY <1>2, <2>0, <2>2, <3>1 DEF DecodeOpen, CutInv, CutFileIsReported
  <2>3. CASE encPc = "absent" /\ DecodeCount
    <3>1. UNCHANGED <<encoded, encPc, pair, decRet>>
      BY <2>3 DEF DecodeCount, encVars
    <3>2. dpos = Len(encoded) => Len(encoded) % 2 = 0
      BY <1>2, <2>0, <2>3 DEF DecodeCount, CutInv
    <3> QED
      BY <1>2, <2>0, <2>3, <3>1, <3>2 DEF DecodeCount, CutInv, CutFileIsReported
  <2>4. CASE encPc = "absent" /\ DecodeChar
    <3>1. UNCHANGED <<encoded, encPc, pair>>
      BY <2>4 DEF DecodeChar, encVars
    <3>2. dpos = Len(encoded) => Len(encoded) % 2 # 0
      BY <1>2, <2>0, <2>4 DEF DecodeChar, CutInv
    <3> QED
      BY <1>2, <2>0, <2>4, <3>1, <3>2 DEF DecodeChar, CutInv, CutFileIsReported, OddResult
  <2>5. CASE encPc = "absent" /\ (DecodeEmit \/ DecodeNext)
    <3>1. UNCHANGED <<encoded, encPc, dpos, decRet>>
      BY <2>5 DEF DecodeEmit, DecodeNext, encVars
    <3> QED
      BY <1>2, <2>0, <2>5, <3>1 DEF DecodeEmit, DecodeNext, CutInv, CutFileIsReported
  <2>6. CASE UNCHANGED vars
    <3>1. UNCHANGED <<encoded, encPc, decPc, dpos, pair, decRet>>
      BY <2>6 DEF vars, encVars, decVars
    <3> QED
      BY <1>2, <3>1 DEF CutInv, CutFileIsReported
  <2> QED
    BY <1>2, <2>1, <2>2, <2>3, <2>4, <2>5, <2>6 DEF Next, Decode, Done
<1>3. TypeOK /\ CutInv => CutFileIsReported
  BY DEF CutInv, CutFileIsReported
<1> QED
  BY <1>1, <1>2, <1>3, TypeCorrect, PTL DEF Spec

=============================================================================
