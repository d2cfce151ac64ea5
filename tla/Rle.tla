-------------------------------- MODULE Rle --------------------------------
(***************************************************************************)
(* task03: encoder.c packs a file into pairs of a count and a byte,        *)
(* decoder.c unpacks such a file, and test.sh runs one after the other and *)
(* compares the result with the input.                                     *)
(*                                                                         *)
(* A behaviour is a run of test.sh on some input, or a run of the decoder  *)
(* alone on a file from elsewhere.  A file is a sequence of bytes; fread   *)
(* and fwrite of one byte are steps.                                       *)
(***************************************************************************)
EXTENDS Integers, Sequences

CONSTANTS
  MaxByte,    \* the largest unsigned char, which is also MAX_COUNT of encode
  Inputs,     \* the files given to the encoder
  Foreign     \* the files given to the decoder alone

Byte == 0..MaxByte

ASSUME RleAssumption ==
  /\ MaxByte \in Nat \ {0}
  /\ Inputs \subseteq Seq(Byte) /\ Foreign \subseteq Seq(Byte)

VARIABLES
  input,      \* the file to encode
  encoded,    \* the file between encoder and decoder
  decoded,    \* what the decoder has written
  encPc,      \* "open", "loop", "done", or "absent" in a run of the decoder alone
  encRet,     \* the encoder's return value
  pos,        \* bytes of input read
  p, count,   \* the variables of encode
  start,      \* history: where each run written starts in input; the last entry
              \* is where the pending one starts
  decPc,      \* "open", "count", "char", "emit" or "done"
  decRet,
  dpos,       \* bytes of encoded read
  c, left,    \* the variables of decode; left is its count
  pair        \* history: the pairs the decoder has dealt with

encVars == <<encPc, encRet, pos, p, count, start>>
decVars == <<decPc, decRet, dpos, c, left, pair, decoded>>
vars == <<input, encoded, encVars, decVars>>

-----------------------------------------------------------------------------
(* encoder.c                                                                 *)

\* main: no file is written for an empty one.
EncodeEmpty ==
  /\ encPc = "open" /\ encPc' = "done"
  /\ input = <<>>
  /\ encRet' = 1
  /\ UNCHANGED <<input, encoded, pos, p, count, start, decVars>>

\* encode: count = 1, read the first byte.
EncodeFirst ==
  /\ encPc = "open" /\ encPc' = "loop"
  /\ input # <<>>
  /\ p' = input[1] /\ count' = 1 /\ pos' = 1
  /\ UNCHANGED <<input, encoded, encRet, start, decVars>>

\* The byte extends the run (mutant: the counter stops short of MAX_COUNT).
Mut_ExtendsLess(b) == b = p /\ count + 1 < MaxByte
Extends(b) == b = p /\ count < MaxByte

\* ++count, an unsigned char.
EncodeCount ==
  /\ encPc = "loop" /\ pos < Len(input)
  /\ Extends(input[pos + 1])
  /\ pos' = pos + 1
  /\ count' = (count + 1) % (MaxByte + 1)
  /\ UNCHANGED <<input, encoded, encPc, encRet, p, start, decVars>>

WriteRun ==
  /\ encoded' = Append(Append(encoded, count), p)
  /\ start' = Append(start, start[Len(start)] + count)

\* The new run starts with the byte that ended the old one (mutant: without it).
Mut_NewCount == 0
NewCount == 1

EncodeRun ==
  /\ encPc = "loop" /\ pos < Len(input)
  /\ ~Extends(input[pos + 1])
  /\ WriteRun
  /\ pos' = pos + 1
  /\ p' = input[pos + 1] /\ count' = NewCount
  /\ UNCHANGED <<input, encPc, encRet, decVars>>

\* The end of the input: the last run is written.
EncodeEnd ==
  /\ encPc = "loop" /\ encPc' = "done"
  /\ pos = Len(input)
  /\ WriteRun
  /\ encRet' = 0
  /\ UNCHANGED <<input, pos, p, count, decVars>>

-----------------------------------------------------------------------------
(* decoder.c                                                                 *)

DecodeOpen ==
  /\ encPc \in {"done", "absent"} /\ decPc = "open"
  /\ IF Len(encoded) < 2 THEN decPc' = "done" /\ decRet' = 1
                         ELSE decPc' = "count" /\ decRet' = 0
  /\ UNCHANGED <<input, encoded, encVars, dpos, c, left, pair, decoded>>

\* fread of the count; the loop ends with the file.
DecodeCount ==
  /\ decPc = "count"
  /\ IF dpos = Len(encoded)
     THEN decPc' = "done" /\ UNCHANGED <<dpos, left>>
     ELSE /\ decPc' = "char"
          /\ left' = encoded[dpos + 1]
          /\ dpos' = dpos + 1
  /\ UNCHANGED <<input, encoded, encVars, decRet, c, pair, decoded>>

\* A count without a byte ends the loop as well (mutant: without the error).
Mut_OddResult == 0
OddResult == 1

DecodeChar ==
  /\ decPc = "char"
  /\ IF dpos = Len(encoded)
     THEN decPc' = "done" /\ decRet' = OddResult /\ UNCHANGED <<dpos, c>>
     ELSE /\ decPc' = "emit"
          /\ c' = encoded[dpos + 1]
          /\ dpos' = dpos + 1
          /\ UNCHANGED decRet
  /\ UNCHANGED <<input, encoded, encVars, left, pair, decoded>>

\* What count-- leaves of 0.
BelowZero == MaxByte

\* while (count--): a count of zero writes nothing, and wraps.
DecodeEmit ==
  /\ decPc = "emit" /\ left # 0
  /\ left' = left - 1
  /\ decoded' = Append(decoded, c)
  /\ UNCHANGED <<input, encoded, encVars, decPc, decRet, dpos, c, pair>>

DecodeNext ==
  /\ decPc = "emit" /\ left = 0
  /\ left' = BelowZero
  /\ decPc' = "count" /\ pair' = pair + 1
  /\ UNCHANGED <<input, encoded, encVars, decRet, dpos, c, decoded>>

-----------------------------------------------------------------------------

Init ==
  /\ \/ input \in Inputs /\ encPc = "open" /\ encoded = <<>>
     \/ input = <<>> /\ encPc = "absent" /\ encoded \in Foreign
  /\ encRet = 1 /\ pos = 0 /\ p = 0 /\ count = 1 /\ start = <<0>>
  /\ decPc = "open" /\ decRet = 1 /\ dpos = 0 /\ c = 0 /\ left = 0 /\ pair = 0
  /\ decoded = <<>>

Encode == EncodeEmpty \/ EncodeFirst \/ EncodeCount \/ EncodeRun \/ EncodeEnd
Decode == DecodeOpen \/ DecodeCount \/ DecodeChar \/ DecodeEmit \/ DecodeNext

Done == decPc = "done" /\ UNCHANGED vars

Next == Encode \/ Decode \/ Done

Spec == Init /\ [][Next]_vars

-----------------------------------------------------------------------------
(* Properties *)

\* The type of every variable: no count or byte leaves its unsigned char.
TypeOK ==
  /\ input \in Seq(Byte) /\ encoded \in Seq(Byte) /\ decoded \in Seq(Byte)
  /\ encPc \in {"open", "loop", "done", "absent"}
  /\ decPc \in {"open", "count", "char", "emit", "done"}
  /\ encRet \in {0, 1} /\ decRet \in {0, 1}
  /\ pos \in Nat /\ dpos \in 0..Len(encoded) /\ pair \in Nat
  /\ p \in Byte /\ count \in Byte /\ c \in Byte /\ left \in Byte
  /\ start \in Seq(Nat) /\ start # <<>>

\* test.sh: diff finds nothing.  What the decoder makes of the encoder's file is the
\* input, also where a run is longer than MAX_COUNT.
RoundTrip ==
  decPc = "done" /\ encPc = "done" /\ input # <<>> =>
    decRet = 0 /\ decoded = input

\* Two pairs of one byte follow each other only when the first is full: the file is
\* the shortest of its kind.
RunsAreMaximal ==
  \A k \in 1..Len(start) - 2 :
    encoded[2 * k] = encoded[2 * k + 2] => encoded[2 * k - 1] = MaxByte

\* The decoder fails on a file cut in the middle of a pair, and on no other that has
\* at least one pair, whatever its counts.
CutFileIsReported ==
  decPc = "done" /\ encPc = "absent" =>
    (decRet = 0 <=> Len(encoded) >= 2 /\ Len(encoded) % 2 = 0)

=============================================================================
