---------------------------- MODULE ProcReverse ----------------------------
(***************************************************************************)
(* exercise10/part02/rw.c: a line written to /proc/exercise10/buffer is    *)
(* turned to capitals with its words in reverse order; reads hand the      *)
(* result out piece by piece.  ProcBuffer is the same without the          *)
(* reversal, and this module implements it.                                *)
(*                                                                         *)
(* The buffer, the length of the message and the read position are shared  *)
(* by all callers and not locked.  The cells before and behind the buffer  *)
(* are in the model: an empty word lets the code reach the first, a line   *)
(* that fills the buffer the second.  A loop that runs away, or a read of  *)
(* a byte still further out, ends the run with a fault.                    *)
(***************************************************************************)
EXTENDS Integers, Sequences, SequencesExt

CONSTANTS
  Callers,      \* processes that read and write the file
  BufferSize,   \* BUFFER_SIZE
  Lines,        \* what they write, each a sequence of characters
  Asks,         \* the lengths they read
  Heaps         \* what the memory holds when the module is loaded

Nul == "nul"
Newline == "newline"
Blank == " "
Capital == [a |-> "A", b |-> "B", c |-> "C"]
toupper(x) == IF x \in DOMAIN Capital THEN Capital[x] ELSE x

Char == {Nul, Newline, Blank, "a", "b", "c", "A", "B", "C"}
Cells == -1..BufferSize
Inside == 0..BufferSize - 1

ASSUME ProcReverseAssumption ==
  /\ BufferSize \in Nat \ {0} /\ IsFiniteSet(Callers)
  /\ Lines \subseteq Seq(Char) \ {<<>>} /\ Asks \subseteq Nat
  /\ Heaps \subseteq [Cells -> Char]

VARIABLES
  mem,        \* proc_buffer and the two cells beside it
  msgLength,  \* proc_msg_length
  readPos,    \* proc_msg_read_pos
  phase,      \* of the module, as in LoadOrder
  stack,      \* which of "buffer", "dir" and "file" exist, in the order they were made
  pc,         \* each caller: "outside", "flip", "word" or "advance"
  ws, se,     \* locals of reverse_string (0 outside of its loop)
  take,       \* length - left of example_read
  fault,      \* "none", or what ended the run
  line,       \* history: the last line written
  out,        \* history: what was read since, in order, up to an overlap
  stale,      \* history: the line was put before a byte that is not NUL
  overlap     \* history: a call ran beside the last write or a read since

bufferVars == <<mem, msgLength, readPos>>
loadVars   == <<phase, stack>>
callVars   == <<pc, ws, se, take>>
histVars   == <<line, out, stale, overlap>>
vars == <<bufferVars, loadVars, callVars, fault, histVars>>

Smaller(x, y) == IF x < y THEN x ELSE y
Goto(c, here, there) == pc[c] = here /\ pc' = [pc EXCEPT ![c] = there]
Alone(c) == \A d \in Callers \ {c} : pc[d] = "outside"
FileExists == Contains(stack, "file")

-----------------------------------------------------------------------------
(* reverse_string                                                            *)

\* The first cell from position k on that holds x; BufferSize + 1 if there is none.
Find(m, k, x) ==
  LET at == {n \in k..BufferSize : m[n] = x}
  IN  IF at = {} THEN BufferSize + 1 ELSE CHOOSE n \in at : \A o \in at : n <= o
Unterminated(m, k) == Find(m, k, Nul) > BufferSize
HasBlank(m, k) == Find(m, k, Blank) < Find(m, k, Nul)

\* reverse_interval(a, b) swaps from the ends to the middle; with b = a - 1 its loop
\* still runs once.
Mirrored(m, a, b) ==
  [k \in Cells |-> IF k \in a..b \/ k \in b..a THEN m[a + b - k] ELSE m[k]]
\* (b - a) / 2 is negative, and becomes the largest size_t.
RunsAway(a, b) == b < a - 1

Capitals(m, a, b) == [k \in Cells |-> IF k \in a..b \/ k \in b..a THEN toupper(m[k]) ELSE m[k]]

\* The whole string but for its last character, in capitals.
ReverseString(c) ==
  LET len == Find(mem, 0, Nul)
      flipped == Capitals(Mirrored(mem, 0, len - 2), 0, len - 2)
  IN  /\ pc[c] = "flip"
      /\ IF Unterminated(mem, 0) \/ RunsAway(0, len - 2)
         THEN /\ fault' = "string"
              /\ UNCHANGED <<mem, pc, se>>
         ELSE /\ mem' = flipped
              /\ pc' = [pc EXCEPT ![c] = IF HasBlank(flipped, 0) THEN "word" ELSE "outside"]
              /\ se' = [se EXCEPT ![c] = IF HasBlank(flipped, 0) THEN len - 1 ELSE 0]
              /\ UNCHANGED fault
      /\ UNCHANGED <<msgLength, readPos, loadVars, ws, take, histVars>>

\* A word ends before the blank or newline at k (mutants: at it; a place earlier).
Mut_WordEnd(k) == k
Mut_WordEndShort(k) == k - 2
WordEnd(k) == k - 1

\* One turn of the loop: the word from ws on, back into its own order.
ReverseWord(c) ==
  LET we  == Find(mem, ws[c], Blank)
      end == WordEnd(IF HasBlank(mem, ws[c]) THEN we ELSE se[c])
  IN  /\ pc[c] = "word"
      /\ IF Unterminated(mem, ws[c]) \/ RunsAway(ws[c], end)
         THEN /\ fault' = "string"
              /\ UNCHANGED <<mem, pc, ws, se>>
         ELSE /\ mem' = Mirrored(mem, ws[c], end)
              /\ IF HasBlank(mem, ws[c])
                 THEN pc' = pc /\ ws' = [ws EXCEPT ![c] = we + 1] /\ se' = se
                 ELSE /\ pc' = [pc EXCEPT ![c] = "outside"]
                      /\ ws' = [ws EXCEPT ![c] = 0] /\ se' = [se EXCEPT ![c] = 0]
              /\ UNCHANGED fault
      /\ UNCHANGED <<msgLength, readPos, loadVars, take, histVars>>

-----------------------------------------------------------------------------
(* example_write and example_read                                            *)

\* How much of a line the buffer takes.
Fitting(text) == Smaller(Len(text), BufferSize)

\* copy_from_user, which leaves zeros when it fails; then the read position is reset.
WriteBegin(c, text) ==
  LET length == Fitting(text) IN
  \E copied \in {0, length} :
    /\ FileExists /\ Goto(c, "outside", "flip")
    /\ mem' = [k \in Cells |->
         IF k \notin 0..length - 1 THEN mem[k] ELSE IF k < copied THEN text[k + 1] ELSE Nul]
    /\ msgLength' = copied /\ readPos' = 0
    /\ line' = SubSeq(text, 1, copied) /\ out' = <<>>
    /\ stale' = (Find(mem, length, Nul) # length)
    /\ overlap' = ~Alone(c)
    /\ UNCHANGED <<loadVars, ws, se, take, fault>>

\* How much of the message is left (mutant: the position is ignored).  The difference is
\* unsigned: past the end it is larger than any length asked for.
Mut_Available(ask) == Smaller(ask, msgLength)
Available(ask) == IF readPos > msgLength THEN ask ELSE Smaller(ask, msgLength - readPos)

\* example_read up to copy_to_user, which may fail.
ReadBegin(c) ==
  \E ask \in Asks, fails \in BOOLEAN :
    LET length == IF fails THEN 0 ELSE Available(ask) IN
    /\ FileExists /\ Goto(c, "outside", "advance")
    /\ take' = [take EXCEPT ![c] = length]
    /\ overlap' = (overlap \/ ~Alone(c))
    /\ IF length > 0 /\ readPos + length > BufferSize
       THEN fault' = "read" /\ out' = <<>>
       ELSE /\ fault' = fault
            /\ out' = IF overlap' THEN <<>>
                      ELSE out \o [k \in 1..length |-> mem[readPos + k - 1]]
    /\ UNCHANGED <<bufferVars, loadVars, ws, se, line, stale>>

\* proc_msg_read_pos += length - left.
ReadEnd(c) ==
  /\ Goto(c, "advance", "outside")
  /\ readPos' = readPos + take[c]
  /\ take' = [take EXCEPT ![c] = 0]
  /\ UNCHANGED <<mem, msgLength, loadVars, ws, se, fault, histVars>>

Write(c, text) == WriteBegin(c, text) \/ ReverseString(c) \/ ReverseWord(c)
Read(c)        == ReadBegin(c) \/ ReadEnd(c)
Call(c)        == (\E text \in Lines : Write(c, text)) \/ Read(c)

-----------------------------------------------------------------------------
(* example_init and example_exit                                             *)

\* kmalloc, proc_mkdir, proc_create.
MakePart ==
  /\ phase \in {"absent", "loading"}
  /\ stack' = SubSeq(<<"buffer", "dir", "file">>, 1, Len(stack) + 1)
  /\ phase' = IF Len(stack) = 2 THEN "loaded" ELSE "loading"
  /\ UNCHANGED <<bufferVars, callVars, fault, histVars>>

\* Any of them may fail: goto error.  example_exit does the same.
Leave ==
  /\ phase \in {"absent", "loading", "loaded"}
  /\ phase' = "leaving"
  /\ UNCHANGED <<bufferVars, stack, callVars, fault, histVars>>

\* cleanup_proc_example and cleanup_buffer; remove_proc_entry waits for the calls inside.
DropPart ==
  /\ phase = "leaving" /\ stack # <<>>
  /\ FileExists => \A c \in Callers : pc[c] = "outside"
  /\ stack' = Front(stack)
  /\ msgLength' = IF stack' = <<>> THEN 0 ELSE msgLength
  /\ UNCHANGED <<mem, readPos, phase, callVars, fault, histVars>>

\* Nothing is left to clean up.
Left ==
  /\ phase = "leaving" /\ stack = <<>>
  /\ phase' = "gone"
  /\ UNCHANGED <<bufferVars, stack, callVars, fault, histVars>>

Load == MakePart \/ Leave \/ DropPart \/ Left

-----------------------------------------------------------------------------

Init ==
  /\ mem \in Heaps /\ msgLength = 0 /\ readPos = 0
  /\ phase = "absent" /\ stack = <<>>
  /\ pc = [c \in Callers |-> "outside"]
  /\ ws = [c \in Callers |-> 0] /\ se = [c \in Callers |-> 0]
  /\ take = [c \in Callers |-> 0]
  /\ fault = "none"
  /\ line = <<>> /\ out = <<>> /\ stale = FALSE /\ overlap = FALSE

Halted == (fault # "none" \/ phase = "gone") /\ UNCHANGED vars

Next == (fault = "none" /\ (Load \/ \E c \in Callers : Call(c))) \/ Halted

Spec == Init /\ [][Next]_vars

-----------------------------------------------------------------------------
(* Properties *)

\* A line as `echo' sends it, with no blank before the first or behind the last word.
WellFormed(l) ==
  /\ Len(l) > 1 /\ l[1] # Blank /\ l[Len(l) - 1] # Blank
  /\ \A k \in 1..Len(l) : l[k] # Nul /\ (l[k] = Newline <=> k = Len(l))

\* The words of a line in reverse order: the word that holds place k stands mirrored in
\* the line, but its letters keep their order.
WordStart(l, k) ==
  CHOOSE a \in 1..k : (\A b \in a..k : l[b] # Blank) /\ (a = 1 \/ l[a - 1] = Blank)
WordStop(l, k) ==
  CHOOSE b \in k..Len(l) - 1 : (\A a \in k..b : l[a] # Blank) /\ (b = Len(l) - 1 \/ l[b + 1] = Blank)
Source(l, k) == IF l[k] = Blank THEN k ELSE WordStart(l, k) + WordStop(l, k) - k
Reversed(l) ==
  [k \in 1..Len(l) |-> IF k = Len(l) THEN Newline ELSE toupper(l[Source(l, Len(l) - k)])]

IsPrefixOfReversed == out = SubSeq(Reversed(line), 1, Len(out))

SeveralWords(l) == \E k \in 1..Len(l) : l[k] = Blank

\* What is read back, in pieces of any length, is the line with its words in reverse
\* order, each byte once, when there are several words, no call ran beside the write and
\* the reads, and the line met a NUL behind it.
ReadsReversal ==
  ~overlap /\ ~stale /\ WellFormed(line) /\ SeveralWords(line) => IsPrefixOfReversed

\* MODULE_DESCRIPTION: "reverse order of words in string", whatever was in the buffer
\* before.  reverse_string runs to a NUL that example_write never puts.
ReversesWords ==
  ~overlap /\ WellFormed(line) /\ SeveralWords(line) => IsPrefixOfReversed

\* While such a line is dealt with, the bytes beside the buffer are neither written nor
\* does a loop run away.
CleanLineStaysInside ==
  [][~overlap' /\ ~stale' /\ WellFormed(line') =>
       mem'[-1] = mem[-1] /\ mem'[BufferSize] = mem[BufferSize] /\ fault' = "none"]_vars

\* ProcBuffer, whatever the message says.
LineLengths == {Len(text) : text \in Lines}
Plain == INSTANCE ProcBuffer WITH
  Lengths <- LineLengths,
  pc      <- [c \in Callers |-> CASE pc[c] \in {"flip", "word"} -> "write"
                                 [] pc[c] = "advance"         -> "read"
                                 [] OTHER                     -> "outside"],
  fault   <- IF fault = "read" THEN "read" ELSE "none"

\* The reversal in place keeps what the plain file promises: the lengths and the position
\* go their way, the parts come and go under the calls as there, and what calls that do not
\* overlap read stays inside of the message.
KeepsProcBuffer == Plain!Spec

=============================================================================
