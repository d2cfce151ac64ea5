----------------------------- MODULE ProcBuffer -----------------------------
(***************************************************************************)
(* exercise10/part01/rw.c: a file in /proc that keeps the last message     *)
(* written and hands it out piece by piece.  Length and read position are  *)
(* shared by all callers and not locked.  What the message says is left    *)
(* out; ProcReverse, which turns it around, implements this module.        *)
(***************************************************************************)
EXTENDS Integers, Sequences, SequencesExt

CONSTANTS
  Callers,      \* processes that read and write the file
  BufferSize,   \* BUFFER_SIZE
  Lengths,      \* the lengths they write
  Asks          \* the lengths they read

BufferAssumption == BufferSize \in Nat \ {0} /\ Lengths \subseteq Nat /\ Asks \subseteq Nat

VARIABLES
  phase,      \* of the module, as in LoadOrder
  stack,      \* which of "buffer", "dir" and "file" exist, in the order they were made
  pc,         \* each caller: "outside", "write" or "read"
  msgLength,  \* proc_msg_length
  readPos,    \* proc_msg_read_pos
  take,       \* length - left of example_read
  fault,      \* "none" or "read", a byte outside of the buffer
  overlap     \* history: a call ran beside the last write or a read since

loadVars == <<phase, stack>>
callVars == <<pc, msgLength, readPos, take, fault, overlap>>
vars == <<loadVars, callVars>>

Goto(c, here, there) == pc[c] = here /\ pc' = [pc EXCEPT ![c] = there]
Alone(c) == \A d \in Callers \ {c} : pc[d] = "outside"
Smaller(x, y) == IF x < y THEN x ELSE y
FileExists == Contains(stack, "file")

\* copy_from_user may stop anywhere; the position is reset (mutant: it is not).
Mut_PositionAfterWrite == readPos
PositionAfterWrite == 0

WriteBegin(c) ==
  /\ FileExists /\ Goto(c, "outside", "write")
  /\ \E length \in Lengths : \E copied \in 0..Smaller(length, BufferSize) : msgLength' = copied
  /\ readPos' = PositionAfterWrite
  /\ overlap' = ~Alone(c)
  /\ UNCHANGED <<loadVars, take, fault>>

WriteEnd(c) == Goto(c, "write", "outside") /\ UNCHANGED <<loadVars, msgLength, readPos, take, fault, overlap>>

\* How much of the message is left.  The difference is unsigned: past the end it is larger
\* than any length asked for.
Available(ask) == IF readPos > msgLength THEN ask ELSE Smaller(ask, msgLength - readPos)

\* copy_to_user, which may stop anywhere.
ReadBegin(c) ==
  /\ FileExists /\ Goto(c, "outside", "read")
  /\ \E ask \in Asks : \E copied \in 0..Available(ask) :
       /\ take' = [take EXCEPT ![c] = copied]
       /\ fault' = IF copied > 0 /\ readPos + copied > BufferSize THEN "read" ELSE fault
  /\ overlap' = (overlap \/ ~Alone(c))
  /\ UNCHANGED <<loadVars, msgLength, readPos>>

\* proc_msg_read_pos += length - left.
ReadEnd(c) ==
  /\ Goto(c, "read", "outside")
  /\ readPos' = readPos + take[c]
  /\ take' = [take EXCEPT ![c] = 0]
  /\ UNCHANGED <<loadVars, msgLength, fault, overlap>>

\* kmalloc, proc_mkdir, proc_create.
MakePart ==
  /\ phase \in {"absent", "loading"}
  /\ stack' = SubSeq(<<"buffer", "dir", "file">>, 1, Len(stack) + 1)
  /\ phase' = IF Len(stack) = 2 THEN "loaded" ELSE "loading"
  /\ UNCHANGED callVars

\* Any of them may fail: goto error.  example_exit does the same.
Leave ==
  /\ phase \in {"absent", "loading", "loaded"}
  /\ phase' = "leaving"
  /\ UNCHANGED <<stack, callVars>>

\* cleanup_proc_example and cleanup_buffer; remove_proc_entry waits for the calls inside.
DropPart ==
  /\ phase = "leaving" /\ stack # <<>>
  /\ FileExists => \A c \in Callers : pc[c] = "outside"
  /\ stack' = Front(stack)
  /\ msgLength' = IF stack' = <<>> THEN 0 ELSE msgLength
  /\ UNCHANGED <<phase, pc, readPos, take, fault, overlap>>

Left ==
  /\ phase = "leaving" /\ stack = <<>>
  /\ phase' = "gone"
  /\ UNCHANGED <<stack, callVars>>

-----------------------------------------------------------------------------

Init ==
  /\ phase = "absent" /\ stack = <<>>
  /\ pc = [c \in Callers |-> "outside"]
  /\ msgLength = 0 /\ readPos = 0 /\ take = [c \in Callers |-> 0]
  /\ fault = "none" /\ overlap = FALSE

Call(c) == WriteBegin(c) \/ WriteEnd(c) \/ ReadBegin(c) \/ ReadEnd(c)
Load == MakePart \/ Leave \/ DropPart \/ Left
Halted == (fault # "none" \/ phase = "gone") /\ UNCHANGED vars

Next == (fault = "none" /\ (Load \/ \E c \in Callers : Call(c))) \/ Halted

Spec == Init /\ [][Next]_vars

-----------------------------------------------------------------------------
(* Property *)

\* The read position passes the end of the message, and the unsigned difference wraps,
\* only when calls overlap: a write that is alone sets both right.
ReadsStayInMessage ==
  ~overlap /\ FileExists => fault # "read" /\ \A c \in Callers : readPos + take[c] <= msgLength

=============================================================================
