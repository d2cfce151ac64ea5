----------------------------- MODULE Dispatcher -----------------------------
(***************************************************************************)
(* What the thread pool of exercise16/part01/threadpool.c promises to the  *)
(* user who types blocks: each is handed to one worker, in the order they  *)
(* were typed, and a worker finishes its block before it takes another.    *)
(* Blocks are numbered as they are submitted.                              *)
(***************************************************************************)
EXTENDS Naturals

CONSTANT Workers

VARIABLES
  count,     \* how many blocks were submitted
  taken,     \* how many of them, the oldest ones, were handed out
  running,   \* the block each worker is printing (0: none)
  finished   \* the blocks printed to the end

vars == <<count, taken, running, finished>>

Init ==
  /\ count = 0 /\ taken = 0
  /\ running = [w \in Workers |-> 0]
  /\ finished = {}

Submit == count' = count + 1 /\ UNCHANGED <<taken, running, finished>>

Take(w) ==
  /\ taken < count
  /\ running[w] = 0
  /\ taken' = taken + 1
  /\ running' = [running EXCEPT ![w] = taken + 1]
  /\ UNCHANGED <<count, finished>>

Finish(w) ==
  /\ running[w] # 0
  /\ finished' = finished \cup {running[w]}
  /\ running' = [running EXCEPT ![w] = 0]
  /\ UNCHANGED <<count, taken>>

Next == Submit \/ \E w \in Workers : Take(w) \/ Finish(w)

Spec == Init /\ [][Next]_vars

=============================================================================
