------------------------------ MODULE Exchange ------------------------------
(***************************************************************************)
(* task05/part02/exchange.c: an amount written to /proc/task05/uah_to_eu   *)
(* or eu_to_uah is read back from the same file in the other currency, at  *)
(* a rate kept in the class file `exchange'.                               *)
(*                                                                         *)
(* Nothing is locked.  Both files form their texts in proc_buffer, which   *)
(* is also where a written amount is scanned; every read computes the      *)
(* result again, into fields that all readers of the file share.  A call   *)
(* is cut where another one can interfere.  A division by zero, a class    *)
(* that cannot be made, and a call into a module that is gone, end the run *)
(* with a fault.                                                           *)
(***************************************************************************)
EXTENDS Integers, FiniteSets

CONSTANTS
  Procs,        \* processes that use the files
  IntMax,       \* the largest int
  InitialRate,  \* current_exchange_rate as compiled in
  Rates,        \* the rates that are set
  Inputs,       \* what is written: [seen, whole], the number sscanf finds in the 16
                \* bytes that are copied, and whether it is all that the user wrote
  NoNumber,     \* sscanf finds none
  Unknown,      \* an amount that came about in a race
  MaxWrites     \* bound: the number of amounts written in a run

ASSUME ExchangeAssumption ==
  /\ IsFiniteSet(Procs) /\ MaxWrites \in Nat
  /\ IntMax \in Nat /\ InitialRate \in -IntMax..IntMax /\ Rates \subseteq -IntMax..IntMax
  /\ Inputs \subseteq [seen : -IntMax..IntMax \cup {NoNumber}, whole : BOOLEAN]

Currency == {"uah", "eu"}
Other == [uah |-> "eu", eu |-> "uah"]

VARIABLES
  amount, l, r,  \* the fields of struct currency_t, of both currencies
  rd, wr,        \* its fields read and write
  rate,          \* current_exchange_rate
  buf,           \* proc_buffer: [num, out], the number sscanf finds in it and the text
                 \* that a reader gets
  module,        \* what e_init makes next, or "loaded", "undo", "leaving", "failed",
                 \* "unloaded"
  parts,         \* which of "class", "buffer", "dir", "uah" and "eu" exist
  pc,            \* each process: "idle"; "right", "test", "print", "copy", "return" in
                 \* a read; "reset", "fill", "scan" in a write; "end" for flag resets
  cur,           \* the file it called, or "none"
  n,             \* the local n of the conversion
  out,           \* the text it was given
  fault,
  writes,        \* history: the number of amounts written
  stored,        \* history: the amount the user last wrote, or Unknown
  whole,         \* history: what each write copied was all that the user wrote
  clean          \* history: during its call there was no other, but for clean reads of
                 \* the same file
currencyVars == <<amount, l, r, rd, wr>>
callVars == <<cur, n, out, whole>>
vars == <<currencyVars, rate, buf, module, parts, pc, callVars, fault, writes, stored, clean>>

-----------------------------------------------------------------------------
(* Conversions, in int                                                       *)

\* Division in C: towards zero.
Quot(a, b) == LET q == (IF a < 0 THEN -a ELSE a) \div (IF b < 0 THEN -b ELSE b)
              IN  IF (a < 0) = (b < 0) THEN q ELSE -q
Rem(a, b) == a - b * Quot(a, b)

\* What an int keeps of a product.
Wrapped(a) == ((a + IntMax + 1) % (2 * (IntMax + 1))) - (IntMax + 1)

\* uah_to_eu (mutant: divide first).
Mut_UahToEu(a) == Wrapped(100 * Quot(a, rate))
UahToEu(a) == Quot(Wrapped(100 * a), rate)
EuToUah(a) == Wrapped(Wrapped(100 * a) * rate)
Converted(c) == IF c = "uah" THEN UahToEu(amount[c]) ELSE EuToUah(amount[c])

-----------------------------------------------------------------------------
(* Reading a file                                                            *)

Goto(p, here, there) == pc[p] = here /\ pc' = [pc EXCEPT ![p] = there]
Calling == {p \in Procs : pc[p] # "idle"}
Return(p, here) ==
  /\ Goto(p, here, "idle")
  /\ cur' = [cur EXCEPT ![p] = "none"] /\ clean' = [clean EXCEPT ![p] = FALSE]
ReadStates == {"right", "test", "print", "copy", "return"}
ReadsWith(q, c) == pc[q] \in ReadStates \cup {"end"} /\ cur[q] = c /\ clean[q]

\* uah_to_eu_read and eu_to_uah_read convert before anything else: to.l is set.
ReadBegin(p) ==
  \E c \in Currency :
    /\ c \in parts /\ Goto(p, "idle", "right")
    /\ cur' = [cur EXCEPT ![p] = c]
    /\ clean' = [q \in Procs |->
         IF q = p THEN \A o \in Calling : ReadsWith(o, c) ELSE clean[q] /\ ReadsWith(q, c)]
    /\ IF c = "uah" /\ rate = 0
       THEN fault' = "division" /\ UNCHANGED <<n, l>>
       ELSE /\ fault' = fault
            /\ n' = [n EXCEPT ![p] = Converted(c)]
            /\ l' = [l EXCEPT ![Other[c]] = Quot(Converted(c), 100)]
    /\ UNCHANGED <<amount, r, rd, wr, rate, buf, module, parts, out, writes, stored, whole>>

ReadRight(p) ==
  /\ Goto(p, "right", "test")
  /\ r' = [r EXCEPT ![Other[cur[p]]] = Rem(n[p], 100)]
  /\ n' = [n EXCEPT ![p] = 0]
  /\ UNCHANGED <<amount, l, rd, wr, rate, buf, module, parts, cur, out, whole, fault, writes,
                 stored, clean>>

\* if (from->read).
ReadTest(p) ==
  /\ pc[p] = "test"
  /\ pc' = [pc EXCEPT ![p] = IF rd[cur[p]] THEN "end" ELSE "print"]
  /\ UNCHANGED <<currencyVars, rate, buf, module, parts, callVars, fault, writes, stored, clean>>

\* from->read = 0; return 0.
ReadEnd(p) ==
  /\ Return(p, "end")
  /\ rd' = [rd EXCEPT ![cur[p]] = FALSE]
  /\ UNCHANGED <<amount, l, r, wr, rate, buf, module, parts, n, out, whole, fault, writes,
                 stored>>

\* from->read = 1; sprintf of to->l and to->r.
Printed(c) == Other[c]

ReadPrint(p) ==
  /\ Goto(p, "print", "copy")
  /\ rd' = [rd EXCEPT ![cur[p]] = TRUE]
  /\ buf' = LET c == Printed(cur[p]) IN [num |-> l[c], out |-> <<l[c], r[c]>>]
  /\ UNCHANGED <<amount, l, r, wr, rate, module, parts, callVars, fault, writes, stored, clean>>

\* copy_to_user.
ReadCopy(p) ==
  /\ Goto(p, "copy", "return")
  /\ out' = [out EXCEPT ![p] = buf.out]
  /\ UNCHANGED <<currencyVars, rate, buf, module, parts, cur, n, whole, fault, writes, stored,
                 clean>>

ReadReturn(p) ==
  /\ Return(p, "return")
  /\ out' = [out EXCEPT ![p] = <<>>]
  /\ UNCHANGED <<currencyVars, rate, buf, module, parts, n, whole, fault, writes, stored>>

-----------------------------------------------------------------------------
(* Writing a file, and setting the rate                                      *)

\* if (from->write): every second call of a file only resets the flag and returns 0.
WriteBegin(p) ==
  \E c \in Currency :
    /\ c \in parts /\ pc[p] = "idle" /\ (wr[c] \/ writes < MaxWrites)
    /\ pc' = [pc EXCEPT ![p] = IF wr[c] THEN "reset" ELSE "fill"]
    /\ cur' = [cur EXCEPT ![p] = c]
    /\ clean' = [q \in Procs |-> q = p /\ Calling = {}]
    /\ writes' = IF wr[c] THEN writes ELSE writes + 1
    /\ UNCHANGED <<currencyVars, rate, buf, module, parts, n, out, whole, fault, stored>>

WriteReset(p) ==
  /\ Return(p, "reset")
  /\ wr' = [wr EXCEPT ![cur[p]] = FALSE]
  /\ UNCHANGED <<amount, l, r, rd, rate, buf, module, parts, n, out, whole, fault, writes,
                 stored>>

\* from->write = 1; copy_from_user of BUFFER_SIZE bytes, however long the text is.
WriteFill(p) ==
  \E input \in Inputs :
    /\ Goto(p, "fill", "scan")
    /\ wr' = [wr EXCEPT ![cur[p]] = TRUE]
    /\ buf' = [num |-> input.seen, out |-> <<>>]
    /\ whole' = [whole EXCEPT ![p] = input.whole]
    /\ UNCHANGED <<amount, l, r, rd, rate, module, parts, cur, n, out, fault, writes, stored,
                   clean>>

\* sscanf: without a number the amount stays.
WriteScan(p) ==
  /\ Return(p, "scan")
  /\ amount' = IF buf.num = NoNumber THEN amount ELSE [amount EXCEPT ![cur[p]] = buf.num]
  /\ stored' = IF clean[p] /\ buf.num = NoNumber THEN stored
               ELSE [stored EXCEPT ![cur[p]] = IF clean[p] /\ whole[p] THEN buf.num ELSE Unknown]
  /\ whole' = [whole EXCEPT ![p] = FALSE]
  /\ UNCHANGED <<l, r, rd, wr, rate, buf, module, parts, n, out, fault, writes>>

\* exchange_store.
StoreRate ==
  /\ "class" \in parts
  /\ rate' \in Rates
  /\ clean' = [q \in Procs |-> FALSE]
  /\ fault' = IF module = "failed" THEN "code" ELSE fault
  /\ UNCHANGED <<currencyVars, buf, module, parts, pc, callVars, writes, stored>>

Call(p) ==
  \/ ReadBegin(p) \/ ReadRight(p) \/ ReadTest(p) \/ ReadEnd(p)
  \/ ReadPrint(p) \/ ReadCopy(p) \/ ReadReturn(p)
  \/ WriteBegin(p) \/ WriteReset(p) \/ WriteFill(p) \/ WriteScan(p)

-----------------------------------------------------------------------------
(* e_init and e_exit                                                         *)

Following == [class |-> "buffer", buffer |-> "dir", dir |-> "uah", uah |-> "eu", eu |-> "loaded"]

\* A class file that cannot be created goes unnoticed; without a class the call for the
\* file follows an error as a pointer.
MakePart ==
  /\ module \in DOMAIN Following
  /\ module' = Following[module]
  /\ \/ parts' = parts \cup {module} /\ fault' = fault
     \/ module = "class" /\ parts' = parts /\ fault' \in {"none", "class"}
  /\ UNCHANGED <<currencyVars, rate, buf, pc, callVars, writes, stored, clean>>

\* goto error, or e_exit.
Leave ==
  /\ \/ module \in DOMAIN Following \ {"class"} /\ module' = "undo"
     \/ module = "loaded" /\ module' = "leaving"
  /\ UNCHANGED <<currencyVars, rate, buf, parts, pc, callVars, fault, writes, stored, clean>>

\* The order of cleanup; the class file is last in e_exit, and forgotten after an error
\* (mutant: the buffer before the second file).
Mut_CleanupOrder == <<"uah", "buffer", "eu", "dir", "class">>
CleanupOrder == <<"uah", "eu", "dir", "buffer", "class">>
ToDrop == IF module = "undo" THEN parts \ {"class"} ELSE parts

\* remove_proc_entry waits for the calls inside.
DropPart ==
  /\ module \in {"undo", "leaving"}
  /\ \E k \in DOMAIN CleanupOrder :
       /\ CleanupOrder[k] \in ToDrop
       /\ \A j \in 1..k - 1 : CleanupOrder[j] \notin ToDrop
       /\ \A p \in Calling : cur[p] # CleanupOrder[k]
       /\ parts' = parts \ {CleanupOrder[k]}
  /\ UNCHANGED <<currencyVars, rate, buf, module, pc, callVars, fault, writes, stored, clean>>

Left ==
  /\ ToDrop = {}
  /\ \/ module = "undo" /\ module' = "failed"
     \/ module = "leaving" /\ module' = "unloaded"
  /\ UNCHANGED <<currencyVars, rate, buf, parts, pc, callVars, fault, writes, stored, clean>>

Load == MakePart \/ Leave \/ DropPart \/ Left

-----------------------------------------------------------------------------

Init ==
  /\ amount = [c \in Currency |-> 0]
  /\ l = [c \in Currency |-> 0] /\ r = [c \in Currency |-> 0]
  /\ rd = [c \in Currency |-> FALSE] /\ wr = [c \in Currency |-> FALSE]
  /\ rate = InitialRate
  /\ buf = [num |-> NoNumber, out |-> <<>>]
  /\ module = "class" /\ parts = {}
  /\ pc = [p \in Procs |-> "idle"] /\ cur = [p \in Procs |-> "none"]
  /\ n = [p \in Procs |-> 0] /\ out = [p \in Procs |-> <<>>]
  /\ fault = "none"
  /\ writes = 0 /\ stored = [c \in Currency |-> 0]
  /\ whole = [p \in Procs |-> FALSE] /\ clean = [p \in Procs |-> FALSE]

Halted == (fault # "none" \/ module \in {"unloaded", "failed"}) /\ UNCHANGED vars

Next == (fault = "none" /\ (Load \/ StoreRate \/ \E p \in Procs : Call(p))) \/ Halted

Spec == Init /\ [][Next]_vars

-----------------------------------------------------------------------------
(* Properties *)

Abs(a) == IF a < 0 THEN -a ELSE a

\* The value of a units in the other currency is `left' whole units and `right'
\* hundredths, both with its sign: rounded towards zero for uah, exact for eu.
Worth(c, a, left, right) ==
  LET cents == 100 * Abs(left) + Abs(right)
      positive == (a >= 0) = (rate >= 0)
  IN  /\ Abs(right) < 100
      /\ IF positive THEN left >= 0 /\ right >= 0 ELSE left <= 0 /\ right <= 0
      /\ IF c = "uah"
         THEN cents * Abs(rate) <= 100 * Abs(a) /\ 100 * Abs(a) < (cents + 1) * Abs(rate)
         ELSE cents = 100 * Abs(a * rate)

Fits(c, a) == 100 * Abs(a) <= IntMax /\ (c = "eu" => 100 * Abs(a * rate) <= IntMax)

\* The two numbers that are read, as sprintf puts them before and behind the point, are
\* the worth, at the present rate, of the amount last written to the file: readers of
\* one file may overlap as they like, though they share the result and the buffer, so
\* long as nothing else is called meanwhile.
ReadsWorth ==
  \A p \in Procs :
    LET c == cur[p] IN
    pc[p] = "return" /\ clean[p] /\ stored[c] # Unknown /\ Fits(c, stored[c]) =>
      Worth(c, stored[c], out[p][1], out[p][2])

\* No call is inside the module when the buffer is freed, and what is left of a module
\* that failed to load, or was unloaded, is at most the class file.
BufferOutlivesCalls ==
  /\ Calling # {} => "buffer" \in parts
  /\ module \in {"failed", "unloaded"} => parts \subseteq {"class"}

=============================================================================
