--------------------------- MODULE MCProcReverse ---------------------------
(***************************************************************************)
(* Lines and memory contents for TLC, and two ways to run the module: with *)
(* one caller and every line, or with callers that overlap and few lines.  *)
(***************************************************************************)
EXTENDS ProcReverse

VARIABLE racing   \* callers may overlap

Bodies(X, n) == UNION {[1..k -> X] : k \in 0..n}

\* Two words that fill the buffer, one word, and a blank at the end in a line that does not
\* fit.
FewLines == { <<"a", "b", Blank, "c", "b", Newline>>, <<"b", Newline>>,
              <<"a", "b", "a", "c", "b", Blank, Newline>> }
\* Every line of up to three letters and blanks, those of four that end in b, two that fill
\* the buffer, and two that do not end in a newline.
AllLines == {Append(body, Newline) : body \in Bodies({"a", "b", Blank}, 3)}
              \cup {Append(body, Newline) : body \in {Append(most, "b") : most \in [1..3 -> {"a", "b", Blank}]}}
              \cup {<<"a", "b", Blank, "c", "b", Newline>>, <<"a", Blank, "b", Blank, "c", Newline>>}
              \cup {<<"a", "b">>, <<"a", Blank>>} \cup FewLines
\* Every line of up to four letters and blanks.
DocLines == {Append(body, Newline) : body \in Bodies({"a", "b", Blank}, 4)}

Zeros == [k \in Cells |-> IF k = -1 THEN "c" ELSE Nul]
Full  == [k \in Cells |-> IF k = BufferSize - 1 THEN Blank ELSE "c"]
ZeroHeap == {Zeros}
BothHeaps == {Zeros, Full}

One == CHOOSE c \in Callers : TRUE
MCCall(c) == IF racing THEN (\E text \in FewLines : Write(c, text)) \/ Read(c)
             ELSE c = One /\ Call(c)

MCInit == Init /\ racing \in BOOLEAN
MCNext == /\ (fault = "none" /\ (Load \/ \E c \in Callers : MCCall(c))) \/ Halted
          /\ UNCHANGED racing
MCSpec == MCInit /\ [][MCNext]_<<vars, racing>>

=============================================================================
