----------------------------- MODULE AbsConsole -----------------------------
(***************************************************************************)
(* What the console promises: the line being typed can be edited until it  *)
(* is complete; complete lines are read in order, each character once.     *)
(***************************************************************************)
EXTENDS Naturals, Sequences

CONSTANTS Chars, Size      \* Size: the characters that fit

VARIABLES
    complete,   \* characters of complete lines that were not read
    line        \* the line being typed

vars == <<complete, line>>

Init == complete = <<>> /\ line = <<>>

Room == Len(complete) + Len(line) < Size

\* A character; the last that fits, the end of a line and ^D complete the line.
Type(ch) ==
    /\ Room
    /\ IF ch \in {"newline", "^D"} \/ Len(complete) + Len(line) + 1 = Size
       THEN complete' = complete \o Append(line, ch) /\ line' = <<>>
       ELSE line' = Append(line, ch) /\ UNCHANGED complete

\* Backspace takes one character of the line away, ^U all of them.
Erase == line # <<>> /\ line' = SubSeq(line, 1, Len(line) - 1) /\ UNCHANGED complete

KillLine == line' = <<>> /\ UNCHANGED complete

Read == complete # <<>> /\ complete' = Tail(complete) /\ UNCHANGED line

Next == Erase \/ KillLine \/ Read \/ \E ch \in Chars : Type(ch)

Spec == Init /\ [][Next]_vars

=============================================================================
