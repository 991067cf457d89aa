----------------------------- MODULE LineEditor -----------------------------
(***************************************************************************)
(* What the shell promises whoever types: a line that grows at its end and *)
(* shrinks there, is dropped when it gets too long, and is executed, blank *)
(* ends trimmed, on Enter.                                                 *)
(***************************************************************************)
EXTENDS Integers, Sequences

CONSTANTS MAX_LINE_LEN,   \* capacity of the line buffer (128)
          Characters      \* what keys can type, " " among them

VARIABLES line,       \* what has been typed since the prompt
          submitted   \* the line that the last key has executed, <<>> if none

vars == <<line, submitted>>

Blank(c) == c = " "

\* str::trim
Trim(s) ==
  LET solid == {k \in DOMAIN s : ~ Blank(s[k])}
  IN  IF solid = {} THEN <<>>
      ELSE SubSeq(s, CHOOSE k \in solid : \A j \in solid : k <= j, CHOOSE k \in solid : \A j \in solid : j <= k)

Init == line = <<>> /\ submitted = <<>>

Type(c) ==
  /\ line' = IF Len(line) < MAX_LINE_LEN THEN Append(line, c) ELSE <<>>
  /\ submitted' = <<>>

Erase == line' = SubSeq(line, 1, Len(line) - 1) /\ submitted' = <<>>

Submit == line' = <<>> /\ submitted' = Trim(line)

Next == (\E c \in Characters : Type(c)) \/ Erase \/ Submit

Spec == Init /\ [][Next]_vars
=============================================================================
