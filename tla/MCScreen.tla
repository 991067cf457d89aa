------------------------------ MODULE MCScreen ------------------------------
(* The drawing on framebuffers of many sizes, and then typing on a keyboard *)
(* with few keys, for TLC.                                                 *)
EXTENDS Console, Vga

\* Sizes at the edges of every constant in the drawing and of u32, scaled to
\* 16 bits: TLC's integers are of 32 bits.
EdgeSizes ==
  {0, 1, 3, 4, 5, 17, 18, 41, 42, 63, 64, 83, 84, 119, 120, 121, 124, 128, 176, 204, 219, 220, 221, 300, 480, 1024}
    \cup (16384 - 20 .. 16384) \cup (65535 - 3 .. 65535)

MCShiftKeys    == {"left", "right"}
MCExtendedKeys == {"print"}

\* Enough to spell commands on files; one key types "cat" or, shifted, "rm"
MCKeys    == {"write", "cat", "a", "space"}
MCPlain   == [write |-> "write", cat |-> "cat", a |-> "a", space |-> " "]
MCShifted == [write |-> "write", cat |-> "rm", a |-> "a", space |-> " "]

\* Lines that others print mix with lines of up to LONG_LINE, and the keys of
\* Shift other than one with a single character.
LONG_LINE == 2

Typing ==
  /\ Next
  /\ len' > LONG_LINE => ~ booting' /\ torn' = 0
  /\ len' > 1 \/ torn' > 0 => held' \subseteq {"left"}

\* Typing and drawing share no state, so typing follows on one of the screens.
Screens == {[width |-> 1024, height |-> 1024, pitch |-> 4096, bpp |-> 24]}

MCInit == Init /\ DrawInit

MCSpec ==
  /\ MCInit
  /\ [][\/ ~ initialized /\ held = {} /\ DrawNext /\ UNCHANGED vars
        \/ pc = "done" /\ fb \in Screens /\ Typing /\ UNCHANGED draw_vars]_<<vars, draw_vars>>
=============================================================================
