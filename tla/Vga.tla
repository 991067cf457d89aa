-------------------------------- MODULE Vga ---------------------------------
(***************************************************************************)
(* render_boot_visual: the rectangles that are drawn on a framebuffer of   *)
(* any size, in u32 arithmetic.  The kernel is built with overflow checks  *)
(* (the dev profile), so a sum that does not fit panics.  One step per     *)
(* call from render_boot_visual; of a rectangle it is only kept how far    *)
(* right and down pixels were written.                                     *)
(***************************************************************************)
EXTENDS Integers

CONSTANTS U32_MAX,   \* the largest u32
          Sizes,     \* widths and heights of framebuffers
          Padding    \* bytes at the end of a row

\* 2^16 is more than the sum of all constants in the drawing.
ASSUME VgaAssumption ==
  /\ U32_MAX \in Nat /\ U32_MAX >= 65535
  /\ Sizes \subseteq 0 .. U32_MAX
  /\ Padding \subseteq Nat

VARIABLES fb,        \* FramebufferInfo
          pc,        \* the next call of render_boot_visual, or "done"
          written,   \* of each rectangle of the last call: the first column and row past it
          panicked   \* an addition has overflowed

draw_vars == <<fb, pc, written, panicked>>

Rect(x, y, width, height) == [x |-> x, y |-> y, width |-> width, height |-> height]

\* Mutant: wrapping_sub
SaturatingSub_Wrapping(a, b) == IF a >= b THEN a - b ELSE U32_MAX + 1 + a - b

\* u32::saturating_sub
SaturatingSub(a, b) == IF a >= b THEN a - b ELSE 0

Smaller(a, b) == IF a <= b THEN a ELSE b

\* A response of Limine whose pitch fits FramebufferInfo's u32; a row holds
\* at least its pixels, of at most four bytes.
DrawInit ==
  /\ \E width \in Sizes, height \in Sizes, padding \in Padding, bpp \in {24, 32} :
       /\ 4 * width + padding <= U32_MAX
       /\ fb = [width |-> width, height |-> height, pitch |-> 4 * width + padding, bpp |-> bpp]
  /\ pc = "background" /\ written = {} /\ panicked = FALSE

-----------------------------------------------------------------------------
(* fill_rect                                                               *)

\* x + width and y + height overflow, or the sum that gives x or y does
Overflows(r) ==
  \/ r.x > U32_MAX \/ r.y > U32_MAX
  \/ r.width # 0 /\ r.height # 0 /\ (r.x + r.width > U32_MAX \/ r.y + r.height > U32_MAX)

\* Mutant: the far edges are not clipped
Clipped_Never(r) == [right |-> r.x + r.width, bottom |-> r.y + r.height]

Clipped(r) == [right |-> Smaller(r.x + r.width, fb.width), bottom |-> Smaller(r.y + r.height, fb.height)]

\* Some pixel is written: neither of the loops is empty.
Visible(r) == r.width # 0 /\ r.height # 0 /\ r.x < Clipped(r).right /\ r.y < Clipped(r).bottom

FillRects(step, rects, next) ==
  /\ pc = step /\ ~ panicked
  /\ IF \E r \in rects : Overflows(r)
     THEN panicked' = TRUE /\ UNCHANGED <<pc, written>>
     ELSE /\ written' = {Clipped(r) : r \in {q \in rects : Visible(q)}}
          /\ pc' = next
          /\ UNCHANGED panicked
  /\ UNCHANGED fb

-----------------------------------------------------------------------------
(* render_boot_visual                                                      *)

PanelWidth  == SaturatingSub(fb.width, 120)
PanelHeight == Smaller(fb.height, 220)
PanelX      == 60
PanelY      == SaturatingSub(fb.height, PanelHeight) \div 2

\* The early return on a pixel format other than 32 bits
Unsupported == pc = "background" /\ fb.bpp # 32 /\ pc' = "done" /\ UNCHANGED <<fb, written, panicked>>

\* clear, and the two bars
Background ==
  /\ fb.bpp = 32
  /\ FillRects("background",
       {Rect(0, 0, fb.width, fb.height),
        Rect(0, 0, fb.width, 28),
        Rect(0, SaturatingSub(fb.height, 18), fb.width, 18)}, "panel")

Panel == FillRects("panel", {Rect(PanelX, PanelY, PanelWidth, PanelHeight)}, "border")

\* stroke_rect, 4 thick
StrokeRect ==
  FillRects("border",
    {Rect(PanelX, PanelY, PanelWidth, 4),
     Rect(PanelX, PanelY + SaturatingSub(PanelHeight, 4), PanelWidth, 4),
     Rect(PanelX, PanelY, 4, PanelHeight),
     Rect(PanelX + SaturatingSub(PanelWidth, 4), PanelY, 4, PanelHeight)}, "lines")

Lines ==
  FillRects("lines",
    {Rect(PanelX + 28, PanelY + 28,  SaturatingSub(PanelWidth, 56),  10),
     Rect(PanelX + 28, PanelY + 58,  SaturatingSub(PanelWidth, 140), 18),
     Rect(PanelX + 28, PanelY + 92,  SaturatingSub(PanelWidth, 72),  10),
     Rect(PanelX + 28, PanelY + 116, SaturatingSub(PanelWidth, 180), 10),
     Rect(PanelX + 28, PanelY + 140, SaturatingSub(PanelWidth, 240), 10)}, "mark")

\* draw_mark of size 36
DrawMark ==
  LET x == PanelX + SaturatingSub(PanelWidth, 84)
      y == PanelY + 38
  IN  FillRects("mark", {Rect(x, y + 12, 12, 24), Rect(x + 12, y, 12, 36), Rect(x + 24, y + 12, 12, 24)}, "progress")

\* width.saturating_mul(2) / 5
Filled(width) == Smaller(width * 2, U32_MAX) \div 5

DrawProgress ==
  LET x     == PanelX + 28
      y     == PanelY + SaturatingSub(PanelHeight, 42)
      width == SaturatingSub(PanelWidth, 56)
  IN  FillRects("progress",
        {Rect(x, y, width, 12),
         Rect(x, y, Filled(width), 12),
         Rect(x + SaturatingSub(Filled(width), 7), SaturatingSub(y, 4), 14, 20)}, "surface")

Surface ==
  FillRects("surface", {Rect(64, SaturatingSub(fb.height, 84), SaturatingSub(fb.width, 128), 48)}, "done")

\* redraw_boot_shell_surface, on the command `clear`
Redraw == pc = "done" /\ pc' = "background" /\ UNCHANGED <<fb, written, panicked>>

DrawNext ==
  \/ Unsupported \/ Background \/ Panel \/ StrokeRect \/ Lines \/ DrawMark \/ DrawProgress \/ Surface
  \/ Redraw

DrawSpec == DrawInit /\ [][DrawNext]_draw_vars

-----------------------------------------------------------------------------
(* Properties                                                              *)

(* No sum in the drawing overflows, however small or large the framebuffer *)
(* is: render_boot_visual never panics, so a panic cannot hit the kernel   *)
(* in framebuffer::initialize or under the locks of the command `clear`.   *)
NeverPanics == ~ panicked

(* Every pixel that is written is inside the framebuffer: in an existing   *)
(* row, and with all its four bytes in that row's pitch.                   *)
DrawsInside == \A e \in written : e.bottom <= fb.height /\ 4 * e.right <= fb.pitch
=============================================================================
