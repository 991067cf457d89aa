---------------------------- MODULE ScreenProofs ----------------------------
(***************************************************************************)
(* Proofs about what is on the screen: Vga, for every size of framebuffer, *)
(* and Console, for every keyboard layout, shift and extended keys and     *)
(* line length.                                                            *)
(*                                                                         *)
(* Vga: the boot visual neither overflows u32 nor leaves the framebuffer.  *)
(* Console: TerminalShowsLine compares parts of two texts; the inductive   *)
(* invariant (LineInv) says the same cell by cell, which is what putting   *)
(* and erasing a character relies on.                                      *)
(***************************************************************************)
EXTENDS Console, Vga, TLAPS, SequenceTheorems, WellFoundedInduction

-----------------------------------------------------------------------------
(* The boot visual                                                         *)

\* Sizes are u32, and a row has room for its pixels.
Framebuffer ==
  /\ fb.width \in 0 .. U32_MAX /\ fb.height \in 0 .. U32_MAX
  /\ fb.pitch \in Nat /\ 4 * fb.width <= fb.pitch

DrawInv == Framebuffer /\ NeverPanics /\ DrawsInside

\* A rectangle with coordinates in range that may reach past the framebuffer
Sound(r) ==
  /\ r.x \in Nat /\ r.y \in Nat /\ r.width \in Nat /\ r.height \in Nat
  /\ r.x + r.width <= U32_MAX /\ r.y + r.height <= U32_MAX

(* fill_rect clips at the far edges, so drawing rectangles whose far edges *)
(* fit a u32 keeps the invariant.                                          *)
LEMMA FillSound ==
  ASSUME DrawInv, NEW step, NEW rects, NEW next, FillRects(step, rects, next), \A r \in rects : Sound(r)
  PROVE  DrawInv'
<1>1. \A r \in rects : ~ Overflows(r)
  BY VgaAssumption DEF Sound, Overflows
<1>2. /\ UNCHANGED <<fb, panicked>>
      /\ written' = {Clipped(r) : r \in {q \in rects : Visible(q)}}
  BY <1>1 DEF FillRects
<1>3. \A r \in rects : Clipped(r).right <= fb.width /\ Clipped(r).bottom <= fb.height
                       /\ Clipped(r).right \in Nat /\ Clipped(r).bottom \in Nat
  BY DEF Sound, Clipped, Smaller, DrawInv, Framebuffer
<1>4. \A e \in written' : e.bottom <= fb.height /\ 4 * e.right <= fb.pitch
  <2> SUFFICES ASSUME NEW e \in written' PROVE e.bottom <= fb.height /\ 4 * e.right <= fb.pitch
    OBVIOUS
  <2>1. PICK r \in rects : e = Clipped(r)
    BY <1>2
  <2>2. /\ e.right <= fb.width /\ e.bottom <= fb.height /\ e.right \in Nat
    BY <2>1, <1>3
  <2> QED BY <2>2 DEF DrawInv, Framebuffer
<1> QED BY <1>2, <1>4 DEF DrawInv, Framebuffer, NeverPanics, DrawsInside

(* Saturating subtraction stays between zero and what it subtracts from,   *)
(* and restores at most that, or the subtrahend, when it is added back.    *)
LEMMA Saturating ==
  ASSUME NEW a \in Nat, NEW b \in Nat
  PROVE  /\ SaturatingSub(a, b) \in Nat
         /\ SaturatingSub(a, b) <= a
         /\ SaturatingSub(a, b) = 0 \/ SaturatingSub(a, b) + b = a
  BY DEF SaturatingSub

(* The panel lies within the framebuffer, or is empty beside it.           *)
LEMMA PanelBounds ==
  ASSUME Framebuffer
  PROVE  /\ PanelWidth \in Nat /\ PanelHeight \in Nat /\ PanelY \in Nat /\ PanelX = 60
         /\ PanelWidth = 0 \/ PanelWidth + 120 <= U32_MAX
         /\ PanelHeight <= 220
         /\ PanelY + PanelHeight <= U32_MAX
         /\ PanelY = 0 \/ PanelY + 220 <= U32_MAX
<1>1. fb.width \in Nat /\ fb.width <= U32_MAX /\ fb.height \in Nat /\ fb.height <= U32_MAX /\ U32_MAX \in Nat
  BY VgaAssumption DEF Framebuffer
<1>2. PanelHeight \in Nat /\ PanelHeight <= 220 /\ PanelHeight <= fb.height
  BY <1>1 DEF PanelHeight, Smaller
<1>3. PanelWidth \in Nat /\ (PanelWidth = 0 \/ PanelWidth + 120 <= U32_MAX)
  BY <1>1 DEF PanelWidth, SaturatingSub
<1>4. SaturatingSub(fb.height, PanelHeight) = fb.height - PanelHeight
  BY <1>1, <1>2 DEF SaturatingSub
<1>5. PanelY \in Nat /\ PanelY <= fb.height - PanelHeight
  BY <1>1, <1>2, <1>4 DEF PanelY
<1>6. PanelY = 0 \/ PanelHeight = 220
  BY <1>1, <1>2, <1>4 DEF PanelY, PanelHeight, Smaller
<1> QED BY <1>1, <1>2, <1>3, <1>5, <1>6 DEF PanelX

(* Every framebuffer of the initial states is one, and nothing is drawn.   *)
LEMMA DrawInitInv == DrawInit => DrawInv
  BY VgaAssumption DEF DrawInit, DrawInv, Framebuffer, NeverPanics, DrawsInside

(* Each call of render_boot_visual draws rectangles that fit.              *)
LEMMA DrawInvNext == DrawInv /\ [DrawNext]_draw_vars => DrawInv'
<1> SUFFICES ASSUME DrawInv, [DrawNext]_draw_vars PROVE DrawInv'
  OBVIOUS
<1>1. /\ U32_MAX \in Nat /\ U32_MAX >= 65535
      /\ fb.width \in Nat /\ fb.width <= U32_MAX /\ fb.height \in Nat /\ fb.height <= U32_MAX
  BY VgaAssumption DEF DrawInv, Framebuffer
<1>2. /\ PanelWidth \in Nat /\ PanelHeight \in Nat /\ PanelY \in Nat /\ PanelX = 60
      /\ PanelWidth = 0 \/ PanelWidth + 120 <= U32_MAX
      /\ PanelHeight <= 220
      /\ PanelY + PanelHeight <= U32_MAX
      /\ PanelY = 0 \/ PanelY + 220 <= U32_MAX
  BY PanelBounds DEF DrawInv
<1>3. CASE Background
  <2>1. SaturatingSub(fb.height, 18) \in Nat /\ SaturatingSub(fb.height, 18) + 18 <= U32_MAX
    BY <1>1 DEF SaturatingSub
  <2>2. Sound(Rect(0, 0, fb.width, fb.height)) /\ Sound(Rect(0, 0, fb.width, 28))
    BY <1>1 DEF Sound, Rect
  <2>3. Sound(Rect(0, SaturatingSub(fb.height, 18), fb.width, 18))
    BY <1>1, <2>1 DEF Sound, Rect
  <2> QED BY <1>3, <2>2, <2>3, FillSound DEF Background
<1>4. CASE Panel
  <2>1. Sound(Rect(PanelX, PanelY, PanelWidth, PanelHeight))
    BY <1>1, <1>2 DEF Sound, Rect
  <2> QED BY <1>4, <2>1, FillSound DEF Panel
<1>5. CASE StrokeRect
  <2>1. /\ SaturatingSub(PanelHeight, 4) \in Nat
        /\ SaturatingSub(PanelHeight, 4) = 0 \/ SaturatingSub(PanelHeight, 4) + 4 = PanelHeight
        /\ SaturatingSub(PanelWidth, 4) \in Nat
        /\ SaturatingSub(PanelWidth, 4) <= PanelWidth
    BY <1>2, Saturating, Zenon
  <2>2. PanelY + 4 <= U32_MAX
    BY <1>1, <1>2
  <2>3. Sound(Rect(PanelX, PanelY, PanelWidth, 4)) /\ Sound(Rect(PanelX, PanelY, 4, PanelHeight))
    BY <1>1, <1>2, <2>2 DEF Sound, Rect
  <2>4. Sound(Rect(PanelX, PanelY + SaturatingSub(PanelHeight, 4), PanelWidth, 4))
    BY <1>1, <1>2, <2>1, <2>2 DEF Sound, Rect
  <2>5. Sound(Rect(PanelX + SaturatingSub(PanelWidth, 4), PanelY, 4, PanelHeight))
    BY <1>1, <1>2, <2>1 DEF Sound, Rect
  <2> QED BY <1>5, <2>3, <2>4, <2>5, FillSound DEF StrokeRect
<1>6. CASE Lines
  <2>1. ASSUME NEW y \in {28, 58, 92, 116, 140}, NEW narrower \in Nat, NEW h \in {10, 18}
        PROVE  Sound(Rect(PanelX + 28, PanelY + y, SaturatingSub(PanelWidth, narrower), h))
    <3>1. SaturatingSub(PanelWidth, narrower) \in Nat /\ SaturatingSub(PanelWidth, narrower) <= PanelWidth
      BY <1>2, Saturating, SMTT(40)
    <3>2. y \in Nat /\ y <= 140 /\ h \in Nat /\ h <= 18
      BY <2>1
    <3> QED BY <1>1, <1>2, <3>1, <3>2 DEF Sound, Rect
  <2> QED BY <1>6, <2>1, FillSound DEF Lines
<1>7. CASE DrawMark
  <2> DEFINE x == PanelX + SaturatingSub(PanelWidth, 84)
             y == PanelY + 38
  <2>1. SaturatingSub(PanelWidth, 84) \in Nat /\ SaturatingSub(PanelWidth, 84) <= PanelWidth
    BY <1>2, Saturating, SMTT(40)
  <2>2. x \in Nat /\ x + 36 <= U32_MAX /\ y \in Nat /\ y + 36 <= U32_MAX
    BY <1>1, <1>2, <2>1
  <2>3. FillRects("mark", {Rect(x, y + 12, 12, 24), Rect(x + 12, y, 12, 36), Rect(x + 24, y + 12, 12, 24)}, "progress")
    BY <1>7 DEF DrawMark
  <2> HIDE DEF x, y
  <2>4. Sound(Rect(x, y + 12, 12, 24)) /\ Sound(Rect(x + 12, y, 12, 36)) /\ Sound(Rect(x + 24, y + 12, 12, 24))
    BY <1>1, <2>2 DEF Sound, Rect
  <2> QED BY <2>3, <2>4, FillSound
<1>8. CASE DrawProgress
  <2> DEFINE x     == PanelX + 28
             y     == PanelY + SaturatingSub(PanelHeight, 42)
             width == SaturatingSub(PanelWidth, 56)
  <2>1. /\ SaturatingSub(PanelHeight, 42) \in Nat
        /\ SaturatingSub(PanelHeight, 42) <= PanelHeight
        /\ SaturatingSub(PanelHeight, 42) = 0 \/ SaturatingSub(PanelHeight, 42) + 42 = PanelHeight
        /\ width \in Nat /\ width <= PanelWidth
    BY <1>2, Saturating, ZenonT(40)
  <2>2. x = 88 /\ x + width <= U32_MAX
    BY <1>1, <1>2, <2>1
  <2>3. y \in Nat /\ y + 20 <= U32_MAX
    BY <1>1, <1>2, <2>1
  <2>4. FillRects("progress",
          {Rect(x, y, width, 12), Rect(x, y, Filled(width), 12),
           Rect(x + SaturatingSub(Filled(width), 7), SaturatingSub(y, 4), 14, 20)}, "surface")
    BY <1>8 DEF DrawProgress
  <2> HIDE DEF x, y, width
  <2>5. Filled(width) \in Nat /\ Filled(width) <= width
    BY <1>1, <2>1 DEF Filled, Smaller
  <2>6. /\ SaturatingSub(Filled(width), 7) \in Nat
        /\ SaturatingSub(Filled(width), 7) = 0 \/ SaturatingSub(Filled(width), 7) + 7 = Filled(width)
        /\ SaturatingSub(y, 4) \in Nat /\ SaturatingSub(y, 4) <= y
    BY <2>3, <2>5, Saturating, Zenon
  <2>7. x + SaturatingSub(Filled(width), 7) + 14 <= U32_MAX
    <3>1. 2 * Filled(width) <= width
      BY <1>1, <2>1 DEF Filled, Smaller
    <3> QED BY <1>1, <2>1, <2>2, <2>5, <2>6, <3>1
  <2>8. Sound(Rect(x, y, width, 12)) /\ Sound(Rect(x, y, Filled(width), 12))
    BY <1>1, <2>1, <2>2, <2>3, <2>5 DEF Sound, Rect
  <2>9. Sound(Rect(x + SaturatingSub(Filled(width), 7), SaturatingSub(y, 4), 14, 20))
    BY <1>1, <2>2, <2>3, <2>6, <2>7 DEF Sound, Rect
  <2> QED BY <2>4, <2>8, <2>9, FillSound
<1>9. CASE Surface
  <2>1. /\ SaturatingSub(fb.height, 84) \in Nat
        /\ SaturatingSub(fb.height, 84) = 0 \/ SaturatingSub(fb.height, 84) + 84 = fb.height
        /\ SaturatingSub(fb.width, 128) \in Nat
        /\ SaturatingSub(fb.width, 128) = 0 \/ SaturatingSub(fb.width, 128) + 128 = fb.width
    BY <1>1 DEF SaturatingSub
  <2>2. Sound(Rect(64, SaturatingSub(fb.height, 84), SaturatingSub(fb.width, 128), 48))
    BY <1>1, <2>1 DEF Sound, Rect
  <2> QED BY <1>9, <2>2, FillSound DEF Surface
<1>10. CASE Unsupported \/ Redraw \/ UNCHANGED draw_vars
  BY <1>10 DEF Unsupported, Redraw, draw_vars, DrawInv, Framebuffer, NeverPanics, DrawsInside
<1> QED BY <1>3, <1>4, <1>5, <1>6, <1>7, <1>8, <1>9, <1>10 DEF DrawNext

(* The inductive invariant holds in every state.                           *)
LEMMA DrawInvariance == DrawSpec => []DrawInv
  BY DrawInitInv, DrawInvNext, PTL DEF DrawSpec

(* render_boot_visual overflows no u32 on a framebuffer of any size.       *)
THEOREM DrawingNeverPanics == DrawSpec => []NeverPanics
<1>1. DrawInv => NeverPanics
  BY DEF DrawInv
<1> QED BY <1>1, DrawInvariance, PTL

(* fill_rect writes inside the framebuffer, whatever its size and pitch.   *)
THEOREM DrawingStaysInside == DrawSpec => []DrawsInside
<1>1. DrawInv => DrawsInside
  BY DEF DrawInv
<1> QED BY <1>1, DrawInvariance, PTL

-----------------------------------------------------------------------------
(* The shell's line                                                        *)

(* A set of naturals that is not empty has a least element.                *)
LEMMA Least ==
  ASSUME NEW S \in SUBSET Nat, S # {}
  PROVE  \E x \in S : \A y \in S : x <= y
<1> DEFINE R == OpToRel(<, Nat)
<1>1. IsWellFoundedOn(R, Nat)
  BY NatLessThanWellFounded, Zenon
<1>2. \A x, y \in Nat : <<y, x>> \in R <=> y < x
  BY DEF OpToRel
<1> HIDE DEF R
<1>3. PICK x \in S : \A y \in S : ~ (<<y, x>> \in R)
  BY <1>1, WFMin, Zenon
<1>4. x \in Nat /\ \A y \in S : y \in Nat
  OBVIOUS
<1>5. \A y \in S : ~ (y < x)
  BY <1>2, <1>3, <1>4, Zenon
<1> QED
  BY <1>4, <1>5

(* A bounded set of naturals that is not empty has a greatest element.     *)
LEMMA Greatest ==
  ASSUME NEW n \in Nat, NEW S \in SUBSET (0 .. n), S # {}
  PROVE  \E x \in S : \A y \in S : y <= x
<1> DEFINE T == {n - x : x \in S}
<1>1. \A x \in S : n - x \in Nat
  OBVIOUS
<1>2. T \in SUBSET Nat /\ T # {}
  BY <1>1, Zenon
<1>3. PICK t \in T : \A u \in T : t <= u
  BY <1>2, Least, Zenon
<1>4. PICK x \in S : t = n - x
  OBVIOUS
<1>5. ASSUME NEW y \in S PROVE y <= x
  <2>1. t <= n - y
    BY <1>3
  <2> QED
    BY <2>1, <1>4
<1> QED
  BY <1>5

-----------------------------------------------------------------------------
\* The row with character n + 1 replaced, or added at its end
Overwrite(s, n, c) == SubSeq(s, 1, n) \o <<c>> \o SubSeq(s, n + 2, Len(s))

(* Writing one character into a row changes that character only.           *)
LEMMA Overwritten ==
  ASSUME NEW S, NEW s \in Seq(S), NEW n \in Nat, n <= Len(s), NEW c \in S
  PROVE  /\ Overwrite(s, n, c) \in Seq(S)
         /\ Len(Overwrite(s, n, c)) = IF n < Len(s) THEN Len(s) ELSE n + 1
         /\ \A k \in 1 .. Len(s) : k # n + 1 => Overwrite(s, n, c)[k] = s[k]
         /\ Overwrite(s, n, c)[n + 1] = c
<1> DEFINE front == SubSeq(s, 1, n)
           upTo == front \o <<c>>
           rest == SubSeq(s, n + 2, Len(s))
           new == upTo \o rest
<1>1. PICK m \in Nat : Len(s) = m
  OBVIOUS
<1>2. front \in Seq(S) /\ Len(front) = n /\ \A k \in 1 .. n : front[k] = s[k]
  BY <1>1
<1> DEFINE r == IF n < m THEN m - n - 1 ELSE 0
<1>3. r \in Nat
  BY <1>1
<1>4. rest \in Seq(S) /\ Len(rest) = r /\ \A k \in 1 .. r : rest[k] = s[n + 1 + k]
  <2>1. CASE n + 2 <= m
    BY <2>1, <1>1, <1>3
  <2>2. CASE m < n + 2
    <3>1. rest = <<>>
      <4>1. Len(s) \in Int /\ n + 2 \in Int /\ Len(s) < n + 2
        BY <2>2, <1>1
      <4> QED
        BY <4>1, SubSeqEmpty, Zenon
    <3>2. r = 0
      BY <2>2, <1>1, <1>3
    <3> HIDE DEF rest, r
    <3> QED
      BY <3>1, <3>2
  <2> QED
    BY <2>1, <2>2, <1>1, SMTT(40)
<1>12. r = IF n < m THEN m - n - 1 ELSE 0
  OBVIOUS
<1> HIDE DEF front, rest, r
<1>5. upTo \in Seq(S) /\ Len(upTo) = n + 1
  BY <1>2
<1>6. \A k \in 1 .. n + 1 : upTo[k] = IF k = n + 1 THEN c ELSE front[k]
  BY <1>2
<1> HIDE DEF upTo
<1>7. new \in Seq(S) /\ Len(new) = (n + 1) + r
  <2>1. new \in Seq(S) /\ Len(new) = Len(upTo) + Len(rest)
    BY <1>4, <1>5, ConcatProperties, Zenon
  <2> QED
    BY <2>1, <1>4, <1>5, Zenon
<1>8. /\ \A k \in 1 .. n + 1 : new[k] = upTo[k]
      /\ \A k \in (n + 1) + 1 .. (n + 1) + r : new[k] = rest[k - (n + 1)]
  <2>1. \A k \in 1 .. Len(upTo) + Len(rest) :
          new[k] = IF k <= Len(upTo) THEN upTo[k] ELSE rest[k - Len(upTo)]
    BY <1>4, <1>5, ConcatProperties, ZenonT(40)
  <2>2. \A k \in 1 .. (n + 1) + r : new[k] = IF k <= n + 1 THEN upTo[k] ELSE rest[k - (n + 1)]
    BY <2>1, <1>4, <1>5, Zenon
  <2> HIDE DEF new
  <2>3. n \in Nat /\ r \in Nat
    BY <1>4
  <2>4. \A k \in 1 .. n + 1 : new[k] = upTo[k]
    BY <2>2, <2>3
  <2>5. \A k \in (n + 1) + 1 .. (n + 1) + r : new[k] = rest[k - (n + 1)]
    BY <2>2, <2>3
  <2> QED
    BY <2>4, <2>5
<1> HIDE DEF new
<1>9. Len(new) = IF n < m THEN m ELSE n + 1
  BY <1>1, <1>12, <1>7
<1>10. new[n + 1] = c
  BY <1>6, <1>8
<1>11. ASSUME NEW k \in 1 .. m, k # n + 1
       PROVE  new[k] = s[k]
  <2>1. CASE k <= n
    BY <2>1, <1>2, <1>6, <1>8
  <2>2. CASE k > n + 1
    <3>1. k - (n + 1) \in 1 .. r /\ k \in (n + 1) + 1 .. (n + 1) + r
      BY <2>2, <1>1, <1>12
    <3>2. new[k] = rest[k - (n + 1)]
      BY <3>1, <1>8
    <3>3. rest[k - (n + 1)] = s[n + 1 + (k - (n + 1))]
      BY <3>1, <1>4, SMTT(40)
    <3>4. n + 1 + (k - (n + 1)) = k
      OBVIOUS
    <3> QED
      BY <3>2, <3>3, <3>4
  <2> QED
    BY <2>1, <2>2, <1>11
<1>13. Overwrite(s, n, c) = new
  BY DEF Overwrite, new, upTo, front, rest
<1> QED
  BY <1>1, <1>7, <1>9, <1>10, <1>11, <1>13, SMTT(40)

\* What a position of LINE_BUFFER or of the terminal holds
Bytes == Characters \cup {NUL}

\* A row of the terminal, with the cursor on it
Screen(t) ==
  /\ t = [text |-> t.text, cursor |-> t.cursor]
  /\ t.text \in Seq(Bytes) /\ t.cursor \in 0 .. Len(t.text)

(* A backspace moves the cursor and leaves the text alone.                 *)
LEMMA PutBS ==
  ASSUME NEW t, Screen(t)
  PROVE  /\ Screen(Put(t, BS))
         /\ Put(t, BS).text = t.text
         /\ Put(t, BS).cursor = IF t.cursor > 0 THEN t.cursor - 1 ELSE 0
<1>1. Put(t, BS) = [text |-> t.text, cursor |-> IF t.cursor > 0 THEN t.cursor - 1 ELSE 0]
  BY DEF Put, Screen
<1>2. t.cursor \in 0 .. Len(t.text) /\ Len(t.text) \in Nat
  BY DEF Screen
<1> QED
  BY <1>1, <1>2 DEF Screen

(* A character is written at the cursor.                                   *)
LEMMA PutChar ==
  ASSUME NEW t, Screen(t), NEW c \in Characters
  PROVE  /\ Screen(Put(t, c))
         /\ Put(t, c).cursor = t.cursor + 1
         /\ Put(t, c).text[t.cursor + 1] = c
         /\ Len(Put(t, c).text) = IF t.cursor < Len(t.text) THEN Len(t.text) ELSE t.cursor + 1
         /\ \A k \in 1 .. Len(t.text) : k # t.cursor + 1 => Put(t, c).text[k] = t.text[k]
<1> DEFINE s == t.text
           n == t.cursor
           new == Overwrite(s, n, c)
<1>1. c # BS
  BY ConsoleAssumption
<1>2. Put(t, c) = [text |-> new, cursor |-> n + 1]
  BY <1>1 DEF Put, Overwrite
<1>3. s \in Seq(Bytes) /\ n \in Nat /\ n <= Len(s) /\ Len(s) \in Nat /\ c \in Bytes
  BY DEF Screen, Bytes
<1> HIDE DEF s, n
<1>4. /\ new \in Seq(Bytes)
      /\ Len(new) = IF n < Len(s) THEN Len(s) ELSE n + 1
      /\ \A k \in 1 .. Len(s) : k # n + 1 => new[k] = s[k]
      /\ new[n + 1] = c
  <2>1. new \in Seq(Bytes)
    BY <1>3, Overwritten
  <2>2. Len(new) = IF n < Len(s) THEN Len(s) ELSE n + 1
    BY <1>3, Overwritten
  <2>3. \A k \in 1 .. Len(s) : k # n + 1 => new[k] = s[k]
    BY <1>3, Overwritten
  <2>4. new[n + 1] = c
    BY <1>3, Overwritten
  <2> QED
    BY <2>1, <2>2, <2>3, <2>4
<1> HIDE DEF new
<1>5. Screen(Put(t, c))
  BY <1>2, <1>3, <1>4 DEF Screen
<1> QED
  BY <1>2, <1>4, <1>5 DEF s, n

(* The three bytes that erase a character blank it and leave the cursor on *)
(* it; in the first column they blank the first cell.                      *)
LEMMA ErasedIs ==
  ASSUME NEW t, Screen(t)
  PROVE  /\ Screen(Erased(t))
         /\ Erased(t).cursor = IF t.cursor > 0 THEN t.cursor - 1 ELSE 0
         /\ Len(Erased(t).text) = IF Erased(t).cursor < Len(t.text) THEN Len(t.text) ELSE Erased(t).cursor + 1
         /\ Line!Blank(Erased(t).text[Erased(t).cursor + 1])
         /\ \A k \in 1 .. Len(t.text) : k # Erased(t).cursor + 1 => Erased(t).text[k] = t.text[k]
<1> DEFINE a == Put(t, BS)
           b == Put(a, Space)
<1>1. Space \in Characters
  BY ConsoleAssumption
<1>2. Screen(a) /\ a.text = t.text /\ a.cursor = IF t.cursor > 0 THEN t.cursor - 1 ELSE 0
  BY PutBS
<1> HIDE DEF a
<1>3. /\ Screen(b) /\ b.cursor = a.cursor + 1 /\ b.text[a.cursor + 1] = Space
      /\ Len(b.text) = IF a.cursor < Len(a.text) THEN Len(a.text) ELSE a.cursor + 1
      /\ \A k \in 1 .. Len(a.text) : k # a.cursor + 1 => b.text[k] = a.text[k]
  BY <1>1, <1>2, PutChar
<1> HIDE DEF b
<1>4. Erased(t) = Put(b, BS)
  BY DEF Erased, a, b
<1>5. /\ Screen(Erased(t)) /\ Erased(t).text = b.text
      /\ Erased(t).cursor = IF b.cursor > 0 THEN b.cursor - 1 ELSE 0
  BY <1>3, <1>4, PutBS
<1>6. Line!Blank(Space)
  BY Zenon DEF Line!Blank, Space
<1>7. t.cursor \in 0 .. Len(t.text) /\ Len(t.text) \in Nat
  BY DEF Screen
<1>8. Erased(t).cursor = a.cursor
  BY <1>2, <1>3, <1>5, <1>7
<1> QED
  BY <1>2, <1>3, <1>5, <1>6, <1>8

-----------------------------------------------------------------------------
\* The types of the state that the line is about
TypeInv ==
  /\ len \in 0 .. MAX_LINE_LEN
  /\ line_buffer \in [1 .. MAX_LINE_LEN -> Bytes]
  /\ Screen(terminal)
  /\ torn \in 0 .. len

\* The row shows the line from where it was torn, the cursor is behind it, and
\* what follows is blank.
Shown ==
  /\ terminal.cursor = len - torn
  /\ \A k \in 1 .. terminal.cursor : terminal.text[k] = line_buffer[torn + k]
  /\ \A k \in terminal.cursor + 1 .. Len(terminal.text) : Line!Blank(terminal.text[k])

\* The inductive invariant
LineInv == TypeInv /\ Shown

(* Nothing follows a new prompt.                                           *)
LEMMA FreshLine == Screen(AfterPrompt) /\ AfterPrompt.text = <<>> /\ AfterPrompt.cursor = 0
  BY DEF Screen, AfterPrompt

(* Before the first key the line is empty.                                 *)
LEMMA LineInit == Init => LineInv
<1> SUFFICES ASSUME Init PROVE LineInv
  OBVIOUS
<1>1. TypeInv
  <2>1. len \in 0 .. MAX_LINE_LEN
    BY ConsoleAssumption DEF Init
  <2>2. line_buffer \in [1 .. MAX_LINE_LEN -> Bytes]
    BY DEF Init, Bytes
  <2>3. torn \in 0 .. len
    BY DEF Init
  <2> QED
    BY <2>1, <2>2, <2>3, FreshLine, ZenonT(40) DEF Init, TypeInv
<1>2. Shown
  BY FreshLine DEF Init, Shown
<1> QED
  BY <1>1, <1>2 DEF LineInv

(* A key decodes to a character that the terminal shows.                   *)
LEMMA DecodedIs == \A key \in Keys : Decoded(key) \in Characters
  BY ConsoleAssumption DEF Decoded

(* How far the cursor is from where the line was torn.                     *)
LEMMA Differences ==
  /\ \A a \in Nat : a - a = 0
  /\ \A a, b, c \in Nat : c = b + a => a = c - b
  OBVIOUS

(* A new row keeps the invariant: what there is of the line is torn.       *)
LEMMA FreshKeeps ==
  ASSUME LineInv, terminal' = AfterPrompt, UNCHANGED line_buffer, len' \in {0, len}, torn' = len'
  PROVE  LineInv'
<1>1. len' \in 0 .. MAX_LINE_LEN /\ torn' \in 0 .. len'
  BY ConsoleAssumption DEF LineInv, TypeInv
<1>2. Screen(terminal') /\ terminal'.text = <<>> /\ terminal'.cursor = 0
  BY FreshLine
<1>3. TypeInv'
  BY <1>1, <1>2 DEF LineInv, TypeInv, Screen
<1>4. Shown'
  <2>1. 1 .. 0 = {} /\ Len(<<>>) = 0 /\ 0 + 1 .. 0 = {}
    BY ONLY TRUE
  <2>2. len' \in Nat
    BY <1>1, ConsoleAssumption
  <2>3. len' - torn' = 0
    BY <2>2, Differences, Zenon
  <2> QED
    BY <2>1, <2>3, <1>2, Zenon DEF Shown, Line!Blank
<1> QED
  BY <1>3, <1>4 DEF LineInv

(* A step is a key that edits or executes the line, a line that others     *)
(* print, or leaves the line and the terminal alone.                       *)
LEMMA StepKinds ==
  ASSUME [Next]_vars
  PROVE  \/ \E key \in Keys : Char(key)
         \/ Backspace \/ Enter
         \/ OthersPrint /\ UNCHANGED <<line_buffer, len, command>>
         \/ UNCHANGED <<line_buffer, len, terminal, torn, command>>
<1>1. CASE Initialize
  BY <1>1, Zenon DEF Initialize
<1>2. CASE BootLine \/ UptimeReport
  BY <1>2, Zenon DEF BootLine, UptimeReport
<1>3. CASE \E key \in ShiftKeys : ShiftMake(key) \/ ShiftBreak(key)
  BY <1>3, Zenon DEF ShiftMake, ShiftBreak
<1>4. CASE \E key \in ExtendedKeys : ExtendedMake(key) \/ ExtendedBreak(key)
  BY <1>4, Zenon DEF ExtendedMake, ExtendedBreak
<1>5. CASE IgnoredKey \/ UNCHANGED vars
  BY <1>5, Zenon DEF IgnoredKey, vars
<1> QED
  BY <1>1, <1>2, <1>3, <1>4, <1>5, Zenon DEF Next

(* Every step keeps the invariant.                                         *)
LEMMA LineNext == LineInv /\ [Next]_vars => LineInv'
<1> SUFFICES ASSUME LineInv, [Next]_vars PROVE LineInv'
  OBVIOUS
<1> DEFINE n == terminal.cursor
           size == Len(terminal.text)
<1>0. /\ len \in Nat /\ len <= MAX_LINE_LEN /\ MAX_LINE_LEN \in Nat /\ torn \in Nat
      /\ n \in Nat /\ size \in Nat /\ n <= size /\ len = torn + n
  BY ConsoleAssumption DEF LineInv, TypeInv, Screen, Shown
<1>s. /\ \A k \in 1 .. n : terminal.text[k] = line_buffer[torn + k]
      /\ \A k \in n + 1 .. size : Line!Blank(terminal.text[k])
  BY DEF LineInv, Shown
<1>1. CASE OthersPrint /\ UNCHANGED <<line_buffer, len>>
  BY <1>1, FreshKeeps, Zenon DEF OthersPrint
<1>2. ASSUME NEW key \in Keys, Char(key), len < MAX_LINE_LEN
      PROVE  LineInv'
  <2> DEFINE c == Decoded(key)
  <2>1. c \in Characters
    BY DecodedIs
  <2>2. /\ line_buffer' = [line_buffer EXCEPT ![len + 1] = c]
        /\ len' = len + 1 /\ terminal' = Put(terminal, c) /\ torn' = torn
    BY <1>2 DEF Char
  <2> HIDE DEF c
  <2>3. /\ Screen(terminal')
        /\ terminal'.cursor = n + 1
        /\ terminal'.text[n + 1] = c
        /\ Len(terminal'.text) = IF n < size THEN size ELSE n + 1
        /\ \A k \in 1 .. size : k # n + 1 => terminal'.text[k] = terminal.text[k]
    BY <2>1, <2>2, PutChar DEF LineInv, TypeInv
  <2>4. /\ line_buffer' \in [1 .. MAX_LINE_LEN -> Bytes]
        /\ line_buffer'[len + 1] = c
        /\ \A k \in 1 .. len : line_buffer'[k] = line_buffer[k]
    BY <2>1, <2>2, <1>0, <1>2, SMTT(40) DEF LineInv, TypeInv, Bytes
  <2> HIDE DEF n, size
  <2>5. TypeInv'
    <3>1. len' \in 0 .. MAX_LINE_LEN /\ torn' \in 0 .. len'
      BY <2>2, <1>0, <1>2
    <3> QED
      BY <3>1, <2>3, <2>4, Zenon DEF TypeInv, Screen
  <2>6. terminal'.cursor = len' - torn'
    BY <2>2, <2>3, <1>0
  <2>7. ASSUME NEW k \in 1 .. n + 1 PROVE terminal'.text[k] = line_buffer'[torn + k]
    <3>1. CASE k = n + 1
      BY <3>1, <2>3, <2>4, <1>0
    <3>2. CASE k # n + 1
      <4>1. k \in 1 .. n /\ k \in 1 .. size /\ torn + k \in 1 .. len
        BY <3>2, <1>0
      <4> QED
        BY <4>1, <3>2, <2>3, <2>4, <1>s, Zenon
    <3> QED
      BY <3>1, <3>2, Zenon
  <2>8. ASSUME NEW k \in (n + 1) + 1 .. Len(terminal'.text) PROVE Line!Blank(terminal'.text[k])
    <3>1. k \in n + 1 .. size /\ k # n + 1 /\ k \in 1 .. size
      BY <2>3, <1>0
    <3> QED
      BY <3>1, <2>3, <1>s, Zenon
  <2>9. Shown'
    BY <2>2, <2>3, <2>6, <2>7, <2>8, Zenon DEF Shown, Line!Blank
  <2> QED
    BY <2>5, <2>9 DEF LineInv
<1>3. ASSUME NEW key \in Keys, Char(key), ~ (len < MAX_LINE_LEN)
      PROVE  LineInv'
  BY <1>3, FreshKeeps, Zenon DEF Char
<1>4. CASE Backspace /\ len > 0
  <2>1. /\ len' = len - 1 /\ torn' = IF torn < len THEN torn ELSE len - 1
        /\ terminal' = Erased(terminal) /\ line_buffer' = line_buffer
    BY <1>4 DEF Backspace, Shorten
  <2> DEFINE m == terminal'.cursor
  <2>2. /\ Screen(terminal')
        /\ m = IF n > 0 THEN n - 1 ELSE 0
        /\ Len(terminal'.text) = IF m < size THEN size ELSE m + 1
        /\ Line!Blank(terminal'.text[m + 1])
        /\ \A k \in 1 .. size : k # m + 1 => terminal'.text[k] = terminal.text[k]
    BY <2>1, ErasedIs DEF LineInv, TypeInv
  <2> HIDE DEF n, size, m
  <2>3. m \in Nat /\ m <= n /\ len' = torn' + m /\ len' \in Nat /\ torn' \in Nat
    BY <2>1, <2>2, <1>0, <1>4
  <2>4. TypeInv'
    <3>1. len' \in 0 .. MAX_LINE_LEN /\ torn' \in 0 .. len'
      BY <2>1, <2>3, <1>0
    <3> QED
      BY <3>1, <2>1, <2>2, Zenon DEF LineInv, TypeInv, Screen
  <2>5. m = len' - torn'
    BY <2>3, Differences, Zenon
  <2>6. ASSUME NEW k \in 1 .. m PROVE terminal'.text[k] = line_buffer'[torn' + k]
    <3>1. k \in 1 .. n /\ k \in 1 .. size /\ k # m + 1 /\ torn' = torn
      BY <2>1, <2>2, <2>3, <1>0
    <3> QED
      BY <3>1, <2>1, <2>2, <1>s, Zenon
  <2>7. ASSUME NEW k \in m + 1 .. Len(terminal'.text) PROVE Line!Blank(terminal'.text[k])
    <3>1. k = m + 1 \/ (k # m + 1 /\ k \in n + 1 .. size /\ k \in 1 .. size)
      BY <2>2, <2>3, <1>0
    <3> QED
      BY <3>1, <2>2, <1>s, Zenon
  <2>8. Shown'
    BY <2>5, <2>6, <2>7, Zenon DEF Shown, Line!Blank, m
  <2> QED
    BY <2>4, <2>8 DEF LineInv
<1>5. CASE Enter
  BY <1>5, FreshKeeps, Zenon DEF Enter, ExecuteCurrentLine
<1>6. CASE UNCHANGED <<line_buffer, len, terminal, torn>>
  BY <1>6, Zenon DEF LineInv, TypeInv, Shown, Screen, Line!Blank
<1>7. CASE Backspace /\ ~ (len > 0)
  BY <1>6, <1>7, Zenon DEF Backspace
<1> QED
  BY <1>1, <1>2, <1>3, <1>4, <1>5, <1>6, <1>7, StepKinds, Zenon

(* The invariant holds throughout.                                         *)
LEMMA LineInvariance == Spec => []LineInv
  BY LineInit, LineNext, PTL DEF Spec

(* The user sees exactly the line that Enter will execute, from the last   *)
(* line on that boot or the timer has printed into it, for every keyboard  *)
(* layout and line length.                                                 *)
THEOREM TerminalIsTheLine == Spec => []TerminalShowsLine
<1>1. LineInv => TerminalShowsLine
  <2> SUFFICES ASSUME LineInv PROVE TerminalShowsLine
    BY Zenon
  <2> DEFINE n == terminal.cursor
  <2>1. /\ n = len - torn
        /\ \A k \in 1 .. n : terminal.text[k] = line_buffer[torn + k]
        /\ \A k \in n + 1 .. Len(terminal.text) : Line!Blank(terminal.text[k])
    BY DEF LineInv, Shown
  <2>2. /\ len \in Nat /\ torn \in Nat /\ n \in Nat /\ len = torn + n /\ n <= Len(terminal.text)
        /\ len <= MAX_LINE_LEN /\ line_buffer \in Seq(Bytes) /\ Len(line_buffer) = MAX_LINE_LEN
        /\ terminal.text \in Seq(Bytes)
    BY <2>1, ConsoleAssumption DEF LineInv, TypeInv, Screen
  <2> HIDE DEF n
  <2>3. SubSeq(terminal.text, 1, n) = SubSeq(line_buffer, torn + 1, len)
    <3>1. /\ SubSeq(terminal.text, 1, n) \in Seq(Bytes)
          /\ Len(SubSeq(terminal.text, 1, n)) = n
          /\ \A k \in 1 .. n : SubSeq(terminal.text, 1, n)[k] = terminal.text[k]
      BY <2>2
    <3>2. /\ SubSeq(line_buffer, torn + 1, len) \in Seq(Bytes)
          /\ Len(SubSeq(line_buffer, torn + 1, len)) = n
          /\ \A k \in 1 .. n : SubSeq(line_buffer, torn + 1, len)[k] = line_buffer[torn + k]
      BY <2>2
    <3>3. \A k \in 1 .. n : SubSeq(terminal.text, 1, n)[k] = SubSeq(line_buffer, torn + 1, len)[k]
      BY <2>1, <3>1, <3>2, Zenon
    <3> QED
      BY <3>1, <3>2, <3>3, SeqEqual, Zenon
  <2> QED
    BY <2>1, <2>3, Zenon DEF TerminalShowsLine, n
<1> QED
  BY <1>1, LineInvariance, PTL

-----------------------------------------------------------------------------
(* SHIFT_PRESSED is never left set with all keys up that shift codes are   *)
(* sent for, whatever the order in which any number of shift and extended  *)
(* keys go down and up.                                                    *)
THEOREM ShiftIsReleased == Spec => []ShiftNotStuck
<1>1. Init => ShiftNotStuck
  BY DEF Init, ShiftNotStuck
<1>2. ShiftNotStuck /\ [Next]_vars => ShiftNotStuck'
  <2> SUFFICES ASSUME ShiftNotStuck, [Next]_vars PROVE ShiftNotStuck'
    OBVIOUS
  <2>1. ASSUME NEW key \in ShiftKeys, ShiftMake(key) PROVE ShiftNotStuck'
    BY <2>1 DEF ShiftMake, ShiftNotStuck
  <2>2. ASSUME NEW key \in ShiftKeys, ShiftBreak(key) PROVE ShiftNotStuck'
    BY <2>2 DEF ShiftBreak, ShiftNotStuck
  <2>3. ASSUME NEW key \in ExtendedKeys, ExtendedMake(key) PROVE ShiftNotStuck'
    BY <2>3 DEF ExtendedMake, ShiftNotStuck
  <2>4. ASSUME NEW key \in ExtendedKeys, ExtendedBreak(key) PROVE ShiftNotStuck'
    <3>1. CASE ShiftDown
      <4>1. PICK other \in ShiftKeys : other \in held
        BY <3>1 DEF ShiftDown
      <4>2. other # key
        BY <4>1, ConsoleAssumption
      <4> QED
        BY <2>4, <4>1, <4>2 DEF ExtendedBreak, ShiftNotStuck
    <3>2. CASE ~ ShiftDown
      BY <2>4, <3>2 DEF ExtendedBreak, ShiftNotStuck
    <3> QED
      BY <3>1, <3>2
  <2>5. CASE UNCHANGED keyboard
    BY <2>5 DEF keyboard, ShiftNotStuck
  <2> QED
    BY <2>1, <2>2, <2>3, <2>4, <2>5, SMTT(40)
    DEF Next, vars, keyboard, Initialize, BootLine, UptimeReport, IgnoredKey, Char, Backspace, Enter
<1> QED
  BY <1>1, <1>2, PTL DEF Spec

-----------------------------------------------------------------------------
\* The positions of the characters that are not blank
Solid(s) == {k \in DOMAIN s : ~ Line!Blank(s[k])}

(* First and Final are the least and the greatest element.                 *)
LEMMA Extremes ==
  ASSUME NEW n \in Nat, NEW S \in SUBSET (1 .. n), S # {}
  PROVE  /\ First(S) \in S /\ \A j \in S : First(S) <= j
         /\ Final(S) \in S /\ \A j \in S : j <= Final(S)
<1>1. S \in SUBSET Nat /\ S \in SUBSET (0 .. n)
  OBVIOUS
<1>2. \E k \in S : \A j \in S : k <= j
  BY <1>1, Least, Zenon
<1>3. \E k \in S : \A j \in S : j <= k
  BY <1>1, Greatest, Zenon
<1> QED
  BY <1>2, <1>3, Zenon DEF First, Final

(* str::trim cuts at the first and the last character that is not blank.   *)
LEMMA TrimIs ==
  ASSUME NEW S, NEW s \in Seq(S)
  PROVE  /\ Solid(s) = {} => Line!Trim(s) = <<>>
         /\ Solid(s) # {} =>
              /\ First(Solid(s)) \in Solid(s) /\ Final(Solid(s)) \in Solid(s)
              /\ First(Solid(s)) \in 1 .. Len(s) /\ Final(Solid(s)) \in 1 .. Len(s)
              /\ First(Solid(s)) <= Final(Solid(s))
              /\ Line!Trim(s) = SubSeq(s, First(Solid(s)), Final(Solid(s)))
<1>1. Solid(s) = {} => Line!Trim(s) = <<>>
  BY Zenon DEF Solid, Line!Trim
<1>2. Solid(s) # {} => Line!Trim(s) = SubSeq(s, First(Solid(s)), Final(Solid(s)))
  BY Zenon DEF Solid, Line!Trim, First, Final
<1>3. PICK n \in Nat : Len(s) = n /\ DOMAIN s = 1 .. n
  OBVIOUS
<1>4. Solid(s) \in SUBSET (1 .. n)
  BY <1>3 DEF Solid
<1>5. ASSUME Solid(s) # {}
      PROVE  /\ First(Solid(s)) \in Solid(s) /\ Final(Solid(s)) \in Solid(s)
             /\ First(Solid(s)) <= Final(Solid(s))
  BY <1>4, <1>5, Extremes, ZenonT(40)
<1> QED
  BY <1>1, <1>2, <1>3, <1>4, <1>5, SMTT(40)

(* What str::trim returns begins and ends with a character that is not     *)
(* blank.                                                                  *)
LEMMA TrimEnds ==
  ASSUME NEW S, NEW s \in Seq(S)
  PROVE  LET t == Line!Trim(s)
         IN  /\ t \in Seq(S)
             /\ t # <<>> => 1 \in Solid(t) /\ Len(t) \in Solid(t)
             /\ t = <<>> <=> Solid(s) = {}
<1> DEFINE t == Line!Trim(s)
           f == First(Solid(s))
           l == Final(Solid(s))
<1>1. CASE Solid(s) = {}
  <2>1. t = <<>>
    BY <1>1, TrimIs
  <2> QED
    BY <2>1, <1>1
<1>2. CASE Solid(s) # {}
  <2>1. /\ f \in Solid(s) /\ l \in Solid(s) /\ f \in 1 .. Len(s) /\ l \in 1 .. Len(s) /\ f <= l
        /\ t = SubSeq(s, f, l)
    BY <1>2, TrimIs
  <2> HIDE DEF t, f, l
  <2>2. Len(s) \in Nat
    OBVIOUS
  <2>3. SubSeq(s, f, l) \in Seq(S) /\ Len(SubSeq(s, f, l)) = l - f + 1
    BY <2>1, <2>2
  <2>4. \A k \in 1 .. l - f + 1 : SubSeq(s, f, l)[k] = s[f + k - 1]
    BY <2>1, <2>2, SMTT(40)
  <2>5. t \in Seq(S) /\ Len(t) = l - f + 1 /\ Len(t) >= 1 /\ t[1] = s[f] /\ t[Len(t)] = s[l]
    BY <2>1, <2>2, <2>3, <2>4, SMTT(40)
  <2>6. 1 \in DOMAIN t /\ Len(t) \in DOMAIN t /\ t # <<>>
    BY <2>5
  <2>7. 1 \in Solid(t) /\ Len(t) \in Solid(t)
    BY <2>1, <2>5, <2>6, Zenon DEF Solid
  <2> QED
    BY <2>5, <2>6, <2>7, <1>2 DEF t
<1> QED
  BY <1>1, <1>2

(* Such a text is left alone.                                              *)
LEMMA TrimSolid ==
  ASSUME NEW S, NEW s \in Seq(S), 1 \in Solid(s), Len(s) \in Solid(s)
  PROVE  Line!Trim(s) = s
<1> DEFINE f == First(Solid(s))
           l == Final(Solid(s))
<1>1. PICK n \in Nat : Len(s) = n /\ DOMAIN s = 1 .. n
  OBVIOUS
<1>2. Solid(s) \in SUBSET (1 .. n)
  BY <1>1 DEF Solid
<1>3. f \in Solid(s) /\ (\A j \in Solid(s) : f <= j) /\ l \in Solid(s) /\ \A j \in Solid(s) : j <= l
  BY <1>2, Extremes, Zenon
<1>4. Line!Trim(s) = SubSeq(s, f, l)
  BY TrimIs
<1> HIDE DEF f, l
<1>5. f = 1 /\ l = Len(s)
  BY <1>1, <1>2, <1>3
<1> QED
  BY <1>4, <1>5, SubSeqFull

-----------------------------------------------------------------------------
(* Each arm of execute_command handles the line it was given.              *)
LEMMA ExecutesLine ==
  /\ Nothing.line = <<>> /\ Nothing.call = "none"
  /\ \A s : ExecuteCommand(s).line = s
<1>1. \A s, name, path, text : Call(s, name, path, text).line = s
  BY DEF Call
<1>2. \A s : Write(s).line = s
  BY <1>1, ZenonT(40) DEF Write
<1>3. \A s, name : FileArgument(s, name).line = s
  BY <1>1, Zenon DEF FileArgument
<1>4. \A s : ExecuteCommand(s).line = s
  <2> TAKE s
  <2>1. Write(s).line = s /\ FileArgument(s, "read").line = s /\ FileArgument(s, "remove").line = s
        /\ Call(s, "other", <<>>, <<>>).line = s
    BY <1>1, <1>2, <1>3, SMTT(40)
  <2> QED
    BY <2>1 DEF ExecuteCommand
<1> QED
  BY <1>4 DEF Nothing

(* The console starts as the line editor does.                             *)
LEMMA EditorInit == Init => Line!Init
<1>1. SubSeq(line_buffer, 1, 0) = <<>>
  BY SubSeqEmpty, SMTT(40)
<1> QED
  BY <1>1, ExecutesLine DEF Init, Line!Init

(* Every step is one of the line editor, or is not about the line.         *)
LEMMA EditorStep == LineInv /\ [Next]_vars => [Line!Next]_(Line!vars)
<1> SUFFICES ASSUME LineInv, [Next]_vars PROVE Line!Next \/ UNCHANGED Line!vars
  OBVIOUS
<1> DEFINE line == SubSeq(line_buffer, 1, len)
<1>0. /\ len \in Nat /\ len <= MAX_LINE_LEN /\ MAX_LINE_LEN \in Nat
      /\ line_buffer \in Seq(Bytes) /\ Len(line_buffer) = MAX_LINE_LEN
      /\ line_buffer \in [1 .. MAX_LINE_LEN -> Bytes]
  BY ConsoleAssumption DEF LineInv, TypeInv
<1>1. line \in Seq(Bytes) /\ Len(line) = len /\ \A k \in 1 .. len : line[k] = line_buffer[k]
  BY <1>0
<1>2. \A b : SubSeq(b, 1, 0) = <<>>
  BY SubSeqEmpty
<1>3. ASSUME NEW key \in Keys, Char(key) PROVE Line!Next
  <2>1. Decoded(key) \in Characters
    BY DecodedIs
  <2>2. command'.line = <<>>
    BY <1>3, ExecutesLine DEF Char
  <2>3. CASE len < MAX_LINE_LEN
    <3>1. len' = len + 1 /\ line_buffer' = [line_buffer EXCEPT ![len + 1] = Decoded(key)]
      BY <1>3, <2>3 DEF Char
    <3>2. line' = Append(line, Decoded(key))
      BY <3>1, <1>0, <2>1, <2>3, SMTT(40) DEF Bytes
    <3>3. Line!Type(Decoded(key))
      BY <2>2, <2>3, <3>2, <1>1, Zenon DEF Line!Type
    <3> QED
      BY <3>3, <2>1 DEF Line!Next
  <2>4. CASE ~ (len < MAX_LINE_LEN)
    <3>1. len' = 0
      BY <1>3, <2>4 DEF Char
    <3>2. line' = <<>>
      BY <3>1, <1>2
    <3>3. Line!Type(Decoded(key))
      BY <2>2, <2>4, <3>2, <1>1, Zenon DEF Line!Type
    <3> QED
      BY <3>3, <2>1 DEF Line!Next
  <2> QED
    BY <2>3, <2>4, SMTT(40)
<1>4. CASE Backspace
  <2>1. command'.line = <<>> /\ line_buffer' = line_buffer
    BY <1>4, ExecutesLine DEF Backspace
  <2>2. line' = SubSeq(line, 1, Len(line) - 1)
    <3>1. CASE len > 0
      <4>1. len' = len - 1
        BY <1>4, <3>1 DEF Backspace, Shorten
      <4>2. line' = SubSeq(line_buffer, 1, len - 1)
        BY <4>1, <2>1
      <4>3. SubSeq(line, 1, len - 1) = SubSeq(line_buffer, 1, len - 1)
        <5>1. len - 1 \in Nat /\ len - 1 <= len
          BY <1>0, <3>1
        <5> DEFINE n == len - 1
        <5>2. SubSeq(line, 1, n) \in Seq(Bytes) /\ Len(SubSeq(line, 1, n)) = n
              /\ \A k \in 1 .. n : SubSeq(line, 1, n)[k] = line[k]
          BY <5>1, <1>0, <1>1, SubSeqProperties
        <5>3. SubSeq(line_buffer, 1, n) \in Seq(Bytes) /\ Len(SubSeq(line_buffer, 1, n)) = n
              /\ \A k \in 1 .. n : SubSeq(line_buffer, 1, n)[k] = line_buffer[k]
          BY <5>1, <1>0, SubSeqProperties
        <5> QED
          BY <5>1, <5>2, <5>3, <1>1
      <4> QED
        BY <4>2, <4>3, <1>1, ZenonT(40)
    <3>2. CASE len = 0
      <4>1. len' = 0
        BY <1>4, <3>2 DEF Backspace
      <4>2. line' = <<>>
        BY <4>1, <1>2
      <4>3. SubSeq(line, 1, Len(line) - 1) = <<>>
        BY <1>1, <3>2, SubSeqEmpty
      <4> QED
        BY <4>2, <4>3, Zenon
    <3>3. len > 0 \/ len = 0
      BY <1>0
    <3> QED
      BY <3>1, <3>2, <3>3, Zenon
  <2> QED
    BY <2>1, <2>2, ZenonT(40) DEF Line!Next, Line!Erase
<1>5. CASE Enter
  <2>1. len' = 0 /\ command' = IF Line!Trim(line) = <<>> THEN Nothing ELSE ExecuteCommand(Line!Trim(line))
    BY <1>5 DEF Enter, ExecuteCurrentLine
  <2>2. command'.line = Line!Trim(line)
    BY <2>1, ExecutesLine
  <2>3. line' = <<>>
    BY <2>1, <1>2
  <2> QED
    BY <2>2, <2>3 DEF Line!Next, Line!Submit
<1>6. CASE UNCHANGED <<line_buffer, len, command>>
  BY <1>6 DEF Line!vars
<1> QED
  BY <1>3, <1>4, <1>5, <1>6, StepKinds, Zenon

(* LINE_BUFFER and LINE_LENGTH implement the line editor: keys extend the  *)
(* line up to its limit, backspace takes its last character, and Enter     *)
(* submits it trimmed.                                                     *)
THEOREM ConsoleRefinesEditor == Spec => ImplementsLineEditor
<1>1. LineInv /\ [Next]_vars => [Line!Next]_(Line!vars)
  BY EditorStep
<1> QED
  BY <1>1, EditorInit, LineInvariance, PTL DEF Spec, ImplementsLineEditor, Line!Spec

-----------------------------------------------------------------------------
\* What execute_current_line hands to execute_command
Trimmed(s) == s \in Seq(Bytes) /\ s # <<>> /\ 1 \in Solid(s) /\ Len(s) \in Solid(s)

(* The first blank of a text is one of its characters.                     *)
LEMMA FirstBlank ==
  ASSUME NEW s \in Seq(Bytes), Blanks(s) # {}
  PROVE  /\ First(Blanks(s)) \in 1 .. Len(s)
         /\ First(Blanks(s)) \notin Solid(s)
<1>1. PICK n \in Nat : Len(s) = n /\ DOMAIN s = 1 .. n
  OBVIOUS
<1>2. Blanks(s) \in SUBSET (1 .. n)
  BY <1>1 DEF Blanks
<1>3. First(Blanks(s)) \in Blanks(s)
  BY <1>2, Extremes, Zenon
<1> QED
  BY <1>1, <1>2, <1>3 DEF Blanks, Solid

(* The first word and the rest of a trimmed command line.                  *)
LEMMA TrimmedIs ==
  ASSUME NEW s, Trimmed(s)
  PROVE  /\ Line!Trim(s) = s
         /\ Blanks(s) = {} => Word(s) = s /\ Rest(s) = <<>>
         /\ Blanks(s) # {} =>
              /\ First(Blanks(s)) \in 2 .. Len(s) - 1
              /\ Word(s) = Before(s, First(Blanks(s))) /\ Rest(s) = After(s, First(Blanks(s)))
<1>1. Line!Trim(s) = s
  BY TrimSolid DEF Trimmed
<1>2. Blanks(s) = {} => Word(s) = s /\ Rest(s) = <<>>
  BY <1>1, Zenon DEF Word, Rest
<1>3. Blanks(s) # {} => Word(s) = Before(s, First(Blanks(s))) /\ Rest(s) = After(s, First(Blanks(s)))
  BY <1>1, Zenon DEF Word, Rest
<1>4. ASSUME Blanks(s) # {} PROVE First(Blanks(s)) \in 2 .. Len(s) - 1
  <2>1. First(Blanks(s)) \in 1 .. Len(s) /\ First(Blanks(s)) \notin Solid(s)
    BY <1>4, FirstBlank DEF Trimmed
  <2>2. First(Blanks(s)) # 1 /\ First(Blanks(s)) # Len(s)
    BY <2>1 DEF Trimmed
  <2>3. Len(s) \in Nat
    BY DEF Trimmed
  <2> QED
    BY <2>1, <2>2, <2>3
<1> QED
  BY <1>1, <1>2, <1>3, <1>4

(* What comes before a character ...                                       *)
LEMMA BeforeIs ==
  ASSUME NEW s \in Seq(Bytes), NEW k \in 1 .. Len(s)
  PROVE  Before(s, k) \in Seq(Bytes) /\ Len(Before(s, k)) = k - 1
<1>1. Len(s) \in Nat
  OBVIOUS
<1>2. CASE k = 1
  <2>1. SubSeq(s, 1, k - 1) = <<>>
    BY <1>2, SubSeqEmpty
  <2> QED
    BY <2>1, <1>2 DEF Before
<1>3. CASE k # 1
  BY <1>1, <1>3 DEF Before
<1> QED
  BY <1>2, <1>3

(* ... and after it; the end of a trimmed line is not blank.               *)
LEMMA AfterIs ==
  ASSUME NEW s \in Seq(Bytes), Len(s) \in Solid(s), NEW k \in 1 .. Len(s) - 1
  PROVE  /\ After(s, k) \in Seq(Bytes) /\ Len(After(s, k)) = Len(s) - k
         /\ After(s, k) # <<>>
         /\ Len(After(s, k)) \in Solid(After(s, k))
         /\ Line!Trim(After(s, k)) # <<>>
<1>1. Len(s) \in Nat /\ Len(s) \in 1 .. Len(s) /\ ~ Line!Blank(s[Len(s)])
  BY DEF Solid
<1>2. After(s, k) \in Seq(Bytes) /\ Len(After(s, k)) = Len(s) - k
  BY <1>1 DEF After
<1>3. \A j \in 1 .. Len(s) - k : After(s, k)[j] = s[k + j]
  BY <1>1 DEF After
<1>4. Len(s) - k \in 1 .. Len(s) - k /\ k + (Len(s) - k) = Len(s)
  BY <1>1
<1>5. After(s, k)[Len(s) - k] = s[Len(s)]
  BY <1>3, <1>4
<1>6. Len(s) - k \in DOMAIN After(s, k)
  BY <1>2, <1>4
<1>7. Len(After(s, k)) \in Solid(After(s, k))
  BY <1>1, <1>2, <1>5, <1>6, SMTT(40) DEF Solid
<1>8. Line!Trim(After(s, k)) # <<>>
  BY <1>2, <1>7, TrimEnds
<1> QED
  BY <1>2, <1>6, <1>7, <1>8

(* A text that is not all blank has a first word.                          *)
LEMMA WordNotEmpty ==
  ASSUME NEW s \in Seq(Bytes), Line!Trim(s) # <<>>
  PROVE  Word(s) # <<>>
<1> DEFINE t == Line!Trim(s)
<1>1. t \in Seq(Bytes) /\ t # <<>> /\ 1 \in Solid(t) /\ Len(t) \in Solid(t)
  BY TrimEnds
<1>2. Word(s) = IF Blanks(t) = {} THEN t ELSE Before(t, First(Blanks(t)))
  BY Zenon DEF Word
<1> HIDE DEF t
<1>3. CASE Blanks(t) = {}
  BY <1>1, <1>2, <1>3, SMTT(40)
<1>4. CASE Blanks(t) # {}
  <2>1. First(Blanks(t)) \in 2 .. Len(t) - 1
    BY <1>1, <1>4, TrimmedIs DEF Trimmed
  <2>2. Len(t) \in Nat
    BY <1>1
  <2>3. Len(Before(t, First(Blanks(t)))) = First(Blanks(t)) - 1
    <3>1. First(Blanks(t)) \in 1 .. Len(t)
      BY <2>1, <2>2
    <3> QED
      BY <3>1, <1>1, BeforeIs, Zenon
  <2>4. Len(Word(s)) # 0
    BY <2>1, <2>2, <2>3, <1>2, <1>4, SMTT(40)
  <2> QED
    BY <2>4
<1> QED
  BY <1>3, <1>4

-----------------------------------------------------------------------------
\* CommandsNameTheirFile, of any command
NamesItsFile(cmd) ==
  cmd.call \in {"read", "remove", "write"} =>
    /\ cmd.path \in {<<>>, Word(Rest(cmd.line))}
    /\ cmd.call # "write" => cmd.path # <<>>
    /\ cmd.call = "write" => Line!Trim(cmd.text) # <<>>

(* The fields of a call.                                                   *)
LEMMA CallIs ==
  \A s, name, path, text :
    /\ Call(s, name, path, text).line = s /\ Call(s, name, path, text).call = name
    /\ Call(s, name, path, text).path = path /\ Call(s, name, path, text).text = text
  BY DEF Call

(* `cat` and `rm` hand on the second word.                                 *)
LEMMA FileArgumentNames ==
  ASSUME NEW s, Trimmed(s), NEW name \in {"read", "remove"}
  PROVE  NamesItsFile(FileArgument(s, name))
<1>1. CASE Rest(s) = <<>>
  <2>1. FileArgument(s, name).call = "usage"
    BY <1>1, CallIs DEF FileArgument
  <2> QED
    BY <2>1 DEF NamesItsFile
<1>2. CASE Rest(s) # <<>>
  <2>1. /\ FileArgument(s, name).line = s /\ FileArgument(s, name).call = name
        /\ FileArgument(s, name).path = Word(Rest(s))
    BY <1>2, CallIs DEF FileArgument
  <2>2. Blanks(s) # {} /\ First(Blanks(s)) \in 1 .. Len(s) - 1 /\ Rest(s) = After(s, First(Blanks(s)))
    BY <1>2, TrimmedIs
  <2>3. Rest(s) \in Seq(Bytes) /\ Line!Trim(Rest(s)) # <<>>
    BY <2>2, AfterIs DEF Trimmed
  <2>4. Word(Rest(s)) # <<>>
    BY <2>3, WordNotEmpty
  <2> QED
    BY <2>1, <2>4 DEF NamesItsFile
<1> QED
  BY <1>1, <1>2

(* `write` hands on the second word, and what follows it.                  *)
LEMMA WriteNames ==
  ASSUME NEW s, Trimmed(s), Word(s) = <<"write">>
  PROVE  NamesItsFile(Write(s))
<1> DEFINE args == After(s, 2)
           f == First(Blanks(args))
<1>1. CASE Len(s) = 1 \/ Blanks(args) = {}
  <2>1. Write(s) = Call(s, "usage", <<>>, <<>>)
    BY <1>1, Zenon DEF Write
  <2>2. Write(s).call = "usage"
    BY <2>1, CallIs, SMTT(40)
  <2> QED
    BY <2>2 DEF NamesItsFile
<1>2. CASE Len(s) # 1 /\ Blanks(args) # {}
  <2>1. Write(s) = Call(s, "write", Before(args, f), After(args, f))
    BY <1>2, Zenon DEF Write
  <2>2. /\ Write(s).line = s /\ Write(s).call = "write"
        /\ Write(s).path = Before(args, f) /\ Write(s).text = After(args, f)
    <3> HIDE DEF args, f
    <3> QED
      BY <2>1, CallIs
  <2>3. s \in Seq(Bytes) /\ Len(s) \in Nat /\ Len(s) \in Solid(s)
    BY DEF Trimmed
  <2>4. Len(Word(s)) = 1
    OBVIOUS
  <2>5. Blanks(s) # {}
    BY <2>4, <1>2, TrimmedIs, SMTT(40)
  <2>6. First(Blanks(s)) = 2 /\ 2 \in 1 .. Len(s) - 1 /\ Rest(s) = args
    <3>1. /\ First(Blanks(s)) \in 2 .. Len(s) - 1
          /\ Word(s) = Before(s, First(Blanks(s))) /\ Rest(s) = After(s, First(Blanks(s)))
      BY <2>5, TrimmedIs
    <3>2. Len(Before(s, First(Blanks(s)))) = First(Blanks(s)) - 1
      <4>1. First(Blanks(s)) \in 1 .. Len(s)
        BY <3>1, <2>3
      <4> QED
        BY <4>1, <2>3, BeforeIs, Zenon
    <3>3. First(Blanks(s)) = 2
      BY <3>1, <3>2, <2>3, <2>4, SMTT(40)
    <3> QED
      BY <3>1, <3>3, <2>3
  <2>7. args \in Seq(Bytes) /\ Len(args) \in Nat /\ args # <<>> /\ Len(args) \in Solid(args)
    BY <2>3, <2>6, AfterIs, SMTT(40)
  <2>8. f \in 1 .. Len(args) /\ f \notin Solid(args)
    BY <1>2, <2>7, FirstBlank
  <2> HIDE DEF args
  <2>9. f \in 1 .. Len(args) - 1
    BY <2>7, <2>8
  <2>10. Line!Trim(After(args, f)) # <<>>
    BY <2>7, <2>9, AfterIs
  <2>11. Before(args, f) \in {<<>>, Word(args)}
    <3>1. CASE 1 \in Solid(args)
      <4>1. Trimmed(args)
        BY <3>1, <2>7, SMTT(40) DEF Trimmed
      <4>2. Word(args) = Before(args, f)
        BY <4>1, <1>2, TrimmedIs, SMTT(40)
      <4> QED
        BY <4>2
    <3>2. CASE 1 \notin Solid(args)
      <4>1. 1 \in Blanks(args)
        BY <3>2, <2>7, <2>9, SMTT(40) DEF Solid, Blanks
      <4>2. PICK n \in Nat : Len(args) = n /\ Blanks(args) \in SUBSET (1 .. n)
        BY <2>7 DEF Blanks
      <4>3. \A j \in Blanks(args) : f <= j
        BY <4>2, <1>2, Extremes, Zenon
      <4>4. f = 1
        BY <4>1, <4>3, <2>9, <2>7
      <4>5. Len(Before(args, f)) = 0 /\ Before(args, f) \in Seq(Bytes)
        BY <4>4, <2>7, <2>8, BeforeIs
      <4> QED
        BY <4>5
    <3> QED
      BY <3>1, <3>2, SMTT(40)
  <2> QED
    BY <2>2, <2>6, <2>10, <2>11, SMTT(40) DEF NamesItsFile
<1> QED
  BY <1>1, <1>2

(* Every command hands on the file that its line names.                    *)
LEMMA CommandNames ==
  ASSUME NEW s, Trimmed(s)
  PROVE  NamesItsFile(ExecuteCommand(s))
<1>1. NamesItsFile(FileArgument(s, "read")) /\ NamesItsFile(FileArgument(s, "remove"))
  BY FileArgumentNames
<1>2. Word(s) = <<"write">> => NamesItsFile(Write(s))
  BY WriteNames
<1>3. NamesItsFile(Call(s, "other", <<>>, <<>>))
  BY CallIs DEF NamesItsFile
<1>4. \/ Word(s) = <<"write">> /\ ExecuteCommand(s) = Write(s)
      \/ ExecuteCommand(s) = FileArgument(s, "read")
      \/ ExecuteCommand(s) = FileArgument(s, "remove")
      \/ ExecuteCommand(s) = Call(s, "other", <<>>, <<>>)
  BY DEF ExecuteCommand
<1> QED
  BY <1>1, <1>2, <1>3, <1>4, Zenon

(* For every line the user can type: the file that a command reads or      *)
(* removes is the second word of the line, the file that it writes is that *)
(* word or has no name, and nothing blank is written.                      *)
THEOREM CommandsNameFiles == Spec => []CommandsNameTheirFile
<1>1. CommandsNameTheirFile <=> NamesItsFile(command)
  BY Zenon DEF CommandsNameTheirFile, NamesItsFile
<1>2. NamesItsFile(Nothing)
  BY ExecutesLine DEF NamesItsFile
<1>3. Init => NamesItsFile(command)
  BY <1>2, SMTT(40) DEF Init
<1>4. LineInv /\ NamesItsFile(command) /\ [Next]_vars => NamesItsFile(command')
  <2> SUFFICES ASSUME LineInv, NamesItsFile(command), [Next]_vars PROVE NamesItsFile(command')
    OBVIOUS
  <2>1. CASE command' = Nothing
    BY <2>1, <1>2
  <2>2. CASE Enter
    <3> DEFINE line == SubSeq(line_buffer, 1, len)
               s == Line!Trim(line)
    <3>1. command' = IF s = <<>> THEN Nothing ELSE ExecuteCommand(s)
      BY <2>2 DEF Enter, ExecuteCurrentLine
    <3>2. line \in Seq(Bytes)
      BY ConsoleAssumption DEF LineInv, TypeInv
    <3> HIDE DEF line
    <3>3. s # <<>> => Trimmed(s)
      BY <3>2, TrimEnds DEF Trimmed
    <3> HIDE DEF s
    <3> QED
      BY <3>1, <3>3, <1>2, CommandNames, SMTT(40)
  <2>3. CASE UNCHANGED command
    BY <2>3, SMTT(40)
  <2> QED
    BY <2>1, <2>2, <2>3, StepKinds, Zenon DEF Char, Backspace
<1>5. NamesItsFile(command') <=> NamesItsFile(command)'
  BY Zenon DEF NamesItsFile, Word, Rest, Blanks, Before, After, First, Line!Trim, Line!Blank
<1> QED
  BY <1>1, <1>3, <1>4, <1>5, LineInvariance, PTL DEF Spec
=============================================================================
