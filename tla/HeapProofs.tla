----------------------------- MODULE HeapProofs -----------------------------
(***************************************************************************)
(* Theorems about the kernel heap, for any set of callers and layouts, any *)
(* heap and any address width.                                             *)
(***************************************************************************)
EXTENDS Heap, TLAPS

Layout == [size : Nat \ {0}, align : Nat \ {0}]

\* What the three stores of initialize have published so far
PublishInv ==
  /\ heap_start = IF init_pc = "heap_start" THEN 0 ELSE HEAP_SPACE
  /\ heap_end = IF init_pc \in {"heap_start", "heap_end"} THEN 0 ELSE HEAP_END
  /\ init_pc # "ready" => next = 0
  /\ init_pc = "ready" => HEAP_SPACE <= next /\ next <= HEAP_END

\* A caller's `current` is an old value of next, and a block about to be
\* claimed lies in the heap.
CallerInv ==
  \A c \in Callers :
    /\ current[c] # 0 => init_pc = "ready" /\ HEAP_SPACE <= current[c] /\ current[c] <= next
    /\ pc[c] = "compare_exchange" =>
         current[c] # 0 /\ Aligned(current[c], layout[c]) + layout[c].size <= HEAP_END
    /\ pc[c] = "panicked" => current[c] # 0 /\ SumPanics(current[c], layout[c])
    /\ pc[c] = "used_next" =>
         /\ start[c] \in {0, HEAP_SPACE}
         /\ owed[c] <= Len(blocks)
         /\ owed[c] # 0 => start[c] = HEAP_SPACE

\* Every block lies between the start of the heap and next.
BlockInv ==
  \A n \in DOMAIN blocks :
    /\ init_pc = "ready"
    /\ HEAP_SPACE <= blocks[n].addr
    /\ blocks[n].addr + blocks[n].size <= next

IInv == TypeOK /\ PublishInv /\ CallerInv /\ BlockInv /\ BlocksDisjoint /\ BlocksAligned

-----------------------------------------------------------------------------
(* Rounding up                                                             *)

(* Rounding an address up to an alignment never goes below the address.    *)
LEMMA AlignedBounds ==
  ASSUME NEW x \in Nat, NEW l \in Layout
  PROVE  Aligned(x, l) \in Nat /\ x <= Aligned(x, l)
<1>1. PICK a \in Nat \ {0} : a = l.align
  BY DEF Layout
<1>2. PICK s \in Nat : s = x + (a - 1)
  OBVIOUS
<1>3. s % a \in 0 .. a - 1
  OBVIOUS
<1> QED
  BY <1>1, <1>2, <1>3 DEF Aligned, AlignMask

(* Division with remainder.                                                *)
LEMMA DivMod ==
  ASSUME NEW s \in Nat, NEW a \in Nat \ {0}
  PROVE  \E p \in Nat, r \in 0 .. a - 1 : s = a * p + r /\ s % a = r
<1>1. s \div a \in Nat /\ s % a \in 0 .. a - 1
  OBVIOUS
<1>2. s = a * (s \div a) + (s % a)
  OBVIOUS
<1> QED
  BY <1>1, <1>2, Zenon

(* Rounding up is monotone in the address.                                 *)
LEMMA AlignedMonotone ==
  ASSUME NEW x \in Nat, NEW y \in Nat, NEW l \in Layout, x <= y
  PROVE  Aligned(x, l) <= Aligned(y, l)
<1>1. PICK a \in Nat \ {0} : a = l.align
  BY DEF Layout
<1>2. PICK s \in Nat : s = x + (a - 1)
  OBVIOUS
<1>3. PICK t \in Nat : t = y + (a - 1)
  OBVIOUS
<1>4. PICK p \in Nat, r \in 0 .. a - 1 : s = a * p + r /\ s % a = r
  BY DivMod, Zenon
<1>5. PICK q \in Nat, u \in 0 .. a - 1 : t = a * q + u /\ t % a = u
  BY DivMod, Zenon
<1>6. s <= t
  BY <1>2, <1>3
<1>7. p <= q
  <2> SUFFICES ASSUME q + 1 <= p PROVE FALSE
    OBVIOUS
  <2>1. a * (q + 1) <= a * p
    OBVIOUS
  <2>2. a * (q + 1) = a * q + a
    OBVIOUS
  <2> QED
    BY <1>4, <1>5, <1>6, <2>1, <2>2
<1>8. a * p <= a * q
  BY <1>7
<1> QED
  BY <1>1, <1>2, <1>3, <1>4, <1>5, <1>8 DEF Aligned, AlignMask

(* Rounding up yields a multiple of the alignment.                         *)
LEMMA AlignedAligns ==
  ASSUME NEW x \in Nat, NEW l \in Layout
  PROVE  Aligned(x, l) % l.align = 0
<1>1. PICK a \in Nat \ {0} : a = l.align
  BY DEF Layout
<1>2. PICK s \in Nat : s = x + (a - 1)
  OBVIOUS
<1>3. PICK p \in Nat, r \in 0 .. a - 1 : s = a * p + r /\ s % a = r
  BY DivMod, Zenon
<1>4. a * p \in Nat /\ (a * p) % a = 0
  OBVIOUS
<1>5. Aligned(x, l) = a * p
  BY <1>1, <1>2, <1>3 DEF Aligned, AlignMask
<1> QED
  BY <1>1, <1>4, <1>5

-----------------------------------------------------------------------------
(* The inductive invariant                                                 *)

(* The initial states satisfy the inductive invariant.                     *)
LEMMA InitInv == Init => IInv
<1> SUFFICES ASSUME Init PROVE IInv
  OBVIOUS
<1>1. AnyLayout \in Layouts
  BY LayoutAssumption DEF AnyLayout
<1>2. TypeOK
  BY <1>1, HeapAssumption DEF Init, TypeOK, InitSteps, Steps, HEAP_END
<1> QED
  BY <1>2 DEF Init, IInv, PublishInv, CallerInv, BlockInv, BlocksDisjoint, BlocksAligned

(* A call that returns, with what it leaves behind still true of the       *)
(* others.                                                                 *)
LEMMA ReturnInv ==
  ASSUME IInv, NEW c \in Callers, Return(c), UNCHANGED <<init_pc, atomics>>,
         blocks' = blocks
  PROVE  IInv'
<1>1. AnyLayout \in Layouts
  BY LayoutAssumption DEF AnyLayout
<1>2. TypeOK'
  BY <1>1 DEF Return, Goto, IInv, TypeOK, Steps, atomics
<1>3. PublishInv' /\ BlockInv' /\ BlocksDisjoint' /\ BlocksAligned'
  BY DEF IInv, PublishInv, BlockInv, BlocksDisjoint, BlocksAligned, atomics
<1>4. CallerInv'
  BY DEF Return, Goto, IInv, TypeOK, CallerInv, Aligned, AlignMask, SumPanics, atomics
<1> QED
  BY <1>2, <1>3, <1>4 DEF IInv

(* The layout of a pending call is a layout.                               *)
LEMMA LayoutTyped ==
  ASSUME TypeOK, NEW c \in Callers
  PROVE  layout[c] \in Layout /\ current[c] \in Nat
  BY LayoutAssumption DEF TypeOK, Layout

(* Winning the compare_exchange takes a block between the old and the new  *)
(* value of next, so it meets no block granted before.                     *)
LEMMA ClaimInv ==
  ASSUME IInv, NEW c \in Callers, Claim(c)
  PROVE  IInv'
<1> DEFINE b == Claimed(c)
<1>1. layout[c] \in Layout /\ current[c] \in Nat
  BY LayoutTyped DEF IInv
<1>2. b \in Block /\ current[c] <= b.addr /\ b.addr % b.align = 0
  BY <1>1, AlignedBounds, AlignedAligns DEF Claimed, Block, Layout
<1>3. /\ init_pc = "ready" /\ HEAP_SPACE <= current[c] /\ next = current[c]
      /\ b.addr + b.size <= HEAP_END
  BY DEF Claim, IInv, CallerInv, Claimed
<1>4. /\ next' = b.addr + b.size /\ blocks' = Append(blocks, b) /\ Return(c)
      /\ UNCHANGED <<init_pc, heap_start, heap_end>>
  BY DEF Claim
<1> HIDE DEF b
<1>5. AnyLayout \in Layouts
  BY LayoutAssumption DEF AnyLayout
<1>6. /\ HEAP_SPACE \in Nat /\ b.addr \in Nat /\ b.size \in Nat /\ next \in Nat /\ next' \in Nat
      /\ HEAP_SPACE <= b.addr /\ next <= next' /\ next' <= HEAP_END
  BY <1>2, <1>3, <1>4, HeapAssumption, SMTT(40) DEF Block, IInv, TypeOK
<1>7. /\ blocks \in Seq(Block) /\ blocks' \in Seq(Block) /\ Len(blocks') = Len(blocks) + 1
      /\ DOMAIN blocks' = DOMAIN blocks \cup {Len(blocks) + 1}
      /\ blocks'[Len(blocks) + 1] = b
      /\ \A n \in DOMAIN blocks : n # Len(blocks) + 1 /\ blocks'[n] = blocks[n] /\ blocks[n] \in Block
  <2>1. blocks \in Seq(Block) /\ Len(blocks) \in Nat /\ DOMAIN blocks = 1 .. Len(blocks)
    BY DEF IInv, TypeOK
  <2>2. blocks' \in Seq(Block) /\ Len(blocks') = Len(blocks) + 1 /\ blocks'[Len(blocks) + 1] = b
    BY <1>2, <1>4, <2>1
  <2>3. DOMAIN blocks' = 1 .. Len(blocks) + 1
    BY <2>2
  <2>4. \A n \in DOMAIN blocks : n # Len(blocks) + 1 /\ blocks'[n] = blocks[n]
    BY <1>4, <2>1
  <2>5. \A n \in DOMAIN blocks : blocks[n] \in Block
    BY <2>1
  <2> QED
    BY <2>1, <2>2, <2>3, <2>4, <2>5
<1>8. TypeOK'
  <2>1. /\ pc' \in [Callers -> Steps] /\ layout' \in [Callers -> Layouts]
        /\ current' \in [Callers -> Nat] /\ start' \in [Callers -> Nat] /\ owed' \in [Callers -> Nat]
    BY <1>4, <1>5 DEF Return, Goto, IInv, TypeOK, Steps
  <2>2. next' \in 0 .. HEAP_END
    BY <1>6
  <2> QED
    BY <1>4, <1>7, <2>1, <2>2, SMTT(40) DEF IInv, TypeOK
<1>9. PublishInv'
  BY <1>3, <1>4, <1>6 DEF IInv, PublishInv
<1>10. CallerInv'
  <2> SUFFICES ASSUME NEW d \in Callers PROVE CallerInv!(d)'
    BY DEF CallerInv
  <2>1. CASE d = c
    BY <1>4, <2>1 DEF Return, Goto, IInv, TypeOK
  <2>2. CASE d # c
    <3>1. /\ pc'[d] = pc[d] /\ layout'[d] = layout[d] /\ current'[d] = current[d]
          /\ start'[d] = start[d] /\ owed'[d] = owed[d] /\ init_pc' = init_pc
      BY <1>4, <2>2 DEF Return, Goto, IInv, TypeOK
    <3>2. current[d] \in Nat /\ owed[d] \in Nat /\ Len(blocks) \in Nat
      BY <1>7 DEF IInv, TypeOK
    <3>3. CallerInv!(d)
      BY DEF IInv, CallerInv
    <3> QED
      BY <1>6, <1>7, <3>1, <3>2, <3>3 DEF Aligned, AlignMask, SumPanics
  <2> QED
    BY <2>1, <2>2
<1>11. BlockInv'
  <2>1. \A n \in DOMAIN blocks : /\ HEAP_SPACE <= blocks[n].addr /\ blocks[n].addr \in Nat
                                 /\ blocks[n].size \in Nat /\ blocks[n].addr + blocks[n].size <= next
    BY <1>7 DEF IInv, BlockInv, Block
  <2> QED
    BY <1>3, <1>4, <1>6, <1>7, <2>1 DEF BlockInv
<1>12. BlocksDisjoint'
  <2>1. \A n \in DOMAIN blocks : /\ blocks[n].addr \in Nat /\ blocks[n].size \in Nat
                                 /\ blocks[n].addr + blocks[n].size <= next
    BY <1>7 DEF IInv, BlockInv, Block
  <2>2. next <= b.addr
    BY <1>2, <1>3
  <2>3. \A n \in DOMAIN blocks : blocks[n].addr + blocks[n].size <= b.addr
    BY <1>6, <2>1, <2>2
  <2> QED
    BY <1>6, <1>7, <2>1, <2>3, ZenonT(40) DEF IInv, BlocksDisjoint
<1>13. BlocksAligned'
  BY <1>2, <1>7 DEF IInv, BlocksAligned
<1> QED
  BY <1>8, <1>9, <1>10, <1>11, <1>12, <1>13 DEF IInv

(* The stores of initialize: next comes last.                              *)
LEMMA InitializeInv ==
  ASSUME IInv, Initialize
  PROVE  IInv'
<1> USE HeapAssumption DEF IInv, HEAP_END
<1>1. CASE StoreStart
  <2>1. TypeOK'
    BY <1>1 DEF StoreStart, TypeOK, InitSteps, locals
  <2>2. PublishInv'
    BY <1>1 DEF StoreStart, PublishInv
  <2>3. CallerInv' /\ BlockInv' /\ BlocksDisjoint' /\ BlocksAligned'
    BY <1>1 DEF StoreStart, CallerInv, BlockInv, BlocksDisjoint, BlocksAligned, locals, Aligned, AlignMask, SumPanics
  <2> QED
    BY <2>1, <2>2, <2>3
<1>2. CASE StoreEnd
  <2>1. TypeOK'
    BY <1>2 DEF StoreEnd, TypeOK, InitSteps, locals
  <2>2. PublishInv'
    BY <1>2 DEF StoreEnd, PublishInv
  <2>3. CallerInv' /\ BlockInv' /\ BlocksDisjoint' /\ BlocksAligned'
    BY <1>2 DEF StoreEnd, CallerInv, BlockInv, BlocksDisjoint, BlocksAligned, locals, Aligned, AlignMask, SumPanics
  <2> QED
    BY <2>1, <2>2, <2>3
<1>3. CASE StoreNext
  <2>1. TypeOK'
    BY <1>3 DEF StoreNext, TypeOK, InitSteps, locals
  <2>2. PublishInv'
    BY <1>3 DEF StoreNext, PublishInv
  <2>3. BlockInv' /\ BlocksDisjoint' /\ BlocksAligned'
    BY <1>3 DEF StoreNext, BlockInv, BlocksDisjoint, BlocksAligned
  <2>4. CallerInv'
    BY <1>3 DEF StoreNext, CallerInv, locals, Aligned, AlignMask, SumPanics
  <2> QED
    BY <2>1, <2>2, <2>3, <2>4
<1> QED
  BY <1>1, <1>2, <1>3 DEF Initialize

(* A step that only moves one caller on, or sets locals of it, keeps the   *)
(* invariant if it keeps what the invariant says of that caller.           *)
LEMMA LocalInv ==
  ASSUME IInv, NEW c \in Callers, NEW step \in Steps, Goto(c, step),
         UNCHANGED <<init_pc, atomics, blocks>>, TypeOK',
         \A d \in Callers \ {c} : /\ layout'[d] = layout[d] /\ current'[d] = current[d]
                                  /\ start'[d] = start[d] /\ owed'[d] = owed[d],
         CallerInv!(c)'
  PROVE  IInv'
<1>1. PublishInv' /\ BlockInv' /\ BlocksDisjoint' /\ BlocksAligned'
  BY DEF IInv, PublishInv, BlockInv, BlocksDisjoint, BlocksAligned, atomics
<1>2. CallerInv'
  <2> SUFFICES ASSUME NEW d \in Callers, d # c PROVE CallerInv!(d)'
    BY DEF CallerInv
  <2>1. pc'[d] = pc[d]
    BY SMTT(40) DEF Goto, IInv, TypeOK
  <2>2. CallerInv!(d)
    BY DEF IInv, CallerInv
  <2> QED
    BY <2>1, <2>2 DEF atomics, Aligned, AlignMask, SumPanics
<1> QED
  BY <1>1, <1>2 DEF IInv

(* Every step keeps the inductive invariant.                               *)
LEMMA InvNext == IInv /\ [Next]_vars => IInv'
<1> SUFFICES ASSUME IInv, [Next]_vars PROVE IInv'
  OBVIOUS
<1>1. CASE Initialize
  BY <1>1, InitializeInv, SMTT(40)
<1>2. ASSUME NEW c \in Callers, NEW l \in Layouts, Alloc(c, l) PROVE IInv'
  <2>1. TypeOK'
    BY <1>2 DEF Alloc, Goto, IInv, TypeOK, Steps, atomics
  <2>2. CallerInv!(c)'
    BY <1>2 DEF Alloc, Goto, IInv, TypeOK, CallerInv, atomics
  <2> QED
    BY <1>2, <2>1, <2>2, LocalInv, Zenon DEF Alloc, IInv, TypeOK, Steps
<1>3. ASSUME NEW c \in Callers, LoadNext(c) PROVE IInv'
  <2>1. TypeOK'
    BY <1>3 DEF LoadNext, Goto, IInv, TypeOK, Steps, atomics
  <2>2. CallerInv!(c)'
    BY <1>3, HeapAssumption DEF LoadNext, Goto, IInv, TypeOK, PublishInv, InitSteps, atomics
  <2> QED
    BY <1>3, <2>1, <2>2, LocalInv, Zenon DEF LoadNext, IInv, TypeOK, Steps
<1>4. ASSUME NEW c \in Callers, NotInitialized(c) \/ OutOfMemory(c) \/ UsedNext(c) PROVE IInv'
  BY <1>4, ReturnInv DEF NotInitialized, OutOfMemory, UsedNext, LoadEnd
<1>5. ASSUME NEW c \in Callers, SumOverflows(c) PROVE IInv'
  <2>1. TypeOK'
    BY <1>5 DEF SumOverflows, LoadEnd, Goto, IInv, TypeOK, Steps, atomics, locals
  <2>2. CallerInv!(c)'
    BY <1>5, SMTT(40) DEF SumOverflows, LoadEnd, Goto, IInv, TypeOK, CallerInv, atomics, locals, SumPanics, AlignMask
  <2> QED
    BY <1>5, <2>1, <2>2, LocalInv DEF SumOverflows, LoadEnd, locals, Steps
<1>6. ASSUME NEW c \in Callers, Room(c) PROVE IInv'
  <2>1. TypeOK'
    BY <1>6, SMTT(40) DEF Room, LoadEnd, Goto, IInv, TypeOK, Steps, atomics, locals
  <2>2. heap_end = HEAP_END /\ Aligned(current[c], layout[c]) + layout[c].size <= HEAP_END
    BY <1>6 DEF Room, Fits, IInv, CallerInv, PublishInv
  <2>3. CallerInv!(c)'
    BY <1>6, <2>2 DEF Room, LoadEnd, Goto, IInv, TypeOK, CallerInv, atomics, locals, Aligned, AlignMask
  <2> QED
    BY <1>6, <2>1, <2>3, LocalInv DEF Room, LoadEnd, locals, Steps
<1>7. ASSUME NEW c \in Callers, Claim(c) PROVE IInv'
  BY <1>7, ClaimInv, SMTT(40)
<1>8. ASSUME NEW c \in Callers, ClaimLost(c) PROVE IInv'
  <2>1. TypeOK'
    BY <1>8 DEF ClaimLost, Goto, IInv, TypeOK, Steps, atomics, locals
  <2>2. CallerInv!(c)'
    BY <1>8, SMTT(40) DEF ClaimLost, Goto, IInv, TypeOK, CallerInv, atomics, locals
  <2> QED
    BY <1>8, <2>1, <2>2, LocalInv DEF ClaimLost, locals, Steps
<1>9. ASSUME NEW c \in Callers, HeapUsed(c) PROVE IInv'
  <2>1. Len(blocks) \in Nat /\ (Len(blocks) # 0 => 1 \in DOMAIN blocks)
    BY DEF IInv, TypeOK
  <2>2. Len(blocks) # 0 => heap_start = HEAP_SPACE
    BY <2>1 DEF IInv, BlockInv, PublishInv
  <2>3. TypeOK'
    BY <1>9, <2>1 DEF HeapUsed, Goto, IInv, TypeOK, Steps, atomics
  <2>4. CallerInv!(c)'
    BY <1>9, <2>1, <2>2 DEF HeapUsed, Goto, IInv, TypeOK, CallerInv, PublishInv, atomics
  <2> QED
    BY <1>9, <2>3, <2>4, LocalInv, Zenon DEF HeapUsed, IInv, TypeOK, Steps
<1>10. CASE UNCHANGED vars
  <2>1. TypeOK' /\ PublishInv'
    BY <1>10 DEF vars, atomics, locals, IInv, TypeOK, PublishInv
  <2>2. CallerInv'
    BY <1>10 DEF vars, atomics, locals, IInv, CallerInv, Aligned, AlignMask, SumPanics
  <2>3. BlockInv' /\ BlocksDisjoint' /\ BlocksAligned'
    BY <1>10 DEF vars, atomics, IInv, BlockInv, BlocksDisjoint, BlocksAligned
  <2> QED
    BY <2>1, <2>2, <2>3 DEF IInv
<1> QED
  BY <1>1, <1>2, <1>3, <1>4, <1>5, <1>6, <1>7, <1>8, <1>9, <1>10 DEF Next, AllocStep

(* The inductive invariant holds throughout.                               *)
LEMMA Invariance == Spec => []IInv
  BY InitInv, InvNext, PTL DEF Spec

-----------------------------------------------------------------------------
(* Theorems                                                                *)

(* The atomics, program counters and locals keep their types.              *)
THEOREM TypeCorrect == Spec => []TypeOK
  BY Invariance, PTL DEF IInv

(* No two blocks returned by alloc overlap, for any number of racing       *)
(* callers and any layouts.                                                *)
THEOREM AllocDisjoint == Spec => []BlocksDisjoint
  BY Invariance, PTL DEF IInv

(* Every block returned by alloc has the alignment its layout asks for.    *)
THEOREM AllocAligned == Spec => []BlocksAligned
  BY Invariance, PTL DEF IInv

(* Every block returned by alloc lies inside HEAP_SPACE.                   *)
THEOREM AllocInHeap == Spec => []BlocksInHeap
<1>1. IInv => BlocksInHeap
  <2> SUFFICES ASSUME IInv, NEW n \in DOMAIN blocks
               PROVE  HEAP_SPACE <= blocks[n].addr /\ blocks[n].addr + blocks[n].size <= HEAP_END
    BY DEF BlocksInHeap
  <2>1. blocks[n] \in Block
    BY DEF IInv, TypeOK
  <2>2. /\ HEAP_SPACE <= blocks[n].addr /\ blocks[n].addr + blocks[n].size <= next
        /\ next <= HEAP_END
    BY DEF IInv, BlockInv, PublishInv
  <2>3. next \in Nat /\ HEAP_END \in Nat
    BY HeapAssumption DEF IInv, TypeOK, HEAP_END
  <2> QED
    BY <2>1, <2>2, <2>3 DEF Block
<1> QED
  BY <1>1, Invariance, PTL

(* The unchecked sum of line 65 overflows for no alignment up to the       *)
(* distance from the end of the heap to the end of the address space.      *)
THEOREM AllocPanics == Spec => []PanicsOnlyOnWideAlign
<1>1. IInv => PanicsOnlyOnWideAlign
  <2> SUFFICES ASSUME IInv, NEW c \in Callers, pc[c] = "panicked"
               PROVE  layout[c].align > USIZE - HEAP_END
    BY DEF PanicsOnlyOnWideAlign
  <2>1. layout[c] \in Layout /\ current[c] \in Nat
    BY LayoutTyped, SMTT(40) DEF IInv
  <2>2. current[c] + (layout[c].align - 1) >= USIZE /\ current[c] <= next /\ next <= HEAP_END
    BY DEF IInv, CallerInv, PublishInv, SumPanics, AlignMask
  <2>3. next \in Nat /\ HEAP_END \in Nat /\ USIZE \in Nat
    BY HeapAssumption DEF IInv, TypeOK, HEAP_END
  <2> QED
    BY <2>1, <2>2, <2>3 DEF Layout
<1> QED
  BY <1>1, Invariance, PTL

(* alloc refuses only what does not fit: a `current` that is not zero was  *)
(* read after heap_end was stored, and next has only grown since.          *)
THEOREM AllocRefusesRightly == Spec => NullMeansNoRoom
<1> DEFINE A == \A c \in Callers :
                  OutOfMemory(c) => Aligned(next, layout[c]) + layout[c].size > HEAP_END
<1>1. IInv /\ [Next]_vars => [A]_vars
  <2> SUFFICES ASSUME IInv, NEW c \in Callers, OutOfMemory(c)
               PROVE  Aligned(next, layout[c]) + layout[c].size > HEAP_END
    OBVIOUS
  <2>1. layout[c] \in Layout /\ current[c] \in Nat /\ next \in Nat
    BY LayoutTyped, SMTT(40) DEF IInv, TypeOK
  <2>2. heap_end = HEAP_END /\ current[c] <= next /\ ~ Fits(current[c], layout[c], HEAP_END)
    BY DEF OutOfMemory, IInv, CallerInv, PublishInv
  <2>3. PICK a \in Nat : a = Aligned(current[c], layout[c])
    BY <2>1, AlignedBounds
  <2>4. PICK b \in Nat : b = Aligned(next, layout[c])
    BY <2>1, AlignedBounds
  <2>5. a <= b
    BY <2>1, <2>2, <2>3, <2>4, AlignedMonotone
  <2>6. layout[c].size \in Nat /\ HEAP_END \in Nat /\ USIZE \in Nat /\ HEAP_END < USIZE
    BY <2>1, HeapAssumption DEF Layout, HEAP_END
  <2>7. ~ (a + layout[c].size < USIZE /\ a + layout[c].size <= HEAP_END)
    BY <2>2, <2>3 DEF Fits
  <2> QED
    BY <2>4, <2>5, <2>6, <2>7
<1> QED
  BY <1>1, Invariance, PTL DEF Spec, NullMeansNoRoom

(* heap_used reports at most the heap and at least the memory up to the    *)
(* end of every block granted before the call.                             *)
THEOREM UsageTruthful == Spec => UsageCoversBlocks
<1> DEFINE A == \A c \in Callers : UsedNext(c) =>
                  LET used == Used(start[c], next)
                  IN  /\ used <= HEAP_SIZE
                      /\ \A n \in 1 .. owed[c] : blocks[n].addr + blocks[n].size <= HEAP_SPACE + used
<1>1. IInv /\ [Next]_vars => [A]_vars
  <2> SUFFICES ASSUME IInv, NEW c \in Callers, UsedNext(c)
               PROVE  /\ Used(start[c], next) <= HEAP_SIZE
                      /\ \A n \in 1 .. owed[c] :
                           blocks[n].addr + blocks[n].size <= HEAP_SPACE + Used(start[c], next)
    OBVIOUS
  <2>1. /\ start[c] \in {0, HEAP_SPACE} /\ owed[c] <= Len(blocks) /\ owed[c] \in Nat
        /\ owed[c] # 0 => start[c] = HEAP_SPACE
    BY DEF UsedNext, IInv, CallerInv, TypeOK
  <2>2. HEAP_SPACE \in Nat \ {0} /\ HEAP_SIZE \in Nat /\ next \in Nat /\ HEAP_END = HEAP_SPACE + HEAP_SIZE
    BY HeapAssumption DEF HEAP_END, IInv, TypeOK
  <2>3. next = 0 \/ next <= HEAP_END
    BY DEF IInv, PublishInv
  <2>4. Used(start[c], next) <= HEAP_SIZE
    BY <2>1, <2>2, <2>3 DEF Used
  <2>5. ASSUME NEW n \in 1 .. owed[c]
        PROVE  blocks[n].addr + blocks[n].size <= HEAP_SPACE + Used(start[c], next)
    <3>1. n \in DOMAIN blocks
      BY <2>1, SMTT(40) DEF IInv, TypeOK
    <3>2. HEAP_SPACE <= next /\ blocks[n].addr + blocks[n].size <= next /\ start[c] = HEAP_SPACE
      BY <2>1, <3>1 DEF IInv, BlockInv, PublishInv
    <3> QED
      BY <2>2, <3>2 DEF Used
  <2> QED
    BY <2>4, <2>5
<1> QED
  BY <1>1, Invariance, PTL DEF Spec, UsageCoversBlocks
=============================================================================
