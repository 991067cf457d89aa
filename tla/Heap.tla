-------------------------------- MODULE Heap --------------------------------
(***************************************************************************)
(* The kernel heap of kernel/src/memory/heap.rs: a lock-free bump          *)
(* allocator.  BumpAllocator::initialize publishes it by three stores, and *)
(* `alloc` reads next and heap_end one after the other before it claims    *)
(* memory by a compare_exchange of next.  One action is one atomic access  *)
(* together with the local code up to the following one.                   *)
(*                                                                         *)
(* Addresses are below USIZE (2^64).  The image is linked into the top 2   *)
(* GiB of the address space, so a sum that leaves the address space is not *)
(* far away: `checked_add` refuses one of them, and the other, the plain   *)
(* `+` of line 65, panics in the dev profile that xtask builds.            *)
(***************************************************************************)
EXTENDS Integers, Sequences

CONSTANTS
  Callers,    \* the contexts that may allocate or ask for heap_used
  USIZE,      \* number of addresses
  HEAP_SPACE, \* address of the static array
  HEAP_SIZE,
  Layouts     \* [size, align] of the requests

HEAP_END == HEAP_SPACE + HEAP_SIZE

ASSUME HeapAssumption ==
  /\ USIZE \in Nat
  /\ HEAP_SPACE \in Nat \ {0}
  /\ HEAP_SIZE \in Nat
  /\ HEAP_END < USIZE

ASSUME LayoutAssumption ==
  Layouts # {} /\ Layouts \subseteq [size : Nat \ {0}, align : Nat \ {0}]

VARIABLES
  init_pc,    \* progress of BumpAllocator::initialize
  heap_start, heap_end, next,
  pc,         \* where each caller is
  layout,     \* argument of its alloc
  current,    \* local of alloc
  start,      \* local of heap_used
  owed,       \* history: number of blocks when its heap_used began
  blocks      \* history: the blocks returned, in order

atomics == <<heap_start, heap_end, next>>
locals  == <<layout, current, start, owed>>
vars    == <<init_pc, atomics, pc, locals, blocks>>

InitSteps == {"heap_start", "heap_end", "next", "ready"}
Steps     == {"idle", "load_next", "load_end", "compare_exchange", "used_next", "panicked"}
Block     == [addr : Nat, size : Nat \ {0}, align : Nat \ {0}]

AnyLayout == CHOOSE l \in Layouts : TRUE

Init ==
  /\ init_pc = "heap_start"
  /\ heap_start = 0 /\ heap_end = 0 /\ next = 0
  /\ pc = [c \in Callers |-> "idle"]
  /\ layout = [c \in Callers |-> AnyLayout]
  /\ current = [c \in Callers |-> 0]
  /\ start = [c \in Callers |-> 0]
  /\ owed = [c \in Callers |-> 0]
  /\ blocks = <<>>

Goto(c, step) == pc' = [pc EXCEPT ![c] = step]

\* The call returns; its locals are gone.
Return(c) ==
  /\ Goto(c, "idle")
  /\ layout' = [layout EXCEPT ![c] = AnyLayout]
  /\ current' = [current EXCEPT ![c] = 0]
  /\ start' = [start EXCEPT ![c] = 0]
  /\ owed' = [owed EXCEPT ![c] = 0]

-----------------------------------------------------------------------------
(* initialize: three stores                                                *)

StoreStart ==
  /\ init_pc = "heap_start"
  /\ init_pc' = "heap_end"
  /\ heap_start' = HEAP_SPACE
  /\ UNCHANGED <<heap_end, next, pc, locals, blocks>>

\* Mutant: next is published before the end of the heap
StoreEnd_Swapped ==
  /\ init_pc = "heap_end"
  /\ init_pc' = "next"
  /\ next' = HEAP_SPACE
  /\ UNCHANGED <<heap_start, heap_end, pc, locals, blocks>>

StoreEnd ==
  /\ init_pc = "heap_end"
  /\ init_pc' = "next"
  /\ heap_end' = HEAP_END
  /\ UNCHANGED <<heap_start, next, pc, locals, blocks>>

StoreNext ==
  /\ init_pc = "next"
  /\ init_pc' = "ready"
  /\ next' = HEAP_SPACE
  /\ UNCHANGED <<heap_start, heap_end, pc, locals, blocks>>

Initialize == StoreStart \/ StoreEnd \/ StoreNext

-----------------------------------------------------------------------------
(* alloc                                                                   *)

AlignMask(l) == l.align - 1

\* Mutant: `current & !align_mask` rounds down
Aligned_Down(at, l) == at - (at % l.align)

\* (current + align_mask) & !align_mask, for an align that is a power of two
Aligned(at, l) == at + AlignMask(l) - ((at + AlignMask(l)) % l.align)

\* The sum of line 65 overflows.
SumPanics(at, l) == at + AlignMask(l) >= USIZE

\* checked_add is Some(next), and next <= heap_end
Fits(at, l, end) ==
  /\ Aligned(at, l) + l.size < USIZE
  /\ Aligned(at, l) + l.size <= end

Alloc(c, l) ==
  /\ pc[c] = "idle"
  /\ layout' = [layout EXCEPT ![c] = l]
  /\ Goto(c, "load_next")
  /\ UNCHANGED <<init_pc, atomics, current, start, owed, blocks>>

LoadNext(c) ==
  /\ pc[c] = "load_next"
  /\ current' = [current EXCEPT ![c] = next]
  /\ Goto(c, "load_end")
  /\ UNCHANGED <<init_pc, atomics, layout, start, owed, blocks>>

\* The load of heap_end, and the four ways the checks after it can go
LoadEnd(c) == pc[c] = "load_end" /\ UNCHANGED <<init_pc, atomics, blocks>>

NotInitialized(c) ==
  /\ LoadEnd(c)
  /\ current[c] = 0
  /\ Return(c)

\* Mutant: sums are computed in half of the address space
SumOverflows_Signed(c) ==
  /\ LoadEnd(c)
  /\ current[c] # 0
  /\ current[c] + AlignMask(layout[c]) >= USIZE \div 2
  /\ Goto(c, "panicked") /\ UNCHANGED locals

SumOverflows(c) ==
  /\ LoadEnd(c)
  /\ current[c] # 0
  /\ SumPanics(current[c], layout[c])
  /\ Goto(c, "panicked") /\ UNCHANGED locals

OutOfMemory(c) ==
  /\ LoadEnd(c)
  /\ current[c] # 0
  /\ ~ SumPanics(current[c], layout[c])
  /\ ~ Fits(current[c], layout[c], heap_end)
  /\ Return(c)

Room(c) ==
  /\ LoadEnd(c)
  /\ current[c] # 0
  /\ ~ SumPanics(current[c], layout[c])
  /\ Fits(current[c], layout[c], heap_end)
  /\ Goto(c, "compare_exchange") /\ UNCHANGED locals

Claimed(c) ==
  [addr |-> Aligned(current[c], layout[c]), size |-> layout[c].size, align |-> layout[c].align]

\* Mutant: a plain store
Claim_Store(c) ==
  /\ pc[c] = "compare_exchange"
  /\ next' = Claimed(c).addr + Claimed(c).size
  /\ blocks' = Append(blocks, Claimed(c))
  /\ Return(c)
  /\ UNCHANGED <<init_pc, heap_start, heap_end>>

Claim(c) ==
  /\ pc[c] = "compare_exchange"
  /\ next = current[c]
  /\ next' = Claimed(c).addr + Claimed(c).size
  /\ blocks' = Append(blocks, Claimed(c))
  /\ Return(c)
  /\ UNCHANGED <<init_pc, heap_start, heap_end>>

\* Mutant: the loser retries the compare_exchange with the value it has
ClaimLost_NoReload(c) ==
  /\ pc[c] = "compare_exchange"
  /\ next # current[c]
  /\ UNCHANGED vars

ClaimLost(c) ==
  /\ pc[c] = "compare_exchange"
  /\ next # current[c]
  /\ Goto(c, "load_next")
  /\ UNCHANGED <<init_pc, atomics, locals, blocks>>

-----------------------------------------------------------------------------
(* heap_used: two loads                                                    *)

HeapUsed(c) ==
  /\ pc[c] = "idle"
  /\ start' = [start EXCEPT ![c] = heap_start]
  /\ owed' = [owed EXCEPT ![c] = Len(blocks)]
  /\ Goto(c, "used_next")
  /\ UNCHANGED <<init_pc, atomics, layout, current, blocks>>

\* Mutant: `next < start` is not tested, and the difference wraps
Used_Wraps(from, to) == IF from = 0 THEN 0 ELSE (to - from) % USIZE

Used(from, to) == IF from = 0 \/ to < from THEN 0 ELSE to - from

\* Returns Used(start[c], next)
UsedNext(c) ==
  /\ pc[c] = "used_next"
  /\ Return(c)
  /\ UNCHANGED <<init_pc, atomics, blocks>>

-----------------------------------------------------------------------------

AllocStep(c) ==
  \/ LoadNext(c)
  \/ NotInitialized(c) \/ SumOverflows(c) \/ OutOfMemory(c) \/ Room(c)
  \/ Claim(c) \/ ClaimLost(c)

Next ==
  \/ Initialize
  \/ \E c \in Callers :
       (\E l \in Layouts : Alloc(c, l)) \/ AllocStep(c) \/ HeapUsed(c) \/ UsedNext(c)

Spec == Init /\ [][Next]_vars

(* A context that is inside alloc keeps running.                           *)
FairSpec == Spec /\ \A c \in Callers : WF_vars(AllocStep(c))

-----------------------------------------------------------------------------
(* Properties                                                              *)

(* Every variable keeps the shape of the Rust value it stands for, and     *)
(* `next` never passes the end of the heap.                                *)
TypeOK ==
  /\ init_pc \in InitSteps
  /\ heap_start \in Nat /\ heap_end \in Nat /\ next \in 0 .. HEAP_END
  /\ pc \in [Callers -> Steps]
  /\ layout \in [Callers -> Layouts]
  /\ current \in [Callers -> Nat]
  /\ start \in [Callers -> Nat]
  /\ owed \in [Callers -> Nat]
  /\ blocks \in Seq(Block)

(* No two successful calls of alloc return overlapping memory, although    *)
(* every caller computes its block from a `next` read two steps before.    *)
BlocksDisjoint ==
  \A m, n \in DOMAIN blocks :
    m # n => \/ blocks[m].addr + blocks[m].size <= blocks[n].addr
             \/ blocks[n].addr + blocks[n].size <= blocks[m].addr

(* A block lies inside HEAP_SPACE, even one computed from a heap_end that  *)
(* was loaded while initialize was still publishing the heap.              *)
BlocksInHeap ==
  \A n \in DOMAIN blocks :
    HEAP_SPACE <= blocks[n].addr /\ blocks[n].addr + blocks[n].size <= HEAP_END

(* A block has the alignment of its layout, wherever `next` stood.         *)
BlocksAligned == \A n \in DOMAIN blocks : blocks[n].addr % blocks[n].align = 0

(* A call that saw a published heap returns null only if its request does  *)
(* not fit above `next` at that moment: seeing `next` implies seeing the   *)
(* heap_end that initialize stored before it.                              *)
NullMeansNoRoom ==
  [][\A c \in Callers :
       OutOfMemory(c) => Aligned(next, layout[c]) + layout[c].size > HEAP_END]_vars

(* The unchecked sum of line 65 panics only for an alignment wider than    *)
(* what is left of the address space above the heap; for every other       *)
(* layout, exhaustion is reported by null.                                 *)
PanicsOnlyOnWideAlign ==
  \A c \in Callers : pc[c] = "panicked" => layout[c].align > USIZE - HEAP_END

(* heap_used, read while others allocate or initialize, never exceeds the  *)
(* heap and covers every block that was granted before the call.           *)
UsageCoversBlocks ==
  [][\A c \in Callers : UsedNext(c) =>
       LET used == Used(start[c], next)
       IN  /\ used <= HEAP_SIZE
           /\ \A n \in 1 .. owed[c] : blocks[n].addr + blocks[n].size <= HEAP_SPACE + used]_vars

(* Every call of alloc ends: a lost compare_exchange means that someone    *)
(* else took memory, and there is only so much of it.                      *)
AllocReturns ==
  \A c \in Callers :
    pc[c] \in {"load_next", "load_end", "compare_exchange"} ~> pc[c] \in {"idle", "panicked"}
=============================================================================
