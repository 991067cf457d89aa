--------------------------- MODULE FrameAllocator ---------------------------
(***************************************************************************)
(* The physical frame allocator of kernel/src/memory/frame_allocator.rs.   *)
(* `initialize` builds the table of usable ranges from the boot memory map *)
(* and publishes it; allocate_frame is a lock-free bump allocator over the *)
(* table.  Two atomics carry its state, current_range and current_frame,   *)
(* never read or written together: a call of allocate_frame is a loop of   *)
(* single atomic steps that interleave with those of every other call.     *)
(*                                                                         *)
(* Addresses are byte addresses, all below 2^64 - FRAME_SIZE, so that      *)
(* neither MemoryRegion::end saturates nor align_up wraps.                 *)
(***************************************************************************)
EXTENDS Integers, Sequences, FiniteSets

CONSTANTS
  Callers,             \* the contexts that may call allocate_frame
  FRAME_SIZE,          \* bytes per frame
  MAX_MEMORY_REGIONS,  \* slots of BootInfo::memory_regions
  MAX_USABLE_RANGES,   \* slots of the table
  MemoryMaps           \* memory maps the boot loader may hand over

Region == [base : Nat, length : Nat, usable : BOOLEAN]

End(region) == region.base + region.length

(***************************************************************************)
(* Usable entries of a memory map neither overlap nor touch: contiguous    *)
(* usable memory is one entry.  (Two touching ranges would break           *)
(* GrantsDisjoint: see README.)                                            *)
(***************************************************************************)
Separated(map) ==
  \A j, k \in DOMAIN map :
    j # k /\ map[j].usable /\ map[k].usable =>
      End(map[j]) < map[k].base \/ End(map[k]) < map[j].base

ASSUME SizeAssumption ==
  /\ FRAME_SIZE \in Nat \ {0}
  /\ MAX_MEMORY_REGIONS \in Nat
  /\ MAX_USABLE_RANGES \in Nat

ASSUME MemoryMapAssumption ==
  \A map \in MemoryMaps : map \in Seq(Region) /\ Separated(map)

VARIABLES
  memory_map,          \* the entries collect_boot_info reads
  init_pc,             \* progress of `initialize`
  region,              \* entries its loop has passed
  ranges, range_count, total_frames,   \* its locals, then FrameAllocator's
  USABLE_FRAME_COUNT,
  USABLE_RANGE_COUNT,
  current_range,       \* FrameAllocator::current_range
  current_frame,       \* FrameAllocator::current_frame
  pc,                  \* where each caller is inside allocate_frame
  range_index,         \* local of allocate_frame and advance_range
  current,             \* local of allocate_frame
  granted              \* history: the addresses returned as Some, in order

table  == <<memory_map, region, ranges, range_count, total_frames>>
counts == <<init_pc, USABLE_FRAME_COUNT, USABLE_RANGE_COUNT>>
shared == <<current_range, current_frame>>
local  == <<pc, range_index, current, granted>>
vars   == <<table, counts, shared, local>>

Slots     == 0 .. MAX_USABLE_RANGES - 1
InitSteps == {"loop", "store_frames", "store_ranges", "call_once", "ready"}
Steps     == {"idle", "load_range", "load_frame", "claim", "advance", "store_start"}
EMPTY     == [start |-> 0, end |-> 0]

Init ==
  /\ memory_map \in MemoryMaps
  /\ init_pc = "loop"
  /\ region = 0
  /\ ranges = [i \in Slots |-> EMPTY]
  /\ range_count = 0
  /\ total_frames = 0
  /\ USABLE_FRAME_COUNT = 0
  /\ USABLE_RANGE_COUNT = 0
  /\ current_range = 0
  /\ current_frame = 0
  /\ pc = [c \in Callers |-> "idle"]
  /\ range_index = [c \in Callers |-> 0]
  /\ current = [c \in Callers |-> 0]
  /\ granted = <<>>

Goto(c, step) == pc' = [pc EXCEPT ![c] = step]

-----------------------------------------------------------------------------
(* initialize                                                              *)

align_up(value) ==
  IF value % FRAME_SIZE = 0 THEN value ELSE value + (FRAME_SIZE - (value % FRAME_SIZE))

\* Mutant: rounds a partial last frame in
align_down_Up(value) == value + (FRAME_SIZE - 1) - ((value + FRAME_SIZE - 1) % FRAME_SIZE)

align_down(value) == value - (value % FRAME_SIZE)

Span(r) == [start |-> align_up(r.base), end |-> align_down(End(r))]

\* Neither `continue` of the loop is taken.
HasFrames(r) ==
  /\ r.usable
  /\ r.length >= FRAME_SIZE
  /\ Span(r).start < Span(r).end

\* collect_boot_info keeps the entries that fit in memory_regions.
Kept == IF Len(memory_map) < MAX_MEMORY_REGIONS THEN Len(memory_map) ELSE MAX_MEMORY_REGIONS

\* Mutant: the end taken as inclusive
FramesOf_Short(span) == (span.end - span.start - 1) \div FRAME_SIZE

FramesOf(span) == (span.end - span.start) \div FRAME_SIZE

SkipRegion ==
  /\ init_pc = "loop"
  /\ region < Kept
  /\ ~ HasFrames(memory_map[region + 1])
  /\ region' = region + 1
  /\ UNCHANGED <<memory_map, ranges, range_count, total_frames, counts, shared, local>>

\* A region beyond the table's capacity is still counted.
TakeRegion ==
  /\ init_pc = "loop"
  /\ region < Kept
  /\ HasFrames(memory_map[region + 1])
  /\ region' = region + 1
  /\ LET span == Span(memory_map[region + 1])
     IN  /\ \/ /\ range_count < MAX_USABLE_RANGES
               /\ ranges' = [ranges EXCEPT ![range_count] = span]
               /\ range_count' = range_count + 1
            \/ /\ range_count >= MAX_USABLE_RANGES
               /\ UNCHANGED <<ranges, range_count>>
         /\ total_frames' = total_frames + FramesOf(span)
  /\ UNCHANGED <<memory_map, counts, shared, local>>

EndLoop ==
  /\ init_pc = "loop"
  /\ region >= Kept
  /\ init_pc' = "store_frames"
  /\ UNCHANGED <<table, USABLE_FRAME_COUNT, USABLE_RANGE_COUNT, shared, local>>

StoreFrameCount ==
  /\ init_pc = "store_frames"
  /\ init_pc' = "store_ranges"
  /\ USABLE_FRAME_COUNT' = total_frames
  /\ UNCHANGED <<table, USABLE_RANGE_COUNT, shared, local>>

StoreRangeCount ==
  /\ init_pc = "store_ranges"
  /\ init_pc' = "call_once"
  /\ USABLE_RANGE_COUNT' = range_count
  /\ UNCHANGED <<table, USABLE_FRAME_COUNT, shared, local>>

\* FrameAllocator::new, inside ALLOCATOR.call_once
CallOnce ==
  /\ init_pc = "call_once"
  /\ init_pc' = "ready"
  /\ current_range' = 0
  /\ current_frame' = IF range_count > 0 THEN ranges[0].start ELSE 0
  /\ UNCHANGED <<table, USABLE_FRAME_COUNT, USABLE_RANGE_COUNT, local>>

-----------------------------------------------------------------------------
(* allocate_frame, one atomic access per action.  Before the Once is set   *)
(* `ALLOCATOR.get()` is None and a call returns None having touched        *)
(* nothing, so only calls made after it are modelled.                      *)

Call(c) ==
  /\ pc[c] = "idle"
  /\ init_pc = "ready"
  /\ Goto(c, "load_range")
  /\ UNCHANGED <<table, counts, shared, range_index, current, granted>>

\* Mutant: range_index is not compared with range_count
LoadRange_Unchecked(c) ==
  /\ pc[c] = "load_range"
  /\ range_index' = [range_index EXCEPT ![c] = current_range]
  /\ Goto(c, "load_frame")
  /\ UNCHANGED <<table, counts, shared, current, granted>>

LoadRange(c) ==
  /\ pc[c] = "load_range"
  /\ current_range < range_count
  /\ range_index' = [range_index EXCEPT ![c] = current_range]
  /\ Goto(c, "load_frame")
  /\ UNCHANGED <<table, counts, shared, current, granted>>

\* range_index >= range_count: the call returns None
Exhausted(c) ==
  /\ pc[c] = "load_range"
  /\ current_range >= range_count
  /\ range_index' = [range_index EXCEPT ![c] = current_range]
  /\ Goto(c, "idle")
  /\ UNCHANGED <<table, counts, shared, current, granted>>

\* Mutant: `next >= range.end` instead of `next > range.end`
Claimable_Strict(range, frame) == frame >= range.start /\ frame + FRAME_SIZE < range.end

\* Neither early exit of the loop body is taken: the frame lies in the range.
Claimable(range, frame) ==
  /\ frame >= range.start
  /\ frame < range.end
  /\ frame + FRAME_SIZE <= range.end

LoadFrame(c) ==
  /\ pc[c] = "load_frame"
  /\ current' = [current EXCEPT ![c] = current_frame]
  /\ Goto(c, IF Claimable(ranges[range_index[c]], current_frame) THEN "claim" ELSE "advance")
  /\ UNCHANGED <<table, counts, shared, range_index, granted>>

\* Mutant: a plain store instead of compare_exchange
Claim_Store(c) ==
  /\ pc[c] = "claim"
  /\ current_frame' = current[c] + FRAME_SIZE
  /\ granted' = Append(granted, current[c])
  /\ Goto(c, "idle")
  /\ UNCHANGED <<table, counts, current_range, range_index, current>>

\* compare_exchange on current_frame succeeds: the call returns Some(current)
Claim(c) ==
  /\ pc[c] = "claim"
  /\ current_frame = current[c]
  /\ current_frame' = current[c] + FRAME_SIZE
  /\ granted' = Append(granted, current[c])
  /\ Goto(c, "idle")
  /\ UNCHANGED <<table, counts, current_range, range_index, current>>

ClaimLost(c) ==
  /\ pc[c] = "claim"
  /\ current_frame # current[c]
  /\ Goto(c, "load_range")
  /\ UNCHANGED <<table, counts, shared, range_index, current, granted>>

(***************************************************************************)
(* advance_range.  On the last range it stores range_count and the caller  *)
(* returns None (from line 103; from line 112 too, since `next` was beyond *)
(* the range).  Otherwise the winner of the compare_exchange owes a store  *)
(* of the new range's start, and the loser simply retries.                 *)
(***************************************************************************)
\* Mutant: on the last range the caller retries without storing range_count
AdvanceLast_Retry(c) ==
  /\ pc[c] = "advance"
  /\ range_index[c] + 1 >= range_count
  /\ Goto(c, "load_range")
  /\ UNCHANGED <<table, counts, shared, range_index, current, granted>>

AdvanceLast(c) ==
  /\ pc[c] = "advance"
  /\ range_index[c] + 1 >= range_count
  /\ current_range' = range_count
  /\ Goto(c, "idle")
  /\ UNCHANGED <<table, counts, current_frame, range_index, current, granted>>

\* Mutant: a plain store instead of compare_exchange
AdvanceWon_Store(c) ==
  /\ pc[c] = "advance"
  /\ range_index[c] + 1 < range_count
  /\ current_range' = range_index[c] + 1
  /\ Goto(c, "store_start")
  /\ UNCHANGED <<table, counts, current_frame, range_index, current, granted>>

AdvanceWon(c) ==
  /\ pc[c] = "advance"
  /\ range_index[c] + 1 < range_count
  /\ current_range = range_index[c]
  /\ current_range' = range_index[c] + 1
  /\ Goto(c, "store_start")
  /\ UNCHANGED <<table, counts, current_frame, range_index, current, granted>>

AdvanceLost(c) ==
  /\ pc[c] = "advance"
  /\ range_index[c] + 1 < range_count
  /\ current_range # range_index[c]
  /\ Goto(c, "load_range")
  /\ UNCHANGED <<table, counts, shared, range_index, current, granted>>

StoreStart(c) ==
  /\ pc[c] = "store_start"
  /\ current_frame' = ranges[range_index[c] + 1].start
  /\ Goto(c, "load_range")
  /\ UNCHANGED <<table, counts, current_range, range_index, current, granted>>

-----------------------------------------------------------------------------

Initialize ==
  SkipRegion \/ TakeRegion \/ EndLoop \/ StoreFrameCount \/ StoreRangeCount \/ CallOnce

\* The steps of a call in progress
CallerStep(c) ==
  \/ LoadRange(c)   \/ Exhausted(c)  \/ LoadFrame(c)
  \/ Claim(c)       \/ ClaimLost(c)
  \/ AdvanceLast(c) \/ AdvanceWon(c) \/ AdvanceLost(c) \/ StoreStart(c)

Next == Initialize \/ \E c \in Callers : Call(c) \/ CallerStep(c)

Spec == Init /\ [][Next]_vars

(* A context that is inside allocate_frame keeps running.                  *)
FairSpec == Spec /\ \A c \in Callers : WF_vars(CallerStep(c))

-----------------------------------------------------------------------------
(* Properties                                                              *)

Index == 0 .. range_count - 1

(* Every variable keeps the shape of the Rust value it stands for; a       *)
(* caller that indexes `ranges` does so below range_count.                 *)
TypeOK ==
  /\ memory_map \in MemoryMaps
  /\ init_pc \in InitSteps
  /\ region \in 0 .. Kept
  /\ ranges \in [Slots -> [start : Nat, end : Nat]]
  /\ range_count \in 0 .. MAX_USABLE_RANGES
  /\ total_frames \in Nat
  /\ USABLE_FRAME_COUNT \in Nat
  /\ USABLE_RANGE_COUNT \in Nat
  /\ current_range \in 0 .. range_count
  /\ current_frame \in Nat
  /\ pc \in [Callers -> Steps]
  /\ range_index \in [Callers -> 0 .. range_count]
  /\ current \in [Callers -> Nat]
  /\ granted \in Seq(Nat)
  /\ \A c \in Callers :
       pc[c] \in {"load_frame", "claim", "advance", "store_start"} => range_index[c] \in Index

(* No two successful calls of allocate_frame are given overlapping memory, *)
(* whatever the interleaving of their loads, compare_exchanges and of the  *)
(* delayed store of a new range's start.                                   *)
GrantsDisjoint ==
  \A m, n \in DOMAIN granted :
    m # n => \/ granted[m] + FRAME_SIZE <= granted[n]
             \/ granted[n] + FRAME_SIZE <= granted[m]

(* A frame handed out lies wholly inside one usable entry of the boot      *)
(* memory map: `initialize` rounds inwards, and a current_frame read under *)
(* a stale range_index is never handed out.                                *)
GrantsUsable ==
  \A n \in DOMAIN granted : \E k \in DOMAIN memory_map :
    /\ memory_map[k].usable
    /\ memory_map[k].base <= granted[n]
    /\ granted[n] + FRAME_SIZE <= End(memory_map[k])

(* Every frame handed out starts on a frame boundary, from whichever entry *)
(* of the memory map its range was rounded.                                *)
GrantsAligned == \A n \in DOMAIN granted : granted[n] % FRAME_SIZE = 0

(* The allocator never returns to a range it has left, so once a call has  *)
(* found it exhausted every later call will: no stale compare_exchange or  *)
(* plain store of advance_range moves current_range back.                  *)
RangeNeverRewinds ==
  [][init_pc = "ready" => current_range' >= current_range]_vars

(* The counts reported by `mem` and QueryUsableFrames are never below what *)
(* allocate_frame has delivered, from the first moment a call can succeed. *)
CountsCoverGrants ==
  /\ Len(granted) <= USABLE_FRAME_COUNT
  /\ current_range <= USABLE_RANGE_COUNT

(* When every usable entry fits in the table, allocate_frame answers None  *)
(* only after delivering exactly the number of frames that `initialize`    *)
(* counted.  It holds for one caller, and for any number of callers of a   *)
(* table of one range; callers racing over several ranges can lose frames. *)
NoneMeansAllGranted ==
  (/\ init_pc = "ready"
   /\ current_range = range_count
   /\ Cardinality({k \in 1 .. Kept : HasFrames(memory_map[k])}) = range_count)
  => Len(granted) = USABLE_FRAME_COUNT

\* No other caller is inside allocate_frame.
Alone(c) == \A d \in Callers \ {c} : pc[d] = "idle"

(* NoneMeansAllGranted, where it holds: as long as one caller is the only  *)
(* one ever inside allocate_frame, or the table has at most one range.     *)
NoFrameIsLost ==
  \A c \in Callers : [](Alone(c) \/ range_count <= 1) => []NoneMeansAllGranted

(* Every call of allocate_frame returns: each retry of the loop is paid    *)
(* for by a step forward of current_range or current_frame.                *)
CallsReturn == \A c \in Callers : pc[c] # "idle" ~> pc[c] = "idle"
=============================================================================
