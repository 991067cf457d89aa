------------------------ MODULE FrameAllocatorProofs ------------------------
(***************************************************************************)
(* Proofs about FrameAllocator for every memory map, frame size, table     *)
(* size and set of callers.                                                *)
(*                                                                         *)
(* The inductive invariant has two halves: what the loop of `initialize`   *)
(* establishes about the table (TableInv), and how the two atomics relate  *)
(* to the frames already handed out and to the starts still to be stored   *)
(* (AllocInv).  Alignment and counting have invariants of their own on top. *)
(***************************************************************************)
EXTENDS FrameAllocator, FiniteSetTheorems, TLAPS

Apart(a, b) == a.end < b.start \/ b.end < a.start

Covers(r, span) == r.usable /\ r.base <= span.start /\ span.end <= End(r)

TableInv ==
  /\ \A i \in Index : ranges[i].start < ranges[i].end
  /\ \A i \in Index : \E k \in DOMAIN memory_map : Covers(memory_map[k], ranges[i])
  /\ \A i, j \in Index : i # j => Apart(ranges[i], ranges[j])
  /\ \A i \in Index : \A k \in DOMAIN memory_map :
       init_pc = "loop" /\ k > region /\ HasFrames(memory_map[k]) =>
         Apart(ranges[i], Span(memory_map[k]))

Inside(i, a) == ranges[i].start <= a /\ a < ranges[i].end

\* Range i waits for the winner of current_range's CAS to store its start.
Awaited(i) == \E c \in Callers : pc[c] = "store_start" /\ range_index[c] + 1 = i

\* Range i has been entered: its start has been current_frame.
Entered(i) == i <= current_range /\ ~ Awaited(i)

QuietBeforeReady ==
  init_pc # "ready" =>
    current_range = 0 /\ granted = <<>> /\ \A c \in Callers : pc[c] = "idle"

GrantsFit ==
  \A n \in DOMAIN granted : \E i \in Index :
    ranges[i].start <= granted[n] /\ granted[n] + FRAME_SIZE <= ranges[i].end

GrantsEntered ==
  \A n \in DOMAIN granted : \A i \in Index : Inside(i, granted[n]) => Entered(i)

GrantsBelow ==
  \A n \in DOMAIN granted : \A i \in Index :
    Inside(i, granted[n]) /\ Inside(i, current_frame) => granted[n] + FRAME_SIZE <= current_frame

FrameEntered ==
  init_pc = "ready" => \A i \in Index : Inside(i, current_frame) => Entered(i)

StartsOwed ==
  \A c \in Callers : pc[c] = "store_start" =>
    /\ range_index[c] + 1 \in Index
    /\ range_index[c] + 1 <= current_range
    /\ \A d \in Callers : pc[d] = "store_start" /\ range_index[d] = range_index[c] => c = d

ClaimsFit ==
  \A c \in Callers : pc[c] = "claim" => Claimable(ranges[range_index[c]], current[c])

AllocInv ==
  /\ QuietBeforeReady /\ GrantsFit /\ GrantsEntered /\ GrantsBelow
  /\ FrameEntered /\ StartsOwed /\ ClaimsFit /\ GrantsDisjoint

IInv == TypeOK /\ TableInv /\ AllocInv

-----------------------------------------------------------------------------
(* Arithmetic of the table                                                 *)

\* align_up never moves down and align_down never moves up.
LEMMA AlignBounds ==
  ASSUME NEW v \in Nat
  PROVE  /\ align_up(v) \in Nat /\ v <= align_up(v)
         /\ align_down(v) \in Nat /\ align_down(v) <= v
<1>1. v % FRAME_SIZE \in 0 .. FRAME_SIZE - 1
  BY SizeAssumption
<1>2. v % FRAME_SIZE <= v
  BY SizeAssumption, Z3
<1> QED
  BY <1>1, <1>2, SizeAssumption DEF align_up, align_down

\* A region with frames covers its span.
LEMMA SpanCovered ==
  ASSUME NEW r \in Region
  PROVE  /\ Span(r) \in [start : Nat, end : Nat]
         /\ HasFrames(r) => Covers(r, Span(r))
<1>1. r.base \in Nat /\ End(r) \in Nat
  BY DEF Region, End
<1> QED
  BY <1>1, AlignBounds, Zenon DEF Span, HasFrames, Covers

\* Spans of two distinct usable entries of a memory map do not touch.
LEMMA SpansApart ==
  ASSUME NEW map \in MemoryMaps, NEW j \in DOMAIN map, NEW k \in DOMAIN map, j # k,
         HasFrames(map[j]), HasFrames(map[k])
  PROVE  Apart(Span(map[j]), Span(map[k]))
<1>1. map \in Seq(Region) /\ Separated(map)
  BY MemoryMapAssumption, Zenon
<1>2. map[j] \in Region /\ map[k] \in Region
  BY <1>1
<1>3. End(map[j]) < map[k].base \/ End(map[k]) < map[j].base
  BY <1>1, Zenon DEF Separated, HasFrames
<1>4. /\ map[j].base \in Nat /\ End(map[j]) \in Nat
      /\ map[k].base \in Nat /\ End(map[k]) \in Nat
  BY <1>2 DEF Region, End
<1> QED
  BY <1>3, <1>4, AlignBounds DEF Apart, Span

(* The bounds of a range of the table are addresses.                       *)
LEMMA RangesTyped ==
  TypeOK => \A i \in Index : ranges[i].start \in Nat /\ ranges[i].end \in Nat
<1> SUFFICES ASSUME TypeOK, NEW i \in Index
             PROVE  ranges[i].start \in Nat /\ ranges[i].end \in Nat
  BY Zenon
<1>1. i \in Slots
  BY SizeAssumption DEF TypeOK, Index, Slots
<1> QED
  BY <1>1, Zenon DEF TypeOK

\* Ranges stay apart, closed ends included: an address is in one at most.
LEMMA InsideUnique ==
  ASSUME TypeOK, TableInv, NEW i \in Index, NEW j \in Index, NEW a \in Nat,
         Inside(i, a), ranges[j].start <= a, a <= ranges[j].end
  PROVE  i = j
  BY RangesTyped DEF TableInv, Apart, Inside

-----------------------------------------------------------------------------
(* The invariant is inductive: `initialize`                                *)

(* A grant is appended to the history.                                     *)
LEMMA Appended ==
  ASSUME NEW s \in Seq(Nat), NEW e \in Nat
  PROVE  /\ Append(s, e) \in Seq(Nat)
         /\ DOMAIN Append(s, e) = DOMAIN s \cup {Len(s) + 1}
         /\ Append(s, e)[Len(s) + 1] = e
         /\ \A n \in DOMAIN s : Append(s, e)[n] = s[n] /\ s[n] \in Nat
<1>1. Append(s, e) \in Seq(Nat) /\ Len(Append(s, e)) = Len(s) + 1 /\ Append(s, e)[Len(s) + 1] = e
  OBVIOUS
<1>2. \A n \in DOMAIN s : Append(s, e)[n] = s[n] /\ s[n] \in Nat
  OBVIOUS
<1>3. DOMAIN Append(s, e) = 1 .. Len(s) + 1 /\ DOMAIN s = 1 .. Len(s) /\ Len(s) \in Nat
  BY <1>1
<1> QED
  BY <1>1, <1>2, <1>3

\* Every conjunct of AllocInv but GrantsFit and FrameEntered is about
\* callers and grants only; until the allocator is ready there are none.
LEMMA QuietSuffices ==
  ASSUME TypeOK, TableInv, init_pc # "ready", QuietBeforeReady
  PROVE  AllocInv
<1> USE DEF QuietBeforeReady
<1>1. DOMAIN granted = {}
  OBVIOUS
<1>2. GrantsFit /\ GrantsEntered /\ GrantsBelow /\ GrantsDisjoint
  BY <1>1, Zenon DEF GrantsFit, GrantsEntered, GrantsBelow, GrantsDisjoint
<1>3. FrameEntered /\ StartsOwed /\ ClaimsFit
  BY Zenon DEF FrameEntered, StartsOwed, ClaimsFit
<1> QED
  BY <1>2, <1>3, Zenon DEF AllocInv

(* The initial states satisfy the inductive invariant.                     *)
LEMMA InitInv == Init => IInv
<1> SUFFICES ASSUME Init PROVE IInv
  BY Zenon
<1>1. memory_map \in Seq(Region)
  BY MemoryMapAssumption, Zenon DEF Init
<1>2. Kept \in Nat
  BY <1>1, SizeAssumption DEF Kept
<1>3. TypeOK
  BY <1>2, SizeAssumption DEF Init, TypeOK, InitSteps, Steps, EMPTY, Slots, Index
<1>4. TableInv
  BY DEF Init, TableInv, Index
<1>5. QuietBeforeReady /\ init_pc # "ready"
  BY Zenon DEF Init, QuietBeforeReady
<1> QED
  BY <1>3, <1>4, <1>5, QuietSuffices, Zenon DEF IInv

(* QuietSuffices for the state after a step.                               *)
LEMMA QuietSuffices2 ==
  ASSUME TypeOK', TableInv', (init_pc # "ready")', QuietBeforeReady'
  PROVE  AllocInv'
  BY QuietSuffices, PTL

(* The steps of `initialize` keep the inductive invariant.                 *)
LEMMA InitializeStep ==
  ASSUME IInv, Initialize
  PROVE  IInv'
<1> USE DEF IInv
<1>0. memory_map \in Seq(Region)
  BY MemoryMapAssumption, Zenon DEF TypeOK
<1>1. CASE SkipRegion
  <2> USE <1>1 DEF SkipRegion, counts, shared, local
  <2>1. TypeOK'
    BY <1>0, SizeAssumption DEF TypeOK, Index, Kept
  <2>2. TableInv'
    BY <1>0, SizeAssumption DEF TableInv, TypeOK, Index, Kept, Apart
  <2> QED
    BY <2>1, <2>2, QuietSuffices2, Zenon DEF QuietBeforeReady, AllocInv
<1>2. CASE TakeRegion
  <2> USE <1>2 DEF TakeRegion, counts, shared, local
  <2> DEFINE k == region + 1
             span == Span(memory_map[k])
  <2>1. k \in DOMAIN memory_map /\ memory_map[k] \in Region /\ HasFrames(memory_map[k])
    BY <1>0, SizeAssumption DEF TypeOK, Kept
  <2>2. span \in [start : Nat, end : Nat] /\ Covers(memory_map[k], span) /\ span.start < span.end
    BY <2>1, SpanCovered, Zenon DEF HasFrames
  <2>3. FramesOf(span) \in Nat
    BY <2>2, SizeAssumption DEF FramesOf
  <2>4. TypeOK'
    <3>1. region' \in 0 .. Kept'
      BY <1>0, SizeAssumption DEF TypeOK, Kept
    <3>2. total_frames' \in Nat
      BY <2>3 DEF TypeOK
    <3>3. CASE range_count < MAX_USABLE_RANGES
      <4>1. ranges' = [ranges EXCEPT ![range_count] = span] /\ range_count' = range_count + 1
        BY <3>3, SizeAssumption DEF TypeOK
      <4>2. range_count' \in 0 .. MAX_USABLE_RANGES /\ current_range' \in 0 .. range_count'
        BY <3>3, <4>1, SizeAssumption DEF TypeOK
      <4>3. ranges' \in [Slots -> [start : Nat, end : Nat]]
        BY <2>2, <4>1, Zenon DEF TypeOK
      <4>4. range_index' \in [Callers -> 0 .. range_count'] /\ \A c \in Callers : pc'[c] = "idle"
        BY <4>1 DEF TypeOK, AllocInv, QuietBeforeReady
      <4> QED
        BY <3>1, <3>2, <4>2, <4>3, <4>4, Zenon DEF TypeOK
    <3>4. CASE range_count >= MAX_USABLE_RANGES
      BY <3>1, <3>2, <3>4, SizeAssumption, SMTT(40) DEF TypeOK, Index
    <3> QED
      BY <3>3, <3>4, SizeAssumption, Zenon DEF TypeOK
  <2>5. TableInv'
    <3>1. \A n \in DOMAIN memory_map : n > k /\ HasFrames(memory_map[n]) => Apart(span, Span(memory_map[n]))
      BY <2>1, SpansApart DEF TypeOK
    <3>2. \A i \in Index : Apart(ranges[i], span)
      BY <2>1, SMTT(40) DEF TableInv, TypeOK
    <3>3. CASE range_count < MAX_USABLE_RANGES
      <4>1. /\ ranges' = [ranges EXCEPT ![range_count] = span]
            /\ range_count' = range_count + 1
        BY <3>3, SizeAssumption, SMTT(40) DEF TypeOK
      <4>2. /\ ranges'[range_count] = span
            /\ \A i \in Index : ranges'[i] = ranges[i]
            /\ Index' = Index \cup {range_count}
            /\ range_count \notin Index
        BY <3>3, <4>1, SizeAssumption, SMTT(40) DEF TypeOK, Slots, Index
      <4> HIDE DEF span
      <4>3. (\A i \in Index : ranges[i].start < ranges[i].end)'
        BY <4>2, <2>2, Zenon DEF TableInv
      <4>4. (\A i \in Index : \E n \in DOMAIN memory_map : Covers(memory_map[n], ranges[i]))'
        <5> SUFFICES ASSUME NEW i \in Index'
                     PROVE  \E n \in DOMAIN memory_map : Covers(memory_map[n], ranges'[i])
          BY Zenon DEF Covers, End
        <5> QED
          BY <4>2, <2>1, <2>2, Zenon DEF TableInv
      <4>5. (\A i, j \in Index : i # j => Apart(ranges[i], ranges[j]))'
        BY <4>2, <3>2, Zenon DEF TableInv, Apart
      <4>6. (\A i \in Index : \A n \in DOMAIN memory_map :
               init_pc = "loop" /\ n > region /\ HasFrames(memory_map[n]) =>
                 Apart(ranges[i], Span(memory_map[n])))'
        <5> SUFFICES ASSUME NEW i \in Index', NEW n \in DOMAIN memory_map,
                            n > k, HasFrames(memory_map[n])
                     PROVE  Apart(ranges'[i], Span(memory_map[n]))
          BY Zenon DEF Apart, Span, HasFrames, End
        <5> QED
          BY <1>0, <4>2, <3>1, SMTT(40) DEF TableInv, TypeOK
      <4> QED
        BY <4>3, <4>4, <4>5, <4>6, Zenon DEF TableInv
    <3>4. CASE range_count >= MAX_USABLE_RANGES
      <4>1. ranges' = ranges /\ range_count' = range_count /\ region < region'
        BY <1>0, <3>4, SizeAssumption, SMTT(40) DEF TypeOK, Kept
      <4>2. \A n \in DOMAIN memory_map : n > region' => n > region
        BY <1>0, <4>1, SizeAssumption DEF TypeOK, Kept
      <4> QED
        BY <4>1, <4>2, Zenon DEF TableInv, Index, Covers, Span, HasFrames, End
    <3> QED
      BY <3>3, <3>4, SizeAssumption, Zenon DEF TypeOK
  <2> QED
    BY <2>4, <2>5, QuietSuffices2, Zenon DEF QuietBeforeReady, AllocInv
<1>3. CASE EndLoop
  BY <1>3, QuietSuffices2, Zenon DEF EndLoop, TypeOK, InitSteps, TableInv, AllocInv, QuietBeforeReady, table, shared, local, Index, Kept
<1>4. CASE StoreFrameCount
  BY <1>4, QuietSuffices2, ZenonT(40) DEF StoreFrameCount, TypeOK, InitSteps, TableInv, AllocInv, QuietBeforeReady, table, shared, local, Index, Kept
<1>5. CASE StoreRangeCount
  BY <1>5, QuietSuffices2, SMTT(40) DEF StoreRangeCount, TypeOK, InitSteps, TableInv, AllocInv, QuietBeforeReady, table, shared, local, Index, Kept
<1>6. CASE CallOnce
  <2> USE <1>6 DEF CallOnce, table, local
  <2>1. granted = <<>> /\ DOMAIN granted = {} /\ \A c \in Callers : pc[c] = "idle"
    BY DEF AllocInv, QuietBeforeReady
  <2>2. TypeOK'
    BY SizeAssumption, SMTT(40) DEF TypeOK, InitSteps, Index, Kept, Slots
  <2>3. TableInv'
    BY Zenon DEF TableInv, Index, Covers, End
  <2>4. FrameEntered'
    <3> SUFFICES ASSUME NEW i \in Index, Inside(i, current_frame)' PROVE Entered(i)'
      BY Zenon DEF FrameEntered, Index
    <3>1. 0 \in Index /\ current_frame' = ranges[0].start
      BY SMTT(40) DEF Index, TypeOK
    <3>2. i = 0
      BY <3>1, InsideUnique, RangesTyped, SMTT(40) DEF Inside, TableInv
    <3> QED
      BY <2>1, <3>2 DEF Entered, Awaited
  <2>5. GrantsFit' /\ GrantsEntered' /\ GrantsBelow' /\ GrantsDisjoint'
    BY <2>1, Zenon DEF GrantsFit, GrantsEntered, GrantsBelow, GrantsDisjoint
  <2>6. QuietBeforeReady' /\ StartsOwed' /\ ClaimsFit'
    BY <2>1, Zenon DEF QuietBeforeReady, StartsOwed, ClaimsFit
  <2> QED
    BY <2>2, <2>3, <2>4, <2>5, <2>6, Zenon DEF AllocInv
<1> QED
  BY <1>1, <1>2, <1>3, <1>4, <1>5, <1>6, Zenon DEF Initialize

-----------------------------------------------------------------------------
(* The invariant is inductive: allocate_frame and advance_range            *)

\* A step that leaves the atomics and the grants alone and owes no start.
LEMMA QuietStep ==
  ASSUME IInv, NEW c \in Callers, init_pc = "ready",
         UNCHANGED <<table, init_pc, current_range, current_frame, granted>>,
         pc[c] # "store_start", pc'[c] # "store_start",
         \A d \in Callers \ {c} : pc'[d] = pc[d] /\ range_index'[d] = range_index[d],
         ClaimsFit'
  PROVE  AllocInv'
<1> USE DEF IInv, table
<1>1. Index' = Index /\ \A i : Entered(i)' <=> Entered(i)
  BY Zenon DEF Entered, Awaited, Index
<1>2. /\ \A i : Inside(i, current_frame)' <=> Inside(i, current_frame)
      /\ \A i, n : Inside(i, granted[n])' <=> Inside(i, granted[n])
  BY Zenon DEF Inside
<1>3. QuietBeforeReady' /\ FrameEntered' /\ GrantsEntered' /\ GrantsBelow'
  BY <1>1, <1>2, Zenon DEF AllocInv, QuietBeforeReady, FrameEntered, GrantsEntered, GrantsBelow, Inside
<1>4. GrantsFit' /\ GrantsDisjoint'
  BY <1>1, Zenon DEF AllocInv, GrantsFit, GrantsDisjoint
<1>5. StartsOwed'
  BY <1>1, Zenon DEF AllocInv, StartsOwed
<1> QED
  BY <1>3, <1>4, <1>5, Zenon DEF AllocInv

(* Every step of a call of allocate_frame keeps the inductive invariant.   *)
LEMMA CallerInv ==
  ASSUME IInv, NEW c \in Callers, Call(c) \/ CallerStep(c)
  PROVE  IInv'
<1> USE DEF IInv, Goto
<1>0. UNCHANGED <<table, init_pc>>
  BY Zenon DEF Call, CallerStep, LoadRange, Exhausted, LoadFrame, Claim, ClaimLost, AdvanceLast,
         AdvanceWon, AdvanceLost, StoreStart, counts
<1>t. TableInv'
  BY <1>0, ZenonT(40) DEF TableInv, table, Index, Covers, Span, HasFrames, End
<1>r. init_pc = "ready"
  BY Zenon DEF Call, CallerStep, LoadRange, Exhausted, LoadFrame, Claim, ClaimLost, AdvanceLast,
         AdvanceWon, AdvanceLost, StoreStart, AllocInv, QuietBeforeReady, TypeOK
<1>1. CASE Call(c)
  <2> USE <1>1 DEF Call
  <2>1. TypeOK'
    BY Zenon DEF TypeOK, Steps, Index, Kept, table, counts, shared
  <2>2. UNCHANGED <<current_range, current_frame, granted>> /\ pc'[c] # "store_start"
    BY Zenon DEF TypeOK, shared
  <2>3. ClaimsFit'
    BY <1>0, Zenon DEF AllocInv, ClaimsFit, Claimable, TypeOK, table
  <2> QED
    BY <1>0, <1>r, <1>t, <2>1, <2>2, <2>3, QuietStep, ZenonT(40) DEF AllocInv, TypeOK
<1>2. CASE LoadRange(c)
  <2> USE <1>2 DEF LoadRange
  <2>1. TypeOK'
    BY DEF TypeOK, Steps, Index, Kept, table, counts, shared
  <2>2. UNCHANGED <<current_range, current_frame, granted>> /\ pc'[c] # "store_start"
    BY Zenon DEF TypeOK, shared
  <2>3. ClaimsFit'
    BY <1>0, Zenon DEF AllocInv, ClaimsFit, Claimable, TypeOK, table
  <2> QED
    BY <1>0, <1>r, <1>t, <2>1, <2>2, <2>3, QuietStep, ZenonT(40) DEF AllocInv, TypeOK
<1>3. CASE Exhausted(c)
  <2> USE <1>3 DEF Exhausted
  <2>1. TypeOK'
    BY Zenon DEF TypeOK, Steps, Index, Kept, table, counts, shared
  <2>2. UNCHANGED <<current_range, current_frame, granted>> /\ pc'[c] # "store_start"
    BY Zenon DEF TypeOK, shared
  <2>3. ClaimsFit'
    BY <1>0, Zenon DEF AllocInv, ClaimsFit, Claimable, TypeOK, table
  <2> QED
    BY <1>0, <1>r, <1>t, <2>1, <2>2, <2>3, QuietStep, ZenonT(40) DEF AllocInv, TypeOK
<1>4. CASE LoadFrame(c)
  <2> USE <1>4 DEF LoadFrame
  <2>1. TypeOK'
    BY Zenon DEF TypeOK, Steps, Index, Kept, table, counts, shared
  <2>2. UNCHANGED <<current_range, current_frame, granted>> /\ pc'[c] # "store_start"
    BY Zenon DEF TypeOK, shared
  <2>3. ClaimsFit'
    BY <1>0, Zenon DEF AllocInv, ClaimsFit, Claimable, TypeOK, table
  <2> QED
    BY <1>0, <1>r, <1>t, <2>1, <2>2, <2>3, QuietStep, ZenonT(40) DEF AllocInv, TypeOK
<1>5. CASE Claim(c)
  <2> USE <1>5 DEF Claim, counts
  <2> DEFINE r == range_index[c]
             a == current[c]
  <2>1. /\ r \in Index /\ a \in Nat /\ a + FRAME_SIZE \in Nat
        /\ current_frame = a
        /\ ranges[r].start <= a /\ a < ranges[r].end /\ a + FRAME_SIZE <= ranges[r].end
    BY SizeAssumption, SMTT(40) DEF TypeOK, AllocInv, ClaimsFit, Claimable
  <2>g. granted' = Append(granted, a) /\ granted \in Seq(Nat)
    BY Zenon DEF TypeOK
  <2>h. granted' \in Seq(Nat)
    BY <2>1, <2>g, Appended, Zenon
  <2>2. TypeOK'
    BY <2>1, <2>h, ZenonT(40) DEF TypeOK, Steps, Index, Kept, table
  <2>3. /\ DOMAIN granted' = DOMAIN granted \cup {Len(granted) + 1}
        /\ granted'[Len(granted) + 1] = a
        /\ \A n \in DOMAIN granted : granted'[n] = granted[n] /\ granted[n] \in Nat
    BY ONLY <2>1, <2>g, Appended, Zenon
  <2>4. /\ \A i : Inside(i, a)' <=> Inside(i, a)
        /\ \A i, n : Inside(i, granted[n])' <=> (ranges[i].start <= granted'[n] /\ granted'[n] < ranges[i].end)
        /\ \A i : Entered(i) => Entered(i)'
        /\ Index' = Index
    BY <1>0, Zenon DEF Inside, Entered, Awaited, Index, table, TypeOK
  <2>5. \A i \in Index : Inside(i, a) => i = r
    <3>1. ASSUME NEW i \in Index, Inside(i, a)
          PROVE  i = r
      <4>0. ranges[r].end \in Nat
        BY <2>1, RangesTyped, Zenon
      <4>1. a <= ranges[r].end
        BY ONLY <2>1, <4>0
      <4> QED
        BY <2>1, <3>1, <4>1, InsideUnique, ZenonT(40)
    <3> QED
      BY <3>1, Zenon
  <2>6. \A i \in Index : Inside(i, a + FRAME_SIZE) => i = r
    BY <2>1, InsideUnique, RangesTyped, SizeAssumption, SMTT(40)
  <2>7. Entered(r) /\ Inside(r, a)
    BY <1>r, <2>1, Zenon DEF AllocInv, FrameEntered, Inside
  <2>8. ranges' = ranges /\ current_frame' = a + FRAME_SIZE
    BY <1>0, Zenon DEF table
  <2>9. \A d \in Callers : pc'[d] \in {"claim", "store_start"} =>
          pc'[d] = pc[d] /\ range_index'[d] = range_index[d] /\ current'[d] = current[d]
    BY Zenon DEF TypeOK
  <2> HIDE DEF r, a
  <2>10. GrantsFit'
    BY <2>1, <2>3, <2>4, <2>8, ZenonT(30) DEF GrantsFit, AllocInv
  <2>11. GrantsEntered'
    BY <2>3, <2>4, <2>5, <2>7, <2>8, ZenonT(40) DEF GrantsEntered, AllocInv, Inside
  <2>12. FrameEntered'
    BY <2>4, <2>6, <2>7, <2>8, Zenon DEF FrameEntered, Inside
  <2>13. GrantsBelow'
    <3> SUFFICES ASSUME NEW n \in DOMAIN granted', NEW i \in Index,
                        Inside(i, granted'[n]), Inside(i, a + FRAME_SIZE)
                 PROVE  granted'[n] + FRAME_SIZE <= a + FRAME_SIZE
      BY <2>4, <2>8, Zenon DEF GrantsBelow, Inside
    <3>1. i = r
      BY <2>6, Zenon
    <3>2. CASE n \in DOMAIN granted
      <4>1. granted[n] + FRAME_SIZE <= a
        BY <2>1, <2>3, <2>7, <3>1, <3>2, ZenonT(40) DEF AllocInv, GrantsBelow
      <4> QED
        BY <2>1, <2>3, <3>2, <4>1, SizeAssumption
    <3>3. CASE n = Len(granted) + 1
      BY <2>1, <2>3, <3>3, SizeAssumption, SMTT(40)
    <3> QED
      BY <2>3, <3>2, <3>3, ZenonT(40)
  <2>14. GrantsDisjoint'
    <3>1. ASSUME NEW n \in DOMAIN granted
          PROVE  granted[n] + FRAME_SIZE <= a \/ a + FRAME_SIZE <= granted[n]
      <4>1. PICK i \in Index : ranges[i].start <= granted[n] /\ granted[n] + FRAME_SIZE <= ranges[i].end
        BY Zenon DEF AllocInv, GrantsFit
      <4>2. granted[n] \in Nat
        BY <2>3, Zenon
      <4>3. CASE i = r
        <5>1. Inside(r, granted[n])
          BY <2>1, <4>1, <4>2, <4>3, RangesTyped, SizeAssumption, SMTT(40) DEF Inside
        <5> QED
          BY <5>1, <2>1, <2>7, ZenonT(40) DEF AllocInv, GrantsBelow
      <4>4. CASE i # r
        <5>1. Apart(ranges[i], ranges[r])
          BY <2>1, <4>4, Zenon DEF TableInv
        <5>2. /\ ranges[i].start \in Nat /\ ranges[i].end \in Nat
              /\ ranges[r].start \in Nat /\ ranges[r].end \in Nat /\ FRAME_SIZE \in Nat
          BY <2>1, <4>1, RangesTyped, SizeAssumption, Zenon
        <5> QED
          BY ONLY <2>1, <4>1, <4>2, <5>1, <5>2 DEF Apart
      <4> QED
        BY <4>3, <4>4, Zenon
    <3> QED
      BY <2>3, <3>1, Zenon DEF AllocInv, GrantsDisjoint
  <2>15. QuietBeforeReady'
    BY <1>0, <1>r, <2>4, <2>8, <2>9, ZenonT(40) DEF AllocInv, QuietBeforeReady
  <2>16. StartsOwed'
    BY <1>0, <1>r, <2>4, <2>8, <2>9, SMTT(40) DEF AllocInv, StartsOwed
  <2>17. ClaimsFit'
    BY <1>0, <1>r, <2>4, <2>8, <2>9, Zenon DEF AllocInv, ClaimsFit, Claimable
  <2> QED
    BY <1>t, <2>2, <2>10, <2>11, <2>12, <2>13, <2>14, <2>15, <2>16, <2>17, ZenonT(40) DEF AllocInv
<1>6. CASE ClaimLost(c)
  <2> USE <1>6 DEF ClaimLost
  <2>1. TypeOK'
    BY Zenon DEF TypeOK, Steps, Index, Kept, table, counts, shared
  <2>2. UNCHANGED <<current_range, current_frame, granted>> /\ pc'[c] # "store_start"
    BY Zenon DEF TypeOK, shared
  <2>3. ClaimsFit'
    BY <1>0, Zenon DEF AllocInv, ClaimsFit, Claimable, TypeOK, table
  <2> QED
    BY <1>0, <1>r, <1>t, <2>1, <2>2, <2>3, QuietStep, ZenonT(40) DEF AllocInv, TypeOK
<1>7. CASE AdvanceLast(c)
  <2> USE <1>7 DEF AdvanceLast
  <2>1. TypeOK'
    BY DEF TypeOK, Steps, Index, Kept, table, counts
  <2>2. \A i \in Index : Entered(i) => Entered(i)'
    BY SMTT(40) DEF Entered, Awaited, TypeOK, Index
  <2>3. /\ UNCHANGED <<granted, current_frame, ranges>> /\ Index' = Index
        /\ \A i : \A a : Inside(i, a)' <=> Inside(i, a)
    BY <1>0, Zenon DEF Inside, table, Index
  <2>4. GrantsEntered' /\ FrameEntered'
    BY <1>r, <2>2, <2>3, Zenon DEF AllocInv, GrantsEntered, FrameEntered, Inside
  <2>5. GrantsFit' /\ GrantsBelow' /\ GrantsDisjoint' /\ QuietBeforeReady'
    BY <1>0, <1>r, <2>3, Zenon DEF AllocInv, GrantsFit, GrantsBelow, GrantsDisjoint, QuietBeforeReady, Inside
  <2>6. ClaimsFit'
    BY <2>3, ZenonT(40) DEF AllocInv, ClaimsFit, Claimable, TypeOK
  <2>7. StartsOwed'
    <3>1. \A d \in Callers : pc'[d] = "store_start" => pc[d] = "store_start"
      BY Zenon DEF TypeOK
    <3>2. \A d \in Callers : range_index[d] + 1 \in Index => range_index[d] + 1 <= range_count
      BY DEF Index, TypeOK
    <3>3. range_index' = range_index /\ current_range' = range_count
      BY Zenon
    <3> QED
      BY <2>3, <3>1, <3>2, <3>3, Zenon DEF AllocInv, StartsOwed
  <2> QED
    BY <1>t, <2>1, <2>4, <2>5, <2>6, <2>7, ZenonT(40) DEF AllocInv
<1>8. CASE AdvanceWon(c)
  <2> USE <1>8 DEF AdvanceWon
  <2>1. TypeOK'
    BY SMTT(40) DEF TypeOK, Steps, Index, Kept, table, counts
  <2>2. \A i \in Index : Entered(i) => Entered(i)'
    BY DEF Entered, Awaited, TypeOK, Index
  <2>3. /\ UNCHANGED <<granted, current_frame, ranges>> /\ Index' = Index
        /\ \A i : \A a : Inside(i, a)' <=> Inside(i, a)
    BY <1>0, Zenon DEF Inside, table, Index
  <2>4. GrantsEntered' /\ FrameEntered'
    BY <1>r, <2>2, <2>3, Zenon DEF AllocInv, GrantsEntered, FrameEntered, Inside
  <2>5. GrantsFit' /\ GrantsBelow' /\ GrantsDisjoint' /\ QuietBeforeReady'
    BY <1>0, <1>r, <2>3, ZenonT(40) DEF AllocInv, GrantsFit, GrantsBelow, GrantsDisjoint, QuietBeforeReady, Inside
  <2>6. ClaimsFit'
    BY <2>3, Zenon DEF AllocInv, ClaimsFit, Claimable, TypeOK
  <2>7. StartsOwed'
    <3>1. \A d \in Callers \ {c} : pc'[d] = "store_start" =>
            pc[d] = "store_start" /\ range_index[d] + 1 <= range_index[c] /\ range_index[d] # range_index[c]
      BY DEF TypeOK, AllocInv, StartsOwed
    <3>2. range_index[c] + 1 \in Index /\ current_range' = range_index[c] + 1 /\ range_index' = range_index
      BY DEF TypeOK, Index
    <3>3. \A d \in Callers : range_index[d] \in Nat
      BY DEF TypeOK
    <3>4. ASSUME NEW d \in Callers, pc'[d] = "store_start"
          PROVE  range_index[d] + 1 \in Index /\ range_index[d] + 1 <= range_index[c] + 1
      <4>1. CASE d = c
        BY <3>2, <3>3, <4>1
      <4>2. CASE d # c
        <5>1. pc[d] = "store_start" /\ range_index[d] + 1 <= range_index[c]
          BY <3>1, <3>4, <4>2, Zenon
        <5>2. range_index[d] + 1 \in Index
          BY <5>1, Zenon DEF AllocInv, StartsOwed
        <5> QED
          BY <3>3, <5>1, <5>2
      <4> QED
        BY <4>1, <4>2, Zenon
    <3>5. ASSUME NEW d \in Callers, NEW e \in Callers, pc'[d] = "store_start", pc'[e] = "store_start",
                 range_index[e] = range_index[d]
          PROVE  d = e
      <4>1. CASE d = c \/ e = c
        BY <3>1, <3>5, <4>1, ZenonT(40)
      <4>2. CASE d # c /\ e # c
        <5>1. pc[d] = "store_start" /\ pc[e] = "store_start"
          BY <3>1, <3>5, <4>2, Zenon
        <5> QED
          BY <3>5, <5>1, Zenon DEF AllocInv, StartsOwed
      <4> QED
        BY <4>1, <4>2, Zenon
    <3> QED
      BY <2>3, <3>2, <3>4, <3>5, Zenon DEF StartsOwed
  <2> QED
    BY <1>t, <2>1, <2>4, <2>5, <2>6, <2>7, ZenonT(40) DEF AllocInv
<1>9. CASE AdvanceLost(c)
  <2> USE <1>9 DEF AdvanceLost
  <2>1. TypeOK'
    BY Zenon DEF TypeOK, Steps, Index, Kept, table, counts, shared
  <2>2. UNCHANGED <<current_range, current_frame, granted>> /\ pc'[c] # "store_start"
    BY Zenon DEF TypeOK, shared
  <2>3. ClaimsFit'
    BY <1>0, Zenon DEF AllocInv, ClaimsFit, Claimable, TypeOK, table
  <2> QED
    BY <1>0, <1>r, <1>t, <2>1, <2>2, <2>3, QuietStep, ZenonT(40) DEF AllocInv, TypeOK
<1>10. CASE StoreStart(c)
  <2> USE <1>10 DEF StoreStart
  <2>1. PICK j \in Index :
          /\ j = range_index[c] + 1 /\ j <= current_range /\ j \in Nat
          /\ \A d \in Callers : pc[d] = "store_start" /\ range_index[d] = range_index[c] => c = d
    BY SMTT(30) DEF AllocInv, StartsOwed, TypeOK, Index
  <2>2. ranges[j].start \in Nat /\ ranges[j].start < ranges[j].end
    BY <2>1, RangesTyped, Zenon DEF TableInv
  <2>3. TypeOK'
    BY <2>1, <2>2, Zenon DEF TypeOK, Steps, Index, Kept, table, counts
  <2>4. /\ UNCHANGED <<granted, current_range, ranges>> /\ Index' = Index
        /\ current_frame' = ranges[j].start
    BY <1>0, <2>1, Zenon DEF table, Index
  <2>5. \A i \in Index : Inside(i, ranges[j].start) => i = j
    <3>1. ASSUME NEW i \in Index, Inside(i, ranges[j].start)
          PROVE  i = j
      <4>1. ranges[j].start <= ranges[j].start /\ ranges[j].start <= ranges[j].end
        BY <2>2, RangesTyped
      <4> QED
        BY <2>2, <3>1, <4>1, InsideUnique, ZenonT(40)
    <3> QED
      BY <3>1, Zenon
  <2>6. Entered(j)' /\ \A i \in Index : Entered(i) => Entered(i)'
    BY <2>1, <2>4, SMTT(40) DEF Entered, Awaited, TypeOK, Index
  <2>7. \A n \in DOMAIN granted : ~ Inside(j, granted[n])
    <3>1. ~ Entered(j)
      BY <2>1, Zenon DEF Entered, Awaited
    <3> QED
      BY <2>1, <3>1, Zenon DEF AllocInv, GrantsEntered
  <2>8. GrantsEntered'
    BY <2>4, <2>6, ZenonT(40) DEF AllocInv, GrantsEntered, Inside
  <2>9. FrameEntered' /\ GrantsBelow'
    BY <2>4, <2>5, <2>6, <2>7, Zenon DEF FrameEntered, GrantsBelow, Inside
  <2>10. GrantsFit' /\ GrantsDisjoint' /\ QuietBeforeReady'
    BY <1>0, <1>r, <2>4, ZenonT(40) DEF AllocInv, GrantsFit, GrantsDisjoint, QuietBeforeReady
  <2>11. ClaimsFit' /\ StartsOwed'
    BY <2>4, Zenon DEF AllocInv, ClaimsFit, StartsOwed, Claimable, TypeOK
  <2> QED
    BY <1>t, <2>3, <2>8, <2>9, <2>10, <2>11, ZenonT(40) DEF AllocInv
<1> QED
  BY <1>1, <1>2, <1>3, <1>4, <1>5, <1>6, <1>7, <1>8, <1>9, <1>10, ZenonT(40) DEF CallerStep

(* So does every step of the allocator.                                    *)
LEMMA InvNext == IInv /\ [Next]_vars => IInv'
<1> SUFFICES ASSUME IInv, [Next]_vars PROVE IInv'
  BY Zenon
<1>1. CASE UNCHANGED vars
  BY <1>1, ZenonT(40) DEF vars, table, counts, shared, local, IInv, TypeOK, TableInv, AllocInv, QuietBeforeReady,
         GrantsFit, GrantsEntered, GrantsBelow, FrameEntered, StartsOwed, ClaimsFit, GrantsDisjoint,
         Inside, Entered, Awaited, Index, Claimable, Kept, Covers, Span, HasFrames, End
<1> QED
  BY <1>1, InitializeStep, CallerInv, Zenon DEF Next

-----------------------------------------------------------------------------
(* The theorems                                                            *)

(* The inductive invariant holds throughout.                               *)
LEMMA Invariance == Spec => []IInv
  BY InitInv, InvNext, PTL DEF Spec

(* Type correctness: for every memory map, whatever the callers do, no     *)
(* call indexes `ranges` outside the part of the table that was filled.    *)
THEOREM TypeCorrect == Spec => []TypeOK
  BY Invariance, PTL DEF IInv

(* allocate_frame never hands out overlapping frames, for any number of    *)
(* concurrent callers over any table that `initialize` can build.          *)
THEOREM FramesDisjoint == Spec => []GrantsDisjoint
<1>1. IInv => GrantsDisjoint
  BY ZenonT(40) DEF IInv, AllocInv
<1> QED
  BY <1>1, Invariance, PTL

(* A frame that fits a range of the table lies in the entry of the memory  *)
(* map that the range was cut from.                                        *)
LEMMA GrantsUsableInv == IInv => GrantsUsable
<1> SUFFICES ASSUME IInv, NEW n \in DOMAIN granted
             PROVE  \E k \in DOMAIN memory_map :
                      /\ memory_map[k].usable
                      /\ memory_map[k].base <= granted[n]
                      /\ granted[n] + FRAME_SIZE <= End(memory_map[k])
  BY Zenon DEF GrantsUsable
<1>1. PICK i \in Index : ranges[i].start <= granted[n] /\ granted[n] + FRAME_SIZE <= ranges[i].end
  BY Zenon DEF IInv, AllocInv, GrantsFit
<1>2. PICK k \in DOMAIN memory_map : Covers(memory_map[k], ranges[i])
  BY Zenon DEF IInv, TableInv
<1>3. memory_map[k] \in Region /\ granted[n] \in Nat
  BY MemoryMapAssumption DEF IInv, TypeOK
<1>4. memory_map[k].base \in Nat /\ End(memory_map[k]) \in Nat
  BY <1>3 DEF Region, End
<1>5. ranges[i].start \in Nat /\ ranges[i].end \in Nat
  BY RangesTyped, Zenon DEF IInv
<1>6. /\ memory_map[k].usable
      /\ memory_map[k].base <= ranges[i].start /\ ranges[i].end <= End(memory_map[k])
  BY <1>2, Zenon DEF Covers
<1>7. memory_map[k].base <= granted[n] /\ granted[n] + FRAME_SIZE <= End(memory_map[k])
  BY <1>1, <1>3, <1>4, <1>5, <1>6, SizeAssumption, SMTT(40)
<1> QED
  BY <1>6, <1>7, Zenon

(* allocate_frame only hands out memory that the boot memory map declares  *)
(* usable, whole frames of it.                                             *)
THEOREM FramesUsable == Spec => []GrantsUsable
  BY GrantsUsableInv, Invariance, PTL

(* current_range never moves back once the allocator is published.         *)
THEOREM RangesNeverRewind == Spec => RangeNeverRewinds
<1>1. IInv /\ [Next]_vars => [init_pc = "ready" => current_range' >= current_range]_vars
  <2> SUFFICES ASSUME IInv, Next, init_pc = "ready" PROVE current_range' >= current_range
    BY Zenon
  <2>1. current_range \in Nat /\ current_range <= range_count /\ range_count \in Nat
    BY DEF IInv, TypeOK
  <2>2. ~ Initialize
    BY Zenon DEF Initialize, SkipRegion, TakeRegion, EndLoop, StoreFrameCount, StoreRangeCount, CallOnce
  <2>3. PICK c \in Callers : Call(c) \/ CallerStep(c)
    BY <2>2, Zenon DEF Next
  <2>4. CASE AdvanceLast(c)
    BY <2>1, <2>4, Zenon DEF AdvanceLast
  <2>5. CASE AdvanceWon(c)
    BY <2>1, <2>5 DEF AdvanceWon
  <2>6. CASE ~ AdvanceLast(c) /\ ~ AdvanceWon(c)
    <3>1. UNCHANGED current_range
      BY <2>3, <2>6, Zenon DEF CallerStep, Call, LoadRange, Exhausted, LoadFrame, Claim, ClaimLost,
         AdvanceLost, StoreStart, shared
    <3> QED
      BY <2>1, <3>1, SMTT(30)
  <2> QED
    BY <2>4, <2>5, <2>6, Zenon
<1> QED
  BY <1>1, Invariance, PTL DEF Spec, RangeNeverRewinds

-----------------------------------------------------------------------------
(* Alignment                                                               *)

OnBoundary(a) == a % FRAME_SIZE = 0

\* Starts are rounded up, and every address is a start plus whole frames.
AlignInv ==
  /\ \A i \in Slots : OnBoundary(ranges[i].start)
  /\ OnBoundary(current_frame)
  /\ \A c \in Callers : OnBoundary(current[c])
  /\ GrantsAligned

(* Division with remainder.                                                *)
LEMMA DivMod ==
  ASSUME NEW s \in Nat, NEW a \in Nat \ {0}
  PROVE  \E p \in Nat, r \in 0 .. a - 1 : s = a * p + r /\ s % a = r
<1>1. s \div a \in Nat /\ s % a \in 0 .. a - 1
  OBVIOUS
<1>2. s = a * (s \div a) + (s % a)
  OBVIOUS
<1> QED
  BY <1>1, <1>2, Zenon

(* The frame behind a frame boundary ends on one (`current + FRAME_SIZE`), *)
(* and align_up and zero are on one.                                       *)
LEMMA Boundaries ==
  /\ OnBoundary(0)
  /\ \A a \in Nat : OnBoundary(a) => OnBoundary(a + FRAME_SIZE)
  /\ \A a \in Nat : OnBoundary(align_up(a))
<1> DEFINE F == FRAME_SIZE
<1>0. F \in Nat \ {0}
  BY SizeAssumption, Zenon
<1> HIDE DEF F
<1>m. \A p \in Nat : (F * p) % F = 0
  BY <1>0
<1>1. 0 % F = 0
  BY <1>0
<1>2. ASSUME NEW a \in Nat, a % F = 0 PROVE (a + F) % F = 0
  <2>1. PICK p \in Nat : a = F * p
    BY <1>0, <1>2, DivMod
  <2>2. a + F = F * (p + 1)
    BY <1>0, <2>1
  <2> QED
    BY <1>m, <2>2
<1>3. ASSUME NEW a \in Nat PROVE (IF a % F = 0 THEN a ELSE a + (F - (a % F))) % F = 0
  <2>1. PICK p \in Nat, r \in 0 .. F - 1 : a = F * p + r /\ a % F = r
    BY <1>0, DivMod, Zenon
  <2>2. a + (F - (a % F)) = F * (p + 1)
    BY <1>0, <2>1
  <2> QED
    BY <1>m, <2>2
<1> QED
  BY <1>1, <1>2, <1>3, Zenon DEF F, OnBoundary, align_up

(* A step keeps every address of the allocator on a frame boundary.        *)
LEMMA AlignStep == IInv /\ AlignInv /\ [Next]_vars => AlignInv'
<1> SUFFICES ASSUME IInv, AlignInv, [Next]_vars PROVE AlignInv'
  BY Zenon
<1> USE DEF AlignInv, GrantsAligned
<1>t. /\ current_frame \in Nat /\ current \in [Callers -> Nat] /\ granted \in Seq(Nat)
      /\ ranges \in [Slots -> [start : Nat, end : Nat]] /\ range_count \in 0 .. MAX_USABLE_RANGES
      /\ range_index \in [Callers -> 0 .. range_count] /\ memory_map \in Seq(Region)
      /\ region \in 0 .. Kept /\ pc \in [Callers -> Steps] /\ MAX_USABLE_RANGES \in Nat
  BY SizeAssumption, MemoryMapAssumption, Zenon DEF IInv, TypeOK
<1>1. CASE UNCHANGED <<ranges, current_frame, current, granted>>
  BY <1>1, Zenon DEF OnBoundary
<1>2. CASE TakeRegion
  <2>1. region + 1 \in DOMAIN memory_map
    BY <1>2, <1>t, SizeAssumption DEF TakeRegion, Kept
  <2>e. memory_map[region + 1] \in Region
    BY <1>t, <2>1
  <2>2. memory_map[region + 1].base \in Nat
    BY <2>e, ZenonT(40) DEF Region
  <2>3. OnBoundary(Span(memory_map[region + 1]).start)
    BY <2>2, Boundaries, Zenon DEF Span
  <2>4. \A i \in Slots : OnBoundary(ranges'[i].start)
    BY <1>2, <1>t, <2>3, ZenonT(40) DEF TakeRegion, Slots
  <2> QED
    BY <1>2, <2>4, Zenon DEF TakeRegion, shared, local, OnBoundary
<1>3. CASE CallOnce
  <2>1. OnBoundary(current_frame')
    BY <1>3, <1>t, Boundaries, SMTT(40) DEF CallOnce, Slots
  <2> QED
    BY <1>3, <2>1, Zenon DEF CallOnce, table, local, OnBoundary
<1>4. ASSUME NEW c \in Callers, LoadFrame(c) PROVE AlignInv'
  <2>1. \A d \in Callers : OnBoundary(current'[d])
    BY <1>4, <1>t, Zenon DEF LoadFrame
  <2> QED
    BY <1>4, <2>1, Zenon DEF LoadFrame, table, shared, OnBoundary
<1>5. ASSUME NEW c \in Callers, Claim(c) PROVE AlignInv'
  <2>1. OnBoundary(current[c]) /\ current[c] \in Nat
    BY <1>t, Zenon
  <2>2. OnBoundary(current_frame')
    BY <1>5, <2>1, Boundaries, Zenon DEF Claim
  <2>3. \A n \in DOMAIN granted' : granted'[n] = current[c] \/ (n \in DOMAIN granted /\ granted'[n] = granted[n])
    <3>1. granted' = Append(granted, current[c])
      BY <1>5, Zenon DEF Claim
    <3>2. granted \in Seq(Nat)
      BY <1>t, Zenon
    <3>3. /\ DOMAIN granted' = DOMAIN granted \cup {Len(granted) + 1}
          /\ granted'[Len(granted) + 1] = current[c]
          /\ \A n \in DOMAIN granted : granted'[n] = granted[n]
      BY ONLY <3>1, <3>2, <2>1, Appended, Zenon
    <3> QED
      BY ONLY <3>3, Zenon
  <2>4. GrantsAligned'
    BY <2>1, <2>3, ZenonT(40) DEF OnBoundary
  <2> QED
    BY <1>5, <2>2, <2>4, Zenon DEF Claim, table, OnBoundary
<1>6. ASSUME NEW c \in Callers, StoreStart(c) PROVE AlignInv'
  <2>1. range_index[c] + 1 \in Slots
    BY <1>6, <1>t, SMTT(30) DEF StoreStart, IInv, AllocInv, StartsOwed, Index, Slots
  <2>2. OnBoundary(current_frame')
    BY <1>6, <2>1, ZenonT(30) DEF StoreStart
  <2> QED
    BY <1>6, <2>2, Zenon DEF StoreStart, table, OnBoundary
<1>7. CASE UNCHANGED vars
  BY <1>1, <1>7, Zenon DEF vars, table, shared, local
<1>8. CASE SkipRegion \/ EndLoop \/ StoreFrameCount \/ StoreRangeCount
  BY <1>1, <1>8, Zenon DEF SkipRegion, EndLoop, StoreFrameCount, StoreRangeCount, table, shared, local
<1>9. ASSUME NEW c \in Callers,
             \/ Call(c) \/ LoadRange(c) \/ Exhausted(c) \/ ClaimLost(c)
             \/ AdvanceLast(c) \/ AdvanceWon(c) \/ AdvanceLost(c)
      PROVE  AlignInv'
  BY <1>1, <1>9, Zenon DEF Call, LoadRange, Exhausted, ClaimLost, AdvanceLast, AdvanceWon, AdvanceLost, table, shared
<1> QED
  BY <1>2, <1>3, <1>4, <1>5, <1>6, <1>7, <1>8, <1>9, Zenon DEF Next, Initialize, CallerStep

(* Every frame that allocate_frame returns starts on a frame boundary, for *)
(* every memory map and frame size.                                        *)
THEOREM FramesAligned == Spec => []GrantsAligned
<1>1. Init => AlignInv
  BY Boundaries DEF Init, AlignInv, GrantsAligned, EMPTY, OnBoundary
<1>2. AlignInv => GrantsAligned
  BY Zenon DEF AlignInv
<1> QED
  BY <1>1, <1>2, AlignStep, Invariance, PTL DEF Spec

-----------------------------------------------------------------------------
(* The counts                                                              *)

\* The frames of a range, and of the table
Frames(span) == {a \in span.start .. span.end : OnBoundary(a) /\ a + FRAME_SIZE <= span.end}

TableFrames == UNION {Frames(ranges[i]) : i \in Index}

(* A factor may be cancelled.                                              *)
LEMMA Cancel ==
  ASSUME NEW f \in Nat \ {0}, NEW x \in Int, NEW y \in Int, f * x < f * y
  PROVE  x < y
<1> SUFFICES ASSUME y <= x PROVE FALSE
  OBVIOUS
<1>1. PICK d \in Nat : x = y + d
  BY x - y \in Nat
<1>2. f * x = f * y + f * d /\ f * d \in Nat /\ f * y \in Int
  BY <1>1
<1> QED
  BY <1>2

(* Multiples of a factor are that far apart.                               *)
LEMMA Spread ==
  ASSUME NEW f \in Nat \ {0}, NEW x \in Int, NEW y \in Int, x < y
  PROVE  f * x + f <= f * y
<1>1. PICK d \in Nat : y = x + 1 + d
  BY y - x - 1 \in Nat
<1>2. f * y = f * x + f + f * d /\ f * d \in Nat /\ f * x \in Int
  BY <1>1, SMTT(40)
<1> QED
  BY <1>2

(* FramesOf counts the frames of a range that starts on a boundary.        *)
LEMMA FramesCounted ==
  ASSUME NEW start \in Nat, NEW end \in Nat, OnBoundary(start), start < end
  PROVE  LET span == [start |-> start, end |-> end]
         IN  /\ IsFiniteSet(Frames(span))
             /\ Cardinality(Frames(span)) <= FramesOf(span) /\ FramesOf(span) \in Nat
<1> DEFINE F == FRAME_SIZE
           S == {a \in start .. end : a % F = 0 /\ a + F <= end}
           n == (end - start) \div F
           q == start \div F
           g == [a \in S |-> (a \div F) - q]
<1>0. F \in Nat \ {0}
  BY SizeAssumption, Zenon
<1>1. n \in Nat /\ q \in Nat /\ start = F * q
  <2>1. end - start \in Nat
    OBVIOUS
  <2>2. start % F = 0
    BY Zenon DEF OnBoundary
  <2> QED
    BY <1>0, <2>1, <2>2
<1>2. ASSUME NEW a \in S  PROVE a \div F \in Nat /\ a = F * (a \div F)
  <2>1. a \in Nat /\ a % F = 0
    OBVIOUS
  <2> QED
    BY <1>0, <2>1
<1>3. ASSUME NEW a \in S  PROVE (a \div F) - q \in 0 .. n - 1
  <2> DEFINE p == a \div F
  <2>1. p \in Nat /\ a = F * p /\ start <= a /\ a + F <= end
    BY <1>2
  <2> HIDE DEF p
  <2>2. end - start < F * (n + 1)
    <3>1. end - start \in Nat
      OBVIOUS
    <3>2. end - start = F * n + ((end - start) % F) /\ (end - start) % F < F
      BY <1>0, <3>1
    <3> HIDE DEF n
    <3>3. F * (n + 1) = F * n + F /\ F * n \in Nat
      BY <1>0, <1>1
    <3> QED
      BY <1>0, <3>1, <3>2, <3>3
  <2> HIDE DEF n, q, F
  <2>3. F * ((p - q) + 1) = (a + F) - start
    BY <1>0, <1>1, <2>1, SMTT(40)
  <2>4. F * ((p - q) + 1) < F * (n + 1)
    BY <1>0, <2>1, <2>2, <2>3, <1>1, SMTT(40)
  <2>5. (p - q) + 1 < n + 1
    BY <1>0, <1>1, <2>1, <2>4, Cancel, SMTT(40)
  <2>6. F * q < F * (p + 1)
    <3>1. F * (p + 1) = a + F
      BY <1>0, <2>1
    <3> QED
      BY <1>0, <1>1, <2>1, <3>1
  <2>7. q < p + 1
    BY <1>0, <1>1, <2>1, <2>6, Cancel, SMTT(40)
  <2>8. p - q \in 0 .. n - 1
    BY <1>1, <2>1, <2>5, <2>7, SMTT(40)
  <2> QED
    BY <2>8, Zenon DEF p
<1>4. g \in Injection(S, 0 .. n - 1)
  <2>1. g \in [S -> 0 .. n - 1]
    BY <1>3, Zenon
  <2>2. ASSUME NEW a \in S, NEW b \in S, g[a] = g[b]  PROVE a = b
    <3>1. a \div F = b \div F
      <4>1. (a \div F) - q = (b \div F) - q
        BY <2>2, Zenon
      <4> HIDE DEF q
      <4> QED
        BY <1>1, <1>2, <4>1
    <3> QED
      BY <1>2, <3>1, Zenon
  <2> QED
    BY <2>1, <2>2, Zenon DEF Injection, IsInjective
<1>5. IsFiniteSet(0 .. n - 1) /\ Cardinality(0 .. n - 1) = n
  <2>1. 0 \in Int /\ n - 1 \in Int
    BY <1>1
  <2>2. /\ IsFiniteSet(0 .. n - 1)
        /\ Cardinality(0 .. n - 1) = IF 0 > n - 1 THEN 0 ELSE (n - 1) - 0 + 1
    BY <2>1, FS_Interval, Zenon
  <2> HIDE DEF n
  <2> QED
    BY <1>1, <2>2
<1>6. IsFiniteSet(S) /\ Cardinality(S) <= n
  BY <1>4, <1>5, FS_Injection
<1> QED
  BY <1>1, <1>6, Zenon DEF Frames, FramesOf, OnBoundary

(* A range that starts on a boundary has no fewer frames than FramesOf     *)
(* counts.                                                                 *)
LEMMA FramesNotOvercounted ==
  ASSUME NEW start \in Nat, NEW end \in Nat, OnBoundary(start), start < end
  PROVE  LET span == [start |-> start, end |-> end]
         IN  FramesOf(span) <= Cardinality(Frames(span))
<1> DEFINE F == FRAME_SIZE
           S == {a \in start .. end : a % F = 0 /\ a + F <= end}
           n == (end - start) \div F
           q == start \div F
           g == [j \in 0 .. n - 1 |-> F * (q + j)]
<1>0. F \in Nat \ {0}
  BY SizeAssumption, Zenon
<1>1. n \in Nat /\ q \in Nat /\ start = F * q
  <2>1. end - start \in Nat
    OBVIOUS
  <2>2. start % F = 0
    BY Zenon DEF OnBoundary
  <2> QED
    BY <1>0, <2>1, <2>2
<1>2. F * n <= end - start
  <2>1. end - start \in Nat
    OBVIOUS
  <2>2. end - start = F * n + ((end - start) % F) /\ (end - start) % F \in Nat
    BY <1>0, <2>1
  <2> HIDE DEF n
  <2>3. F * n \in Nat
    BY <1>0, <1>1
  <2> QED
    BY <2>1, <2>2, <2>3
<1> HIDE DEF n, q, F
<1>3. ASSUME NEW j \in 0 .. n - 1  PROVE F * (q + j) \in S
  <2>1. F * (q + j) = start + F * j /\ F * j \in Nat
    BY <1>0, <1>1
  <2>2. F * n = (F * j + F) + F * (n - j - 1) /\ F * (n - j - 1) \in Nat
    BY <1>0, <1>1
  <2>3. (F * (q + j)) % F = 0
    BY <1>0, <1>1
  <2>4. start + F * j + F <= end
    BY <1>0, <1>1, <1>2, <2>1, <2>2, SMTT(40)
  <2> QED
    BY <1>0, <2>1, <2>3, <2>4
<1>4. g \in Injection(0 .. n - 1, S)
  <2>1. g \in [0 .. n - 1 -> S]
    BY <1>3, Zenon
  <2>2. ASSUME NEW j \in 0 .. n - 1, NEW k \in 0 .. n - 1, g[j] = g[k]  PROVE j = k
    <3>1. F * (q + j) = F * (q + k) /\ F * (q + j) \in Int /\ q + j \in Int /\ q + k \in Int
      BY <1>0, <1>1, <2>2, SMTT(40)
    <3>2. ~ q + j < q + k /\ ~ q + k < q + j
      BY <1>0, <3>1, Spread, SMTT(40)
    <3> QED
      BY <1>1, <3>2, SMTT(40)
  <2> QED
    BY <2>1, <2>2, Zenon DEF Injection, IsInjective
<1>5. IsFiniteSet(0 .. n - 1) /\ Cardinality(0 .. n - 1) = n
  <2>1. 0 \in Int /\ n - 1 \in Int
    BY <1>1
  <2>2. Cardinality(0 .. n - 1) = IF 0 > n - 1 THEN 0 ELSE (n - 1) - 0 + 1
    BY <2>1, FS_Interval, Zenon
  <2> QED
    BY <1>1, <2>1, <2>2, FS_Interval
<1>6. IsFiniteSet(S)
  BY FramesCounted, ZenonT(40) DEF Frames, OnBoundary, F
<1>7. n <= Cardinality(S)
  BY <1>4, <1>5, <1>6, FS_Injection
<1> QED
  BY <1>7, Zenon DEF Frames, FramesOf, OnBoundary, n, F

\* `initialize` has counted every frame of the table, and then publishes the counts.
CountInv ==
  /\ IsFiniteSet(TableFrames) /\ Cardinality(TableFrames) <= total_frames
  /\ init_pc \in {"store_ranges", "call_once", "ready"} => USABLE_FRAME_COUNT = total_frames
  /\ init_pc \in {"call_once", "ready"} => USABLE_RANGE_COUNT = range_count

(* TakeRegion adds the frames of the entry's range to the table, or finds  *)
(* no room for them.                                                       *)
LEMMA TakenFrames ==
  ASSUME IInv, TakeRegion, NEW span, span = Span(memory_map[region + 1])
  PROVE  /\ region + 1 \in DOMAIN memory_map /\ region \in Nat /\ region + 1 <= Kept
         /\ span.start \in Nat /\ span.end \in Nat /\ OnBoundary(span.start) /\ span.start < span.end
         /\ span = [start |-> span.start, end |-> span.end]
         /\ \/ /\ UNCHANGED <<ranges, range_count>>
               /\ TableFrames' = TableFrames
            \/ /\ range_count' = range_count + 1
               /\ TableFrames' = TableFrames \cup Frames(span)
<1>1. /\ memory_map \in Seq(Region) /\ region \in 0 .. Kept /\ MAX_USABLE_RANGES \in Nat
      /\ ranges \in [Slots -> [start : Nat, end : Nat]] /\ range_count \in 0 .. MAX_USABLE_RANGES
  BY SizeAssumption, MemoryMapAssumption, Zenon DEF IInv, TypeOK
<1>2. region + 1 \in DOMAIN memory_map /\ region \in Nat /\ region + 1 <= Kept
  BY <1>1, SizeAssumption, SMTT(40) DEF TakeRegion, Kept
<1>3. memory_map[region + 1] \in Region /\ HasFrames(memory_map[region + 1])
  BY <1>1, <1>2, SMTT(40) DEF TakeRegion
<1>4. /\ span.start \in Nat /\ span.end \in Nat /\ OnBoundary(span.start) /\ span.start < span.end
      /\ span = [start |-> span.start, end |-> span.end]
  <2>1. memory_map[region + 1].base \in Nat
    BY <1>3, Zenon DEF Region
  <2>2. span \in [start : Nat, end : Nat] /\ span.start < span.end
    BY <1>3, SpanCovered, ZenonT(40) DEF HasFrames
  <2>3. OnBoundary(span.start)
    BY <2>1, Boundaries, Zenon DEF Span
  <2> QED
    BY <2>2, <2>3, Zenon
<1>5. CASE UNCHANGED <<ranges, range_count>>
  <2>1. TableFrames' = TableFrames
    BY <1>5 DEF TableFrames, Frames, Index
  <2> QED
    BY <1>2, <1>4, <1>5, <2>1, ZenonT(40)
<1>6. CASE /\ range_count < MAX_USABLE_RANGES /\ range_count' = range_count + 1
           /\ ranges' = [ranges EXCEPT ![range_count] = span]
  <2>1. Index' = Index \cup {range_count} /\ range_count \in Slots /\ range_count \notin Index
    BY <1>1, <1>6 DEF Index, Slots
  <2>2. \A i \in Index : ranges'[i] = ranges[i]
    BY <1>1, <1>6, <2>1 DEF Index, Slots
  <2>3. ranges'[range_count] = span
    BY <1>1, <1>6, <2>1, Zenon
  <2>4. {Frames(ranges'[i]) : i \in Index'} = {Frames(ranges[i]) : i \in Index} \cup {Frames(span)}
    BY <2>1, <2>2, <2>3, Zenon
  <2>5. TableFrames' = UNION {Frames(ranges'[i]) : i \in Index'}
    BY Zenon DEF TableFrames, Frames, OnBoundary
  <2>6. TableFrames' = TableFrames \cup Frames(span)
    BY <2>4, <2>5, Zenon DEF TableFrames
  <2> QED
    BY <1>2, <1>4, <1>6, <2>6, ZenonT(40)
<1> QED
  BY <1>5, <1>6, ZenonT(40) DEF TakeRegion

(* TakeRegion counts the frames of the range it adds to the table, and     *)
(* those of a range that no longer fits.                                   *)
LEMMA TakeCounts == IInv /\ CountInv /\ TakeRegion => CountInv'
<1> SUFFICES ASSUME IInv, CountInv, TakeRegion PROVE CountInv'
  BY Zenon
<1> DEFINE span == Span(memory_map[region + 1])
<1>1. total_frames \in Nat
  BY Zenon DEF IInv, TypeOK
<1>2. /\ span.start \in Nat /\ span.end \in Nat /\ OnBoundary(span.start) /\ span.start < span.end
      /\ span = [start |-> span.start, end |-> span.end]
      /\ TableFrames' = TableFrames \/ TableFrames' = TableFrames \cup Frames(span)
  BY TakenFrames, Zenon
<1>3. /\ IsFiniteSet(Frames(span)) /\ Cardinality(Frames(span)) <= FramesOf(span) /\ FramesOf(span) \in Nat
      /\ Cardinality(Frames(span)) \in Nat
  BY <1>2, FramesCounted, FS_CardinalityType, Zenon
<1>4. Cardinality(TableFrames) \in Nat /\ IsFiniteSet(TableFrames) /\ Cardinality(TableFrames) <= total_frames
  BY FS_CardinalityType, Zenon DEF CountInv
<1>5. total_frames' = total_frames + FramesOf(span) /\ init_pc = "loop" /\ UNCHANGED <<init_pc>>
  BY Zenon DEF TakeRegion, span, counts
<1> HIDE DEF span
<1>6. /\ IsFiniteSet(TableFrames \cup Frames(span))
      /\ Cardinality(TableFrames \cup Frames(span)) <= total_frames + FramesOf(span)
  <2>1. /\ IsFiniteSet(TableFrames \cup Frames(span))
        /\ Cardinality(TableFrames \cup Frames(span))
             = Cardinality(TableFrames) + Cardinality(Frames(span)) - Cardinality(TableFrames \cap Frames(span))
    BY <1>3, <1>4, FS_Union, Zenon
  <2>2. Cardinality(TableFrames \cap Frames(span)) \in Nat
    BY <1>4, FS_Intersection, FS_CardinalityType, Zenon
  <2> QED
    BY <1>1, <1>3, <1>4, <2>1, <2>2
<1>7. IsFiniteSet(TableFrames') /\ Cardinality(TableFrames') <= total_frames'
  <2>1. CASE TableFrames' = TableFrames
    <3>1. Cardinality(TableFrames) <= total_frames + FramesOf(span)
      BY <1>1, <1>3, <1>4
    <3> QED
      BY <1>4, <1>5, <2>1, <3>1, Zenon
  <2>2. CASE TableFrames' = TableFrames \cup Frames(span)
    BY <1>5, <1>6, <2>2, Zenon
  <2> QED
    BY <1>2, <2>1, <2>2, Zenon
<1> QED
  BY <1>5, <1>7, Zenon DEF CountInv

(* The counts stay true.                                                   *)
LEMMA CountStep == IInv /\ CountInv /\ [Next]_vars => CountInv'
<1> SUFFICES ASSUME IInv, CountInv, [Next]_vars PROVE CountInv'
  BY Zenon
<1>1. ASSUME UNCHANGED <<ranges, range_count, total_frames>>
      PROVE  TableFrames' = TableFrames
  BY <1>1 DEF TableFrames, Frames, Index, OnBoundary
<1>2. CASE UNCHANGED <<ranges, range_count, total_frames, init_pc, USABLE_FRAME_COUNT, USABLE_RANGE_COUNT>>
  BY <1>1, <1>2, ZenonT(40) DEF CountInv
<1>3. CASE EndLoop \/ StoreFrameCount \/ StoreRangeCount \/ CallOnce
  BY <1>1, <1>3, Zenon DEF CountInv, EndLoop, StoreFrameCount, StoreRangeCount, CallOnce, table
<1>4. CASE SkipRegion
  BY <1>2, <1>4, Zenon DEF SkipRegion, counts
<1>5. ASSUME NEW c \in Callers, Call(c) \/ CallerStep(c)  PROVE CountInv'
  BY <1>2, <1>5, ZenonT(40) DEF CallerStep, Call, LoadRange, Exhausted, LoadFrame, Claim, ClaimLost, AdvanceLast,
     AdvanceWon, AdvanceLost, StoreStart, table, counts
<1>6. CASE UNCHANGED vars
  BY <1>2, <1>6, Zenon DEF vars, table, counts
<1> QED
  BY <1>3, <1>4, <1>5, <1>6, TakeCounts, Zenon DEF Next, Initialize

(* The grants are distinct frames of the table, which `initialize` has     *)
(* counted.                                                                *)
LEMMA GrantsCounted == IInv /\ AlignInv /\ CountInv => CountsCoverGrants
<1> SUFFICES ASSUME IInv, AlignInv, CountInv PROVE CountsCoverGrants
  BY Zenon
<1>1. granted \in Seq(Nat) /\ current_range \in 0 .. range_count /\ range_count \in Nat
      /\ USABLE_FRAME_COUNT \in Nat /\ USABLE_RANGE_COUNT \in Nat /\ total_frames \in Nat
  BY SizeAssumption DEF IInv, TypeOK
<1>2. CASE init_pc # "ready"
  BY <1>1, <1>2 DEF IInv, AllocInv, QuietBeforeReady, CountsCoverGrants
<1>3. CASE init_pc = "ready"
  <2>1. granted \in Injection(1 .. Len(granted), TableFrames)
    <3>1. ASSUME NEW n \in 1 .. Len(granted)  PROVE granted[n] \in TableFrames
      <4>1. n \in DOMAIN granted /\ granted[n] \in Nat
        BY <1>1
      <4>2. PICK i \in Index : ranges[i].start <= granted[n] /\ granted[n] + FRAME_SIZE <= ranges[i].end
        BY <4>1, Zenon DEF IInv, AllocInv, GrantsFit
      <4>3. ranges[i].start \in Nat /\ ranges[i].end \in Nat
        BY RangesTyped, Zenon DEF IInv
      <4>4. granted[n] \in ranges[i].start .. ranges[i].end
        BY <4>1, <4>2, <4>3, SizeAssumption
      <4>5. OnBoundary(granted[n])
        BY <4>1, Zenon DEF AlignInv, GrantsAligned, OnBoundary
      <4> QED
        BY <4>2, <4>4, <4>5 DEF TableFrames, Frames
    <3>2. ASSUME NEW m \in 1 .. Len(granted), NEW n \in 1 .. Len(granted), granted[m] = granted[n]
          PROVE  m = n
      <4>1. m \in DOMAIN granted /\ n \in DOMAIN granted /\ granted[m] \in Nat /\ granted[n] \in Nat
        BY <1>1
      <4>2. m # n => granted[m] + FRAME_SIZE <= granted[n] \/ granted[n] + FRAME_SIZE <= granted[m]
        BY <4>1, Zenon DEF IInv, AllocInv, GrantsDisjoint
      <4> QED
        BY <3>2, <4>1, <4>2, SizeAssumption
    <3>3. granted \in [1 .. Len(granted) -> TableFrames]
      BY <1>1, <3>1
    <3> QED
      BY <3>2, <3>3, ZenonT(40) DEF Injection, IsInjective
  <2>2. Cardinality(1 .. Len(granted)) <= Cardinality(TableFrames)
    BY <2>1, FS_Injection, Zenon DEF CountInv
  <2>3. Cardinality(1 .. Len(granted)) = Len(granted)
    <3>1. 1 \in Int /\ Len(granted) \in Nat /\ Len(granted) \in Int
      BY <1>1
    <3>2. Cardinality(1 .. Len(granted)) = IF 1 > Len(granted) THEN 0 ELSE Len(granted) - 1 + 1
      BY <3>1, FS_Interval, Zenon
    <3> QED
      BY <3>1, <3>2
  <2>4. Len(granted) \in Nat /\ Cardinality(TableFrames) \in Nat
    BY <1>1, FS_CardinalityType DEF CountInv
  <2> QED
    BY <1>1, <1>3, <2>2, <2>3, <2>4 DEF CountInv, CountsCoverGrants
<1> QED
  BY <1>2, <1>3, Zenon

(* Initially nothing is counted, and every address is on a boundary.       *)
LEMMA InitCounts == Init => AlignInv /\ CountInv
<1> SUFFICES ASSUME Init PROVE AlignInv /\ CountInv
  BY Zenon
<1>1. range_count = 0 /\ total_frames = 0 /\ init_pc = "loop"
  BY Zenon DEF Init
<1>2. TableFrames = {}
  BY <1>1, SMTT(30) DEF TableFrames, Index
<1>3. AlignInv
  BY Boundaries DEF Init, AlignInv, GrantsAligned, EMPTY, OnBoundary
<1> QED
  BY <1>1, <1>2, <1>3, FS_EmptySet DEF CountInv

(* The counts that `mem` and QueryUsableFrames report cover every frame    *)
(* ever handed out, for any number of racing callers.                      *)
THEOREM CountsCover == Spec => []CountsCoverGrants
  BY InitCounts, AlignStep, CountStep, GrantsCounted, Invariance, PTL DEF Spec
=============================================================================
