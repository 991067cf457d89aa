-------------------------- MODULE BootMemoryProofs --------------------------
(***************************************************************************)
(* Proofs about FrameAllocator when callers do not interfere, and about    *)
(* BootMemory for every set of answers of Limine.                          *)
(*                                                                         *)
(* On top of the invariant of FrameAllocatorProofs, SweepInv and ExactInv  *)
(* say that no frame is left behind.  The one of boot entry says what has  *)
(* been shown and collected before each of its steps (StageInv,            *)
(* CollectInv).                                                            *)
(***************************************************************************)
EXTENDS BootMemory, FrameAllocatorProofs

-----------------------------------------------------------------------------
(* No frame is left behind                                                 *)

(* Between two boundaries there is room for a frame.                       *)
LEMMA NextFrame ==
  ASSUME NEW a \in Nat, NEW b \in Nat, OnBoundary(a), OnBoundary(b), a < b
  PROVE  a + FRAME_SIZE <= b
<1>0. FRAME_SIZE \in Nat \ {0}
  BY SizeAssumption, Zenon
<1>m. ASSUME NEW x \in Nat, OnBoundary(x) PROVE \E p \in Nat : x = FRAME_SIZE * p
  <2>1. PICK p \in Nat, r \in 0 .. FRAME_SIZE - 1 : x = FRAME_SIZE * p + r /\ x % FRAME_SIZE = r
    BY <1>0, DivMod, Zenon
  <2>2. r = 0 /\ FRAME_SIZE * p \in Nat
    BY <1>0, <1>m, <2>1 DEF OnBoundary
  <2> QED
    BY <2>1, <2>2
<1>1. PICK p \in Nat : a = FRAME_SIZE * p
  BY <1>m, Zenon
<1>2. PICK r \in Nat : b = FRAME_SIZE * r
  BY <1>m, Zenon
<1>3. p < r
  BY <1>0, <1>1, <1>2, Cancel
<1>4. p \in Int /\ r \in Int
  OBVIOUS
<1>5. FRAME_SIZE * p + FRAME_SIZE <= FRAME_SIZE * r
  BY ONLY <1>0, <1>3, <1>4, Spread, Zenon
<1> QED
  BY <1>1, <1>2, <1>5, Zenon

-----------------------------------------------------------------------------
(* The frames that the callers have been through                           *)

\* Frame a is among the grants s.
Given(s, a) == \E n \in DOMAIN s : s[n] = a

\* Every frame of a range has been granted; or only those below current_frame.
Drained(span, s) == \A a \in Frames(span) : Given(s, a)

Swept(span, s, f) == \A a \in Frames(span) : Given(s, a) \/ (span.start <= f /\ f <= a)

(* A grant takes nothing back.                                             *)
LEMMA GivenGrows ==
  ASSUME NEW s \in Seq(Nat), NEW e \in Nat, NEW a
  PROVE  /\ Given(s, a) => Given(Append(s, e), a)
         /\ Given(Append(s, e), e)
<1>1. /\ DOMAIN Append(s, e) = DOMAIN s \cup {Len(s) + 1}
      /\ Append(s, e)[Len(s) + 1] = e
      /\ \A n \in DOMAIN s : Append(s, e)[n] = s[n]
  BY Appended, Zenon
<1> DEFINE t == Append(s, e)
<1> HIDE DEF t
<1>2. /\ DOMAIN t = DOMAIN s \cup {Len(s) + 1} /\ t[Len(s) + 1] = e
      /\ \A n \in DOMAIN s : t[n] = s[n]
  BY <1>1, Zenon DEF t
<1>3. (Given(s, a) => Given(t, a)) /\ Given(t, e)
  BY <1>2, Zenon DEF Given
<1> QED
  BY <1>3, Zenon DEF t

(* A range swept up to a frame is swept past it once it has been granted.  *)
LEMMA SweepOn ==
  ASSUME NEW s \in Seq(Nat), NEW f \in Nat, OnBoundary(f), NEW span \in [start : Nat, end : Nat],
         Swept(span, s, f)
  PROVE  Swept(span, Append(s, f), f + FRAME_SIZE)
<1> SUFFICES ASSUME NEW a \in Frames(span), ~ Given(Append(s, f), a)
             PROVE  span.start <= f + FRAME_SIZE /\ f + FRAME_SIZE <= a
  BY Zenon DEF Swept
<1>1. a # f /\ ~ Given(s, a)
  BY GivenGrows, Zenon
<1>2. span.start <= f /\ f <= a
  BY <1>1, Zenon DEF Swept
<1>3. a \in Nat /\ OnBoundary(a) /\ span.start \in Nat
  BY DEF Frames
<1>4. f + FRAME_SIZE <= a
  BY <1>1, <1>2, <1>3, NextFrame
<1> QED
  BY <1>2, <1>3, <1>4, SizeAssumption

(* What cannot be claimed in a swept range is beyond it.                   *)
LEMMA SweepEnds ==
  ASSUME NEW s, NEW f \in Nat, NEW span \in [start : Nat, end : Nat],
         Swept(span, s, f), ~ Claimable(span, f)
  PROVE  Drained(span, s)
<1> SUFFICES ASSUME NEW a \in Frames(span), ~ Given(s, a) PROVE FALSE
  BY Zenon DEF Drained
<1>1. span.start <= f /\ f <= a
  BY Zenon DEF Swept
<1>2. a \in Nat /\ span.end \in Nat /\ span.start \in Nat /\ a + FRAME_SIZE <= span.end
  BY DEF Frames
<1> QED
  BY <1>1, <1>2, SizeAssumption DEF Claimable

(* A range whose start has just been stored is swept up to there.          *)
LEMMA SweepStarts ==
  ASSUME NEW s, NEW span \in [start : Nat, end : Nat]
  PROVE  Swept(span, s, span.start)
<1>1. \A a \in Frames(span) : span.start <= a /\ span.start <= span.start
  BY DEF Frames
<1> QED
  BY <1>1, Zenon DEF Swept

\* The callers that index the table
Busy == {"load_frame", "claim", "advance", "store_start"}

\* Nothing is left behind in the ranges that have been left, nor below current_frame.
SweepInv ==
  init_pc = "ready" =>
    /\ \A i \in Index : i < current_range => Drained(ranges[i], granted)
    /\ \A i \in Index : i = current_range /\ ~ Awaited(i) => Swept(ranges[i], granted, current_frame)
    /\ \A c \in Callers :
         /\ pc[c] \in Busy => range_index[c] <= current_range
         /\ pc[c] = "load_frame" => Swept(ranges[range_index[c]], granted, current_frame)
         /\ pc[c] = "advance" => Drained(ranges[range_index[c]], granted)
         /\ pc[c] = "store_start" => current_range = range_index[c] + 1

(* What a step has to show.                                                *)
LEMMA SweepFrom ==
  ASSUME UNCHANGED <<ranges, range_count>>,
         \A i \in Index : i < current_range' => Drained(ranges[i], granted'),
         \A i \in Index : i = current_range' =>
           \/ \E c \in Callers : pc'[c] = "store_start" /\ range_index'[c] + 1 = i
           \/ Swept(ranges[i], granted', current_frame'),
         \A c \in Callers :
           /\ pc'[c] \in Busy => range_index'[c] <= current_range'
           /\ pc'[c] = "load_frame" => Swept(ranges[range_index'[c]], granted', current_frame')
           /\ pc'[c] = "advance" => Drained(ranges[range_index'[c]], granted')
           /\ pc'[c] = "store_start" => current_range' = range_index'[c] + 1
  PROVE  SweepInv'
<1>1. Index' = Index
  BY Zenon DEF Index
<1>2. \A i \in Index' : (i < current_range => Drained(ranges[i], granted))'
  BY <1>1, Zenon DEF Drained, Given, Frames, OnBoundary
<1>3. \A i \in Index' : (i = current_range /\ ~ Awaited(i) => Swept(ranges[i], granted, current_frame))'
  BY <1>1, Zenon DEF Swept, Given, Frames, OnBoundary, Awaited
<1>4. \A c \in Callers :
        (/\ pc[c] \in Busy => range_index[c] <= current_range
         /\ pc[c] = "load_frame" => Swept(ranges[range_index[c]], granted, current_frame)
         /\ pc[c] = "advance" => Drained(ranges[range_index[c]], granted)
         /\ pc[c] = "store_start" => current_range = range_index[c] + 1)'
  BY ZenonT(40) DEF Swept, Drained, Given, Frames, OnBoundary, Busy
<1> QED
  BY <1>2, <1>3, <1>4, ZenonT(40) DEF SweepInv

(* The allocator starts at the first frame of the table.                   *)
LEMMA SweepReady == IInv /\ CallOnce => SweepInv'
<1> SUFFICES ASSUME IInv, CallOnce PROVE SweepInv'
  BY Zenon
<1>1. /\ current_range' = 0 /\ range_count \in Nat /\ UNCHANGED <<ranges, range_count, granted, pc, range_index>>
      /\ 0 < range_count => current_frame' = ranges[0].start
      /\ \A c \in Callers : pc[c] = "idle"
  BY SizeAssumption DEF CallOnce, table, local, IInv, TypeOK, AllocInv, QuietBeforeReady
<1>2. \A i \in Index : ranges[i] \in [start : Nat, end : Nat] /\ 0 <= i
  BY SizeAssumption, SMTT(40) DEF IInv, TypeOK, Index, Slots
<1>3. ASSUME NEW i \in Index, i = 0 PROVE Swept(ranges[i], granted, current_frame')
  BY <1>1, <1>2, <1>3, SweepStarts, SMTT(40) DEF Index
<1>4. \A i \in Index : ~ i < current_range' /\ (i = current_range' => i = 0)
  BY <1>1, <1>2 DEF Index
<1> QED
  BY <1>1, <1>2, <1>3, <1>4, SweepFrom, Zenon DEF Busy

(* A call leaves nothing behind, as long as nobody interferes with it or   *)
(* there is no second range.                                               *)
LEMMA SweepCaller ==
  ASSUME IInv, AlignInv, SweepInv, init_pc = "ready",
         NEW c \in Callers, Call(c) \/ CallerStep(c), Alone(c) \/ range_count <= 1
  PROVE  SweepInv'
<1> DEFINE CallerSwept(d) ==
             /\ pc'[d] \in Busy => range_index'[d] <= current_range'
             /\ pc'[d] = "load_frame" => Swept(ranges[range_index'[d]], granted', current_frame')
             /\ pc'[d] = "advance" => Drained(ranges[range_index'[d]], granted')
             /\ pc'[d] = "store_start" => current_range' = range_index'[d] + 1
<1>1. /\ current_frame \in Nat /\ current \in [Callers -> Nat] /\ granted \in Seq(Nat) /\ pc \in [Callers -> Steps]
      /\ current_range \in Nat /\ range_count \in Nat /\ current_range <= range_count
      /\ range_index \in [Callers -> 0 .. range_count]
      /\ \A d \in Callers : pc[d] \in Busy => range_index[d] \in Index
  BY SizeAssumption, SMTT(40) DEF IInv, TypeOK, Busy
<1>2. \A i \in Index : ranges[i] \in [start : Nat, end : Nat] /\ i \in Nat /\ i < range_count
  BY SizeAssumption, SMTT(40) DEF IInv, TypeOK, Index, Slots
<1>3. /\ \A i \in Index : i < current_range => Drained(ranges[i], granted)
      /\ \A i \in Index : i = current_range => Awaited(i) \/ Swept(ranges[i], granted, current_frame)
  BY Zenon DEF SweepInv
<1>4. \A d \in Callers :
        /\ pc[d] \in Busy => range_index[d] <= current_range
        /\ pc[d] = "load_frame" => Swept(ranges[range_index[d]], granted, current_frame)
        /\ pc[d] = "advance" => Drained(ranges[range_index[d]], granted)
        /\ pc[d] = "store_start" => current_range = range_index[d] + 1
  BY Zenon DEF SweepInv
<1>5. \A d \in Callers : pc[d] = "store_start" => d = c /\ Alone(c) /\ range_index[d] + 1 \in Index
  <2> SUFFICES ASSUME NEW d \in Callers, pc[d] = "store_start"
               PROVE  d = c /\ Alone(c) /\ range_index[d] + 1 \in Index
    BY Zenon
  <2>1. range_index[d] + 1 \in Index
    BY Zenon DEF IInv, AllocInv, StartsOwed
  <2>2. range_index[d] \in Nat
    BY <1>1
  <2>3. ~ range_count <= 1
    BY <1>1, <2>1, <2>2 DEF Index
  <2> QED
    BY <2>1, <2>3, ZenonT(40) DEF Alone
<1>6. UNCHANGED <<ranges, range_count>>
  BY Zenon DEF CallerStep, Call, LoadRange, Exhausted, LoadFrame, Claim, ClaimLost, AdvanceLast, AdvanceWon, AdvanceLost,
     StoreStart, table
<1>7. ASSUME pc[c] # "store_start"
      PROVE  \A i \in Index : ~ Awaited(i)
  BY <1>5, <1>7, Zenon DEF Awaited
<1>8. CASE Call(c) \/ ClaimLost(c) \/ AdvanceLost(c) \/ Exhausted(c)
  <2>1. /\ pc[c] # "store_start" /\ UNCHANGED <<current_range, current_frame, granted>>
        /\ pc'[c] \in {"load_range", "idle"}
        /\ \A d \in Callers : d # c => pc'[d] = pc[d] /\ range_index'[d] = range_index[d]
    BY <1>1, <1>8, Zenon DEF Call, ClaimLost, AdvanceLost, Exhausted, Goto, shared
  <2>2. \A d \in Callers : CallerSwept(d)
    BY <1>4, <2>1, Zenon DEF Busy
  <2> QED
    BY <1>3, <1>6, <1>7, <2>1, <2>2, SweepFrom, ZenonT(40)
<1>9. CASE LoadRange(c)
  <2>1. /\ pc[c] # "store_start" /\ UNCHANGED <<current_range, current_frame, granted>>
        /\ pc'[c] = "load_frame" /\ range_index'[c] = current_range /\ current_range \in Index
        /\ \A d \in Callers : d # c => pc'[d] = pc[d] /\ range_index'[d] = range_index[d]
    BY <1>1, <1>9, SMTT(40) DEF LoadRange, Goto, shared, Index
  <2>0. current_range <= current_range
    BY ONLY <1>1, SMTT(60)
  <2>2. Swept(ranges[current_range], granted, current_frame) /\ current_range <= current_range
    BY <1>3, <1>7, <2>0, <2>1, ZenonT(40)
  <2>3. \A d \in Callers : CallerSwept(d)
    BY <1>4, <2>1, <2>2, Zenon DEF Busy
  <2> QED
    BY <1>3, <1>6, <1>7, <2>1, <2>3, SweepFrom, ZenonT(40)
<1>10. CASE LoadFrame(c)
  <2>1. /\ pc[c] = "load_frame" /\ UNCHANGED <<current_range, current_frame, granted, range_index>>
        /\ \A d \in Callers : d # c => pc'[d] = pc[d]
        /\ \/ pc'[c] = "claim"
           \/ pc'[c] = "advance" /\ ~ Claimable(ranges[range_index[c]], current_frame)
    BY <1>1, <1>10, Zenon DEF LoadFrame, Goto, shared
  <2>2. range_index[c] \in Index /\ Swept(ranges[range_index[c]], granted, current_frame) /\ range_index[c] <= current_range
    BY <1>1, <1>4, <2>1, ZenonT(40) DEF Busy
  <2>3. pc'[c] = "advance" => Drained(ranges[range_index[c]], granted)
    BY <1>1, <1>2, <2>1, <2>2, SweepEnds, Zenon
  <2>4. \A d \in Callers : CallerSwept(d)
    BY <1>4, <2>1, <2>2, <2>3, ZenonT(40) DEF Busy
  <2> QED
    BY <1>3, <1>6, <1>7, <2>1, <2>4, SweepFrom, ZenonT(40)
<1>11. CASE Claim(c)
  <2>1. /\ pc[c] = "claim" /\ UNCHANGED <<current_range, range_index>> /\ pc'[c] = "idle"
        /\ granted' = Append(granted, current_frame) /\ current_frame' = current_frame + FRAME_SIZE
        /\ \A d \in Callers : d # c => pc'[d] = pc[d]
    BY <1>1, <1>11, Zenon DEF Claim, Goto
  <2>2. OnBoundary(current_frame)
    BY Zenon DEF AlignInv
  <2>3. \A i \in Index : /\ Drained(ranges[i], granted) => Drained(ranges[i], granted')
                         /\ Swept(ranges[i], granted, current_frame) => Swept(ranges[i], granted', current_frame')
    <3>1. \A a : Given(granted, a) => Given(granted', a)
      BY <1>1, <2>1, GivenGrows, Zenon
    <3>2. \A i \in Index : Drained(ranges[i], granted) => Drained(ranges[i], granted')
      BY <3>1, ZenonT(40) DEF Drained
    <3>3. \A i \in Index :
            Swept(ranges[i], granted, current_frame) =>
              Swept(ranges[i], Append(granted, current_frame), current_frame + FRAME_SIZE)
      BY <1>1, <1>2, <2>2, SweepOn, ZenonT(40)
    <3> QED
      BY <2>1, <3>2, <3>3, ZenonT(40)
  <2>4. \A d \in Callers : CallerSwept(d)
    BY <1>1, <1>4, <2>1, <2>3, Zenon DEF Busy
  <2> QED
    BY <1>3, <1>6, <1>7, <2>1, <2>3, <2>4, SweepFrom, ZenonT(40)
<1>12. CASE AdvanceLast(c)
  <2>1. /\ pc[c] = "advance" /\ UNCHANGED <<range_index, granted, current_frame>> /\ pc'[c] = "idle"
        /\ current_range' = range_count /\ range_index[c] + 1 >= range_count
        /\ \A d \in Callers : d # c => pc'[d] = pc[d]
    BY <1>1, <1>12, Zenon DEF AdvanceLast, Goto
  <2>2. /\ range_index[c] \in Index /\ range_index[c] <= current_range /\ Drained(ranges[range_index[c]], granted)
    BY <1>1, <1>4, <2>1, Zenon DEF Busy
  <2>3. \A i \in Index : Drained(ranges[i], granted') /\ i # current_range'
    <3>1. \A i \in Index : i < current_range \/ i = range_index[c]
      <4>1. /\ \A i \in Index : i \in Nat /\ i < range_count
            /\ range_index[c] \in Nat /\ current_range \in Nat /\ range_count \in Nat
        BY <1>1, <1>2, <2>2, ZenonT(40)
      <4>2. range_index[c] <= current_range /\ range_index[c] + 1 >= range_count
        BY <2>1, <2>2, Zenon
      <4> QED
        BY ONLY <4>1, <4>2, SMTT(60)
    <3>2. \A i \in Index : i # range_count
      BY <1>1, <1>2, SMTT(40)
    <3> QED
      BY <1>3, <2>1, <2>2, <3>1, <3>2, ZenonT(40)
  <2>4. \A d \in Callers : range_index[d] <= range_count
    BY <1>1
  <2>5. \A d \in Callers : CallerSwept(d)
    BY <1>4, <1>5, <2>1, <2>4, ZenonT(40) DEF Busy
  <2> QED
    BY <1>6, <2>3, <2>5, SweepFrom, ZenonT(40)
<1>13. CASE AdvanceWon(c)
  <2>1. /\ pc[c] = "advance" /\ UNCHANGED <<range_index, granted, current_frame>> /\ pc'[c] = "store_start"
        /\ current_range = range_index[c] /\ current_range' = range_index[c] + 1
        /\ \A d \in Callers : d # c => pc'[d] = pc[d]
    BY <1>1, <1>13, Zenon DEF AdvanceWon, Goto
  <2>2. Drained(ranges[range_index[c]], granted)
    BY <1>4, <2>1, Zenon
  <2>3. \A i \in Index : i < current_range' => Drained(ranges[i], granted')
    <3>1. \A i \in Index : i < current_range' => i < current_range \/ i = range_index[c]
      BY <1>1, <1>2, <2>1, SMTT(40)
    <3> QED
      BY <1>3, <2>1, <2>2, <3>1, ZenonT(40)
  <2>4. \A d \in Callers : range_index[d] <= current_range => range_index[d] <= current_range'
    BY <1>1, <2>1
  <2>5. range_index[c] <= current_range
    BY <1>4, <2>1, Zenon DEF Busy
  <2>6. \A d \in Callers : CallerSwept(d)
    BY <1>4, <1>5, <2>1, <2>4, <2>5, ZenonT(40) DEF Busy
  <2> QED
    BY <1>6, <2>1, <2>3, <2>6, SweepFrom, ZenonT(40)
<1>14. CASE StoreStart(c)
  <2>1. /\ pc[c] = "store_start" /\ UNCHANGED <<range_index, granted, current_range>> /\ pc'[c] = "load_range"
        /\ current_frame' = ranges[range_index[c] + 1].start
        /\ \A d \in Callers : d # c => pc'[d] = pc[d]
    BY <1>1, <1>14, Zenon DEF StoreStart, Goto
  <2>2. current_range = range_index[c] + 1 /\ current_range \in Index /\ \A d \in Callers : d # c => pc[d] = "idle"
    BY <1>4, <1>5, <2>1, ZenonT(40) DEF Alone
  <2>3. Swept(ranges[current_range], granted, current_frame')
    BY <1>2, <2>1, <2>2, SweepStarts, ZenonT(40)
  <2>4. \A d \in Callers : pc'[d] \notin Busy
    BY <2>1, <2>2, Zenon DEF Busy
  <2>5. \A d \in Callers : CallerSwept(d)
    BY <2>4, Zenon DEF Busy
  <2> QED
    BY <1>3, <1>6, <2>1, <2>3, <2>5, SweepFrom, ZenonT(40)
<1> QED
  BY <1>8, <1>9, <1>10, <1>11, <1>12, <1>13, <1>14, ZenonT(40) DEF CallerStep

(* Nothing is left behind by any step.                                     *)
LEMMA SweepStep ==
  ASSUME IInv, AlignInv, SweepInv, [Next]_vars, NEW c \in Callers,
         Alone(c) \/ range_count <= 1, Alone(c)' \/ range_count' <= 1
  PROVE  SweepInv'
<1>1. CASE CallOnce
  BY <1>1, SweepReady, Zenon
<1>2. CASE SkipRegion \/ TakeRegion \/ EndLoop \/ StoreFrameCount \/ StoreRangeCount
  <2>1. init_pc' # "ready"
    BY <1>2, Zenon DEF SkipRegion, TakeRegion, EndLoop, StoreFrameCount, StoreRangeCount, counts
  <2> QED
    BY <2>1, ZenonT(40) DEF SweepInv
<1>3. ASSUME NEW d \in Callers, Call(d) \/ CallerStep(d)
      PROVE  SweepInv'
  <2>1. UNCHANGED <<init_pc, range_count>>
    BY <1>3, ZenonT(40) DEF CallerStep, Call, LoadRange, Exhausted, LoadFrame, Claim, ClaimLost, AdvanceLast, AdvanceWon,
       AdvanceLost, StoreStart, table, counts
  <2>2. CASE init_pc # "ready"
    BY <2>1, <2>2, Zenon DEF SweepInv
  <2>3. CASE init_pc = "ready" /\ range_count <= 1
    BY <1>3, <2>3, SweepCaller, Zenon
  <2>4. CASE init_pc = "ready" /\ ~ range_count <= 1
    <3>1. Alone(c) /\ Alone(c)'
      BY <2>1, <2>4, Zenon
    <3>2. d = c
      <4> SUFFICES ASSUME d # c PROVE FALSE
        BY Zenon
      <4>1. pc[d] = "idle" /\ pc'[d] = "idle" /\ pc \in [Callers -> Steps]
        BY <3>1, Zenon DEF Alone, IInv, TypeOK
      <4>2. Call(d)
        BY <1>3, <4>1, ZenonT(40) DEF CallerStep, LoadRange, Exhausted, LoadFrame, Claim, ClaimLost, AdvanceLast, AdvanceWon,
           AdvanceLost, StoreStart
      <4> QED
        BY <4>1, <4>2, Zenon DEF Call, Goto
    <3> QED
      BY <1>3, <2>4, <3>1, <3>2, SweepCaller, ZenonT(40)
  <2> QED
    BY <2>2, <2>3, <2>4, Zenon
<1>4. CASE UNCHANGED vars
  <2>1. UNCHANGED <<init_pc, ranges, range_count, current_range, current_frame, pc, range_index, granted>>
    BY <1>4, Zenon DEF vars, table, counts, shared, local
  <2>2. CASE init_pc # "ready"
    BY <2>1, <2>2, Zenon DEF SweepInv
  <2>3. CASE init_pc = "ready"
    BY <2>1, <2>3, SweepFrom, ZenonT(40) DEF SweepInv, Awaited
  <2> QED
    BY <2>2, <2>3, Zenon
<1> QED
  BY <1>1, <1>2, <1>3, <1>4, ZenonT(40) DEF Next, Initialize

-----------------------------------------------------------------------------
(* Nothing is counted that is not in a table with room for every range     *)

\* The entries with frames among those the loop has passed
Taken(n) == {k \in 1 .. n : HasFrames(memory_map[k])}

\* Ranges are of entries taken; if each of those got one, all that is counted is in the table.
ExactInv ==
  /\ range_count <= Cardinality(Taken(region))
  /\ Cardinality(Taken(region)) = range_count => total_frames <= Cardinality(TableFrames)
  /\ init_pc # "loop" => region = Kept

(* Every entry that gets a range is counted frame for frame.               *)
LEMMA TakeExact == IInv /\ CountInv /\ ExactInv /\ TakeRegion => ExactInv'
<1> SUFFICES ASSUME IInv, CountInv, ExactInv, TakeRegion PROVE ExactInv'
  BY Zenon
<1> DEFINE span == Span(memory_map[region + 1])
           k == region + 1
<1>1. /\ total_frames' = total_frames + FramesOf(span) /\ init_pc' = "loop" /\ HasFrames(memory_map[k])
      /\ UNCHANGED memory_map /\ region' = k /\ init_pc = "loop"
  BY Zenon DEF TakeRegion, counts
<1>2. /\ k \in DOMAIN memory_map /\ region \in Nat
      /\ span.start \in Nat /\ span.end \in Nat /\ OnBoundary(span.start) /\ span.start < span.end
      /\ span = [start |-> span.start, end |-> span.end]
      /\ \/ UNCHANGED <<ranges, range_count>> /\ TableFrames' = TableFrames
         \/ range_count' = range_count + 1 /\ TableFrames' = TableFrames \cup Frames(span)
  BY TakenFrames, Zenon
<1>3. /\ IsFiniteSet(Taken(region)) /\ Cardinality(Taken(region)) \in Nat
      /\ Cardinality(Taken(region)') = Cardinality(Taken(region)) + 1
  <2>1. IsFiniteSet(1 .. region)
    <3>1. 1 \in Int /\ region \in Int
      BY <1>2, SMTT(40)
    <3> QED
      BY <3>1, FS_Interval, ZenonT(40)
  <2>2. IsFiniteSet(Taken(region)) /\ k \notin Taken(region)
    BY <1>2, <2>1, FS_Subset DEF Taken
  <2>3. Taken(region)' = Taken(region) \cup {k}
    <3>1. 1 .. k = 1 .. region \cup {k}
      BY <1>2, SMTT(40)
    <3>2. Taken(region)' = {j \in 1 .. k : HasFrames(memory_map[j])}
      BY <1>1, ZenonT(40) DEF Taken, HasFrames, Span, End, align_up, align_down
    <3> QED
      BY <1>1, <3>1, <3>2, ZenonT(40) DEF Taken
  <2> QED
    BY <2>2, <2>3, FS_AddElement, FS_CardinalityType, Zenon
<1>4. /\ total_frames \in Nat /\ range_count \in Nat /\ IsFiniteSet(TableFrames)
  BY SizeAssumption, SMTT(40) DEF IInv, TypeOK, CountInv
<1>5. TableFrames \cap Frames(span) = {}
  <2> SUFFICES ASSUME NEW a \in TableFrames, a \in Frames(span) PROVE FALSE
    BY Zenon
  <2>1. PICK i \in Index : a \in Frames(ranges[i])
    BY Zenon DEF TableFrames
  <2>2. Apart(ranges[i], span)
    BY <1>1, <1>2, SMTT(40) DEF IInv, TableInv
  <2>3. ranges[i].start \in Nat /\ ranges[i].end \in Nat
    BY RangesTyped, Zenon DEF IInv
  <2> QED
    BY <1>2, <2>1, <2>2, <2>3, SMTT(40) DEF Apart, Frames
<1>6. /\ IsFiniteSet(Frames(span)) /\ FramesOf(span) \in Nat /\ FramesOf(span) <= Cardinality(Frames(span))
      /\ Cardinality(Frames(span)) \in Nat /\ Cardinality(TableFrames) \in Nat
  BY <1>2, <1>4, FramesCounted, FramesNotOvercounted, FS_CardinalityType, Zenon
<1>7. Cardinality(TableFrames \cup Frames(span)) = Cardinality(TableFrames) + Cardinality(Frames(span))
  BY <1>4, <1>5, <1>6, FS_Union, FS_EmptySet, SMTT(40)
<1>8. range_count <= Cardinality(Taken(region))
      /\ (Cardinality(Taken(region)) = range_count => total_frames <= Cardinality(TableFrames))
  BY Zenon DEF ExactInv
<1> HIDE DEF span, k
<1>9. CASE UNCHANGED <<ranges, range_count>> /\ TableFrames' = TableFrames
  BY <1>1, <1>3, <1>4, <1>8, <1>9, SMTT(40) DEF ExactInv
<1>10. CASE range_count' = range_count + 1 /\ TableFrames' = TableFrames \cup Frames(span)
  <2>1. Cardinality(TableFrames') = Cardinality(TableFrames) + Cardinality(Frames(span))
    BY <1>7, <1>10, Zenon
  <2>2. Cardinality(Taken(region)') = range_count' => total_frames' <= Cardinality(TableFrames')
    BY <1>1, <1>3, <1>4, <1>6, <1>8, <1>10, <2>1, SMTT(40)
  <2>3. range_count' <= Cardinality(Taken(region)')
    BY <1>3, <1>4, <1>8, <1>10, SMTT(40)
  <2> QED
    BY <1>1, <2>2, <2>3, Zenon DEF ExactInv
<1> QED
  BY <1>2, <1>9, <1>10, Zenon

(* The counting stays exact.                                               *)
LEMMA ExactStep == IInv /\ CountInv /\ ExactInv /\ [Next]_vars => ExactInv'
<1> SUFFICES ASSUME IInv, CountInv, ExactInv, [Next]_vars PROVE ExactInv'
  BY Zenon
<1>1. /\ region \in 0 .. Kept /\ Kept \in Nat /\ region \in Nat
  <2>1. memory_map \in Seq(Region) /\ MAX_MEMORY_REGIONS \in Nat
    BY SizeAssumption, MemoryMapAssumption, Zenon DEF IInv, TypeOK
  <2>2. Kept \in Nat
    BY <2>1, SMTT(40) DEF Kept
  <2> QED
    BY <2>2, SMTT(40) DEF IInv, TypeOK
<1>2. ASSUME UNCHANGED <<memory_map, ranges, range_count, total_frames>>,
             Taken(region)' = Taken(region), init_pc' # "loop" => region' = Kept
      PROVE  ExactInv'
  <2>1. TableFrames' = TableFrames /\ Kept' = Kept
    BY <1>2, SMTT(40) DEF TableFrames, Frames, Index, OnBoundary, Kept
  <2> QED
    BY <1>2, <2>1, Zenon DEF ExactInv
<1>3. ASSUME UNCHANGED <<memory_map, region>>
      PROVE  Taken(region)' = Taken(region)
  BY <1>3, Zenon DEF Taken, HasFrames, Span, End, align_up, align_down
<1>4. CASE EndLoop
  <2>1. UNCHANGED <<memory_map, region, ranges, range_count, total_frames>> /\ region >= Kept
    BY <1>4, Zenon DEF EndLoop, table
  <2>2. region = Kept
    BY <1>1, <2>1
  <2> QED
    BY <1>2, <1>3, <2>1, <2>2, Zenon
<1>5. CASE SkipRegion
  <2>1. /\ UNCHANGED <<memory_map, ranges, range_count, total_frames>> /\ region' = region + 1 /\ init_pc' = "loop"
        /\ ~ HasFrames(memory_map[region + 1])
    BY <1>5, Zenon DEF SkipRegion, counts
  <2>2. Taken(region)' = {j \in 1 .. region + 1 : HasFrames(memory_map[j])}
    BY <2>1, Zenon DEF Taken, HasFrames, Span, End, align_up, align_down
  <2>3. 1 .. region + 1 = 1 .. region \cup {region + 1}
    BY <1>1
  <2>4. Taken(region)' = Taken(region)
    BY <2>1, <2>2, <2>3, ZenonT(40) DEF Taken
  <2> QED
    BY <1>2, <2>1, <2>4, Zenon
<1>6. ASSUME UNCHANGED <<memory_map, region, ranges, range_count, total_frames>>,
             init_pc' # "loop" => init_pc # "loop"
      PROVE  ExactInv'
  BY <1>2, <1>3, <1>6, Zenon DEF ExactInv
<1>7. CASE StoreFrameCount \/ StoreRangeCount \/ CallOnce
  BY <1>6, <1>7, Zenon DEF StoreFrameCount, StoreRangeCount, CallOnce, table
<1>8. ASSUME NEW c \in Callers, Call(c) \/ CallerStep(c)  PROVE ExactInv'
  BY <1>6, <1>8, Zenon DEF CallerStep, Call, LoadRange, Exhausted, LoadFrame, Claim, ClaimLost, AdvanceLast,
     AdvanceWon, AdvanceLost, StoreStart, table, counts
<1>9. CASE UNCHANGED vars
  BY <1>6, <1>9, Zenon DEF vars, table, counts
<1> QED
  BY <1>4, <1>5, <1>7, <1>8, <1>9, TakeExact, ZenonT(40) DEF Next, Initialize

(* When every range has been left, every frame that was counted has been   *)
(* granted.                                                                *)
LEMMA AllGranted ==
  ASSUME IInv, AlignInv, CountInv, ExactInv, SweepInv
  PROVE  NoneMeansAllGranted
<1> SUFFICES ASSUME init_pc = "ready", current_range = range_count,
                    Cardinality({k \in 1 .. Kept : HasFrames(memory_map[k])}) = range_count
             PROVE  Len(granted) = USABLE_FRAME_COUNT
  BY Zenon DEF NoneMeansAllGranted
<1>1. granted \in Seq(Nat) /\ USABLE_FRAME_COUNT \in Nat /\ total_frames = USABLE_FRAME_COUNT /\ Len(granted) \in Nat
  BY DEF IInv, TypeOK, CountInv
<1>2. total_frames <= Cardinality(TableFrames) /\ IsFiniteSet(TableFrames)
  BY Zenon DEF ExactInv, Taken, CountInv
<1> DEFINE R == {granted[n] : n \in 1 .. Len(granted)}
<1>3. TableFrames \subseteq R
  <2> SUFFICES ASSUME NEW a \in TableFrames PROVE a \in R
    BY Zenon
  <2>1. PICK i \in Index : a \in Frames(ranges[i])
    BY Zenon DEF TableFrames
  <2>2. i < current_range
    BY SizeAssumption, SMTT(40) DEF Index, IInv, TypeOK
  <2>3. Given(granted, a)
    BY <2>1, <2>2, ZenonT(40) DEF SweepInv, Drained
  <2>4. DOMAIN granted = 1 .. Len(granted)
    BY <1>1, SMTT(40)
  <2> QED
    BY <2>3, <2>4, Zenon DEF Given
<1>4. IsFiniteSet(R) /\ Cardinality(R) <= Len(granted) /\ Cardinality(R) \in Nat
  <2>1. 1 \in Int /\ Len(granted) \in Int
    BY <1>1
  <2>2. /\ IsFiniteSet(1 .. Len(granted))
        /\ Cardinality(1 .. Len(granted)) = IF 1 > Len(granted) THEN 0 ELSE Len(granted) - 1 + 1
    BY <2>1, FS_Interval, ZenonT(40)
  <2>3. Cardinality(1 .. Len(granted)) = Len(granted)
    BY <1>1, <2>2
  <2>4. granted \in Surjection(1 .. Len(granted), R)
    BY <1>1, SMTT(40) DEF Surjection
  <2> QED
    BY <2>2, <2>3, <2>4, FS_Surjection, FS_CardinalityType, SMTT(40)
<1>5. Cardinality(TableFrames) <= Cardinality(R) /\ Cardinality(TableFrames) \in Nat
  BY <1>2, <1>3, <1>4, FS_Subset, FS_CardinalityType, Zenon
<1>6. Len(granted) <= USABLE_FRAME_COUNT
  BY GrantsCounted, Zenon DEF CountsCoverGrants
<1> HIDE DEF R
<1> QED
  BY <1>1, <1>2, <1>4, <1>5, <1>6, SMTT(40)

(* No frame is lost, for every memory map, table and frame size, by a      *)
(* caller that nobody interferes with, nor by any number of callers of a   *)
(* table of one range: allocate_frame answers None only after it has given *)
(* out every frame that `initialize` counted.                              *)
THEOREM NoneLost == Spec => NoFrameIsLost
<1> SUFFICES ASSUME NEW c \in Callers
             PROVE  Spec => ([](Alone(c) \/ range_count <= 1) => []NoneMeansAllGranted)
  BY Zenon DEF NoFrameIsLost
<1> DEFINE Inv == IInv /\ AlignInv /\ CountInv /\ ExactInv /\ SweepInv
           Solo == Alone(c) \/ range_count <= 1
<1>1. Init => AlignInv /\ CountInv
  BY InitCounts, Zenon
<1>2. Init => ExactInv /\ SweepInv
  <2> SUFFICES ASSUME Init PROVE ExactInv /\ SweepInv
    BY Zenon
  <2>1. range_count = 0 /\ total_frames = 0 /\ init_pc = "loop" /\ region = 0
    BY Zenon DEF Init
  <2>2. TableFrames = {} /\ Taken(region) = {}
    BY <2>1, SMTT(30) DEF TableFrames, Index, Taken
  <2> QED
    BY <2>1, <2>2, FS_EmptySet DEF ExactInv, SweepInv
<1>3. Inv /\ Solo /\ Solo' /\ [Next]_vars => Inv'
  BY InvNext, AlignStep, CountStep, ExactStep, SweepStep, ZenonT(40)
<1>4. Inv => NoneMeansAllGranted
  BY AllGranted, Zenon
<1>5. Init => Inv
  BY <1>1, <1>2, InitInv, Zenon
<1> HIDE DEF Inv
<1> QED
  BY <1>3, <1>4, <1>5, PTL DEF Spec

-----------------------------------------------------------------------------
(* Boot entry: the stages and the serial port                              *)

Labels == {"entry", "revision-accepted", "collecting-boot-info", "hhdm-ready", "memory-map-ready",
           "regions-mapped", "framebuffer-ready", "boot-info-ready", "kernel-init"}

\* The serial port shows the first n of the documented stages.
Shown(n) == log \in Seq(Labels) /\ Len(log) = n /\ \A k \in 1 .. n : log[k] = Boot!Markers[k]

\* What `enter` has written, marked and found out before each of its steps
StageInv ==
  \/ boot_pc = "enter"       /\ Shown(0)
  \/ boot_pc = "revision"    /\ Shown(1)
  \/ boot_pc = "collect"     /\ Shown(2) /\ loader.revision
  \/ boot_pc = "hhdm"        /\ Shown(3) /\ loader.revision /\ BOOT_STAGE = 3
  \/ boot_pc = "memmap"      /\ Shown(4) /\ loader.revision /\ loader.hhdm /\ BOOT_STAGE = 4
  \/ boot_pc = "regions"     /\ Shown(5)
  \/ boot_pc = "framebuffer" /\ Shown(6)
  \/ boot_pc = "ready"       /\ Shown(7)
  \/ boot_pc = "init"        /\ Shown(8)
  \/ boot_pc = "run"         /\ Shown(9)
  \/ boot_pc = "halted"      /\ HaltRevealsStage

(* Every stage has its discriminant, and its label is read back from it.   *)
LEMMA StageValues ==
  /\ Boot!Value("entry") = 0                /\ Boot!Label(0) = "entry"
  /\ Boot!Value("revision-accepted") = 1    /\ Boot!Label(1) = "revision-accepted"
  /\ Boot!Value("collecting-boot-info") = 3 /\ Boot!Label(3) = "collecting-boot-info"
  /\ Boot!Value("hhdm-ready") = 4           /\ Boot!Label(4) = "hhdm-ready"
  /\ Boot!Value("memory-map-ready") = 5     /\ Boot!Label(5) = "memory-map-ready"
  /\ Boot!Value("regions-mapped") = 6       /\ Boot!Label(6) = "regions-mapped"
  /\ Boot!Value("framebuffer-ready") = 7    /\ Boot!Label(7) = "framebuffer-ready"
  /\ Boot!Value("boot-info-ready") = 8      /\ Boot!Label(8) = "boot-info-ready"
  /\ Boot!Value("kernel-init") = 9          /\ Boot!Label(9) = "kernel-init"
<1> USE DEF Boot!Value, Boot!Label, Boot!BootStage
<1>1. Boot!Value("entry") = 0 /\ Boot!Label(0) = "entry"
  OBVIOUS
<1>2. Boot!Value("revision-accepted") = 1 /\ Boot!Label(1) = "revision-accepted"
  OBVIOUS
<1>3. Boot!Value("collecting-boot-info") = 3 /\ Boot!Label(3) = "collecting-boot-info"
  OBVIOUS
<1>4. Boot!Value("hhdm-ready") = 4 /\ Boot!Label(4) = "hhdm-ready"
  OBVIOUS
<1>5. Boot!Value("memory-map-ready") = 5 /\ Boot!Label(5) = "memory-map-ready"
  OBVIOUS
<1>6. Boot!Value("regions-mapped") = 6 /\ Boot!Label(6) = "regions-mapped"
  OBVIOUS
<1>7. Boot!Value("framebuffer-ready") = 7 /\ Boot!Label(7) = "framebuffer-ready"
  OBVIOUS
<1>8. Boot!Value("boot-info-ready") = 8 /\ Boot!Label(8) = "boot-info-ready"
  OBVIOUS
<1>9. Boot!Value("kernel-init") = 9 /\ Boot!Label(9) = "kernel-init"
  OBVIOUS
<1> QED
  BY <1>1, <1>2, <1>3, <1>4, <1>5, <1>6, <1>7, <1>8, <1>9, ZenonT(40)

(* The labels that `enter` shows are the documented ones.                  *)
LEMMA MarkersAre ==
  /\ Boot!Markers \in Seq(Labels) /\ Len(Boot!Markers) = 9
  /\ Boot!Markers[1] = "entry" /\ Boot!Markers[2] = "revision-accepted"
  /\ Boot!Markers[3] = "collecting-boot-info" /\ Boot!Markers[4] = "hhdm-ready"
  /\ Boot!Markers[5] = "memory-map-ready" /\ Boot!Markers[6] = "regions-mapped"
  /\ Boot!Markers[7] = "framebuffer-ready" /\ Boot!Markers[8] = "boot-info-ready"
  /\ Boot!Markers[9] = "kernel-init"
<1>1. Boot!Markers \in Seq(Labels)
  BY SMTT(40) DEF Boot!Markers, Labels
<1> QED
  BY <1>1, Zenon DEF Boot!Markers

(* A line with the next documented label is written.                       *)
LEMMA ShowNext ==
  ASSUME NEW n \in 0 .. 8, Shown(n), log' = Append(log, Boot!Markers[n + 1])
  PROVE  Shown(n + 1)'
<1>1. Boot!Markers[n + 1] \in Labels
  <2>1. n + 1 \in 1 .. Len(Boot!Markers) /\ Boot!Markers \in Seq(Labels)
    BY MarkersAre, SMTT(40)
  <2> QED
    BY <2>1
<1>2. /\ log' \in Seq(Labels) /\ Len(log') = n + 1 /\ log'[n + 1] = Boot!Markers[n + 1]
      /\ \A k \in 1 .. n : log'[k] = log[k]
  BY <1>1 DEF Shown
<1>3. \A k \in 1 .. n + 1 : k \in 1 .. n \/ k = n + 1
  OBVIOUS
<1> QED
  BY <1>2, <1>3, Zenon DEF Shown

(* What a line with a label adds to the log.                               *)
LEMMA Written ==
  ASSUME NEW s \in Seq(Labels), NEW n \in Nat, Len(s) = n, NEW label \in Labels
  PROVE  /\ Append(s, label) \in Seq(Labels)
         /\ Len(Append(s, label)) = n + 1
         /\ Append(s, label)[n + 1] = label
  OBVIOUS

(* The label that names the missing answer, written last before the halt,  *)
(* is the last line of the log.                                            *)
LEMMA HaltShows ==
  ASSUME log' \in Seq(Labels), NEW n \in Nat, Len(log') = n, loader' = loader,
         log'[n] = IF ~ loader.revision THEN "entry"
                   ELSE IF ~ loader.hhdm THEN "collecting-boot-info"
                   ELSE "hhdm-ready"
  PROVE  HaltRevealsStage'
  BY Zenon DEF HaltRevealsStage, Boot!HaltRevealsStage

(* Every step of boot entry keeps StageInv.                                *)
LEMMA StageNext == StageInv /\ Boot!Next => StageInv'
<1> SUFFICES ASSUME StageInv, Boot!Next PROVE StageInv'
  BY Zenon
<1>1. CASE Boot!Enter
  <2>1. /\ boot_pc = "enter" /\ boot_pc' = "revision" /\ loader' = loader
        /\ BOOT_STAGE' = Boot!Value("entry") /\ log' = Append(log, Boot!Label(BOOT_STAGE'))
    BY <1>1, Zenon DEF Boot!Enter, Boot!Reach
  <2>2. Shown(0)
    BY <2>1, Zenon DEF StageInv
  <2>3. Boot!Value("entry") = 0 /\ Boot!Label(0) = Boot!Markers[1]
    BY StageValues, MarkersAre, ZenonT(40)
  <2>4. Shown(1)'
    BY <2>1, <2>2, <2>3, ShowNext, SMTT(40)
  <2> QED
    BY <1>1, <2>1, <2>2, <2>3, <2>4, Zenon DEF StageInv
<1>2. CASE Boot!RevisionSupported
  <2>1. /\ boot_pc = "revision" /\ boot_pc' = "collect" /\ loader' = loader
        /\ BOOT_STAGE' = Boot!Value("revision-accepted") /\ log' = Append(log, Boot!Label(BOOT_STAGE'))
    BY <1>2, Zenon DEF Boot!RevisionSupported, Boot!Reach
  <2>2. Shown(1) /\ loader.revision
    BY <1>2, <2>1, Zenon DEF StageInv, Boot!RevisionSupported
  <2>3. Boot!Value("revision-accepted") = 1 /\ Boot!Label(1) = Boot!Markers[2]
    BY StageValues, MarkersAre, ZenonT(40)
  <2>4. Shown(2)'
    BY <2>1, <2>2, <2>3, ShowNext, SMTT(40)
  <2> QED
    BY <1>2, <2>1, <2>2, <2>3, <2>4, Zenon DEF StageInv
<1>3. CASE Boot!RevisionRejected
  <2>1. boot_pc = "revision" /\ log' = log /\ loader' = loader /\ ~ loader.revision /\ boot_pc' = "halted"
    BY <1>3, Zenon DEF Boot!RevisionRejected
  <2>2. Shown(1)
    BY <2>1, Zenon DEF StageInv
  <2>3. log' \in Seq(Labels) /\ Len(log') = 1 /\ log'[1] = "entry"
    BY <2>1, <2>2, MarkersAre DEF Shown
  <2>4. HaltRevealsStage'
    BY <2>1, <2>3, HaltShows, ZenonT(40)
  <2> QED
    BY <2>1, <2>4, Zenon DEF StageInv
<1>4. CASE Boot!CollectBootInfo
  <2>1. /\ boot_pc = "collect" /\ boot_pc' = "hhdm" /\ loader' = loader
        /\ BOOT_STAGE' = Boot!Value("collecting-boot-info") /\ log' = Append(log, Boot!Label(BOOT_STAGE'))
    BY <1>4, Zenon DEF Boot!CollectBootInfo, Boot!Reach
  <2>2. Shown(2) /\ loader.revision
    BY <2>1, Zenon DEF StageInv
  <2>3. Boot!Value("collecting-boot-info") = 3 /\ Boot!Label(3) = Boot!Markers[3]
    BY StageValues, MarkersAre, Zenon
  <2>4. Shown(3)'
    BY <2>1, <2>2, <2>3, ShowNext
  <2> QED
    BY <1>4, <2>1, <2>2, <2>3, <2>4, Zenon DEF StageInv
<1>5. CASE Boot!CollectHhdm
  <2>1. CASE loader.hhdm
    <3>1. /\ boot_pc = "hhdm" /\ boot_pc' = "memmap" /\ loader' = loader
          /\ BOOT_STAGE' = Boot!Value("hhdm-ready") /\ log' = Append(log, Boot!Label(BOOT_STAGE'))
      BY <1>5, <2>1, ZenonT(40) DEF Boot!CollectHhdm, Boot!Reach
    <3>2. Shown(3) /\ loader.revision
      BY <3>1, Zenon DEF StageInv
    <3>3. Boot!Value("hhdm-ready") = 4 /\ Boot!Label(4) = Boot!Markers[4]
      BY StageValues, MarkersAre, Zenon
    <3>4. Shown(4)'
      BY <3>1, <3>2, <3>3, ShowNext, SMTT(40)
    <3> QED
      BY <1>5, <2>1, <3>1, <3>2, <3>3, <3>4, Zenon DEF StageInv
  <2>2. CASE ~ loader.hhdm
    <3>1. /\ boot_pc = "hhdm" /\ boot_pc' = "halted" /\ loader' = loader
          /\ log' = Append(log, Boot!Label(BOOT_STAGE))
      BY <1>5, <2>2, Zenon DEF Boot!CollectHhdm, Boot!Panic
    <3>2. Shown(3) /\ BOOT_STAGE = 3 /\ loader.revision
      BY <3>1, Zenon DEF StageInv
    <3>3. Boot!Label(3) = "collecting-boot-info"
      BY StageValues, Zenon
    <3>4. log' \in Seq(Labels) /\ Len(log') = 4 /\ log'[4] = "collecting-boot-info"
      <4>1. log' = Append(log, "collecting-boot-info") /\ "collecting-boot-info" \in Labels
        BY <3>1, <3>2, <3>3, Zenon DEF Labels
      <4>2. log \in Seq(Labels) /\ Len(log) = 3
        BY <3>2, Zenon DEF Shown
      <4>3. 3 \in Nat /\ 3 + 1 = 4
        OBVIOUS
      <4>4. /\ Append(log, "collecting-boot-info") \in Seq(Labels)
            /\ Len(Append(log, "collecting-boot-info")) = 3 + 1
            /\ Append(log, "collecting-boot-info")[3 + 1] = "collecting-boot-info"
        BY <4>1, <4>2, <4>3, Written, ZenonT(40)
      <4> QED
        BY <4>1, <4>3, <4>4, Zenon
    <3>5. HaltRevealsStage'
      BY <2>2, <3>1, <3>2, <3>4, HaltShows, Zenon
    <3> QED
      BY <3>1, <3>5, Zenon DEF StageInv
  <2> QED
    BY <2>1, <2>2, Zenon
<1>6. CASE Boot!CollectMemoryMap
  <2>1. CASE loader.memmap
    <3>1. /\ boot_pc = "memmap" /\ boot_pc' = "regions" /\ loader' = loader
          /\ BOOT_STAGE' = Boot!Value("memory-map-ready") /\ log' = Append(log, Boot!Label(BOOT_STAGE'))
      BY <1>6, <2>1, Zenon DEF Boot!CollectMemoryMap, Boot!Reach
    <3>2. Shown(4) /\ loader.revision /\ loader.hhdm
      BY <3>1, Zenon DEF StageInv
    <3>3. Boot!Value("memory-map-ready") = 5 /\ Boot!Label(5) = Boot!Markers[5]
      BY StageValues, MarkersAre, Zenon
    <3>4. Shown(5)'
      BY <3>1, <3>2, <3>3, ShowNext, SMTT(40)
    <3> QED
      BY <1>6, <2>1, <3>1, <3>2, <3>3, <3>4, ZenonT(40) DEF StageInv
  <2>2. CASE ~ loader.memmap
    <3>1. /\ boot_pc = "memmap" /\ boot_pc' = "halted" /\ loader' = loader
          /\ log' = Append(log, Boot!Label(BOOT_STAGE))
      BY <1>6, <2>2, Zenon DEF Boot!CollectMemoryMap, Boot!Panic
    <3>2. Shown(4) /\ BOOT_STAGE = 4 /\ loader.revision /\ loader.hhdm
      BY <3>1, Zenon DEF StageInv
    <3>3. Boot!Label(4) = "hhdm-ready"
      BY StageValues, Zenon
    <3>4. log' \in Seq(Labels) /\ Len(log') = 5 /\ log'[5] = "hhdm-ready"
      <4>1. log' = Append(log, "hhdm-ready") /\ "hhdm-ready" \in Labels
        BY <3>1, <3>2, <3>3, Zenon DEF Labels
      <4>2. log \in Seq(Labels) /\ Len(log) = 4
        BY <3>2, Zenon DEF Shown
      <4>3. 4 \in Nat /\ 4 + 1 = 5
        OBVIOUS
      <4>4. /\ Append(log, "hhdm-ready") \in Seq(Labels)
            /\ Len(Append(log, "hhdm-ready")) = 4 + 1
            /\ Append(log, "hhdm-ready")[4 + 1] = "hhdm-ready"
        BY <4>1, <4>2, <4>3, Written, Zenon
      <4> QED
        BY <4>1, <4>3, <4>4, Zenon
    <3>5. HaltRevealsStage'
      BY <2>2, <3>1, <3>2, <3>4, HaltShows, ZenonT(40)
    <3> QED
      BY <3>1, <3>5, Zenon DEF StageInv
  <2> QED
    BY <2>1, <2>2, Zenon
<1>7. CASE Boot!MapRegions
  <2>1. /\ boot_pc = "regions" /\ boot_pc' = "framebuffer" /\ loader' = loader
        /\ BOOT_STAGE' = Boot!Value("regions-mapped") /\ log' = Append(log, Boot!Label(BOOT_STAGE'))
    BY <1>7, Zenon DEF Boot!MapRegions, Boot!Reach
  <2>2. Shown(5)
    BY <2>1, Zenon DEF StageInv
  <2>3. Boot!Value("regions-mapped") = 6 /\ Boot!Label(6) = Boot!Markers[6]
    BY StageValues, MarkersAre, ZenonT(40)
  <2>4. Shown(6)'
    BY <2>1, <2>2, <2>3, ShowNext, SMTT(40)
  <2> QED
    BY <1>7, <2>1, <2>2, <2>3, <2>4, ZenonT(40) DEF StageInv
<1>8. CASE Boot!CollectFramebuffer
  <2>1. /\ boot_pc = "framebuffer" /\ boot_pc' = "ready" /\ loader' = loader
        /\ BOOT_STAGE' = Boot!Value("framebuffer-ready") /\ log' = Append(log, Boot!Label(BOOT_STAGE'))
    BY <1>8, Zenon DEF Boot!CollectFramebuffer, Boot!Reach
  <2>2. Shown(6)
    BY <2>1, Zenon DEF StageInv
  <2>3. Boot!Value("framebuffer-ready") = 7 /\ Boot!Label(7) = Boot!Markers[7]
    BY StageValues, MarkersAre, Zenon
  <2>4. Shown(7)'
    BY <2>1, <2>2, <2>3, ShowNext, SMTT(40)
  <2> QED
    BY <1>8, <2>1, <2>2, <2>3, <2>4, Zenon DEF StageInv
<1>9. CASE Boot!BootInfoReady
  <2>1. /\ boot_pc = "ready" /\ boot_pc' = "init" /\ loader' = loader
        /\ BOOT_STAGE' = Boot!Value("boot-info-ready") /\ log' = Append(log, Boot!Label(BOOT_STAGE'))
    BY <1>9, Zenon DEF Boot!BootInfoReady, Boot!Reach
  <2>2. Shown(7)
    BY <2>1, Zenon DEF StageInv
  <2>3. Boot!Value("boot-info-ready") = 8 /\ Boot!Label(8) = Boot!Markers[8]
    BY StageValues, MarkersAre, ZenonT(40)
  <2>4. Shown(8)'
    BY <2>1, <2>2, <2>3, ShowNext, SMTT(40)
  <2> QED
    BY <1>9, <2>1, <2>2, <2>3, <2>4, Zenon DEF StageInv
<1>10. CASE Boot!KernelInit
  <2>1. /\ boot_pc = "init" /\ boot_pc' = "run" /\ loader' = loader
        /\ BOOT_STAGE' = Boot!Value("kernel-init") /\ log' = Append(log, Boot!Label(BOOT_STAGE'))
    BY <1>10, Zenon DEF Boot!KernelInit, Boot!Reach
  <2>2. Shown(8)
    BY <2>1, Zenon DEF StageInv
  <2>3. Boot!Value("kernel-init") = 9 /\ Boot!Label(9) = Boot!Markers[9]
    BY StageValues, MarkersAre, ZenonT(40)
  <2>4. Shown(9)'
    BY <2>1, <2>2, <2>3, ShowNext, SMTT(40)
  <2> QED
    BY <1>10, <2>1, <2>2, <2>3, <2>4, Zenon DEF StageInv
<1> QED
  BY <1>1, <1>2, <1>3, <1>4, <1>5, <1>6, <1>7, <1>8, <1>9, <1>10, ZenonT(40) DEF Boot!Next

(* What StageInv says about the serial port.                               *)
LEMMA StageInvSuffices == StageInv => StagesAsDocumented /\ HaltRevealsStage
<1> SUFFICES ASSUME StageInv PROVE StagesAsDocumented /\ HaltRevealsStage
  BY Zenon
<1>1. ASSUME NEW n \in 0 .. 9, Shown(n)
      PROVE  /\ \E m \in 0 .. Len(Boot!Markers) : log = SubSeq(Boot!Markers, 1, m)
             /\ n = 9 => log = Boot!Markers
  <2>1. log = SubSeq(Boot!Markers, 1, n)
    BY <1>1, MarkersAre DEF Shown
  <2>2. n = 9 => log = Boot!Markers
    BY <1>1, MarkersAre DEF Shown
  <2>3. n \in 0 .. Len(Boot!Markers)
    BY MarkersAre, Zenon
  <2> QED
    BY <2>1, <2>2, <2>3, Zenon
<1> QED
  BY <1>1 DEF StageInv, StagesAsDocumented, Boot!StagesAsDocumented, HaltRevealsStage, Boot!HaltRevealsStage

-----------------------------------------------------------------------------
(* The composition: the allocator waits for boot entry, and is handed the  *)
(* entries that Limine reported                                            *)

\* BootInfo as far as it has been filled in
CollectInv ==
  /\ loader \in Answers
  /\ DOMAIN regions = 1 .. MAX_MEMORY_REGIONS
  /\ boot_pc \in {"framebuffer", "ready", "init", "run"} =>
       \A k \in 1 .. MAX_MEMORY_REGIONS : k \in DOMAIN loader.map =>
         /\ regions[k].base = loader.map[k].base /\ regions[k].length = loader.map[k].length
         /\ regions[k].kind = "Usable" <=> loader.map[k].type = 0
  /\ boot_pc \in {"ready", "init", "run"} => entries = Len(loader.map)
  /\ boot_pc # "run" => Init /\ memory_map = <<>>
  /\ boot_pc = "run" => memory_map = Collected(loader.map)

BInv == StageInv /\ CollectInv /\ IInv

(* Only type 0 is classified as usable.                                    *)
LEMMA ClassifyUsable == \A type \in Nat : Boot!Classify(type) = "Usable" <=> type = 0
  BY SMTT(40) DEF Boot!Classify

(* Limine's map, its entries and its length.                               *)
LEMMA MapTyped ==
  ASSUME CollectInv
  PROVE  /\ Len(loader.map) \in Nat /\ DOMAIN loader.map = 1 .. Len(loader.map)
         /\ \A k \in DOMAIN loader.map :
              loader.map[k].base \in Nat /\ loader.map[k].length \in Nat /\ loader.map[k].type \in Nat
         /\ Collected(loader.map) \in MemoryMaps
<1>1. loader.map \in Seq(LimineEntry) /\ Collected(loader.map) \in MemoryMaps
  BY AnswersAssumption, Zenon DEF CollectInv, Answer
<1>2. \A k \in DOMAIN loader.map : loader.map[k] \in LimineEntry
  BY <1>1
<1> QED
  BY <1>1, <1>2, SMTT(40) DEF LimineEntry

(* The initial states.                                                     *)
LEMMA SInitInv == SInit => BInv
<1> SUFFICES ASSUME SInit PROVE BInv
  BY Zenon
<1>1. StageInv
  BY DEF SInit, Boot!Init, StageInv, Shown
<1>2. CollectInv
  BY ZenonT(40) DEF SInit, Boot!Init, CollectInv
<1> QED
  BY <1>1, <1>2, InitInv, ZenonT(40) DEF SInit, BInv

(* Once boot entry is done, the entries the allocator looks at are those   *)
(* that Limine reported, as many as fit, the usable ones marked.           *)
LEMMA BootInfoCollected ==
  ASSUME CollectInv, boot_pc = "init"
  PROVE  BootInfo = Collected(loader.map)
<1> DEFINE n == IF Len(loader.map) < MAX_MEMORY_REGIONS THEN Len(loader.map) ELSE MAX_MEMORY_REGIONS
<1>1. \A k \in 1 .. n : k \in 1 .. MAX_MEMORY_REGIONS /\ k \in DOMAIN loader.map
  BY MapTyped, SizeAssumption
<1>2. entries = Len(loader.map)
  BY ZenonT(40) DEF CollectInv
<1>3. \A k \in 1 .. n :
        [base |-> regions[k].base, length |-> regions[k].length, usable |-> regions[k].kind = "Usable"]
          = [base |-> loader.map[k].base, length |-> loader.map[k].length, usable |-> loader.map[k].type = 0]
  BY <1>1, Zenon DEF CollectInv
<1> QED
  BY <1>2, <1>3, Zenon DEF BootInfo, Collected

(* Boot entry fills in BootInfo, and the allocator starts from it.         *)
LEMMA CollectBoot == BInv /\ BootStep => CollectInv' /\ IInv'
<1> SUFFICES ASSUME BInv, BootStep PROVE CollectInv' /\ IInv'
  BY ZenonT(40)
<1> USE DEF BInv
<1>1. boot_pc # "run" /\ Init /\ memory_map = <<>>
  BY Zenon DEF BootStep, CollectInv, Boot!Next, Boot!Enter, Boot!RevisionSupported, Boot!RevisionRejected,
         Boot!CollectBootInfo, Boot!CollectHhdm, Boot!CollectMemoryMap, Boot!MapRegions, Boot!CollectFramebuffer,
         Boot!BootInfoReady, Boot!KernelInit
<1>2. CASE Boot!KernelInit
  <2>1. /\ boot_pc = "init" /\ boot_pc' = "run" /\ memory_map' = BootInfo
        /\ UNCHANGED <<loader, regions, entries>>
    BY <1>2, Zenon DEF BootStep, Boot!KernelInit
  <2>2. memory_map' = Collected(loader.map) /\ Collected(loader.map) \in MemoryMaps
    BY <2>1, BootInfoCollected, MapTyped, ZenonT(40)
  <2>3. Init'
    BY <1>1, <2>2, ZenonT(40) DEF BootStep, Init, counts, shared, local
  <2>4. CollectInv'
    BY <2>1, <2>2, Zenon DEF CollectInv
  <2>5. (Init => IInv)'
    BY InitInv, PTL
  <2> QED
    BY <2>3, <2>4, <2>5, Zenon
<1>3. CASE ~ Boot!KernelInit
  <2>1. boot_pc' # "run"
    BY <1>3, Zenon DEF BootStep, Boot!Next, Boot!Enter, Boot!RevisionSupported, Boot!RevisionRejected,
         Boot!CollectBootInfo, Boot!CollectHhdm, Boot!CollectMemoryMap, Boot!MapRegions, Boot!CollectFramebuffer,
         Boot!BootInfoReady, Boot!Panic
  <2>2. memory_map' = <<>> /\ Init'
    BY <1>1, <2>1, Zenon DEF BootStep, Init, counts, shared, local
  <2>3. (Init => IInv)'
    BY InitInv, PTL
  <2>4. CollectInv'
    <3>1. CASE Boot!MapRegions
      <4>1. /\ loader' = loader /\ boot_pc' = "framebuffer"
            /\ DOMAIN regions' = DOMAIN regions
            /\ \A k \in DOMAIN regions : k \in DOMAIN loader.map =>
                 regions'[k] = [base |-> loader.map[k].base, length |-> loader.map[k].length,
                                kind |-> Boot!Classify(loader.map[k].type)]
        BY <3>1, Zenon DEF Boot!MapRegions, Boot!MemoryRegion
      <4>2. ASSUME NEW k \in 1 .. MAX_MEMORY_REGIONS, k \in DOMAIN loader.map
            PROVE  /\ regions'[k].base = loader.map[k].base /\ regions'[k].length = loader.map[k].length
                   /\ regions'[k].kind = "Usable" <=> loader.map[k].type = 0
        <5>1. regions'[k] = [base |-> loader.map[k].base, length |-> loader.map[k].length,
                             kind |-> Boot!Classify(loader.map[k].type)]
          BY <4>1, <4>2, Zenon DEF CollectInv
        <5>2. loader.map[k].type \in Nat
          BY <4>2, MapTyped, ZenonT(40)
        <5>3. /\ regions'[k].base = loader.map[k].base /\ regions'[k].length = loader.map[k].length
              /\ regions'[k].kind = Boot!Classify(loader.map[k].type)
          BY ONLY <5>1, SMTT(60)
        <5>4. Boot!Classify(loader.map[k].type) = "Usable" <=> loader.map[k].type = 0
          BY <5>2, ClassifyUsable, Zenon
        <5> QED
          BY <5>3, <5>4, ZenonT(40)
      <4>3. loader' \in Answers /\ DOMAIN regions' = 1 .. MAX_MEMORY_REGIONS
        BY <4>1, Zenon DEF CollectInv
      <4> QED
        BY <2>1, <2>2, <4>1, <4>2, <4>3, ZenonT(40) DEF CollectInv
    <3>2. CASE Boot!CollectFramebuffer
      BY <1>1, <2>1, <2>2, <3>2, ZenonT(30) DEF CollectInv, Boot!CollectFramebuffer
    <3>3. CASE Boot!BootInfoReady
      BY <1>1, <2>1, <2>2, <3>3, ZenonT(40) DEF CollectInv, Boot!BootInfoReady
    <3>4. CASE /\ boot_pc' \in {"revision", "collect", "hhdm", "memmap", "regions", "halted"}
               /\ UNCHANGED <<loader, regions, entries>>
      BY <1>1, <2>1, <2>2, <3>4, ZenonT(40) DEF CollectInv
    <3> QED
      BY <1>3, <3>1, <3>2, <3>3, <3>4, ZenonT(40) DEF BootStep, Boot!Next, Boot!Enter, Boot!RevisionSupported,
         Boot!RevisionRejected, Boot!CollectBootInfo, Boot!CollectHhdm, Boot!CollectMemoryMap, Boot!Panic
  <2> QED
    BY <2>2, <2>3, <2>4, ZenonT(40)
<1> QED
  BY <1>2, <1>3, Zenon

(* Every step of the composition keeps the invariant.                      *)
LEMMA SInvNext == BInv /\ [SNext]_<<vars, bootvars>> => BInv'
<1> SUFFICES ASSUME BInv, [SNext]_<<vars, bootvars>> PROVE BInv'
  BY Zenon
<1>1. CASE BootStep
  BY <1>1, StageNext, CollectBoot, Zenon DEF BInv, BootStep
<1>2. CASE MemoryStep \/ UNCHANGED <<vars, bootvars>>
  <2>1. UNCHANGED bootvars /\ [Next]_vars
    BY <1>2, ZenonT(40) DEF MemoryStep
  <2>2. StageInv'
    <3>1. /\ boot_pc' = boot_pc /\ loader' = loader /\ log' = log /\ BOOT_STAGE' = BOOT_STAGE
      BY <2>1, Zenon DEF bootvars
    <3>2. \A n \in 0 .. 9 : Shown(n) => Shown(n)'
      BY <3>1, Zenon DEF Shown
    <3>3. HaltRevealsStage => HaltRevealsStage'
      BY <3>1, Zenon DEF HaltRevealsStage, Boot!HaltRevealsStage
    <3> QED
      BY <3>1, <3>2, <3>3, SMTT(40) DEF BInv, StageInv
  <2>3. memory_map' = memory_map
    BY <1>2, <2>1, ZenonT(40) DEF vars, table, Next, Initialize, SkipRegion, TakeRegion, EndLoop, StoreFrameCount, StoreRangeCount, CallOnce,
      Call, CallerStep, LoadRange, Exhausted, LoadFrame, Claim, ClaimLost, AdvanceLast, AdvanceWon, AdvanceLost, StoreStart
  <2>4. CollectInv'
    BY <1>2, <2>1, <2>3, ZenonT(40) DEF BInv, CollectInv, bootvars, MemoryStep, Init, vars, table, counts, shared, local
  <2> QED
    BY <2>1, <2>2, <2>4, InvNext, Zenon DEF BInv
<1> QED
  BY <1>1, <1>2, Zenon DEF SNext

(* The invariant holds throughout.                                         *)
LEMMA SInvariance == SSpec => []BInv
  BY SInitInv, SInvNext, PTL DEF SSpec

(* For every set of answers of Limine, the serial port shows the           *)
(* documented boot stages in order, and all before crate::run.             *)
THEOREM BootShowsStages == SSpec => []StagesAsDocumented
  BY SInvariance, StageInvSuffices, PTL DEF BInv

(* For every set of answers, the last label before a halt names the answer *)
(* that was missing.                                                       *)
THEOREM HaltsAreTellTale == SSpec => []HaltRevealsStage
  BY SInvariance, StageInvSuffices, PTL DEF BInv

(* Whatever map Limine reports and however callers race, a frame that is   *)
(* handed out lies inside one entry that Limine called usable.             *)
THEOREM FramesAreReported == SSpec => []FramesReported
<1>1. BInv => FramesReported
  <2> SUFFICES ASSUME BInv, NEW n \in DOMAIN granted
               PROVE  \E k \in DOMAIN loader.map :
                        /\ loader.map[k].type = 0
                        /\ loader.map[k].base <= granted[n]
                        /\ granted[n] + FRAME_SIZE <= loader.map[k].base + loader.map[k].length
    BY ZenonT(40) DEF FramesReported
  <2>1. CASE boot_pc # "run"
    <3>1. Init
      BY <2>1, Zenon DEF BInv, CollectInv
    <3>2. granted = <<>>
      BY <3>1, Zenon DEF Init
    <3> QED
      BY <3>2, SMTT(40)
  <2>2. CASE boot_pc = "run"
    <3>1. PICK k \in DOMAIN memory_map :
            /\ memory_map[k].usable
            /\ memory_map[k].base <= granted[n]
            /\ granted[n] + FRAME_SIZE <= End(memory_map[k])
      BY GrantsUsableInv, Zenon DEF BInv, GrantsUsable
    <3>2. /\ k \in DOMAIN loader.map /\ loader.map[k].type = 0
          /\ memory_map[k].base = loader.map[k].base /\ memory_map[k].length = loader.map[k].length
      <4>1. CollectInv /\ memory_map = Collected(loader.map)
        BY <2>2, Zenon DEF BInv, CollectInv
      <4>2. k \in 1 .. Len(loader.map)
        <5>1. DOMAIN memory_map = 1 .. (IF Len(loader.map) < MAX_MEMORY_REGIONS THEN Len(loader.map)
                                                                               ELSE MAX_MEMORY_REGIONS)
          BY <4>1, Zenon DEF Collected
        <5>2. Len(loader.map) \in Nat /\ MAX_MEMORY_REGIONS \in Nat
          BY <4>1, MapTyped, SizeAssumption, Zenon
        <5> QED
          BY <5>1, <5>2, SMTT(40)
      <4> QED
        BY <3>1, <4>1, <4>2, MapTyped, ZenonT(40) DEF Collected
    <3> QED
      BY <3>1, <3>2, Zenon DEF End
  <2> QED
    BY <2>1, <2>2, Zenon
<1> QED
  BY <1>1, SInvariance, PTL
=============================================================================
