----------------------------- MODULE VfsProofs ------------------------------
(***************************************************************************)
(* Proofs about Vfs for every initramfs, every set of paths and texts, and *)
(* every size of the slot table and of its buffers.                        *)
(*                                                                         *)
(* That the table implements the abstract overlay rests on one fact: no    *)
(* path is in two slots (UniquePaths).  It makes Overlay, the refinement   *)
(* mapping, a function of the path, and the number of slots in use the     *)
(* number of files.  It holds since `write` takes a free slot only for a   *)
(* path that no slot matches.                                              *)
(***************************************************************************)
EXTENDS Vfs, TLAPS, FiniteSetTheorems, WellFoundedInduction

(* The paths of the abstract overlay are those of the slot table: the two  *)
(* modules share VfsPaths, and so how a path is trimmed, ...               *)
LEMMA SameTrim == ASSUME NEW s PROVE Abstract!Trim(s) = Trim(s)
  BY Zenon DEF Abstract!Trim, Trim, Abstract!Space, Space

(* ... how it is normalised, ...                                           *)
LEMMA SameNormalized == ASSUME NEW path PROVE Abstract!Normalized(path) = Normalized(path)
  BY SameTrim, Zenon DEF Abstract!Normalized, Normalized, Abstract!Slash, Slash

(* ... which paths are refused, ...                                        *)
LEMMA SamePathError == ASSUME NEW path PROVE Abstract!PathError(path) = PathError(path)
  BY SameTrim, SameNormalized, Zenon DEF Abstract!PathError, PathError

(* ... which writes are refused, ...                                       *)
LEMMA SameWriteError == ASSUME NEW path, NEW text PROVE Abstract!WriteError(path, text) = WriteError(path, text)
  BY SamePathError, Zenon DEF Abstract!WriteError, WriteError

(* ... and what an answer looks like.                                      *)
LEMMA SameAnswer == /\ \A op, result : Abstract!Answer(op, result) = Answer(op, result)
                    /\ Abstract!None = None
  BY Zenon DEF Abstract!Answer, Answer, Abstract!None, None

(* The file count of the abstract overlay is the ordinary one.             *)
LEMMA SameCardinality == ASSUME NEW S PROVE Abstract!Cardinality(S) = Cardinality(S)
  BY Zenon DEF Abstract!Cardinality, Cardinality

-----------------------------------------------------------------------------
(* A set of naturals that is not empty has a least element.                *)
LEMMA Least ==
  ASSUME NEW S \in SUBSET Nat, S # {}
  PROVE  \E x \in S : \A y \in S : x <= y
<1> DEFINE R == OpToRel(<, Nat)
<1>1. IsWellFoundedOn(R, Nat)
  BY NatLessThanWellFounded, Zenon
<1>2. \A x, y \in Nat : <<y, x>> \in R <=> y < x
  BY Zenon DEF OpToRel
<1> HIDE DEF R
<1>3. PICK x \in S : \A y \in S : ~ (<<y, x>> \in R)
  BY <1>1, WFMin, Zenon
<1>4. x \in Nat /\ \A y \in S : y \in Nat
  BY Zenon
<1>5. \A y \in S : ~ (y < x)
  BY <1>2, <1>3, <1>4, Zenon
<1> QED
  BY <1>4, <1>5

(* A bounded set of naturals that is not empty has a greatest element.     *)
LEMMA Greatest ==
  ASSUME NEW n \in Nat, NEW S \in SUBSET (0 .. n), S # {}
  PROVE  \E x \in S : \A y \in S : y <= x
<1> DEFINE T == {n - x : x \in S}
<1>0. \A x \in S : n - x \in Nat
  OBVIOUS
<1>1. T \in SUBSET Nat /\ T # {}
  BY <1>0, Zenon
<1>2. PICK t \in T : \A u \in T : t <= u
  BY <1>1, Least, Zenon
<1>3. PICK x \in S : t = n - x
  BY Zenon
<1>4. ASSUME NEW y \in S PROVE y <= x
  <2>1. t <= n - y
    BY <1>2, Zenon
  <2> QED
    BY <2>1, <1>3
<1> QED
  BY <1>4, Zenon

(* str::trim returns characters of its argument only.                      *)
LEMMA TrimType ==
  ASSUME NEW s \in Seq(Chars)
  PROVE  Trim(s) \in Seq(Chars)
<1> DEFINE solid == {k \in DOMAIN s : s[k] # Space}
           first == CHOOSE k \in solid : \A j \in solid : k <= j
           last  == CHOOSE k \in solid : \A j \in solid : j <= k
<1>1. CASE solid = {}
  BY <1>1 DEF Trim
<1>2. CASE solid # {}
  <2>1. PICK n \in Nat : Len(s) = n /\ DOMAIN s = 1 .. n
    OBVIOUS
  <2>2. solid \in SUBSET Nat /\ solid \in SUBSET (0 .. n)
    BY <2>1
  <2>3. \E k \in solid : \A j \in solid : k <= j
    BY <2>2, <1>2, Least, Zenon
  <2>4. \E k \in solid : \A j \in solid : j <= k
    BY <2>2, <1>2, Greatest, Zenon
  <2>5. first \in solid /\ last \in solid
    BY <2>3, <2>4, Zenon
  <2>6. Trim(s) = SubSeq(s, first, last)
    BY <1>2, Zenon DEF Trim
  <2>7. first \in 1 .. Len(s) /\ last \in 1 .. Len(s)
    BY <2>5, <2>1, Zenon
  <2> HIDE DEF first, last
  <2>8. SubSeq(s, first, last) \in Seq(Chars)
    BY <2>7
  <2> QED
    BY <2>6, <2>8, Zenon
<1> QED
  BY <1>1, <1>2, Zenon

(* normalize_path returns characters of its argument only.                 *)
LEMMA NormalizedType ==
  ASSUME NEW path \in Seq(Chars)
  PROVE  Normalized(path) \in Seq(Chars)
<1>1. Trim(path) \in Seq(Chars)
  BY TrimType, Zenon
<1>2. Slash \in Chars
  BY VfsAssumption, Zenon
<1> QED
  BY <1>1, <1>2 DEF Normalized

(* A path that normalize_path accepts fits in a slot's path buffer.        *)
LEMMA AcceptedPath ==
  ASSUME NEW path \in Paths, PathError(path) = "none"
  PROVE  Normalized(path) \in Seq(Chars) /\ Len(Normalized(path)) <= MAX_PATH_LEN
<1>1. Normalized(path) \in Seq(Chars)
  BY NormalizedType, VfsAssumption, Zenon
<1>2. ~ (Len(Normalized(path)) > MAX_PATH_LEN)
  BY Zenon DEF PathError
<1> QED
  BY <1>1, <1>2, VfsAssumption

(* A write that passes both checks has a path that fits, and contents that *)
(* fit in a slot's buffer.                                                 *)
LEMMA AcceptedWrite ==
  ASSUME NEW path \in Paths, NEW text \in Texts, WriteError(path, text) = "none"
  PROVE  /\ PathError(path) = "none"
         /\ text \in Seq(Chars) /\ Len(text) <= MAX_CONTENT_LEN
<1>1. text \in Seq(Chars)
  BY VfsAssumption, Zenon
<1>2. PathError(path) = "none" /\ ~ (Len(text) > MAX_CONTENT_LEN)
  BY Zenon DEF WriteError
<1> QED
  BY <1>1, <1>2, VfsAssumption

-----------------------------------------------------------------------------
\* A byte array of a slot
Buffer(n) == [1 .. n -> Chars \cup {NUL}]

\* What TypeOK says of one slot
SlotOK(slot) ==
  /\ slot.path_len \in 0 .. MAX_PATH_LEN
  /\ slot.contents_len \in 0 .. MAX_CONTENT_LEN
  /\ slot.path \in Buffer(MAX_PATH_LEN)
  /\ slot.contents \in Buffer(MAX_CONTENT_LEN)
  /\ ~ slot.used => slot = EMPTY

(* The type invariant, slot by slot.                                       *)
LEMMA TypeIs == TypeOK <=> DOMAIN slots = Slots /\ \A i \in Slots : SlotOK(slots[i])
  BY Zenon DEF TypeOK, SlotOK, Buffer

(* The used part of a buffer is as long as its recorded length.            *)
LEMMA PrefixType ==
  ASSUME NEW n \in Nat, NEW length \in 0 .. n, NEW buffer \in Buffer(n)
  PROVE  /\ Prefix(buffer, length) \in Seq(Chars \cup {NUL})
         /\ Len(Prefix(buffer, length)) = length
  BY DEF Prefix, Buffer

(* copy_from_slice into the front of a buffer leaves a buffer of the same  *)
(* size.                                                                   *)
LEMMA CopyType ==
  ASSUME NEW n \in Nat, NEW buffer \in Buffer(n), NEW text \in Seq(Chars), Len(text) <= n
  PROVE  CopyInto(buffer, text) \in Buffer(n)
<1>1. \A k \in 1 .. n : k <= Len(text) => text[k] \in Chars
  OBVIOUS
<1> QED
  BY <1>1, Zenon DEF CopyInto, Buffer

(* The bytes that were copied are read back, whatever the buffer held      *)
(* before.                                                                 *)
LEMMA CopyShows ==
  ASSUME NEW n \in Nat, NEW buffer \in Buffer(n), NEW text \in Seq(Chars), Len(text) <= n
  PROVE  Prefix(CopyInto(buffer, text), Len(text)) = text
<1>1. \A k \in 1 .. Len(text) : CopyInto(buffer, text)[k] = text[k]
  BY DEF CopyInto, Buffer
<1> QED
  BY <1>1 DEF Prefix

(* OverlayFile::EMPTY is a slot, and it is free.                           *)
LEMMA EmptyOK == SlotOK(EMPTY) /\ EMPTY.used = FALSE
  BY VfsAssumption DEF SlotOK, EMPTY, Buffer

(* A slot that `write` has filled shows the path and the contents it was   *)
(* given, although neither buffer is cleared.                              *)
LEMMA WrittenIs ==
  ASSUME NEW slot, SlotOK(slot), NEW p \in Seq(Chars), Len(p) <= MAX_PATH_LEN,
         NEW text \in Seq(Chars), Len(text) <= MAX_CONTENT_LEN
  PROVE  LET new == Written(slot, p, text)
         IN  SlotOK(new) /\ new.used /\ PathOf(new) = p /\ TextOf(new) = text
<1> DEFINE new == Written(slot, p, text)
<1>1. /\ CopyInto(slot.path, p) \in Buffer(MAX_PATH_LEN)
      /\ CopyInto(slot.contents, text) \in Buffer(MAX_CONTENT_LEN)
  BY CopyType, VfsAssumption, Zenon DEF SlotOK
<1>2. /\ Prefix(CopyInto(slot.path, p), Len(p)) = p
      /\ Prefix(CopyInto(slot.contents, text), Len(text)) = text
  BY CopyShows, VfsAssumption, Zenon DEF SlotOK
<1>3. /\ new.used = TRUE
      /\ new.path_len = Len(p) /\ new.path = CopyInto(slot.path, p)
      /\ new.contents_len = Len(text) /\ new.contents = CopyInto(slot.contents, text)
  BY Zenon DEF Written
<1>4. Len(p) \in 0 .. MAX_PATH_LEN /\ Len(text) \in 0 .. MAX_CONTENT_LEN
  BY VfsAssumption
<1>5. SlotOK(new)
  BY <1>1, <1>3, <1>4, Zenon DEF SlotOK
<1>6. PathOf(new) = p /\ TextOf(new) = text
  BY <1>2, <1>3, Zenon DEF PathOf, TextOf
<1> QED
  BY <1>3, <1>5, <1>6, Zenon

(* A slot matches a path exactly if it is in use and shows that path; the  *)
(* comparison of lengths first does not change that.                       *)
LEMMA MatchesIs ==
  ASSUME NEW slot, SlotOK(slot), NEW p
  PROVE  Matches(slot, p) <=> slot.used /\ PathOf(slot) = p
<1>1. Len(PathOf(slot)) = slot.path_len
  BY PrefixType, VfsAssumption, Zenon DEF SlotOK, PathOf
<1> QED
  BY <1>1, Zenon DEF Matches

-----------------------------------------------------------------------------
\* No path is in two slots.
UniquePaths == \A i, j \in Used : PathOf(slots[i]) = PathOf(slots[j]) => i = j

\* The inductive invariant
IInv == TypeOK /\ UniquePaths

(* The same, of every slot of the table.                                   *)
LEMMA MatchIs ==
  ASSUME TypeOK
  PROVE  \A i \in Slots : \A p : Matches(slots[i], p) <=> i \in Used /\ PathOf(slots[i]) = p
  BY TypeIs, MatchesIs, Zenon DEF Used

(* The table starts out empty.                                             *)
LEMMA InitInv == Init => IInv
<1> SUFFICES ASSUME Init PROVE IInv
  BY Zenon
<1>1. DOMAIN slots = Slots /\ \A i \in Slots : slots[i] = EMPTY
  BY Zenon DEF Init
<1>2. TypeOK
  BY <1>1, EmptyOK, TypeIs, Zenon
<1>3. Used = {}
  BY <1>1, EmptyOK, Zenon DEF Used
<1> QED
  BY <1>2, <1>3, Zenon DEF IInv, UniquePaths

(* Writing to the slot that matches the path, or to a free one if none     *)
(* does, keeps the invariant and disturbs no other slot.                   *)
LEMMA WriteKeeps ==
  ASSUME IInv, NEW path \in Paths, NEW text \in Texts, WriteError(path, text) = "none",
         NEW i \in Slots, Target(i, Normalized(path)),
         slots' = [slots EXCEPT ![i] = Written(@, Normalized(path), text)]
  PROVE  /\ IInv'
         /\ Used' = Used \cup {i}
         /\ PathOf(slots'[i]) = Normalized(path) /\ TextOf(slots'[i]) = text
         /\ \A j \in Used \ {i} : slots'[j] = slots[j] /\ PathOf(slots[j]) # Normalized(path)
         /\ i \in Used => PathOf(slots[i]) = Normalized(path)
<1> DEFINE p == Normalized(path)
           new == Written(slots[i], p, text)
<1>1. /\ p \in Seq(Chars) /\ Len(p) <= MAX_PATH_LEN
      /\ text \in Seq(Chars) /\ Len(text) <= MAX_CONTENT_LEN
  BY AcceptedWrite, AcceptedPath, Zenon
<1>2. DOMAIN slots = Slots /\ \A j \in Slots : SlotOK(slots[j])
  BY TypeIs, Zenon DEF IInv
<1>3. SlotOK(new) /\ new.used /\ PathOf(new) = p /\ TextOf(new) = text
  BY <1>1, <1>2, WrittenIs, Zenon
<1>4. /\ DOMAIN slots' = Slots /\ slots'[i] = new
      /\ \A j \in Slots \ {i} : slots'[j] = slots[j]
  BY <1>2, Zenon
<1> HIDE DEF new, p
<1>5. TypeOK'
  <2>1. \A j \in Slots : SlotOK(slots'[j])
    BY <1>2, <1>3, <1>4, Zenon
  <2>2. DOMAIN slots' = Slots
    BY <1>4, Zenon
  <2> QED
    BY <2>1, <2>2, Zenon DEF TypeOK, Slots, SlotOK, EMPTY, Buffer
<1>6. Used' = Used \cup {i}
  BY <1>3, <1>4, Zenon DEF Used, Slots
<1>7. \A j \in Slots : Matches(slots[j], p) <=> j \in Used /\ PathOf(slots[j]) = p
  BY MatchIs, Zenon DEF IInv
<1>8. /\ i \in Used => PathOf(slots[i]) = p
      /\ \A j \in Used \ {i} : PathOf(slots[j]) # p
  <2>1. Target(i, p)
    BY Zenon DEF p
  <2>2. \/ Matches(slots[i], p)
        \/ (\A j \in Slots : ~ Matches(slots[j], p)) /\ ~ slots[i].used
    BY <2>1, Zenon DEF Target, IsFirst
  <2>3. CASE Matches(slots[i], p)
    BY <2>3, <1>7, Zenon DEF IInv, UniquePaths, Used
  <2>4. CASE (\A j \in Slots : ~ Matches(slots[j], p)) /\ ~ slots[i].used
    BY <2>4, <1>7, Zenon DEF Used
  <2> QED
    BY <2>2, <2>3, <2>4, Zenon
<1>9. UniquePaths'
  <2>1. \A j \in Used \ {i} : slots'[j] = slots[j]
    BY <1>4, Zenon DEF Used
  <2> SUFFICES ASSUME NEW j \in Used \cup {i}, NEW k \in Used \cup {i},
                      PathOf(slots'[j]) = PathOf(slots'[k])
               PROVE  j = k
    BY <1>6, Zenon DEF UniquePaths, PathOf, Prefix
  <2>2. \A m \in Used \ {i} : PathOf(slots'[m]) = PathOf(slots[m])
    BY <2>1, Zenon
  <2>3. PathOf(slots'[i]) = p
    BY <1>3, <1>4, Zenon
  <2> QED
    BY <2>2, <2>3, <1>8, Zenon DEF IInv, UniquePaths
<1> QED
  BY <1>3, <1>4, <1>5, <1>6, <1>8, <1>9, Zenon DEF IInv, Used, p

(* Emptying a slot keeps the invariant, and disturbs no other slot.        *)
LEMMA RemoveKeeps ==
  ASSUME IInv, NEW i \in Slots, slots' = [slots EXCEPT ![i] = EMPTY]
  PROVE  /\ IInv'
         /\ Used' = Used \ {i}
         /\ \A j \in Used \ {i} : slots'[j] = slots[j]
<1>2. DOMAIN slots = Slots /\ \A j \in Slots : SlotOK(slots[j])
  BY TypeIs, Zenon DEF IInv
<1>3. SlotOK(EMPTY) /\ ~ EMPTY.used
  BY EmptyOK, Zenon
<1>4. /\ DOMAIN slots' = Slots /\ slots'[i] = EMPTY
      /\ \A j \in Slots \ {i} : slots'[j] = slots[j]
  BY <1>2, Zenon
<1>5. TypeOK'
  <2>1. \A j \in Slots : SlotOK(slots'[j])
    BY <1>2, <1>3, <1>4, Zenon
  <2>2. DOMAIN slots' = Slots
    BY <1>4, Zenon
  <2> QED
    BY <2>1, <2>2, Zenon DEF TypeOK, Slots, SlotOK, EMPTY, Buffer
<1>6. Used' = Used \ {i}
  BY <1>3, <1>4, Zenon DEF Used, Slots
<1>7. \A j \in Used \ {i} : slots'[j] = slots[j]
  BY <1>4, Zenon DEF Used
<1>8. UniquePaths'
  <2> SUFFICES ASSUME NEW j \in Used \ {i}, NEW k \in Used \ {i},
                      PathOf(slots'[j]) = PathOf(slots'[k])
               PROVE  j = k
    BY <1>6, Zenon DEF UniquePaths, PathOf, Prefix
  <2> QED
    BY <1>7, Zenon DEF IInv, UniquePaths
<1> QED
  BY <1>5, <1>6, <1>7, <1>8, Zenon DEF IInv

(* An operation that leaves the table alone keeps the invariant and the    *)
(* overlay.                                                                *)
LEMMA UnchangedKeeps ==
  ASSUME IInv, UNCHANGED slots
  PROVE  IInv' /\ Overlay' = Overlay
  BY DEF IInv, TypeOK, UniquePaths, Overlay, Used, Slots, EMPTY, Matches, PathOf, TextOf, Prefix

(* Every operation keeps the invariant.                                    *)
LEMMA StepInv == IInv /\ [Next]_vars => IInv'
<1> SUFFICES ASSUME IInv, [Next]_vars PROVE IInv'
  BY Zenon
<1>1. CASE \E path \in Paths, text \in Texts : WriteOk(path, text)
  BY <1>1, WriteKeeps, Zenon DEF WriteOk
<1>2. CASE \E path \in Paths : RemoveOk(path)
  BY <1>2, RemoveKeeps, ZenonT(40) DEF RemoveOk
<1>3. CASE UNCHANGED slots
  BY <1>3, UnchangedKeeps, Zenon
<1> QED
  BY <1>1, <1>2, <1>3, Zenon DEF Next, vars, WriteRefused, WriteNoSpace, RemoveRefused, ReadOverlay, ReadInitramfs,
                          Exists, ForEachEntry

(* The invariant holds throughout.                                         *)
LEMMA Invariance == Spec => []IInv
<1>1. IInv /\ [Next]_vars => IInv'
  BY StepInv, Zenon
<1> QED
  BY <1>1, InitInv, PTL DEF Spec

(* No path is ever in two slots, for every set of paths and texts, every   *)
(* size of the table and of its buffers, and every initramfs.              *)
THEOREM PathsUnique == Spec => []UniquePaths
<1>1. IInv => UniquePaths
  BY Zenon DEF IInv
<1> QED
  BY <1>1, Invariance, PTL

(* Every slot keeps its type: the recorded lengths of a path and of        *)
(* contents never exceed the buffers they are about.                       *)
THEOREM TypeCorrect == Spec => []TypeOK
<1>1. IInv => TypeOK
  BY Zenon DEF IInv
<1> QED
  BY <1>1, Invariance, PTL

-----------------------------------------------------------------------------
\* The overlay is a function that gives each path in use its slot's contents.
OverlayShows ==
  /\ DOMAIN Overlay = {PathOf(slots[i]) : i \in Used}
  /\ Overlay = [p \in DOMAIN Overlay |-> Overlay[p]]
  /\ \A i \in Used : Overlay[PathOf(slots[i])] = TextOf(slots[i])

(* The overlay is well defined: with no path in two slots, it gives each   *)
(* path in use the contents of its slot.                                   *)
LEMMA OverlayIs == IInv => OverlayShows
<1> SUFFICES ASSUME IInv PROVE OverlayShows
  BY Zenon
<1>1. /\ DOMAIN Overlay = {PathOf(slots[i]) : i \in Used}
      /\ Overlay = [p \in DOMAIN Overlay |-> Overlay[p]]
  BY DEF Overlay
<1>2. ASSUME NEW i \in Used
      PROVE  Overlay[PathOf(slots[i])] = TextOf(slots[i])
  <2> DEFINE p == PathOf(slots[i])
             c == CHOOSE j \in Slots : Matches(slots[j], p)
  <2>1. i \in Slots
    BY Zenon DEF Used
  <2>2. Matches(slots[i], p)
    BY <2>1, MatchIs, Zenon DEF IInv
  <2>3. c \in Slots /\ Matches(slots[c], p)
    BY <2>1, <2>2, Zenon
  <2> HIDE DEF c
  <2>4. c \in Used /\ PathOf(slots[c]) = p
    BY <2>3, MatchIs, Zenon DEF IInv
  <2>5. c = i
    BY <2>4, Zenon DEF IInv, UniquePaths
  <2>6. Overlay[p] = TextOf(slots[c])
    BY Zenon DEF Overlay, c
  <2> QED
    BY <2>5, <2>6, Zenon
<1> QED
  BY <1>1, <1>2, Zenon DEF OverlayShows

(* A slot matches exactly the paths of the overlay.                        *)
LEMMA InOverlayIs ==
  ASSUME IInv
  PROVE  \A p : InOverlay(p) <=> p \in DOMAIN Overlay
<1>1. \A i \in Slots : \A p : Matches(slots[i], p) <=> i \in Used /\ PathOf(slots[i]) = p
  BY MatchIs, Zenon DEF IInv
<1>2. DOMAIN Overlay = {PathOf(slots[i]) : i \in Used}
  BY OverlayIs, Zenon DEF OverlayShows
<1> QED
  BY <1>1, <1>2, Zenon DEF InOverlay, Used

(* The overlay holds fewer files than its limit exactly if `write` finds a *)
(* free slot: no slot is lost.                                             *)
LEMMA Capacity ==
  ASSUME IInv
  PROVE  Cardinality(DOMAIN Overlay) < MAX_OVERLAY_FILES <=> Used # Slots
<1> DEFINE f == [i \in Used |-> PathOf(slots[i])]
           T == DOMAIN Overlay
<1>1. T = {PathOf(slots[i]) : i \in Used}
  BY OverlayIs, Zenon DEF OverlayShows
<1>2. IsFiniteSet(Slots) /\ Cardinality(Slots) = MAX_OVERLAY_FILES
  <2>1. /\ IsFiniteSet(1 .. MAX_OVERLAY_FILES)
        /\ Cardinality(1 .. MAX_OVERLAY_FILES) =
             IF 1 > MAX_OVERLAY_FILES THEN 0 ELSE MAX_OVERLAY_FILES - 1 + 1
    <3>1. 1 \in Int /\ MAX_OVERLAY_FILES \in Int
      BY VfsAssumption
    <3> QED
      BY <3>1, FS_Interval, Zenon
  <2> QED
    BY <2>1, VfsAssumption DEF Slots
<1>3. Used \in SUBSET Slots
  BY Zenon DEF Used
<1>4. /\ IsFiniteSet(Used) /\ Cardinality(Used) <= MAX_OVERLAY_FILES
      /\ Cardinality(Used) = MAX_OVERLAY_FILES => Used = Slots
  BY <1>2, <1>3, FS_Subset, Zenon
<1>5. f \in Surjection(Used, T)
  BY <1>1, Zenon DEF Surjection
<1>6. f \in Injection(Used, T)
  <2>1. f \in [Used -> T] /\ \A i \in Used : f[i] = PathOf(slots[i])
    BY <1>1, Zenon
  <2>2. \A i, j \in Used : f[i] = f[j] => i = j
    BY <2>1, Zenon DEF IInv, UniquePaths
  <2> HIDE DEF f
  <2> QED
    BY <2>1, <2>2, Zenon DEF Injection, IsInjective
<1>7. Cardinality(T) = Cardinality(Used)
  BY <1>4, <1>5, <1>6, FS_Surjection, Zenon
<1>8. Cardinality(Used) \in Nat
  BY <1>4, FS_CardinalityType, Zenon
<1> QED
  BY <1>2, <1>4, <1>7, <1>8, VfsAssumption

(* A write to the table is the write of one file of the overlay.           *)
LEMMA WriteMaps ==
  ASSUME IInv, NEW path \in Paths, NEW text \in Texts, WriteError(path, text) = "none",
         NEW i \in Slots, Target(i, Normalized(path)),
         slots' = [slots EXCEPT ![i] = Written(@, Normalized(path), text)]
  PROVE  Overlay' = [q \in DOMAIN Overlay \cup {Normalized(path)} |->
                       IF q = Normalized(path) THEN text ELSE Overlay[q]]
<1> DEFINE p == Normalized(path)
           M == [q \in DOMAIN Overlay \cup {p} |-> IF q = p THEN text ELSE Overlay[q]]
<1>1. /\ IInv'
      /\ Used' = Used \cup {i}
      /\ PathOf(slots'[i]) = p /\ TextOf(slots'[i]) = text
      /\ \A j \in Used \ {i} : slots'[j] = slots[j] /\ PathOf(slots[j]) # p
      /\ i \in Used => PathOf(slots[i]) = p
  BY WriteKeeps, ZenonT(40)
<1>2. /\ DOMAIN Overlay = {PathOf(slots[j]) : j \in Used}
      /\ \A j \in Used : Overlay[PathOf(slots[j])] = TextOf(slots[j])
  BY OverlayIs, Zenon DEF OverlayShows
<1>3. /\ DOMAIN Overlay' = {PathOf(slots'[j]) : j \in Used'}
      /\ Overlay' = [q \in DOMAIN Overlay' |-> Overlay'[q]]
      /\ \A j \in Used' : Overlay'[PathOf(slots'[j])] = TextOf(slots'[j])
  <2>1. (IInv => OverlayShows)'
    BY OverlayIs, PTL
  <2> QED
    BY <1>1, <2>1, Zenon DEF OverlayShows, PathOf, TextOf, Prefix
<1>4. DOMAIN Overlay' = DOMAIN Overlay \cup {p}
  BY <1>1, <1>2, <1>3
<1>5. ASSUME NEW q \in DOMAIN Overlay \cup {p}
      PROVE  Overlay'[q] = IF q = p THEN text ELSE Overlay[q]
  <2>1. CASE q = p
    BY <2>1, <1>1, <1>3, Zenon
  <2>2. CASE q # p
    <3>1. PICK j \in Used : PathOf(slots[j]) = q
      BY <2>2, <1>2, Zenon
    <3>2. j # i /\ slots'[j] = slots[j] /\ j \in Used'
      BY <3>1, <2>2, <1>1, Zenon
    <3>3. Overlay'[PathOf(slots'[j])] = TextOf(slots'[j]) /\ Overlay[PathOf(slots[j])] = TextOf(slots[j])
      BY <3>2, <1>2, <1>3, Zenon
    <3> QED
      BY <3>1, <3>2, <3>3, <2>2, Zenon
  <2> QED
    BY <2>1, <2>2, Zenon
<1> HIDE DEF p
<1>6. Overlay' = M
  BY <1>3, <1>4, <1>5, Zenon
<1> QED
  BY <1>6, Zenon DEF p

(* Emptying a slot is the removal of one file of the overlay.              *)
LEMMA RemoveMaps ==
  ASSUME IInv, NEW p, NEW i \in Slots, Matches(slots[i], p), slots' = [slots EXCEPT ![i] = EMPTY]
  PROVE  /\ p \in DOMAIN Overlay
         /\ Overlay' = [q \in DOMAIN Overlay \ {p} |-> Overlay[q]]
<1>1. IInv' /\ Used' = Used \ {i} /\ \A j \in Used \ {i} : slots'[j] = slots[j]
  BY RemoveKeeps, Zenon
<1>2. /\ DOMAIN Overlay = {PathOf(slots[j]) : j \in Used}
      /\ \A j \in Used : Overlay[PathOf(slots[j])] = TextOf(slots[j])
  BY OverlayIs, Zenon DEF OverlayShows
<1>3. /\ DOMAIN Overlay' = {PathOf(slots'[j]) : j \in Used'}
      /\ Overlay' = [q \in DOMAIN Overlay' |-> Overlay'[q]]
      /\ \A j \in Used' : Overlay'[PathOf(slots'[j])] = TextOf(slots'[j])
  <2>1. (IInv => OverlayShows)'
    BY OverlayIs, PTL
  <2> QED
    BY <1>1, <2>1, Zenon DEF OverlayShows, PathOf, TextOf, Prefix
<1>4. i \in Used /\ PathOf(slots[i]) = p
  BY MatchIs, Zenon DEF IInv
<1>5. \A j \in Used \ {i} : PathOf(slots[j]) # p
  BY <1>4, Zenon DEF IInv, UniquePaths
<1>6. p \in DOMAIN Overlay /\ DOMAIN Overlay' = DOMAIN Overlay \ {p}
  BY <1>1, <1>2, <1>3, <1>4, <1>5, SMTT(40)
<1>7. ASSUME NEW q \in DOMAIN Overlay \ {p}
      PROVE  Overlay'[q] = Overlay[q]
  <2>1. PICK j \in Used : PathOf(slots[j]) = q
    BY <1>2, Zenon
  <2>2. j # i /\ slots'[j] = slots[j] /\ j \in Used'
    BY <2>1, <1>1, <1>4, Zenon
  <2>3. Overlay'[PathOf(slots'[j])] = TextOf(slots'[j]) /\ Overlay[PathOf(slots[j])] = TextOf(slots[j])
    BY <2>2, <1>2, <1>3, Zenon
  <2> QED
    BY <2>1, <2>2, <2>3, Zenon
<1> QED
  BY <1>3, <1>6, <1>7, Zenon

-----------------------------------------------------------------------------
(* Contents, even empty ones, are not mistaken for a missing file.         *)
LEMMA NotNone ==
  ASSUME NEW s \in Seq(Chars \cup {NUL})
  PROVE  s # None
<1>1. "None" \notin Chars \cup {NUL}
  BY VfsAssumption, Zenon DEF NUL
<1> QED
  BY <1>1, SMTT(40) DEF None

(* The contents of a path are the slot's if there is one, else the         *)
(* initramfs's.                                                            *)
LEMMA ContentsIs ==
  ASSUME IInv, NEW p
  PROVE  /\ \A i \in Slots : Matches(slots[i], p) => Abstract!Contents(p) = TextOf(slots[i])
         /\ ~ InOverlay(p) => Abstract!Contents(p) = IF p \in DOMAIN Initramfs THEN Initramfs[p] ELSE None
         /\ Abstract!Contents(p) # None <=> InOverlay(p) \/ p \in DOMAIN Initramfs
<1>1. InOverlay(p) <=> p \in DOMAIN Overlay
  BY InOverlayIs, Zenon
<1>2. Abstract!Contents(p) = IF p \in DOMAIN Overlay THEN Overlay[p]
                             ELSE IF p \in DOMAIN Initramfs THEN Initramfs[p] ELSE None
  BY SameAnswer, Zenon DEF Abstract!Contents
<1>3. ASSUME NEW i \in Slots, Matches(slots[i], p)
      PROVE  Abstract!Contents(p) = TextOf(slots[i]) /\ TextOf(slots[i]) # None
  <2>1. i \in Used /\ PathOf(slots[i]) = p
    BY <1>3, MatchIs, Zenon DEF IInv
  <2>2. p \in DOMAIN Overlay /\ Overlay[p] = TextOf(slots[i])
    BY <2>1, OverlayIs, Zenon DEF OverlayShows
  <2>3. TextOf(slots[i]) \in Seq(Chars \cup {NUL})
    BY PrefixType, VfsAssumption, Zenon DEF IInv, TypeOK, TextOf, Buffer
  <2> QED
    BY <2>2, <2>3, <1>2, NotNone, Zenon
<1>4. p \in DOMAIN Initramfs => Initramfs[p] # None
  <2>1. p \in DOMAIN Initramfs => Initramfs[p] \in Seq(Chars \cup {NUL})
    BY VfsAssumption
  <2> QED
    BY <2>1, NotNone, Zenon
<1>5. InOverlay(p) => \E i \in Slots : Matches(slots[i], p)
  BY Zenon DEF InOverlay
<1> QED
  BY <1>1, <1>2, <1>3, <1>4, <1>5, Zenon

(* `write`, accepted, refused or out of space, is the abstract write.      *)
LEMMA WriteRefines ==
  ASSUME IInv, NEW path \in Paths, NEW text \in Texts,
         WriteRefused(path, text) \/ WriteOk(path, text) \/ WriteNoSpace(path, text)
  PROVE  Abstract!Write(path, text)
<1> DEFINE p == Normalized(path)
           fits == p \in DOMAIN Overlay \/ Cardinality(DOMAIN Overlay) < MAX_OVERLAY_FILES
<1>0. Abstract!Write(path, text) <=>
        \/ /\ WriteError(path, text) # "none"
           /\ reply' = Answer("write", WriteError(path, text)) /\ Overlay' = Overlay
        \/ /\ WriteError(path, text) = "none" /\ fits
           /\ Overlay' = [q \in DOMAIN Overlay \cup {p} |-> IF q = p THEN text ELSE Overlay[q]]
           /\ reply' = Answer("write", "Ok")
        \/ /\ WriteError(path, text) = "none" /\ ~ fits
           /\ reply' = Answer("write", "NoSpace") /\ Overlay' = Overlay
  BY SameNormalized, SameWriteError, SameAnswer, SameCardinality, Zenon DEF Abstract!Write, Abstract!Refuse
<1>1. fits <=> InOverlay(p) \/ Used # Slots
  BY InOverlayIs, Capacity, Zenon
<1> HIDE DEF fits, p
<1>2. CASE WriteRefused(path, text)
  BY <1>2, <1>0, UnchangedKeeps, Zenon DEF WriteRefused, Respond
<1>3. CASE WriteOk(path, text)
  <2>1. PICK i \in Slots : /\ Target(i, p)
                           /\ slots' = [slots EXCEPT ![i] = Written(@, p, text)]
    BY <1>3, Zenon DEF WriteOk, p
  <2>2. WriteError(path, text) = "none" /\ reply' = Answer("write", "Ok")
    BY <1>3, Zenon DEF WriteOk, Respond
  <2>3. Overlay' = [q \in DOMAIN Overlay \cup {p} |-> IF q = p THEN text ELSE Overlay[q]]
    BY <2>1, <2>2, WriteMaps, ZenonT(40) DEF p
  <2>4. InOverlay(p) \/ Used # Slots
    BY <2>1, Zenon DEF Target, IsFirst, InOverlay, Used
  <2> QED
    BY <1>0, <1>1, <2>2, <2>3, <2>4, Zenon
<1>4. CASE WriteNoSpace(path, text)
  <2>1. Used = Slots /\ ~ InOverlay(p)
    BY <1>4, Zenon DEF WriteNoSpace, Used, InOverlay, p
  <2>2. WriteError(path, text) = "none" /\ reply' = Answer("write", "NoSpace") /\ Overlay' = Overlay
    BY <1>4, UnchangedKeeps, Zenon DEF WriteNoSpace, Respond
  <2> QED
    BY <1>0, <1>1, <2>1, <2>2, Zenon
<1> QED
  BY <1>2, <1>3, <1>4, Zenon

(* `remove` is the abstract removal, with the same error where it is       *)
(* refused.                                                                *)
LEMMA RemoveRefines ==
  ASSUME IInv, NEW path \in Paths, RemoveOk(path) \/ RemoveRefused(path)
  PROVE  Abstract!Remove(path)
<1> DEFINE p == Normalized(path)
<1>0. Abstract!Remove(path) <=>
        \/ /\ PathError(path) # "none"
           /\ reply' = Answer("remove", PathError(path)) /\ Overlay' = Overlay
        \/ /\ PathError(path) = "none" /\ p \in DOMAIN Overlay
           /\ Overlay' = [q \in DOMAIN Overlay \ {p} |-> Overlay[q]]
           /\ reply' = Answer("remove", "Ok")
        \/ /\ PathError(path) = "none" /\ p \notin DOMAIN Overlay
           /\ reply' = Answer("remove", IF p \in DOMAIN Initramfs THEN "ReadOnly" ELSE "NotFound")
           /\ Overlay' = Overlay
  BY SameNormalized, SamePathError, SameAnswer, Zenon DEF Abstract!Remove, Abstract!Refuse
<1>1. InOverlay(p) <=> p \in DOMAIN Overlay
  BY InOverlayIs, Zenon
<1> HIDE DEF p
<1>2. CASE RemoveOk(path)
  <2>1. PICK i \in Slots : Matches(slots[i], p) /\ slots' = [slots EXCEPT ![i] = EMPTY]
    BY <1>2, Zenon DEF RemoveOk, IsFirst, p
  <2>2. PathError(path) = "none" /\ reply' = Answer("remove", "Ok")
    BY <1>2, Zenon DEF RemoveOk, Respond
  <2>3. p \in DOMAIN Overlay /\ Overlay' = [q \in DOMAIN Overlay \ {p} |-> Overlay[q]]
    BY <2>1, RemoveMaps, ZenonT(40)
  <2> QED
    BY <1>0, <2>2, <2>3, Zenon
<1>3. CASE RemoveRefused(path)
  <2>1. Overlay' = Overlay
    BY <1>3, UnchangedKeeps, Zenon DEF RemoveRefused
  <2>2. CASE PathError(path) # "none"
    BY <1>3, <2>1, <2>2, <1>0, Zenon DEF RemoveRefused, Respond
  <2>3. CASE PathError(path) = "none"
    <3>1. ~ InOverlay(p)
      BY <1>3, <2>3, Zenon DEF RemoveRefused, InOverlay, p
    <3>2. reply' = Answer("remove", IF p \in DOMAIN Initramfs THEN "ReadOnly" ELSE "NotFound")
      BY <1>3, <2>3, Zenon DEF RemoveRefused, Respond, p
    <3> QED
      BY <2>1, <2>3, <3>1, <3>2, <1>0, <1>1, Zenon
  <2> QED
    BY <2>2, <2>3, Zenon
<1> QED
  BY <1>2, <1>3, Zenon

(* `read` is the abstract read, from the overlay or from the initramfs.    *)
LEMMA ReadRefines ==
  ASSUME IInv, NEW path \in Paths, ReadOverlay(path) \/ ReadInitramfs(path)
  PROVE  Abstract!Read(path)
<1> DEFINE p == Normalized(path)
<1>0. Abstract!Read(path) <=>
        /\ reply' = Answer("read", IF PathError(path) = "none" THEN Abstract!Contents(p) ELSE None)
        /\ Overlay' = Overlay
  BY SameNormalized, SamePathError, SameAnswer, Zenon DEF Abstract!Read
<1>1. Overlay' = Overlay
  BY UnchangedKeeps, ZenonT(40) DEF ReadOverlay, ReadInitramfs
<1> HIDE DEF p
<1>2. CASE ReadOverlay(path)
  <2>1. PICK i \in Slots : Matches(slots[i], p) /\ reply' = Answer("read", TextOf(slots[i]))
    BY <1>2, Zenon DEF ReadOverlay, IsFirst, Respond, p
  <2>2. PathError(path) = "none"
    BY <1>2, Zenon DEF ReadOverlay
  <2>3. Abstract!Contents(p) = TextOf(slots[i])
    BY <2>1, ContentsIs, Zenon
  <2> QED
    BY <1>0, <1>1, <2>1, <2>2, <2>3, Zenon
<1>3. CASE ReadInitramfs(path)
  <2>1. /\ PathError(path) = "none" => ~ InOverlay(p)
        /\ reply' = Answer("read", IF PathError(path) = "none" /\ p \in DOMAIN Initramfs
                                   THEN Initramfs[p] ELSE None)
    BY <1>3, Zenon DEF ReadInitramfs, Respond, p
  <2>2. PathError(path) = "none" =>
          Abstract!Contents(p) = IF p \in DOMAIN Initramfs THEN Initramfs[p] ELSE None
    BY <2>1, ContentsIs, Zenon
  <2> QED
    BY <1>0, <1>1, <2>1, <2>2, Zenon
<1> QED
  BY <1>2, <1>3, Zenon

(* `exists` is the abstract one.                                           *)
LEMMA ExistsRefines ==
  ASSUME IInv, NEW path \in Paths, Exists(path)
  PROVE  Abstract!Exists(path)
<1> DEFINE p == Normalized(path)
<1>0. Abstract!Exists(path) <=>
        /\ reply' = Answer("exists", PathError(path) = "none" /\ Abstract!Contents(p) # None)
        /\ Overlay' = Overlay
  BY SameNormalized, SamePathError, SameAnswer, Zenon DEF Abstract!Exists
<1>1. Overlay' = Overlay
  BY UnchangedKeeps, Zenon DEF Exists
<1>2. Abstract!Contents(p) # None <=> InOverlay(p) \/ p \in DOMAIN Initramfs
  BY ContentsIs, Zenon
<1> HIDE DEF p
<1>3. (PathError(path) = "none" /\ Abstract!Contents(p) # None)
        = (PathError(path) = "none" /\ (InOverlay(p) \/ p \in DOMAIN Initramfs))
  BY <1>2, Zenon
<1>4. reply' = Answer("exists", PathError(path) = "none" /\ (InOverlay(p) \/ p \in DOMAIN Initramfs))
  BY Zenon DEF Exists, Respond, p
<1> QED
  BY <1>0, <1>1, <1>3, <1>4, ZenonT(40)

(* for_each_entry visits every file once, and the one of the overlay where *)
(* the initramfs has the path too.                                         *)
LEMMA ListRefines ==
  ASSUME IInv, ForEachEntry
  PROVE  Abstract!List
<1> DEFINE all == DOMAIN Overlay \cup DOMAIN Initramfs
           visited == {VisitedPath(v) : v \in Visits}
           times(p) == {v \in Visits : VisitedPath(v) = p}
<1>1. DOMAIN Overlay = {PathOf(slots[i]) : i \in Used} /\ \A p : InOverlay(p) <=> p \in DOMAIN Overlay
  BY OverlayIs, InOverlayIs, Zenon DEF OverlayShows
<1>2. \A i : VisitedPath(<<"overlay", i>>) = PathOf(slots[i])
  BY Zenon DEF VisitedPath
<1>3. \A p : VisitedPath(<<"initramfs", p>>) = p
  BY Zenon DEF VisitedPath
<1>4. visited = all
  <2>1. ASSUME NEW p \in visited PROVE p \in all
    BY <1>1, <1>2, <1>3, SMTT(40) DEF Visits
  <2>2. ASSUME NEW p \in DOMAIN Overlay PROVE p \in visited
    <3>1. PICK i \in Used : PathOf(slots[i]) = p
      BY <1>1, Zenon
    <3>2. <<"overlay", i>> \in Visits
      BY Zenon DEF Visits
    <3> QED
      BY <3>1, <3>2, <1>2, Zenon
  <2>3. ASSUME NEW p \in DOMAIN Initramfs, ~ InOverlay(p) PROVE p \in visited
    <3>1. <<"initramfs", p>> \in Visits
      BY <2>3, Zenon DEF Visits
    <3> QED
      BY <3>1, <1>3, Zenon
  <2> HIDE DEF visited
  <2> QED
    BY <1>1, <2>1, <2>2, <2>3, Zenon
<1>5. ASSUME NEW p \in all
      PROVE  Cardinality(times(p)) = 1
  <2>1. \E v : times(p) = {v}
    <3>1. CASE p \in DOMAIN Overlay
      <4>1. PICK i \in Used : PathOf(slots[i]) = p
        BY <3>1, <1>1, Zenon
      <4>2. \A j \in Used : PathOf(slots[j]) = p => j = i
        BY <4>1, Zenon DEF IInv, UniquePaths
      <4>3. times(p) = {<<"overlay", i>>}
        BY <4>1, <4>2, <3>1, <1>1, <1>2, <1>3 DEF Visits
      <4> QED
        BY <4>3, Zenon
    <3>2. CASE p \notin DOMAIN Overlay
      <4>1. \A i \in Used : PathOf(slots[i]) # p
        BY <3>2, <1>1, Zenon
      <4>2. times(p) = {<<"initramfs", p>>}
        BY <4>1, <3>2, <1>1, <1>2, <1>3 DEF Visits
      <4> QED
        BY <4>2, Zenon
    <3> QED
      BY <3>1, <3>2, Zenon
  <2> HIDE DEF times
  <2> QED
    BY <2>1, FS_Singleton, Zenon
<1>6. reply' = Answer("list", [p \in visited |-> Cardinality(times(p))])
  BY Zenon DEF ForEachEntry, Respond
<1> HIDE DEF all, visited, times
<1>7. [p \in visited |-> Cardinality(times(p))] = [p \in all |-> 1]
  BY <1>4, <1>5, Zenon
<1>8. Overlay' = Overlay
  BY UnchangedKeeps, Zenon DEF ForEachEntry
<1> QED
  BY <1>6, <1>7, <1>8, SameAnswer, ZenonT(40) DEF Abstract!List, all

(* An empty table is an empty overlay.                                     *)
LEMMA RefinesInit == Init => Abstract!Init
<1> SUFFICES ASSUME Init PROVE Abstract!Init
  BY Zenon
<1>1. Used = {}
  BY EmptyOK, Zenon DEF Init, Used
<1>2. Overlay = Abstract!Empty
  BY <1>1, Zenon DEF Overlay, Abstract!Empty
<1> QED
  BY <1>2, SameAnswer, Zenon DEF Abstract!Init, Init

(* Every operation on the table is one on the overlay, or leaves it alone. *)
LEMMA RefinesStep == IInv /\ [Next]_vars => [Abstract!Next]_(Abstract!vars)
<1> SUFFICES ASSUME IInv, [Next]_vars PROVE [Abstract!Next]_(Abstract!vars)
  BY Zenon
<1>1. ASSUME NEW path \in Paths, NEW text \in Texts,
             WriteRefused(path, text) \/ WriteOk(path, text) \/ WriteNoSpace(path, text)
      PROVE  Abstract!Next
  BY <1>1, WriteRefines, Zenon DEF Abstract!Next
<1>2. ASSUME NEW path \in Paths, RemoveOk(path) \/ RemoveRefused(path)
      PROVE  Abstract!Next
  BY <1>2, RemoveRefines, Zenon DEF Abstract!Next
<1>3. ASSUME NEW path \in Paths, ReadOverlay(path) \/ ReadInitramfs(path)
      PROVE  Abstract!Next
  BY <1>3, ReadRefines, Zenon DEF Abstract!Next
<1>4. ASSUME NEW path \in Paths, Exists(path)
      PROVE  Abstract!Next
  BY <1>4, ExistsRefines, Zenon DEF Abstract!Next
<1>5. CASE ForEachEntry
  BY <1>5, ListRefines, Zenon DEF Abstract!Next
<1>6. CASE UNCHANGED vars
  <2>1. Overlay' = Overlay /\ reply' = reply
    BY <1>6, UnchangedKeeps, Zenon DEF vars
  <2> QED
    BY <2>1, Zenon DEF Abstract!vars
<1> QED
  BY <1>1, <1>2, <1>3, <1>4, <1>5, <1>6, Zenon DEF Next

(* The slot table implements the overlay file system of VfsSpec: reads,    *)
(* writes, removals, existence tests and listings give the answers of a    *)
(* map from normalised paths to contents, for every set of paths and       *)
(* texts, every table size and every initramfs.                            *)
THEOREM Refinement == Spec => ImplementsVfsSpec
<1>1. Spec => []IInv
  BY Invariance, Zenon
<1>2. IInv /\ [Next]_vars => [Abstract!Next]_(Abstract!vars)
  BY RefinesStep, Zenon
<1> QED
  BY <1>1, <1>2, RefinesInit, PTL DEF Spec, ImplementsVfsSpec, Abstract!Spec
=============================================================================
