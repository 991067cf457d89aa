---------------------------- MODULE MCBootMemory ----------------------------
(* Small memory maps, with 4-byte frames, and all answers of Limine.       *)
EXTENDS BootMemory

LOCAL INSTANCE SequencesExt

Entry(base, length, type) == [base |-> base, length |-> length, type |-> type]

Usable(base, length) == Entry(base, length, 0)

\* Ranges of two, one and two frames; entries that start or end off a frame
\* boundary, that are too short for a frame, or beyond those that are kept.
LongRace  == <<Usable(4, 8), Entry(12, 3, 1), Usable(15, 7), Usable(24, 8), Usable(36, 8)>>
ShortRace == <<Usable(3, 10), Usable(14, 5), Usable(22, 2), Usable(28, 5)>>

\* One range of three frames.
OneRange == <<Entry(0, 4, 1), Usable(4, 13)>>

\* More usable ranges than the allocator's table holds.
FullTable == [k \in 1 .. 4 |-> Usable(8 * k, 4)]

\* Every map of up to three usable entries whose ends are taken from Edges.
Edges == {0, 3, 4, 8, 11, 12, 16, 21}

SweepMaps ==
  {LET s == SetToSortSeq(E, <)
   IN  [k \in 1 .. Len(s) \div 2 |-> Usable(s[2 * k - 1], s[2 * k] - s[2 * k - 1])] :
     E \in {X \in SUBSET Edges : Cardinality(X) \in {0, 2, 4, 6}}}

\* Usable memory between entries of every other type.
TypedMaps == {<<Entry(0, 8, t), Usable(9, 8), Entry(20, 8, u)>> : t, u \in {1, 4, 5, 6, 7, 8}}

Contended == {LongRace, ShortRace, OneRange}

AllMaps == Contended \cup {FullTable} \cup SweepMaps \cup TypedMaps

Complete(map) == [revision |-> TRUE, hhdm |-> TRUE, memmap |-> TRUE, framebuffer |-> TRUE, map |-> map]

MCAnswers ==
  {Complete(map) : map \in AllMaps}
    \cup [revision : BOOLEAN, hhdm : BOOLEAN, memmap : BOOLEAN, framebuffer : BOOLEAN, map : TypedMaps]

\* What the allocator may be handed: the entries that BootInfo keeps, whether
\* reclaimable memory (type 5) counts as usable or not.  FramesReported says it
\* does not.
MCMemoryMaps ==
  {[k \in 1 .. (IF Len(map) < MAX_MEMORY_REGIONS THEN Len(map) ELSE MAX_MEMORY_REGIONS) |->
      [base |-> map[k].base, length |-> map[k].length, usable |-> map[k].type \in types]] :
     map \in AllMaps, types \in {{0}, {0, 5}}}

\* The callers that take part: all three race over one of the maps, two over
\* the longest, and one does the rest.
Active == IF loader.map \in {ShortRace, OneRange} THEN 1 .. 3 ELSE IF loader.map = LongRace THEN 1 .. 2 ELSE {1}

MCSpec ==
  /\ SInit
  /\ [][SNext /\ \A c \in Callers \ Active : pc'[c] = "idle"]_<<vars, bootvars>>
  /\ \A c \in Callers : WF_vars(CallerStep(c))
=============================================================================
