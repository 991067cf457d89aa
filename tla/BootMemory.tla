----------------------------- MODULE BootMemory -----------------------------
(***************************************************************************)
(* From Limine's answers to frames: boot::enter (BootEntry) collects the   *)
(* memory map into BootInfo, and memory::initialize and allocate_frame     *)
(* (FrameAllocator) work on what it has collected.                         *)
(***************************************************************************)
EXTENDS FrameAllocator

CONSTANT Answers       \* of Limine

VARIABLES loader, BOOT_STAGE, boot_pc, log, regions, entries

bootvars == <<loader, BOOT_STAGE, boot_pc, log, regions, entries>>

Boot == INSTANCE BootEntry WITH pc <- boot_pc

\* The part of BootInfo that frame_allocator::initialize looks at
BootInfo ==
  [k \in 1 .. (IF entries < MAX_MEMORY_REGIONS THEN entries ELSE MAX_MEMORY_REGIONS) |->
     [base |-> regions[k].base, length |-> regions[k].length, usable |-> regions[k].kind = "Usable"]]

\* What Limine may answer: a memory map, and to which requests
LimineEntry == [base : Nat, length : Nat, type : Nat]

Answer == [revision : BOOLEAN, hhdm : BOOLEAN, memmap : BOOLEAN, framebuffer : BOOLEAN, map : Seq(LimineEntry)]

\* The entries of a map that BootInfo has room for
Collected(map) ==
  [k \in 1 .. (IF Len(map) < MAX_MEMORY_REGIONS THEN Len(map) ELSE MAX_MEMORY_REGIONS) |->
     [base |-> map[k].base, length |-> map[k].length, usable |-> map[k].type = 0]]

\* The allocator's assumption on memory maps is one on Limine's.
ASSUME AnswersAssumption ==
  /\ <<>> \in MemoryMaps
  /\ \A answer \in Answers : answer \in Answer /\ Collected(answer.map) \in MemoryMaps

SInit == Boot!Init /\ Init /\ memory_map = <<>>

BootStep ==
  /\ Boot!Next
  /\ memory_map' = IF boot_pc' = "run" THEN BootInfo ELSE memory_map
  /\ UNCHANGED <<region, ranges, range_count, total_frames, counts, shared, local>>

MemoryStep == boot_pc = "run" /\ Next /\ UNCHANGED bootvars

SNext == BootStep \/ MemoryStep

SSpec == SInit /\ [][SNext]_<<vars, bootvars>>

SFairSpec == SSpec /\ \A c \in Callers : WF_vars(CallerStep(c))

-----------------------------------------------------------------------------
(* Properties                                                              *)

(* A frame handed out lies wholly inside one entry that Limine itself      *)
(* reported as usable (type 0): neither the classification, nor a map that *)
(* is longer than BootInfo's table, nor the rounding or a race in the      *)
(* allocator lets any other memory through.                                *)
FramesReported ==
  \A n \in DOMAIN granted : \E k \in DOMAIN loader.map :
    /\ loader.map[k].type = 0
    /\ loader.map[k].base <= granted[n]
    /\ granted[n] + FRAME_SIZE <= loader.map[k].base + loader.map[k].length

(* The serial port shows the documented boot stages in the documented      *)
(* order (BootEntry), and all of them before the kernel proper runs.       *)
StagesAsDocumented == Boot!StagesAsDocumented

(* When the kernel halts during bring-up, the last label on the serial     *)
(* port tells which of Limine's answers was missing (BootEntry).           *)
HaltRevealsStage == Boot!HaltRevealsStage
=============================================================================
