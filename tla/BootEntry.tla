----------------------------- MODULE BootEntry ------------------------------
(***************************************************************************)
(* arch::x86_64::boot: from _start to crate::run.  What Limine answers is  *)
(* read request by request, the stage reached is kept in BOOT_STAGE and    *)
(* written with every line to the serial port, and a missing answer panics *)
(* or halts.  Interrupts are off, so a step is everything up to the next   *)
(* stage mark.                                                             *)
(***************************************************************************)
EXTENDS Naturals, Sequences

CONSTANTS
  MAX_MEMORY_REGIONS,  \* capacity of BootInfo::memory_regions
  Answers              \* what Limine may answer: which requests, and the memory map

VARIABLES
  loader,       \* Limine's answers
  BOOT_STAGE,   \* an AtomicU8
  pc,           \* the next step of `enter`, or "run", "halted"
  log,          \* labels of the lines on the serial port, in order, a stage's lines as one
  regions,      \* BootInfo::memory_regions
  entries       \* BootInfo::memory_map_entries

vars == <<loader, BOOT_STAGE, pc, log, regions, entries>>

\* BootStage, in the order of its discriminants from 0
BootStage ==
  <<"entry", "revision-accepted", "revision-rejected", "collecting-boot-info", "hhdm-ready", "memory-map-ready",
    "regions-mapped", "framebuffer-ready", "boot-info-ready", "kernel-init">>

Value(stage) == (CHOOSE k \in DOMAIN BootStage : BootStage[k] = stage) - 1

\* Mutant: an arm is missing, and its value falls through to Entry
Label_NoKernelInit(value) == IF value + 1 < Len(BootStage) THEN BootStage[value + 1] ELSE "entry"

\* from_u8(value).label()
Label(value) == IF value + 1 \in DOMAIN BootStage THEN BootStage[value + 1] ELSE "entry"

MemoryRegion(base, length, kind) == [base |-> base, length |-> length, kind |-> kind]

EMPTY == MemoryRegion(0, 0, "Reserved")

Init ==
  /\ loader \in Answers
  /\ BOOT_STAGE = 0 /\ pc = "enter" /\ log = <<>>
  /\ regions = [k \in 1 .. MAX_MEMORY_REGIONS |-> EMPTY] /\ entries = 0

-----------------------------------------------------------------------------

\* mark_boot_stage, and then a line with current_boot_stage_label
Reach(stage) ==
  /\ BOOT_STAGE' = Value(stage)
  /\ log' = Append(log, Label(BOOT_STAGE'))

\* core::panic::handle: the label is reported, and the CPU halts.
Panic ==
  /\ log' = Append(log, Label(BOOT_STAGE))
  /\ pc' = "halted"
  /\ UNCHANGED BOOT_STAGE

\* _start, enter
Enter ==
  /\ pc = "enter" /\ Reach("entry") /\ pc' = "revision"
  /\ UNCHANGED <<loader, regions, entries>>

RevisionSupported ==
  /\ pc = "revision" /\ loader.revision
  /\ Reach("revision-accepted") /\ pc' = "collect"
  /\ UNCHANGED <<loader, regions, entries>>

\* The line that is written shows no label.
RevisionRejected ==
  /\ pc = "revision" /\ ~ loader.revision
  /\ BOOT_STAGE' = Value("revision-rejected") /\ pc' = "halted"
  /\ UNCHANGED <<loader, log, regions, entries>>

CollectBootInfo ==
  /\ pc = "collect" /\ Reach("collecting-boot-info") /\ pc' = "hhdm"
  /\ UNCHANGED <<loader, regions, entries>>

\* Mutant: the stage is marked before the answer is unwrapped
CollectHhdm_MarkFirst ==
  /\ pc = "hhdm"
  /\ Reach("hhdm-ready") /\ pc' = IF loader.hhdm THEN "memmap" ELSE "halted"
  /\ UNCHANGED <<loader, regions, entries>>

CollectHhdm ==
  /\ pc = "hhdm"
  /\ IF loader.hhdm THEN Reach("hhdm-ready") /\ pc' = "memmap" ELSE Panic
  /\ UNCHANGED <<loader, regions, entries>>

CollectMemoryMap ==
  /\ pc = "memmap"
  /\ IF loader.memmap THEN Reach("memory-map-ready") /\ pc' = "regions" ELSE Panic
  /\ UNCHANGED <<loader, regions, entries>>

\* Mutant: bootloader-reclaimable memory, which holds the loader's answers
\* and the page tables, is given out
Classify_ReclaimUsable(type) == IF type \in {0, 5} THEN "Usable" ELSE "Other"

\* classify_memory_region
Classify(type) ==
  CASE type = 0      -> "Usable"
    [] type = 5      -> "Reclaimable"
    [] type = 6      -> "Kernel"
    [] type = 7      -> "Framebuffer"
    [] type \in 1..4 -> "Reserved"
    [] OTHER         -> "Unknown"

MapRegions ==
  /\ pc = "regions"
  /\ regions' = [k \in DOMAIN regions |->
                   IF k \in DOMAIN loader.map
                   THEN LET entry == loader.map[k] IN MemoryRegion(entry.base, entry.length, Classify(entry.type))
                   ELSE EMPTY]
  /\ Reach("regions-mapped") /\ pc' = "framebuffer"
  /\ UNCHANGED <<loader, entries>>

\* A framebuffer is optional.
CollectFramebuffer ==
  /\ pc = "framebuffer" /\ Reach("framebuffer-ready") /\ pc' = "ready"
  /\ entries' = Len(loader.map)
  /\ UNCHANGED <<loader, regions>>

\* BOOT_INFO.call_once returns, log_boot_summary
BootInfoReady ==
  /\ pc = "ready" /\ Reach("boot-info-ready") /\ pc' = "init"
  /\ UNCHANGED <<loader, regions, entries>>

KernelInit ==
  /\ pc = "init" /\ Reach("kernel-init") /\ pc' = "run"
  /\ UNCHANGED <<loader, regions, entries>>

Next ==
  \/ Enter \/ RevisionSupported \/ RevisionRejected
  \/ CollectBootInfo \/ CollectHhdm \/ CollectMemoryMap \/ MapRegions \/ CollectFramebuffer
  \/ BootInfoReady \/ KernelInit

Spec == Init /\ [][Next]_vars

-----------------------------------------------------------------------------
(* Properties                                                              *)

\* tests/fixtures/qemu-boot-markers.txt
Markers ==
  <<"entry", "revision-accepted", "collecting-boot-info", "hhdm-ready", "memory-map-ready",
    "regions-mapped", "framebuffer-ready", "boot-info-ready", "kernel-init">>

(* The serial port shows the documented stages in the documented order,    *)
(* and all of them before control goes to the generic kernel.              *)
StagesAsDocumented ==
  /\ pc # "halted" => \E n \in 0 .. Len(Markers) : log = SubSeq(Markers, 1, n)
  /\ pc = "run" => log = Markers

(* When the kernel halts during bring-up, the last label on the serial     *)
(* port names the last stage that succeeded, and so which of Limine's      *)
(* answers was missing (docs/development/debug.md).                        *)
HaltRevealsStage ==
  pc = "halted" =>
    log[Len(log)] = IF ~ loader.revision THEN "entry"
                    ELSE IF ~ loader.hhdm THEN "collecting-boot-info"
                    ELSE "hhdm-ready"
=============================================================================
