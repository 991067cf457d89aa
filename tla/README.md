# AetherOS in TLA+

Specifications of the AetherOS kernel (`src/kernel`) and of the harness that builds
and checks it (`src/tools/xtask`), model-checked with TLC and,
for the parts where a small instance is not enough, proved with TLAPS.

## The system

AetherOS is a single-CPU x86_64 kernel started by Limine. `arch::x86_64::boot`
turns the boot loader's answers into a `BootInfo`. `core::init::initialize` then
brings up, in this order: GDT, IDT, the PICs and interrupts, memory, the
scheduler, timer, keyboard, framebuffer, file system and shell. Afterwards `main`
halts and everything else happens in interrupt handlers: ticks rotate the
scheduler's tasks, keys edit the shell's line, and Enter runs a command *inside
the keyboard handler*. Handlers and `main` share spin mutexes and a few atomics.
`tools/xtask` builds the image and checks it under QEMU.

| part | source | module | state |
|---|---|---|---|
| frame allocator | `memory/frame_allocator.rs`, `aether-bootinfo` | `FrameAllocator`, `BootMemory` | modelled, proved |
| scheduler | `task/scheduler.rs`, `task/process.rs` | `Scheduler`, `Kernel` | modelled, proved |
| boot sequence | `core/init.rs`, `lib.rs` | `KernelCode`, `Kernel` | modelled from `interrupts::init` on; mutexes proved |
| interrupts, PIC, PIT | `arch/x86_64/{interrupts,idt,pit}.rs` | `Kernel` | IRQ 0 and 1 modelled, ends of interrupts proved; exceptions not modelled |
| timer | `drivers/timer.rs` | `KernelCode`, `Kernel`, `Console` | modelled |
| keyboard | `drivers/keyboard.rs` | `KernelCode`, `Kernel`, `Console` | modelled; the scancode table is a constant function; Shift proved |
| shell | `shell.rs` | `KernelCode`, `Kernel`, `Console`, `LineEditor` | modelled, but for the wording of its output; line and arguments proved |
| console | `arch/x86_64/serial.rs`, `utils/macros.rs` | `KernelCode` | as a critical section |
| framebuffer | `drivers/framebuffer.rs`, `arch/x86_64/vga.rs` | `KernelCode`, `Vga` | modelled, proved |
| file system | `fs/vfs.rs`, `fs/initramfs.rs` | `VfsPaths`, `VfsSpec`, `Vfs` | modelled, proved |
| heap | `memory/heap.rs` | `Heap` | modelled, proved |
| boot entry | `arch/x86_64/boot.rs` | `BootEntry`, `BootMemory` | modelled, proved |
| panic handler | `core/panic.rs` | `BootEntry` | for the panics of boot entry |
| build and QEMU harness | `tools/xtask` | `QemuCheck`, `Staging` | checks, staging and caches, proved |
| GDT, address spaces, system calls, storage, images | `gdt.rs`, `memory/address_space.rs`, `syscall`, ... | - | constant tables and pure functions, nothing to interleave |

## Modules

**`FrameAllocator`.** One action per loop iteration or store of `initialize`, and
one action per atomic access of `allocate_frame` and `advance_range`; a caller is
its program counter and its locals `range_index` and `current`. `granted` is a
history variable: the addresses returned as `Some`. Nothing in the
kernel calls `allocate_frame` yet; its atomics promise that any context may, so the
model allows any set of `Callers`.
Memory is sequentially consistent. Usable entries of a memory map must not touch
(`Separated`), an assumption about the boot loader, which merges contiguous
usable memory, and not something `initialize` checks. The proof needs it: where
the end of one range is the start of the next, `current_frame` can be claimed in
the new range before the winner of the CAS stores that start, and the late store
grants it a second time.
Addresses stay below 2^64 - `FRAME_SIZE`, so `align_up`
does not wrap and `MemoryRegion::end` does not saturate.

**`Scheduler`.** The scheduler as its users see it: `initialize` and `tick` are
single steps. It is the abstract specification that `Kernel` implements.

**`KernelCode`.** What each function does to state shared with handlers, as a
sequence of operations: lock, unlock, a named step. Order and nesting of guards
follow Rust's temporaries (the guard in `if let Some(f) = *FRAMEBUFFER.lock()`
lives to the end of the statement, `else` included; arguments of `println!` are
evaluated before `SERIAL` is taken). Printed text is dropped, and consecutive
prints are one critical section.

**`Kernel`.** Executes those sequences on one CPU: `code.main`, preempted by
`code.irq`, which runs with interrupts disabled. The named steps have their
meaning here, and the devices are external: the 8259 (requests, in-service bits,
priority, non-specific EOI), the PIT, and the 8042 (an edge when its buffer
fills). A spinning context is one whose next operation is a `Lock` of a mutex that
is not free. `interrupts::enable` and the store of `INITIALIZED` are two steps: in
the image that `xtask` builds (dev profile) `enable` is a call, so the one
instruction shadow of `sti` does not reach the store. A tick is not raised while
the timer handler runs, which is the same as raising it when the handler returns.

**`VfsPaths`, `VfsSpec`, `Vfs`.** Paths and errors; the promise (a map from paths to texts
over the read-only initramfs); and the code's slots with byte buffers of which a
write replaces a prefix. Operations run under one mutex from one handler, so each
is a step. `leaked` remembers the reference that `read` last returned.

**`Heap`.** One action per atomic access of `initialize`, `alloc` and `heap_used`,
interleaved between any set of `Callers`. The bound in `alloc` is the one of the
code: the sum that rounds up is checked arithmetic of the dev profile and panics on
overflow, the sum with the size is `checked_add` and gives null. `blocks` is the history of
what was returned. `dealloc` does nothing, and has no action. Addresses are words
of `USIZE` values.

**`BootEntry`.** From `_start` to `crate::run`, one action per stage mark, for every
set of answers of Limine, given as a constant. A panic reports the stage and halts.

**`BootMemory`.** The composition of the two: `BootEntry` turns Limine's memory map
into the table and the entry count of `BootInfo`, and `FrameAllocator` initializes
itself from those once control has gone to `crate::run`. It is where the allocator's
promise can be stated against what the boot loader said (`FramesReported`) and not
only against the copy that the kernel made.

**`Console`, `LineEditor`.** What is typed, at the level of contents: the Shift flag
against the keys that are really down, the line buffer and its length, the echo on
a terminal that understands the backspace character, and the arguments that
`execute_command` passes on. A key is one step, as it is one interrupt. Lines that
`core::init` still prints after the shell is up are steps too, and may cut into a
line that is being typed; so may the uptime that the timer prints every 100 ticks,
at any time. `torn` counts how much of the line such a print left behind on another
row. Extended keys are there for their shift codes: the keyboard sends `0xE0 0x2A`
ahead of PrintScreen, and `decode_scancode` drops the prefix. Their own codes type
nothing, and all codes of one key come in a row, so it is one step. Ctrl and Alt, under which PrintScreen has other codes, are not modelled.
`LineEditor` is the promise: a sequence that grows and
shrinks at its end.

**`Vga`.** `render_boot_visual` as the sequence of rectangles that it fills, with the
`u32` arithmetic of their corners and of the clipping. `panicked` records a sum
that overflows, `written` how far right and down pixels were written. Colours are
left out. Framebuffers whose pitch in bytes does not fit `FramebufferInfo`'s `u32`
are out of scope.

**`QemuCheck`.** `boot-check` and `shell-check` as lists of operations, of which the
waits are the three tests of the loop, one step each; QEMU, the guest and its
monitor are external and take steps between any two of them. Several checks run in
a row on the files, and beside the QEMUs, that the earlier ones left. That `kill`
or `wait` of a child fails is left out.

**`Staging`.** `stage` and `run`, one action per step that leaves a trace on disk, run
again and again. A file is created and then written, and an invocation may end
between any two steps, in the middle of a file included (`EndEarly`). `cut` is a
history variable: which of the two files that mark themselves as complete by
existing, the loader and the variable store, an invocation ended in the middle of.
`Launch` may report an error on part of a variable store, as QEMU may refuse it.

Eight modules hold theorems: **`FrameAllocatorProofs`**; **`BootMemoryProofs`**, which
extends it; **`KernelProofs`** (mutexes and interrupts); **`SchedulerProofs`**, which
extends that (the scheduler and its refinement); **`HeapProofs`**; **`VfsProofs`**;
**`ScreenProofs`** (`Vga` and `Console`); and **`XtaskProofs`** (`Staging` and
`QemuCheck`). The **`MC...`** modules give the constants their values.
`MCScreen` and `MCXtask` hold two components each that share no state: the second
follows the first on one of its states.

## Runs

| run | configuration | checks | result |
|---|---|---|---|
| `memory` | every set of answers; one caller on every map of up to 3 usable entries over 8 edges and on maps with every entry type, 2 and 3 callers on maps of several ranges, fair | `StagesAsDocumented`, `HaltRevealsStage`, `GrantsDisjoint`, `GrantsUsable`, `FramesReported`, `CountsCoverGrants`, `NoFrameIsLost`, `TypeOK`, `RangeNeverRewinds`, `CallsReturn` | holds |
| `heap` | 3 callers racing `initialize` and each other, fair | `BlocksDisjoint`, `BlocksInHeap`, `PanicsOnlyOnWideAlign`, `NullMeansNoRoom`, `UsageCoversBlocks`, `AllocReturns` | holds |
| `kernel` | both tasks, 3 framebuffers, fair | `LocksNotReentered`, `StuckOnlyWhileBooting`, `HandlersEndTheirInterrupt`, `ImplementsScheduler`, `BootEndsOrSpins`, `HealthyKeepsTicking`, `HealthyRunsEveryTask`, `HealthyReadsKeys` | holds |
| `vfs_refinement` | 2 slots, paths of 3 and texts of 2 bytes | `TypeOK`, `ImplementsVfsSpec` | holds |
| `screen` | sizes around the layout's constants and 2^32, scaled; then 2 shift keys, PrintScreen and every line of up to 5 words and blanks | `NeverPanics`, `DrawsInside`, `TerminalShowsLine`, `ShiftNotStuck`, `CommandsNameTheirFile`, `ImplementsLineEditor` | holds |
| `xtask` | 3 kernel versions, 3 failures anywhere; then 2 checks of either kind; fair | `StagedIsFresh`, `OnlyVerifiedUnpacked`, `WholeUnlessCut`, `OkMeansBooted`, `OkMeansDumped`, `OrphansAreRare`, `RetriesSucceed`, `ChecksReturn` | holds |
| `kernel_boot` | fair | `BootCompletes` | **violated** |
| `kernel_ticks` | fair | `TimerGeneratesTicks` | **violated** |
| `kernel_keys` | | `KeyReachesShell` | **violated** |
| `vfs_leak` | | `LeakedTextStays` | **violated** |
| `console_shift` | 2 shift keys and PrintScreen | `ShiftFollowsKeys` | **violated** |
| `staging_loader` | 3 failures anywhere | `StagesBootableTree` | **violated** |

**Bounds.** Three callers are what a race in the allocator takes (one stalled
before its store, one behind it, one ahead); three ranges give a first, a middle
and a last one, and one range of a single frame is passed quickly enough for a
stale store to matter. All three race over one such map and over a map of one
range, two over a longer map, and one caller does the sweep over all small maps
(`Active` of `MCBootMemory`): for safety the theorems cover every
other combination. A map of
five entries overfills `BootInfo`'s four regions, one of four the allocator's three
ranges. Frames of 4 bytes leave room for misaligned edges. The
kernel's `TICK_REPORT` (100) and `MAX_LINE_LEN` (128) are 2: both branches of
either test are reached; the tick counter is kept modulo `TICK_REPORT`, which is
all the code looks at. Two overlay slots suffice for a duplicate path, a full
overlay and a slot reused with shorter contents. The heap has 5 bytes near the top
of 64 addresses, and layouts that need padding, exhaust it, leave the address space
by their size, and by their alignment; three callers let one lose its
compare-and-swap to each of the others, of which two only ask for a byte. Five
characters of line (a command word counts as one) hold a shorter line inside the
remains of a longer one, and spell `write`, a file and a text with an extra blank;
lines that others print mix with lines of up to two (`LONG_LINE`), a second shift
key and PrintScreen with lines of up to one. The drawing is checked in 16 bits, as TLC's integers have
32; the theorems are for any width from 16 on. Two checks are one and its successor, which finds what
the first left, and they run on one staged tree; three failures are a bad download, an interrupted retry and one
more.

**Fairness.** `FairSpec` of the allocator: a caller inside a call keeps running
(weak). `KFairness`: the CPU executes the running handler (weak); `main` gets
instructions between interrupts, as a handler is much shorter than the 10 ms
between ticks (strong, because interrupts disable it again and again); the PIT
keeps firing (weak) and the 8259 delivers a request that is deliverable again and
again (strong). Nobody has to press a key. `Heap`: a context inside `alloc` keeps
running (weak). `QemuCheck`: the harness is scheduled and time passes (weak), while
nothing is assumed of QEMU. `Staging`: the command is run again when it has
returned and goes on (weak), with a bound on how often it fails. Deadlock is not
checked in the kernel runs: a handler that spins on a mutex of `main` really stops
the kernel, and that is the first finding. Nor is it in `memory` (a kernel that
lacks an answer of Limine has halted), `heap` (every caller may have panicked) and
`xtask` (the last check has returned).

## Findings

1. *Boot can hang* (`interrupts.rs:42`). Interrupts are enabled before the rest of
   initialization, and handlers take mutexes that `main` holds meanwhile. A tick
   inside `scheduler::initialize` spins on `SCHEDULER` forever. `StuckOnlyWhileBooting`
   shows that this window closes when `main` reaches its `hlt` loop; it is proved.
2. *Ticks can stop before they start* (`interrupts.rs:43`). A tick between `enable`
   and the store of `INITIALIZED` is never acknowledged.
3. *The keyboard can go dead* (`keyboard.rs:25`). A key pressed before the driver is
   up is not read, and the full controller raises no further interrupt.
4. *`leak_str`'s comment is wrong* (`vfs.rs:158`). The `&'static str` changes under a
   later `write` or `rm`. The shell prints it at once, so nothing shows today.
5. *Shift does not follow the shift keys* (`keyboard.rs:41`), whereas
   `docs/development/testing.md:50` counts on "Shift-modified input" to "behave
   consistently". PrintScreen sets it: the prefix of its shift code is dropped.
   Also, one flag stands for two keys, and with both down, releasing one ends Shift
   (`keyboard.rs:45`). `ShiftNotStuck` shows what is left: all keys up, Shift is off.
6. *A truncated loader is cached for ever* (`main.rs:514`). An invocation that ends
   while `unzip` writes `BOOTX64.EFI` leaves a file whose existence is all that
   later ones test; they stage it and report success, whereas the help (`main.rs:61`)
   promises "a bootable UEFI tree". `WholeUnlessCut` shows that nothing else gets a
   partial file into use. `ensure_ovmf_vars` has the same shape: on part of a
   variable store QEMU may refuse to run each time, the one exception that
   `RetriesSucceed` makes.

### Observations

These were met while modelling; the models contain the behaviour, and the runs check
what still holds in spite of it.

- *A check can fail on a kernel that booted* (`main.rs:169`). The log is not looked
  at again after the exit status or the clock, so a marker that came in between is
  reported as missing. A check never passes on a
  kernel that did not boot (`OkMeansBooted`).
- *`shell-check` can fail with nothing wrong* (`main.rs:238`). The framebuffer dump
  is validated without waiting for the monitor to write it. That QEMU is then left
  running; `OrphansAreRare` shows that an unreadable log is the only other way to
  do so, and the comment of `OkMeansDumped` what the next check may take it for.
  Only the first 16 bytes of the dump are looked at, so a cut image passes.
- *Frames can be lost*. Callers that race over several ranges can skip frames (a
  delayed store of a range's start arrives when the range is being left), which is
  why `NoneMeansAllGranted` is claimed only as long as one caller alone is inside
  `allocate_frame`, or the table has one range (`NoFrameIsLost`). Nothing in the repository promises otherwise.

## Proofs

Each theorem is for every value of the constants that satisfies the named
assumptions of the module that declares them; TLC evaluates those assumptions on
its instances.

### The allocator and what it was booted with: `FrameAllocatorProofs`, `BootMemoryProofs`

For every set of callers, frame size, table size and set of memory maps satisfying
`SizeAssumption` and `MemoryMapAssumption`:

- `TypeCorrect`: `Spec => []TypeOK`;
- `FramesDisjoint`: `Spec => []GrantsDisjoint`;
- `FramesUsable`: `Spec => []GrantsUsable`;
- `FramesAligned`: `Spec => []GrantsAligned`;
- `RangesNeverRewind`: `Spec => RangeNeverRewinds`;
- `CountsCover`: `Spec => []CountsCoverGrants`;
- `NoneLost`: `Spec => NoFrameIsLost` (in `BootMemoryProofs`).

These are about the allocator alone; the run `memory` checks the same formulas with
boot entry in front of it.

Disjointness is not inductive: it says nothing of the value in `current_frame`
that is about to be granted. The inductive invariant `IInv` adds what the table
guarantees (`TableInv`: ranges are non-empty, apart, and inside usable entries)
and how the two atomics may disagree (`AllocInv`: every grant lies in a range
already entered and, if in the range of `current_frame`, below it; whoever owes the store of a
range's start is alone in doing so, and nothing of that range is granted before
the store). Its heart is that the CAS on `current_range` succeeds once per range,
so each start is stored once. Alignment has an invariant of its own on top
(`AlignInv`): every start in the table, `current_frame` and every local `current`
are on a frame boundary. Counting has another (`CountInv`: the counter is at least
the sum of what the ranges hold), and the theorem follows by numbering the frames
of the table injectively, which needs no induction over the ranges.

`NoneLost` goes the other way, and has two invariants of its own. `SweepInv` holds as
long as callers do not interfere over several ranges: the ranges that were left are
drained, the current one is granted up to `current_frame`, a caller at `advance` has
seen its range drained, and the start still to be stored is that of `current_range`.
`ExactInv` says that with room for every range nothing is counted that the table
lacks. Together, when the last range has been left, what was granted is the table
and the table is the count.

For the composition with boot entry, `SSpec`, under `AnswersAssumption` (each answer
of Limine is one, and the map collected from it is a memory map as above):

- `BootShowsStages`: `SSpec => []StagesAsDocumented`;
- `HaltsAreTellTale`: `SSpec => []HaltRevealsStage`;
- `FramesAreReported`: `SSpec => []FramesReported`.

`StageInv` ties the stage register and the markers that were written to where
`_start` is; `CollectInv` says that what the allocator reads is the prefix of
Limine's map that fits, with Limine's types classified, once control is in
`crate::run`. The allocator's `IInv` is reused as it stands: a step of boot entry
leaves its variables alone, or replaces a map that it has not begun to read.

### The kernel and its scheduler: `KernelProofs`, `SchedulerProofs`

For every list of distinct boot tasks and every table size (`TasksAssumption`):

- `TypeCorrect`, `ExactlyOneRunning` (exactly the current task is Running, and
  `CURRENT_TASK_ID` names it) and `TicksRotate` (ticks go through the tasks in
  order), about `Scheduler`.

About `Kernel`, and besides for any line length, report interval and framebuffers:

- `NeverReentered`: `KSpec => []LocksNotReentered`;
- `StuckOnlyInBoot`: `KSpec => []StuckOnlyWhileBooting`;
- `HandlersEndTheirs`: `KSpec => HandlersEndTheirInterrupt`;
- `KernelRefinesScheduler`: `KSpec => ImplementsScheduler`.

The state of a context is the code it has left, so the invariants are about code.
`LockInv`: a context holds a mutex exactly if the code it has left unlocks it before
it locks it, and every lock ahead is followed by its unlock before the next lock of
the same mutex. It is shown once for each sequence of `KernelCode`, then for each
step that replaces itself by one. Both theorems about mutexes follow: whoever wants
one does not hold it, and a `main` with nothing left holds none. `ServiceInv`: a
handler has its return last and at most one end of interrupt ahead; once
`INITIALIZED` is set, its line is the highest in service until then and out of
service after. `SchedulerInv` places `main` in its boot sequence and says what the
table and the lock-free counters are at each place; after `initialize`,
`CURRENT_TASK_ID` names the current task except while a handler is between
`run_next` and `store_id`. The refinement
then maps the last store of `initialize` to its single step and `run_next` of a tick
to `tick`; every other step stutters. So `ExactlyOneRunning` and `TicksRotate` hold
of the preempted kernel, read through that mapping.

### The other modules

`HeapProofs` proves for any callers, layouts, heap and word size: `TypeCorrect`,
`AllocDisjoint`, `AllocInHeap`, `AllocAligned`, `AllocPanics`, `AllocRefusesRightly`
and `UsageTruthful`, each from the invariant of the same form: what the three stores
of `initialize` have published (`PublishInv`), that a caller's `current` is an
earlier value of `next` and its block fits (`CallerInv`), and that every block lies
below `next` (`BlockInv`). Null and usage are about a step; that rounding up is
monotone carries a refusal computed from an old `next` over to the present one.

`ScreenProofs` proves of `Vga`, for every framebuffer, in any word of at least 16 bits, that the
drawing does not overflow (`DrawingNeverPanics`) and stays inside
(`DrawingStaysInside`). The invariant is the conjunction of both; the work is in
bounding the panel's corners, whose subtractions saturate.

`VfsProofs` proves, under `VfsAssumption` (the special characters are characters,
and a text is not the value that stands for `None`), that slots stay well formed
(`TypeCorrect`), that no two used slots have the same path (`PathsUnique`), and that
the slots implement the map from paths to texts (`Refinement`: `Spec =>
ImplementsVfsSpec`), for any number of slots, any paths and texts, and any limits.
Unique paths are the invariant that the refinement needs: without it the first
slot that matches would hide another one, which would come back when the first is
removed. The proof goes through what a slot shows of its buffers (`WrittenIs`: after
a write of a shorter text the rest of the longer one is there, and is not shown),
and through the number of used slots being the size of the map (`Capacity`), so that
the code says `NoSpace` exactly when the promise does.

`ScreenProofs` proves of `Console`, under `ConsoleAssumption` (the backspace character is not
one that a key types, and no shift key is an extended one), for any keys, tables and
line length: `TerminalIsTheLine`, `ShiftIsReleased` (`ShiftNotStuck`), `CommandsNameFiles` and the refinement `ConsoleRefinesEditor`
(`Spec => ImplementsLineEditor`). `LineInv` says, cell by cell, that the text before the cursor is
the line from where it was torn, and that the rest of the row is blank; the character, blank and
character of a `Backspace` erase one cell at the end because a terminal that puts a
character overwrites (`PutChar`, `PutBS`). `CommandsNameFiles` is about parsing: a
line that was trimmed and split at its first blank, twice for `write`, has named
the file that the call gets.

`XtaskProofs` proves of `QemuCheck`, for any number of checks, of either kind and in any order:
`PassesOnItsOwnLog` (`OkMeansBooted`), `PassesOnItsOwnDump` (`OkMeansDumped`) and
`OrphansStayRare` (`OrphansAreRare`). A check is a list of operations, and what is
left of it is always a suffix of that list (`ProgInv`), so where a check is, is the
length of what is left. `BootInv` then says what verdicts, log and QEMUs may be at
each length; `ShellInv` adds the dump file and the commands that are on their way
to a monitor, the ones for the orphan of an earlier check included.

`XtaskProofs` proves of `Staging`, for any number of kernel versions and failures, wherever an
invocation ends early, `StagingIsFresh` and `UnpacksOnlyVerified`; and
`CachesStayWhole` (`WholeUnlessCut`). Its invariant `CacheInv` says of each step what the
cached loader and the variable store can be there: whole or absent, unless `cut`
names the step that writes them; downloads and copies may be cut anywhere.

### Only proved, only checked

Proved only: alignment of frames and of blocks, unique paths, and the types of
`Heap`. Model-checked only:

- liveness (`CallsReturn`, `AllocReturns`, `BootEndsOrSpins`, `HealthyKeepsTicking`,
  `HealthyRunsEveryTask`, `HealthyReadsKeys`, `ChecksReturn`, `RetriesSucceed`),
  which with everything about ENABLED is outside the prover's reach.

Every invariant, action property and refinement that a passing run checks has a theorem.

## Not modelled

- *CPU exceptions* (`interrupts.rs`): the handlers print and halt, and no statement
  of the kernel raises one; drawing, the only raw memory access, is proved to stay
  inside.
- *Panics after boot entry* (`panic.rs`): the handler prints under `SERIAL` like any
  other code. `NeverPanics` and `PanicsOnlyOnWideAlign` bound where one can start; one
  that starts under `SERIAL`, where no statement panics, would wait for itself.
- *The memory `HEAP_SPACE` is linked into*: it is an immutable `static`, handed out
  as writable. Sections and page permissions are outside these models, and nothing
  in the kernel allocates yet.
- *The UART* (`serial.rs`): polling of the line status register, which an emulated
  or real 16550 always ends.
- *GDT and TSS, address spaces, system call table, storage boundary, process images,
  `aether-abi`, `aether-hal`*: constant tables and pure functions with no state
  and no callers that interleave.
- *xtask's search for tools and firmware, its environment variables, `test`, `build`
  and `help`*: queries of the host, and runs of other tools.
- *Weak memory*: the machine has one CPU, so the atomics of `Heap` and
  `FrameAllocator` are sequentially consistent.
