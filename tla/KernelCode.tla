----------------------------- MODULE KernelCode -----------------------------
(***************************************************************************)
(* What each kernel function does to the state that interrupt handlers     *)
(* share with the code they interrupt, as a sequence of operations: taking *)
(* and releasing the spin mutexes, and named steps that module Kernel      *)
(* gives a meaning.  Text that is printed is abstracted away; that printing*)
(* takes the serial port's mutex is not.  Consecutive printlns are one.    *)
(***************************************************************************)
EXTENDS Sequences

Lock(l)   == <<"lock", l>>
Unlock(l) == <<"unlock", l>>
Do(step)  == <<"do", step>>

\* A MutexGuard alive while body runs
Guarded(l, body) == <<Lock(l)>> \o body \o <<Unlock(l)>>

Mutexes == {"SERIAL", "PICS", "SCHEDULER", "SHIFT_PRESSED", "FRAMEBUFFER", "WRITABLE_FILES", "SHELL"}

\* print!, println!, serial::write_fmt
Println == Guarded("SERIAL", <<>>)

\* The accessors of the current task: lock, copy a field, unlock
CurrentTask == Guarded("SCHEDULER", <<>>)

\* vga::render_boot_visual only complains of a pixel format it cannot draw
RenderBootVisual(framebuffer) == IF framebuffer = "32bpp" THEN <<>> ELSE Println

-----------------------------------------------------------------------------
(* core::init::initialize, run by main                                     *)

InterruptsInit ==
  Guarded("PICS", <<Do("remap_pics")>>) \o <<Do("enable_interrupts"), Do("set_initialized")>>

SchedulerInitialize ==
  Guarded("SCHEDULER", <<Do("add_tasks"), Do("run_next"), Do("store_count"), Do("store_id")>>)

TimerInitialize == <<Do("reset_ticks")>> \o Println

\* Mutant: INITIALIZED is not stored
KeyboardInitialize_NotReady == Println

KeyboardInitialize == <<Do("keyboard_ready")>> \o Println

\* Mutant: the guard is leaked
FramebufferInitialize_Leak(framebuffer) ==
  IF framebuffer = "none" THEN Println
  ELSE <<Lock("FRAMEBUFFER")>> \o RenderBootVisual(framebuffer)

FramebufferInitialize(framebuffer) ==
  IF framebuffer = "none" THEN Println
  ELSE Guarded("FRAMEBUFFER", <<>>) \o RenderBootVisual(framebuffer)

VfsInitialize == Guarded("WRITABLE_FILES", <<>>)

ShellInitialize == Guarded("SHELL", <<Do("shell_ready")>> \o Println)

Report == Println \o CurrentTask \o Println

Boot(framebuffer) ==
  InterruptsInit \o SchedulerInitialize \o TimerInitialize \o KeyboardInitialize
    \o FramebufferInitialize(framebuffer) \o VfsInitialize \o ShellInitialize \o Report

-----------------------------------------------------------------------------
(* Interrupt handlers                                                      *)

\* Mutant: the handler does not end its interrupt
KeyboardHandler_NoEoi == <<Do("on_interrupt"), <<"iret", 1>>>>

TimerHandler    == <<Do("on_tick"), Do("notify_eoi"), <<"iret", 0>>>>
KeyboardHandler == <<Do("on_interrupt"), Do("notify_eoi"), <<"iret", 1>>>>

NotifyEoi == Guarded("PICS", <<Do("eoi")>>)

\* Mutant: the mutex is not taken
SchedulerTick_NoLock == <<Do("run_next"), Do("store_id")>>

SchedulerTick == Guarded("SCHEDULER", <<Do("run_next"), Do("store_id")>>)

\* on_tick, once the tick is counted
OnTick(report) == SchedulerTick \o IF report THEN Println ELSE <<>>

\* decode_scancode and shell::on_key, by kind of scancode
Scancodes == {"shift", "release", "unmapped", "Char", "Enter", "Backspace"}

OnScancode(code) ==
  CASE code \in {"shift", "unmapped"}    -> Guarded("SHIFT_PRESSED", <<>>)
    [] code = "release"                  -> <<>>
    [] code = "Char"                     -> Guarded("SHIFT_PRESSED", <<>>) \o Guarded("SHELL", <<Do(code)>>)
    [] code \in {"Enter", "Backspace"}   -> Guarded("SHELL", <<Do(code)>>)

-----------------------------------------------------------------------------
(* shell::execute_command: what the commands do, by kind                   *)

\* info, tasks: four accessors of the current task, each then printed
ShowTasks ==
  LET ShowField == CurrentTask \o Println
  IN  Println \o ShowField \o ShowField \o ShowField \o ShowField

\* Mutant: the visitor reads each file it lists
ListFiles_Reading == Guarded("WRITABLE_FILES", Guarded("WRITABLE_FILES", <<>>) \o Println)

\* ls: the visitor of for_each_entry prints while the overlay is locked
ListFiles == Guarded("WRITABLE_FILES", Println)

\* cat, write, rm on a path that normalizes; write of acceptable contents
FileCommand == Guarded("WRITABLE_FILES", <<>>) \o Println

\* clear: the guard of redraw_boot_shell_surface lives to the end of its `if let`
Clear(framebuffer) == Guarded("FRAMEBUFFER", RenderBootVisual(framebuffer)) \o Println

\* The rest (help, ticks, mem, storage, unknown, usage and path errors) print.
Commands(framebuffer) == {Println, ShowTasks, ListFiles, FileCommand, Clear(framebuffer)}

\* A line of blanks executes nothing.
Lines(framebuffer) == {<<>>} \cup Commands(framebuffer)
=============================================================================
