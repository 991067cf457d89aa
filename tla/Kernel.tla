------------------------------- MODULE Kernel -------------------------------
(***************************************************************************)
(* The running kernel: one CPU on which main executes core::init and then  *)
(* halts, the timer and keyboard interrupts that preempt it, the spin      *)
(* mutexes both sides take, and the devices that raise the interrupts.     *)
(* Handlers run with interrupts disabled (interrupt gates), so at most one *)
(* is active and it spins forever on a mutex that main holds.              *)
(*                                                                         *)
(* The scheduler's state and operators are those of module Scheduler; here *)
(* its critical sections are taken apart.                                  *)
(***************************************************************************)
EXTENDS Scheduler, KernelCode

CONSTANTS
  TICK_REPORT,    \* on_tick prints on every TICK_REPORT-th tick (100)
  MAX_LINE_LEN,   \* capacity of the shell's line buffer (128)
  Framebuffers    \* what the boot loader may report: "none", "32bpp", "other"

VARIABLES
  framebuffer,    \* boot_info.framebuffer
  code,           \* operations left: of main, and of the active handler
  interrupt_flag, \* RFLAGS.IF
  holder,         \* of each mutex: a context, or "free"
  irr, isr,       \* master 8259: requested and in-service lines
  output_full,    \* the 8042 holds a scancode nobody has read
  INITIALIZED,    \* interrupts::INITIALIZED
  keyboard_ready, \* keyboard::INITIALIZED
  shell_ready,    \* Shell::initialized
  len,            \* Shell::len
  TICKS           \* modulo TICK_REPORT

cpu      == <<code, interrupt_flag>>
devices  == <<irr, isr, output_full>>
flags    == <<INITIALIZED, keyboard_ready, shell_ready>>
scheduler == vars
kvars    == <<framebuffer, cpu, holder, devices, flags, len, TICKS, scheduler>>

Contexts == {"main", "irq"}
Lines8259 == {0, 1}     \* IRQ0 is the timer, IRQ1 the keyboard

KInit ==
  /\ framebuffer \in Framebuffers
  /\ code = [main |-> Boot(framebuffer), irq |-> <<>>]
  /\ interrupt_flag = FALSE
  /\ holder = [l \in Mutexes |-> "free"]
  /\ irr = {} /\ isr = {} /\ output_full = FALSE
  /\ INITIALIZED = FALSE /\ keyboard_ready = FALSE /\ shell_ready = FALSE
  /\ len = 0
  /\ TICKS = 0
  /\ Init

-----------------------------------------------------------------------------
(* Executing one operation                                                 *)

Running == IF code.irq # <<>> THEN "irq" ELSE "main"

\* The running context c is about to execute op.
At(c, op) == c = Running /\ code[c] # <<>> /\ Head(code[c]) = op

\* The operation of c is replaced by what is left of it.
Continue(c, rest) == code' = [code EXCEPT ![c] = rest \o Tail(@)]

\* spin::Mutex::lock succeeds; while the mutex is taken the context spins.
Acquire(c, l) ==
  /\ At(c, Lock(l))
  /\ holder[l] = "free"
  /\ holder' = [holder EXCEPT ![l] = c]
  /\ Continue(c, <<>>)
  /\ UNCHANGED <<framebuffer, interrupt_flag, devices, flags, len, TICKS, scheduler>>

Release(c, l) ==
  /\ At(c, Unlock(l))
  /\ holder' = [holder EXCEPT ![l] = "free"]
  /\ Continue(c, <<>>)
  /\ UNCHANGED <<framebuffer, interrupt_flag, devices, flags, len, TICKS, scheduler>>

-----------------------------------------------------------------------------
(* Named steps of main                                                     *)

\* ChainedPics::initialize: ICW1 forgets latched requests, both lines are unmasked
RemapPics ==
  /\ At("main", Do("remap_pics"))
  /\ irr' = {} /\ isr' = {}
  /\ Continue("main", <<>>)
  /\ UNCHANGED <<framebuffer, interrupt_flag, output_full, holder, flags, len, TICKS, scheduler>>

EnableInterrupts ==
  /\ At("main", Do("enable_interrupts"))
  /\ interrupt_flag' = TRUE
  /\ Continue("main", <<>>)
  /\ UNCHANGED <<framebuffer, holder, devices, flags, len, TICKS, scheduler>>

SetInitialized ==
  /\ At("main", Do("set_initialized"))
  /\ INITIALIZED' = TRUE
  /\ Continue("main", <<>>)
  /\ UNCHANGED <<framebuffer, interrupt_flag, holder, devices, keyboard_ready, shell_ready, len, TICKS, scheduler>>

ResetTicks ==
  /\ At("main", Do("reset_ticks"))
  /\ TICKS' = 0
  /\ Continue("main", <<>>)
  /\ UNCHANGED <<framebuffer, interrupt_flag, holder, devices, flags, len, scheduler>>

KeyboardReady ==
  /\ At("main", Do("keyboard_ready"))
  /\ keyboard_ready' = TRUE
  /\ Continue("main", <<>>)
  /\ UNCHANGED <<framebuffer, interrupt_flag, holder, devices, INITIALIZED, shell_ready, len, TICKS, scheduler>>

ShellReady ==
  /\ At("main", Do("shell_ready"))
  /\ shell_ready' = TRUE
  /\ Continue("main", <<>>)
  /\ UNCHANGED <<framebuffer, interrupt_flag, holder, devices, INITIALIZED, keyboard_ready, len, TICKS, scheduler>>

-----------------------------------------------------------------------------
(* The scheduler's steps, by main in `initialize` and by the timer in tick *)

SchedulerStep(c, step) ==
  /\ At(c, Do(step))
  /\ Continue(c, <<>>)
  /\ UNCHANGED <<framebuffer, interrupt_flag, holder, devices, flags, len, TICKS>>

AddTasks ==
  /\ SchedulerStep("main", "add_tasks")
  /\ tasks' = Added
  /\ UNCHANGED <<current, TASK_COUNT, CURRENT_TASK_ID>>

RunNextTask(c) ==
  /\ SchedulerStep(c, "run_next")
  /\ tasks' = RunNext(tasks, current)
  /\ current' = NextIndex(tasks, current)
  /\ UNCHANGED <<TASK_COUNT, CURRENT_TASK_ID>>

StoreCount ==
  /\ SchedulerStep("main", "store_count")
  /\ TASK_COUNT' = Len(tasks)
  /\ UNCHANGED <<tasks, current, CURRENT_TASK_ID>>

StoreId(c) ==
  /\ SchedulerStep(c, "store_id")
  /\ CURRENT_TASK_ID' = TaskIdAt(tasks, current)
  /\ UNCHANGED <<tasks, current, TASK_COUNT>>

-----------------------------------------------------------------------------
(* Named steps of the handlers                                             *)

\* Mutant: the counter saturates
CountTick_Saturates ==
  /\ At("irq", Do("on_tick"))
  /\ TICKS' = IF TICKS + 1 < TICK_REPORT THEN TICKS + 1 ELSE TICKS
  /\ Continue("irq", OnTick(TICKS' = TICKS))
  /\ UNCHANGED <<framebuffer, interrupt_flag, holder, devices, flags, len, scheduler>>

CountTick ==
  /\ At("irq", Do("on_tick"))
  /\ TICKS' = (TICKS + 1) % TICK_REPORT
  /\ Continue("irq", OnTick(TICKS' = 0))
  /\ UNCHANGED <<framebuffer, interrupt_flag, holder, devices, flags, len, scheduler>>

\* keyboard::on_interrupt before the driver is up: the scancode is not read
IgnoreKey ==
  /\ At("irq", Do("on_interrupt"))
  /\ ~ keyboard_ready
  /\ Continue("irq", <<>>)
  /\ UNCHANGED <<framebuffer, interrupt_flag, holder, devices, flags, len, TICKS, scheduler>>

ReadKey ==
  /\ At("irq", Do("on_interrupt"))
  /\ keyboard_ready
  /\ output_full' = FALSE
  /\ \E scancode \in Scancodes : Continue("irq", OnScancode(scancode))
  /\ UNCHANGED <<framebuffer, interrupt_flag, holder, irr, isr, flags, len, TICKS, scheduler>>

\* Shell::on_key
ShellKey(event, newLen, rest) ==
  /\ At("irq", Do(event))
  /\ len' = newLen
  /\ Continue("irq", rest)
  /\ UNCHANGED <<framebuffer, interrupt_flag, holder, devices, flags, TICKS, scheduler>>

KeyBeforeShell(event) == ~ shell_ready /\ ShellKey(event, len, <<>>)

Enter ==
  /\ shell_ready
  /\ \E line \in IF len = 0 THEN {<<>>} ELSE Lines(framebuffer) :
       ShellKey("Enter", 0, Println \o line \o Println)

Backspace ==
  /\ shell_ready
  /\ IF len > 0 THEN ShellKey("Backspace", len - 1, Println) ELSE ShellKey("Backspace", 0, <<>>)

Char ==
  /\ shell_ready
  /\ ShellKey("Char", IF len < MAX_LINE_LEN THEN len + 1 ELSE 0, Println)

\* Mutant: the handler waits for INITIALIZED
NotifyEndOfInterrupt_Waits ==
  /\ At("irq", Do("notify_eoi"))
  /\ INITIALIZED
  /\ Continue("irq", NotifyEoi)
  /\ UNCHANGED <<framebuffer, interrupt_flag, holder, devices, flags, len, TICKS, scheduler>>

\* interrupts::notify_end_of_interrupt
NotifyEndOfInterrupt ==
  /\ At("irq", Do("notify_eoi"))
  /\ Continue("irq", IF INITIALIZED THEN NotifyEoi ELSE <<>>)
  /\ UNCHANGED <<framebuffer, interrupt_flag, holder, devices, flags, len, TICKS, scheduler>>

Highest(ls) == {n \in ls : \A m \in ls : n <= m}

\* The command 0x20 is a non-specific EOI: it ends the highest line in service.
EndOfInterrupt ==
  /\ At("irq", Do("eoi"))
  /\ isr' = isr \ Highest(isr)
  /\ Continue("irq", <<>>)
  /\ UNCHANGED <<framebuffer, interrupt_flag, holder, irr, output_full, flags, len, TICKS, scheduler>>

InterruptReturn(n) ==
  /\ At("irq", <<"iret", n>>)
  /\ interrupt_flag' = TRUE
  /\ Continue("irq", <<>>)
  /\ UNCHANGED <<framebuffer, holder, devices, flags, len, TICKS, scheduler>>

-----------------------------------------------------------------------------
(* Devices                                                                 *)

Handler(n) == IF n = 0 THEN TimerHandler ELSE KeyboardHandler

Serving(n) == code.irq # <<>> /\ code.irq[Len(code.irq)] = <<"iret", n>>

\* The 8259 raises a request that no line of its priority or above blocks.
Deliver(n) ==
  /\ interrupt_flag /\ code.irq = <<>>
  /\ n \in Highest(irr)
  /\ \A m \in isr : n < m
  /\ irr' = irr \ {n}
  /\ isr' = isr \cup {n}
  /\ interrupt_flag' = FALSE
  /\ code' = [code EXCEPT !.irq = Handler(n)]
  /\ UNCHANGED <<framebuffer, holder, output_full, flags, len, TICKS, scheduler>>

\* A tick that comes while the timer's handler runs is latched until it
\* returns, which is no different from one that comes as it returns.
TimerFires ==
  /\ 0 \notin irr /\ ~ Serving(0)
  /\ irr' = irr \cup {0}
  /\ UNCHANGED <<framebuffer, cpu, holder, isr, output_full, flags, len, TICKS, scheduler>>

\* The line is edge triggered: it rises when the output buffer fills.
KeyPressed ==
  /\ ~ output_full
  /\ output_full' = TRUE
  /\ irr' = irr \cup {1}
  /\ UNCHANGED <<framebuffer, cpu, holder, isr, flags, len, TICKS, scheduler>>

-----------------------------------------------------------------------------

Locking(c) == \E l \in Mutexes : Acquire(c, l) \/ Release(c, l)

MainStep ==
  \/ Locking("main")
  \/ RemapPics \/ EnableInterrupts \/ SetInitialized
  \/ ResetTicks \/ KeyboardReady \/ ShellReady
  \/ AddTasks \/ RunNextTask("main") \/ StoreCount \/ StoreId("main")

HandlerStep ==
  \/ Locking("irq")
  \/ CountTick \/ RunNextTask("irq") \/ StoreId("irq")
  \/ IgnoreKey \/ ReadKey
  \/ \E event \in {"Enter", "Backspace", "Char"} : KeyBeforeShell(event)
  \/ Enter \/ Backspace \/ Char
  \/ NotifyEndOfInterrupt \/ EndOfInterrupt
  \/ \E n \in Lines8259 : InterruptReturn(n)

KNext ==
  \/ MainStep \/ HandlerStep
  \/ \E n \in Lines8259 : Deliver(n)
  \/ TimerFires \/ KeyPressed

KSpec == KInit /\ [][KNext]_kvars

(***************************************************************************)
(* Fairness.  The CPU executes the code of whichever context runs, and     *)
(* main gets instructions in between interrupts, since a tick's handler is *)
(* shorter than the 10 ms to the next (strong: main is disabled while a    *)
(* handler runs).  The PIT keeps counting, and the 8259 delivers a request *)
(* that is again and again deliverable.  Nobody has to press keys.         *)
(***************************************************************************)
KFairness ==
  /\ SF_kvars(MainStep) /\ WF_kvars(HandlerStep) /\ WF_kvars(TimerFires)
  /\ \A n \in Lines8259 : SF_kvars(Deliver(n))

KFairSpec == KSpec /\ KFairness

-----------------------------------------------------------------------------
(* Safety                                                                  *)

Wants(c, l) == code[c] # <<>> /\ Head(code[c]) = Lock(l)

(* No path through the kernel locks a mutex it already holds: not the      *)
(* shell's commands, which run under SHELL and print, list files and read  *)
(* the scheduler, nor redraw_boot_shell_surface and for_each_entry, which  *)
(* print under a guard.  Every mutex spins, so this would never end.       *)
LocksNotReentered == \A c \in Contexts, l \in Mutexes : Wants(c, l) => holder[l] # c

Booted   == code.main = <<>>
Spinning == \E l \in Mutexes : Wants("irq", l) /\ holder[l] # "free"

(* The only thing a handler can ever wait for is a mutex of main, and only *)
(* before main reaches the hlt loop: once the kernel is up, no command, no *)
(* key and no tick can hang it.                                            *)
StuckOnlyWhileBooting ==
  \A l \in Mutexes : Wants("irq", l) /\ holder[l] # "free" => holder[l] = "main" /\ ~ Booted

(* A handler that returns after INITIALIZED is set has ended its own       *)
(* interrupt at the 8259, even though the EOI names no line and another    *)
(* line may be in service, left there by an interrupt that came too early. *)
HandlersEndTheirInterrupt ==
  [][\A n \in Lines8259 : InterruptReturn(n) /\ INITIALIZED => n \notin isr']_kvars

-----------------------------------------------------------------------------
(* Refinement: the critical sections of scheduler::initialize and of       *)
(* scheduler::tick, preempted or not, look like the single steps of module *)
(* Scheduler.  `initialize` takes effect with its last store; a tick with  *)
(* run_next, its CURRENT_TASK_ID being read as already stored.             *)

Initializing == \E k \in DOMAIN code.main : code.main[k] = Do("store_id")

Atomic ==
  INSTANCE Scheduler WITH
    tasks           <- IF Initializing THEN <<>> ELSE tasks,
    current         <- IF Initializing THEN NONE ELSE current,
    TASK_COUNT      <- IF Initializing THEN 0 ELSE TASK_COUNT,
    CURRENT_TASK_ID <- IF Initializing THEN NONE
                       ELSE IF holder["SCHEDULER"] = "irq" THEN TaskIdAt(tasks, current)
                       ELSE CURRENT_TASK_ID

(* The preemptible kernel implements the atomic scheduler.                 *)
ImplementsScheduler == Atomic!Spec

-----------------------------------------------------------------------------
(* Liveness                                                                *)

(* Boot either reaches the hlt loop or ends with a handler spinning on a   *)
(* mutex of main; nothing else stops it.                                   *)
BootEndsOrSpins == <>(Booted \/ Spinning)

\* Up, with no early interrupt left in service
Healthy == Booted /\ code.irq = <<>> /\ isr = {}

(* A kernel that came up healthy ticks forever, through any keys and       *)
(* commands: every value of the tick counter comes again and again.        *)
HealthyKeepsTicking == \A t \in 0 .. TICK_REPORT - 1 : <>Healthy => []<>(TICKS = t)

(* ... and every task is the current task again and again, as the rotation *)
(* of scheduler::tick goes on.                                             *)
HealthyRunsEveryTask == \A k \in DOMAIN Added : <>Healthy => []<>(CURRENT_TASK_ID = Added[k].id)

(* ... and a key whose interrupt request is latched is read in the end,    *)
(* although the timer has priority over the keyboard.                      *)
HealthyReadsKeys == Healthy /\ 1 \in irr ~> ~ output_full

-----------------------------------------------------------------------------
(* What the documents promise                                              *)

(* Boot reaches "AetherOS: kernel initialized" and the hlt loop.           *)
BootCompletes == <>Booted

(* Timer interrupts generate ticks: once the kernel is up and idle, the    *)
(* tick counter moves on.                                                  *)
TimerGeneratesTicks == \A t \in 0 .. TICK_REPORT - 1 : Booted /\ code.irq = <<>> ~> TICKS = t

(* Keyboard input reaches the shell: the keyboard's handler never returns  *)
(* with a scancode left in the controller and no request to come back for  *)
(* it, since a full output buffer makes no further edge.                   *)
KeyReachesShell ==
  [][InterruptReturn(1) => ~ output_full \/ 1 \in irr]_kvars
=============================================================================
