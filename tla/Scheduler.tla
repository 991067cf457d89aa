----------------------------- MODULE Scheduler ------------------------------
(***************************************************************************)
(* The round-robin scheduler of kernel/src/task/scheduler.rs as its users  *)
(* see it: `initialize` and `tick` each run under the SCHEDULER mutex and  *)
(* are one step here.  Module Kernel takes them apart, with the interrupts *)
(* that arrive in between, and is checked to implement this specification. *)
(***************************************************************************)
EXTENDS Integers, Sequences

CONSTANTS
  MAX_TASKS,   \* slots of the task table
  BootTasks    \* ids passed to `add` by `initialize`, in order: <<0, 1>>

ASSUME TasksAssumption ==
  /\ MAX_TASKS \in Nat
  /\ BootTasks \in Seq(Nat)
  /\ \A j, k \in DOMAIN BootTasks : BootTasks[j] = BootTasks[k] => j = k

VARIABLES
  tasks,            \* Scheduler::tasks[0..len-1], element i at tasks[i + 1]
  current,          \* Scheduler::current
  TASK_COUNT,
  CURRENT_TASK_ID

vars == <<tasks, current, TASK_COUNT, CURRENT_TASK_ID>>

NONE   == -1        \* None, and usize::MAX in CURRENT_TASK_ID
States == {"Ready", "Running", "Idle"}

\* The table after the calls of `add`: those beyond MAX_TASKS are ignored.
Added ==
  [k \in 1 .. (IF Len(BootTasks) < MAX_TASKS THEN Len(BootTasks) ELSE MAX_TASKS) |->
     [id |-> BootTasks[k], state |-> "Ready"]]

\* Mutant: the index does not wrap
NextIndex_NoWrap(ts, cur) ==
  IF Len(ts) = 0 THEN cur ELSE IF cur + 1 < Len(ts) THEN cur + 1 ELSE cur

\* run_next, on a table ts with current index cur
NextIndex(ts, cur) ==
  IF Len(ts) = 0 THEN cur ELSE IF cur = NONE THEN 0 ELSE (cur + 1) % Len(ts)

RunNext(ts, cur) ==
  [k \in DOMAIN ts |->
     [id    |-> ts[k].id,
      state |-> IF k = NextIndex(ts, cur) + 1 THEN "Running"
                ELSE IF k # cur + 1 THEN ts[k].state
                ELSE IF ts[k].id = 0 THEN "Idle" ELSE "Ready"]]

\* Scheduler::current_task_id
TaskIdAt(ts, cur) == IF cur = NONE THEN NONE ELSE ts[cur + 1].id

-----------------------------------------------------------------------------

Init ==
  /\ tasks = <<>>
  /\ current = NONE
  /\ TASK_COUNT = 0
  /\ CURRENT_TASK_ID = NONE

\* run_next and the store of CURRENT_TASK_ID that follows it, from table ts
Rotate(ts) ==
  /\ tasks' = RunNext(ts, current)
  /\ current' = NextIndex(ts, current)
  /\ CURRENT_TASK_ID' = TaskIdAt(tasks', current')

\* A tick may come before `initialize`: run_next returns at once.
Tick ==
  /\ Rotate(tasks)
  /\ UNCHANGED TASK_COUNT

Initialize ==
  /\ tasks = <<>>
  /\ Rotate(Added)
  /\ TASK_COUNT' = Len(Added)

Next == Initialize \/ Tick

Spec == Init /\ [][Next]_vars

-----------------------------------------------------------------------------

(* Task records and indices are well formed.                               *)
TypeOK ==
  /\ tasks \in Seq([id : Nat, state : States])
  /\ current \in {NONE} \cup 0 .. Len(tasks) - 1
  /\ TASK_COUNT \in Nat
  /\ CURRENT_TASK_ID \in {NONE} \cup Nat

(* Exactly the task that run_next selected is Running, the lock-free       *)
(* CURRENT_TASK_ID names it, and the idle task (id 0) waits as Idle once   *)
(* it has run while every other task waits as Ready.                       *)
OneRunning ==
  /\ \A k \in DOMAIN tasks : tasks[k].state = "Running" <=> k = current + 1
  /\ \A k \in DOMAIN tasks : tasks[k].state = "Idle" => tasks[k].id = 0
  /\ CURRENT_TASK_ID = TaskIdAt(tasks, current)
  /\ TASK_COUNT = Len(tasks)
  /\ tasks # <<>> => current # NONE

(* A tick never starves a task out of order: the task that runs next is    *)
(* the one that follows the running task in the order `add` was called,    *)
(* and the set of task ids never changes once the scheduler is up.         *)
RoundRobin ==
  [][tasks # <<>> =>
       /\ DOMAIN tasks' = DOMAIN tasks
       /\ \A k \in DOMAIN tasks : tasks'[k].id = tasks[k].id
       /\ CURRENT_TASK_ID' = BootTasks[((current + 1) % Len(tasks)) + 1]]_vars
=============================================================================
