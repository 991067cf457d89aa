-------------------------- MODULE SchedulerProofs ---------------------------
(***************************************************************************)
(* Proofs about the scheduler, for any tasks and table size: as its users  *)
(* see it, with operations that are single steps, and as the kernel takes  *)
(* them apart, with critical sections that implement those steps.          *)
(***************************************************************************)
EXTENDS KernelProofs

-----------------------------------------------------------------------------
(* The scheduler: one task runs, and they take turns                       *)

\* An entry of the task table
Record == [id : Nat, state : States]

\* The table never holds anything but the tasks `initialize` added.
FromBoot ==
  tasks # <<>> =>
    Len(tasks) <= Len(BootTasks) /\ \A k \in DOMAIN tasks : tasks[k].id = BootTasks[k]

\* The inductive invariant of the scheduler
IInv == TypeOK /\ OneRunning /\ FromBoot

(* The tasks that `initialize` adds are tasks.                             *)
LEMMA AddedTyped ==
  /\ Added \in Seq(Record)
  /\ Len(Added) <= Len(BootTasks)
  /\ \A k \in DOMAIN Added : Added[k].id = BootTasks[k] /\ Added[k].state = "Ready"
<1> DEFINE n == IF Len(BootTasks) < MAX_TASKS THEN Len(BootTasks) ELSE MAX_TASKS
<1>1. n \in Nat /\ n <= Len(BootTasks)
  BY TasksAssumption
<1>2. \A k \in 1 .. n : [id |-> BootTasks[k], state |-> "Ready"] \in Record
  BY <1>1, TasksAssumption DEF Record, States
<1>3. Added = [k \in 1 .. n |-> [id |-> BootTasks[k], state |-> "Ready"]]
  BY Zenon DEF Added
<1> HIDE DEF n
<1>4. Added \in Seq(Record) /\ Len(Added) = n /\ DOMAIN Added = 1 .. n
  BY <1>1, <1>2, <1>3
<1> QED
  BY <1>1, <1>3, <1>4, Zenon

(* run_next selects a task of the table.                                   *)
LEMMA NextIndexTyped ==
  ASSUME NEW ts \in Seq(Record), NEW cur \in {NONE} \cup 0 .. Len(ts) - 1
  PROVE  /\ NextIndex(ts, cur) \in {NONE} \cup 0 .. Len(ts) - 1
         /\ ts # <<>> => NextIndex(ts, cur) \in 0 .. Len(ts) - 1
<1>1. Len(ts) \in Nat /\ (ts # <<>> <=> Len(ts) # 0)
  OBVIOUS
<1>2. ASSUME Len(ts) # 0 PROVE (cur + 1) % Len(ts) \in 0 .. Len(ts) - 1
  BY <1>1, <1>2 DEF NONE
<1> QED
  BY <1>1, <1>2 DEF NextIndex

\* One rotation of a table that satisfies the invariant, or of a fresh one.
LEMMA RotateStep ==
  ASSUME NEW ts \in Seq(Record), current \in {NONE} \cup 0 .. Len(ts) - 1,
         \A k \in DOMAIN ts : ts[k].state = "Running" => k = current + 1,
         \A k \in DOMAIN ts : ts[k].state = "Idle" => ts[k].id = 0,
         Rotate(ts)
  PROVE  /\ tasks' \in Seq(Record) /\ Len(tasks') = Len(ts) /\ DOMAIN tasks' = DOMAIN ts
         /\ \A k \in DOMAIN ts : tasks'[k].id = ts[k].id
         /\ \A k \in DOMAIN ts : tasks'[k].state = "Running" <=> k = current' + 1
         /\ \A k \in DOMAIN ts : tasks'[k].state = "Idle" => tasks'[k].id = 0
         /\ current' \in {NONE} \cup 0 .. Len(ts) - 1
         /\ ts # <<>> => current' # NONE
         /\ CURRENT_TASK_ID' \in {NONE} \cup Nat
         /\ CURRENT_TASK_ID' = TaskIdAt(tasks', current')
<1> DEFINE n == NextIndex(ts, current)
           rec(k) == [id |-> ts[k].id,
                      state |-> IF k = n + 1 THEN "Running"
                                ELSE IF k # current + 1 THEN ts[k].state
                                ELSE IF ts[k].id = 0 THEN "Idle" ELSE "Ready"]
<1>1. n \in {NONE} \cup 0 .. Len(ts) - 1 /\ (ts # <<>> => n \in 0 .. Len(ts) - 1)
  BY NextIndexTyped, Zenon
<1>2. current' = n /\ tasks' = [k \in DOMAIN ts |-> rec(k)] /\ CURRENT_TASK_ID' = TaskIdAt(tasks', current')
  BY Zenon DEF Rotate, RunNext
<1>3. \A k \in DOMAIN ts : ts[k] \in Record
  OBVIOUS
<1> HIDE DEF n
<1>4. \A k \in DOMAIN ts : rec(k) \in Record
  BY <1>3, Zenon DEF Record, States
<1>5. Len(ts) \in Nat /\ DOMAIN ts = 1 .. Len(ts)
  OBVIOUS
<1>6. tasks' \in Seq(Record) /\ Len(tasks') = Len(ts) /\ DOMAIN tasks' = DOMAIN ts
  BY <1>2, <1>4, <1>5
<1>7. \A k \in DOMAIN ts : tasks'[k] = rec(k) /\ tasks'[k].id = ts[k].id
  BY <1>2, Zenon
<1>8. \A k \in DOMAIN ts : rec(k).state = "Running" <=> k = n + 1
  BY Zenon DEF NONE
<1>9. \A k \in DOMAIN ts : rec(k).state = "Idle" => rec(k).id = 0
  BY Zenon
<1>10. CURRENT_TASK_ID' \in {NONE} \cup Nat
  <2>1. CASE n = NONE
    BY <1>2, <2>1, Zenon DEF TaskIdAt
  <2>2. CASE n # NONE
    <3>1. n + 1 \in DOMAIN ts
      BY <1>1, <1>5, <2>2
    <3>2. tasks'[n + 1].id = ts[n + 1].id
      BY <1>7, <3>1, Zenon
    <3>3. ts[n + 1].id \in Nat
      BY <1>3, <3>1, Zenon DEF Record
    <3> QED
      BY <1>2, <2>2, <3>2, <3>3, Zenon DEF TaskIdAt
  <2> QED
    BY <2>1, <2>2, Zenon
<1> QED
  BY <1>1, <1>2, <1>6, <1>7, <1>8, <1>9, <1>10 DEF NONE

(* The initial states satisfy the inductive invariant.                     *)
LEMMA InitInv == Init => IInv
  BY DEF Init, IInv, TypeOK, OneRunning, FromBoot, TaskIdAt, NONE

(* Every step keeps the inductive invariant.                               *)
LEMMA InvNext == IInv /\ [Next]_vars => IInv'
<1> SUFFICES ASSUME IInv, [Next]_vars PROVE IInv'
  BY Zenon
<1> USE DEF IInv
<1>1. CASE Initialize
  <2>1. current \in {NONE} \cup 0 .. Len(Added) - 1 /\ current = NONE
    BY <1>1 DEF Initialize, TypeOK
  <2>2. /\ \A k \in DOMAIN Added : Added[k].state = "Running" => k = current + 1
        /\ \A k \in DOMAIN Added : Added[k].state = "Idle" => Added[k].id = 0
    BY AddedTyped, Zenon
  <2>3. Rotate(Added) /\ TASK_COUNT' = Len(Added)
    BY <1>1, Zenon DEF Initialize
  <2>4. /\ tasks' \in Seq(Record) /\ Len(tasks') = Len(Added) /\ DOMAIN tasks' = DOMAIN Added
        /\ \A k \in DOMAIN Added : tasks'[k].id = Added[k].id
        /\ \A k \in DOMAIN Added : tasks'[k].state = "Running" <=> k = current' + 1
        /\ \A k \in DOMAIN Added : tasks'[k].state = "Idle" => tasks'[k].id = 0
        /\ current' \in {NONE} \cup 0 .. Len(Added) - 1
        /\ Added # <<>> => current' # NONE
        /\ CURRENT_TASK_ID' \in {NONE} \cup Nat
        /\ CURRENT_TASK_ID' = TaskIdAt(tasks', current')
    BY <2>1, <2>2, <2>3, AddedTyped, RotateStep, Zenon
  <2> QED
    BY <2>3, <2>4, AddedTyped DEF TypeOK, OneRunning, FromBoot, Record
<1>2. CASE Tick
  <2>1. tasks \in Seq(Record) /\ Rotate(tasks) /\ TASK_COUNT' = TASK_COUNT
    BY <1>2, Zenon DEF Tick, TypeOK, Record
  <2>2. /\ tasks' \in Seq(Record) /\ Len(tasks') = Len(tasks) /\ DOMAIN tasks' = DOMAIN tasks
        /\ \A k \in DOMAIN tasks : tasks'[k].id = tasks[k].id
        /\ \A k \in DOMAIN tasks : tasks'[k].state = "Running" <=> k = current' + 1
        /\ \A k \in DOMAIN tasks : tasks'[k].state = "Idle" => tasks'[k].id = 0
        /\ current' \in {NONE} \cup 0 .. Len(tasks) - 1
        /\ tasks # <<>> => current' # NONE
        /\ CURRENT_TASK_ID' \in {NONE} \cup Nat
        /\ CURRENT_TASK_ID' = TaskIdAt(tasks', current')
    BY <2>1, RotateStep, Zenon DEF TypeOK, OneRunning
  <2> QED
    BY <2>1, <2>2 DEF TypeOK, OneRunning, FromBoot, Record
<1>3. CASE UNCHANGED vars
  BY <1>3, Zenon DEF vars, TypeOK, OneRunning, FromBoot, TaskIdAt
<1> QED
  BY <1>1, <1>2, <1>3, Zenon DEF Next

(* The inductive invariant holds throughout.                               *)
LEMMA Invariance == Spec => []IInv
  BY InitInv, InvNext, PTL DEF Spec

(* The scheduler's records and indices stay well formed for any task list. *)
THEOREM TypeCorrect == Spec => []TypeOK
  BY Invariance, PTL DEF IInv

(* Whatever tasks are added and however many ticks come, before or after   *)
(* `initialize`, exactly one task is Running and CURRENT_TASK_ID names it. *)
THEOREM ExactlyOneRunning == Spec => []OneRunning
  BY Invariance, PTL DEF IInv

(* The table is fixed after `initialize` and every tick hands the CPU to   *)
(* the next task of it, wrapping from the last to the first.               *)
THEOREM TicksRotate == Spec => RoundRobin
<1> DEFINE A == tasks # <<>> =>
                  /\ DOMAIN tasks' = DOMAIN tasks
                  /\ \A k \in DOMAIN tasks : tasks'[k].id = tasks[k].id
                  /\ CURRENT_TASK_ID' = BootTasks[((current + 1) % Len(tasks)) + 1]
<1>1. IInv /\ [Next]_vars => [A]_vars
  <2> SUFFICES ASSUME IInv, Next, tasks # <<>>
               PROVE  /\ DOMAIN tasks' = DOMAIN tasks
                      /\ \A k \in DOMAIN tasks : tasks'[k].id = tasks[k].id
                      /\ CURRENT_TASK_ID' = BootTasks[((current + 1) % Len(tasks)) + 1]
    BY Zenon
  <2> USE DEF IInv
  <2>1. Tick
    BY Zenon DEF Next, Initialize
  <2>2. Len(tasks) \in Nat \ {0} /\ DOMAIN tasks = 1 .. Len(tasks) /\ current \in 0 .. Len(tasks) - 1
    BY DEF TypeOK, OneRunning
  <2>3. PICK n \in 0 .. Len(tasks) - 1 : n = (current + 1) % Len(tasks)
    BY <2>2
  <2>4. current' = n /\ CURRENT_TASK_ID' = tasks'[n + 1].id
    BY <2>1, <2>2, <2>3 DEF Tick, Rotate, NextIndex, TaskIdAt, NONE
  <2>5. DOMAIN tasks' = DOMAIN tasks /\ \A k \in DOMAIN tasks : tasks'[k].id = tasks[k].id
    BY <2>1, Zenon DEF Tick, Rotate, RunNext
  <2>6. n + 1 \in DOMAIN tasks
    BY <2>2
  <2> QED
    BY <2>3, <2>4, <2>5, <2>6, Zenon DEF FromBoot
<1> QED
  BY <1>1, Invariance, PTL DEF Spec, RoundRobin

-----------------------------------------------------------------------------
(* The scheduler, taken apart                                              *)

\* The steps of `initialize` and `tick`
SchedulerOps == {Do("add_tasks"), Do("run_next"), Do("store_count"), Do("store_id")}

\* Where main is in Boot(framebuffer): the next operation is number Position
Position == Len(Boot(framebuffer)) - Len(code["main"]) + 1

\* What main has left is the rest of Boot(framebuffer).
MainInv ==
  /\ Len(code["main"]) <= Len(Boot(framebuffer))
  /\ \A k \in DOMAIN code["main"] : code["main"][k] = Boot(framebuffer)[Position - 1 + k]

\* After run_next comes the store of the id.
Sequenced(s) ==
  \A k \in DOMAIN s : s[k] = Do("run_next") => k + 1 \in DOMAIN s /\ s[k + 1] = Do("store_id")

\* The handler is between run_next and the store.
Storing == code["irq"] # <<>> /\ Head(code["irq"]) = Do("store_id")

\* The scheduler's state by how far `initialize` is, operations 7 to 10 of main
DataInv ==
  /\ Position <= 7 => Init
  /\ Position = 8 => tasks = Added /\ current = NONE
  /\ Position \in {9, 10} => tasks = RunNext(Added, NONE) /\ current = NextIndex(Added, NONE)
  /\ Position = 10 => TASK_COUNT = Len(Added)
  /\ Position > 10 => Storing \/ CURRENT_TASK_ID = TaskIdAt(tasks, current)

\* Main, the handler and the scheduler's state agree.
SchedulerInv == MainInv /\ Sequenced(code["irq"]) /\ DataInv

(* No step of the scheduler is in code that consists of other operations.  *)
LEMMA NoSchedulerOps ==
  /\ \A l : Lock(l) \notin SchedulerOps /\ Unlock(l) \notin SchedulerOps
  /\ \A x : x \notin {"add_tasks", "run_next", "store_count", "store_id"} => Do(x) \notin SchedulerOps
  /\ \A op \in CommandOps \cup Irets : op \notin SchedulerOps
  BY OpsDiffer, Zenon DEF SchedulerOps, CommandOps, Irets

(* The elements of a concatenation.                                        *)
LEMMA JoinIs ==
  ASSUME NEW S, NEW a \in Seq(S), NEW b \in Seq(S), NEW s, s = a \o b
  PROVE  /\ Len(s) = Len(a) + Len(b) /\ DOMAIN s = 1 .. Len(s)
         /\ \A k \in 1 .. Len(a) : s[k] = a[k]
         /\ \A k \in 1 .. Len(b) : s[Len(a) + k] = b[k]
  BY SMTT(40)

(* The first eleven operations of main, and what the others are not.       *)
LEMMA BootStarts ==
  ASSUME NEW fb
  PROVE  /\ Boot(fb) \in Seq(Ops) /\ Len(Boot(fb)) >= 11
         /\ Boot(fb)[11] = Unlock("SCHEDULER")
         /\ \A k \in DOMAIN Boot(fb) : k \in 7 .. 10 => Boot(fb)[k] # Lock("SCHEDULER")
         /\ \A k \in DOMAIN Boot(fb) :
              /\ Boot(fb)[k] = Do("add_tasks")   <=> k = 7
              /\ Boot(fb)[k] = Do("run_next")    <=> k = 8
              /\ Boot(fb)[k] = Do("store_count") <=> k = 9
              /\ Boot(fb)[k] = Do("store_id")    <=> k = 10
<1> DEFINE Start == InterruptsInit \o SchedulerInitialize
           Other == Ops \ SchedulerOps
           Starts(s) == /\ s \in Seq(Ops) /\ Len(s) >= 11
                        /\ \A k \in 1 .. 11 : s[k] = Start[k]
                        /\ \A k \in DOMAIN s : k > 11 => s[k] \notin SchedulerOps
<1>1. /\ Start \in Seq(Ops) /\ Len(Start) = 11 /\ DOMAIN Start = 1 .. 11
      /\ Start[1] = Lock("PICS") /\ Start[2] = Do("remap_pics") /\ Start[3] = Unlock("PICS")
      /\ Start[4] = Do("enable_interrupts") /\ Start[5] = Do("set_initialized")
      /\ Start[6] = Lock("SCHEDULER") /\ Start[7] = Do("add_tasks") /\ Start[8] = Do("run_next")
      /\ Start[9] = Do("store_count") /\ Start[10] = Do("store_id") /\ Start[11] = Unlock("SCHEDULER")
  <2>1. Start \in Seq(Ops)
    BY PhasesWhole, WholeJoin, Zenon DEF Whole
  <2>2. /\ InterruptsInit \in Seq(Ops) /\ Len(InterruptsInit) = 5 /\ InterruptsInit[1] = Lock("PICS")
        /\ InterruptsInit[2] = Do("remap_pics") /\ InterruptsInit[3] = Unlock("PICS")
        /\ InterruptsInit[4] = Do("enable_interrupts") /\ InterruptsInit[5] = Do("set_initialized")
    <3> DEFINE g == Guarded("PICS", <<Do("remap_pics")>>)
    <3>1. Len(g) = 3 /\ g[1] = Lock("PICS") /\ g[2] = Do("remap_pics") /\ g[3] = Unlock("PICS")
          /\ g \in Seq({Lock("PICS"), Do("remap_pics"), Unlock("PICS")})
      BY DEF Guarded
    <3>2. InterruptsInit = g \o <<Do("enable_interrupts"), Do("set_initialized")>> /\ InterruptsInit \in Seq(Ops)
      BY PhasesWhole, Zenon DEF InterruptsInit, Whole
    <3> DEFINE h == <<Do("enable_interrupts"), Do("set_initialized")>>
               S == {Lock("PICS"), Do("remap_pics"), Unlock("PICS"), Do("enable_interrupts"), Do("set_initialized")}
    <3>3. Len(h) = 2 /\ h[1] = Do("enable_interrupts") /\ h[2] = Do("set_initialized") /\ h \in Seq(S)
      OBVIOUS
    <3>4. g \in Seq(S)
      BY <3>1, SeqWider
    <3>5. InterruptsInit = g \o h
      BY <3>2, Zenon
    <3> HIDE DEF g, h, S
    <3>6. h \in Seq(S) /\ g \in Seq(S) /\ InterruptsInit = g \o h
      BY <3>3, <3>4, <3>5, Zenon
    <3>7. /\ Len(InterruptsInit) = Len(g) + Len(h) /\ \A k \in 1 .. Len(g) : InterruptsInit[k] = g[k]
          /\ \A k \in 1 .. Len(h) : InterruptsInit[Len(g) + k] = h[k]
      BY <3>6, JoinIs, SMT
    <3>8. 1 \in 1 .. Len(h) /\ 2 \in 1 .. Len(h) /\ Len(g) + 1 = 4 /\ Len(g) + 2 = 5 /\ Len(g) + Len(h) = 5
      BY <3>1, <3>3
    <3>9. InterruptsInit[4] = h[1] /\ InterruptsInit[5] = h[2] /\ Len(InterruptsInit) = 5
      BY <3>7, <3>8, Zenon
    <3>10. InterruptsInit[1] = g[1] /\ InterruptsInit[2] = g[2] /\ InterruptsInit[3] = g[3]
      BY <3>1, <3>7
    <3> QED  BY <3>1, <3>2, <3>3, <3>9, <3>10, Zenon
  <2>3. /\ SchedulerInitialize \in Seq(Ops) /\ Len(SchedulerInitialize) = 6 /\ SchedulerInitialize[1] = Lock("SCHEDULER")
        /\ SchedulerInitialize[2] = Do("add_tasks") /\ SchedulerInitialize[3] = Do("run_next")
        /\ SchedulerInitialize[4] = Do("store_count") /\ SchedulerInitialize[5] = Do("store_id")
        /\ SchedulerInitialize[6] = Unlock("SCHEDULER")
    <3> DEFINE body == <<Do("add_tasks"), Do("run_next"), Do("store_count"), Do("store_id")>>
               g == <<Lock("SCHEDULER")>> \o body
    <3>1. Len(g) = 5 /\ g[1] = Lock("SCHEDULER") /\ g[2] = Do("add_tasks") /\ g[3] = Do("run_next")
          /\ g[4] = Do("store_count") /\ g[5] = Do("store_id") /\ g \in Seq({Lock("SCHEDULER")} \cup SchedulerOps)
      BY DEF SchedulerOps
    <3>2. SchedulerInitialize = g \o <<Unlock("SCHEDULER")>> /\ SchedulerInitialize \in Seq(Ops)
      BY PhasesWhole, Zenon DEF SchedulerInitialize, Guarded, Whole
    <3> DEFINE S == {Lock("SCHEDULER"), Unlock("SCHEDULER")} \cup SchedulerOps
    <3>3. <<Unlock("SCHEDULER")>> \in Seq(S) /\ g \in Seq(S)
      BY <3>1, SeqWider
    <3> HIDE DEF g, S
    <3>4. Len(<<Unlock("SCHEDULER")>>) = 1 /\ <<Unlock("SCHEDULER")>>[1] = Unlock("SCHEDULER")
      BY Zenon
    <3>5. <<Unlock("SCHEDULER")>> \in Seq(S) /\ g \in Seq(S) /\ SchedulerInitialize = g \o <<Unlock("SCHEDULER")>>
      BY <3>2, <3>3, Zenon
    <3>6. /\ Len(SchedulerInitialize) = Len(g) + Len(<<Unlock("SCHEDULER")>>)
          /\ \A k \in 1 .. Len(g) : SchedulerInitialize[k] = g[k]
          /\ \A k \in 1 .. Len(<<Unlock("SCHEDULER")>>) :
               SchedulerInitialize[Len(g) + k] = <<Unlock("SCHEDULER")>>[k]
      BY <3>5, JoinIs, SMT
    <3>7. 1 \in 1 .. Len(<<Unlock("SCHEDULER")>>) /\ Len(g) + 1 = 6 /\ Len(g) + Len(<<Unlock("SCHEDULER")>>) = 6
      BY <3>1, <3>4
    <3>8. SchedulerInitialize[6] = Unlock("SCHEDULER") /\ Len(SchedulerInitialize) = 6
      BY <3>4, <3>6, <3>7, ZenonT(40)
    <3>9. \A k \in 1 .. 5 : SchedulerInitialize[k] = g[k]
      BY <3>1, <3>6, Zenon
    <3> QED  BY <3>1, <3>2, <3>8, <3>9
  <2>4. /\ Len(Start) = Len(InterruptsInit) + Len(SchedulerInitialize) /\ DOMAIN Start = 1 .. Len(Start)
        /\ \A k \in 1 .. Len(InterruptsInit) : Start[k] = InterruptsInit[k]
        /\ \A k \in 1 .. Len(SchedulerInitialize) : Start[Len(InterruptsInit) + k] = SchedulerInitialize[k]
    <3>1. InterruptsInit \in Seq(Ops) /\ SchedulerInitialize \in Seq(Ops) /\ Start = InterruptsInit \o SchedulerInitialize
      BY <2>2, <2>3, Zenon
    <3> HIDE DEF Start
    <3> QED  BY <3>1, JoinIs, SMT
  <2> HIDE DEF Start
  <2>5. ASSUME NEW k \in 1 .. 6  PROVE Start[5 + k] = SchedulerInitialize[k]
    BY <2>2, <2>3, <2>4, Zenon
  <2>6. \A k \in 6 .. 11 : Start[k] = SchedulerInitialize[k - 5]
    <3> SUFFICES ASSUME NEW k \in 6 .. 11  PROVE Start[k] = SchedulerInitialize[k - 5]
      BY Zenon
    <3>1. k - 5 \in 1 .. 6 /\ 5 + (k - 5) = k
      OBVIOUS
    <3> QED  BY <2>5, <3>1, Zenon
  <2> QED  BY <2>1, <2>2, <2>3, <2>4, <2>6
<1> HIDE DEF Start
<1>2. ASSUME NEW s, Starts(s), NEW t \in Seq(Other)  PROVE Starts(s \o t)
  <2>1. s \in Seq(Ops) /\ Len(s) >= 11 /\ Len(s) \in Nat /\ DOMAIN s = 1 .. Len(s) /\ (\A k \in 1 .. 11 : s[k] = Start[k])
        /\ \A k \in 1 .. Len(s) : k > 11 => s[k] \notin SchedulerOps
    BY <1>2, SMTT(40)
  <2>2. t \in Seq(Ops) /\ Len(t) \in Nat /\ \A k \in 1 .. Len(t) : t[k] \notin SchedulerOps
    BY SeqWider
  <2>3. /\ s \o t \in Seq(Ops) /\ Len(s \o t) = Len(s) + Len(t) /\ DOMAIN (s \o t) = 1 .. Len(s) + Len(t)
        /\ \A k \in 1 .. Len(s) + Len(t) : (s \o t)[k] = IF k <= Len(s) THEN s[k] ELSE t[k - Len(s)]
    BY <2>1, <2>2
  <2>4. \A k \in 1 .. 11 : (s \o t)[k] = Start[k]
    BY <2>1, <2>2, <2>3, SMTT(40)
  <2>5. \A k \in 1 .. Len(s) + Len(t) : k > 11 => (s \o t)[k] \notin SchedulerOps
    <3> SUFFICES ASSUME NEW k \in 1 .. Len(s) + Len(t), k > 11  PROVE (s \o t)[k] \notin SchedulerOps
      BY Zenon
    <3>1. CASE k <= Len(s)
      BY <2>1, <2>2, <2>3, <3>1
    <3>2. CASE k > Len(s)
      <4>1. k - Len(s) \in 1 .. Len(t)
        BY <2>1, <2>2, <3>2
      <4> QED  BY <2>1, <2>2, <2>3, <3>2, <4>1, SMTT(40)
    <3> QED  BY <2>1, <3>1, <3>2
  <2>6. Len(s \o t) >= 11
    BY <2>1, <2>2, <2>3
  <2> QED  BY <2>3, <2>4, <2>5, <2>6, Zenon
<1>3. Starts(Start)
  BY <1>1
<1>4. CommandOps \subseteq Other /\ \A x \in {"reset_ticks", "keyboard_ready", "shell_ready"} : Do(x) \in Other
  BY NoSchedulerOps, CommandOpsAre, Zenon DEF Ops, Steps
<1>5. \A l \in Mutexes : Lock(l) \in Other /\ Unlock(l) \in Other
  BY NoSchedulerOps, Zenon DEF Ops
<1>6. {"SHELL", "WRITABLE_FILES", "FRAMEBUFFER"} \subseteq Mutexes
  BY Zenon DEF Mutexes
<1>7. Println \in Seq(Other) /\ CurrentTask \in Seq(Other) /\ RenderBootVisual(fb) \in Seq(Other)
  BY <1>4, PrintlnWhole, RenderWhole, SeqWider, Zenon
<1> HIDE DEF Starts, Other
<1>8. TimerInitialize \in Seq(Other) /\ KeyboardInitialize \in Seq(Other)
  BY <1>4, <1>7 DEF TimerInitialize, KeyboardInitialize
<1>9. FramebufferInitialize(fb) \in Seq(Other)
  BY <1>5, <1>6, <1>7 DEF FramebufferInitialize, Guarded
<1>10. VfsInitialize \in Seq(Other)
  BY <1>5, <1>6 DEF VfsInitialize, Guarded
<1>11. ShellInitialize \in Seq(Other)
  BY <1>4, <1>5, <1>6, <1>7 DEF ShellInitialize, Guarded
<1>12. Report \in Seq(Other)
  BY <1>7 DEF Report
<1>13. Starts(Boot(fb))
  BY <1>2, <1>3, <1>8, <1>9, <1>10, <1>11, <1>12, ZenonT(40) DEF Boot, Start
<1>14. /\ Boot(fb) \in Seq(Ops) /\ Len(Boot(fb)) >= 11 /\ DOMAIN Boot(fb) = 1 .. Len(Boot(fb)) /\ Len(Boot(fb)) \in Nat
       /\ \A k \in 1 .. 11 : Boot(fb)[k] = Start[k]
       /\ \A k \in DOMAIN Boot(fb) : k > 11 => Boot(fb)[k] \notin SchedulerOps
  BY <1>13, SMTT(40) DEF Starts
<1>15. \A k \in 7 .. 10 : Start[k] # Lock("SCHEDULER")
  BY <1>1, OpsDiffer, SMTT(40)
<1>16. \A k \in 1 .. 11 : /\ Start[k] = Do("add_tasks")   <=> k = 7
                          /\ Start[k] = Do("run_next")    <=> k = 8
                          /\ Start[k] = Do("store_count") <=> k = 9
                          /\ Start[k] = Do("store_id")    <=> k = 10
  <2>1. \A k \in 1 .. 11 : k \in {1, 2, 3, 4, 5, 6, 7, 8, 9, 10, 11}
    OBVIOUS
  <2> QED  BY <1>1, <2>1, OpsDiffer
<1>17. \A k \in DOMAIN Boot(fb) : k \in 1 .. 11 \/ k > 11
  BY <1>14
<1> QED
  BY <1>1, <1>14, <1>15, <1>16, <1>17, SMTT(40) DEF SchedulerOps

(* What the position of main says of the rest of its code and of the mutex *)
(* that `initialize` holds.                                                *)
LEMMA PositionSays ==
  ASSUME LockInv, MainInv
  PROVE  /\ Position \in Nat
         /\ Initializing <=> Position <= 10
         /\ code["main"] # <<>> => Position \in DOMAIN Boot(framebuffer) /\ Head(code["main"]) = Boot(framebuffer)[Position]
         /\ Position \in 7 .. 11 => holder["SCHEDULER"] = "main"
<1> DEFINE s == code["main"]  b == Boot(framebuffer)  n == Len(s)  h == Len(b) - Len(s)
<1>1. s \in Seq(Ops) /\ n \in Nat /\ DOMAIN s = 1 .. n
  BY DEF LockInv, Contexts
<1>2. b \in Seq(Ops) /\ Len(b) >= 11 /\ Len(b) \in Nat /\ DOMAIN b = 1 .. Len(b)
  BY BootStarts, SMTT(40)
<1>3. h \in Nat /\ Len(b) = h + n /\ Position = h + 1
  BY <1>1, <1>2 DEF MainInv, Position
<1>4. \A k \in 1 .. n : s[k] = b[h + k]
  <2> SUFFICES ASSUME NEW k \in 1 .. n  PROVE s[k] = b[h + k]
    BY Zenon
  <2>1. s[k] = b[Position - 1 + k]
    BY <1>1, Zenon DEF MainInv
  <2>2. Position - 1 + k = h + k
    BY <1>1, <1>3
  <2> QED  BY <2>1, <2>2, Zenon
<1>5. /\ b[11] = Unlock("SCHEDULER") /\ \A k \in 1 .. Len(b) : k \in 7 .. 10 => b[k] # Lock("SCHEDULER")
      /\ \A k \in 1 .. Len(b) : b[k] = Do("store_id") <=> k = 10
  BY <1>2, BootStarts, Zenon
<1>6. Initializing <=> \E k \in 1 .. n : s[k] = Do("store_id")
  BY <1>1, Zenon DEF Initializing
<1>7. s # <<>> => n > 0 /\ Head(s) = s[1]
  BY <1>1
<1> HIDE DEF s, b, n, h
<1>8. Initializing => Position <= 10
  <2> SUFFICES ASSUME NEW k \in 1 .. n, s[k] = Do("store_id")  PROVE Position <= 10
    BY <1>6, Zenon
  <2>1. h + k \in 1 .. Len(b) /\ b[h + k] = Do("store_id")
    BY <1>1, <1>3, <1>4
  <2>2. h + k = 10
    BY <1>5, <2>1, Zenon
  <2> QED  BY <1>3, <2>2
<1>9. ASSUME Position <= 10  PROVE Initializing
  <2>1. 10 - h \in 1 .. n /\ h + (10 - h) = 10 /\ 10 \in 1 .. Len(b)
    BY <1>1, <1>2, <1>3, <1>9
  <2>2. s[10 - h] = b[10]
    BY <1>4, <2>1, Zenon
  <2> QED  BY <1>5, <1>6, <2>1, <2>2, Zenon
<1>10. s # <<>> => Position \in DOMAIN b /\ Head(s) = b[Position]
  BY <1>1, <1>2, <1>3, <1>4, <1>7
<1>11. ASSUME Position \in 7 .. 11  PROVE holder["SCHEDULER"] = "main"
  <2>1. 11 - h \in 1 .. n /\ h + (11 - h) = 11
    BY <1>1, <1>2, <1>3, <1>11
  <2>2. s[11 - h] = Unlock("SCHEDULER")
    BY <1>4, <1>5, <2>1, Zenon
  <2>3. ASSUME NEW i \in 1 .. n, i < 11 - h  PROVE s[i] # Lock("SCHEDULER")
    <3>1. h + i \in 1 .. Len(b) /\ h + i \in 7 .. 10
      BY <1>1, <1>3, <1>11, <2>3
    <3> QED  BY <1>4, <1>5, <3>1, Zenon
  <2>4. Holds(s, "SCHEDULER")
    BY <1>1, <2>1, <2>2, <2>3, Zenon DEF Holds
  <2> QED  BY <2>4, Zenon DEF LockInv, Contexts, Mutexes, s
<1> QED
  BY <1>3, <1>8, <1>9, <1>10, <1>11 DEF s, b

(* A handler in the scheduler holds its mutex.                             *)
LEMMA InScheduler ==
  ASSUME LockInv, code["irq"] # <<>>, Head(code["irq"]) \in {Do("run_next"), Do("store_id")}
  PROVE  holder["SCHEDULER"] = "irq"
<1> DEFINE s == code["irq"]
<1>1. s \in Seq(Ops) /\ Paired(s, "SCHEDULER") /\ Apart(s, "SCHEDULER") /\ (Holds(s, "SCHEDULER") <=> holder["SCHEDULER"] = "irq")
  BY Zenon DEF LockInv, Contexts, Mutexes
<1>2. Holds(Tail(s), "SCHEDULER") /\ (Head(s) \notin {Lock("SCHEDULER"), Unlock("SCHEDULER")}
        => (Holds(Tail(s), "SCHEDULER") <=> Holds(s, "SCHEDULER")))
  BY <1>1, TailKeeps, Zenon DEF Openers
<1> QED
  BY <1>1, <1>2, OpsDiffer, Zenon

(* So does one about to store the id.                                      *)
LEMMA StoringHolds == LockInv /\ Storing => holder["SCHEDULER"] = "irq"
  BY InScheduler, Zenon DEF Storing

(* Executing an operation keeps the store after run_next, and after        *)
(* run_next it is next.                                                    *)
LEMMA SequencedTail ==
  ASSUME NEW s \in Seq(Ops), s # <<>>, Sequenced(s)
  PROVE  /\ Sequenced(Tail(s))
         /\ Head(s) = Do("run_next") => Tail(s) # <<>> /\ Head(Tail(s)) = Do("store_id")
<1> DEFINE t == Tail(s)  n == Len(s)
<1>1. n \in Nat \ {0} /\ DOMAIN s = 1 .. n /\ t \in Seq(Ops) /\ DOMAIN t = 1 .. n - 1 /\ Head(s) = s[1] /\ Len(t) = n - 1
  OBVIOUS
<1>2. \A k \in 1 .. n - 1 : t[k] = s[k + 1]
  OBVIOUS
<1> HIDE DEF t, n
<1>3. n > 1 => t # <<>> /\ Head(t) = t[1]
  BY <1>1
<1>4. ASSUME NEW k \in 1 .. n - 1, t[k] = Do("run_next")  PROVE k + 1 \in 1 .. n - 1 /\ t[k + 1] = Do("store_id")
  <2>1. k + 1 \in 1 .. n /\ s[k + 1] = Do("run_next")
    BY <1>1, <1>2, <1>4
  <2>2. (k + 1) + 1 \in 1 .. n /\ s[(k + 1) + 1] = Do("store_id")
    BY <1>1, <2>1, Zenon DEF Sequenced
  <2>3. k + 1 \in 1 .. n - 1
    BY <1>1, <2>2
  <2> QED  BY <1>2, <2>2, <2>3, Zenon
<1>5. ASSUME s[1] = Do("run_next")  PROVE t # <<>> /\ Head(t) = Do("store_id")
  <2>1. PICK k \in 1 .. n : k = 1
    BY <1>1
  <2>2. k + 1 \in 1 .. n /\ s[k + 1] = Do("store_id")
    BY <1>1, <1>5, <2>1, Zenon DEF Sequenced
  <2>3. k \in 1 .. n - 1 /\ n > 1
    BY <1>1, <2>1, <2>2
  <2>4. t[k] = Do("store_id")
    BY <1>2, <2>2, <2>3, Zenon
  <2> QED  BY <1>3, <2>1, <2>3, <2>4, Zenon
<1> QED
  BY <1>1, <1>4, <1>5, Zenon DEF Sequenced, t

(* So does putting code in front of other code.                            *)
LEMMA SequencedJoin ==
  ASSUME NEW a \in Seq(Ops), NEW b \in Seq(Ops), Sequenced(a), Sequenced(b)
  PROVE  Sequenced(a \o b)
<1> DEFINE s == a \o b  p == Len(a)  q == Len(b)
<1>1. p \in Nat /\ q \in Nat /\ DOMAIN a = 1 .. p /\ DOMAIN b = 1 .. q /\ DOMAIN s = 1 .. p + q
  OBVIOUS
<1>2. \A k \in 1 .. p : k \in 1 .. p + q /\ s[k] = a[k]
  BY <1>1
<1>3. \A k \in 1 .. q : p + k \in 1 .. p + q /\ s[p + k] = b[k]
  BY <1>1
<1>4. \A k \in 1 .. p + q : k > p => k - p \in 1 .. q /\ s[k] = b[k - p]
  BY <1>1
<1> HIDE DEF s, p, q
<1>5. ASSUME NEW k \in 1 .. p + q, s[k] = Do("run_next")  PROVE k + 1 \in 1 .. p + q /\ s[k + 1] = Do("store_id")
  <2>1. CASE k <= p
    <3>1. k \in 1 .. p /\ a[k] = Do("run_next")
      BY <1>1, <1>2, <1>5, <2>1
    <3>2. k + 1 \in 1 .. p /\ a[k + 1] = Do("store_id")
      BY <1>1, <3>1, Zenon DEF Sequenced
    <3> QED  BY <1>2, <3>2, Zenon
  <2>2. CASE k > p
    <3>1. k - p \in 1 .. q /\ b[k - p] = Do("run_next")
      BY <1>4, <1>5, <2>2, Zenon
    <3>2. (k - p) + 1 \in 1 .. q /\ b[(k - p) + 1] = Do("store_id")
      BY <1>1, <3>1, Zenon DEF Sequenced
    <3>3. p + ((k - p) + 1) = k + 1
      BY <1>1
    <3> QED  BY <1>3, <3>2, <3>3, Zenon
  <2> QED  BY <1>1, <2>1, <2>2
<1> QED
  BY <1>1, <1>5, Zenon DEF Sequenced, s

(* Code without run_next is in order, and so is a tick.                    *)
LEMMA SequencedTurns ==
  /\ \A op, r, initialized : Turns(op, r, initialized) => Sequenced(r)
  /\ \A n \in Lines8259 : Sequenced(Handler(n))
<1> DEFINE Other == Ops \ {Do("run_next")}
<1>1. ASSUME NEW r \in Seq(Other)  PROVE Sequenced(r)
  BY DEF Sequenced
<1>2. CommandOps \subseteq Other /\ \A l \in Mutexes : Lock(l) \in Other /\ Unlock(l) \in Other
  BY CommandOpsAre, OpsDiffer, Zenon DEF Ops
<1>3. \A x \in Keys \cup {"eoi", "on_tick", "on_interrupt", "notify_eoi"} : Do(x) \in Other
  BY OpsDiffer, Zenon DEF Ops, Keys, Steps
<1>4. \A n \in Lines8259 : <<"iret", n>> \in Other
  BY OpsDiffer, Zenon DEF Ops, Irets
<1>5. {"SERIAL", "SCHEDULER", "SHIFT_PRESSED", "SHELL", "PICS"} \subseteq Mutexes
  BY Zenon DEF Mutexes
<1> HIDE DEF Other
<1>6. Println \in Seq(Other)
  BY <1>2, PrintlnWhole, SeqWider, Zenon
<1>7. ASSUME NEW report \in BOOLEAN  PROVE Sequenced(OnTick(report))
  <2>1. Sequenced(SchedulerTick) /\ SchedulerTick \in Seq(Ops)
    <3>1. {Lock("SCHEDULER"), Do("run_next"), Do("store_id"), Unlock("SCHEDULER")} \subseteq Ops
      BY <1>5, Zenon DEF Ops, Steps
    <3>2. /\ DOMAIN SchedulerTick = 1 .. 4 /\ SchedulerTick[1] = Lock("SCHEDULER") /\ SchedulerTick[2] = Do("run_next")
          /\ SchedulerTick[3] = Do("store_id") /\ SchedulerTick[4] = Unlock("SCHEDULER")
      BY DEF SchedulerTick, Guarded
    <3>3. ASSUME NEW k \in 1 .. 4, SchedulerTick[k] = Do("run_next")
          PROVE  k + 1 \in 1 .. 4 /\ SchedulerTick[k + 1] = Do("store_id")
      <4>1. k = 2
        BY <3>2, <3>3, OpsDiffer
      <4>2. k + 1 = 3
        BY <4>1
      <4> QED  BY <3>2, <4>2, SMTT(40)
    <3>4. SchedulerTick \in Seq(Ops)
      BY <3>1 DEF SchedulerTick, Guarded
    <3> QED  BY <3>2, <3>3, <3>4, Zenon DEF Sequenced
  <2>2. Println \in Seq(Ops) /\ <<>> \in Seq(Ops) /\ Sequenced(Println) /\ Sequenced(<<>>)
    <3>1. Println \in Seq(Ops) /\ <<>> \in Seq(Ops) /\ <<>> \in Seq(Other)
      BY PrintlnWhole DEF Whole
    <3> QED  BY <1>1, <1>6, <3>1, Zenon
  <2> QED  BY <2>1, <2>2, SequencedJoin, Zenon DEF OnTick
<1>8. ASSUME NEW scancode \in Scancodes  PROVE OnScancode(scancode) \in Seq(Other)
  <2>1. Guarded("SHIFT_PRESSED", <<>>) \in Seq(Other)
    BY <1>2, <1>5 DEF Guarded
  <2>2. \A key \in Keys : Guarded("SHELL", <<Do(key)>>) \in Seq(Other)
    BY <1>2, <1>3, <1>5 DEF Guarded
  <2> QED  BY <2>1, <2>2 DEF OnScancode, Scancodes, Keys
<1>9. NotifyEoi \in Seq(Other) /\ <<>> \in Seq(Other)
  BY <1>2, <1>3, <1>5 DEF NotifyEoi, Guarded
<1>10. ASSUME NEW n \in Lines8259  PROVE Handler(n) \in Seq(Other)
  <2>1. <<"iret", 0>> \in Other /\ <<"iret", 1>> \in Other
    BY <1>4, Zenon DEF Lines8259
  <2> QED  BY <1>3, <2>1 DEF Handler, TimerHandler, KeyboardHandler
<1>11. ASSUME NEW op, NEW r, NEW initialized, Turns(op, r, initialized)  PROVE Sequenced(r)
  <2>1. r \in Seq(CommandOps) => r \in Seq(Other)
    BY <1>2, SeqWider, Zenon
  <2> QED  BY <1>1, <1>7, <1>8, <1>9, <1>11, <2>1, ZenonT(40) DEF Turns
<1> QED
  BY <1>1, <1>10, <1>11, Zenon

(* What a step of main does to the scheduler's state.                      *)
LEMMA MainEffects ==
  ASSUME MainStep
  PROVE  /\ Goes("main", <<>>) /\ framebuffer' = framebuffer
         /\ \/ AddTasks \/ RunNextTask("main") \/ StoreCount \/ StoreId("main")
            \/ Head(code["main"]) \notin SchedulerOps /\ UNCHANGED vars
<1>1. CASE Locking("main")
  <2>1. Goes("main", <<>>) /\ UNCHANGED <<framebuffer, vars>>
        /\ \E l \in Mutexes : Head(code["main"]) \in {Lock(l), Unlock(l)}
    BY <1>1, LockingTurns, Zenon DEF scheduler
  <2> QED  BY <2>1, NoSchedulerOps, Zenon
<1>2. CASE AddTasks \/ RunNextTask("main") \/ StoreCount \/ StoreId("main")
  BY <1>2, Going, Zenon DEF AddTasks, RunNextTask, StoreCount, StoreId, SchedulerStep
<1>3. CASE RemapPics \/ EnableInterrupts \/ SetInitialized \/ ResetTicks \/ KeyboardReady \/ ShellReady
  <2>1. PICK x \in {"remap_pics", "enable_interrupts", "set_initialized", "reset_ticks", "keyboard_ready", "shell_ready"} :
          At("main", Do(x)) /\ Continue("main", <<>>) /\ UNCHANGED <<framebuffer, vars>>
    BY <1>3, Zenon DEF RemapPics, EnableInterrupts, SetInitialized, ResetTicks, KeyboardReady, ShellReady, scheduler
  <2> QED  BY <2>1, Going, NoSchedulerOps, Zenon
<1> QED
  BY <1>1, <1>2, <1>3, Zenon DEF MainStep

(* What a step of a handler does to it.                                    *)
LEMMA HandlerEffects ==
  ASSUME HandlerStep
  PROVE  /\ framebuffer' = framebuffer
         /\ \E r : Goes("irq", r) /\ Turns(Head(code["irq"]), r, INITIALIZED)
         /\ \/ RunNextTask("irq") \/ StoreId("irq")
            \/ Head(code["irq"]) \notin {Do("run_next"), Do("store_id")} /\ UNCHANGED vars
<1>1. CASE Locking("irq")
  <2>1. Goes("irq", <<>>) /\ UNCHANGED <<framebuffer, vars>>
        /\ \E l \in Mutexes : Head(code["irq"]) \in {Lock(l), Unlock(l)}
    BY <1>1, LockingTurns, Zenon DEF scheduler
  <2>2. Turns(Head(code["irq"]), <<>>, INITIALIZED)
    BY <2>1, OpsDiffer, Zenon DEF Turns
  <2> QED  BY <2>1, <2>2, NoSchedulerOps, Zenon DEF SchedulerOps
<1>2. ASSUME ~ Locking("irq")  PROVE \E r : Goes("irq", r) /\ Turns(Head(code["irq"]), r, INITIALIZED)
  BY <1>2, HandlerTurns, Zenon
<1>3. CASE RunNextTask("irq") \/ StoreId("irq")
  <2>1. framebuffer' = framebuffer
    BY <1>3, Zenon DEF RunNextTask, StoreId, SchedulerStep
  <2> QED  BY <1>1, <1>2, <1>3, <2>1, Zenon
<1>4. ASSUME CountTick \/ IgnoreKey \/ ReadKey \/ NotifyEndOfInterrupt \/ EndOfInterrupt
      PROVE  Head(code["irq"]) \notin SchedulerOps /\ UNCHANGED <<framebuffer, vars>>
  <2>1. PICK x \in {"on_tick", "on_interrupt", "notify_eoi", "eoi"} : At("irq", Do(x)) /\ UNCHANGED <<framebuffer, vars>>
    BY <1>4, Zenon DEF CountTick, IgnoreKey, ReadKey, NotifyEndOfInterrupt, EndOfInterrupt, scheduler
  <2> QED  BY <2>1, NoSchedulerOps, Zenon DEF At
<1>5. ASSUME Enter \/ Backspace \/ Char \/ \E event \in {"Enter", "Backspace", "Char"} : KeyBeforeShell(event)
      PROVE  Head(code["irq"]) \notin SchedulerOps /\ UNCHANGED <<framebuffer, vars>>
  <2>1. PICK x \in {"Enter", "Backspace", "Char"} : At("irq", Do(x)) /\ UNCHANGED <<framebuffer, vars>>
    BY <1>5, Zenon DEF Enter, Backspace, Char, KeyBeforeShell, ShellKey, scheduler
  <2> QED  BY <2>1, NoSchedulerOps, Zenon DEF At
<1>6. ASSUME NEW n \in Lines8259, InterruptReturn(n)
      PROVE  Head(code["irq"]) \notin SchedulerOps /\ UNCHANGED <<framebuffer, vars>>
  BY <1>6, NoSchedulerOps, Zenon DEF InterruptReturn, At, Irets, scheduler
<1> QED
  BY <1>1, <1>2, <1>3, <1>4, <1>5, <1>6, Zenon DEF HandlerStep, SchedulerOps

(* Steps of main move its position on by one.                              *)
LEMMA MainMoves ==
  ASSUME LockInv, MainInv, Goes("main", <<>>), framebuffer' = framebuffer
  PROVE  /\ MainInv' /\ Position' = Position + 1
         /\ code'["irq"] = code["irq"] /\ code["irq"] = <<>> /\ code["main"] # <<>>
<1> DEFINE s == code["main"]  b == Boot(framebuffer)  n == Len(s)
<1>1. /\ code["irq"] = <<>> /\ s # <<>> /\ s \in Seq(Ops) /\ code'["main"] = <<>> \o Tail(s) /\ code'["irq"] = code["irq"]
  BY Zenon DEF Goes, Running, LockInv, Contexts
<1>2. n \in Nat \ {0} /\ DOMAIN s = 1 .. n /\ Len(code'["main"]) = n - 1 /\ DOMAIN code'["main"] = 1 .. n - 1
      /\ \A k \in 1 .. n - 1 : code'["main"][k] = s[k + 1]
  BY <1>1
<1>3. Len(b) \in Nat /\ n <= Len(b) /\ Position = Len(b) - n + 1 /\ \A k \in 1 .. n : s[k] = b[Position - 1 + k]
  <2>1. b \in Seq(Ops)
    BY BootStarts, Zenon
  <2>2. Len(b) \in Nat
    BY <2>1
  <2> QED  BY <1>2, <2>2, Zenon DEF MainInv, Position
<1>4. Position' = Position + 1
  <2>1. Position' = Len(b) - Len(code'["main"]) + 1
    BY Zenon DEF Position
  <2> HIDE DEF s, b, n
  <2> QED  BY <1>2, <1>3, <2>1
<1> HIDE DEF s, b, n
<1>5. ASSUME NEW k \in 1 .. n - 1  PROVE code'["main"][k] = b[Position' - 1 + k]
  <2>1. k + 1 \in 1 .. n /\ Position - 1 + (k + 1) = Position' - 1 + k
    BY <1>2, <1>3, <1>4
  <2>2. s[k + 1] = b[Position - 1 + (k + 1)]
    BY <1>3, <2>1, Zenon
  <2> QED  BY <1>2, <2>1, <2>2, Zenon
<1>6. MainInv'
  BY <1>1, <1>2, <1>3, <1>5, SMTT(40) DEF MainInv, b
<1> QED
  BY <1>1, <1>4, <1>6, Zenon DEF s

(* All other steps leave it where it is.                                   *)
LEMMA MainStays ==
  ASSUME MainInv, code'["main"] = code["main"], framebuffer' = framebuffer
  PROVE  MainInv' /\ Position' = Position
  BY Zenon DEF MainInv, Position, Boot

(* Before any task is added, run_next does nothing.                        *)
LEMMA RunNextEmpty == RunNext(<<>>, NONE) = <<>> /\ NextIndex(<<>>, NONE) = NONE /\ TaskIdAt(<<>>, NONE) = NONE
  BY DEF RunNext, NextIndex, TaskIdAt, NONE

(* run_next keeps the tasks of the table.                                  *)
LEMMA RunNextLen == Len(RunNext(Added, NONE)) = Len(Added)
<1> DEFINE n == IF Len(BootTasks) < MAX_TASKS THEN Len(BootTasks) ELSE MAX_TASKS
<1>1. n \in Nat
  BY TasksAssumption
<1>2. DOMAIN Added = 1 .. n /\ Len(Added) = n
  BY <1>1 DEF Added
<1> HIDE DEF n
<1> QED
  BY <1>1, <1>2 DEF RunNext

(* A step of main is the next one of `initialize`, or not one of its.      *)
LEMMA MainSchedules ==
  ASSUME LockInv, SchedulerInv, MainStep
  PROVE  SchedulerInv'
<1>1. /\ MainInv' /\ Position' = Position + 1 /\ Position \in Nat
      /\ code'["irq"] = code["irq"] /\ code["irq"] = <<>>
  BY MainEffects, MainMoves, PositionSays, Zenon DEF SchedulerInv
<1>2. Sequenced(code["irq"])' /\ ~ Storing /\ ~ Storing'
  BY <1>1, Zenon DEF SchedulerInv, Sequenced, Storing
<1>3. /\ Head(code["main"]) = Do("add_tasks")   <=> Position = 7
      /\ Head(code["main"]) = Do("run_next")    <=> Position = 8
      /\ Head(code["main"]) = Do("store_count") <=> Position = 9
      /\ Head(code["main"]) = Do("store_id")    <=> Position = 10
  <2>1. Position \in DOMAIN Boot(framebuffer) /\ Head(code["main"]) = Boot(framebuffer)[Position]
    BY MainEffects, PositionSays, Zenon DEF SchedulerInv, Goes
  <2> QED  BY <2>1, BootStarts
<1>4. DataInv
  BY Zenon DEF SchedulerInv
<1> HIDE DEF Position
<1>5. CASE AddTasks
  <2>1. Position = 7 /\ tasks' = Added /\ current' = current
    BY <1>3, <1>5, Zenon DEF AddTasks, SchedulerStep, At
  <2>2. DataInv'
    BY <1>1, <1>4, <2>1, SMTT(40) DEF DataInv, Init
  <2> QED  BY <1>1, <1>2, <2>2, Zenon DEF SchedulerInv
<1>6. CASE RunNextTask("main")
  <2>1. Position = 8 /\ tasks' = RunNext(tasks, current) /\ current' = NextIndex(tasks, current)
    BY <1>3, <1>6, Zenon DEF RunNextTask, SchedulerStep, At
  <2>2. DataInv'
    BY <1>1, <1>4, <2>1, SMTT(40) DEF DataInv
  <2> QED  BY <1>1, <1>2, <2>2, Zenon DEF SchedulerInv
<1>7. CASE StoreCount
  <2>1. Position = 9 /\ tasks' = tasks /\ current' = current /\ TASK_COUNT' = Len(tasks)
    BY <1>3, <1>7, Zenon DEF StoreCount, SchedulerStep, At
  <2>2. DataInv'
    BY <1>1, <1>4, <2>1, RunNextLen, SMTT(40) DEF DataInv
  <2> QED  BY <1>1, <1>2, <2>2, Zenon DEF SchedulerInv
<1>8. CASE StoreId("main")
  <2>1. Position = 10 /\ tasks' = tasks /\ current' = current /\ CURRENT_TASK_ID' = TaskIdAt(tasks, current)
    BY <1>3, <1>8, Zenon DEF StoreId, SchedulerStep, At
  <2>2. DataInv'
    BY <1>1, <2>1, SMTT(40) DEF DataInv, TaskIdAt
  <2> QED  BY <1>1, <1>2, <2>2, Zenon DEF SchedulerInv
<1>9. CASE Head(code["main"]) \notin SchedulerOps /\ UNCHANGED vars
  <2>1. Position \notin 7 .. 10 /\ UNCHANGED <<tasks, current, TASK_COUNT, CURRENT_TASK_ID>>
    BY <1>1, <1>3, <1>9, SMTT(40) DEF SchedulerOps, vars
  <2>2. DataInv'
    BY <1>1, <1>2, <1>4, <2>1 DEF DataInv, Init, TaskIdAt
  <2> QED  BY <1>1, <1>2, <2>2, Zenon DEF SchedulerInv
<1> QED
  BY <1>5, <1>6, <1>7, <1>8, <1>9, MainEffects, Zenon

(* A handler's tick before `initialize` does nothing, none comes within,   *)
(* and after it run_next is followed by the store.                         *)
LEMMA HandlerSchedules ==
  ASSUME LockInv, SchedulerInv, HandlerStep
  PROVE  SchedulerInv'
<1> DEFINE s == code["irq"]
<1>1. PICK r : Goes("irq", r) /\ Turns(Head(s), r, INITIALIZED)
  BY HandlerEffects, Zenon
<1>2. s # <<>> /\ s \in Seq(Ops) /\ code'["irq"] = r \o Tail(s) /\ code'["main"] = code["main"] /\ r \in Seq(Ops)
  BY <1>1, TurnsQuietly, Zenon DEF Goes, LockInv, Contexts
<1>3. MainInv' /\ Position' = Position /\ Position \in Nat
  BY <1>2, MainStays, HandlerEffects, PositionSays, Zenon DEF SchedulerInv
<1>4. Sequenced(code["irq"])'
  <2>1. Tail(s) \in Seq(Ops) /\ Sequenced(Tail(s)) /\ Sequenced(r)
    BY <1>1, <1>2, SequencedTail, SequencedTurns DEF SchedulerInv
  <2>2. Sequenced(r \o Tail(s))
    BY <1>2, <2>1, SequencedJoin, Zenon
  <2> QED  BY <1>2, <2>2, Zenon DEF Sequenced
<1>5. DataInv
  BY Zenon DEF SchedulerInv
<1>6. Storing => Head(s) = Do("store_id")
  BY Zenon DEF Storing
<1>7. Head(s) \in {Do("run_next"), Do("store_id")} => Position \notin 7 .. 11
  BY <1>2, InScheduler, PositionSays, Zenon DEF SchedulerInv
<1>8. CASE RunNextTask("irq")
  <2>1. /\ Head(s) = Do("run_next") /\ code'["irq"] = <<>> \o Tail(s)
        /\ tasks' = RunNext(tasks, current) /\ current' = NextIndex(tasks, current)
        /\ UNCHANGED <<TASK_COUNT, CURRENT_TASK_ID>>
    BY <1>8, Zenon DEF RunNextTask, SchedulerStep, At, Continue, LockInv, Contexts
  <2>2. Tail(s) # <<>> /\ Head(Tail(s)) = Do("store_id") /\ <<>> \o Tail(s) = Tail(s)
    BY <1>2, <2>1, SequencedTail, SMTT(40) DEF SchedulerInv
  <2>3. Storing'
    BY <2>1, <2>2, Zenon DEF Storing
  <2> HIDE DEF Position
  <2>4. CASE Position <= 6
    <3>1. Init'
      BY <1>3, <1>5, <2>1, <2>4, RunNextEmpty, SMTT(40) DEF DataInv, Init
    <3> QED  BY <1>3, <1>4, <2>4, <3>1, SMTT(40) DEF SchedulerInv, DataInv
  <2>5. CASE Position > 11
    BY <1>3, <1>4, <2>3, <2>5, SMTT(40) DEF SchedulerInv, DataInv
  <2> QED  BY <1>3, <1>7, <2>1, <2>4, <2>5, SMTT(40)
<1>9. CASE StoreId("irq")
  <2>1. /\ Head(s) = Do("store_id") /\ CURRENT_TASK_ID' = TaskIdAt(tasks, current)
        /\ UNCHANGED <<tasks, current, TASK_COUNT>>
    BY <1>9, Zenon DEF StoreId, SchedulerStep, At
  <2> HIDE DEF Position
  <2>2. CASE Position <= 6
    <3>1. Init'
      BY <1>3, <1>5, <2>1, <2>2, RunNextEmpty, SMTT(40) DEF DataInv, Init
    <3> QED  BY <1>3, <1>4, <2>2, <3>1 DEF SchedulerInv, DataInv
  <2>3. CASE Position > 11
    <3>1. (CURRENT_TASK_ID = TaskIdAt(tasks, current))'
      BY <2>1, Zenon DEF TaskIdAt
    <3> QED  BY <1>3, <1>4, <2>3, <3>1, SMTT(40) DEF SchedulerInv, DataInv
  <2> QED  BY <1>3, <1>7, <2>1, <2>2, <2>3, SMTT(40)
<1>10. CASE Head(s) \notin {Do("run_next"), Do("store_id")} /\ UNCHANGED vars
  <2>1. ~ Storing /\ UNCHANGED <<tasks, current, TASK_COUNT, CURRENT_TASK_ID>>
    BY <1>6, <1>10, Zenon DEF vars
  <2> HIDE DEF Position
  <2>2. DataInv'
    BY <1>3, <1>5, <2>1, Zenon DEF DataInv, Init, TaskIdAt
  <2> QED  BY <1>3, <1>4, <2>2, Zenon DEF SchedulerInv
<1> QED
  BY <1>8, <1>9, <1>10, HandlerEffects, Zenon

(* Every step keeps the scheduler's state as its code has left it.         *)
LEMMA SchedulerNext == LockInv /\ SchedulerInv /\ [KNext]_kvars => SchedulerInv'
<1> SUFFICES ASSUME LockInv, SchedulerInv, [KNext]_kvars  PROVE SchedulerInv'
  BY Zenon
<1>1. ASSUME NEW n \in Lines8259, Deliver(n)  PROVE SchedulerInv'
  <2>1. /\ code["irq"] = <<>> /\ code'["irq"] = Handler(n) /\ code'["main"] = code["main"]
        /\ framebuffer' = framebuffer /\ UNCHANGED <<tasks, current, TASK_COUNT, CURRENT_TASK_ID>>
    BY <1>1, Zenon DEF Deliver, LockInv, Contexts, scheduler, vars
  <2>2. MainInv' /\ Position' = Position
    BY <2>1, MainStays, Zenon DEF SchedulerInv
  <2>3. Sequenced(code["irq"])'
    BY <2>1, SequencedTurns, SMTT(60) DEF Sequenced
  <2>4. ~ Storing
    BY <2>1, Zenon DEF Storing
  <2> HIDE DEF Position
  <2> QED  BY <2>1, <2>2, <2>3, <2>4, Zenon DEF SchedulerInv, DataInv, Init, TaskIdAt
<1>2. CASE TimerFires \/ KeyPressed \/ UNCHANGED kvars
  <2>1. UNCHANGED <<framebuffer, code, tasks, current, TASK_COUNT, CURRENT_TASK_ID>>
    BY <1>2, Zenon DEF TimerFires, KeyPressed, kvars, cpu, scheduler, vars
  <2>2. MainInv' /\ Position' = Position
    BY <2>1, MainStays, Zenon DEF SchedulerInv
  <2> HIDE DEF Position
  <2> QED  BY <2>1, <2>2, Zenon DEF SchedulerInv, DataInv, Init, TaskIdAt, Storing, Sequenced
<1> QED
  BY <1>1, <1>2, MainSchedules, HandlerSchedules, Zenon DEF KNext

(* At the start main has all of boot ahead and nothing is scheduled.       *)
LEMMA SchedulerStart == KInit => SchedulerInv
<1> SUFFICES ASSUME KInit  PROVE SchedulerInv
  BY Zenon
<1>1. code["main"] = Boot(framebuffer) /\ code["irq"] = <<>> /\ Init
  BY Zenon DEF KInit
<1>2. Boot(framebuffer) \in Seq(Ops)
  BY BootStarts, Zenon
<1>3. Position = 1
  BY <1>1, <1>2 DEF Position
<1>4. MainInv
  BY <1>1, <1>2, <1>3, SMTT(40) DEF MainInv
<1>5. DataInv /\ Sequenced(code["irq"])
  BY <1>1, <1>3, SMTT(40) DEF DataInv, Sequenced
<1> QED
  BY <1>4, <1>5, Zenon DEF SchedulerInv

(* The operators of the atomic scheduler are those of the kernel.          *)
LEMMA SameOperators ==
  /\ Atomic!Added = Added /\ Atomic!NONE = NONE
  /\ \A ts, cur : /\ Atomic!NextIndex(ts, cur) = NextIndex(ts, cur)
                  /\ Atomic!RunNext(ts, cur) = RunNext(ts, cur)
                  /\ Atomic!TaskIdAt(ts, cur) = TaskIdAt(ts, cur)
  BY Zenon DEF Atomic!Added, Added, Atomic!NONE, NONE, Atomic!NextIndex, NextIndex, Atomic!RunNext, RunNext,
         Atomic!TaskIdAt, TaskIdAt

(* Only main moves its position, and after `initialize` only a handler's   *)
(* tick changes the scheduler's state.                                     *)
LEMMA AfterInitialize ==
  ASSUME LockInv, SchedulerInv, [KNext]_kvars
  PROVE  /\ Position \in Nat /\ Position' \in {Position, Position + 1}
         /\ Position = 10 /\ Position' # Position => StoreId("main")
         /\ Position > 10 => RunNextTask("irq") \/ StoreId("irq") \/ UNCHANGED vars
<1>1. Position \in Nat
  BY PositionSays, Zenon DEF SchedulerInv
<1>2. CASE MainStep
  <2>1. Position' = Position + 1
    BY <1>2, MainEffects, MainMoves, Zenon DEF SchedulerInv
  <2>2. Position \in DOMAIN Boot(framebuffer) /\ Head(code["main"]) = Boot(framebuffer)[Position]
    BY <1>2, MainEffects, PositionSays, Zenon DEF SchedulerInv, Goes
  <2>3. /\ Head(code["main"]) = Do("add_tasks")   <=> Position = 7
        /\ Head(code["main"]) = Do("run_next")    <=> Position = 8
        /\ Head(code["main"]) = Do("store_count") <=> Position = 9
        /\ Head(code["main"]) = Do("store_id")    <=> Position = 10
    BY <2>2, BootStarts, SMTT(40)
  <2>4. /\ AddTasks => Head(code["main"]) = Do("add_tasks")
        /\ RunNextTask("main") => Head(code["main"]) = Do("run_next")
        /\ StoreCount => Head(code["main"]) = Do("store_count")
        /\ StoreId("main") => Head(code["main"]) = Do("store_id")
    BY ZenonT(40) DEF AddTasks, RunNextTask, StoreCount, StoreId, SchedulerStep, At
  <2> HIDE DEF Position
  <2>5. Position = 10 => StoreId("main")
    BY <1>2, <2>3, <2>4, MainEffects DEF SchedulerOps
  <2>6. Position > 10 => UNCHANGED vars
    BY <1>1, <1>2, <2>3, <2>4, MainEffects
  <2> QED  BY <1>1, <2>1, <2>5, <2>6, Zenon
<1>3. CASE HandlerStep
  <2>1. PICK r : Goes("irq", r)
    BY <1>3, HandlerEffects, Zenon
  <2>2. code'["main"] = code["main"]
    BY <2>1, Zenon DEF Goes, LockInv, Contexts
  <2>3. Position' = Position
    BY <1>3, <2>2, HandlerEffects, MainStays, Zenon DEF SchedulerInv
  <2> HIDE DEF Position
  <2> QED  BY <1>1, <1>3, <2>3, HandlerEffects, Zenon
<1>4. CASE (\E n \in Lines8259 : Deliver(n)) \/ TimerFires \/ KeyPressed \/ UNCHANGED kvars
  <2>1. code'["main"] = code["main"] /\ UNCHANGED <<framebuffer, vars>>
    BY <1>4, Zenon DEF Deliver, TimerFires, KeyPressed, kvars, cpu, scheduler, LockInv, Contexts
  <2>2. Position' = Position
    BY <2>1, MainStays, Zenon DEF SchedulerInv
  <2> HIDE DEF Position
  <2> QED  BY <1>1, <2>1, <2>2, Zenon
<1> QED
  BY <1>2, <1>3, <1>4, Zenon DEF KNext

(* Every step of the kernel is a step of the atomic scheduler or leaves    *)
(* its state, as the mapping shows it, alone.                              *)
LEMMA StepRefines ==
  ASSUME LockInv, SchedulerInv, LockInv', SchedulerInv', [KNext]_kvars
  PROVE  [Atomic!Next]_(Atomic!vars)
<1>1. /\ Position \in Nat /\ Position' \in {Position, Position + 1}
      /\ Initializing <=> Position <= 10
      /\ Initializing' <=> Position' <= 10
  <2>1. (Initializing <=> Position <= 10)'
    BY PositionSays, PTL DEF SchedulerInv
  <2> QED  BY <2>1, AfterInitialize, PositionSays, Zenon DEF SchedulerInv
<1> HIDE DEF Position
<1>2. CASE Initializing /\ Initializing'
  BY <1>2, Zenon DEF Atomic!vars
<1>3. CASE Initializing /\ ~ Initializing'
  <2>1. Position = 10 /\ StoreId("main")
    BY <1>1, <1>3, AfterInitialize, SMTT(40)
  <2>2. /\ tasks' = RunNext(Added, NONE) /\ current' = NextIndex(Added, NONE) /\ TASK_COUNT' = Len(Added)
        /\ CURRENT_TASK_ID' = TaskIdAt(tasks', current')
    BY <2>1, Zenon DEF SchedulerInv, DataInv, StoreId
  <2>3. Atomic!Initialize
    BY <1>3, <2>2, SameOperators, Zenon DEF Atomic!Initialize, Atomic!Rotate
  <2> QED  BY <2>3, Zenon DEF Atomic!Next
<1>4. CASE ~ Initializing
  <2>1. ~ Initializing' /\ Position > 10 /\ Position' > 10
    BY <1>1, <1>4
  <2>2. CASE RunNextTask("irq")
    <3>1. holder["SCHEDULER"] = "irq" /\ holder' = holder /\ TASK_COUNT' = TASK_COUNT
      BY <2>2, InScheduler, ZenonT(40) DEF RunNextTask, SchedulerStep, At
    <3>2. tasks' = RunNext(tasks, current) /\ current' = NextIndex(tasks, current)
      BY <2>2, Zenon DEF RunNextTask
    <3>3. Atomic!Tick
      BY <1>4, <2>1, <3>1, <3>2, SameOperators, Zenon DEF Atomic!Tick, Atomic!Rotate
    <3> QED  BY <3>3, Zenon DEF Atomic!Next
  <2>3. CASE StoreId("irq")
    <3>1. holder["SCHEDULER"] = "irq" /\ holder' = holder /\ UNCHANGED <<tasks, current, TASK_COUNT>>
      BY <2>3, InScheduler, Zenon DEF StoreId, SchedulerStep, At
    <3> QED  BY <1>4, <2>1, <3>1, Zenon DEF Atomic!vars, TaskIdAt
  <2>4. CASE UNCHANGED vars
    <3>1. UNCHANGED <<tasks, current, TASK_COUNT, CURRENT_TASK_ID>>
      BY <2>4, Zenon DEF vars
    <3>2. Storing \/ CURRENT_TASK_ID = TaskIdAt(tasks, current)
      BY <2>1, Zenon DEF SchedulerInv, DataInv
    <3>3. Storing' \/ CURRENT_TASK_ID = TaskIdAt(tasks, current)
      BY <2>1, <3>1, Zenon DEF SchedulerInv, DataInv, TaskIdAt
    <3>4. Storing => holder["SCHEDULER"] = "irq"
      BY StoringHolds, Zenon
    <3>5. Storing' => holder'["SCHEDULER"] = "irq"
      <4>1. (Storing => holder["SCHEDULER"] = "irq")'
        BY StoringHolds, PTL
      <4> QED  BY <4>1, Zenon
    <3> QED  BY <1>4, <2>1, <3>1, <3>2, <3>3, <3>4, <3>5, Zenon DEF Atomic!vars, TaskIdAt
  <2> QED  BY <2>1, <2>2, <2>3, <2>4, AfterInitialize, Zenon
<1> QED
  BY <1>2, <1>3, <1>4, Zenon

(* For any list of tasks, the critical sections of `initialize` and `tick` *)
(* in the kernel, interrupted wherever interrupts are enabled, implement   *)
(* the steps of the atomic scheduler: with ExactlyOneRunning and           *)
(* TicksRotate, the running kernel has exactly one task running and        *)
(* rotates it.                                                             *)
THEOREM KernelRefinesScheduler == KSpec => ImplementsScheduler
<1>1. KInit => Atomic!Init
  <2> SUFFICES ASSUME KInit  PROVE Atomic!Init
    BY Zenon
  <2>1. Position = 1
    <3>1. code["main"] = Boot(framebuffer) /\ Boot(framebuffer) \in Seq(Ops)
      BY BootStarts, Zenon DEF KInit
    <3> QED  BY <3>1, SMTT(40) DEF Position
  <2>2. Initializing
    BY <2>1, LockInit, SchedulerStart, PositionSays, SMTT(40) DEF SchedulerInv
  <2> QED  BY <2>2, SameOperators, Zenon DEF Atomic!Init
<1>2. KSpec => [](LockInv /\ SchedulerInv)
  BY LockInit, LockNext, SchedulerStart, SchedulerNext, PTL DEF KSpec
<1>3. LockInv /\ SchedulerInv /\ (LockInv /\ SchedulerInv)' /\ [KNext]_kvars => [Atomic!Next]_(Atomic!vars)
  BY StepRefines, Zenon
<1> QED
  BY <1>1, <1>2, <1>3, PTL DEF KSpec, ImplementsScheduler, Atomic!Spec
=============================================================================
