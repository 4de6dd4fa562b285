--------------------------- MODULE TaskingProofs ---------------------------
(***************************************************************************)
(* Proofs about Tasking for any number of threads and user tasks, any time *)
(* slice and any width of the tick counter.                                *)
(***************************************************************************)
EXTENDS Tasking, FiniteSetTheorems, WellFoundedInduction, TLAPS

(***************************************************************************)
(* The inductive invariant.  OneRunning alone is not inductive: it needs   *)
(* that a task inside scheduler_schedule is not RUNNING (so that a tick    *)
(* there does not schedule), and that the task being switched to is known. *)
(***************************************************************************)
InSchedule ==
    phase \in {"pick", "switch"} => state[current_task] # "RUNNING"

ChosenKnown ==
    phase = "switch" =>
        /\ chosen \in Tasks \ {current_task}
        /\ chosen = KernelTask \/ state[chosen] = "READY"

NotCreated ==
    /\ \A t \in Tasks : pc[t] = "none" => state[t] = "UNUSED"
    /\ pc[KernelTask] # "none"
    /\ state[KernelTask] # "ZOMBIE"

LinkingKnown ==
    pc[KernelTask] = "link" =>
        linking \in Threads \union UserTasks /\ pc[linking] # "none"

IInv == TypeOK /\ OneRunning /\ InSchedule /\ ChosenKnown /\ NotCreated /\ LinkingKnown

-----------------------------------------------------------------------------
\* get_next_ready_task returns a READY task or the kernel task.
LEMMA NextIsRunnable ==
    ASSUME NEW st, NEW t, get_next_ready_task(st, t)
    PROVE  t = KernelTask \/ st[t] = "READY"
BY DEF get_next_ready_task

\* A task resumes at a known point of the kernel.
LEMMA ResumePointType ==
    ASSUME TypeOK, NEW t \in Tasks
    PROVE  /\ ResumePoint(t) \in Points
           /\ ResumePoint(t) \in {pc[t], "idle", "run", "wild"}
BY DEF TypeOK, ResumePoint, Points

\* What task_switch does to a task other than the one it switches to.
LEMMA SwitchEffect ==
    ASSUME TypeOK, NEW st \in [Tasks -> States], NEW new \in Tasks,
           NEW how \in {"main", "irq"}, task_switch(st, new, how)
    PROVE  /\ state' = [st EXCEPT ![new] = "RUNNING"]
           /\ state' \in [Tasks -> States]
           /\ current_task' = new
           /\ iff' \in BOOLEAN
           /\ pc' \in [Tasks -> Points]
           /\ ctx' \in [Tasks -> {"entry", "main", "irq", "stale"}]
           /\ phase' \in {"main", "eoi"}
           /\ \A u \in Tasks \ {new} : pc'[u] = pc[u]
           /\ pc'[new] \in {pc[new], "idle", "run", "wild"}
<1>1. CASE first_run(new)
  BY <1>1 DEF task_switch, EnterUser, TypeOK, States, Points
<1>2. CASE ~first_run(new)
  <2>1. ResumePoint(new) \in Points /\ ResumePoint(new) \in {pc[new], "idle", "run", "wild"}
    BY ResumePointType
  <2>2. PICK point \in {ResumePoint(new), "wild"} :
          /\ pc' = [pc EXCEPT ![new] = point]
          /\ phase' = IF ctx[new] = "irq" /\ point # "wild" THEN "eoi" ELSE "main"
    BY <1>2, Zenon DEF task_switch, task_switch_asm
  <2>3. point \in Points /\ point \in {pc[new], "idle", "run", "wild"}
    BY <2>1, <2>2 DEF Points
  <2>4. /\ pc' \in [Tasks -> Points] /\ phase' \in {"main", "eoi"}
        /\ \A u \in Tasks \ {new} : pc'[u] = pc[u]
        /\ pc'[new] \in {pc[new], "idle", "run", "wild"}
    BY <2>2, <2>3 DEF TypeOK
  <2>5. ctx' \in [Tasks -> {"entry", "main", "irq", "stale"}]
    BY <1>2 DEF task_switch, task_switch_asm, TypeOK
  <2>6. QED BY <1>2, <2>4, <2>5 DEF task_switch, States
<1>3. QED BY <1>1, <1>2

\* The kernel task is a task, and NULL is not one.
LEMMA KernelTaskIsTask ==
    /\ KernelTask \in Tasks
    /\ NULL \notin Tasks
    /\ KernelTask \notin Threads \union UserTasks
    /\ Threads \union UserTasks \subseteq Tasks
BY TaskAssumption DEF Tasks

\* The initial state satisfies the invariant.
LEMMA InitInv == Init => IInv
<1> SUFFICES ASSUME Init PROVE IInv
  OBVIOUS
<1> USE KernelTaskIsTask
<1>1. TypeOK
  <2>1. 0 \in 0..(TickWrap - 1) /\ 0 \in 0..SCHEDULER_TIME_SLICE_MS
    BY TimeAssumption
  <2>2. state \in [Tasks -> States] /\ pc \in [Tasks -> Points]
    BY DEF Init, States, Points
  <2>3. QED BY <2>1, <2>2, Zenon DEF Init, TypeOK
<1>2. OneRunning /\ InSchedule /\ ChosenKnown /\ NotCreated /\ LinkingKnown
  BY DEF Init, OneRunning, InSchedule, ChosenKnown, NotCreated, LinkingKnown
<1>3. QED BY <1>1, <1>2 DEF IInv

-----------------------------------------------------------------------------
(***************************************************************************)
(* Every action preserves the invariant.                                   *)
(***************************************************************************)
\* scheduler_pick_next and the early return of scheduler_schedule.
LEMMA PickInv == IInv /\ Pick => IInv'
<1> SUFFICES ASSUME IInv, Pick PROVE IInv'
  OBVIOUS
<1> USE KernelTaskIsTask
<1>1. PICK t \in Tasks :
        /\ get_next_ready_task(state, t)
        /\ time_slice' = [time_slice EXCEPT ![t] = SCHEDULER_TIME_SLICE_MS]
        /\ IF t = current_task
           THEN /\ state' = [state EXCEPT ![t] = "RUNNING"]
                /\ phase' = "main"
                /\ iff' = TRUE
                /\ UNCHANGED chosen
           ELSE /\ phase' = "switch"
                /\ chosen' = t
                /\ UNCHANGED <<state, iff>>
  BY Zenon DEF Pick
<1>2. t = KernelTask \/ state[t] = "READY"
  BY <1>1, NextIsRunnable
<1>3. UNCHANGED <<wake_time, next, pc, ctx, ready_queue, ready_queue_tail,
                  task_list_head, current_task, in_service, total_ticks, linking>>
  BY DEF Pick, queue
<1>4. phase = "pick" /\ state[current_task] # "RUNNING"
  BY DEF Pick, IInv, InSchedule
<1>5. SCHEDULER_TIME_SLICE_MS \in 0..SCHEDULER_TIME_SLICE_MS
  BY TimeAssumption
<1>6. CASE t = current_task
  BY <1>1, <1>2, <1>3, <1>4, <1>5, <1>6
     DEF IInv, TypeOK, OneRunning, InSchedule, ChosenKnown, NotCreated, LinkingKnown, States
<1>7. CASE t # current_task
  BY <1>1, <1>2, <1>3, <1>4, <1>5, <1>7
     DEF IInv, TypeOK, OneRunning, InSchedule, ChosenKnown, NotCreated, LinkingKnown
<1>8. QED BY <1>6, <1>7

\* task_switch, called by scheduler_schedule.
LEMMA SwitchInv == IInv /\ Switch => IInv'
<1> SUFFICES ASSUME IInv, Switch PROVE IInv'
  OBVIOUS
<1> USE KernelTaskIsTask
<1>1. /\ phase = "switch"
      /\ chosen \in Tasks \ {current_task}
      /\ chosen = KernelTask \/ state[chosen] = "READY"
      /\ state[current_task] # "RUNNING"
      /\ state \in [Tasks -> States]
      /\ current_task \in Tasks
      /\ TypeOK
  BY DEF Switch, IInv, ChosenKnown, InSchedule, TypeOK
<1>2. task_switch(state, chosen, "main")
  BY DEF Switch
<1>3. /\ state' = [state EXCEPT ![chosen] = "RUNNING"]
      /\ state' \in [Tasks -> States]
      /\ current_task' = chosen
      /\ iff' \in BOOLEAN
      /\ pc' \in [Tasks -> Points]
      /\ ctx' \in [Tasks -> {"entry", "main", "irq", "stale"}]
      /\ phase' \in {"main", "eoi"}
      /\ \A u \in Tasks \ {chosen} : pc'[u] = pc[u]
      /\ pc'[chosen] \in {pc[chosen], "idle", "run", "wild"}
  BY <1>1, <1>2, SwitchEffect
<1>4. UNCHANGED <<time_slice, wake_time, next, ready_queue, ready_queue_tail,
                  task_list_head, in_service, total_ticks, linking>> /\ chosen' = NULL
  BY DEF Switch, queue
<1>5. TypeOK'
  BY <1>1, <1>3, <1>4 DEF TypeOK
<1>6. OneRunning' /\ InSchedule' /\ ChosenKnown'
  BY <1>1, <1>3, <1>4 DEF IInv, OneRunning, InSchedule, ChosenKnown
<1>7. NotCreated' /\ LinkingKnown'
  BY <1>1, <1>3, <1>4 DEF IInv, NotCreated, LinkingKnown
<1>8. QED BY <1>5, <1>6, <1>7 DEF IInv

\* The tail of timer_handler.
LEMMA SendEoiInv == IInv /\ SendEoi => IInv'
BY Zenon DEF SendEoi, tcb, queue, IInv, TypeOK, OneRunning, InSchedule, ChosenKnown,
       NotCreated, LinkingKnown

\* The second half of task_sleep.
LEMMA SleepMarkInv == IInv /\ SleepMark => IInv'
<1> SUFFICES ASSUME IInv, SleepMark PROVE IInv'
  OBVIOUS
<1> USE KernelTaskIsTask
<1>1. TypeOK'
  BY DEF SleepMark, queue, IInv, TypeOK, States, Points
<1>2. OneRunning' /\ InSchedule' /\ ChosenKnown'
  BY DEF SleepMark, IInv, TypeOK, OneRunning, InSchedule, ChosenKnown
<1>3. NotCreated' /\ LinkingKnown'
  BY DEF SleepMark, IInv, TypeOK, NotCreated, LinkingKnown
<1>4. QED BY <1>1, <1>2, <1>3 DEF IInv

\* The task_yield of cmd_exec.
LEMMA ExecYieldInv == IInv /\ ExecYield => IInv'
<1> SUFFICES ASSUME IInv, ExecYield PROVE IInv'
  OBVIOUS
<1> USE KernelTaskIsTask
<1>1. TypeOK'
  BY DEF ExecYield, task_yield, queue, IInv, TypeOK, States, Points
<1>2. OneRunning' /\ InSchedule' /\ ChosenKnown'
  BY DEF ExecYield, task_yield, IInv, TypeOK, OneRunning, InSchedule, ChosenKnown
<1>3. NotCreated' /\ LinkingKnown'
  BY DEF ExecYield, task_yield, IInv, TypeOK, NotCreated, LinkingKnown
<1>4. QED BY <1>1, <1>2, <1>3 DEF IInv

\* The second half of scheduler_add_task.
LEMMA LinkInv == IInv /\ Link => IInv'
<1> SUFFICES ASSUME IInv, Link PROVE IInv'
  OBVIOUS
<1> USE KernelTaskIsTask
<1>1. linking \in Threads \union UserTasks /\ pc[linking] # "none"
  BY DEF Link, IInv, LinkingKnown
<1>2. TypeOK'
  BY <1>1 DEF Link, queue, cpu, IInv, TypeOK, States, Points
<1>3. OneRunning' /\ InSchedule' /\ ChosenKnown'
  BY <1>1 DEF Link, cpu, IInv, TypeOK, OneRunning, InSchedule, ChosenKnown
<1>4. NotCreated' /\ LinkingKnown'
  BY <1>1 DEF Link, IInv, TypeOK, NotCreated, LinkingKnown
<1>5. QED BY <1>2, <1>3, <1>4 DEF IInv

\* task_yield.
LEMMA YieldInv == ASSUME NEW t \in Tasks, NEW sys \in BOOLEAN, IInv, Yield(t, sys)
                  PROVE  IInv'
<1> USE KernelTaskIsTask
<1>1. TypeOK'
  BY DEF Yield, MayCall, InOwnCode, task_yield, queue, IInv, TypeOK, States
<1>2. OneRunning' /\ InSchedule' /\ ChosenKnown'
  BY DEF Yield, MayCall, InOwnCode, task_yield, IInv, TypeOK, OneRunning, InSchedule,
         ChosenKnown
<1>3. NotCreated' /\ LinkingKnown'
  BY DEF Yield, MayCall, InOwnCode, task_yield, IInv, TypeOK, NotCreated, LinkingKnown
<1>4. QED BY <1>1, <1>2, <1>3 DEF IInv

\* The first half of task_sleep.
LEMMA SleepInv == ASSUME NEW t \in Tasks, NEW sys \in BOOLEAN, NEW ms \in SleepMs,
                         IInv, Sleep(t, sys, ms)
                  PROVE  IInv'
<1> USE KernelTaskIsTask
<1>1. (total_ticks + ms) % TickWrap \in 0..(TickWrap - 1)
  BY TimeAssumption DEF IInv, TypeOK
<1>2. TypeOK'
  BY <1>1 DEF Sleep, MayCall, InOwnCode, queue, IInv, TypeOK, Points
<1>3. OneRunning' /\ InSchedule' /\ ChosenKnown'
  BY DEF Sleep, MayCall, InOwnCode, IInv, TypeOK, OneRunning, InSchedule, ChosenKnown
<1>4. NotCreated' /\ LinkingKnown'
  BY DEF Sleep, MayCall, InOwnCode, IInv, TypeOK, NotCreated, LinkingKnown
<1>5. QED BY <1>2, <1>3, <1>4 DEF IInv

\* task_exit.
LEMMA ExitInv == ASSUME NEW t \in Tasks, NEW sys \in BOOLEAN, IInv, Exit(t, sys)
                 PROVE  IInv'
<1> USE KernelTaskIsTask
<1>1. TypeOK'
  BY DEF Exit, MayCall, InOwnCode, queue, IInv, TypeOK, States, Points
<1>2. OneRunning' /\ InSchedule' /\ ChosenKnown'
  BY DEF Exit, MayCall, InOwnCode, IInv, TypeOK, OneRunning, InSchedule, ChosenKnown
<1>3. NotCreated' /\ LinkingKnown'
  BY DEF Exit, MayCall, InOwnCode, IInv, TypeOK, NotCreated, LinkingKnown
<1>4. QED BY <1>1, <1>2, <1>3 DEF IInv

\* task_create and the first half of scheduler_add_task.
LEMMA CreateInv == ASSUME NEW t \in Threads \union UserTasks, IInv, Create(t)
                   PROVE  IInv'
<1> USE KernelTaskIsTask
<1>1. t \in Tasks /\ t # KernelTask /\ state[t] = "UNUSED"
  BY DEF Create, IInv, NotCreated
<1>2. SCHEDULER_TIME_SLICE_MS \in 0..SCHEDULER_TIME_SLICE_MS
  BY TimeAssumption
<1>3. next' \in [Tasks -> Tasks \union {NULL}]
  BY <1>1 DEF Create, IInv, TypeOK
<1>4. TypeOK'
  BY <1>1, <1>2, <1>3 DEF Create, InOwnCode, cpu, IInv, TypeOK, States, Points
<1>5. OneRunning' /\ InSchedule' /\ ChosenKnown'
  BY <1>1 DEF Create, InOwnCode, cpu, IInv, TypeOK, OneRunning, InSchedule, ChosenKnown
<1>6. NotCreated' /\ LinkingKnown'
  BY <1>1 DEF Create, InOwnCode, IInv, TypeOK, NotCreated, LinkingKnown
<1>7. QED BY <1>4, <1>5, <1>6 DEF IInv

\* The timer interrupt, with or without a switch.
LEMMA TickInv == IInv /\ Tick => IInv'
<1> SUFFICES ASSUME IInv, Tick PROVE IInv'
  OBVIOUS
<1> USE KernelTaskIsTask
<1>1. CASE TickHangs
  BY <1>1, Zenon DEF TickHangs, tcb, queue, IInv, TypeOK, OneRunning, InSchedule, ChosenKnown,
              NotCreated, LinkingKnown
<1>2. CASE TickRuns
  <2> DEFINE woken == [t \in Tasks |-> IF Due(t) THEN "READY" ELSE state[t]]
             ran == woken[current_task] = "RUNNING"
             slice == IF ran /\ time_slice[current_task] > 0
                      THEN time_slice[current_task] - 1
                      ELSE time_slice[current_task]
             marked == [woken EXCEPT ![current_task] = "READY"]
             used == [time_slice EXCEPT ![current_task] = slice]
  <2>1. /\ woken \in [Tasks -> States]
        /\ \A t \in Tasks : woken[t] = state[t]
                            \/ (state[t] = "SLEEPING" /\ woken[t] = "READY")
    BY DEF IInv, TypeOK, States, Due
  <2>2. current_task \in Tasks /\ TypeOK /\ phase \in {"main", "pick", "switch"}
    BY DEF IInv, TypeOK, Tick
  <2>3. marked \in [Tasks -> States]
    BY <2>1, <2>2 DEF States
  <2>4. slice \in 0..SCHEDULER_TIME_SLICE_MS
    BY <2>2, TimeAssumption DEF TypeOK
  <2>5. used \in [Tasks -> 0..SCHEDULER_TIME_SLICE_MS]
    BY <2>2, <2>4 DEF TypeOK
  <2>6. /\ total_ticks' \in 0..(TickWrap - 1)
        /\ wake_time' \in [Tasks -> 0..(TickWrap - 1)]
    BY <1>2, <2>2, TimeAssumption DEF TickRuns, now, TypeOK
  <2>7. UNCHANGED <<next, ready_queue, ready_queue_tail, task_list_head, linking>>
    BY <1>2 DEF TickRuns, queue
  <2> HIDE DEF woken, slice, marked, used
  <2>8. ASSUME state' = woken, time_slice' \in [Tasks -> 0..SCHEDULER_TIME_SLICE_MS],
               UNCHANGED <<pc, ctx, cpu>>
        PROVE  IInv'
    <3>1. TypeOK'
      BY <2>1, <2>2, <2>6, <2>7, <2>8 DEF TypeOK, cpu
    <3>2. OneRunning' /\ InSchedule' /\ ChosenKnown'
      BY <2>1, <2>2, <2>8, Zenon DEF IInv, cpu, OneRunning, InSchedule, ChosenKnown, TypeOK
    <3>3. NotCreated' /\ LinkingKnown'
      BY <2>1, <2>7, <2>8 DEF IInv, NotCreated, LinkingKnown
    <3>4. QED BY <3>1, <3>2, <3>3 DEF IInv
  <2>9. ASSUME NEW t \in Tasks, ran, get_next_ready_task(marked, t),
               time_slice' = [used EXCEPT ![t] = SCHEDULER_TIME_SLICE_MS],
               t # current_task, task_switch(marked, t, "irq"), in_service' = TRUE,
               UNCHANGED chosen
        PROVE  IInv'
    <3>1. /\ state' = [marked EXCEPT ![t] = "RUNNING"]
          /\ state' \in [Tasks -> States]
          /\ current_task' = t
          /\ iff' \in BOOLEAN
          /\ pc' \in [Tasks -> Points]
          /\ ctx' \in [Tasks -> {"entry", "main", "irq", "stale"}]
          /\ phase' \in {"main", "eoi"}
          /\ \A u \in Tasks \ {t} : pc'[u] = pc[u]
          /\ pc'[t] \in {pc[t], "idle", "run", "wild"}
      BY <2>2, <2>3, <2>9, SwitchEffect
    <3>2. t = KernelTask \/ marked[t] = "READY"
      BY <2>9, NextIsRunnable
    <3>3. /\ marked[current_task] = "READY"
          /\ \A u \in Tasks \ {current_task} : marked[u] = woken[u]
          /\ state[current_task] = "RUNNING"
      BY <2>1, <2>2, <2>9 DEF marked
    <3>4. TypeOK'
      <4>1. time_slice' \in [Tasks -> 0..SCHEDULER_TIME_SLICE_MS]
        BY <2>5, <2>9, TimeAssumption
      <4>2. QED BY <2>2, <2>6, <2>7, <2>9, <3>1, <4>1 DEF TypeOK
    <3>5. OneRunning' /\ InSchedule' /\ ChosenKnown'
      BY <2>1, <2>2, <2>3, <3>1, <3>3 DEF IInv, OneRunning, InSchedule, ChosenKnown, TypeOK
    <3>6. NotCreated' /\ LinkingKnown'
      BY <2>1, <2>2, <2>3, <2>7, <3>1, <3>2, <3>3 DEF IInv, NotCreated, LinkingKnown, TypeOK
    <3>7. QED BY <3>4, <3>5, <3>6 DEF IInv
  <2>10. CASE ~(ran /\ slice = 0)
    <3>1. state' = woken /\ time_slice' = used /\ UNCHANGED <<pc, ctx, cpu>>
      BY <1>2, <2>10 DEF TickRuns, woken, slice, used
    <3>2. QED BY <3>1, <2>5, <2>8, Zenon
  <2>11. CASE ran /\ slice = 0
    <3>1. PICK t \in Tasks :
            /\ get_next_ready_task(marked, t)
            /\ time_slice' = [used EXCEPT ![t] = SCHEDULER_TIME_SLICE_MS]
            /\ IF t = current_task
               THEN /\ state' = woken
                    /\ UNCHANGED <<pc, ctx, cpu>>
               ELSE /\ task_switch(marked, t, "irq")
                    /\ in_service' = TRUE
                    /\ UNCHANGED chosen
      BY <1>2, <2>11, Zenon DEF TickRuns, woken, slice, used, marked
    <3>2. time_slice' \in [Tasks -> 0..SCHEDULER_TIME_SLICE_MS]
      BY <2>5, <3>1, TimeAssumption
    <3>3. CASE t = current_task
      BY <2>8, <3>1, <3>2, <3>3
    <3>4. CASE t # current_task
      BY <2>9, <2>11, <3>1, <3>4, Zenon
    <3>5. QED BY <3>3, <3>4
  <2>12. QED BY <2>10, <2>11
<1>3. QED BY <1>1, <1>2 DEF Tick

\* Every step preserves the invariant.
LEMMA StepInv == IInv /\ [Next]_vars => IInv'
<1> SUFFICES ASSUME IInv, [Next]_vars PROVE IInv'
  OBVIOUS
<1>1. CASE KernelStep
  BY <1>1, PickInv, SwitchInv, SendEoiInv, SleepMarkInv, LinkInv, ExecYieldInv
     DEF KernelStep
<1>2. CASE Tick
  BY <1>2, TickInv
<1>3. CASE YieldCall
  BY <1>3, YieldInv DEF YieldCall
<1>4. CASE SleepCall
  BY <1>4, SleepInv DEF SleepCall
<1>5. CASE ExitCall
  BY <1>5, ExitInv DEF ExitCall
<1>6. CASE CreateCall
  BY <1>6, CreateInv DEF CreateCall
<1>7. CASE UNCHANGED vars
  BY <1>7 DEF vars, tcb, queue, cpu, IInv, TypeOK, OneRunning, InSchedule, ChosenKnown,
              NotCreated, LinkingKnown
<1>8. QED BY <1>1, <1>2, <1>3, <1>4, <1>5, <1>6, <1>7 DEF Next

-----------------------------------------------------------------------------
\* The invariant holds of every behaviour of the scheduler.
THEOREM Invariance == Spec => []IInv
<1>1. QED BY InitInv, StepInv, PTL DEF Spec

\* The TCB fields and the scheduler's globals keep their types, the tick
\* counter and the wake times their width.
THEOREM TypeCorrect == Spec => []TypeOK
<1>1. IInv => TypeOK
  BY DEF IInv
<1>2. QED BY <1>1, Invariance, PTL

\* Only current_task is RUNNING, and it is whenever code outside
\* scheduler_schedule executes, wherever the timer interrupts.
THEOREM OneRunningAlways == Spec => []OneRunning
<1>1. IInv => OneRunning
  BY DEF IInv
<1>2. QED BY <1>1, Invariance, PTL

\* The task that scheduler_schedule picked with interrupts on is still fit to
\* run when task_switch disables them.
THEOREM PickStaysValid == Spec => []PickStillValid
<1>1. IInv => PickStillValid
  BY Zenon DEF IInv, ChosenKnown, PickStillValid
<1>2. QED BY <1>1, Invariance, PTL

-----------------------------------------------------------------------------
\* A tick inside scheduler_schedule finds no RUNNING task and does not switch.
LEMMA TickInSchedule ==
    ASSUME IInv, TickRuns, state[current_task] # "RUNNING"
    PROVE  /\ UNCHANGED cpu
           /\ state' = [t \in Tasks |-> IF Due(t) THEN "READY" ELSE state[t]]
<1>1. current_task \in Tasks
  BY DEF IInv, TypeOK
<1>2. [t \in Tasks |-> IF Due(t) THEN "READY" ELSE state[t]][current_task] # "RUNNING"
  BY <1>1
<1>3. QED BY <1>2 DEF TickRuns

\* A tick takes no ZOMBIE out of that state.
LEMMA TickKeepsDead ==
    ASSUME IInv, Tick, NEW t \in Tasks, state[t] = "ZOMBIE"
    PROVE  state'[t] = "ZOMBIE"
<1>1. CASE TickHangs
  BY <1>1 DEF TickHangs, tcb
<1>2. CASE TickRuns
  <2> DEFINE woken == [u \in Tasks |-> IF Due(u) THEN "READY" ELSE state[u]]
             marked == [woken EXCEPT ![current_task] = "READY"]
  <2>1. woken[t] = "ZOMBIE" /\ ~Due(t)
    BY DEF Due
  <2>2. CASE state' = woken
    BY <2>1, <2>2
  <2>3. CASE state' # woken
    <3>1. PICK n \in Tasks : /\ woken[current_task] = "RUNNING"
                             /\ get_next_ready_task(marked, n)
                             /\ task_switch(marked, n, "irq")
      BY <1>2, <2>3, Zenon DEF TickRuns
    <3>2. n = KernelTask \/ marked[n] = "READY"
      BY <3>1, NextIsRunnable
    <3>3. current_task # t /\ marked[t] = "ZOMBIE"
      BY <2>1, <3>1, Zenon DEF IInv, TypeOK
    <3>4. n # t
      BY <3>2, <3>3 DEF IInv, NotCreated
    <3>5. marked \in [Tasks -> States]
      BY DEF IInv, TypeOK, States
    <3> HIDE DEF marked
    <3>6. state' = [marked EXCEPT ![n] = "RUNNING"]
      BY <3>1 DEF task_switch
    <3>7. QED BY <3>3, <3>4, <3>5, <3>6
  <2>4. QED BY <2>2, <2>3
<1>3. QED BY <1>1, <1>2 DEF Tick

\* A tick that lands between the parts of scheduler_schedule never switches:
\* a task inside it leaves the CPU only through its own pick.
THEOREM NotReentered == Spec => ScheduleNotReentered
<1>1. IInv /\ [Next]_vars =>
        [(phase \in {"pick", "switch"} /\ current_task' # current_task) =>
            (phase = "switch" /\ current_task' = chosen)]_vars
  <2> SUFFICES ASSUME IInv, Next, phase \in {"pick", "switch"}, current_task' # current_task
               PROVE  phase = "switch" /\ current_task' = chosen
    OBVIOUS
  <2>1. CASE KernelStep
    BY <2>1, Zenon DEF KernelStep, Pick, Switch, task_switch, SendEoi, SleepMark, Link, ExecYield, cpu
  <2>2. CASE Tick
    <3>1. state[current_task] # "RUNNING"
      BY DEF IInv, InSchedule
    <3>2. CASE TickRuns
      BY <3>1, <3>2, TickInSchedule DEF cpu
    <3>3. CASE TickHangs
      BY <3>3 DEF TickHangs
    <3>4. QED BY <2>2, <3>2, <3>3 DEF Tick
  <2>3. CASE YieldCall \/ SleepCall \/ ExitCall \/ CreateCall
    BY <2>3 DEF YieldCall, SleepCall, ExitCall, CreateCall, Yield, Sleep, Exit, Create,
                MayCall, InOwnCode, cpu
  <2>4. QED BY <2>1, <2>2, <2>3 DEF Next
<1>2. QED BY <1>1, Invariance, PTL DEF Spec, ScheduleNotReentered

\* No tick, pick or call makes an exited task runnable; only the end of its
\* own scheduler_add_task can.
THEOREM DeadStaysDeadAlways == Spec => DeadStaysDead
<1>1. IInv /\ [Next]_vars =>
        [\A t \in Tasks :
            state[t] = "ZOMBIE" /\ linking # t => state'[t] = "ZOMBIE"]_vars
  <2> SUFFICES ASSUME IInv, Next, NEW t \in Tasks, state[t] = "ZOMBIE", linking # t
               PROVE  state'[t] = "ZOMBIE"
    OBVIOUS
  <2> USE KernelTaskIsTask
  <2>1. state \in [Tasks -> States] /\ current_task \in Tasks /\ t # KernelTask
    BY DEF IInv, TypeOK, NotCreated
  <2>2. CASE Pick
    <3>1. PICK n \in Tasks :
            /\ get_next_ready_task(state, n)
            /\ state' = [state EXCEPT ![n] = "RUNNING"] \/ state' = state
      BY <2>2 DEF Pick
    <3>2. n # t
      BY <2>1, <3>1, NextIsRunnable
    <3>3. QED BY <2>1, <3>1, <3>2
  <2>3. CASE Switch
    BY <2>1, <2>3 DEF Switch, task_switch, IInv, ChosenKnown
  <2>4. CASE SendEoi \/ SleepMark \/ Link \/ ExecYield
    BY <2>1, <2>4 DEF SendEoi, SleepMark, Link, ExecYield, task_yield, tcb, IInv, OneRunning,
                      LinkingKnown
  <2>5. CASE Tick
    BY <2>5, TickKeepsDead
  <2>6. CASE YieldCall \/ SleepCall \/ ExitCall
    BY <2>1, <2>6 DEF YieldCall, SleepCall, ExitCall, Yield, Sleep, Exit, task_yield,
                      MayCall, InOwnCode, IInv, OneRunning
  <2>7. CASE CreateCall
    BY <2>1, <2>7 DEF CreateCall, Create, IInv, NotCreated
  <2>8. QED BY <2>2, <2>3, <2>4, <2>5, <2>6, <2>7, Zenon DEF Next, KernelStep
<1>2. QED BY <1>1, Invariance, PTL DEF Spec, DeadStaysDead

-----------------------------------------------------------------------------
(***************************************************************************)
(* Until a program is executed every switch goes through task_switch_asm,  *)
(* and until a task is resumed elsewhere it resumes where it was.          *)
(***************************************************************************)
\* A task that has not been created yet was not created before.
LEMMA NoneBefore ==
    ASSUME IInv, [Next]_vars, NEW u \in Tasks, pc'[u] = "none"
    PROVE  pc[u] = "none"
<1> USE KernelTaskIsTask
<1>1. TypeOK /\ pc[KernelTask] # "none"
  BY DEF IInv, NotCreated
<1>2. ASSUME NEW st, NEW new \in Tasks, NEW how, task_switch(st, new, how)
      PROVE  pc[u] = "none"
  BY <1>1, <1>2 DEF task_switch, EnterUser, task_switch_asm, ResumePoint, TypeOK
<1>3. CASE Switch
  BY <1>2, <1>3 DEF Switch, IInv, ChosenKnown
<1>4. CASE Tick
  BY <1>2, <1>4, Zenon DEF Tick, TickHangs, TickRuns, tcb
<1>5. CASE Pick \/ SendEoi \/ SleepMark \/ Link \/ ExecYield
  BY <1>1, <1>5, Zenon DEF Pick, SendEoi, SleepMark, Link, ExecYield, tcb, TypeOK
<1>6. CASE YieldCall \/ SleepCall \/ ExitCall \/ CreateCall
  BY <1>1, <1>6 DEF YieldCall, SleepCall, ExitCall, CreateCall, Yield, Sleep, Exit, Create, TypeOK
<1>7. CASE UNCHANGED vars
  BY <1>7 DEF vars, tcb
<1>8. QED BY <1>3, <1>4, <1>5, <1>6, <1>7 DEF Next, KernelStep

\* A tick either leaves the CPU alone or switches from inside the interrupt.
LEMMA TickCases ==
    ASSUME IInv, TickRuns
    PROVE  \/ /\ UNCHANGED <<pc, ctx, cpu>>
              /\ \A u \in Tasks : state[u] = "READY" => state'[u] = "READY"
           \/ \E new \in Tasks \ {current_task} :
                /\ task_switch([[t \in Tasks |-> IF Due(t) THEN "READY" ELSE state[t]]
                                  EXCEPT ![current_task] = "READY"], new, "irq")
                /\ state'[current_task] = "READY"
<1> DEFINE woken == [t \in Tasks |-> IF Due(t) THEN "READY" ELSE state[t]]
           marked == [woken EXCEPT ![current_task] = "READY"]
<1>1. current_task \in Tasks /\ \A u \in Tasks : state[u] = "READY" => woken[u] = "READY"
  BY DEF IInv, TypeOK
<1>2. marked[current_task] = "READY" /\ DOMAIN marked = Tasks
  BY <1>1
<1>3. CASE state' = woken /\ UNCHANGED <<pc, ctx, cpu>>
  BY <1>1, <1>3
<1>4. CASE \E new \in Tasks \ {current_task} : task_switch(marked, new, "irq")
  <2>1. PICK new \in Tasks \ {current_task} : task_switch(marked, new, "irq")
    BY <1>4, Zenon
  <2>2. state' = [marked EXCEPT ![new] = "RUNNING"]
    BY <2>1 DEF task_switch
  <2> HIDE DEF marked
  <2>3. state'[current_task] = "READY"
    BY <1>1, <1>2, <2>1, <2>2
  <2>4. QED BY <2>1, <2>3, Zenon DEF marked
<1>5. QED BY <1>3, <1>4 DEF TickRuns

\* Before a program is executed, a thread that went astray and left the CPU has a
\* context that is not the one it was created with.
NoPrograms == \A t \in UserTasks : pc[t] = "none"
WildLoaded ==
    NoPrograms => \A t \in Tasks \ {current_task} : pc[t] = "wild" => ctx[t] # "entry"

\* So a thread that went astray stays so, and keeps such a context.
LEMMA WildSwitch ==
    ASSUME TypeOK, WildLoaded, NoPrograms, NEW st, NEW new \in Tasks \ {current_task},
           NEW how \in {"main", "irq"}, task_switch(st, new, how), NEW u \in Tasks
    PROVE  /\ pc[u] = "wild" => pc'[u] = "wild"
           /\ u # current_task' /\ pc'[u] = "wild" => ctx'[u] # "entry"
<1>1. current_task' = new /\ task_switch_asm(current_task, new, how)
  BY Zenon DEF task_switch, first_run, NoPrograms
<1>2. PICK point \in {ResumePoint(new), "wild"} : pc' = [pc EXCEPT ![new] = point]
  BY <1>1 DEF task_switch_asm
<1>3. ctx' = [ctx EXCEPT ![current_task] = how,
                         ![new] = IF ctx[new] = "entry" THEN "entry" ELSE "stale"]
  BY <1>1 DEF task_switch_asm
<1>4. CASE u # new
  BY <1>1, <1>2, <1>3, <1>4 DEF TypeOK, WildLoaded
<1>5. CASE u = new
  <2>1. pc[u] = "wild" => ctx[u] \in {"main", "irq", "stale"}
    BY <1>5 DEF TypeOK, WildLoaded
  <2>2. pc[u] = "wild" => ResumePoint(u) = "wild"
    BY <2>1 DEF ResumePoint
  <2>3. pc'[u] = point
    BY <1>2, <1>5 DEF TypeOK
  <2>4. QED BY <1>1, <1>2, <1>5, <2>2, <2>3
<1>6. QED BY <1>4, <1>5

LEMMA WildStays ==
    ASSUME IInv, WildLoaded, NoPrograms, [Next]_vars, NEW u \in Tasks
    PROVE  /\ pc[u] = "wild" => pc'[u] = "wild"
           /\ u # current_task' /\ pc'[u] = "wild" => ctx'[u] # "entry"
<1> DEFINE Kept == /\ pc[u] = "wild" => pc'[u] = "wild"
                   /\ u # current_task' /\ pc'[u] = "wild" => ctx'[u] # "entry"
<1>1. TypeOK /\ (u # current_task /\ pc[u] = "wild" => ctx[u] # "entry")
  BY DEF IInv, WildLoaded
<1>2. ASSUME NEW st, NEW new \in Tasks \ {current_task}, NEW how \in {"main", "irq"},
             task_switch(st, new, how)
      PROVE  Kept
  BY <1>1, <1>2, WildSwitch
<1>3. ASSUME UNCHANGED <<pc, ctx, current_task>> PROVE Kept
  BY <1>1, <1>3
<1> SUFFICES Kept
  OBVIOUS
<1> HIDE DEF Kept
<1>4. CASE Switch
  <2>1. chosen \in Tasks \ {current_task} /\ task_switch(state, chosen, "main")
    BY <1>4, Zenon DEF Switch, IInv, ChosenKnown
  <2>2. QED BY <1>2, <2>1
<1>5. CASE Tick
  <2>1. CASE TickHangs
    BY <1>3, <2>1, Zenon DEF TickHangs, tcb
  <2>2. CASE UNCHANGED <<pc, ctx, cpu>>
    BY <1>3, <2>2, Zenon DEF cpu
  <2>3. CASE \E new \in Tasks \ {current_task} : \E st : task_switch(st, new, "irq")
    BY <1>2, <2>3
  <2>4. QED BY <1>5, <2>1, <2>2, <2>3, TickCases, Zenon DEF Tick
<1>6. CASE Pick \/ SendEoi
  BY <1>3, <1>6, Zenon DEF Pick, SendEoi, tcb
<1>7. CASE SleepMark \/ Link \/ ExecYield
  BY <1>1, <1>7, Zenon DEF SleepMark, Link, ExecYield, cpu, TypeOK, Kept
<1>8. CASE YieldCall \/ SleepCall \/ ExitCall
  BY <1>1, <1>8, Zenon DEF YieldCall, SleepCall, ExitCall, Yield, Sleep, Exit,
                    MayCall, InOwnCode, TypeOK, Kept
<1>9. CASE CreateCall
  BY <1>1, <1>9 DEF CreateCall, Create, InOwnCode, cpu, TypeOK, Kept
<1>10. CASE UNCHANGED vars
  BY <1>3, <1>10, Zenon DEF vars, tcb, cpu
<1>11. QED BY <1>4, <1>5, <1>6, <1>7, <1>8, <1>9, <1>10, Zenon DEF Next, KernelStep

\* WildLoaded is an invariant.
LEMMA WildInvariance == Spec => []WildLoaded
<1>1. Init => WildLoaded
  BY DEF Init, WildLoaded
<1>2. IInv /\ WildLoaded /\ [Next]_vars => WildLoaded'
  <2> SUFFICES ASSUME IInv, WildLoaded, [Next]_vars, NoPrograms' PROVE WildLoaded'
    BY DEF WildLoaded
  <2>1. NoPrograms
    BY NoneBefore, KernelTaskIsTask DEF NoPrograms
  <2>2. QED BY <2>1, WildStays DEF WildLoaded
<1>3. QED BY <1>1, <1>2, Invariance, PTL DEF Spec

\* So a state in which only threads were created, and none went astray, follows
\* another such state.
LEMMA ThreadsOnlyBefore ==
    ASSUME IInv, WildLoaded, [Next]_vars, ThreadsOnly'
    PROVE  ThreadsOnly
<1>1. NoPrograms
  BY NoneBefore, KernelTaskIsTask DEF ThreadsOnly, NoPrograms
<1>2. \A u \in Tasks : pc[u] # "wild"
  BY <1>1, WildStays DEF ThreadsOnly
<1>3. QED BY <1>1, <1>2 DEF ThreadsOnly, NoPrograms

\* What task_switch does to the contexts before a user task exists.
LEMMA ThreadSwitch ==
    ASSUME ThreadsOnly, ThreadsOnly', TypeOK, NEW st, NEW new \in Tasks \ {current_task},
           NEW how \in {"main", "irq"}, task_switch(st, new, how)
    PROVE  /\ ctx'[current_task] = how
           /\ \A u \in Tasks \ {current_task, new} : ctx'[u] = ctx[u] /\ pc'[u] = pc[u]
           /\ current_task' = new
           /\ phase' = IF ctx[new] = "irq" THEN "eoi" ELSE "main"
<1>1. current_task' = new /\ task_switch_asm(current_task, new, how)
  BY Zenon DEF task_switch, first_run, ThreadsOnly
<1>2. PICK point \in {ResumePoint(new), "wild"} :
        /\ pc' = [pc EXCEPT ![new] = point]
        /\ phase' = IF ctx[new] = "irq" /\ point # "wild" THEN "eoi" ELSE "main"
  BY <1>1, Zenon DEF task_switch_asm
<1>3. point # "wild" /\ \A u \in Tasks \ {new} : pc'[u] = pc[u]
  BY <1>2, Zenon DEF ThreadsOnly, TypeOK
<1>4. /\ ctx'[current_task] = how
      /\ \A u \in Tasks \ {current_task, new} : ctx'[u] = ctx[u]
  BY <1>1, Zenon DEF task_switch_asm, TypeOK
<1>5. QED BY <1>1, <1>2, <1>3, <1>4, Zenon

\* Until a program is executed, and as long as the threads are resumed where they
\* were, an interrupt that was accepted and not yet acknowledged has an owner: a
\* READY task suspended inside timer_handler.
THEOREM ThreadEoiIsOwed == Spec => []EoiIsOwed
<1> USE KernelTaskIsTask
<1>1. Init => EoiIsOwed
  BY DEF Init, EoiIsOwed
<1>2. IInv /\ WildLoaded /\ EoiIsOwed /\ [Next]_vars => EoiIsOwed'
  <2> SUFFICES ASSUME IInv, WildLoaded, EoiIsOwed, [Next]_vars, ThreadsOnly' PROVE EoiIsOwed'
    BY DEF EoiIsOwed
  <2>1. TypeOK /\ ThreadsOnly
    BY ThreadsOnlyBefore, Zenon DEF IInv
  <2>2. CASE Switch
    <3>1. /\ chosen \in Tasks \ {current_task}
          /\ task_switch(state, chosen, "main")
          /\ state' = [state EXCEPT ![chosen] = "RUNNING"]
          /\ phase = "switch" /\ UNCHANGED in_service
      BY <2>2 DEF Switch, IInv, ChosenKnown, task_switch
    <3>2. QED BY <2>1, <3>1, ThreadSwitch DEF EoiIsOwed, TypeOK
  <2>3. CASE Tick
    <3>1. CASE TickHangs
      BY <3>1, Zenon DEF TickHangs, EoiIsOwed
    <3>2. CASE UNCHANGED <<pc, ctx, cpu>>
      BY <2>3, <3>2, Zenon DEF Tick, cpu, EoiIsOwed
    <3>3. CASE \E new \in Tasks \ {current_task} : \E st :
                 task_switch(st, new, "irq") /\ state'[current_task] = "READY"
      BY <2>1, <3>3, ThreadSwitch, Zenon DEF EoiIsOwed, TypeOK
    <3>4. QED BY <2>3, <3>1, <3>2, <3>3, TickCases, ZenonT(30) DEF Tick
  <2>4. CASE SendEoi
    BY <2>4 DEF SendEoi, EoiIsOwed
  <2>5. CASE Pick
    BY <2>1, <2>5 DEF Pick, EoiIsOwed, TypeOK
  <2>6. CASE SleepMark \/ Link \/ ExecYield
    BY <2>1, <2>6, Zenon DEF SleepMark, Link, ExecYield, task_yield, cpu, EoiIsOwed, TypeOK
  <2>7. CASE YieldCall \/ SleepCall \/ ExitCall
    BY <2>1, <2>7, ZenonT(30) DEF YieldCall, SleepCall, ExitCall, Yield, Sleep, Exit, task_yield, MayCall,
                      InOwnCode, EoiIsOwed, TypeOK
  <2>8. CASE CreateCall
    BY <2>1, <2>8, SMTT(30) DEF CreateCall, Create, InOwnCode, cpu, EoiIsOwed, TypeOK, IInv, NotCreated
  <2>9. CASE UNCHANGED vars
    BY <2>1, <2>9 DEF vars, tcb, cpu, EoiIsOwed, ThreadsOnly
  <2>10. QED BY <2>2, <2>3, <2>4, <2>5, <2>6, <2>7, <2>8, <2>9 DEF Next, KernelStep
<1>3. QED BY <1>1, <1>2, Invariance, WildInvariance, PTL DEF Spec

-----------------------------------------------------------------------------
(***************************************************************************)
(* The ready queue.  RingOpenOnlyInAdd is not inductive: it says nothing of *)
(* the shape of the queue.  The invariant names the tasks in their order,  *)
(* and says where the last one points.                                     *)
(***************************************************************************)
Created == {t \in Threads \union UserTasks : pc[t] # "none"}

\* The ready queue holds the created tasks, in the order of their creation; its
\* ring is open only between the stores of scheduler_add_task, and a ring of three
\* tasks or more only while the shell is on the CPU.
Ring(q, k) ==
    /\ \A i, j \in 0..(k - 1) : q[i] = q[j] => i = j
    /\ \A t \in Created : \E i \in 0..(k - 1) : q[i] = t
    /\ next[KernelTask] = NULL
    /\ k = 0 => ready_queue = NULL /\ ready_queue_tail = NULL /\ task_list_head = KernelTask
    /\ k > 0 => ready_queue = q[0] /\ ready_queue_tail = q[k - 1] /\ task_list_head = q[k - 1]
    /\ \A i \in 0..(k - 2) : next[q[i]] = q[i + 1]
    /\ pc[KernelTask] = "link" => k > 0 /\ linking = q[k - 1]
    /\ k > 0 => \/ next[q[k - 1]] = q[0]
                \/ /\ pc[KernelTask] \in {"link", "idle", "wild"}
                   /\ next[q[k - 1]] = IF k = 1 THEN KernelTask ELSE q[k - 2]
                   /\ k > 2 => /\ current_task = KernelTask /\ pc[KernelTask] = "link"
                               /\ phase \in {"main", "hung"}

\* The kernel task never calls task_sleep or task_exit, and the created tasks
\* form the ring.
RingInv ==
    /\ pc[KernelTask] \in {"run", "link", "yield", "idle", "wild"}
    /\ \E q \in [0..(Cardinality(Created) - 1) -> Created] : Ring(q, Cardinality(Created))

\* The shell is not on the CPU with the timer in service, and scheduler_schedule
\* goes back to it with the timer in service only when it owes the EOI.
ShellInv ==
    ThreadsOnly =>
      /\ current_task = KernelTask /\ phase \in {"main", "pick", "switch"} => ~in_service
      /\ phase = "switch" /\ chosen = KernelTask /\ in_service => ctx[KernelTask] = "irq"

-----------------------------------------------------------------------------
(***************************************************************************)
(* Induction over the natural numbers, for a set instead of a predicate.   *)
(***************************************************************************)
LEMMA Induct ==
    ASSUME NEW S, 0 \in S, \A n \in Nat : n \in S => n + 1 \in S
    PROVE  Nat \subseteq S
<1> DEFINE R == OpToRel(<, Nat)
           T == {n \in Nat : n \notin S}
<1>1. SUFFICES ASSUME T # {} PROVE FALSE
  OBVIOUS
<1>2. IsWellFoundedOn(R, Nat)
  BY NatLessThanWellFounded DEF OpToRel
<1>3. T \subseteq Nat
  OBVIOUS
<1>4. \E x \in T : \A y \in T : ~(<<y, x>> \in R)
  <2> HIDE DEF R, T
  <2>1. QED BY <1>1, <1>2, <1>3, WFMin, Zenon
<1>5. PICK x \in T : \A y \in T : ~(<<y, x>> \in R)
  BY <1>4, Zenon
<1>6. x \in Nat /\ x # 0 /\ x - 1 \in Nat /\ x \notin S /\ x = (x - 1) + 1
  OBVIOUS
<1>7. x - 1 \in T
  BY <1>6
<1>8. <<x - 1, x>> \in R
  BY <1>6 DEF OpToRel
<1>9. QED BY <1>5, <1>7, <1>8, Zenon

-----------------------------------------------------------------------------
(***************************************************************************)
(* What the walk over the ready queue visits.                              *)
(***************************************************************************)
\* task->next, or the end.
Turn(t) == IF t = NULL THEN NULL ELSE next[t]
Turns(n, f) == f = [m \in 0..n |-> IF m = 0 THEN ready_queue ELSE Turn(f[m - 1])]
Endless(f) == f = [n \in Nat |-> IF n = 0 THEN ready_queue
                                 ELSE IF f[n - 1] = NULL THEN NULL ELSE next[f[n - 1]]]

LEMMA TurnsAre ==
    ASSUME NEW n \in Nat, NEW f, Turns(n, f)
    PROVE  /\ f[0] = ready_queue
           /\ \A m \in Nat : m + 1 <= n => f[m + 1] = Turn(f[m])
<1>1. f = [m \in 0..n |-> IF m = 0 THEN ready_queue ELSE Turn(f[m - 1])]
  BY DEF Turns
<1>2. ASSUME NEW m \in 0..n PROVE f[m] = IF m = 0 THEN ready_queue ELSE Turn(f[m - 1])
  BY <1>1, Zenon
<1>3. f[0] = ready_queue
  BY <1>2
<1>4. ASSUME NEW m \in Nat, m + 1 <= n PROVE f[m + 1] = Turn(f[m])
  <2>1. m + 1 \in 0..n /\ m + 1 # 0 /\ (m + 1) - 1 = m
    BY <1>4
  <2>2. QED BY <1>2, <2>1
<1>5. QED BY <1>3, <1>4

LEMMA TurnsExist == \A n \in Nat : \E f : Turns(n, f)
<1> DEFINE S == {n \in Nat : \E f : Turns(n, f)}
<1>1. 0 \in S
  <2> DEFINE f == [m \in 0..0 |-> ready_queue]
  <2>1. Turns(0, f)
    BY DEF Turns
  <2> HIDE DEF f
  <2>2. QED BY <2>1
<1>2. ASSUME NEW n \in Nat, n \in S PROVE n + 1 \in S
  <2>1. PICK f : Turns(n, f)
    BY <1>2
  <2> DEFINE g == [m \in 0..(n + 1) |-> IF m = n + 1 THEN Turn(f[n]) ELSE f[m]]
  <2>2. ASSUME NEW m \in 0..(n + 1)
        PROVE  g[m] = IF m = 0 THEN ready_queue ELSE Turn(g[m - 1])
    <3>1. f[0] = ready_queue /\ \A j \in Nat : j + 1 <= n => f[j + 1] = Turn(f[j])
      BY <2>1, TurnsAre
    <3>2. CASE m = 0
      BY <3>1, <3>2
    <3>3. CASE m # 0
      <4>1. m - 1 \in Nat /\ m - 1 \in 0..(n + 1) /\ m - 1 # n + 1 /\ (m - 1) + 1 = m
        BY <3>3
      <4>2. g[m - 1] = f[m - 1]
        BY <4>1
      <4>3. g[m] = Turn(f[m - 1])
        <5>1. CASE m = n + 1
          BY <5>1
        <5>2. CASE m # n + 1
          BY <3>1, <4>1, <5>2
        <5>3. QED BY <5>1, <5>2
      <4>4. QED BY <3>3, <4>2, <4>3
    <3>4. QED BY <3>2, <3>3
  <2>3. g = [m \in 0..(n + 1) |-> g[m]]
    OBVIOUS
  <2> HIDE DEF g
  <2>4. Turns(n + 1, g)
    BY <2>2, <2>3, Zenon DEF Turns
  <2>5. QED BY <2>4
<1> HIDE DEF S
<1>3. Nat \subseteq S
  BY <1>1, <1>2, Induct
<1>4. QED BY <1>3 DEF S

LEMMA TurnsAgree ==
    ASSUME NEW n \in Nat, NEW f, Turns(n, f), NEW g, Turns(n + 1, g)
    PROVE  g[n] = f[n]
<1> DEFINE S == {m \in Nat : m <= n => g[m] = f[m]}
<1>1. n + 1 \in Nat
  OBVIOUS
<1>2. /\ f[0] = ready_queue /\ \A m \in Nat : m + 1 <= n => f[m + 1] = Turn(f[m])
      /\ g[0] = ready_queue /\ \A m \in Nat : m + 1 <= n + 1 => g[m + 1] = Turn(g[m])
  BY <1>1, TurnsAre
<1>3. 0 \in S
  BY <1>2
<1>4. ASSUME NEW m \in Nat, m \in S PROVE m + 1 \in S
  BY <1>2, <1>4
<1> HIDE DEF S
<1>5. Nat \subseteq S
  BY <1>3, <1>4, Induct
<1>6. QED BY <1>5 DEF S

\* The function Path is defined, and moves along task->next.
LEMMA PathTurns ==
    /\ Path[0] = ready_queue
    /\ \A n \in Nat : Path[n + 1] = Turn(Path[n])
<1> DEFINE W(n) == CHOOSE f : Turns(n, f)
           F == [n \in Nat |-> W(n)[n]]
<1>1. ASSUME NEW n \in Nat PROVE Turns(n, W(n))
  BY TurnsExist
<1>2. ASSUME NEW n \in Nat PROVE W(n + 1)[n + 1] = Turn(W(n)[n])
  <2>1. Turns(n, W(n)) /\ Turns(n + 1, W(n + 1)) /\ n + 1 \in Nat
    BY <1>1
  <2> HIDE DEF W
  <2>2. W(n + 1)[n] = W(n)[n]
    BY <2>1, TurnsAgree
  <2>3. W(n + 1)[n + 1] = Turn(W(n + 1)[n])
    BY <2>1, TurnsAre
  <2>4. QED BY <2>2, <2>3
<1>3. W(0)[0] = ready_queue
  <2>1. Turns(0, W(0)) /\ 0 \in Nat
    BY <1>1
  <2> HIDE DEF W
  <2>2. QED BY <2>1, TurnsAre
<1> HIDE DEF W
<1>4. ASSUME NEW n \in Nat
      PROVE  F[n] = IF n = 0 THEN ready_queue ELSE IF F[n - 1] = NULL THEN NULL ELSE next[F[n - 1]]
  <2>1. CASE n = 0
    BY <1>3, <2>1
  <2>2. CASE n # 0
    <3>1. n - 1 \in Nat /\ (n - 1) + 1 = n
      BY <2>2
    <3>2. W(n)[n] = Turn(W(n - 1)[n - 1])
      BY <1>2, <3>1
    <3>3. F[n] = W(n)[n] /\ F[n - 1] = W(n - 1)[n - 1]
      BY <3>1
    <3>4. QED BY <2>2, <3>2, <3>3 DEF Turn
  <2>3. QED BY <2>1, <2>2
<1>5. F = [n \in Nat |-> F[n]]
  OBVIOUS
<1> HIDE DEF F
<1>6. Endless(F)
  BY <1>4, <1>5, Zenon DEF Endless
<1>7. Path = CHOOSE f : Endless(f)
  BY DEF Path, Endless
<1>8. Endless(Path)
  BY <1>6, <1>7, Zenon
<1>9. ASSUME NEW n \in Nat
      PROVE  Path[n] = IF n = 0 THEN ready_queue
                       ELSE IF Path[n - 1] = NULL THEN NULL ELSE next[Path[n - 1]]
  <2> DEFINE P == Path
  <2>1. Endless(P)
    BY <1>8
  <2> HIDE DEF P
  <2>2. P[n] = IF n = 0 THEN ready_queue ELSE IF P[n - 1] = NULL THEN NULL ELSE next[P[n - 1]]
    BY <2>1, Zenon DEF Endless
  <2>3. QED BY <2>2 DEF P
<1>10. Path[0] = ready_queue
  BY <1>9
<1>11. ASSUME NEW n \in Nat PROVE Path[n + 1] = Turn(Path[n])
  <2>1. n + 1 \in Nat /\ n + 1 # 0 /\ (n + 1) - 1 = n
    OBVIOUS
  <2>2. Path[n + 1] = IF n + 1 = 0 THEN ready_queue
                      ELSE IF Path[(n + 1) - 1] = NULL THEN NULL ELSE next[Path[(n + 1) - 1]]
    BY <1>9, <2>1, Zenon
  <2>3. QED BY <2>1, <2>2 DEF Turn
<1>12. QED BY <1>10, <1>11
-----------------------------------------------------------------------------
(***************************************************************************)
(* What the ring says about the walk.                                      *)
(***************************************************************************)
LEMMA CreatedTasks ==
    ASSUME IInv
    PROVE  /\ Created \subseteq Tasks \ {KernelTask}
           /\ NULL \notin Created
           /\ IsFiniteSet(Created)
           /\ Cardinality(Created) \in Nat
           /\ MaxWalk \in Nat
           /\ Cardinality(Created) + 1 <= MaxWalk
<1>1. Created \subseteq Tasks \ {KernelTask} /\ NULL \notin Created
  BY KernelTaskIsTask DEF Created
<1> DEFINE Others == Tasks \ {KernelTask}
<1>2. IsFiniteSet(Tasks) /\ KernelTask \in Tasks
  BY TaskAssumption, KernelTaskIsTask
<1>3. IsFiniteSet(Others) /\ Cardinality(Others) = Cardinality(Tasks) - 1
  BY <1>2, FS_RemoveElement
<1>4. IsFiniteSet(Created) /\ Cardinality(Created) <= Cardinality(Others)
  <2>1. Created \in SUBSET Others
    BY <1>1
  <2> HIDE DEF Others
  <2>2. QED BY <1>3, <2>1, FS_Subset
<1>5. Cardinality(Tasks) \in Nat /\ Cardinality(Created) \in Nat
  BY <1>2, <1>4, FS_CardinalityType
<1>6. QED BY <1>1, <1>3, <1>4, <1>5 DEF MaxWalk

\* The walk goes through the ring in its order.
LEMMA RingPath ==
    ASSUME IInv, NEW k \in Nat, NEW q \in [0..(k - 1) -> Created], Ring(q, k)
    PROVE  \A i \in 0..(k - 1) : Path[i] = q[i]
<1> DEFINE S == {i \in Nat : i < k => Path[i] = q[i]}
<1>1. 0 \in S
  BY PathTurns, Zenon DEF Ring
<1>2. ASSUME NEW i \in Nat, i \in S PROVE i + 1 \in S
  <2> SUFFICES ASSUME i + 1 < k PROVE Path[i + 1] = q[i + 1]
    OBVIOUS
  <2>1. i \in 0..(k - 2) /\ i \in 0..(k - 1) /\ Path[i] = q[i]
    BY <1>2
  <2>2. q[i] \in Created /\ q[i] # NULL
    BY <2>1, CreatedTasks, Zenon
  <2>3. next[q[i]] = q[i + 1]
    BY <2>1 DEF Ring
  <2>4. QED BY <2>1, <2>2, <2>3, PathTurns, Zenon DEF Turn
<1> HIDE DEF S
<1>3. Nat \subseteq S
  BY <1>1, <1>2, Induct, Zenon
<1>4. QED BY <1>3 DEF S

\* One turn after the last task of the ring.
LEMMA RingLast ==
    ASSUME IInv, NEW k \in Nat \ {0}, NEW q \in [0..(k - 1) -> Created], Ring(q, k)
    PROVE  Path[k] = next[q[k - 1]]
<1>1. k - 1 \in Nat /\ k - 1 \in 0..(k - 1) /\ (k - 1) + 1 = k
  OBVIOUS
<1>2. Path[k - 1] = q[k - 1] /\ q[k - 1] # NULL
  BY <1>1, RingPath, CreatedTasks
<1>3. Path[(k - 1) + 1] = Turn(Path[k - 1])
  BY <1>1, PathTurns
<1>4. QED BY <1>1, <1>2, <1>3 DEF Turn

\* Outside scheduler_add_task the walk ends.
LEMMA RingWalkEnds ==
    ASSUME IInv, RingInv
    PROVE  \/ WalkEnds
           \/ current_task = KernelTask /\ pc[KernelTask] = "link" /\ phase \in {"main", "hung"}
<1> DEFINE k == Cardinality(Created)
<1>1. k \in Nat /\ MaxWalk \in Nat /\ k + 1 <= MaxWalk
  BY CreatedTasks
<1>2. PICK q \in [0..(k - 1) -> Created] : Ring(q, k)
  BY DEF RingInv
<1> HIDE DEF k
<1>3. CASE k = 0
  BY <1>2, <1>3 DEF Ring, WalkEnds
<1>4. CASE k > 0 /\ next[q[k - 1]] = q[0]
  <2>0. k \in Nat \ {0}
    BY <1>1, <1>4
  <2>1. Path[k] = q[0] /\ ready_queue = q[0]
    <3>1. Path[k] = next[q[k - 1]]
      BY <1>2, <2>0, RingLast
    <3>2. QED BY <1>2, <1>4, <3>1, Zenon DEF Ring
  <2>2. k \in 1..MaxWalk
    BY <1>1, <1>4
  <2>3. QED BY <2>1, <2>2, Zenon DEF WalkEnds
<1>5. CASE k > 0 /\ next[q[k - 1]] # q[0]
  <2>1. /\ next[q[k - 1]] = IF k = 1 THEN KernelTask ELSE q[k - 2]
        /\ k > 2 => /\ current_task = KernelTask /\ pc[KernelTask] = "link"
                    /\ phase \in {"main", "hung"}
    BY <1>2, <1>5 DEF Ring
  <2>2. Path[k] = next[q[k - 1]]
    BY <1>1, <1>2, <1>5, RingLast
  <2>3. CASE k = 1
    <3>1. Path[1] = KernelTask /\ next[KernelTask] = NULL /\ KernelTask # NULL
      BY <1>2, <2>1, <2>2, <2>3, KernelTaskIsTask DEF Ring
    <3>2. Path[1 + 1] = Turn(Path[1])
      BY PathTurns
    <3>3. Path[2] = NULL /\ 2 \in 1..MaxWalk
      BY <1>1, <2>3, <3>1, <3>2 DEF Turn
    <3>4. QED BY <3>3, Zenon DEF WalkEnds
  <2>4. CASE k = 2
    <3>1. Path[2] = q[0] /\ ready_queue = q[0] /\ 2 \in 1..MaxWalk
      BY <1>1, <1>2, <2>1, <2>2, <2>4 DEF Ring
    <3>2. QED BY <3>1 DEF WalkEnds
  <2>5. CASE k > 2
    BY <2>1, <2>5
  <2>6. QED BY <1>1, <1>5, <2>3, <2>4, <2>5
<1>6. QED BY <1>1, <1>3, <1>4, <1>5

\* Between the stores of scheduler_add_task, with two tasks already queued,
\* the walk goes back and forth between the last two.
LEMMA OpenRingWalk ==
    ASSUME IInv, NEW k \in Nat, NEW q \in [0..(k - 1) -> Created], Ring(q, k),
           k > 2, next[q[k - 1]] = q[k - 2]
    PROVE  ~WalkEnds
<1> DEFINE S == {n \in Nat : n >= k - 1 => Path[n] \in {q[k - 1], q[k - 2]}}
<1>1. k - 1 \in 0..(k - 1) /\ k - 2 \in 0..(k - 1) /\ k - 2 \in 0..(k - 2) /\ 0 \in 0..(k - 1)
  OBVIOUS
<1>2. q[k - 1] # NULL /\ q[k - 2] # NULL /\ q[0] # NULL
  BY <1>1, CreatedTasks
<1>3. q[k - 1] # q[0] /\ q[k - 2] # q[0] /\ ready_queue = q[0]
  BY <1>1 DEF Ring
<1>4. next[q[k - 2]] = q[k - 1]
  <2>1. next[q[k - 2]] = q[(k - 2) + 1] /\ (k - 2) + 1 = k - 1
    BY <1>1 DEF Ring
  <2>2. QED BY <2>1, Zenon
<1>5. Path[k - 1] = q[k - 1]
  BY <1>1, RingPath
<1>6. 0 \in S
  OBVIOUS
<1>7. ASSUME NEW n \in Nat, n \in S PROVE n + 1 \in S
  <2>1. CASE n + 1 = k - 1
    BY <1>5, <2>1
  <2>2. CASE n + 1 > k - 1
    <3>1. Path[n] \in {q[k - 1], q[k - 2]}
      BY <1>7, <2>2
    <3>2. Path[n + 1] = next[Path[n]]
      BY <1>2, <3>1, PathTurns, Zenon DEF Turn
    <3>3. QED BY <1>4, <3>1, <3>2
  <2>3. QED BY <2>1, <2>2
<1> HIDE DEF S
<1>8. Nat \subseteq S
  BY <1>6, <1>7, Induct
<1>9. ASSUME NEW n \in 1..MaxWalk PROVE Path[n] \notin {NULL, ready_queue}
  <2>0. n \in Nat /\ n # 0
    BY CreatedTasks
  <2>1. CASE n >= k - 1
    BY <1>2, <1>3, <1>8, <2>0, <2>1, Zenon DEF S
  <2>2. CASE n < k - 1
    <3>1. n \in 0..(k - 1) /\ Path[n] = q[n] /\ q[n] \in Created
      BY <2>0, <2>2, RingPath
    <3>2. q[n] # q[0]
      BY <1>1, <2>0, <3>1 DEF Ring
    <3>3. QED BY <1>3, <3>1, <3>2, CreatedTasks, Zenon
  <2>3. QED BY <2>0, <2>1, <2>2
<1>10. QED BY <1>2, <1>3, <1>9 DEF WalkEnds

\* get_next_ready_task falls back to the kernel task only when no task that
\* was ever created is READY.
LEMMA KernelIsLast ==
    ASSUME IInv, RingInv, NEW st, get_next_ready_task(st, KernelTask)
    PROVE  \A u \in Created : st[u] # "READY"
<1> DEFINE k == Cardinality(Created)
<1>1. k \in Nat /\ MaxWalk \in Nat /\ k + 1 <= MaxWalk
  BY CreatedTasks
<1>2. PICK q \in [0..(k - 1) -> Created] : Ring(q, k)
  BY DEF RingInv
<1> HIDE DEF k
<1> SUFFICES ASSUME NEW u \in Created PROVE st[u] # "READY"
  BY Zenon
<1>3. PICK i \in 0..(k - 1) : q[i] = u
  BY <1>2 DEF Ring
<1>4. Path[i] = u /\ i \in 0..MaxWalk /\ u # NULL
  BY <1>1, <1>2, <1>3, RingPath, CreatedTasks, SMTT(30)
<1>5. CASE \A v \in Queued : st[v] # "READY"
  BY <1>4, <1>5 DEF Queued
<1>6. CASE \E n \in 0..MaxWalk : /\ Path[n] = KernelTask
                                 /\ \A m \in 0..(n - 1) : st[Path[m]] # "READY"
  <2>1. PICK n \in 0..MaxWalk : /\ Path[n] = KernelTask
                                /\ \A m \in 0..(n - 1) : st[Path[m]] # "READY"
    BY <1>6, Zenon
  <2>2. n \in Nat /\ ~(n \in 0..(k - 1))
    BY <1>1, <1>2, <2>1, RingPath, CreatedTasks
  <2>3. i \in 0..(n - 1)
    BY <1>1, <1>3, <2>2
  <2>4. QED BY <1>4, <2>1, <2>3
<1>7. QED BY <1>5, <1>6 DEF get_next_ready_task
-----------------------------------------------------------------------------
(***************************************************************************)
(* Every step keeps the ring.                                              *)
(***************************************************************************)
\* Only the shell's creation of a task adds one.
LEMMA CreatedKept ==
    ASSUME IInv, [Next]_vars, ~CreateCall
    PROVE  Created' = Created
<1> USE KernelTaskIsTask
<1>2. TypeOK /\ \A u \in Tasks : pc[u] = "none" => state[u] = "UNUSED" /\ u # KernelTask
  BY DEF IInv, NotCreated
<1> SUFFICES ASSUME NEW u \in Tasks, pc[u] = "none" PROVE pc'[u] = "none"
  <2>1. \A u \in Threads \union UserTasks : pc'[u] = "none" <=> pc[u] = "none"
    BY NoneBefore, Zenon
  <2>2. QED BY <2>1 DEF Created
<1>4. CASE Switch
  <2>1. chosen \in Tasks /\ task_switch(state, chosen, "main") /\ chosen # u
    BY <1>2, <1>4, Zenon DEF Switch, IInv, ChosenKnown
  <2>2. QED BY <1>2, <2>1, SwitchEffect, SMTT(30) DEF TypeOK
<1>5. CASE Tick
  <2> DEFINE woken == [t \in Tasks |-> IF Due(t) THEN "READY" ELSE state[t]]
             marked == [woken EXCEPT ![current_task] = "READY"]
  <2>1. CASE UNCHANGED pc
    BY <2>1, Zenon
  <2>2. CASE pc' # pc
    <3>1. PICK new \in Tasks : /\ woken[current_task] = "RUNNING"
                               /\ get_next_ready_task(marked, new)
                               /\ task_switch(marked, new, "irq")
      BY <1>5, <2>2, ZenonT(30) DEF Tick, TickHangs, tcb, TickRuns
    <3>2. current_task \in Tasks /\ woken[u] = "UNUSED" /\ current_task # u
      BY <1>2, <3>1 DEF TypeOK, Due
    <3>3. marked[u] = "UNUSED" /\ marked \in [Tasks -> States]
      BY <1>2, <3>2 DEF TypeOK, States
    <3> HIDE DEF marked
    <3>4. new # u
      BY <1>2, <3>1, <3>3, NextIsRunnable, Zenon
    <3>5. \A v \in Tasks \ {new} : pc'[v] = pc[v]
      <4>1. "irq" \in {"main", "irq"}
        OBVIOUS
      <4>2. QED BY <1>2, <3>1, <3>3, <4>1, SwitchEffect, Zenon
    <3>6. QED BY <3>4, <3>5, Zenon
  <2>3. QED BY <2>1, <2>2
<1>6. CASE Pick \/ SendEoi
  BY <1>6 DEF Pick, SendEoi, tcb
<1>7. CASE SleepMark \/ Link \/ ExecYield
  BY <1>2, <1>7, ZenonT(30) DEF SleepMark, Link, ExecYield, TypeOK
<1>8. CASE YieldCall \/ SleepCall \/ ExitCall
  BY <1>2, <1>8 DEF YieldCall, SleepCall, ExitCall, Yield, Sleep, Exit, MayCall, InOwnCode, TypeOK
<1>9. CASE UNCHANGED vars
  BY <1>9 DEF vars, tcb
<1>10. QED BY <1>4, <1>5, <1>6, <1>7, <1>8, <1>9, Zenon DEF Next, KernelStep

\* A switch leaves the kernel task where it was, or resumes it wrongly.
LEMMA KernelResumes ==
    ASSUME TypeOK, NEW st, NEW new \in Tasks, NEW how, task_switch(st, new, how)
    PROVE  pc'[KernelTask] \in {pc[KernelTask], "idle", "wild"}
BY KernelTaskIsTask DEF task_switch, first_run, EnterUser, task_switch_asm, ResumePoint, TypeOK

\* A step that neither creates a task nor touches the queue.
LEMMA RingUntouched ==
    ASSUME IInv, RingInv, Created' = Created, UNCHANGED <<next, queue, linking>>,
           \/ pc'[KernelTask] \in {pc[KernelTask], "idle", "wild"}
           \/ pc[KernelTask] = "yield" /\ pc'[KernelTask] = "run",
           \/ WalkEnds
           \/ ~(current_task = KernelTask /\ pc[KernelTask] = "link" /\ phase \in {"main", "hung"})
           \/ UNCHANGED <<current_task, pc>> /\ phase' \in {"main", "hung"}
    PROVE  RingInv'
<1>0. PICK k : k = Cardinality(Created)
  OBVIOUS
<1>1. k \in Nat
  BY <1>0, CreatedTasks
<1>2. PICK q \in [0..(k - 1) -> Created] : Ring(q, k)
  BY <1>0 DEF RingInv
<1>3. Cardinality(Created') = k
  BY <1>0
<1>4. /\ next' = next /\ ready_queue' = ready_queue /\ ready_queue_tail' = ready_queue_tail
      /\ task_list_head' = task_list_head /\ linking' = linking
  BY DEF queue
<1>5. k > 0 => \/ next'[q[k - 1]] = q[0]
               \/ /\ pc'[KernelTask] \in {"link", "idle", "wild"}
                  /\ next'[q[k - 1]] = IF k = 1 THEN KernelTask ELSE q[k - 2]
                  /\ k > 2 => /\ current_task' = KernelTask /\ pc'[KernelTask] = "link"
                              /\ phase' \in {"main", "hung"}
  <2> SUFFICES ASSUME k > 0, next[q[k - 1]] # q[0]
               PROVE  /\ pc'[KernelTask] \in {"link", "idle", "wild"}
                      /\ next[q[k - 1]] = IF k = 1 THEN KernelTask ELSE q[k - 2]
                      /\ k > 2 => /\ current_task' = KernelTask /\ pc'[KernelTask] = "link"
                                  /\ phase' \in {"main", "hung"}
    BY <1>4, Zenon
  <2>1. /\ pc[KernelTask] \in {"link", "idle", "wild"}
        /\ next[q[k - 1]] = IF k = 1 THEN KernelTask ELSE q[k - 2]
        /\ k > 2 => /\ current_task = KernelTask /\ pc[KernelTask] = "link"
                    /\ phase \in {"main", "hung"}
    BY <1>2 DEF Ring
  <2>2. CASE k > 2
    <3>1. next[q[k - 1]] = q[k - 2]
      BY <2>1, <2>2
    <3>2. ~WalkEnds
      BY <1>1, <1>2, <2>2, <3>1, OpenRingWalk
    <3>3. QED BY <2>1, <2>2, <3>2, Zenon
  <2>3. QED BY <1>1, <2>1, <2>2, Zenon
<1>6. /\ pc'[KernelTask] = "link" => pc[KernelTask] = "link"
      /\ pc'[KernelTask] \in {"run", "link", "yield", "idle", "wild"}
  BY Zenon DEF RingInv
<1>7. Ring(q, k)'
  BY <1>2, <1>4, <1>5, <1>6, SMTT(30) DEF Ring
<1>8. QED BY <1>2, <1>3, <1>6, <1>7 DEF RingInv

\* The rest of scheduler_add_task closes the ring.
LEMMA LinkRing ==
    ASSUME IInv, RingInv, Link, Created' = Created
    PROVE  RingInv'
<1> USE KernelTaskIsTask
<1>0. PICK k : k = Cardinality(Created)
  OBVIOUS
<1>1. k \in Nat
  BY <1>0, CreatedTasks
<1>2. PICK q \in [0..(k - 1) -> Created] : Ring(q, k)
  BY <1>0 DEF RingInv
<1>3. Cardinality(Created') = k
  BY <1>0
<1>4. /\ ready_queue' = ready_queue /\ ready_queue_tail' = ready_queue_tail
      /\ task_list_head' = task_list_head
      /\ next' = [next EXCEPT ![linking] = ready_queue]
      /\ pc[KernelTask] = "link" /\ pc'[KernelTask] \in {"run", "yield"}
  BY DEF Link, queue, IInv, TypeOK
<1>5. k > 0 /\ linking = q[k - 1] /\ ready_queue = q[0]
  BY <1>2, <1>4 DEF Ring
<1>6. \A i \in 0..(k - 1) : q[i] \in Created /\ q[i] \in Tasks /\ q[i] # KernelTask
  BY CreatedTasks
<1>7. k - 1 \in 0..(k - 1) /\ 0 \in 0..(k - 1)
  BY <1>1, <1>5
<1>8. next'[q[k - 1]] = q[0] /\ next'[KernelTask] = NULL
  BY <1>2, <1>4, <1>5, <1>6, <1>7, SMTT(30) DEF IInv, TypeOK, Ring
<1>9. ASSUME NEW i \in 0..(k - 2) PROVE next'[q[i]] = q[i + 1]
  <2>1. i \in 0..(k - 1) /\ i # k - 1
    BY <1>1
  <2>2. q[i] # q[k - 1] /\ next[q[i]] = q[i + 1]
    BY <1>2, <1>7, <2>1, Zenon DEF Ring
  <2>3. QED BY <1>4, <1>5, <1>6, <2>1, <2>2 DEF IInv, TypeOK
<1>10. Ring(q, k)'
  BY <1>2, <1>4, <1>5, <1>8, <1>9 DEF Ring
<1>11. QED BY <1>2, <1>3, <1>4, <1>10, Zenon DEF RingInv

\* task_create and the first stores of scheduler_add_task put the new task
\* last and leave its next with the task list.
LEMMA CreateRing ==
    ASSUME IInv, RingInv, NEW t \in Threads \union UserTasks, Create(t)
    PROVE  RingInv'
<1> USE KernelTaskIsTask
<1>0. PICK k : k = Cardinality(Created)
  OBVIOUS
<1>1. k \in Nat /\ IsFiniteSet(Created)
  BY <1>0, CreatedTasks
<1>2. PICK q \in [0..(k - 1) -> Created] : Ring(q, k)
  BY <1>0, Zenon DEF RingInv
<1>3. t \in Tasks /\ t # KernelTask /\ t \notin Created /\ pc \in [Tasks -> Points]
  BY SMTT(30) DEF Create, Created, IInv, TypeOK
<1>4. /\ pc'[t] = "fresh" /\ pc'[KernelTask] = "link"
      /\ \A u \in Tasks \ {t, KernelTask} : pc'[u] = pc[u]
      /\ pc[KernelTask] = "run"
  BY <1>3, Zenon DEF Create, InOwnCode
<1>5. Created' = Created \union {t}
  BY <1>3, <1>4 DEF Created
<1>6. Cardinality(Created') = k + 1
  BY <1>0, <1>1, <1>3, <1>5, FS_AddElement, Zenon
<1>p. PICK p : p = [i \in 0..k |-> IF i = k THEN t ELSE q[i]]
  BY Zenon
<1>7. p[k] = t /\ \A i \in 0..(k - 1) : p[i] = q[i] /\ i \in 0..k
  BY <1>1, <1>p
<1>8. p \in [0..((k + 1) - 1) -> Created']
  <2>1. (k + 1) - 1 = k
    BY <1>1
  <2>2. \A i \in 0..k : i = k \/ i \in 0..(k - 1)
    BY <1>1
  <2>3. QED BY <1>2, <1>5, <1>p, <2>1, <2>2
<1>9. /\ next'[t] = task_list_head
      /\ \A u \in Tasks \ {t} : next'[u] = IF u = ready_queue_tail THEN t ELSE next[u]
      /\ task_list_head' = t /\ ready_queue_tail' = t /\ linking' = t
      /\ ready_queue' = IF ready_queue = NULL THEN t ELSE ready_queue
      /\ current_task' = KernelTask /\ phase' = "main"
  BY <1>3 DEF Create, InOwnCode, cpu
<1>10. \A i \in 0..(k - 1) : q[i] \in Created /\ q[i] \in Tasks /\ q[i] # KernelTask /\ q[i] # NULL
  BY CreatedTasks, Zenon
<1>11. \A i, j \in 0..k : p[i] = p[j] => i = j
  <2> SUFFICES ASSUME NEW i \in 0..k, NEW j \in 0..k, p[i] = p[j] PROVE i = j
    OBVIOUS
  <2>1. (i = k \/ i \in 0..(k - 1)) /\ (j = k \/ j \in 0..(k - 1))
    BY <1>1
  <2>2. QED BY <1>2, <1>3, <1>7, <1>10, <2>1 DEF Ring
<1>12. ASSUME NEW u \in Created' PROVE \E i \in 0..k : p[i] = u
  <2>1. CASE u = t
    BY <1>1, <1>7, <2>1, SMTT(30)
  <2>2. CASE u \in Created
    BY <1>2, <1>7, <2>2 DEF Ring
  <2>3. QED BY <1>5, <1>12, <2>1, <2>2
<1>13. CASE k = 0
  <2>1. ready_queue = NULL /\ ready_queue_tail = NULL /\ task_list_head = KernelTask
        /\ next[KernelTask] = NULL
    BY <1>2, <1>13, Zenon DEF Ring
  <2>2. next'[KernelTask] = NULL /\ next'[t] = KernelTask /\ ready_queue' = t
    BY <1>3, <1>9, <2>1
  <2>3. p[0] = t /\ k + 1 = 1 /\ (k + 1) - 1 = 0 /\ (k + 1) - 2 < 0 /\ k = 0
    BY <1>7, <1>13, SMTT(30)
  <2>4. Ring(p, k + 1)'
    BY <1>4, <1>9, <1>11, <1>12, <2>2, <2>3, SMTT(40) DEF Ring
  <2>5. QED BY <1>4, <1>6, <1>8, <2>4, Zenon DEF RingInv
<1>14. CASE k > 0
  <2>1. 0 \in 0..(k - 1) /\ k - 1 \in 0..(k - 1)
    BY <1>1, <1>14
  <2>2. /\ ready_queue = q[0] /\ ready_queue_tail = q[k - 1] /\ task_list_head = q[k - 1]
        /\ next[KernelTask] = NULL
    BY <1>2, <1>14, ZenonT(30) DEF Ring
  <2>3. next'[KernelTask] = NULL /\ ready_queue' = q[0] /\ p[0] = q[0] /\ p[k - 1] = q[k - 1]
    BY <1>3, <1>7, <1>9, <1>10, <2>1, <2>2, Zenon
  <2>4. next'[t] = q[k - 1]
    BY <1>9, <2>2, Zenon
  <2>5. ASSUME NEW i \in 0..(k - 1) PROVE next'[p[i]] = p[i + 1]
    <3>1. p[i] = q[i] /\ q[i] \in Tasks \ {t} /\ q[i] \in Created
      BY <1>3, <1>7, <1>10, Zenon
    <3>2. CASE i = k - 1
      <4>1. i + 1 = k
        BY <1>1, <3>2
      <4>2. QED BY <1>7, <1>9, <2>2, <3>1, <3>2, <4>1
    <3>3. CASE i # k - 1
      <4>1. i \in 0..(k - 2) /\ i + 1 \in 0..(k - 1)
        BY <1>1, <3>3
      <4>2. q[i] # q[k - 1] /\ next[q[i]] = q[i + 1] /\ p[i + 1] = q[i + 1]
        BY <1>2, <1>7, <2>1, <3>3, <4>1, Zenon DEF Ring
      <4>3. QED BY <1>9, <2>2, <3>1, <4>2
    <3>4. QED BY <3>2, <3>3
  <2>6. (k + 1) - 1 = k /\ (k + 1) - 2 = k - 1 /\ k + 1 # 0 /\ k + 1 # 1
    BY <1>1, <1>14, SMTT(30)
  <2>7. Ring(p, k + 1)'
    <3>1. /\ \A i, j \in 0..((k + 1) - 1) : p[i] = p[j] => i = j
          /\ \A u \in Created' : \E i \in 0..((k + 1) - 1) : p[i] = u
          /\ \A i \in 0..((k + 1) - 2) : next'[p[i]] = p[i + 1]
      BY <1>11, <1>12, <2>5, <2>6, ZenonT(30)
    <3>2. /\ next'[KernelTask] = NULL
          /\ ready_queue' = p[0] /\ ready_queue_tail' = p[(k + 1) - 1]
          /\ task_list_head' = p[(k + 1) - 1] /\ linking' = p[(k + 1) - 1]
          /\ next'[p[(k + 1) - 1]] = p[(k + 1) - 2]
      BY <1>7, <1>9, <2>3, <2>4, <2>6, Zenon
    <3>3. /\ pc'[KernelTask] \in {"link", "idle", "wild"}
          /\ next'[p[(k + 1) - 1]] = IF k + 1 = 1 THEN KernelTask ELSE p[(k + 1) - 2]
          /\ current_task' = KernelTask /\ pc'[KernelTask] = "link"
          /\ phase' \in {"main", "hung"}
          /\ k + 1 > 0 /\ k + 1 # 0
      BY <1>1, <1>4, <1>9, <2>6, <3>2, SMTT(40)
    <3>4. QED BY <3>1, <3>2, <3>3, ZenonT(30) DEF Ring
  <2>8. QED BY <1>4, <1>6, <1>8, <2>7 DEF RingInv
<1>15. QED BY <1>1, <1>13, <1>14

LEMMA StepRing == IInv /\ RingInv /\ [Next]_vars => RingInv'
<1> SUFFICES ASSUME IInv, RingInv, [Next]_vars PROVE RingInv'
  OBVIOUS
<1> USE KernelTaskIsTask
<1>1. TypeOK /\ pc[KernelTask] \notin {"sleep"}
  BY DEF IInv, RingInv
<1>2. CASE CreateCall
  BY <1>2, CreateRing DEF CreateCall
<1>3. CASE ~CreateCall
  <2>1. Created' = Created
    BY <1>3, CreatedKept
  <2>2. CASE Link
    BY <2>1, <2>2, LinkRing
  <2>3. CASE Switch
    <3>1. pc'[KernelTask] \in {pc[KernelTask], "idle", "wild"}
      BY <1>1, <2>3, KernelResumes DEF Switch, IInv, ChosenKnown
    <3>2. UNCHANGED <<next, queue, linking>> /\ phase = "switch"
      BY <2>3 DEF Switch
    <3>3. QED BY <2>1, <3>1, <3>2, RingUntouched, Zenon
  <2>4. CASE Tick /\ TickHangs
    <3>1. UNCHANGED <<next, queue, linking, current_task, pc>> /\ phase' = "hung"
      BY <2>4 DEF TickHangs, tcb
    <3>2. QED BY <2>1, <3>1, RingUntouched
  <2>5. CASE Tick /\ TickRuns
    <3>1. UNCHANGED <<next, queue, linking>> /\ WalkEnds
      BY <2>5, Zenon DEF TickRuns
    <3>2. pc'[KernelTask] \in {pc[KernelTask], "idle", "wild"}
      BY <1>1, <2>5, TickCases, KernelResumes, Zenon
    <3>3. QED BY <2>1, <3>1, <3>2, RingUntouched, SMTT(30)
  <2>6. CASE Pick \/ SendEoi
    <3>1. UNCHANGED <<next, queue, linking, pc>> /\ phase \in {"pick", "eoi"}
      BY <2>6 DEF Pick, SendEoi, tcb
    <3>2. QED BY <2>1, <3>1, RingUntouched
  <2>7. CASE SleepMark \/ YieldCall \/ SleepCall \/ ExitCall
    <3>1. UNCHANGED <<next, queue, linking>> /\ current_task # KernelTask
      BY <1>1, <2>7, Zenon DEF SleepMark, YieldCall, SleepCall, ExitCall, Yield, Sleep, Exit, MayCall,
                        InOwnCode
    <3>2. pc'[KernelTask] = pc[KernelTask]
      BY <1>1, <2>7, <3>1 DEF SleepMark, YieldCall, SleepCall, ExitCall, Yield, Sleep, Exit,
                              MayCall, InOwnCode, TypeOK
    <3>3. QED BY <2>1, <3>1, <3>2, RingUntouched, Zenon
  <2>8. CASE ExecYield
    <3>1. /\ UNCHANGED <<next, queue, linking>>
          /\ pc[KernelTask] = "yield" /\ pc'[KernelTask] = "run"
      BY <1>1, <2>8 DEF ExecYield, TypeOK
    <3>2. QED BY <2>1, <3>1, RingUntouched, Zenon
  <2>9. CASE UNCHANGED vars
    <3>1. UNCHANGED <<next, queue, linking, pc, current_task, phase>>
      BY <2>9 DEF vars, tcb, cpu
    <3>2. QED BY <2>1, <3>1, RingUntouched
  <2>10. QED BY <1>3, <2>2, <2>3, <2>4, <2>5, <2>6, <2>7, <2>8, <2>9, Zenon DEF Next, KernelStep, Tick
<1>4. QED BY <1>2, <1>3
\* Before the first task is created the queue is empty.
LEMMA InitRing == Init => RingInv
<1> SUFFICES ASSUME Init PROVE RingInv
  OBVIOUS
<1> USE KernelTaskIsTask
<1>1. Created = {} /\ pc[KernelTask] = "run" /\ next[KernelTask] = NULL
  BY DEF Init, Created
<1>2. Cardinality(Created) = 0
  BY <1>1, FS_EmptySet
<1>3. PICK q : q = [i \in 0..(0 - 1) |-> NULL]
  BY Zenon
<1>4. q \in [0..(0 - 1) -> Created] /\ Ring(q, 0)
  BY <1>1, <1>3 DEF Ring, Init
<1>5. QED BY <1>1, <1>2, <1>4, Zenon DEF RingInv

\* The tasks that were created form one ring in the order of their creation.
THEOREM RingInvariance == Spec => []RingInv
<1>1. QED BY InitRing, StepRing, Invariance, PTL DEF Spec

\* The loops over the ready queue end except between the stores of
\* scheduler_add_task: there is no other moment at which scheduler_tick,
\* scheduler_pick_next or scheduler_get_stats could run forever.
THEOREM RingStaysClosed == Spec => []RingOpenOnlyInAdd
<1>1. IInv /\ RingInv => RingOpenOnlyInAdd
  BY RingWalkEnds DEF RingOpenOnlyInAdd
<1>2. QED BY <1>1, Invariance, RingInvariance, PTL

-----------------------------------------------------------------------------
(***************************************************************************)
(* The shell and the timer interrupt.                                      *)
(***************************************************************************)
\* A task that is READY or RUNNING was created.
LEMMA LiveIsCreated ==
    ASSUME IInv, NEW u \in Tasks \ {KernelTask}, state[u] # "UNUSED"
    PROVE  u \in Created
BY KernelTaskIsTask DEF IInv, NotCreated, Created, Tasks

\* The timer never switches to the shell: the task it interrupts is READY
\* and comes before the fallback of get_next_ready_task.
LEMMA TickLeavesShell ==
    ASSUME IInv, RingInv, TickRuns
    PROVE  \/ UNCHANGED cpu
           \/ current_task' # KernelTask /\ phase' \in {"main", "eoi"}
<1> DEFINE woken == [t \in Tasks |-> IF Due(t) THEN "READY" ELSE state[t]]
           marked == [woken EXCEPT ![current_task] = "READY"]
<1>1. CASE UNCHANGED cpu
  BY <1>1
<1>2. CASE ~UNCHANGED cpu
  <2>1. PICK new \in Tasks : /\ woken[current_task] = "RUNNING"
                             /\ new # current_task
                             /\ get_next_ready_task(marked, new)
                             /\ task_switch(marked, new, "irq")
    BY <1>2, Zenon DEF TickRuns
  <2>2. current_task \in Tasks /\ state[current_task] = "RUNNING"
    BY <2>1 DEF IInv, TypeOK
  <2>3. marked[current_task] = "READY"
    BY <2>2, Zenon
  <2>4. current_task' = new /\ phase' \in {"main", "eoi"}
    BY <2>1 DEF task_switch, EnterUser, task_switch_asm
  <2> HIDE DEF marked, woken
  <2>5. new # KernelTask
    <3> SUFFICES ASSUME new = KernelTask PROVE FALSE
      OBVIOUS
    <3>1. current_task \in Created
      BY <2>1, <2>2, LiveIsCreated
    <3>2. QED BY <2>1, <2>3, <3>1, KernelIsLast
  <2>6. QED BY <2>4, <2>5, SMTT(30)
<1>3. QED BY <1>1, <1>2

LEMMA StepShell ==
    IInv /\ WildLoaded /\ RingInv /\ EoiIsOwed /\ ShellInv /\ [Next]_vars => ShellInv'
<1> SUFFICES ASSUME IInv, WildLoaded, RingInv, EoiIsOwed, ShellInv, [Next]_vars, ThreadsOnly'
             PROVE  ShellInv'
  BY DEF ShellInv
<1> USE KernelTaskIsTask
<1>1. TypeOK /\ ThreadsOnly
  BY ThreadsOnlyBefore, Zenon DEF IInv
<1>2. CASE Switch
  <2>1. /\ chosen \in Tasks \ {current_task} /\ task_switch(state, chosen, "main")
        /\ phase = "switch" /\ UNCHANGED in_service
    BY <1>2, Zenon DEF Switch, IInv, ChosenKnown
  <2>2. current_task' = chosen /\ phase' = IF ctx[chosen] = "irq" THEN "eoi" ELSE "main"
    BY <1>1, <2>1, ThreadSwitch
  <2>3. QED BY <1>1, <2>1, <2>2, Zenon DEF ShellInv
<1>3. CASE Tick
  <2>1. CASE TickHangs
    BY <2>1 DEF TickHangs, ShellInv
  <2>2. CASE UNCHANGED cpu
    BY <1>3, <2>2 DEF Tick, cpu, ShellInv
  <2>3. CASE current_task' # KernelTask /\ phase' \in {"main", "eoi"}
    BY <2>3 DEF ShellInv
  <2>4. QED BY <1>3, <2>1, <2>2, <2>3, TickLeavesShell, Zenon DEF Tick
<1>4. CASE SendEoi
  BY <1>4 DEF SendEoi, ShellInv
<1>5. CASE Pick
  <2>1. PICK t \in Tasks : /\ get_next_ready_task(state, t)
                           /\ \/ phase' = "main"
                              \/ phase' = "switch" /\ chosen' = t
    BY <1>5 DEF Pick
  <2>2. phase = "pick" /\ UNCHANGED <<current_task, in_service, ctx>>
    BY <1>5 DEF Pick
  <2>3. ASSUME t = KernelTask, in_service PROVE ctx[KernelTask] = "irq"
    <3>1. PICK u \in Tasks \ {current_task} : ctx[u] = "irq" /\ state[u] = "READY"
      BY <1>1, <2>2, <2>3, Zenon DEF EoiIsOwed
    <3>2. u = KernelTask
      BY <2>1, <2>3, <3>1, KernelIsLast, LiveIsCreated, SMTT(30)
    <3>3. QED BY <3>1, <3>2
  <2>4. QED BY <1>1, <2>1, <2>2, <2>3 DEF ShellInv
<1>6. CASE SleepMark \/ Link \/ ExecYield
  BY <1>1, <1>6, ZenonT(30) DEF SleepMark, Link, ExecYield, task_yield, cpu, ShellInv
<1>7. CASE YieldCall \/ SleepCall \/ ExitCall
  BY <1>7, SMTT(30) DEF YieldCall, SleepCall, ExitCall, Yield, Sleep, Exit, task_yield, MayCall,
              InOwnCode, ShellInv
<1>8. CASE CreateCall
  <2>1. UNCHANGED <<ctx, cpu>>
    BY <1>8, Zenon DEF CreateCall, Create
  <2>2. UNCHANGED <<ctx, current_task, phase, chosen, in_service>>
    BY <2>1 DEF cpu
  <2>3. QED BY <1>1, <2>2, Zenon DEF ShellInv
<1>9. CASE UNCHANGED vars
  BY <1>1, <1>9 DEF vars, tcb, cpu, ShellInv
<1>10. QED BY <1>2, <1>3, <1>4, <1>5, <1>6, <1>7, <1>8, <1>9, Zenon DEF Next, KernelStep

\* As long as there are only kernel threads, resumed where they were, the shell
\* never runs its own code while IRQ 0 is in service, so its keyboard and timer interrupts come
\* through: get_next_ready_task falls back to it only when nobody owes an
\* EOI, and a thread that owes one is resumed before it.
THEOREM ShellHearsInterrupts == Spec => []InterruptsReachShell
<1>1. Init => ShellInv
  BY DEF Init, ShellInv
<1>2. Spec => []ShellInv
  BY <1>1, StepShell, Invariance, WildInvariance, RingInvariance, ThreadEoiIsOwed, PTL DEF Spec
<1>3. ShellInv => InterruptsReachShell
  BY DEF ShellInv, InterruptsReachShell
<1>4. QED BY <1>2, <1>3, PTL

=============================================================================
