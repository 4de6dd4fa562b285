------------------------------ MODULE Tasking ------------------------------
(***************************************************************************)
(* Tasks, the scheduler and the timer interrupt (kernel/task.c,            *)
(* kernel/scheduler.c, kernel/switch.s, drivers/timer.c, the IRQ path of   *)
(* interrupts/isr.c and the task system calls of kernel/syscall.c).        *)
(*                                                                         *)
(* One CPU runs the code of current_task.  A step is a stretch of kernel   *)
(* code that no interrupt can split in a way another task observes; the    *)
(* places where the timer interrupt can fall in are the values of "phase"  *)
(* and of the current task's "pc".                                         *)
(*                                                                         *)
(*   phase  "main"    the current task's own code, or the call "pc" names  *)
(*          "pick"    scheduler_schedule, before scheduler_pick_next       *)
(*          "switch"  scheduler_schedule, before the cli of task_switch    *)
(*          "eoi"     resumed inside timer_handler, before pic_send_eoi    *)
(*          "hung"    a loop over the ready queue that never ends          *)
(*                                                                         *)
(*   pc[t]  "none"    not created        "fresh"  created, never run       *)
(*          "run"     its own code       "sleep"  inside task_sleep        *)
(*          "halt"    after task_exit    "link"   inside scheduler_add_task*)
(*          "yield"   cmd_exec, before its task_yield                      *)
(*          "idle"    kernel_idle_loop   "wild"   resumed at a place that  *)
(*                                       was not its own: its code is not  *)
(*                                       followed any further              *)
(*                                                                         *)
(*   ctx[t] what task->context holds: "entry" (as the creator built it),   *)
(*          "main" (saved by a task_switch the task itself called), "irq"  *)
(*          (saved inside timer_handler), "stale" (saved once and resumed  *)
(*          since, so its stack has been reused).                          *)
(***************************************************************************)
EXTENDS Naturals, FiniteSets

CONSTANTS
    KernelTask,               \* pid 0: the boot context, which runs the shell
    Threads,                  \* kernel threads the shell may spawn
    UserTasks,                \* user programs the shell may exec
    NULL,
    SCHEDULER_TIME_SLICE_MS,  \* ticks per slice
    TickWrap,                 \* modulus of the uint32_t tick counter
    SleepMs                   \* arguments of task_sleep

Tasks == {KernelTask} \union Threads \union UserTasks

ASSUME TaskAssumption ==
    /\ KernelTask \notin Threads \union UserTasks
    /\ Threads \intersect UserTasks = {}
    /\ NULL \notin Tasks
    /\ IsFiniteSet(Tasks)

ASSUME TimeAssumption ==
    /\ SCHEDULER_TIME_SLICE_MS \in Nat \ {0}
    /\ TickWrap \in Nat \ {0}
    /\ SleepMs \subseteq Nat

VARIABLES
    state,             \* task->state
    time_slice,        \* task->time_slice
    wake_time,         \* task->wake_time
    next,              \* task->next, used by the task list and by the queue
    pc,                \* where the task is in the kernel
    ctx,               \* task->context
    ready_queue,       \* head of the circular ready queue
    ready_queue_tail,
    task_list_head,
    current_task,
    total_ticks,       \* stats.total_ticks
    phase,             \* what the CPU is executing for current_task
    chosen,            \* local "next" of scheduler_schedule
    linking,           \* argument of the shell's scheduler_add_task
    iff,               \* interrupt flag of the CPU
    in_service         \* IRQ 0 accepted by the PIC and not yet EOId

tcb == <<state, time_slice, wake_time, next, pc, ctx>>
queue == <<ready_queue, ready_queue_tail, task_list_head>>
cpu == <<current_task, phase, chosen, iff, in_service>>
vars == <<tcb, queue, cpu, total_ticks, linking>>

States == {"UNUSED", "READY", "RUNNING", "SLEEPING", "ZOMBIE"}
Points == {"none", "fresh", "run", "sleep", "halt", "link", "yield", "idle", "wild"}

-----------------------------------------------------------------------------
(***************************************************************************)
(* Walking the ready queue: do { ... task = task->next; }                  *)
(*                          while (task && task != first);                 *)
(***************************************************************************)
MaxWalk == Cardinality(Tasks)

\* The task the walk looks at in its n-th turn; NULL once it fell off.
Path[n \in Nat] ==
    IF n = 0 THEN ready_queue
    ELSE IF Path[n - 1] = NULL THEN NULL ELSE next[Path[n - 1]]

\* The walk comes back to the head or falls off the end.
WalkEnds ==
    \/ ready_queue = NULL
    \/ \E n \in 1..MaxWalk : Path[n] \in {NULL, ready_queue}

Queued == {Path[n] : n \in 0..MaxWalk} \ {NULL}

\* MUTANT: the scan accepts every task that is not asleep.
get_next_AnyAwake(st, t) ==
    \/ \E n \in 0..MaxWalk :
          /\ Path[n] = t
          /\ t # NULL
          /\ st[t] # "SLEEPING"
    \/ /\ t = KernelTask
       /\ \A u \in Queued : st[u] = "SLEEPING"

\* get_next_ready_task returns t when the task states are st.
get_next_ready_task(st, t) ==
    \/ \E n \in 0..MaxWalk :
          /\ Path[n] = t
          /\ st[t] = "READY"
          /\ \A m \in 0..(n - 1) : st[Path[m]] # "READY"
    \/ /\ t = KernelTask
       /\ \A u \in Queued : st[u] # "READY"

-----------------------------------------------------------------------------
(***************************************************************************)
(* task_init and scheduler_init: the kernel task is running, with a zero   *)
(* time slice, and the queue is empty.                                     *)
(***************************************************************************)
Init ==
    /\ state = [t \in Tasks |-> IF t = KernelTask THEN "RUNNING" ELSE "UNUSED"]
    /\ time_slice = [t \in Tasks |-> 0]
    /\ wake_time = [t \in Tasks |-> 0]
    /\ next = [t \in Tasks |-> NULL]
    /\ pc = [t \in Tasks |-> IF t = KernelTask THEN "run" ELSE "none"]
    /\ ctx = [t \in Tasks |-> "entry"]
    /\ ready_queue = NULL
    /\ ready_queue_tail = NULL
    /\ task_list_head = KernelTask
    /\ current_task = KernelTask
    /\ total_ticks = 0
    /\ phase = "main"
    /\ chosen = NULL
    /\ linking = NULL
    /\ iff = TRUE
    /\ in_service = FALSE

-----------------------------------------------------------------------------
(***************************************************************************)
(* Context switch.                                                         *)
(***************************************************************************)
\* A user task that never ran: task_switch enters it with iret.
first_run(t) == t \in UserTasks /\ pc[t] = "fresh"

\* Where task_switch_asm lands when it loads the context of t.
ResumePoint(t) ==
    CASE ctx[t] \in {"main", "irq"} -> pc[t]
      [] ctx[t] = "entry" -> IF t = KernelTask THEN "idle"
                             ELSE IF t \in Threads THEN "run" ELSE "wild"
      [] OTHER -> "wild"

\* task_switch_asm: save the old context, load the new one, sti.  It stores esp + 8
\* where esp + 4 is the caller's, so that a resumed task_switch returns to its
\* caller only when the compiler has let it restore esp from ebp; and it loads
\* the segment registers of a new task with 0, which the first access may not
\* survive.  So the task is at its resume point, or nowhere.
task_switch_asm(old, new, how) ==
    /\ ctx' = [ctx EXCEPT ![old] = how,
                          ![new] = IF ctx[new] = "entry" THEN "entry" ELSE "stale"]
    /\ \E point \in {ResumePoint(new), "wild"} :
          /\ pc' = [pc EXCEPT ![new] = point]
          /\ phase' = IF ctx[new] = "irq" /\ point # "wild" THEN "eoi" ELSE "main"

\* The iret branch of task_switch: nothing of the old task is saved.
EnterUser(new) ==
    /\ pc' = [pc EXCEPT ![new] = "run"]
    /\ phase' = "main"
    /\ UNCHANGED ctx

\* task_switch(new), called with the task states st.
task_switch(st, new, how) ==
    /\ state' = [st EXCEPT ![new] = "RUNNING"]
    /\ current_task' = new
    /\ iff' = TRUE
    /\ IF first_run(new) THEN EnterUser(new)
                         ELSE task_switch_asm(current_task, new, how)

-----------------------------------------------------------------------------
(***************************************************************************)
(* scheduler_schedule, as task_yield calls it.                             *)
(***************************************************************************)
\* MUTANT: no early return when the pick is current_task.
PickNoEarlyReturn ==
    /\ phase = "pick"
    /\ \E t \in Tasks :
          /\ get_next_ready_task(state, t)
          /\ time_slice' = [time_slice EXCEPT ![t] = SCHEDULER_TIME_SLICE_MS]
          /\ chosen' = t
    /\ phase' = "switch"
    /\ UNCHANGED <<state, wake_time, next, pc, ctx, queue, current_task, iff,
                   in_service, total_ticks, linking>>

\* scheduler_pick_next, and the early return when it picked current_task.
Pick ==
    /\ phase = "pick"
    /\ \E t \in Tasks :
          /\ get_next_ready_task(state, t)
          /\ time_slice' = [time_slice EXCEPT ![t] = SCHEDULER_TIME_SLICE_MS]
          /\ IF t = current_task
             THEN /\ state' = [state EXCEPT ![t] = "RUNNING"]
                  /\ phase' = "main"
                  /\ iff' = TRUE
                  /\ UNCHANGED chosen
             ELSE /\ phase' = "switch"
                  /\ chosen' = t
                  /\ UNCHANGED <<state, iff>>
    /\ UNCHANGED <<wake_time, next, pc, ctx, queue, current_task,
                   in_service, total_ticks, linking>>

\* cli and the rest of task_switch.
Switch ==
    /\ phase = "switch"
    /\ task_switch(state, chosen, "main")
    /\ chosen' = NULL
    /\ UNCHANGED <<time_slice, wake_time, next, queue, in_service, total_ticks, linking>>

-----------------------------------------------------------------------------
(***************************************************************************)
(* The timer interrupt: irq_handler_c, timer_handler, scheduler_tick and   *)
(* the scheduler_schedule it calls, with interrupts off throughout.        *)
(***************************************************************************)
now == (total_ticks + 1) % TickWrap

\* MUTANT: the wake-up compares with > instead of >=.
DueLater(t) ==
    /\ t \in Queued
    /\ state[t] = "SLEEPING"
    /\ wake_time[t] > 0
    /\ now > wake_time[t]

Due(t) ==
    /\ t \in Queued
    /\ state[t] = "SLEEPING"
    /\ wake_time[t] > 0
    /\ now >= wake_time[t]

\* The loop over sleepers in scheduler_tick when the ring is not closed.
TickHangs ==
    /\ ~WalkEnds
    /\ phase' = "hung"
    /\ iff' = FALSE
    /\ UNCHANGED <<tcb, queue, current_task, chosen, in_service, total_ticks, linking>>

\* Both EOIs are sent when no switch happened; a switch comes before them.
TickRuns ==
    LET woken == [t \in Tasks |-> IF Due(t) THEN "READY" ELSE state[t]]
        ran == woken[current_task] = "RUNNING"
        slice == IF ran /\ time_slice[current_task] > 0
                 THEN time_slice[current_task] - 1
                 ELSE time_slice[current_task]
        marked == [woken EXCEPT ![current_task] = "READY"]
        used == [time_slice EXCEPT ![current_task] = slice]
    IN /\ WalkEnds
       /\ total_ticks' = now
       /\ wake_time' = [t \in Tasks |-> IF Due(t) THEN 0 ELSE wake_time[t]]
       /\ \/ /\ ~(ran /\ slice = 0)
             /\ state' = woken
             /\ time_slice' = used
             /\ UNCHANGED <<pc, ctx, cpu>>
          \/ /\ ran /\ slice = 0
             /\ \E t \in Tasks :
                   /\ get_next_ready_task(marked, t)
                   /\ time_slice' = [used EXCEPT ![t] = SCHEDULER_TIME_SLICE_MS]
                   /\ IF t = current_task
                      THEN /\ state' = woken
                           /\ UNCHANGED <<pc, ctx, cpu>>
                      ELSE /\ task_switch(marked, t, "irq")
                           /\ in_service' = TRUE
                           /\ UNCHANGED chosen
       /\ UNCHANGED <<next, queue, linking>>

Tick ==
    /\ iff
    /\ ~in_service
    /\ phase \in {"main", "pick", "switch"}
    /\ TickHangs \/ TickRuns

\* MUTANT: the EOI after a switch is forgotten.
SendEoiForgotten ==
    /\ phase = "eoi"
    /\ phase' = "main"
    /\ UNCHANGED <<tcb, queue, current_task, chosen, iff, in_service, total_ticks, linking>>

\* The tail of the interrupt in a task that was switched out inside it:
\* pic_send_eoi in timer_handler and in irq_handler_c, then iret.
SendEoi ==
    /\ phase = "eoi"
    /\ in_service' = FALSE
    /\ phase' = "main"
    /\ UNCHANGED <<tcb, queue, current_task, chosen, iff, total_ticks, linking>>

-----------------------------------------------------------------------------
(***************************************************************************)
(* Calls a task makes from its own code.  "sys" says the call came through *)
(* int 0x80, which runs the handler with interrupts off.                   *)
(***************************************************************************)
InOwnCode(t) == current_task = t /\ phase = "main" /\ pc[t] = "run"

MayCall(t, sys) == InOwnCode(t) /\ t # KernelTask /\ (t \in UserTasks => sys)

\* MUTANT: the yielding task stays RUNNING.
task_yield_StaysRunning(sys) ==
    /\ phase' = "pick"
    /\ iff' = ~sys
    /\ UNCHANGED state

\* task_yield up to the pick: the running task is marked READY.
task_yield(sys) ==
    /\ state' = [state EXCEPT ![current_task] =
                    IF @ = "RUNNING" THEN "READY" ELSE @]
    /\ phase' = "pick"
    /\ iff' = ~sys

Yield(t, sys) ==
    /\ MayCall(t, sys)
    /\ task_yield(sys)
    /\ UNCHANGED <<time_slice, wake_time, next, pc, ctx, queue, current_task,
                   chosen, in_service, total_ticks, linking>>

\* MUTANT: wake_time is wider than the tick counter.
SleepWide(t, sys, ms) ==
    /\ MayCall(t, sys)
    /\ wake_time' = [wake_time EXCEPT ![t] = total_ticks + ms]
    /\ pc' = [pc EXCEPT ![t] = "sleep"]
    /\ iff' = ~sys
    /\ UNCHANGED <<state, time_slice, next, ctx, queue, current_task, phase,
                   chosen, in_service, total_ticks, linking>>

\* task_sleep up to the assignment of wake_time.
Sleep(t, sys, ms) ==
    /\ MayCall(t, sys)
    /\ wake_time' = [wake_time EXCEPT ![t] = (total_ticks + ms) % TickWrap]
    /\ pc' = [pc EXCEPT ![t] = "sleep"]
    /\ iff' = ~sys
    /\ UNCHANGED <<state, time_slice, next, ctx, queue, current_task, phase,
                   chosen, in_service, total_ticks, linking>>

\* The rest of task_sleep: SLEEPING, then task_yield.
SleepMark ==
    /\ phase = "main"
    /\ pc[current_task] = "sleep"
    /\ state' = [state EXCEPT ![current_task] = "SLEEPING"]
    /\ pc' = [pc EXCEPT ![current_task] = "run"]
    /\ phase' = "pick"
    /\ UNCHANGED <<time_slice, wake_time, next, ctx, queue, current_task,
                   chosen, iff, in_service, total_ticks, linking>>

\* task_exit: no task of this module waits, so no parent is BLOCKED.
Exit(t, sys) ==
    /\ MayCall(t, sys)
    /\ state' = [state EXCEPT ![t] = "ZOMBIE"]
    /\ pc' = [pc EXCEPT ![t] = "halt"]
    /\ phase' = "pick"
    /\ iff' = ~sys
    /\ UNCHANGED <<time_slice, wake_time, next, ctx, queue, current_task,
                   chosen, in_service, total_ticks, linking>>

-----------------------------------------------------------------------------
(***************************************************************************)
(* The shell creates a task (cmd_spawn, cmd_forktest, cmd_exec), with      *)
(* interrupts on.                                                          *)
(***************************************************************************)
\* task_create or task_create_user, then scheduler_add_task up to the
\* stores to the head, the tail and the old tail's next.
Create(t) ==
    /\ InOwnCode(KernelTask)
    /\ pc[t] = "none"
    /\ state' = [state EXCEPT ![t] = "READY"]
    /\ time_slice' = [time_slice EXCEPT ![t] = SCHEDULER_TIME_SLICE_MS]
    /\ pc' = [pc EXCEPT ![t] = "fresh", ![KernelTask] = "link"]
    /\ next' = [u \in Tasks |-> IF u = t THEN task_list_head
                                ELSE IF u = ready_queue_tail THEN t ELSE next[u]]
    /\ task_list_head' = t
    /\ ready_queue' = IF ready_queue = NULL THEN t ELSE ready_queue
    /\ ready_queue_tail' = t
    /\ linking' = t
    /\ UNCHANGED <<wake_time, ctx, cpu, total_ticks>>

\* MUTANT: task->next keeps the task-list link, the ring stays open.
LinkOpen ==
    /\ phase = "main"
    /\ current_task = KernelTask
    /\ pc[KernelTask] = "link"
    /\ state' = [state EXCEPT ![linking] = "READY"]
    /\ pc' = [pc EXCEPT ![KernelTask] = IF linking \in UserTasks THEN "yield" ELSE "run"]
    /\ linking' = NULL
    /\ UNCHANGED <<next, time_slice, wake_time, ctx, queue, cpu, total_ticks>>

\* The rest of scheduler_add_task: task->next closes the ring, task->state
\* is set to READY.
Link ==
    /\ phase = "main"
    /\ current_task = KernelTask
    /\ pc[KernelTask] = "link"
    /\ next' = [next EXCEPT ![linking] = ready_queue]
    /\ state' = [state EXCEPT ![linking] = "READY"]
    /\ pc' = [pc EXCEPT ![KernelTask] = IF linking \in UserTasks THEN "yield" ELSE "run"]
    /\ linking' = NULL
    /\ UNCHANGED <<time_slice, wake_time, ctx, queue, cpu, total_ticks>>

\* cmd_exec: "Yield to give the new task a chance to run".
ExecYield ==
    /\ phase = "main"
    /\ current_task = KernelTask
    /\ pc[KernelTask] = "yield"
    /\ task_yield(FALSE)
    /\ pc' = [pc EXCEPT ![KernelTask] = "run"]
    /\ UNCHANGED <<time_slice, wake_time, next, ctx, queue, current_task,
                   chosen, in_service, total_ticks, linking>>

-----------------------------------------------------------------------------
\* Kernel code that the CPU runs on its own once it was entered.
KernelStep == Pick \/ Switch \/ SendEoi \/ SleepMark \/ Link \/ ExecYield

YieldCall == \E t \in Tasks, sys \in BOOLEAN : Yield(t, sys)
SleepCall == \E t \in Tasks, sys \in BOOLEAN, ms \in SleepMs : Sleep(t, sys, ms)
ExitCall == \E t \in Tasks, sys \in BOOLEAN : Exit(t, sys)
CreateCall == \E t \in Threads \union UserTasks : Create(t)

Next == KernelStep \/ Tick \/ YieldCall \/ SleepCall \/ ExitCall \/ CreateCall

Spec == Init /\ [][Next]_vars

\* The CPU executes the kernel code it is in, and the PIT keeps ticking.
FairSpec == Spec /\ WF_vars(KernelStep) /\ WF_vars(Tick)

\* The threads of the repository are finite: each keeps sleeping or exits.
FiniteThreads == SF_vars(SleepCall \/ ExitCall)

-----------------------------------------------------------------------------
(***************************************************************************)
(* Properties.                                                             *)
(***************************************************************************)
\* The fields of the TCBs and the scheduler's globals keep their types.
TypeOK ==
    /\ state \in [Tasks -> States]
    /\ time_slice \in [Tasks -> 0..SCHEDULER_TIME_SLICE_MS]
    /\ wake_time \in [Tasks -> 0..(TickWrap - 1)]
    /\ next \in [Tasks -> Tasks \union {NULL}]
    /\ pc \in [Tasks -> Points]
    /\ ctx \in [Tasks -> {"entry", "main", "irq", "stale"}]
    /\ ready_queue \in Tasks \union {NULL}
    /\ ready_queue_tail \in Tasks \union {NULL}
    /\ task_list_head \in Tasks
    /\ current_task \in Tasks
    /\ total_ticks \in 0..(TickWrap - 1)
    /\ phase \in {"main", "pick", "switch", "eoi", "hung"}
    /\ chosen \in Tasks \union {NULL}
    /\ linking \in Tasks \union {NULL}
    /\ iff \in BOOLEAN
    /\ in_service \in BOOLEAN

\* One CPU, one RUNNING task: only current_task is ever RUNNING, and whenever
\* code outside scheduler_schedule executes, current_task is.
OneRunning ==
    /\ \A t \in Tasks : state[t] = "RUNNING" => t = current_task
    /\ phase \in {"main", "eoi"} => state[current_task] = "RUNNING"

\* scheduler_schedule reads the queue, and only later disables interrupts in
\* task_switch: the task it picked is still fit to run when it switches.
PickStillValid ==
    phase = "switch" =>
        /\ chosen # current_task
        /\ chosen = KernelTask \/ state[chosen] = "READY"

\* A tick that lands inside scheduler_schedule does not schedule again: the
\* task leaves the CPU through its own pick.
ScheduleNotReentered ==
    [][ (phase \in {"pick", "switch"} /\ current_task' # current_task) =>
            (phase = "switch" /\ current_task' = chosen) ]_vars

\* An exited task never becomes runnable again, unless the shell is still
\* inside the scheduler_add_task that queues it.
DeadStaysDead ==
    [][ \A t \in Tasks :
            state[t] = "ZOMBIE" /\ linking # t => state'[t] = "ZOMBIE" ]_vars

\* cmd_exec has not started a program yet, so every task is a kernel thread, and
\* task_switch_asm has resumed every one of them where it was.
ThreadsOnly ==
    /\ \A t \in UserTasks : pc[t] = "none"
    /\ \A t \in Tasks : pc[t] # "wild"

\* As long as there are only kernel threads, and they are resumed where they
\* were, while the timer interrupt is not acknowledged outside timer_handler,
\* the task that owes the EOI is suspended inside timer_handler and ready to run.
EoiIsOwed ==
    ThreadsOnly /\ in_service /\ phase \notin {"eoi", "hung"} =>
        \E t \in Tasks \ {current_task} : ctx[t] = "irq" /\ state[t] = "READY"

\* The shell always hears the timer and the keyboard, as long as there are
\* only kernel threads, and they are resumed where they were: it never runs
\* its own code with IRQ 0 in service.
InterruptsReachShell ==
    ThreadsOnly /\ current_task = KernelTask /\ phase = "main" => ~in_service

\* A started task that is off the CPU can be resumed where it was suspended:
\* task->context was saved when it was switched out (task.h: "saved/restored
\* on context switch").
ContextSaved ==
    \A t \in Tasks \ {current_task} :
        pc[t] \notin {"none", "fresh"} => ctx[t] \in {"main", "irq"}

\* The ring of the ready queue is open only while the shell is between the
\* stores of scheduler_add_task, so that every other walk of the queue ends:
\* the ones of scheduler_pick_next, scheduler_get_stats and the next add.
RingOpenOnlyInAdd ==
    ~WalkEnds => current_task = KernelTask /\ pc[KernelTask] = "link"

\* Nothing has gone wrong that no tick can mend: the tasks are resumed where they
\* were, the tick does not walk an open ring for ever (see RingOpenOnlyInAdd), and
\* no exited task was made READY again (see DeadStaysDead).
Sound ==
    /\ \A t \in Tasks : pc[t] # "wild"
    /\ phase # "hung"
    /\ \A t \in Tasks : pc[t] = "halt" => state[t] = "ZOMBIE"

\* Every sleeper with a non-zero wake_time (scheduler_tick takes 0, which the
\* wrap of total_ticks can produce, for no wake-up at all) is woken by some later
\* tick, also when the tick counter wraps and while ticks are held back by a
\* missing EOI, as long as the kernel stays Sound.
SleeperWakes ==
    []Sound => \A t \in Tasks :
        (state[t] = "SLEEPING" /\ wake_time[t] > 0) ~> state[t] # "SLEEPING"

\* "Preemptive multitasking": the timer interrupt always comes through again, as
\* long as the kernel stays Sound.  A thread that computes for ever after it was
\* switched to inside timer_handler holds it back: Tasking_preempt.cfg shows it.
TimerReturns == []Sound => []<>(~in_service)

=============================================================================
