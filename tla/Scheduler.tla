------------------------------ MODULE Scheduler ------------------------------
(***************************************************************************)
(* The SMP task scheduler (kernel/sched/scheduler.c) with the parts of the *)
(* process table (kernel/proc/process.c) that decide when a task may be    *)
(* dispatched, blocked, woken, terminated, reaped and its slot reused.     *)
(*                                                                         *)
(* One action is one critical section of task_table_lock (taken inside     *)
(* process_table_lock where the code takes both).  What runs without the   *)
(* lock is an action of its own: the handoff that follows a context switch *)
(* (interrupts off, other CPUs running), the window between publishing a   *)
(* new user task and completing it, the resource cleanup of a terminated   *)
(* or exiting process, and the freeing of a reaped kernel stack.           *)
(*                                                                         *)
(* Which runnable task a CPU selects is the business of the scheduling     *)
(* policy; here any runnable task, or none, may be selected.  Deadlines    *)
(* are kept relative to the clock: remaining[t] is t's deadline minus now. *)
(* A wait queue is the set of the tasks whose wait_node points to it; its  *)
(* order is ahead[t], the nodes linked between the head and t's node.      *)
(***************************************************************************)
EXTENDS Naturals, FiniteSets

CONSTANTS
    Tasks,      \* slots of the task table (MAX_TASKS)
    CPUs,       \* logical processors
    BSP,        \* the bootstrap processor: IRQ0 and all process creation
    Queues,     \* wait queues owned by drivers, mutexes, IPC endpoints, ...
    SleepQ,     \* sleep_waiters
    NoTask, NoCPU, NoQueue,
    Forever,    \* UINT64_MAX as a deadline
    MaxWait,    \* longest finite wait, in ticks (bound)
    Masks,      \* the affinity masks in use
    Reserve     \* SUPERVISED_TASK_RESERVE

ASSUME TopologyAssumption ==
    /\ BSP \in CPUs /\ IsFiniteSet(Tasks)
    /\ NoTask \notin Tasks /\ NoCPU \notin CPUs
    /\ Tasks \cap Queues = {} /\ SleepQ \notin Tasks \cup Queues
    /\ NoQueue \notin Tasks \cup Queues \cup {SleepQ}
    /\ MaxWait \in Nat \ {0} /\ Forever \notin Nat
    /\ Masks \subseteq SUBSET CPUs /\ {} \notin Masks
    /\ Reserve \in Nat

\* A process's exit_waiters queue is named by the task slot of the process.
WaitQueues == Queues \cup {SleepQ} \cup Tasks

VARIABLES
    status, runningCpu, affinity, stack, complete, proc, parent, reapBusy,
    job, victim,
    node, ahead, remaining,
    currentTask, handoffTask, handoffAction, contextSaved, preemptCount,
    op, opTask

taskVars == <<status, runningCpu, affinity, stack, complete, proc, parent,
              reapBusy, job, victim>>
waitVars == <<node, ahead, remaining>>
cpuVars  == <<currentTask, handoffTask, handoffAction, contextSaved,
              preemptCount, op, opTask>>
vars == <<taskVars, waitVars, cpuVars>>

Statuses == {"READY", "RUNNING", "SLEEPING", "FINISHED", "WAITING", "REAPING",
             "HANDOFF", "PREPARED", "TERMINATION_PENDING", "TERMINATING"}
Blocked     == {"WAITING", "SLEEPING"}
Terminating == {"TERMINATION_PENDING", "TERMINATING"}

\* The Process a slot is bound to: none, is_running, is_running /\ terminating,
\* has_exited.
ProcStates == {"none", "running", "terminating", "exited"}

\* Multi-step operations of a CPU that are pinned by preempt_disable ...
Ops == {"none", "admitted", "admitted_supervised",
        "published", "published_supervised", "reaping"}
\* ... and those of a task, which a preemption may suspend.
Jobs == {"none", "kill_pending", "kill_cleanup", "exiting"}

Deadlines == (0..MaxWait) \cup {Forever}

TypeOK ==
    /\ status \in [Tasks -> Statuses]
    /\ runningCpu \in [Tasks -> CPUs \cup {NoCPU}]
    /\ affinity \in [Tasks -> SUBSET CPUs]
    /\ stack \in [Tasks -> BOOLEAN]
    /\ complete \in [Tasks -> BOOLEAN]
    /\ proc \in [Tasks -> ProcStates]
    /\ parent \in [Tasks -> Tasks \cup {NoTask}]
    /\ reapBusy \in [Tasks -> BOOLEAN]
    /\ job \in [Tasks -> Jobs]
    /\ victim \in [Tasks -> Tasks \cup {NoTask}]
    /\ node \in [Tasks -> WaitQueues \cup {NoQueue}]
    /\ ahead \in [Tasks -> SUBSET Tasks]
    /\ remaining \in [Tasks -> Deadlines]
    /\ currentTask \in [CPUs -> Tasks \cup {NoTask}]
    /\ handoffTask \in [CPUs -> Tasks \cup {NoTask}]
    /\ handoffAction \in [CPUs -> {"NONE", "READY", "READY_PUBLISHED", "RELEASE"}]
    /\ contextSaved \in [CPUs -> BOOLEAN]
    /\ preemptCount \in [CPUs -> Nat]
    /\ op \in [CPUs -> Ops]
    /\ opTask \in [CPUs -> Tasks \cup {NoTask}]

Init ==
    /\ status = [t \in Tasks |-> "FINISHED"]
    /\ runningCpu = [t \in Tasks |-> NoCPU]
    /\ affinity = [t \in Tasks |-> {}]
    /\ stack = [t \in Tasks |-> FALSE]
    /\ complete = [t \in Tasks |-> FALSE]
    /\ proc = [t \in Tasks |-> "none"]
    /\ parent = [t \in Tasks |-> NoTask]
    /\ reapBusy = [t \in Tasks |-> FALSE]
    /\ job = [t \in Tasks |-> "none"]
    /\ victim = [t \in Tasks |-> NoTask]
    /\ node = [t \in Tasks |-> NoQueue]
    /\ ahead = [t \in Tasks |-> {}]
    /\ remaining = [t \in Tasks |-> 0]
    /\ currentTask = [c \in CPUs |-> NoTask]
    /\ handoffTask = [c \in CPUs |-> NoTask]
    /\ handoffAction = [c \in CPUs |-> "NONE"]
    /\ contextSaved = [c \in CPUs |-> FALSE]
    /\ preemptCount = [c \in CPUs |-> 0]
    /\ op = [c \in CPUs |-> "none"]
    /\ opTask = [c \in CPUs |-> NoTask]

------------------------------------------------------------------------------
(* What a CPU is doing.                                                     *)

\* Interrupts are enabled: no context switch is under way on c.
Interruptible(c) == handoffTask[c] = NoTask

\* The timer may take the CPU away: interrupts on, no preempt_disable in force.
PreemptibleUnpinned(c) == Interruptible(c)
Preemptible(c) == Interruptible(c) /\ preemptCount[c] = 0

\* The context on c is at a point of its own choosing, outside pinned sections.
AtLeisure(c) == Preemptible(c) /\ op[c] = "none"

\* The task running on c is at such a point and not inside an exit or a kill.
Free(c, t) == AtLeisure(c) /\ currentTask[c] = t /\ t \in Tasks /\ job[t] = "none"

User(t) == proc[t] # "none"

------------------------------------------------------------------------------
(* Selection, claim and handoff.                                            *)

\* find_next_runnable: the candidates of CPU c when the table's statuses are st.
\* The scheduling policy selects among them, or nothing.
RunnableUnowned(st, c) ==
    {t \in Tasks : st[t] \in {"READY", "RUNNING"} /\ c \in affinity[t]
                   /\ (st[t] = "RUNNING" => runningCpu[t] = c)}
Runnable(st, c) ==
    {t \in Tasks : /\ \/ st[t] = "READY" /\ runningCpu[t] = NoCPU
                      \/ st[t] = "RUNNING" /\ runningCpu[t] = c
                   /\ c \in affinity[t]}

Selectable(st, c) == Runnable(st, c) \cup {NoTask}

\* claim_task_for_current_cpu.
ClaimStatus(st, next) ==
    IF next = NoTask THEN st ELSE [st EXCEPT ![next] = "RUNNING"]
ClaimCpu(c, next) ==
    IF next = NoTask THEN runningCpu ELSE [runningCpu EXCEPT ![next] = c]

\* prepare_task_handoff and the switch: CPU c leaves the task prev, which stays
\* owned by c until the code now running on c finishes the handoff.
SwitchAway(c, prev, action, st, next) ==
    /\ status' = ClaimStatus(IF action = "READY"
                             THEN [st EXCEPT ![prev] = "HANDOFF"] ELSE st, next)
    /\ runningCpu' = ClaimCpu(c, next)
    /\ currentTask' = [currentTask EXCEPT ![c] = next]
    /\ handoffTask' = [handoffTask EXCEPT ![c] = prev]
    /\ handoffAction' = [handoffAction EXCEPT ![c] = action]

\* scheduler_interrupt_handler and scheduler_yield with a task running: the
\* policy selects another task, or nothing while prev's class is out of budget
\* (then the CPU falls back to its kernel context).  Selecting prev itself, or
\* nothing while prev is still funded, changes nothing.
Preempt(c, next) ==
    LET prev == currentTask[c] IN
    /\ Preemptible(c)
    /\ prev # NoTask
    /\ next \in Selectable(status, c) \ {prev}
    /\ next = NoTask => contextSaved[c]
    /\ SwitchAway(c, prev, "READY", status, next)
    /\ UNCHANGED <<affinity, stack, complete, proc, parent, reapBusy, job,
                   victim, waitVars, contextSaved, preemptCount, op, opTask>>

\* The remaining outcome of scheduler_interrupt_handler: the policy selects the
\* running task again, or nothing while that task's class is still funded.
KeepRunning(c) ==
    /\ Preemptible(c)
    /\ currentTask[c] # NoTask
    /\ currentTask[c] \in Runnable(status, c) \/ Runnable(status, c) = {}
    /\ UNCHANGED vars

\* scheduler_interrupt_handler from the kernel context: no handoff, the idle
\* context is saved once and for all.
DispatchIdle(c, next) ==
    /\ Preemptible(c)
    /\ currentTask[c] = NoTask
    /\ next \in Runnable(status, c)
    /\ status' = ClaimStatus(status, next)
    /\ runningCpu' = ClaimCpu(c, next)
    /\ currentTask' = [currentTask EXCEPT ![c] = next]
    /\ contextSaved' = [contextSaved EXCEPT ![c] = TRUE]
    /\ UNCHANGED <<affinity, stack, complete, proc, parent, reapBusy, job,
                   victim, waitVars, handoffTask, handoffAction, preemptCount,
                   op, opTask>>

\* finish_task_handoff, first store: a preempted task becomes READY ...
FinishPublish(c) ==
    /\ handoffAction[c] = "READY"
    /\ status' = [status EXCEPT ![handoffTask[c]] = "READY"]
    /\ handoffAction' = [handoffAction EXCEPT ![c] = "READY_PUBLISHED"]
    /\ UNCHANGED <<runningCpu, affinity, stack, complete, proc, parent, reapBusy,
                   job, victim, waitVars, currentTask, handoffTask,
                   contextSaved, preemptCount, op, opTask>>

\* ... second store: the CPU gives the task up.  Not under task_table_lock.
FinishRelease(c) ==
    /\ handoffAction[c] \in {"READY_PUBLISHED", "RELEASE"}
    /\ runningCpu' = [runningCpu EXCEPT ![handoffTask[c]] = NoCPU]
    /\ handoffTask' = [handoffTask EXCEPT ![c] = NoTask]
    /\ handoffAction' = [handoffAction EXCEPT ![c] = "NONE"]
    /\ UNCHANGED <<status, affinity, stack, complete, proc, parent, reapBusy,
                   job, victim, waitVars, currentTask, contextSaved,
                   preemptCount, op, opTask>>

------------------------------------------------------------------------------
(* Wait queues (kernel/sched/wait_queue.c), deadlines and sleep.            *)

InQueue(q) == {t \in Tasks : node[t] = q}

\* wait_queue_push_locked: link t at the tail of q.
Push(q, t) ==
    /\ node' = [node EXCEPT ![t] = q]
    /\ ahead' = [ahead EXCEPT ![t] = InQueue(q)]

\* wait_queue_insert_ordered_locked: walk from the head past every node whose
\* key is not larger (equal keys stay in FIFO order), link t there.
InsertAtTail(q, t, key) == Push(q, t)
InsertOrdered(q, t, key) ==
    LET passed == {u \in InQueue(q) : \A v \in ahead[u] \cup {u} : remaining[v] <= key}
    IN  /\ node' = [node EXCEPT ![t] = q]
        /\ ahead' = [u \in Tasks |-> IF u = t THEN passed
                                     ELSE IF node[u] = q /\ u \notin passed
                                          THEN ahead[u] \cup {t} ELSE ahead[u]]

\* wait_queue_pop_locked and wait_queue_remove_locked, applied to the tasks in S;
\* the deadline and the wait key go with the link.
Unlink(S) ==
    /\ node' = [t \in Tasks |-> IF t \in S THEN NoQueue ELSE node[t]]
    /\ ahead' = [t \in Tasks |-> IF t \in S THEN {} ELSE ahead[t] \ S]

ClearDeadlines(S, left) == [t \in Tasks |-> IF t \in S THEN 0 ELSE left[t]]

\* wait_queue_cancel_locked.
CancelNothing(t) == UNCHANGED waitVars
CancelWait(t) ==
    /\ Unlink({t})
    /\ remaining' = ClearDeadlines({t}, remaining)

\* schedule_blocked_current_locked: the running task t has just been given the
\* status st[t]; the CPU goes to another task or to its kernel context.  The
\* code's remaining branch (nothing to run and no saved kernel context) is not
\* reached: a CPU gets its first task in DispatchIdle, which saves the context.
LeaveBlocked(c, t, st, next) ==
    /\ next \in Selectable(st, c)
    /\ next = NoTask => contextSaved[c]
    /\ SwitchAway(c, t, "RELEASE", st, next)

\* wait_queue_block_until_task_locked, reached with preemption enabled.
BlockOn(c, q, deadline, next) ==
    LET t == currentTask[c] IN
    /\ AtLeisure(c) /\ t # NoTask
    /\ status[t] = "RUNNING" /\ node[t] = NoQueue
    /\ Push(q, t)
    /\ remaining' = [remaining EXCEPT ![t] = deadline]
    /\ LeaveBlocked(c, t, [status EXCEPT ![t] = "WAITING"], next)
    /\ UNCHANGED <<affinity, stack, complete, proc, parent, reapBusy, job,
                   victim, contextSaved, preemptCount, op, opTask>>

\* A driver, mutex or IPC wait, also from the cleanup of an exit or a kill.  The
\* deadline 1 also stands for one that has passed already: either way the next
\* tick ends the wait.
Block(c, q, deadline, next) ==
    /\ BlockOn(c, q, deadline, next)

\* process_wait_status_locked: a child to wait for, not one to collect.
StaleWaitable(child) == proc[child] # "none"
Waitable(child) == proc[child] \in {"running", "terminating"}

\* syscall_wait: the child's state is inspected and the caller queued on its
\* exit_waiters under one hold of process_table_lock.
WaitChild(c, child, next) ==
    /\ Free(c, currentTask[c])
    /\ parent[child] = currentTask[c]
    /\ Waitable(child)
    /\ BlockOn(c, child, Forever, next)

\* scheduler_sleep_ms.
SleepMs(c, ms, next) ==
    LET t == currentTask[c] IN
    /\ AtLeisure(c) /\ t # NoTask
    /\ status[t] = "RUNNING" /\ node[t] = NoQueue
    /\ ms \in 1..MaxWait
    /\ InsertOrdered(SleepQ, t, ms)
    /\ remaining' = [remaining EXCEPT ![t] = ms]
    /\ LeaveBlocked(c, t, [status EXCEPT ![t] = "SLEEPING"], next)
    /\ UNCHANGED <<affinity, stack, complete, proc, parent, reapBusy, job,
                   victim, contextSaved, preemptCount, op, opTask>>

\* wait_queue_wake_one_task_locked pops until it has popped a blocked task: that
\* task and everything linked before it, or the whole queue.
PoppedByWake(q) ==
    LET B == {t \in InQueue(q) : status[t] \in Blocked}
    IN  {t \in InQueue(q) : \A b \in B : t \in ahead[b] \cup {b}}

\* The statuses once the tasks in S have been popped: the blocked ones are READY.
WakeStatus(S) ==
    [t \in Tasks |-> IF t \in S /\ status[t] \in Blocked THEN "READY" ELSE status[t]]

\* The tasks in S leave their queues; `left' are the deadlines at that moment.
Wake(S, left) ==
    /\ Unlink(S)
    /\ remaining' = ClearDeadlines(S, left)
    /\ status' = WakeStatus(S)

\* wait_queue_wake_one_locked, from a task or an interrupt handler on c.
WakeOne(c, q) ==
    /\ Interruptible(c)
    /\ q \in Queues /\ InQueue(q) # {}
    /\ Wake(PoppedByWake(q), remaining)
    /\ UNCHANGED <<runningCpu, affinity, stack, complete, proc, parent, reapBusy,
                   job, victim, cpuVars>>

\* wait_queue_wake_all_locked.
WakeAll(c, q) ==
    /\ Interruptible(c)
    /\ q \in Queues /\ InQueue(q) # {}
    /\ Wake(InQueue(q), remaining)
    /\ UNCHANGED <<runningCpu, affinity, stack, complete, proc, parent, reapBusy,
                   job, victim, cpuVars>>

\* One clock tick brings every finite deadline nearer.  The code compares absolute
\* deadlines with the clock: one that has passed stays passed, here 0.
Elapse(d) == IF d = Forever \/ d = 0 THEN d ELSE d - 1

\* scheduler_wake_expired_sleepers_locked wakes from the head of the sleep queue
\* for as long as the head is due.
DueSleepers(left) ==
    {t \in InQueue(SleepQ) : \A u \in ahead[t] \cup {t} : left[u] = 0}

\* scheduler_wake_expired_waiters_locked: every WAITING task whose deadline passed.
ExpiredHeads(left) ==
    {t \in Tasks : status[t] = "WAITING" /\ node[t] # NoQueue /\ left[t] = 0
                   /\ ahead[t] = {}}
ExpiredWaiters(left) ==
    {t \in Tasks : status[t] = "WAITING" /\ node[t] # NoQueue /\ left[t] = 0}

\* timer_irq_handler on the BSP: time advances, then due sleepers and expired
\* waiters are woken.  The two passes are two critical sections but concern
\* disjoint tasks, so what another CPU does between them commutes with one.
Tick ==
    LET left == [t \in Tasks |-> Elapse(remaining[t])]
    IN
    /\ Interruptible(BSP)
    /\ \E t \in Tasks : node[t] # NoQueue /\ remaining[t] # Forever
    /\ Wake(DueSleepers(left) \cup ExpiredWaiters(left), left)
    /\ UNCHANGED <<runningCpu, affinity, stack, complete, proc, parent, reapBusy,
                   job, victim, cpuVars>>

------------------------------------------------------------------------------
(* Creation of tasks.                                                       *)

\* create_task_with_affinity: a slot it may reuse.
Vacant(t) == status[t] = "FINISHED" /\ ~stack[t]

\* available_task_slots_locked, the admission test's stricter count.
Available(c) ==
    {t \in Tasks : Vacant(t) /\ t # currentTask[c] /\ runningCpu[t] = NoCPU}

\* create_task_with_affinity fills the slot t and publishes it as READY.
FillSlot(t, mask, process, creator, whole) ==
    /\ Vacant(t)
    /\ status' = [status EXCEPT ![t] = "READY"]
    /\ runningCpu' = [runningCpu EXCEPT ![t] = NoCPU]
    /\ affinity' = [affinity EXCEPT ![t] = mask]
    /\ stack' = [stack EXCEPT ![t] = TRUE]
    /\ complete' = [complete EXCEPT ![t] = whole]
    /\ proc' = [proc EXCEPT ![t] = process]
    /\ parent' = [parent EXCEPT ![t] = creator]
    /\ reapBusy' = [reapBusy EXCEPT ![t] = FALSE]

\* create_affined_kernel_task: kernel workers are complete when published.
CreateKernelTask(t, mask) ==
    /\ AtLeisure(BSP) /\ t # currentTask[BSP]
    /\ FillSlot(t, mask, "none", NoTask, TRUE)
    /\ UNCHANGED <<job, victim, waitVars, cpuVars>>

\* The admission rule of create_user_task_admitted.
AdmissibleOffByOne(supervised) ==
    Cardinality(Available(BSP)) >= (IF supervised THEN 1 ELSE Reserve)
Admissible(supervised) ==
    Cardinality(Available(BSP)) > (IF supervised THEN 0 ELSE Reserve)

\* create_user_task_admitted, first critical section.  Every caller runs on the
\* BSP: boot and the supervisor are bound to it, and so are the domains that may
\* issue SYS_SPAWN (only drivers and the storage service are moved to other CPUs).
AdmitUserTask(supervised) ==
    /\ AtLeisure(BSP)
    /\ currentTask[BSP] # NoTask => job[currentTask[BSP]] = "none"
    /\ Admissible(supervised)
    /\ preemptCount' = [preemptCount EXCEPT ![BSP] = @ + 1]
    /\ op' = [op EXCEPT ![BSP] = IF supervised THEN "admitted_supervised"
                                 ELSE "admitted"]
    /\ UNCHANGED <<taskVars, waitVars, currentTask, handoffTask, handoffAction,
                   contextSaved, opTask>>

\* The parent of a new process: the user task that spawns it; processes started
\* by the kernel or by the supervisor have none.
Spawner ==
    IF op[BSP] = "admitted" /\ currentTask[BSP] # NoTask
    THEN IF User(currentTask[BSP]) THEN currentTask[BSP] ELSE NoTask
    ELSE NoTask

\* Second critical section: the slot is filled and READY, but its address space,
\* entry point and user mode are still those of a kernel task.  Every caller in use
\* asks for the BSP (process_spawn_supervised_affined, which could ask for other
\* processors, has no caller).
PublishUserTask(t) ==
    /\ Interruptible(BSP)
    /\ op[BSP] \in {"admitted", "admitted_supervised"}
    /\ t # currentTask[BSP]
    /\ FillSlot(t, {BSP}, "running", Spawner, FALSE)
    /\ op' = [op EXCEPT ![BSP] = IF @ = "admitted" THEN "published"
                                 ELSE "published_supervised"]
    /\ opTask' = [opTask EXCEPT ![BSP] = t]
    /\ UNCHANGED <<job, victim, waitVars, currentTask, handoffTask,
                   handoffAction, contextSaved, preemptCount>>

\* Third critical section: the user fields are written; a supervised task may be
\* held back as PREPARED.
CompleteUserTask(prepared) ==
    LET t == opTask[BSP] IN
    /\ Interruptible(BSP)
    /\ op[BSP] \in {"published", "published_supervised"}
    /\ prepared => op[BSP] = "published_supervised"
    /\ complete' = [complete EXCEPT ![t] = TRUE]
    /\ status' = IF prepared THEN [status EXCEPT ![t] = "PREPARED"] ELSE status
    /\ op' = [op EXCEPT ![BSP] = "none"]
    /\ opTask' = [opTask EXCEPT ![BSP] = NoTask]
    /\ preemptCount' = [preemptCount EXCEPT ![BSP] = @ - 1]
    /\ UNCHANGED <<runningCpu, affinity, stack, proc, parent, reapBusy, job,
                   victim, waitVars, currentTask, handoffTask, handoffAction,
                   contextSaved>>

\* process_start_prepared_supervised / scheduler_start_prepared_user_task_locked,
\* called by the supervisor on the BSP.
StartPrepared(t) ==
    /\ AtLeisure(BSP)
    /\ proc[t] = "running" /\ status[t] = "PREPARED" /\ runningCpu[t] = NoCPU
    /\ status' = [status EXCEPT ![t] = "READY"]
    /\ UNCHANGED <<runningCpu, affinity, stack, complete, proc, parent, reapBusy,
                   job, victim, waitVars, cpuVars>>

\* process_set_supervised_affinity / scheduler_set_task_affinity_locked: only the
\* mask changes, also while the task runs.  The supervisor and the boot thread call
\* it on the BSP, a service that reports to be ready wherever it runs, for itself.
SetAffinity(c, t, mask) ==
    /\ AtLeisure(c)
    /\ c = BSP \/ currentTask[c] = t
    /\ proc[t] = "running" /\ status[t] # "FINISHED"
    /\ affinity' = [affinity EXCEPT ![t] = mask]
    /\ UNCHANGED <<status, runningCpu, stack, complete, proc, parent, reapBusy,
                   job, victim, waitVars, cpuVars>>

------------------------------------------------------------------------------
(* Exit and termination.                                                    *)

\* process_orphan_children: the children of p lose their parent, and the dead ones
\* are forgotten; of these, the ones whose task is quiescent are handed to the
\* reaper (scheduler_reap_finished_task_locked), as seen from CPU c.
DeadChildren(p) == {t \in Tasks : parent[t] = p /\ proc[t] = "exited"}
ReapableOnCpu(c, t) == status[t] = "FINISHED" /\ t # currentTask[c]
Reapable(c, t) ==
    status[t] = "FINISHED" /\ runningCpu[t] = NoCPU /\ t # currentTask[c]
ReapedChildren(c, p) == {t \in DeadChildren(p) : Reapable(c, t)}

\* release_task_resources on the tasks in S: they await the reaper.  The processes
\* of the tasks in S are forgotten.
ReleaseStatus(st, S) == [t \in Tasks |-> IF t \in S THEN "REAPING" ELSE st[t]]
ReleaseProc(pr, S) == [t \in Tasks |-> IF t \in S THEN "none" ELSE pr[t]]
Orphan(p, S) ==
    [t \in Tasks |-> IF parent[t] = p \/ t \in S THEN NoTask ELSE parent[t]]

\* task_exit_status up to process_begin_exit.  Kernel tasks have no process.
BeginExit(c) ==
    LET t == currentTask[c] IN
    /\ Free(c, t) /\ User(t)
    /\ proc[t] = "running"
    /\ proc' = [proc EXCEPT ![t] = "terminating"]
    /\ job' = [job EXCEPT ![t] = "exiting"]
    /\ UNCHANGED <<status, runningCpu, affinity, stack, complete, parent,
                   reapBusy, victim, waitVars, cpuVars>>

\* The end of task_exit_status.  Between BeginExit and here the task closes its
\* resources with interrupts on: it may be preempted and may block.  Orphaning
\* the children is the last of these steps; nobody but the exiting task itself
\* reads what it writes, so it is part of this one.
CommitExit(c, next) ==
    LET t == currentTask[c]
        dead == DeadChildren(t)
        woken == WakeStatus(InQueue(t))
        st == [ReleaseStatus(woken, ReapedChildren(c, t)) EXCEPT ![t] = "FINISHED"]
    IN
    /\ AtLeisure(c) /\ t # NoTask
    /\ job[t] = "exiting" \/ (job[t] = "none" /\ ~User(t))
    /\ Unlink(InQueue(t) \cup {t})
    /\ remaining' = ClearDeadlines(InQueue(t) \cup {t}, remaining)
    /\ proc' = [ReleaseProc(proc, dead) EXCEPT ![t] = IF User(t) THEN "exited" ELSE "none"]
    /\ parent' = Orphan(t, dead)
    /\ job' = [job EXCEPT ![t] = "none"]
    /\ LeaveBlocked(c, t, st, next)
    /\ UNCHANGED <<affinity, stack, complete, reapBusy, victim, contextSaved,
                   preemptCount, op, opTask>>

\* process_terminate_authorized keeps its own preemption pin around the kill that
\* a user process requests; the supervisor's kills have only the inner pin.
NoOuterPin(k) == 0
OuterPin(k) == IF User(k) THEN 1 ELSE 0

\* scheduler_reserve_termination_locked accepts only a quiescent task.
NotRunning(v) == status[v] \in {"READY", "WAITING", "SLEEPING", "PREPARED", "HANDOFF"}
Quiescent(v) ==
    /\ runningCpu[v] = NoCPU
    /\ status[v] \in {"READY", "WAITING", "SLEEPING", "PREPARED"}

\* process_terminate_generation with scheduler_reserve_termination_locked: the
\* victim must be quiescent; it leaves its queue and is never dispatched again.
\* A user process may kill its children; the supervisor, a kernel task bound to
\* the BSP, any process.
ReserveTermination(c, v) ==
    LET k == currentTask[c] IN
    /\ Free(c, k)
    /\ IF User(k) THEN parent[v] = k ELSE c = BSP
    /\ v # k
    /\ proc[v] = "running" /\ Quiescent(v)
    /\ CancelWait(v)
    /\ status' = [status EXCEPT ![v] = "TERMINATION_PENDING"]
    /\ proc' = [proc EXCEPT ![v] = "terminating"]
    /\ job' = [job EXCEPT ![k] = "kill_pending"]
    /\ victim' = [victim EXCEPT ![k] = v]
    /\ preemptCount' = [preemptCount EXCEPT ![c] = @ + 1 + OuterPin(k)]
    /\ UNCHANGED <<runningCpu, affinity, stack, complete, parent, reapBusy,
                   currentTask, handoffTask, handoffAction, contextSaved, op,
                   opTask>>

\* scheduler_terminate_task, first critical section; the inner pin is dropped for
\* the cleanup that follows.
BeginTermination(c) ==
    LET k == currentTask[c]
        v == victim[k]
    IN
    /\ Interruptible(c) /\ k # NoTask
    /\ job[k] = "kill_pending"
    /\ status[v] = "TERMINATION_PENDING" /\ runningCpu[v] = NoCPU
    /\ status' = [status EXCEPT ![v] = "TERMINATING"]
    /\ job' = [job EXCEPT ![k] = "kill_cleanup"]
    /\ preemptCount' = [preemptCount EXCEPT ![c] = @ - 1]
    /\ UNCHANGED <<runningCpu, affinity, stack, complete, proc, parent, reapBusy,
                   victim, waitVars, currentTask, handoffTask, handoffAction,
                   contextSaved, op, opTask>>

\* The pins of a kill when its cleanup is over: the inner one is taken again for the
\* commit and dropped after it.
InnerPinForgotten(k) == 1 + OuterPin(k)
PinsLeft(k) == OuterPin(k)

\* scheduler_terminate_task, the commit after the victim's resources are closed
\* and its children orphaned; then the remaining pin is released.
CommitTermination(c) ==
    LET k == currentTask[c]
        v == victim[k]
        dead == DeadChildren(v)
    IN
    /\ Interruptible(c) /\ k # NoTask
    /\ job[k] = "kill_cleanup"
    /\ Unlink(InQueue(v) \cup {v})
    /\ remaining' = ClearDeadlines(InQueue(v) \cup {v}, remaining)
    /\ status' = [ReleaseStatus(WakeStatus(InQueue(v)), ReapedChildren(c, v))
                      EXCEPT ![v] = "FINISHED"]
    /\ proc' = [ReleaseProc(proc, dead) EXCEPT ![v] = "exited"]
    /\ parent' = Orphan(v, dead)
    /\ job' = [job EXCEPT ![k] = "none"]
    /\ victim' = [victim EXCEPT ![k] = NoTask]
    /\ preemptCount' = [preemptCount EXCEPT ![c] = @ - PinsLeft(k)]
    /\ UNCHANGED <<runningCpu, affinity, stack, complete, reapBusy, currentTask,
                   handoffTask, handoffAction, contextSaved, op, opTask>>

------------------------------------------------------------------------------
(* Reaping.                                                                 *)

\* scheduler_reap_finished_tasks, first critical section: every quiescent dead
\* task is detached at once.
ReleaseFinished(c) ==
    LET S == {t \in Tasks : Reapable(c, t) /\ (stack[t] \/ User(t))} IN
    /\ AtLeisure(c)
    /\ S # {}
    /\ status' = ReleaseStatus(status, S)
    /\ proc' = ReleaseProc(proc, S)
    /\ parent' = [t \in Tasks |-> IF t \in S THEN NoTask ELSE parent[t]]
    /\ UNCHANGED <<runningCpu, affinity, stack, complete, reapBusy, job, victim,
                   waitVars, cpuVars>>

\* process_wait_status_locked collecting the exit status of a dead child; a child
\* that a CPU has not left yet is forgotten all the same and reaped later.
CollectChild(c, child) ==
    /\ Free(c, currentTask[c])
    /\ parent[child] = currentTask[c] /\ proc[child] = "exited"
    /\ status' = ReleaseStatus(status, {t \in {child} : Reapable(c, t)})
    /\ proc' = ReleaseProc(proc, {child})
    /\ parent' = [parent EXCEPT ![child] = NoTask]
    /\ UNCHANGED <<runningCpu, affinity, stack, complete, reapBusy, job, victim,
                   waitVars, cpuVars>>

\* A slot with something left to tear down that no other reaper is working on.
TeardownLeft(t) == status[t] = "REAPING" /\ stack[t]
Teardown(t) == status[t] = "REAPING" /\ ~reapBusy[t] /\ stack[t]

\* scheduler_reap_finished_tasks takes one slot for a bounded teardown step ...
TakeForReaping(c, t) ==
    /\ AtLeisure(c)
    /\ Teardown(t)
    /\ reapBusy' = [reapBusy EXCEPT ![t] = TRUE]
    /\ op' = [op EXCEPT ![c] = "reaping"]
    /\ opTask' = [opTask EXCEPT ![c] = t]
    /\ preemptCount' = [preemptCount EXCEPT ![c] = @ + 1]
    /\ UNCHANGED <<status, runningCpu, affinity, stack, complete, proc, parent,
                   job, victim, waitVars, currentTask, handoffTask,
                   handoffAction, contextSaved>>

\* ... and puts it back: unfinished, or freed and cleared for reuse.
ReapStep(c, done) ==
    LET t == opTask[c] IN
    /\ Interruptible(c) /\ op[c] = "reaping"
    /\ reapBusy' = [reapBusy EXCEPT ![t] = FALSE]
    /\ stack' = [stack EXCEPT ![t] = ~done]
    /\ status' = IF done THEN [status EXCEPT ![t] = "FINISHED"] ELSE status
    /\ affinity' = IF done THEN [affinity EXCEPT ![t] = {}] ELSE affinity
    /\ complete' = IF done THEN [complete EXCEPT ![t] = FALSE] ELSE complete
    /\ op' = [op EXCEPT ![c] = "none"]
    /\ opTask' = [opTask EXCEPT ![c] = NoTask]
    /\ preemptCount' = [preemptCount EXCEPT ![c] = @ - 1]
    /\ UNCHANGED <<runningCpu, proc, parent, job, victim, waitVars, currentTask,
                   handoffTask, handoffAction, contextSaved>>

------------------------------------------------------------------------------
Next ==
    \/ Tick
    \/ \E c \in CPUs :
         \/ \E next \in Tasks \cup {NoTask} : Preempt(c, next)
         \/ \E next \in Tasks : DispatchIdle(c, next)
         \/ FinishPublish(c)
         \/ FinishRelease(c)
         \/ \E q \in Queues, d \in Deadlines \ {0}, next \in Tasks \cup {NoTask} :
              Block(c, q, d, next)
         \/ \E child \in Tasks, next \in Tasks \cup {NoTask} :
              WaitChild(c, child, next)
         \/ \E ms \in 1..MaxWait, next \in Tasks \cup {NoTask} :
              SleepMs(c, ms, next)
         \/ \E q \in Queues : WakeOne(c, q)
         \/ \E q \in Queues : WakeAll(c, q)
         \/ BeginExit(c)
         \/ \E next \in Tasks \cup {NoTask} : CommitExit(c, next)
         \/ \E v \in Tasks : ReserveTermination(c, v)
         \/ BeginTermination(c)
         \/ CommitTermination(c)
         \/ ReleaseFinished(c)
         \/ \E child \in Tasks : CollectChild(c, child)
         \/ \E t \in Tasks : TakeForReaping(c, t)
         \/ \E done \in BOOLEAN : ReapStep(c, done)
    \/ \E t \in Tasks, mask \in Masks : CreateKernelTask(t, mask)
    \/ \E supervised \in BOOLEAN : AdmitUserTask(supervised)
    \/ \E t \in Tasks : PublishUserTask(t)
    \/ \E prepared \in BOOLEAN : CompleteUserTask(prepared)
    \/ \E t \in Tasks : StartPrepared(t)
    \/ \E c \in CPUs, t \in Tasks, mask \in Masks : SetAffinity(c, t, mask)

Spec == Init /\ [][Next]_vars

\* IRQ0 stays latched while interrupts are off and is then delivered; the code
\* that follows a context switch runs to its end.
Fairness ==
    /\ SF_vars(Tick)
    /\ \A c \in CPUs : WF_vars(FinishPublish(c)) /\ WF_vars(FinishRelease(c))

FairSpec == Spec /\ Fairness

------------------------------------------------------------------------------
(* Properties.                                                              *)

\* The tasks whose kernel stack CPU c is executing on or has not left yet.
OnCpu(c) == {currentTask[c], handoffTask[c]} \ {NoTask}

\* No kernel stack is ever used by two CPUs: a task that is being switched away
\* from, or has blocked, been woken and become READY again before its CPU has
\* finished the handoff, is not picked up by another CPU (nor again by its own).
SingleOwner ==
    /\ \A c, d \in CPUs : c # d => OnCpu(c) \cap OnCpu(d) = {}
    /\ \A c \in CPUs : currentTask[c] # NoTask => currentTask[c] # handoffTask[c]

\* A user task is not dispatched between the two critical sections of
\* create_user_task_admitted, while it still has the kernel's address space and
\* would enter its user entry point in ring 0.
DispatchedComplete ==
    \A c \in CPUs : currentTask[c] # NoTask => complete[currentTask[c]]

\* The kernel stack under a CPU is never freed, handed to the reaper or given to
\* another task.
StackInUse ==
    \A c \in CPUs : \A t \in OnCpu(c) : stack[t] /\ status[t] # "REAPING"

\* A blocked task can be woken, and only a blocked task is linked: the wait_node
\* of a task agrees with its status after every wake, timeout, kill and exit.
BlockedIffLinked ==
    \A t \in Tasks : status[t] \in Blocked <=> node[t] # NoQueue

\* wait() loses no exit: nobody is queued on the exit_waiters of a process that
\* has already exited, or of a vacant or reused slot.
ExitWaitersLive ==
    \A t, w \in Tasks : node[w] = t => proc[t] \in {"running", "terminating"} /\ parent[t] = w

\* A reserved victim has exactly one task that carries its termination through,
\* and that task is itself neither dead nor doomed.
TerminationOwned ==
    \A v \in Tasks :
        status[v] \in Terminating =>
            \E k \in Tasks :
                /\ victim[k] = v /\ \A j \in Tasks : victim[j] = v => j = k
                /\ status[k] \notin Terminating \cup {"FINISHED", "REAPING"}

\* scheduler_sleep_ms never oversleeps: with the queue ordered by deadline, the
\* pass from its head wakes every sleeper that is due.
NoOversleep ==
    \A t \in Tasks : status[t] = "SLEEPING" => remaining[t] # 0

\* Every wait with a deadline ends, wherever the task stands in its queue and
\* whatever happens to the tasks before it.
TimedWaitsEnd ==
    \A t \in Tasks :
        (node[t] # NoQueue /\ remaining[t] # Forever) ~> node[t] = NoQueue

\* Two CPUs never tear down the same task, and what is torn down is still there.
ReaperExclusive ==
    \A c \in CPUs : op[c] = "reaping" =>
        /\ stack[opTask[c]] /\ status[opTask[c]] = "REAPING"
        /\ \A d \in CPUs \ {c} : op[d] = "reaping" => opTask[d] # opTask[c]

\* An ordinary spawn never takes the last reserved slots: the count made by the
\* admission test still holds when the slot is taken in a later critical section.
ReserveKept ==
    [][op[BSP] = "admitted" /\ op'[BSP] = "published"
         => Cardinality(Available(BSP)') >= Reserve]_vars

\* A task reserved for termination is never run again: no wakeup, timeout or
\* unlocked handoff store brings it back.
DoomedStaysDoomed ==
    [][\A t \in Tasks : status[t] \in Terminating
         => status'[t] \in Terminating \cup {"FINISHED"}]_vars
==============================================================================
