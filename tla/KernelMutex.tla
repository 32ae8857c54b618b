----------------------------- MODULE KernelMutex -----------------------------
(***************************************************************************)
(* The sleepable kernel mutex (kernel/sched/mutex.c) with the ownership    *)
(* set the scheduler keeps per task (scheduler_mutex_owner_register,       *)
(* scheduler_abandon_task_mutexes in kernel/sched/scheduler.c).            *)
(*                                                                         *)
(* One action is one critical section of a mutex's state_lock, with the    *)
(* preemption guards taken or dropped around it: a guard only ever makes   *)
(* the context that takes it harder to interrupt, and that context does    *)
(* nothing else in between.  The scheduler is reduced to what a mutex can  *)
(* notice: who runs on which CPU, the CPU's preempt_disable_count, wakes,  *)
(* expiry, kills of tasks that are not running, and the reuse of slots     *)
(* under a new task_generation.  Module Scheduler has the details.         *)
(*                                                                         *)
(* A caller is a task, or the kernel context of a CPU (owner_task = -1),   *)
(* which is named by its CPU.                                              *)
(***************************************************************************)
EXTENDS Naturals, FiniteSets

CONSTANTS
    Tasks, CPUs, Mutexes,
    NoTask, NoOwner, NoMutex,
    Capacity,        \* SCHEDULER_HELD_MUTEX_CAPACITY
    RecursionLimit,  \* KERNEL_MUTEX_RECURSION_LIMIT
    MaxGeneration,   \* bound on next_task_generation
    MaxCallerPins    \* bound on the preempt_disable calls a caller nests

ASSUME MutexAssumption ==
    /\ Tasks \cap CPUs = {}
    /\ NoTask \notin Tasks /\ NoOwner \notin Tasks \cup CPUs /\ NoMutex \notin Mutexes
    /\ Capacity \in Nat \ {0} /\ RecursionLimit \in Nat \ {0}
    /\ MaxGeneration \in Nat /\ MaxCallerPins \in Nat
    /\ IsFiniteSet(Mutexes) /\ IsFiniteSet(Tasks)

VARIABLES
    owner,       \* owner_task and, for a kernel context, owner_cpu
    ownerGen,    \* owner_generation
    depth,       \* recursion_depth
    pinned,      \* owner_preempt_pinned
    running,     \* the task on a CPU, or NoTask for its kernel context
    pins,        \* preempt_disable_count of a CPU
    callerPins,  \* how many of them the caller took itself
    mode,        \* life of a task
    gen,         \* task_generation
    lastGen,     \* next_task_generation
    held,        \* held_mutexes of a task
    popped,      \* the mutex taken out of held and about to be revoked
    want,        \* the mutex a task is in kernel_mutex_lock_until for
    ahead,       \* the waiters linked before a waiting task
    late,        \* the deadline of that call has passed
    timedOut,    \* wait_result of the last wait was -110
    swallowed    \* a wakeup of this free mutex went to a task since killed

mutexVars == <<owner, ownerGen, depth, pinned>>
cpuVars   == <<running, pins, callerPins>>
taskVars  == <<mode, gen, lastGen, held, popped>>
waitVars  == <<want, ahead, late, timedOut, swallowed>>
vars == <<mutexVars, cpuVars, taskVars, waitVars>>

Modes == {"free", "ready", "running", "waiting", "doomed"}

TypeOK ==
    /\ owner \in [Mutexes -> Tasks \cup CPUs \cup {NoOwner}]
    /\ ownerGen \in [Mutexes -> Nat]
    /\ depth \in [Mutexes -> 0..RecursionLimit]
    /\ pinned \in [Mutexes -> BOOLEAN]
    /\ running \in [CPUs -> Tasks \cup {NoTask}]
    /\ pins \in [CPUs -> Nat]
    /\ callerPins \in [CPUs -> 0..MaxCallerPins]
    /\ mode \in [Tasks -> Modes]
    /\ gen \in [Tasks -> Nat]
    /\ lastGen \in Nat
    /\ held \in [Tasks -> SUBSET Mutexes]
    /\ \A t \in Tasks : Cardinality(held[t]) <= Capacity
    /\ popped \in [Tasks -> Mutexes \cup {NoMutex}]
    /\ want \in [Tasks -> Mutexes \cup {NoMutex}]
    /\ ahead \in [Tasks -> SUBSET Tasks]
    /\ late \in [Tasks -> BOOLEAN]
    /\ timedOut \in [Tasks -> BOOLEAN]
    /\ swallowed \in [Mutexes -> BOOLEAN]

\* kernel_mutex_init for every mutex; no task yet, every CPU in its kernel context.
Init ==
    /\ owner = [m \in Mutexes |-> NoOwner]
    /\ ownerGen = [m \in Mutexes |-> 0]
    /\ depth = [m \in Mutexes |-> 0]
    /\ pinned = [m \in Mutexes |-> FALSE]
    /\ running = [c \in CPUs |-> NoTask]
    /\ pins = [c \in CPUs |-> 0]
    /\ callerPins = [c \in CPUs |-> 0]
    /\ mode = [t \in Tasks |-> "free"]
    /\ gen = [t \in Tasks |-> 0]
    /\ lastGen = 0
    /\ held = [t \in Tasks |-> {}]
    /\ popped = [t \in Tasks |-> NoMutex]
    /\ want = [t \in Tasks |-> NoMutex]
    /\ ahead = [t \in Tasks |-> {}]
    /\ late = [t \in Tasks |-> FALSE]
    /\ timedOut = [t \in Tasks |-> FALSE]
    /\ swallowed = [m \in Mutexes |-> FALSE]

------------------------------------------------------------------------------
(* Callers.                                                                 *)

\* kernel_mutex_owner_identity of the code running on c.
Caller(c) == IF running[c] = NoTask THEN c ELSE running[c]
Generation(x) == IF x \in Tasks THEN gen[x] ELSE 0

\* kernel_mutex_identity_matches.
Owns(x, m) == owner[m] = x /\ (x \in Tasks => ownerGen[m] = gen[x])

\* The caller on c is not inside a lock call.
BetweenCalls(c) == running[c] # NoTask => want[running[c]] = NoMutex

\* The caller on c enters kernel_mutex_lock_until, or is back at the head of its
\* loop after a wait that returned 0.
InLockCall(c, m) ==
    running[c] # NoTask =>
        want[running[c]] \in {NoMutex, m} /\ ~timedOut[running[c]]

\* The lock call of the caller on c returns.
ReturnFromLock(c) ==
    /\ want' = [t \in Tasks |-> IF t = running[c] THEN NoMutex ELSE want[t]]
    /\ late' = [t \in Tasks |-> IF t = running[c] THEN FALSE ELSE late[t]]

\* kernel_preempt_guard: one pin per acquisition of a kernel context.
KernelGuardOnce(c, m) == IF running[c] = NoTask /\ depth[m] = 0 THEN 1 ELSE 0
KernelGuard(c, m) == IF running[c] = NoTask THEN 1 ELSE 0

Waiters(m) == {t \in Tasks : mode[t] = "waiting" /\ want[t] = m}

\* wait_queue_wake_one_locked.
Woken(m) == {t \in Waiters(m) : ahead[t] = {}}
WakeOne(m) ==
    /\ mode' = [t \in Tasks |-> IF t \in Woken(m) THEN "ready" ELSE mode[t]]
    /\ ahead' = [t \in Tasks |-> ahead[t] \ Woken(m)]
    /\ swallowed' = [swallowed EXCEPT ![m] = FALSE]

\* The mutex is free again and one waiter is told.
Release(m) ==
    /\ owner' = [owner EXCEPT ![m] = NoOwner]
    /\ ownerGen' = [ownerGen EXCEPT ![m] = 0]
    /\ depth' = [depth EXCEPT ![m] = 0]
    /\ pinned' = [pinned EXCEPT ![m] = FALSE]
    /\ WakeOne(m)

------------------------------------------------------------------------------
(* kernel_mutex_lock_until.                                                 *)

\* scheduler_mutex_owner_register.
RegisterNothing(c, m) == held
Register(c, m) ==
    [t \in Tasks |-> IF t = running[c] THEN held[t] \cup {m} ELSE held[t]]
HasRoom(c) == running[c] # NoTask => Cardinality(held[running[c]]) < Capacity

\* The mutex is free and the caller takes it; a task is recorded as its holder.
LockFree(c, m) ==
    /\ InLockCall(c, m)
    /\ owner[m] = NoOwner
    /\ HasRoom(c)
    /\ owner' = [owner EXCEPT ![m] = Caller(c)]
    /\ ownerGen' = [ownerGen EXCEPT ![m] = Generation(Caller(c))]
    /\ depth' = [depth EXCEPT ![m] = 1]
    /\ pinned' = [pinned EXCEPT ![m] = FALSE]
    /\ held' = Register(c, m)
    /\ pins' = [pins EXCEPT ![c] = @ + KernelGuard(c, m)]
    /\ ReturnFromLock(c)
    /\ UNCHANGED <<running, callerPins, mode, gen, lastGen, popped, ahead,
                   timedOut, swallowed>>

\* The mutex is free but the task holds as many as can be recorded: the mutex is
\* given up at once, the wakeup the caller may have consumed is passed on.
KeepWakeup(m) == UNCHANGED <<mode, ahead, swallowed>>
PassWakeupOn(m) == WakeOne(m)
LockRefused(c, m) ==
    /\ InLockCall(c, m)
    /\ owner[m] = NoOwner
    /\ ~HasRoom(c)
    /\ PassWakeupOn(m)
    /\ ReturnFromLock(c)
    /\ UNCHANGED <<mutexVars, cpuVars, gen, lastGen, held, popped, timedOut>>

\* KERNEL_MUTEX_RECURSION_LIMIT.
UpToLimit(m) == depth[m] <= RecursionLimit
BelowLimit(m) == depth[m] < RecursionLimit

\* The caller holds it already: one level deeper, up to the limit (beyond it the
\* call fails and changes nothing).
LockAgain(c, m) ==
    /\ BetweenCalls(c)
    /\ Owns(Caller(c), m)
    /\ BelowLimit(m)
    /\ depth' = [depth EXCEPT ![m] = @ + 1]
    /\ pins' = [pins EXCEPT ![c] = @ + KernelGuard(c, m)]
    /\ UNCHANGED <<owner, ownerGen, pinned, running, callerPins, taskVars,
                   waitVars>>

\* The deadline of the call as a whole, checked before every wait.
InTime(t) == ~late[t]

\* Contention: a task that may sleep and whose deadline has not passed is queued
\* and leaves the CPU (wait_queue_block_until_spinlocked).  Any other caller is
\* refused, which changes nothing unless it was retrying (LockLate).
LockWait(c, m) ==
    LET t == running[c] IN
    /\ InLockCall(c, m)
    /\ owner[m] # NoOwner /\ ~Owns(Caller(c), m)
    /\ t # NoTask /\ pins[c] = 0
    /\ InTime(t)
    /\ mode' = [mode EXCEPT ![t] = "waiting"]
    /\ want' = [want EXCEPT ![t] = m]
    /\ ahead' = [ahead EXCEPT ![t] = Waiters(m)]
    /\ running' = [running EXCEPT ![c] = NoTask]
    /\ UNCHANGED <<mutexVars, pins, callerPins, gen, lastGen, held, popped, late,
                   timedOut, swallowed>>

\* A retrying task finds the mutex taken again after its deadline.
LockLate(c, m) ==
    /\ running[c] # NoTask /\ want[running[c]] = m
    /\ InLockCall(c, m)
    /\ owner[m] # NoOwner /\ ~InTime(running[c])
    /\ ReturnFromLock(c)
    /\ UNCHANGED <<mutexVars, cpuVars, taskVars, ahead, timedOut, swallowed>>

\* The wait itself ended by timeout: the call returns without another look.
LockTimeout(c) ==
    /\ running[c] # NoTask /\ timedOut[running[c]]
    /\ timedOut' = [timedOut EXCEPT ![running[c]] = FALSE]
    /\ ReturnFromLock(c)
    /\ UNCHANGED <<mutexVars, cpuVars, taskVars, ahead, swallowed>>

------------------------------------------------------------------------------
(* kernel_mutex_trylock_pinned and kernel_mutex_unlock.                     *)

\* A task with preemption already disabled takes a free mutex and a further pin
\* of its own; the holder is not recorded, it cannot be killed while it runs.
OuterPinOnly == 0
InternalPin == 1
PinnedCaller(c) == running[c] # NoTask /\ pins[c] > 0
TryLockPinned(c, m) ==
    /\ BetweenCalls(c)
    /\ PinnedCaller(c)
    /\ owner[m] = NoOwner
    /\ owner' = [owner EXCEPT ![m] = Caller(c)]
    /\ ownerGen' = [ownerGen EXCEPT ![m] = Generation(Caller(c))]
    /\ depth' = [depth EXCEPT ![m] = 1]
    /\ pinned' = [pinned EXCEPT ![m] = TRUE]
    /\ pins' = [pins EXCEPT ![c] = @ + InternalPin]
    /\ UNCHANGED <<running, callerPins, taskVars, waitVars>>

\* ... or goes one level deeper, whichever way it took the mutex.
TryLockAgain(c, m) ==
    /\ BetweenCalls(c)
    /\ PinnedCaller(c)
    /\ Owns(Caller(c), m)
    /\ BelowLimit(m)
    /\ depth' = [depth EXCEPT ![m] = @ + 1]
    /\ UNCHANGED <<owner, ownerGen, pinned, cpuVars, taskVars, waitVars>>

\* kernel_mutex_unlock, not the last level.
UnlockInner(c, m) ==
    /\ BetweenCalls(c)
    /\ Owns(Caller(c), m) /\ depth[m] > 1
    /\ depth' = [depth EXCEPT ![m] = @ - 1]
    /\ pins' = [pins EXCEPT ![c] = @ - KernelGuard(c, m)]
    /\ UNCHANGED <<owner, ownerGen, pinned, running, callerPins, taskVars,
                   waitVars>>

\* kernel_mutex_unlock, the last level.
UnlockFinal(c, m) ==
    LET guard == IF pinned[m] THEN InternalPin ELSE 0 IN
    /\ BetweenCalls(c)
    /\ Owns(Caller(c), m) /\ depth[m] = 1
    /\ held' = [t \in Tasks |-> IF t = running[c] THEN held[t] \ {m} ELSE held[t]]
    /\ Release(m)
    /\ pins' = [pins EXCEPT ![c] = @ - KernelGuard(c, m) - guard]
    /\ UNCHANGED <<running, callerPins, gen, lastGen, popped, want, late, timedOut>>

\* The callers' own preempt_disable and preempt_enable, in any order with the
\* calls above.
DisablePreemption(c) ==
    /\ BetweenCalls(c)
    /\ callerPins[c] < MaxCallerPins
    /\ callerPins' = [callerPins EXCEPT ![c] = @ + 1]
    /\ pins' = [pins EXCEPT ![c] = @ + 1]
    /\ UNCHANGED <<mutexVars, running, taskVars, waitVars>>

EnablePreemption(c) ==
    /\ BetweenCalls(c)
    /\ callerPins[c] > 0
    /\ callerPins' = [callerPins EXCEPT ![c] = @ - 1]
    /\ pins' = [pins EXCEPT ![c] = @ - 1]
    /\ UNCHANGED <<mutexVars, running, taskVars, waitVars>>

------------------------------------------------------------------------------
(* What the scheduler does to the callers.                                  *)

\* scheduler_interrupt_handler: nothing happens to a CPU with a pin.
Preempt(c) ==
    /\ running[c] # NoTask /\ pins[c] = 0
    /\ mode' = [mode EXCEPT ![running[c]] = "ready"]
    /\ running' = [running EXCEPT ![c] = NoTask]
    /\ UNCHANGED <<mutexVars, pins, callerPins, gen, lastGen, held, popped, waitVars>>

Dispatch(c, t) ==
    /\ running[c] = NoTask /\ pins[c] = 0
    /\ mode[t] = "ready"
    /\ mode' = [mode EXCEPT ![t] = "running"]
    /\ running' = [running EXCEPT ![c] = t]
    /\ UNCHANGED <<mutexVars, pins, callerPins, gen, lastGen, held, popped, waitVars>>

\* The clock reaches the deadline of a lock call ...
DeadlinePasses(t) ==
    /\ want[t] # NoMutex /\ ~late[t]
    /\ late' = [late EXCEPT ![t] = TRUE]
    /\ UNCHANGED <<mutexVars, cpuVars, taskVars, want, ahead, timedOut, swallowed>>

\* ... and scheduler_wake_expired_waiters_locked ends the wait.
ExpireRearmed(t) ==
    /\ mode[t] = "waiting" /\ late[t]
    /\ late' = [late EXCEPT ![t] = FALSE]
    /\ UNCHANGED <<mutexVars, cpuVars, taskVars, want, ahead, timedOut, swallowed>>
Expire(t) ==
    /\ mode[t] = "waiting" /\ late[t]
    /\ mode' = [mode EXCEPT ![t] = "ready"]
    /\ ahead' = [u \in Tasks |-> IF u = t THEN {} ELSE ahead[u] \ {t}]
    /\ timedOut' = [timedOut EXCEPT ![t] = TRUE]
    /\ UNCHANGED <<mutexVars, cpuVars, gen, lastGen, held, popped, want, late,
                   swallowed>>

\* create_task_with_affinity in a free slot.
NextGeneration == lastGen + 1
Create(t) ==
    /\ mode[t] = "free" /\ lastGen < MaxGeneration
    /\ mode' = [mode EXCEPT ![t] = "ready"]
    /\ lastGen' = NextGeneration
    /\ gen' = [gen EXCEPT ![t] = NextGeneration]
    /\ held' = [held EXCEPT ![t] = {}]
    /\ UNCHANGED <<mutexVars, cpuVars, popped, waitVars>>

\* task_exit_status.  It revokes nothing: the callers that reach it (the exit
\* system call and faults in user mode) hold no mutex.
Exit(c) ==
    LET t == running[c] IN
    /\ t # NoTask /\ pins[c] = 0 /\ BetweenCalls(c)
    /\ \A m \in Mutexes : owner[m] # t
    /\ mode' = [mode EXCEPT ![t] = "free"]
    /\ running' = [running EXCEPT ![c] = NoTask]
    /\ UNCHANGED <<mutexVars, pins, callerPins, gen, lastGen, held, popped, waitVars>>

\* scheduler_reserve_termination_locked: a task that is not running leaves its
\* queue and is never dispatched again.
Killable(t) == mode[t] \in {"ready", "waiting"}
Kill(t) ==
    /\ Killable(t)
    /\ mode' = [mode EXCEPT ![t] = "doomed"]
    /\ ahead' = [u \in Tasks |-> IF u = t THEN {} ELSE ahead[u] \ {t}]
    /\ want' = [want EXCEPT ![t] = NoMutex]
    /\ late' = [late EXCEPT ![t] = FALSE]
    /\ timedOut' = [timedOut EXCEPT ![t] = FALSE]
    /\ swallowed' = [m \in Mutexes |->
          \/ swallowed[m]
          \/ mode[t] = "ready" /\ want[t] = m /\ ~timedOut[t] /\ owner[m] = NoOwner]
    /\ UNCHANGED <<mutexVars, cpuVars, gen, lastGen, held, popped>>

\* scheduler_abandon_task_mutexes, run by the task that terminates t: one mutex
\* leaves the ownership set under task_table_lock ...
PopHeld(t, m) ==
    /\ mode[t] = "doomed" /\ popped[t] = NoMutex
    /\ m \in held[t]
    /\ held' = [held EXCEPT ![t] = @ \ {m}]
    /\ popped' = [popped EXCEPT ![t] = m]
    /\ UNCHANGED <<mutexVars, cpuVars, mode, gen, lastGen, waitVars>>

\* ... and is revoked under its state_lock (kernel_mutex_abandon_task_owner).
AbandonMatches(t, m) ==
    Owns(t, m) /\ depth[m] # 0 /\ ~pinned[m]
Abandon(t) ==
    LET m == popped[t] IN
    /\ m # NoMutex
    /\ AbandonMatches(t, m)
    /\ Release(m)
    /\ popped' = [popped EXCEPT ![t] = NoMutex]
    /\ UNCHANGED <<cpuVars, gen, lastGen, held, want, late, timedOut>>

\* The slot is free once its task has been torn down.
RevokedFirstOnly(t) == popped[t] = NoMutex
RevokedAll(t) == popped[t] = NoMutex /\ held[t] = {}
FinishKill(t) ==
    /\ mode[t] = "doomed" /\ RevokedAll(t)
    /\ mode' = [mode EXCEPT ![t] = "free"]
    /\ UNCHANGED <<mutexVars, cpuVars, gen, lastGen, held, popped, waitVars>>

------------------------------------------------------------------------------
\* The steps a call of kernel_mutex_lock_until takes.
LockStep(c, m) ==
    LockFree(c, m) \/ LockRefused(c, m) \/ LockWait(c, m) \/ LockLate(c, m)

Next ==
    \/ \E c \in CPUs, m \in Mutexes :
          \/ LockFree(c, m) \/ LockRefused(c, m) \/ LockAgain(c, m)
          \/ LockWait(c, m) \/ LockLate(c, m)
          \/ TryLockPinned(c, m) \/ TryLockAgain(c, m)
          \/ UnlockInner(c, m) \/ UnlockFinal(c, m)
    \/ \E c \in CPUs :
          \/ LockTimeout(c)
          \/ DisablePreemption(c) \/ EnablePreemption(c)
          \/ Preempt(c) \/ Exit(c)
          \/ \E t \in Tasks : Dispatch(c, t)
    \/ \E t \in Tasks :
          \/ DeadlinePasses(t) \/ Expire(t)
          \/ Create(t) \/ Kill(t)
          \/ \E m \in Mutexes : PopHeld(t, m)
          \/ Abandon(t) \/ FinishKill(t)

Spec == Init /\ [][Next]_vars

\* A pinned section is finite; the timer interrupts the CPUs that are not pinned,
\* the policy gives every ready task a CPU, a task that has one gets on with its
\* lock call, and the clock runs.
Fairness ==
    /\ \A c \in CPUs : []<>(pins[c] = 0)
    /\ SF_vars(\E c \in CPUs : Preempt(c))
    /\ \A t \in Tasks :
          /\ WF_vars(DeadlinePasses(t) \/ Expire(t))
          /\ SF_vars(\E c \in CPUs : Dispatch(c, t))
          /\ SF_vars(\E c \in CPUs : /\ running[c] = t /\ want[t] # NoMutex
                                     /\ LockTimeout(c) \/ \E m \in Mutexes : LockStep(c, m))

FairSpec == Spec /\ Fairness

------------------------------------------------------------------------------
(* Properties.                                                              *)

\* The record a kill works from is exact: a task owns a mutex that it did not
\* take pinned if and only if that mutex is in its ownership set, or has just
\* been taken out of it to be revoked.  So the assertions on register,
\* unregister and abandon never fail, and no lock dies with its holder.
RevocableExactly ==
    \A t \in Tasks, m \in Mutexes :
        owner[m] = t /\ ~pinned[m] <=> m \in held[t] \/ m = popped[t]

\* The owner of a mutex is a live task, of the generation that took it: nothing
\* is owned by a dead slot, or inherited by the next task in it.
OwnerAlive ==
    \A m \in Mutexes :
        /\ owner[m] = NoOwner <=> depth[m] = 0
        /\ owner[m] \in Tasks => /\ mode[owner[m]] # "free"
                                 /\ ownerGen[m] = gen[owner[m]]

\* A holder that is not recorded (a kernel context, or a task that took the mutex
\* pinned) is executing on a CPU it cannot lose: it is neither preempted nor
\* killed, even when its caller enables preemption too early.
UnrecordedOwnerRuns ==
    \A m \in Mutexes :
        owner[m] \in CPUs \/ (owner[m] # NoOwner /\ pinned[m])
            => \E c \in CPUs : Caller(c) = owner[m] /\ pins[c] > 0

\* The levels of locking that hold a pin of c: every level of a kernel context,
\* the first level of a task that took the mutex pinned.
Guards(c) ==
    {p \in Mutexes \X (1..RecursionLimit) :
        /\ owner[p[1]] = Caller(c) /\ p[2] <= depth[p[1]]
        /\ running[c] = NoTask \/ (pinned[p[1]] /\ p[2] = 1)}

\* Every pin the mutexes take is dropped again, in whatever order mutexes and
\* preemption guards are nested.
PinsBalanced ==
    \A c \in CPUs : pins[c] = callerPins[c] + Cardinality(Guards(c))

\* No wakeup is lost: while a mutex is free and tasks wait for it, some task that
\* was woken is on its way to take it.  The one exception is a woken task that
\* was killed before it ran; then the next release, or the deadline, helps out.
NoStrandedWaiter ==
    \A m \in Mutexes :
        owner[m] = NoOwner /\ Waiters(m) # {} =>
            \/ swallowed[m]
            \/ \E t \in Tasks : /\ mode[t] \in {"ready", "running"}
                                /\ want[t] = m /\ ~timedOut[t]

\* "Every wait has a monotonic deadline": a lock call of a live task returns,
\* though it may be woken, lose the mutex to another task and wait again, and
\* though the holder may keep the mutex for ever.
LockCallsReturn ==
    \A t \in Tasks : want[t] # NoMutex ~> want[t] = NoMutex
==============================================================================
