# REIST-OS: formal models of the kernel core

TLA+ models of the parts of REIST-OS (a freestanding 32-bit x86 kernel with SMP)
in which processors, processes and power cuts meet: the task scheduler, the
kernel mutex, IPC endpoints, the storage request pool, the undo journal of the
boot volume and the supervision of the ring-3 drivers. TLC checks each on small
instances, liveness included; TLAPS proves every safety property, and that the
journal implements an atomic volume, for every instance. Paths are relative to
the repository root.

    tlc -config MCScheduler.cfg MCScheduler       # and likewise for the other runs
    tlapm KernelMutexProofs.tla                   # likewise MutexWakeupProofs, IpcProofs,
                                                  # IpcWakeupProofs, SchedulerProofs, StorageProofs,
                                                  # SupervisorProofs, JournalProofs

`PROJECT.json` lists the components, the runs with their properties, the source
lines behind every definition, the hazards, the findings and the theorems.

## 1. Inventory

| Component | State it keeps | Operations | Interacts through |
|---|---|---|---|
| Scheduler `kernel/sched/scheduler.c` | task table (status, running CPU, stack, affinity, wait node), per-CPU current task, pending handoff, preemption count | create, start, dispatch, preempt, block, wake, sleep, expire, exit, terminate, reap | one spin lock, IRQ0, context switches |
| Wait queues `kernel/sched/wait_queue.c` | linked nodes, one per task | block, wake one / all, cancel | the caller's lock, then the table lock |
| Process table `kernel/proc/process.c` | process records, exit status, exit waiters, parents | create, wait, kill, orphan | scheduler, resource cleanup of every subsystem |
| Kernel mutex `kernel/sched/mutex.c` | owner, generation, depth, pin; held list per task | lock (until), try, unlock, revoke | wait queues, preemption count, termination |
| Storage request pool `kernel/init/storage_request_pool.c` | slots, bulk buffers, mutation records, resource fences, bound service | submit, claim, complete, collect, cancel, copy in/out, bind, resolve | clients and the Ring-3 storage service by system calls; cleanup of dead processes |
| Undo journal `drivers/block/ata_journal.c` | transaction in memory; two headers and undo sectors on the medium | begin, write, end, attach (recovery) | VFS mutations, raw writes, drive cache |
| Fences `kernel/init/filesystem_safety.c`, `storage_safety.c`, `storage_service.c` | read-only flags, quarantined media | fence, restore, reintegration poll | journal results, supervisor |
| IPC `kernel/ipc/ipc.c` | endpoints with generations, capability records, bounded queues, senders and receivers asleep | create, delegate, release, close, quarantine, send, receive, kernel and network ingress, cleanup | wait queues, process table, supervisor (service connections) |
| Scheduling policy `kernel/sched/scheduling_policy.c` | budgets, windows, inherited classes | charge, inherit, select | called under the table lock |
| Supervisor `kernel/init/supervisor.c` | state, epoch, deadline and restart count per domain; driver records; poll position | register, report, tick, poll, fence, restart, safe state, affinity after boot | worker thread, boot thread, timer interrupt, system calls, process table |
| Device domains `kernel/init/device_domain.c` | owner and state of each device, busy flag | claim, bind, activate, deactivate, fence, recover, cleanup, poll | driver system calls, supervisor, process exit |
| Maintenance, object guards | leases and pins on media | reserve, enter, release | VFS, storage service |
| Handover, output fence | lease, epoch, replica | renew, take over, fence | serial link |
| File systems, drivers, memory, network, GUI, user space | - | - | not modelled (section 8) |

What is hard here: code that runs after a lock has been dropped (the handoff on
the next stack, copies to user memory, the cleanup of a killed process); task
slots, handles and mutex owners that are reused under a new generation; wakeups
that race with kills and timeouts; and power cuts between writes that the drive
may reorder. The hazards in `PROJECT.json` name the lines.

What makes each component correct:

* **Scheduler** - a task is on one CPU at most and its stack is neither resumed
  nor freed while a CPU is on it; only complete tasks run; a task is blocked
  exactly when it is linked; a doomed task never runs user code again; timed
  waits end.
* **Mutex** - the holder, if any, is alive and known to whoever has to take the
  mutex away; its list of mutexes does not outgrow its array; an owner that
  nobody could find keeps its CPU; a free mutex with waiters has a wakeup under
  way; a bounded lock call returns.
* **Request pool** - a buffer is not reused under a copier; a reply comes from
  the request its handle names; an effect on a medium whose outcome was lost
  fences that medium; a dead service's claims do not stay claimed.
* **IPC** - a capability exists for the current incarnation of an endpoint only,
  and the peer count that decides EPIPE is the number of peers; nobody sleeps on
  an endpoint that cannot serve it; a message or a free place that somebody is
  waiting for has a wakeup under way; every call returns.
* **Supervisor** - every running driver process and every device that is set up
  is on record; a restarted driver gets output authority by its own self-test
  only; a report that was held up brings no earlier generation back; a failed
  driver is replaced or parked in the safe state, whatever its neighbours do.
* **Journal** - a transaction is atomic and, once reported, durable; whatever
  happens the volume can be recovered; the file system never builds on content
  that a recovery would take back.

## 2. Modules

| Module | Models | Actions are |
|---|---|---|
| `Scheduler` | task table, dispatch, handoff, waits, life and death of tasks | critical sections of `task_table_lock`, and the unlocked pieces between them |
| `SchedulerProofs` | theorems about `Scheduler` | |
| `MCScheduler`, `MCAffinity` | instances; the second adds the supervisor's affinity fence as a monitor | |
| `KernelMutex` | mutex, held lists, preemption pins, revocation | critical sections of a mutex's `state_lock` with the pins around them |
| `KernelMutexProofs` | theorems about `KernelMutex` | |
| `MutexWakeupProofs` | the wakeup theorem, on top of `KernelMutexProofs` | |
| `MCKernelMutex` | instance | |
| `Ipc` | endpoints, capability records, queues, blocked calls, life of the processes | critical sections of `ipc_lock`, with the sleeps and wakeups they contain |
| `IpcProofs` | theorems about `Ipc`: authority | |
| `IpcWakeupProofs` | the wakeup theorems, on top of `IpcProofs` | |
| `MCIpc` | instances | |
| `Supervisor` | driver domains, driver records, devices, driver processes, the worker, the boot thread | critical sections of the supervisor lock, the steps of a fence, of a start and of its abort between which the worker can be preempted, the steps of a driver's system call and of the boot thread |
| `SupervisorProofs` | theorems about `Supervisor` | |
| `MCSupervisor` | instances | |
| `StorageRequestPool` | the pool, its callers' lives, copies outside the lock | critical sections of `storage_state_lock` |
| `StorageProofs` | theorems about `StorageRequestPool` | |
| `MCStorageRequestPool` | instances | |
| `AtomicVolume` | what the journal promises: transactions that happen at once, success only for what is durable, power cuts that leave a transaction whole or out | abstract specification |
| `AtaJournal` | journal, fences, online recovery, drive with a write-back cache | in-memory steps, one write or one flush of a batch, drive and power steps |
| `JournalProofs` | theorems about `AtaJournal`, the refinement included | |
| `MCAtaJournal` | instance | |

`AtaJournal` implements `AtomicVolume` with the content a mount would find
(`Durable`: the sectors on the medium with the undo data of the selected header
applied) as the abstract volume. An acknowledged transaction must be in `Durable`
at that step, nothing changes while power is off (`status` "down"), and one that
failed may still take effect, as a whole, until an attach has settled it.

### How the models read the code

**Scheduler.** All creation, prepared starts and supervisor kills happen on the
BSP, as in the code; so do the affinity changes of the supervisor and of the boot
thread, while a service that reports to be ready changes its own on whatever CPU
it runs. A user task is created for the BSP: of the entry points only
`process_spawn_supervised_affined` could ask for another mask, and nothing calls
it. Any runnable task may be selected: the policy is left open. A wait queue is
the set of tasks linked into it with their order in `ahead`. The code compares
absolute deadlines with the clock; the model keeps what is left until each
deadline, which is 0 once it has passed. The two expiry passes of a tick are one
action, and orphaning is part of the commit of an exit or a kill. A process's
exit queue is named by its task slot. Generations of tasks, the
`preemption_pending` hint and statistics are left out; the branch for a blocked
task whose CPU has no kernel context to fall back to is dead, as a CPU saves it
when it leaves its idle loop (part of the inductive invariant of
`SchedulerProofs`).

**Mutex.** One action is a section of the state lock with the guard taken or
dropped around it. A kernel context, which has no task, is named by its CPU. A
call that is refused changes nothing and is no action, except that a refused
registration passes the wakeup on. A task that exits by itself holds no mutex
(an assumption on the callers of `task_exit`). The scheduler is reduced to
running, ready, waiting and doomed tasks.

**Request pool.** A client or service is one process generation with one call at
a time. It can be killed wherever the code lets a READY task be killed, so also
inside a copy, which is a begin and an end step. `tainted` is a history
variable: effects on a medium that nobody has accounted for. A bulk read whose
buffer is found in an unexpected state or with a wrong checksum fails but
releases its slot like any other. The checksummed storage of records
(`critical_object.c`), data contents and statistics are left out.

**IPC.** A handle is a slot and a generation; a slot whose generation runs out
is retired. A message is its sender, all that decides who may take it; small
messages have a queue, a bulk message has the endpoint's one place for it. A
call that goes to sleep is kept with its handle and its deadline and looks its
capability up again each time it wakes. The checked encoding of the metadata is
one action: an endpoint may be found damaged at any time and is quarantined.
Reused slots get new wait queues, as `ipc_create` does it. A process lives
through the stages `running`, `terminating` (it no longer runs, its cleanup is
to come), `cleaned` and `exited` that `task_exit_status` and
`scheduler_terminate_task` go through; the delegation of a capability may find
its target at any of them. `misled` remembers the one known way to lose a wakeup
(section 4). Priority inheritance and damaged capability records are left out.

**Supervisor.** One domain per driver, one device per domain. The worker is a
program with the steps of `supervisor_worker`, `supervisor_apply_fence`,
`driver_fence_until` and `driver_spawn_next`; the boot sequence that starts the
drivers is its first part. Starts that fail are aborted in the steps of a fence
(`driver_abort_prepared_spawn`: fence, terminate, recover, clear the record),
whatever each of them achieves. Reports and device operations of a driver are
calls of several steps and can be interrupted, and their process killed, between
any two. Nobody holds a lock between reading a driver record and writing it back
as a whole: a report, the worker and the boot thread each have a copy of their
own. The boot thread, once it has started the worker, sets the affinity of some
drivers (`Moved`) by `supervisor_set_device_driver_current_affinity`: it reads
the record, writes it back with the mask and moves the process
(`kernel/init/kernel.c:1013-1023`). Where that fails it panics; a panic ends the
system and is no state of the model. (It halts the boot processor, where the
supervisor runs; what other processors do after that is not looked at.) Of the
mask the record keeps whether there is one: a driver that becomes ready moves to
it, and is isolated when that fails. A deadline is the fact that it has passed:
it can pass at any time while it counts. `Outcomes` says whether a step that
rests on hardware, memory or time may fail, `Crashing` whose driver may crash.
Binding the resources of a device is one operation; so are, in a fence, moving
the process and, for a display, switching its mode off and quiescing its
mediated I/O (`supervisor.c:5157-5176`): each may fail, and then the fence fails
before the device is touched. Domains that may report idle, the probe, network,
audio and compositor services, the administrative stop and start of a driver
(`supervisor_device_driver_component_down` and `_up`, `supervisor.c:5479-5526`,
further writers of the record) and failures of the protected records are left
out; so is `supervisor_release`, which nothing calls for a driver.

**Journal.** The CRC of a sector stands for its content. Batches go through the
deferred transport that production uses; the drive writes cached sectors back in
any order (`Destage`), a flush empties the cache, and power loss drops it,
possibly tearing one sector. A failed batch leaves any part of it in the drive.
`environment` says whether a behaviour has raw writes under a maintenance lease
or I/O errors; with both the journal can lose its undo set (finding 3), so the
passing run has either, the violating one both. One volume with a mirror header
is modelled, starting from what the image builder writes or from a version 1
volume. At most `MaxTorn` = 1 sector is torn between two successful attaches
(none before the first attach of a version 1 volume, which has one header
only): two tears could hit both headers, because a repair rewrites the primary
first even where it is the only valid one. Fences raised by other drives, by
the supervisor or by a handover, the self test of the medium and the rebinding
of the journal to another volume are left out.

## 3. Runs

| Run | Instance | Shows |
|---|---|---|
| `scheduler` | 2 CPUs, 3 slots, 1 queue, waits of 1 tick | safety of dispatch, handoff, blocking, creation, kill and reaping under every interleaving |
| `scheduler_time` | 1 CPU, 3 slots, waits of up to 2 ticks | order of the sleep queue; timed waits end |
| `affinity_fence` | 2 CPUs, 3 slots | finding 1 |
| `mutex` | 2 tasks, 2 CPUs, 2 mutexes, held list of 1, recursion 2, 2 generations | ownership, pins, no stranded waiter; bounded lock calls return |
| `ipc` | 3 processes, 1 slot, 2 generations, queue of 1 | exact authority, no orphaned or forgotten sleeper, calls return |
| `ipc_exit_delegate` | the same | finding 4 |
| `storage_requests` | 2 clients, 2 successive services, 2 slots, 1 buffer, 1 medium, 3 generations | buffers, snapshots and claims; lost effects are fenced |
| `storage_copier` | 2 clients, 1 service, 1 medium | finding 2 |
| `ata_journal` | 3 sectors, 2 contents, 2 undo slots, 4 sequence values | recoverability, atomicity, recovery completes |
| `journal_raw_write` | the same, raw writes and I/O errors together | finding 3 |
| `supervisor` | 2 domains: a driver that makes every call, may crash, is restarted once and moved by the boot thread; a neighbour that cannot be started | records, copies of them, self-test before output, failures are dealt with |
| `supervisor_crash` | 1 domain, one restart, hardware that never fails | finding 5 |

Why the bounds are enough for the cases of interest. Three task slots allow a
victim, its terminator and a third task that takes a freed slot, waits or is
preempted; two CPUs are what the unlocked handoff needs to go wrong. A held list
of one entry and a recursion limit of two make both limits reachable; two
generations let a slot be reused after a kill. That instance is small because it
also checks liveness; its six invariants are proved for every instance. Three
processes give an endpoint an owner, a peer and a successor of the peer, two
generations a reused and then a retired slot; with a queue of one message both
ends can block in a send. One process of the three may exit or be killed
(`MaxExits`), and two of the four processes around the request pool
(`MaxKills`). Two driver domains are what the rotation of the poll needs, a
failing driver and a neighbour that cannot be started and is fenced and parked
meanwhile; the boot thread deals with one driver after the other, so one that it
moves (`Moved`) is enough to race with the worker and the reports; the busy flag
is contended between a driver's call and the worker. One restart reaches a
second generation and the end of the budget. In `storage_requests` the writes
carry input; a write without input is in `storage_copier` only. One bulk buffer
for two clients forces reuse, and three generations let a slot retire. Two undo
slots make partial batches and a full journal possible, three sectors a
transaction on other sectors than the last one, and four sequence values a wrap.
Symmetry is used only in runs that check safety.

Deadlock is checked in every run but those of IPC, where a bounded number of
generations and exits leaves processes with nothing to call.

### Fairness

* `scheduler_time`: strong fairness of the tick (IRQ0 is latched while
  interrupts are off) and weak fairness of finishing a handoff, which is
  straight-line code with interrupts off.
* `mutex`: sections with preemption disabled are finite
  (`[]<>(pins = 0)`), a CPU that can be preempted again and again is, a ready
  task is dispatched again and again, a task that runs gets its next lock step
  done, and the clock advances. The holder is *not* assumed to unlock.
* `ipc`: a call that was woken runs on, and the timer keeps scanning the sleepers.
  Neither end is assumed to send, to receive or to close.
* `supervisor`: the worker and every process inside the kernel get on. A driver
  owes nothing, and the boot thread may stop anywhere. A driver that was sent to
  the worker's own CPU is not found running elsewhere for ever, so a fence that
  is tried again and again stops it (strong fairness of the two steps that ask
  for that).
* `ata_journal`: the journal goes on with what it has begun. Recovery completes
  if power cuts cease and no I/O error occurs.

## 4. Findings

1. `affinity_fence`: `driver_fence_until` (`kernel/init/supervisor.c:5153`) says
   that after one tick the driver no longer runs on another CPU. Changing the
   mask only stores it, and a CPU that finds nothing else to run keeps the
   running task without looking at its mask.
2. `storage_copier`: a process killed in the middle of a copy leaves its bulk
   buffer REVOKED, or its slot DELIVERY_CANCELLED, for a copier that never comes
   back; nothing else frees them.
3. `journal_raw_write`: the undo set of a failed transaction, which
   `docs/architecture/REIST_ARCHITECTURE.md:2625` says is kept for the boot
   recovery, can be overwritten by a later transaction: after an online recovery
   that trusts CLEAN headers which are only in the drive's cache, or by a raw
   write that asks for the storage fence where only the file system was fenced.

4. `ipc_exit_delegate`: a capability can be delegated to a process that has run
   its only IPC cleanup and still counts as running
   (`kernel/proc/process.c:1610`). It is never removed: the endpoint counts a
   dead peer, its owner gets no EPIPE and can connect nobody else.
5. `supervisor_crash`: the fence of a crashed driver asks the dead process to
   move to the boot processor, is refused, and the domain goes to the safe state
   with its restarts unused (`kernel/init/supervisor.c:5157`).

Seen while modelling, without a run of their own:

* `include/kernel/ipc.h:99-101` says that a message of the kernel is receivable
  by the owner only; `receivable_offset` compares the sender with the caller, so
  the peer can take it as well. Messages that an old peer left in the queue are
  likewise delivered to the next one. A message injected in a peer's name can
  wake that very peer, which never takes it, and the wakeup is lost to the
  others (`misled` in `Ipc`; `NoLostWakeup` excludes exactly this).
* After a restart the domain stays RECOVERING until the driver has passed its
  self-test. The next pass of the worker therefore gets RESTART_REQUIRED again,
  `driver_spawn_next` refuses because there is a process, and
  `driver_service_event` isolates the driver: it has one pass of 10 ms instead
  of the `startup_timeout_ms` of `include/kernel/supervisor.h:123`. The handlers
  of the audio service and the compositor do the same.
* `operation_busy` of the device domains can only be tried. The fence that
  `scheduler.c:1652` counts on before any other cleanup is skipped in silence
  while an operation is under way, and a driver killed inside one leaves the
  flag set, so every later operation, fence and recovery is refused.
* In its first generation a driver gets output authority by PROGRESS without a
  self-test, against the end of the startup section of
  `docs/architecture/USERSPACE_DRIVER_MODEL.md` (:330-332).
* `device_domain_poll` fences a device whose interrupt was not answered; the
  supervisor is not told, against `USERSPACE_DRIVER_MODEL.md:300-301`.
* The boot thread writes back a whole driver record that it read without a lock
  (`supervisor.c:5271-5275`). If the worker has restarted the driver in between,
  the record names the dead process again and the running one is off the record,
  until the boot thread finds the process gone and panics (`Overwritten` in
  `Supervisor`; the properties except exactly this window). If the driver has
  reported its channel or lost its authority in between, that is undone. The
  other way round, a report or the worker that read the record before writes it
  back without the mask, so a later generation is not moved, while
  `docs/development/OS_GAP_ANALYSIS_AND_ROADMAP.md:1054-1056` counts the affinity
  after a restart as done.
* A `fence_slot` that failed still leaves the device FENCED, so the next
  `device_domain_fence` reports success.

## 5. Proofs

Every safety theorem has the same shape: an inductive invariant `IInv`, checked
with TLC before it was proved, one lemma per action that it is kept, and the
properties as consequences. The theorems hold for every value of the constants
that the named assumption of the module admits.

### Kernel mutex

`KernelMutexProofs` proves, for every set of tasks, CPUs and (finitely many)
mutexes, every capacity, recursion limit and generation bound:

| Theorem | States |
|---|---|
| `MutexInvariant` | `Spec => []IInv` |
| `MutexTypes` | type correctness, with the recursion limit and the capacity of the held list |
| `OwnershipRecorded` | the held list and the mutex under revocation are exactly what a kill has to take away |
| `OwnersLive` | no mutex is owned by a dead task or an earlier generation |
| `UnrecordedOwnersRun` | an owner without a record is on its CPU with preemption disabled |
| `PinsPaired` | the preemption count of a CPU is exactly what its code has still to give back |

and `MutexWakeupProofs`, on top of it, `WakeupsReachSomeone`: a free mutex with
waiters has a woken task on its way (`NoStrandedWaiter`).

The only assumption is `MutexAssumption` (the constants are distinct, limits are
positive, tasks and mutexes are finitely many). The inductive invariant is

    IInv == TypeOK /\ Placement /\ Revocation /\ RevocableExactly
              /\ OwnerAlive /\ UnrecordedPlaced /\ PinsBalanced

None of the properties is inductive alone. `UnrecordedOwnerRuns` needs
`UnrecordedPlaced` (the owner is the caller on *some* CPU) together with
`PinsBalanced`: a CPU that runs such an owner has a pin, and a pinned CPU is not
preempted, which is what keeps it there. `PinsBalanced` counts guards as pairs
of a mutex and a level of its recursion, so locking and unlocking add and remove
one element of a finite set. `RevocableExactly` needs `Revocation` (a mutex
being revoked belongs to a doomed task and has left its list) and `Placement`
(a task runs on one CPU, so only one caller speaks for it). The proof has one
lemma per action and conjunct, and one theorem that combines them.

`NoStrandedWaiter` needs `QueueOrder`: exactly the waiting tasks are linked, and
the tasks before a waiter wait for the same mutex and have fewer tasks before
them. Then a wakeup that finds waiters finds one with nobody before it, because
the strict subset ordering of finite sets is well-founded, and a task that gives
up its claim on a free mutex leaves a woken one behind whenever it leaves a
waiter. A woken task that is killed before it runs takes the wakeup with it
(`swallowed`); then the next release or the deadline helps out.

### IPC

`IpcProofs` proves, for every set of processes, number of slots, queue depth and
generation limit, `IpcInvariant` (`Spec => []IInv`) and from it

| Theorem | States |
|---|---|
| `IpcTypes` | type correctness; no queue outgrows its array |
| `AuthorityExact` | `CapabilityExact`: records, local tables and peer counts agree |
| `NobodyOrphaned` | `NoOrphanedWaiter` |

    IInv == TypeOK /\ CapabilityExact /\ RecordsDistinct /\ QueueExact

`CapabilityExact` needs `RecordsDistinct` (one record per holder and handle):
release removes the record of a handle and the handle from the local table, and
a second record would keep the first conjunct true and break the second.
`QueueExact` says that a process is linked at most once, on the slot of the
handle its call sleeps with, and that this handle still resolves: without the
"at most once" a wakeup could leave a link behind, and without the slot the
revocation of an endpoint would not reach all of its sleepers.

`IpcWakeupProofs` adds `WakeupInvariant` (`Spec => [](IInv /\ WInv)`),
`SendersWaitForRoom` (a sender is asleep only while there is no room for what it
sends) and `IpcWakeupsKept` (`NoLostWakeup`). `send`, `receive` and the ingress
wake one sleeper, so the question is whether it is the right one:

    WInv == CallHeld /\ NoRoom /\ Cared

`Cared` says that what a sleeping receiver could take has a woken receiver, or a
holder whose teardown is to come, on its way. It is kept because an endpoint has
two holders at most (`AuthorityExact`): the counterpart of a sleeper is unique,
so a wakeup that does not reach the one reaches the other. `CallHeld` is what
makes the woken call find its capability when it looks it up again.

### Scheduler

`SchedulerProofs`, for every set of CPUs, wait queues and affinity masks, any
finite task table, reserve and longest wait (`TopologyAssumption`):

| Theorem | States |
|---|---|
| `SchedulerInvariant` | `Spec => []IInv` |
| `SchedulerTypes` | type correctness |
| `NoSharedStack` | `SingleOwner`: a task that is being left is not resumed elsewhere |
| `StackUnderfoot` | `StackInUse`: no stack is freed under a processor |
| `NothingHalfBuilt` | `DispatchedComplete` |
| `NoLostSleeper` | `BlockedIffLinked` |
| `NoLostExit` | `ExitWaitersLive` |
| `KillsAreFinished` | `TerminationOwned` |
| `OneReaper` | `ReaperExclusive` |
| `SleepersWakeInTime` | `NoOversleep` |
| `DoomedForGood` | the action property `DoomedStaysDoomed` |
| `ReserveHolds` | the action property `ReserveKept` |

    IInv == TypeOK /\ OwnerInv /\ StackInv /\ PinInv /\ JobInv /\ ProcInv /\ WaitInv
              /\ ExitWaitersLive /\ PublishInv /\ KernelContextSaved /\ RoomInv

`OwnerInv` says that `runningCpu` names exactly the current task and the task in
handoff of every CPU, and which statuses a task being left may have:
`SingleOwner` follows at once, and `finish_task_handoff` can be shown to release
only its own task. `StackInv` needs the process as well (`ProcInv`): a stack is
kept until the task is dead, off its CPU and without a process. `PinInv` counts
the preemption pins by what a CPU and its task are doing; a pinned terminator is
not preempted, so its victim stays its own (`JobInv`, one killer per victim).
`WaitInv` carries the order of the sleep queue that the expiry pass relies on.
`PublishInv` is why a half-built task cannot be dispatched, waited for or killed
although it is READY: it is bound to the BSP, which is busy creating it, and only
the task now on the BSP is its parent. `RoomInv` bridges the two lock sections of
an admission.

### Storage request pool

`StorageProofs`, for every number of slots, buffers, generations, clients,
services and media (`PoolAssumption`):

| Theorem | States |
|---|---|
| `StorageInvariant` | `Spec => []IInv` |
| `StorageTypes` | type correctness |
| `EffectsNeverForgotten` | `EffectsAccounted` |
| `BufferNeverReused` | `BufferHeldByCopier` |
| `SnapshotSafe` | `CollectSnapshotValid` |
| `NoBufferLost` | `BuffersOwned` |
| `ClaimsAlwaysServed` | `ClaimsServed` |
| `HandlesNeverReissued` | a handle that has named a request never names another: generations do not fall, and a vacated slot is issued under a higher one or not at all |

    IInv == TypeOK /\ BufferInv /\ RequestInv

`BufferInv` adds to the three buffer properties that a buffer belongs to this or
an earlier generation of one slot and no two to the same request
(`BuffersSound`), that a process is in one copy and a buffer under one copier
(`CopiersSound`), and that the snapshot `bulk_collect` works from is that of a
read which nobody is filling (`SnapshotIsRead`, `CollectorReads`): without these
a release by handle could free the buffer of another request. `RequestInv` adds
`RequestsSound`, which ties the state of a request to its mutation record: a
record of unknown outcome has its medium fenced as long as it exists, which is
what lets `EffectsAccounted` survive the death of either side.

### Supervisor

`SupervisorProofs`, for any number of domains, restart budgets and driver
behaviours (`SupervisorAssumption`):

| Theorem | States |
|---|---|
| `SupervisorInvariant` | `Spec => []IInv` |
| `SupervisorTypes` | type correctness |
| `DriversOnRecord` | `DriverOnRecord` |
| `TestedBeforeAuthority` | `RestartedIsTested` |
| `ReportsOverwriteNothing` | `ReportCopyCurrent`: a report that was preempted after it read the driver record writes back the process and the session that are on record still |
| `GenerationsNeverOverlap` | a domain moves to its next session by one, and only with no process alive and no device owned |

    IInv        == TypeOK /\ \A d \in Domains : DomainInv(d)
                     /\ Serves(worker.slot) /\ BootingInv /\ BootInv
    DomainInv(d) == ProcessInv(d) /\ DeviceInv(d) /\ RecordInv(d) /\ CallInv(d) /\ TestInv(d)
    Serves(d)    == ... /\ StartInv(d) /\ CopyInv(d) /\ FenceInv(d)

The record, the supervisor's state, the device and the process table are changed
in separate critical sections, and three threads write the record from copies.
The argument is that of the newest process: only the last process of a domain
can be alive (`ProcessInv`) or own a device that is set up (`DeviceInv`), and a
record names that process, or nobody in a domain where nobody runs (`Vacant`), or
a dead one that the boot thread has brought back (`Stale`, `RecordInv`). The same
is said of every copy that is still to be written: of the worker's in `CopyInv`,
of a report's in `CallInv`, of the boot thread's in `BootInv`. `StartInv` and
`FenceInv` say at each position of the worker which of the four are already up to
date; while the worker aborts a start or clears a record the domain is vacant, so
a copy it writes then loses nobody. That a report's copy is not stale rests on a
kill taking the call with it (`CallInv`). `BootingInv` separates the boot sequence
from the moves after it.

The record is *not* always current: between a stale write-back of the boot
thread and its panic it may name a dead process, and then `DriverOnRecord`,
`ReportCopyCurrent` and `FailuresHandled` promise nothing for that domain
(`Overwritten`). `RestartedIsTested` holds even then.

### Journal

`JournalProofs`, for any finite set of sectors, any contents, number of undo
slots and sequence values:

| Theorem | States |
|---|---|
| `JournalInvariant` | `Spec /\ Separate => []IInv` |
| `JournalTypes` | type correctness |
| `VolumeRecoverable` | `AlwaysRecoverable` |
| `FileSystemServesDurable` | `ServesDurable` |
| `TransactionsAtomic` | `Spec /\ Separate => AtomicTransactions`, the refinement of `AtomicVolume` |

The hypothesis `Separate` says that raw writes of a maintenance lease and I/O
errors do not occur in the same behaviour. It is needed: with both the
properties are violated (finding 3). `JournalAssumption` says that headers, undo
slots and targets are different sectors (`ata_undo_journal_write_sector` and the
validation of a header refuse targets inside the journal) and that at most one
sector is torn between two attaches; `TornAssumption` that a torn sector is
recognised, as its CRC is taken to do.

    IInv      == Separate /\ TypeOK /\ MediumInv /\ MemoryInv
    MediumInv == HeaderInv /\ VersionInv /\ SpareInv /\ SectorInv /\ HeaderWriteInv
    MemoryInv == EntryInv /\ IdleInv /\ CommitInv /\ RestoreInv /\ ClearInv

`MediumInv` is about what the drive holds, on the medium and in its cache, with no
reference to where the journal is in its work. All headers, cached ones included,
describe at most one transaction, the latest, and its undo sectors are on the
medium and not being written (`HeaderInv`); one header is good, and both are while
a tear is still possible (`SpareInv`); a target that is torn or being written is
one the next recovery restores (`SectorInv`); and while a header is being written
either every header would restore what is there already, or the sectors have
their new content (`HeaderWriteInv`). These survive `Destage` in any order,
`PowerLoss` with or without a tear, and `FlushCache`, one lemma each. `MemoryInv`
says what each phase knows of the medium, so that the next batch meets the
conditions under which `MediumInv` survives it.

The refinement rests on one lemma (`MediumStep`): any step that only moves cached
sectors to the medium, drops them or tears one leaves `Durable` as it was or makes
it what it is with the whole transaction applied. Destaging and power cuts are
then `TakeEffect` and `Cut` or nothing; the final flush is `Acknowledge`, where
`CommitInv` says that the outcome is the transaction.

### Only model-checked

Liveness (`TimedWaitsEnd`, `LockCallsReturn`, `CallsReturn`, `FailuresHandled`,
`RecoveryCompletes`), which is out of the prover's reach, and the findings, which
are counterexamples. Every other property of the passing runs is proved.

## 6. Plan

1. `SchedulingPolicy`: windows, budgets and priority inheritance as functions,
   checked against their definition as a closure.
2. `Handover`: lease, epoch and fence with a lossy serial link: never two units
   with authority.
3. `Fat12Journal` as a second implementation of `AtomicVolume`.
4. Prove more: that progress made under a lock is never undone (action properties
   of the request pool and of IPC, as `HandlesNeverReissued` is one), and the
   safety of the modules above.

## 7. Properties and mutants

Every property of a passing run comes with a variant of one definition of the
model, kept beside it (`NoFlush`, `ReapableOnCpu`, ...), that imitates a
plausible slip in the code: a guard left out, an order swapped, a reset
forgotten. TLC finds the property violated under each variant, so none of them
holds by construction.

## 8. Not modelled

Scheduling policy, handover and the FAT12 journal are planned (section 6).
Maintenance leases and object guards appear only through who may write, and the
services of the supervisor other than the drivers not at all. Left out for good:
file system formats, memory management and drivers at register level (sequential
code over large data), the network stack, video and GUI, user space, the
separate x86_64 image, and third-party code. Memory corruption and its
countermeasures (`critical_object.c`, `resilient_page.c`) need a fault model of
their own.

The repository has some 215,000 lines of implementation, most of them of the
kinds just named: the compositor and the other user programs, file formats,
Unicode and certificate tables, device drivers. The models cover the few
thousand lines in which independent actors share state; the share of all lines
is small for that reason and will stay so.
