----------------------------- MODULE Supervisor -----------------------------
(***************************************************************************)
(* The supervised ring-3 drivers: the state machine of a fault domain,     *)
(* the driver record, the device a driver owns and the process that runs   *)
(* it (src/kernel/init/supervisor.c, src/kernel/init/device_domain.c).     *)
(*                                                                         *)
(* One kernel worker walks the domains every 10 ms: it looks for dead      *)
(* drivers, asks supervisor_poll for one event, fences a failed domain     *)
(* with interrupts and preemption on, and starts the next generation.      *)
(* Meanwhile the drivers make system calls, crash and exit, and the timer  *)
(* interrupt isolates a domain whose deadline has passed.  A system call   *)
(* runs with interrupts on: it may be preempted between any two of the     *)
(* steps below, and its process may be killed there.  The boot thread,     *)
(* once it has started the worker, moves drivers to other processors.  It  *)
(* panics when it cannot, which ends the system: not a state of the model. *)
(*                                                                         *)
(* Nobody holds a lock between reading a driver record and writing it      *)
(* back: a report, the worker and the boot thread each keep their copy.    *)
(*                                                                         *)
(* Data kept abstract: a deadline is the fact that it has passed; a        *)
(* process is its number within its domain; integrity failures of the      *)
(* protected records are left out.                                         *)
(***************************************************************************)
EXTENDS Naturals, Sequences

CONSTANTS
    NumDomains,     \* driver domains, one device each
    Budget,         \* restart_budget of every domain
    Ops, Reports,   \* device operations and reports the driver of a domain makes
    Crashing,       \* domains whose driver may crash or exit
    Moved,          \* domains whose driver the boot thread moves to other processors
    Outcomes        \* outcomes, per domain, of a step that hardware or time can fail

Domains == 1..NumDomains
OpTypes == {"bind", "activate", "deactivate"}
ReportTypes == {"startup", "channel", "self_test", "progress"}

ASSUME SupervisorAssumption ==
    /\ NumDomains \in Nat \ {0}
    /\ Budget \in [Domains -> Nat]
    /\ Ops \in [Domains -> SUBSET OpTypes]
    /\ Reports \in [Domains -> SUBSET ReportTypes]
    /\ Crashing \subseteq Domains /\ Moved \subseteq Domains
    /\ Outcomes \in [Domains -> (SUBSET BOOLEAN) \ {{}}]

VARIABLES
    sup,            \* supervisor_state_t of every domain
    ctl,            \* supervisor_driver_control_t of every domain
    dev,            \* device_slot_t of every domain's device
    procs,          \* the processes ever spawned for every domain
    call,           \* the system call the driver of every domain is in
    busy,           \* operation_busy of the device domains: who set it, if any
    worker,         \* the kernel's own thread: boot, then supervisor_worker
    boot,           \* the boot thread, once it has started the worker
    next_poll_slot,
    tested          \* history: the processes whose self-test was accepted

vars == <<sup, ctl, dev, procs, call, busy, worker, boot, next_poll_slot, tested>>

States == {"UNREGISTERED", "STARTING", "HEALTHY", "ISOLATED", "FENCING",
           "RECOVERING", "SAFE_STATE"}
Control == [pid : Nat, epoch : Nat, fenced : BOOLEAN, channel : BOOLEAN,
            mask : BOOLEAN]       \* mask: post_ready_cpu_affinity_mask is set
WorkerSteps == {"boot", "record", "spawn", "publish", "start", "isolate",
                "devices", "monitor", "poll", "fence", "affinity",
                "fence_device", "terminate", "recover", "clear", "verify",
                "decide", "event", "session"}

TypeOK ==
    /\ sup \in [Domains -> [state : States, epoch : Nat, restart_count : Nat,
                            overdue : BOOLEAN]]
    /\ ctl \in [Domains -> Control]
    /\ dev \in [Domains -> [state : {"AVAILABLE", "CLAIMED", "DMA_BOUND",
                                     "ACTIVE", "FENCED"}, owner : Nat]]
    /\ procs \in [Domains -> Seq({"prepared", "running", "exiting", "dead"})]
    /\ call \in [Domains -> [pc : {"user", "call", "write", "move", "fail",
                                   "granted", "busy"},
                             pid : Nat, type : ReportTypes \cup OpTypes \cup {"none"},
                             snap : Control]]
    /\ busy \in SUBSET (Domains \X Nat)
    /\ worker \in [pc : WorkerSteps, slot : Domains, epoch : Nat, pid : Nat,
                   ok : BOOLEAN, booting : BOOLEAN, aborting : BOOLEAN,
                   copy : Control]
    /\ boot \in [pc : {"idle", "write", "move"}, slot : Domains,
                 copy : Control, todo : SUBSET Domains]
    /\ next_poll_slot \in Domains
    /\ tested \in [Domains -> SUBSET Nat]

NoControl == [pid |-> 0, epoch |-> 0, fenced |-> TRUE, channel |-> FALSE,
              mask |-> FALSE]
InUser == [pc |-> "user", pid |-> 0, type |-> "none", snap |-> NoControl]

\* The state before the first driver is started.
Init ==
    /\ sup = [d \in Domains |-> [state |-> "UNREGISTERED", epoch |-> 0,
                                 restart_count |-> 0, overdue |-> FALSE]]
    /\ ctl = [d \in Domains |-> NoControl]
    /\ dev = [d \in Domains |-> [state |-> "AVAILABLE", owner |-> 0]]
    /\ procs = [d \in Domains |-> << >>]
    /\ call = [d \in Domains |-> InUser]
    /\ busy = {}
    /\ worker = [pc |-> "boot", slot |-> 1, epoch |-> 1, pid |-> 0,
                 ok |-> FALSE, booting |-> TRUE, aborting |-> FALSE, copy |-> NoControl]
    /\ boot = [pc |-> "idle", slot |-> 1, copy |-> NoControl, todo |-> {}]
    /\ next_poll_slot = 1
    /\ tested = [d \in Domains |-> {}]

-----------------------------------------------------------------------------
(* The state of a domain.                                                  *)

\* States in which deadline_ms counts.
Timed == {"STARTING", "HEALTHY", "RECOVERING"}

\* The deadline of an isolated domain is not looked at: the flag is kept down.
Isolated(s) == [s EXCEPT !.state = "ISOLATED", !.overdue = FALSE]

\* check_deadlines_locked for one domain.
CheckDeadline(s) ==
    IF s.state \in Timed /\ s.overdue THEN Isolated(s) ELSE s

\* supervisor_force_isolate.
Isolate(s, epoch) ==
    IF s.epoch = epoch /\ s.state # "SAFE_STATE"
    THEN Isolated(s) ELSE s

\* Time reaches deadline_ms of a domain ...
deadline_passes(d) ==
    /\ sup[d].state \in Timed /\ ~sup[d].overdue
    /\ sup' = [sup EXCEPT ![d].overdue = TRUE]
    /\ UNCHANGED <<ctl, dev, procs, call, busy, worker, boot, next_poll_slot, tested>>

\* ... and the timer interrupt sees it.
supervisor_clock_tick ==
    /\ \E d \in Domains : CheckDeadline(sup[d]) # sup[d]
    /\ sup' = [d \in Domains |-> CheckDeadline(sup[d])]
    /\ UNCHANGED <<ctl, dev, procs, call, busy, worker, boot, next_poll_slot, tested>>

-----------------------------------------------------------------------------
(* Processes and devices.                                                  *)

Alive(d, p) == p \in DOMAIN procs[d] /\ procs[d][p] # "dead"
Running(d, p) == p \in DOMAIN procs[d] /\ procs[d][p] = "running"

\* device_domain_process_cleanup, run by the exit and by the termination of a
\* process: a busy device domain refuses the fence and nobody looks at the result.
CleanedUp(d, p) ==
    IF busy = {} /\ dev[d].owner = p THEN [dev[d] EXCEPT !.state = "FENCED"]
    ELSE dev[d]

\* The process p is gone, with whatever system call it was in.
GoneAmidCall(d, p) ==
    procs' = [procs EXCEPT ![d][p] = "dead"] /\ call' = call
Gone(d, p) ==
    /\ procs' = [procs EXCEPT ![d][p] = "dead"]
    /\ call' = [call EXCEPT ![d] = IF @.pid = p THEN InUser ELSE @]

\* A driver crashes or exits: task_exit_status marks the process ...
driver_exits(d, p) ==
    /\ d \in Crashing /\ Running(d, p) /\ call[d].pc = "user"
    /\ procs' = [procs EXCEPT ![d][p] = "exiting"]
    /\ UNCHANGED <<sup, ctl, dev, call, busy, worker, boot, next_poll_slot, tested>>

\* ... and later releases what it owns.
driver_exited(d, p) ==
    /\ p \in DOMAIN procs[d] /\ procs[d][p] = "exiting"
    /\ dev' = [dev EXCEPT ![d] = CleanedUp(d, p)]
    /\ Gone(d, p)
    /\ UNCHANGED <<sup, ctl, busy, worker, boot, next_poll_slot, tested>>

-----------------------------------------------------------------------------
(* System calls of a driver: device operations.                            *)

\* supervisor_output_allowed for the session in the record c.
SessionHealthy(d, c) == sup[d].epoch = c.epoch /\ sup[d].state = "HEALTHY"

\* supervisor_device_driver_output_allowed.
OutputAllowed(d, p) == ctl[d].pid = p /\ ~ctl[d].fenced /\ SessionHealthy(d, ctl[d])

\* Activating and deactivating need output authority, checked before the operation.
device_control(d, p, op) ==
    /\ Running(d, p) /\ call[d].pc = "user"
    /\ op \in {"activate", "deactivate"} => OutputAllowed(d, p)
    /\ call' = [call EXCEPT ![d] = [pc |-> "granted", pid |-> p, type |-> op,
                                    snap |-> NoControl]]
    /\ UNCHANGED <<sup, ctl, dev, procs, busy, worker, boot, next_poll_slot, tested>>

\* begin_operation: a flag, not a lock one could wait for.
begin_operation(d) ==
    /\ call[d].pc = "granted" /\ Running(d, call[d].pid)
    /\ IF busy = {}
       THEN /\ busy' = {<<d, call[d].pid>>}
            /\ call' = [call EXCEPT ![d].pc = "busy"]
       ELSE call' = [call EXCEPT ![d] = InUser] /\ UNCHANGED busy
    /\ UNCHANGED <<sup, ctl, dev, procs, worker, boot, next_poll_slot, tested>>

\* device_domain_bind_dma (with the bindings before it), device_domain_activate
\* and device_domain_deactivate, up to end_operation.  Hardware that refuses is
\* fenced on the spot; a device of somebody else, or in another state, is left alone.
Operated(dv, op, ok) ==
    CASE op = "bind" /\ dv.state = "CLAIMED" /\ ok -> "DMA_BOUND"
      [] op = "activate" /\ dv.state = "DMA_BOUND" -> IF ok THEN "ACTIVE" ELSE "FENCED"
      [] op = "deactivate" /\ dv.state = "ACTIVE" -> IF ok THEN "DMA_BOUND" ELSE "FENCED"
      [] OTHER -> dv.state
end_operation(d) ==
    /\ call[d].pc = "busy" /\ Running(d, call[d].pid)
    /\ \E ok \in Outcomes[d] :
           dev' = [dev EXCEPT ![d].state = IF dev[d].owner = call[d].pid
                                           THEN Operated(dev[d], call[d].type, ok) ELSE @]
    /\ busy' = {}
    /\ call' = [call EXCEPT ![d] = InUser]
    /\ UNCHANGED <<sup, ctl, procs, worker, boot, next_poll_slot, tested>>

-----------------------------------------------------------------------------
(* System calls of a driver: supervisor_device_driver_report.              *)

\* The call finds the record of its caller and keeps a copy of it.
supervisor_device_driver_report(d, p, type) ==
    /\ Running(d, p) /\ call[d].pc = "user"
    /\ ctl[d].pid = p
    /\ call' = [call EXCEPT ![d] = [pc |-> "call", pid |-> p, type |-> type,
                                    snap |-> ctl[d]]]
    /\ UNCHANGED <<sup, ctl, dev, procs, busy, worker, boot, next_poll_slot, tested>>

Reporting(d, type) ==
    call[d].pc = "call" /\ call[d].type = type /\ Running(d, call[d].pid)
Resolves(d) == sup[d].epoch = call[d].snap.epoch

\* A report that fails goes on to isolate the session of its copy.
Failing(c) == [c EXCEPT !.pc = "fail", !.type = "none",
                        !.snap = [NoControl EXCEPT !.pid = c.pid,
                                                    !.epoch = c.snap.epoch]]

\* supervisor_report_startup_progress moves a deadline that has not passed.  A value
\* that is zero or not above the last one fails here and in every other report.
StartupAccepted(d) ==
    Resolves(d) /\ sup[d].state \in {"STARTING", "RECOVERING"} /\ ~sup[d].overdue
report_startup_progress(d) ==
    /\ Reporting(d, "startup")
    /\ \/ /\ StartupAccepted(d)
          /\ call' = [call EXCEPT ![d] = InUser]
       \/ call' = [call EXCEPT ![d] = Failing(@)]
    /\ UNCHANGED <<sup, ctl, dev, procs, busy, worker, boot, next_poll_slot, tested>>

\* The service channel is reported once.
report_channel(d) ==
    /\ Reporting(d, "channel")
    /\ call' = [call EXCEPT ![d] = IF @.snap.channel THEN Failing(@)
                                  ELSE [@ EXCEPT !.pc = "write", !.snap.channel = TRUE]]
    /\ UNCHANGED <<sup, ctl, dev, procs, busy, worker, boot, next_poll_slot, tested>>

\* supervisor_report_self_test: a passed self-test, after the channel and in time.
SelfTestAccepted(d) ==
    /\ call[d].snap.channel /\ Resolves(d) /\ ~sup[d].overdue
    /\ sup[d].state \in {"STARTING", "RECOVERING"}
report_self_test(d) ==
    /\ Reporting(d, "self_test")
    /\ IF SelfTestAccepted(d)
       THEN /\ sup' = [sup EXCEPT ![d].state = "STARTING"]
            /\ tested' = [tested EXCEPT ![d] = @ \cup {call[d].pid}]
            /\ call' = [call EXCEPT ![d] = InUser]
       ELSE call' = [call EXCEPT ![d] = Failing(@)] /\ UNCHANGED <<sup, tested>>
    /\ UNCHANGED <<ctl, dev, procs, busy, worker, boot, next_poll_slot>>

\* supervisor_report_progress: a heartbeat, late or not; the first one of a
\* generation also lifts the fence of the record, a step later.
AnyStage == {"STARTING", "HEALTHY", "RECOVERING"}
Reportable == {"STARTING", "HEALTHY"}
ProgressAccepted(d) == Resolves(d) /\ sup[d].state \in Reportable
report_progress(d) ==
    /\ Reporting(d, "progress")
    /\ IF ProgressAccepted(d)
       THEN /\ sup' = [sup EXCEPT ![d].state = "HEALTHY", ![d].overdue = FALSE]
            /\ call' = [call EXCEPT ![d] = IF @.snap.fenced
                            THEN [@ EXCEPT !.pc = "write", !.snap.fenced = FALSE]
                            ELSE InUser]
       ELSE call' = [call EXCEPT ![d] = Failing(@)] /\ UNCHANGED sup
    /\ UNCHANGED <<ctl, dev, procs, busy, worker, boot, next_poll_slot, tested>>

\* driver_control_write: the whole record, from the copy.
report_writes(d) ==
    /\ call[d].pc = "write" /\ Running(d, call[d].pid)
    /\ ctl' = [ctl EXCEPT ![d] = call[d].snap]
    /\ call' = [call EXCEPT ![d] = IF @.type = "progress" /\ @.snap.mask
                                  THEN [@ EXCEPT !.pc = "move"] ELSE InUser]
    /\ UNCHANGED <<sup, dev, procs, busy, worker, boot, next_poll_slot, tested>>

\* A driver that has become ready moves to the processors of the mask in its copy,
\* which fails when one of them is not online.
report_moves(d) ==
    /\ call[d].pc = "move" /\ Running(d, call[d].pid)
    /\ \E ok \in Outcomes[d] :
           call' = [call EXCEPT ![d] = IF ok THEN InUser ELSE Failing(@)]
    /\ UNCHANGED <<sup, ctl, dev, procs, busy, worker, boot, next_poll_slot, tested>>

\* A report that fails isolates the domain.
report_fails(d) ==
    /\ call[d].pc = "fail" /\ Running(d, call[d].pid)
    /\ sup' = [sup EXCEPT ![d] = Isolate(@, call[d].snap.epoch)]
    /\ call' = [call EXCEPT ![d] = InUser]
    /\ UNCHANGED <<ctl, dev, procs, busy, worker, boot, next_poll_slot, tested>>

-----------------------------------------------------------------------------
(* The kernel: starting a generation of a driver.                          *)

\* The locals of a pass do not outlive it.
NextPass == [pc |-> "devices", slot |-> 1, epoch |-> 1, pid |-> 0, ok |-> FALSE,
             booting |-> FALSE, aborting |-> FALSE, copy |-> NoControl]
Step(from, to) == worker.pc = from /\ worker' = [worker EXCEPT !.pc = to]

\* After a start: the next driver of the boot sequence, or the worker's next pass.
Started ==
    IF worker.booting /\ worker.slot < NumDomains
    THEN [NextPass EXCEPT !.pc = "boot", !.slot = worker.slot + 1, !.booting = TRUE]
    ELSE NextPass

\* supervisor_start_device_driver: supervisor_register and the first record.
supervisor_start_device_driver ==
    /\ Step("boot", "record")
    /\ sup' = [sup EXCEPT ![worker.slot] = [state |-> "STARTING", epoch |-> 1,
                                            restart_count |-> 0, overdue |-> FALSE]]
    /\ ctl' = [ctl EXCEPT ![worker.slot] = [NoControl EXCEPT !.epoch = 1]]
    /\ UNCHANGED <<dev, procs, call, busy, boot, next_poll_slot, tested>>

\* driver_spawn_next reads the record and refuses when it names a process already.
driver_spawn_next ==
    LET d == worker.slot IN
    /\ worker.pc = "record"
    /\ worker' = IF ctl[d].pid = 0 /\ ~ctl[d].channel
                 THEN [worker EXCEPT !.pc = "spawn", !.copy = ctl[d]]
                 ELSE [worker EXCEPT !.pc = "isolate"]
    /\ UNCHANGED <<sup, ctl, dev, procs, call, busy, boot, next_poll_slot, tested>>

\* The process is prepared and claims the device; what fails is aborted.
driver_prepares ==
    LET d == worker.slot
        p == Len(procs[d]) + 1 IN
    /\ worker.pc = "spawn"
    /\ \/ /\ FALSE \in Outcomes[d]             \* no process
          /\ worker' = [worker EXCEPT !.pc = "clear", !.aborting = TRUE]
          /\ UNCHANGED <<dev, procs>>
       \/ /\ TRUE \in Outcomes[d]       \* its processors or device_domain_claim refuse
          /\ busy # {} \/ dev[d].state # "AVAILABLE" \/ FALSE \in Outcomes[d]
          /\ procs' = [procs EXCEPT ![d] = Append(@, "prepared")]
          /\ worker' = [worker EXCEPT !.pc = "terminate", !.pid = p, !.aborting = TRUE]
          /\ UNCHANGED dev
       \/ /\ TRUE \in Outcomes[d]
          /\ busy = {} /\ dev[d].state = "AVAILABLE"
          /\ procs' = [procs EXCEPT ![d] = Append(@, "prepared")]
          /\ dev' = [dev EXCEPT ![d] = [state |-> "CLAIMED", owner |-> p]]
          /\ worker' = [worker EXCEPT !.pc = "publish", !.pid = p]
    /\ UNCHANGED <<sup, ctl, call, busy, boot, next_poll_slot, tested>>

\* The record is complete before the process may run.
driver_publishes ==
    LET c == [worker.copy EXCEPT !.pid = worker.pid, !.epoch = worker.epoch,
                                 !.fenced = TRUE] IN
    /\ worker.pc = "publish"
    /\ ctl' = [ctl EXCEPT ![worker.slot] = c]
    /\ worker' = [worker EXCEPT !.pc = "start", !.copy = c]
    /\ UNCHANGED <<sup, dev, procs, call, busy, boot, next_poll_slot, tested>>

\* process_start_prepared_supervised; a driver of the boot sequence that is under
\* way is one the boot thread may move later.  A failure is aborted: the device is
\* fenced, the process terminated, the device recovered and the record cleared, in
\* the steps of a fence below, whatever each of them achieves.
driver_starts ==
    LET d == worker.slot IN
    /\ worker.pc = "start"
    /\ \/ /\ procs' = [procs EXCEPT ![d][worker.pid] = "running"]
          /\ worker' = Started
          /\ boot' = [boot EXCEPT !.todo = IF worker.booting THEN @ \cup ({d} \cap Moved)
                                           ELSE @]
       \/ /\ FALSE \in Outcomes[d]
          /\ worker' = [worker EXCEPT !.pc = "fence_device", !.aborting = TRUE]
          /\ UNCHANGED <<procs, boot>>
    /\ UNCHANGED <<sup, ctl, dev, call, busy, next_poll_slot, tested>>

\* The caller of a driver_spawn_next that failed isolates the domain.
start_isolates ==
    /\ worker.pc = "isolate"
    /\ sup' = [sup EXCEPT ![worker.slot] = Isolate(@, worker.epoch)]
    /\ worker' = Started
    /\ UNCHANGED <<ctl, dev, procs, call, busy, boot, next_poll_slot, tested>>

\* device_domain_recover_owner for a device that p owns: fence, reset, free again.
Recovered(d, p, ok) ==
    IF busy # {} \/ dev[d].owner # p THEN dev[d]
    ELSE IF ok THEN [state |-> "AVAILABLE", owner |-> 0]
    ELSE [dev[d] EXCEPT !.state = "FENCED"]

-----------------------------------------------------------------------------
(* The kernel: the boot thread after supervisor_start_worker.              *)

\* supervisor_set_device_driver_current_affinity, for each driver that was started:
\* the record is read.  The boot thread panics if the driver is not ready.
supervisor_set_device_driver_current_affinity(d) ==
    /\ ~worker.booting /\ boot.pc = "idle"
    /\ d \in boot.todo /\ \A e \in boot.todo : d <= e
    /\ ctl[d].pid # 0 /\ ~ctl[d].fenced
    /\ boot' = [pc |-> "write", slot |-> d, copy |-> ctl[d], todo |-> boot.todo \ {d}]
    /\ UNCHANGED <<sup, ctl, dev, procs, call, busy, worker, next_poll_slot, tested>>

\* driver_control_write: the whole record, from the copy, with the mask.
boot_writes ==
    /\ boot.pc = "write"
    /\ ctl' = [ctl EXCEPT ![boot.slot] = [boot.copy EXCEPT !.mask = TRUE]]
    /\ boot' = [boot EXCEPT !.pc = "move", !.copy = [NoControl EXCEPT !.pid = boot.copy.pid]]
    /\ UNCHANGED <<sup, dev, procs, call, busy, worker, next_poll_slot, tested>>

\* process_set_supervised_affinity refuses a process that is exiting or dead, and
\* the boot thread panics.
Movable(d, p) == p \in DOMAIN procs[d] /\ procs[d][p] \in {"prepared", "running"}
boot_moves ==
    /\ boot.pc = "move" /\ Movable(boot.slot, boot.copy.pid)
    /\ boot' = [pc |-> "idle", slot |-> 1, copy |-> NoControl, todo |-> boot.todo]
    /\ UNCHANGED <<sup, ctl, dev, procs, call, busy, worker, next_poll_slot, tested>>

-----------------------------------------------------------------------------
(* The kernel: supervisor_worker.                                          *)

\* device_domain_poll: devices whose interrupt stays unanswered are fenced,
\* unless the device domain is busy; the supervisor is not told.
device_domain_poll ==
    /\ Step("devices", "monitor")
    /\ \E late \in SUBSET {d \in Domains : busy = {} /\ dev[d].state = "ACTIVE"} :
           dev' = [d \in Domains |-> IF d \in late
                                     THEN [dev[d] EXCEPT !.state = "FENCED"] ELSE dev[d]]
    /\ UNCHANGED <<sup, ctl, procs, call, busy, boot, next_poll_slot, tested>>

\* driver_monitor_processes.  The domains are looked at one after the other, but
\* no step touches two of them, so their order does not matter.
driver_monitor_processes ==
    /\ Step("monitor", "poll")
    /\ sup' = [d \in Domains |->
                  IF ctl[d].pid # 0 /\ ~Alive(d, ctl[d].pid)
                  THEN Isolate(sup[d], ctl[d].epoch) ELSE sup[d]]
    /\ UNCHANGED <<ctl, dev, procs, call, busy, boot, next_poll_slot, tested>>

\* The k-th domain supervisor_poll looks at, and those with an event for it.
Slot(k) == ((next_poll_slot - 1 + k) % NumDomains) + 1
Eventful(d) == CheckDeadline(sup[d]).state \in {"ISOLATED", "RECOVERING", "SAFE_STATE"}
Polled == {Slot(k) : k \in {k \in 0..(NumDomains - 1) :
                               /\ Eventful(Slot(k))
                               /\ \A j \in 0..(k - 1) : ~Eventful(Slot(j))}}
SameSlot(d) == d
Unwrapped(d) == d + 1
SlotAfter(d) == (d % NumDomains) + 1

\* supervisor_poll: every domain is checked for its deadline, one event is taken.
\* A domain in the safe state raises one each time, which is only logged.
supervisor_poll ==
    /\ worker.pc = "poll"
    /\ sup' = [d \in Domains |-> CheckDeadline(sup[d])]
    /\ \/ /\ Polled = {}
          /\ worker' = NextPass
          /\ UNCHANGED next_poll_slot
       \/ \E d \in Polled :
          /\ worker' = IF sup'[d].state = "SAFE_STATE" THEN NextPass
                       ELSE [worker EXCEPT !.slot = d, !.epoch = sup[d].epoch,
                                !.pc = IF sup'[d].state = "ISOLATED" THEN "fence"
                                       ELSE "event"]
          /\ next_poll_slot' = SlotAfter(d)
    /\ UNCHANGED <<ctl, dev, procs, call, busy, boot, tested>>

\* supervisor_apply_fence, first half.
supervisor_apply_fence ==
    LET d == worker.slot IN
    /\ worker.pc = "fence"
    /\ IF sup[d].epoch = worker.epoch /\ sup[d].state = "ISOLATED"
       THEN /\ sup' = [sup EXCEPT ![d].state = "FENCING"]
            /\ worker' = [worker EXCEPT !.pc = "affinity"]
       ELSE worker' = NextPass /\ UNCHANGED sup
    /\ UNCHANGED <<ctl, dev, procs, call, busy, boot, next_poll_slot, tested>>

FenceFailed == [worker EXCEPT !.pc = "decide", !.ok = FALSE, !.pid = 0, !.copy = NoControl]

\* driver_fence_until: nothing to do for a record without process; a process is
\* sent back to the boot processor, which an exiting or dead one refuses, and left
\* alone for a millisecond.  A display driver's mode is then switched off and its
\* mediated I/O quiesced, which may fail as well.
driver_fence_until(moved) ==
    LET d == worker.slot
        p == ctl[d].pid IN
    /\ worker.pc = "affinity"
    /\ \/ /\ moved /\ p = 0
          /\ worker' = [worker EXCEPT !.pc = "verify"]
       \/ /\ moved /\ p # 0 /\ Movable(d, p)
          /\ worker' = [worker EXCEPT !.pc = "fence_device", !.pid = p, !.copy = ctl[d]]
       \/ /\ ~moved /\ p # 0 /\ (Movable(d, p) => FALSE \in Outcomes[d])
          /\ worker' = FenceFailed
    /\ UNCHANGED <<sup, ctl, dev, procs, call, busy, boot, next_poll_slot, tested>>

\* device_domain_fence: a fenced device stays fenced; a busy device domain refuses.
device_domain_fence ==
    LET d == worker.slot
        reached == busy = {} /\ dev[d].owner = worker.pid IN
    /\ worker.pc = "fence_device"
    /\ dev' = [dev EXCEPT ![d].state = IF reached THEN "FENCED" ELSE @]
    /\ \E ok \in Outcomes[d] :
           worker' = [worker EXCEPT !.pc = "terminate",
                          !.ok = reached /\ (ok \/ dev[d].state = "FENCED")]
    /\ UNCHANGED <<sup, ctl, procs, call, busy, boot, next_poll_slot, tested>>

\* process_terminate: not needed for a dead process, refused for an exiting one and
\* for one that still runs on another processor.  An abort goes on in any case and
\* recovers the device if it was claimed.
StoppedOrNot(stopped) == TRUE
Stopped(stopped) == stopped
process_terminate(stopped) ==
    LET d == worker.slot
        p == worker.pid IN
    /\ worker.pc = "terminate"
    /\ \/ stopped /\ ~Alive(d, p) /\ UNCHANGED <<dev, procs, call>>
       \/ /\ stopped /\ Movable(d, p)
          /\ dev' = [dev EXCEPT ![d] = CleanedUp(d, p)]
          /\ Gone(d, p)
       \/ /\ ~stopped /\ Alive(d, p) /\ procs[d][p] # "prepared"
          /\ Running(d, p) => FALSE \in Outcomes[d]
          /\ UNCHANGED <<dev, procs, call>>
    /\ worker' = IF worker.aborting
                  THEN [worker EXCEPT !.pc = IF dev[d].owner = p THEN "recover" ELSE "clear"]
                  ELSE IF worker.ok /\ Stopped(stopped)
                  THEN [worker EXCEPT !.pc = "recover"]
                  ELSE FenceFailed
    /\ UNCHANGED <<sup, ctl, busy, boot, next_poll_slot, tested>>

\* device_domain_recover_owner.
device_domain_recover_owner ==
    LET d == worker.slot IN
    /\ worker.pc = "recover"
    /\ \E ok \in Outcomes[d] :
       /\ dev' = [dev EXCEPT ![d] = Recovered(d, worker.pid, ok)]
       /\ worker' = IF worker.aborting \/ (dev'[d].owner = 0 /\ dev[d].owner = worker.pid)
                    THEN [worker EXCEPT !.pc = "clear", !.pid = 0]
                    ELSE FenceFailed
    /\ UNCHANGED <<sup, ctl, procs, call, busy, boot, next_poll_slot, tested>>

\* The record of a fenced driver, or of a start that failed, names no process; the
\* rest of it is that of the copy.
driver_record_cleared ==
    /\ worker.pc = "clear"
    /\ worker' = [worker EXCEPT !.pc = IF worker.aborting THEN "isolate" ELSE "verify",
                                !.copy = NoControl]
    /\ ctl' = [ctl EXCEPT ![worker.slot] = [NoControl EXCEPT !.epoch = worker.copy.epoch,
                                                             !.mask = worker.copy.mask]]
    /\ UNCHANGED <<sup, dev, procs, call, busy, boot, next_poll_slot, tested>>

\* driver_fence_verify.
driver_fence_verify ==
    LET d == worker.slot IN
    /\ worker.pc = "verify"
    /\ worker' = [worker EXCEPT !.pc = "decide",
                      !.ok = /\ ctl[d].fenced /\ ctl[d].pid = 0 /\ busy = {}
                             /\ dev[d] = [state |-> "AVAILABLE", owner |-> 0]]
    /\ UNCHANGED <<sup, ctl, dev, procs, call, busy, boot, next_poll_slot, tested>>

\* supervisor_apply_fence, second half: the outcome is used only if nobody has
\* isolated the domain again meanwhile.
fence_decides ==
    LET d == worker.slot
        restarts == worker.ok /\ sup[d].restart_count < Budget[d] IN
    /\ worker.pc = "decide"
    /\ IF sup[d].epoch # worker.epoch \/ sup[d].state # "FENCING"
       THEN worker' = NextPass /\ UNCHANGED sup
       ELSE IF restarts
       THEN /\ sup' = [sup EXCEPT ![d] = [state |-> "RECOVERING", epoch |-> @.epoch + 1,
                                          restart_count |-> @.restart_count + 1,
                                          overdue |-> FALSE]]
            /\ worker' = [worker EXCEPT !.pc = "event", !.epoch = @ + 1]
       ELSE /\ sup' = [sup EXCEPT ![d].state = "SAFE_STATE"]
            /\ worker' = NextPass
    /\ UNCHANGED <<ctl, dev, procs, call, busy, boot, next_poll_slot, tested>>

\* driver_service_event for RESTART_REQUIRED: the record is read ...
driver_service_event ==
    /\ worker.pc = "event"
    /\ worker' = [worker EXCEPT !.pc = "session", !.copy = ctl[worker.slot]]
    /\ UNCHANGED <<sup, ctl, dev, procs, call, busy, boot, next_poll_slot, tested>>

\* ... and written back with the new session; driver_spawn_next is next.
driver_session_written ==
    /\ worker.pc = "session"
    /\ ctl' = [ctl EXCEPT ![worker.slot] = [worker.copy EXCEPT !.epoch = worker.epoch]]
    /\ worker' = [worker EXCEPT !.pc = "record", !.copy = NoControl]
    /\ UNCHANGED <<sup, dev, procs, call, busy, boot, next_poll_slot, tested>>

-----------------------------------------------------------------------------
Kernel ==
    \/ supervisor_start_device_driver \/ driver_spawn_next \/ driver_prepares
    \/ driver_publishes \/ driver_starts \/ start_isolates
    \/ device_domain_poll \/ driver_monitor_processes
    \/ supervisor_poll \/ supervisor_apply_fence
    \/ \E ok \in BOOLEAN : driver_fence_until(ok) \/ process_terminate(ok)
    \/ device_domain_fence \/ device_domain_recover_owner
    \/ driver_record_cleared \/ driver_fence_verify \/ fence_decides
    \/ driver_service_event \/ driver_session_written

Boot ==
    \/ \E d \in Domains : supervisor_set_device_driver_current_affinity(d)
    \/ boot_writes \/ boot_moves

\* What a process on its way through the kernel does next.
InKernel(d) ==
    \/ \E p \in DOMAIN procs[d] : driver_exited(d, p)
    \/ begin_operation(d) \/ end_operation(d)
    \/ report_startup_progress(d) \/ report_channel(d) \/ report_self_test(d)
    \/ report_progress(d) \/ report_writes(d) \/ report_moves(d) \/ report_fails(d)

Driver(d) ==
    \E p \in DOMAIN procs[d] :
        \/ driver_exits(d, p)
        \/ \E op \in Ops[d] : device_control(d, p, op)
        \/ \E type \in Reports[d] : supervisor_device_driver_report(d, p, type)

Next ==
    \/ Kernel \/ Boot \/ supervisor_clock_tick
    \/ \E d \in Domains : InKernel(d) \/ Driver(d) \/ deadline_passes(d)

Spec == Init /\ [][Next]_vars

\* The worker and every system call are scheduled; the drivers owe nothing, and
\* nothing is asked of the boot thread.  A driver that has been sent to the worker's
\* own processor is not refused to it for ever: while the worker runs there, the
\* driver does not.
FairSpec ==
    /\ Spec /\ WF_vars(Kernel) /\ \A d \in Domains : WF_vars(InKernel(d))
    /\ SF_vars(driver_fence_until(TRUE))
    /\ SF_vars(process_terminate(TRUE))

-----------------------------------------------------------------------------
(* Properties.                                                             *)

\* The boot thread has written back the record of a process that died after it had
\* read it, and is about to panic.
Overwritten(d) ==
    /\ boot.pc = "move" /\ boot.slot = d
    /\ boot.copy.pid # 0 /\ ctl[d].pid = boot.copy.pid /\ ~Alive(d, boot.copy.pid)

\* Nothing drives a device unseen: a running driver process is the one on record,
\* and a device that is set up for it belongs to that process - across restarts,
\* failed starts and fences that fail half way, until the boot thread's write-back
\* of an old record that makes it panic.
DriverOnRecord ==
    \A d \in Domains : Overwritten(d) \/
        /\ \A p \in DOMAIN procs[d] : procs[d][p] = "running" => ctl[d].pid = p
        /\ dev[d].state \in {"DMA_BOUND", "ACTIVE"} => dev[d].owner = ctl[d].pid

\* A running process of a restarted generation has output authority, and its device
\* is active, only after its own self-test was accepted.
RestartedIsTested ==
    \A d \in Domains : sup[d].epoch > 1 =>
        /\ \A p \in DOMAIN procs[d] : Running(d, p) /\ OutputAllowed(d, p) => p \in tested[d]
        /\ dev[d].state = "ACTIVE" => dev[d].owner \in tested[d]

\* supervisor_device_driver_report writes back a copy of the whole record.  However
\* long it was preempted, the copy is of the process and the session that are on
\* record now: it brings no earlier generation back.
ReportCopyCurrent ==
    \A d \in Domains : call[d].pc \in {"call", "write", "move", "fail"} =>
        \/ call[d].snap.pid = ctl[d].pid /\ call[d].snap.epoch = ctl[d].epoch
        \/ Overwritten(d)

\* A failed driver is dealt with: one that is isolated, or dead while on record,
\* is replaced after a fence or parked in the safe state, whatever other domains do,
\* unless the boot thread is about to panic.
Failed(d) ==
    sup[d].state = "ISOLATED" \/ (ctl[d].pid # 0 /\ ~Alive(d, ctl[d].pid))
DealtWith(d) ==
    sup[d].state = "SAFE_STATE" \/ (sup[d].state = "RECOVERING" /\ ctl[d].pid = 0)
FailuresHandled == \A d \in Domains : Failed(d) ~> (DealtWith(d) \/ Overwritten(d))

\* "Bei Exception, Hang [...]: alte Prozesse beenden, Geraet zurücksetzen, Driver
\* Host und Service aus Restartreserve neu erzeugen": a driver that died, its device
\* fenced by its exit, is not given up while restarts are left.
CrashRestarts ==
    \A d \in Domains :
        /\ ctl[d].pid # 0 /\ ~Alive(d, ctl[d].pid)
        /\ dev[d].state = "FENCED" /\ sup[d].restart_count < Budget[d]
        => sup[d].state # "SAFE_STATE"
=============================================================================
