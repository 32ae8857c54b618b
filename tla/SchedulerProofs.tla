--------------------------- MODULE SchedulerProofs ---------------------------
(***************************************************************************)
(* Safety of the scheduler, for any number of task slots, processors, wait *)
(* queues and affinities: no kernel stack under two processors or under    *)
(* the reaper, no half-built task dispatched, no wakeup or exit lost, no   *)
(* doomed task revived.                                                    *)
(***************************************************************************)
EXTENDS Scheduler, FiniteSetTheorems, TLAPS

------------------------------------------------------------------------------
(* The inductive invariant.                                                 *)

\* A processor owns the task it runs and the task it is leaving, and no other
\* task is owned.  A task that is being left has been preempted, or has blocked
\* or exited and may have been woken since.
CurrentOwned ==
    \A c \in CPUs : currentTask[c] # NoTask =>
        runningCpu[currentTask[c]] = c /\ status[currentTask[c]] = "RUNNING"
HandoffStatuses(action) ==
    CASE action = "READY" -> {"HANDOFF"}
      [] action = "READY_PUBLISHED" -> {"READY"}
      [] action = "RELEASE" -> {"WAITING", "SLEEPING", "READY", "FINISHED"}
      [] OTHER -> {}
HandoffOwned ==
    \A c \in CPUs :
        /\ handoffTask[c] = NoTask <=> handoffAction[c] = "NONE"
        /\ handoffTask[c] # NoTask =>
              /\ runningCpu[handoffTask[c]] = c
              /\ status[handoffTask[c]] \in HandoffStatuses(handoffAction[c])
OwnedOnCpu ==
    \A t \in Tasks :
        /\ runningCpu[t] # NoCPU =>
              currentTask[runningCpu[t]] = t \/ handoffTask[runningCpu[t]] = t
        /\ status[t] \in {"RUNNING", "HANDOFF"} => runningCpu[t] # NoCPU
OwnerInv == CurrentOwned /\ HandoffOwned /\ OwnedOnCpu

\* Every task that is not dead, is still under a processor or still has its process
\* has its stack; a stack is torn down by one processor, which is marked in the slot.
Dead == {"FINISHED", "REAPING"}
HoldsStack(t) == status[t] \notin Dead \/ runningCpu[t] # NoCPU \/ proc[t] # "none"
StackInv ==
    /\ \A t \in Tasks : HoldsStack(t) => stack[t]
    /\ \A c \in CPUs : op[c] = "reaping" =>
          /\ opTask[c] \in Tasks /\ reapBusy[opTask[c]]
          /\ stack[opTask[c]] /\ status[opTask[c]] = "REAPING"
          /\ \A d \in CPUs : op[d] = "reaping" /\ opTask[d] = opTask[c] => c = d

\* The pins of a processor are those of its own operation and those of the kill
\* its task is carrying out; a task that does not run holds none.
KillPins(k) ==
    IF k = NoTask THEN 0
    ELSE CASE job[k] = "kill_pending" -> 1 + OuterPin(k)
           [] job[k] = "kill_cleanup" -> OuterPin(k)
           [] OTHER -> 0
OpPins(c) == IF op[c] = "none" THEN 0 ELSE 1
PinInv ==
    /\ \A c \in CPUs : preemptCount[c] = KillPins(currentTask[c]) + OpPins(c)
    /\ \A t \in Tasks : status[t] # "RUNNING" => KillPins(t) = 0

\* Jobs are done by tasks that are alive, and every doomed task is the victim of
\* exactly one of them.
Active == {"READY", "RUNNING", "SLEEPING", "WAITING", "HANDOFF"}
JobInv ==
    /\ \A k \in Tasks :
          /\ job[k] # "none" => status[k] \in Active
          /\ job[k] \in {"kill_pending", "kill_cleanup"} <=> victim[k] # NoTask
          /\ job[k] = "kill_pending" => status[victim[k]] = "TERMINATION_PENDING"
          /\ job[k] = "kill_cleanup" => status[victim[k]] = "TERMINATING"
          /\ victim[k] # NoTask => proc[k] \in {"none", "running"}
          /\ \A j \in Tasks : victim[k] # NoTask /\ victim[j] = victim[k] => j = k
    /\ \A v \in Tasks : status[v] \in Terminating => \E k \in Tasks : victim[k] = v

\* The process of a task agrees with the task's state.
ProcInv ==
    \A t \in Tasks :
        /\ status[t] = "FINISHED" => proc[t] \in {"none", "exited"}
        /\ status[t] = "REAPING" => proc[t] = "none"
        /\ proc[t] = "exited" => status[t] = "FINISHED"
        /\ proc[t] = "terminating" <=> status[t] \in Terminating \/ job[t] = "exiting"

\* Only blocked tasks are linked, sleepers in the order of their deadlines.
SleepOrdered ==
    \A t \in Tasks :
        /\ status[t] = "SLEEPING" <=> node[t] = SleepQ
        /\ node[t] = SleepQ =>
              /\ remaining[t] \in Nat \ {0}
              /\ \A u \in ahead[t] : node[u] = SleepQ /\ remaining[u] <= remaining[t]
WaitInv == BlockedIffLinked /\ SleepOrdered

\* A task that is not complete is dead, or is being published by the BSP: only the
\* BSP may run it, and nobody but the task now on the BSP may kill it.
PublishInv ==
    /\ \A c \in CPUs : op[c] \notin {"none", "reaping"} => c = BSP
    /\ op[BSP] \in {"published", "published_supervised"} =>
          /\ opTask[BSP] \in Tasks
          /\ status[opTask[BSP]] = "READY" /\ runningCpu[opTask[BSP]] = NoCPU
          /\ affinity[opTask[BSP]] = {BSP} /\ proc[opTask[BSP]] = "running"
          /\ parent[opTask[BSP]] \in {NoTask, currentTask[BSP]}
    /\ \A t \in Tasks :
          status[t] \notin Dead /\ ~complete[t] =>
              op[BSP] \in {"published", "published_supervised"} /\ opTask[BSP] = t

\* A processor that runs a task has a kernel context to fall back to.
KernelContextSaved ==
    \A c \in CPUs : currentTask[c] # NoTask => contextSaved[c]

\* The slots counted by an admission are still there.
RoomInv == op[BSP] = "admitted" => Cardinality(Available(BSP)) > Reserve

IInv == /\ TypeOK /\ OwnerInv /\ StackInv /\ PinInv /\ JobInv /\ ProcInv /\ WaitInv
        /\ ExitWaitersLive /\ PublishInv /\ KernelContextSaved /\ RoomInv

------------------------------------------------------------------------------
(* Types.                                                                   *)

\* Where the running task of a processor comes from and what a pin says.
LEMMA Pinned ==
    ASSUME TypeOK, PinInv, NEW c \in CPUs
    PROVE  /\ op[c] # "none" => preemptCount[c] \in Nat \ {0}
           /\ Preemptible(c) => op[c] = "none" /\ KillPins(currentTask[c]) = 0
           /\ \A k \in Tasks : KillPins(k) \in Nat /\ OuterPin(k) \in {0, 1}
           /\ KillPins(NoTask) = 0 /\ OpPins(c) \in {0, 1}
<1>1. \A k \in Tasks : OuterPin(k) \in {0, 1} /\ KillPins(k) \in Nat
  BY TopologyAssumption DEF OuterPin, KillPins
<1>2. KillPins(NoTask) = 0 /\ OpPins(c) \in {0, 1}
  BY DEF KillPins, OpPins
<1>3. KillPins(currentTask[c]) \in Nat
  BY <1>1, <1>2 DEF TypeOK
<1>4. preemptCount[c] = KillPins(currentTask[c]) + OpPins(c)
  BY DEF PinInv
<1> QED
  BY <1>1, <1>2, <1>3, <1>4 DEF OpPins, Preemptible

\* What is left to wake.
LEMMA WakeTypes ==
    ASSUME TypeOK, NEW S, NEW left \in [Tasks -> Deadlines], Wake(S, left)
    PROVE  /\ node' \in [Tasks -> WaitQueues \cup {NoQueue}] /\ ahead' \in [Tasks -> SUBSET Tasks]
           /\ remaining' \in [Tasks -> Deadlines] /\ status' \in [Tasks -> Statuses]
<1>1. 0 \in Deadlines
  BY TopologyAssumption DEF Deadlines
<1>2. node' \in [Tasks -> WaitQueues \cup {NoQueue}] /\ ahead' \in [Tasks -> SUBSET Tasks]
  BY DEF Wake, Unlink, TypeOK
<1>3. remaining' \in [Tasks -> Deadlines]
  BY <1>1 DEF Wake, ClearDeadlines
<1>4. status' \in [Tasks -> Statuses]
  BY DEF Wake, WakeStatus, TypeOK, Statuses
<1> QED
  BY <1>2, <1>3, <1>4

\* The clock runs down deadlines.
LEMMA ElapseType ==
    ASSUME TypeOK
    PROVE  [t \in Tasks |-> Elapse(remaining[t])] \in [Tasks -> Deadlines]
<1>1. ASSUME NEW d \in Deadlines PROVE Elapse(d) \in Deadlines
  BY TopologyAssumption DEF Elapse, Deadlines
<1> QED
  BY <1>1 DEF TypeOK

\* A switch, for the types.
LEMMA SwitchTypes ==
    ASSUME TypeOK, NEW c \in CPUs, NEW prev \in Tasks,
           NEW action \in {"READY", "RELEASE"}, NEW st \in [Tasks -> Statuses],
           NEW next \in Tasks \cup {NoTask}, SwitchAway(c, prev, action, st, next)
    PROVE  /\ status' \in [Tasks -> Statuses]
           /\ runningCpu' \in [Tasks -> CPUs \cup {NoCPU}]
           /\ currentTask' \in [CPUs -> Tasks \cup {NoTask}]
           /\ handoffTask' \in [CPUs -> Tasks \cup {NoTask}]
           /\ handoffAction' \in [CPUs -> {"NONE", "READY", "READY_PUBLISHED", "RELEASE"}]
BY DEF SwitchAway, ClaimStatus, ClaimCpu, TypeOK, Statuses

\* Clock and wakeups.
LEMMA TypeWake ==
    ASSUME TypeOK, \/ Tick
                   \/ \E c \in CPUs, q \in Queues : WakeOne(c, q) \/ WakeAll(c, q)
    PROVE  TypeOK'
<1>1. UNCHANGED <<runningCpu, affinity, stack, complete, proc, parent, reapBusy, job, victim,
                  cpuVars>>
  BY DEF Tick, WakeOne, WakeAll
<1>2. ASSUME NEW S, NEW left \in [Tasks -> Deadlines], Wake(S, left) PROVE TypeOK'
  BY <1>1, <1>2, WakeTypes DEF TypeOK, cpuVars
<1>3. CASE Tick
  <2> DEFINE left == [t \in Tasks |-> Elapse(remaining[t])]
  <2>1. Wake(DueSleepers(left) \cup ExpiredWaiters(left), left)
    BY <1>3 DEF Tick
  <2>2. left \in [Tasks -> Deadlines]
    BY ElapseType
  <2> HIDE DEF left
  <2> QED
    BY <1>2, <2>1, <2>2
<1>4. ASSUME NEW c \in CPUs, NEW q \in Queues, WakeOne(c, q) \/ WakeAll(c, q)
      PROVE  TypeOK'
  <2>1. remaining \in [Tasks -> Deadlines]
    BY DEF TypeOK
  <2>2. Wake(PoppedByWake(q), remaining) \/ Wake(InQueue(q), remaining)
    BY <1>4 DEF WakeOne, WakeAll
  <2> QED
    BY <1>2, <2>1, <2>2
<1> QED
  BY <1>3, <1>4

\* Switches.
LEMMA TypeSwitch ==
    ASSUME TypeOK, NEW c \in CPUs, NEW next \in Tasks \cup {NoTask},
           \/ Preempt(c, next)
           \/ \E q \in WaitQueues, d \in Deadlines : BlockOn(c, q, d, next)
           \/ \E ms \in 1..MaxWait : SleepMs(c, ms, next)
           \/ CommitExit(c, next)
           \/ next # NoTask /\ DispatchIdle(c, next)
    PROVE  TypeOK'
<1>1. CASE Preempt(c, next)
  <2>1. currentTask[c] \in Tasks /\ SwitchAway(c, currentTask[c], "READY", status, next)
    BY <1>1 DEF Preempt, TypeOK
  <2>2. status \in [Tasks -> Statuses]
    BY DEF TypeOK
  <2> QED
    BY <1>1, <2>1, <2>2, SwitchTypes DEF Preempt, TypeOK, waitVars
<1>2. ASSUME NEW q \in WaitQueues, NEW d \in Deadlines, BlockOn(c, q, d, next)
      PROVE  TypeOK'
  <2> DEFINE t == currentTask[c]
             st == [status EXCEPT ![t] = "WAITING"]
  <2>1. t \in Tasks /\ SwitchAway(c, t, "RELEASE", st, next)
    BY <1>2 DEF BlockOn, LeaveBlocked, TypeOK
  <2>2. st \in [Tasks -> Statuses]
    BY DEF TypeOK, Statuses
  <2>3. /\ node' \in [Tasks -> WaitQueues \cup {NoQueue}] /\ ahead' \in [Tasks -> SUBSET Tasks]
        /\ remaining' \in [Tasks -> Deadlines]
    BY <1>2 DEF BlockOn, Push, InQueue, TypeOK
  <2> QED
    BY <1>2, <2>1, <2>2, <2>3, SwitchTypes DEF BlockOn, TypeOK
<1>3. ASSUME NEW ms \in 1..MaxWait, SleepMs(c, ms, next)
      PROVE  TypeOK'
  <2> DEFINE t == currentTask[c]
             st == [status EXCEPT ![t] = "SLEEPING"]
  <2>1. t \in Tasks /\ SwitchAway(c, t, "RELEASE", st, next)
    BY <1>3 DEF SleepMs, LeaveBlocked, TypeOK
  <2>2. st \in [Tasks -> Statuses]
    BY DEF TypeOK, Statuses
  <2>3. ms \in Deadlines /\ SleepQ \in WaitQueues
    BY TopologyAssumption DEF Deadlines, WaitQueues
  <2>4. node' \in [Tasks -> WaitQueues \cup {NoQueue}] /\ remaining' \in [Tasks -> Deadlines]
    BY <1>3, <2>3 DEF SleepMs, InsertOrdered, TypeOK
  <2>5. ahead' \in [Tasks -> SUBSET Tasks]
    BY <1>3, <2>1 DEF SleepMs, InsertOrdered, TypeOK, InQueue
  <2> QED
    BY <1>3, <2>1, <2>2, <2>4, <2>5, SwitchTypes DEF SleepMs, TypeOK
<1>4. CASE CommitExit(c, next)
  <2> DEFINE t == currentTask[c]
             st == [ReleaseStatus(WakeStatus(InQueue(t)), ReapedChildren(c, t)) EXCEPT ![t] = "FINISHED"]
  <2>1. t \in Tasks /\ SwitchAway(c, t, "RELEASE", st, next)
    BY <1>4 DEF CommitExit, LeaveBlocked, TypeOK
  <2>2. st \in [Tasks -> Statuses]
    BY DEF TypeOK, Statuses, ReleaseStatus, WakeStatus
  <2>3. 0 \in Deadlines
    BY TopologyAssumption DEF Deadlines
  <2>4. /\ node' \in [Tasks -> WaitQueues \cup {NoQueue}] /\ ahead' \in [Tasks -> SUBSET Tasks]
        /\ remaining' \in [Tasks -> Deadlines]
    BY <1>4, <2>3 DEF CommitExit, Unlink, ClearDeadlines, TypeOK
  <2>5. /\ proc' \in [Tasks -> ProcStates] /\ parent' \in [Tasks -> Tasks \cup {NoTask}]
        /\ job' \in [Tasks -> Jobs]
    BY <1>4 DEF CommitExit, ReleaseProc, Orphan, TypeOK, ProcStates, Jobs
  <2> HIDE DEF st
  <2>6. UNCHANGED <<affinity, stack, complete, reapBusy, victim, contextSaved,
                    preemptCount, op, opTask>>
    BY <1>4 DEF CommitExit
  <2> QED
    BY <2>1, <2>2, <2>4, <2>5, <2>6, SwitchTypes DEF TypeOK
<1>5. CASE next # NoTask /\ DispatchIdle(c, next)
  BY <1>5 DEF DispatchIdle, ClaimStatus, ClaimCpu, TypeOK, Statuses, waitVars
<1> QED
  BY <1>1, <1>2, <1>3, <1>4, <1>5

\* Handoffs, exits and kills.
LEMMA TypeKill ==
    ASSUME TypeOK, PinInv, NEW c \in CPUs,
           \/ FinishPublish(c) \/ FinishRelease(c) \/ BeginExit(c)
           \/ \E v \in Tasks : ReserveTermination(c, v)
           \/ BeginTermination(c) \/ CommitTermination(c)
    PROVE  TypeOK'
<1>1. 0 \in Deadlines
  BY TopologyAssumption DEF Deadlines
<1>2. CASE FinishPublish(c) \/ FinishRelease(c)
  <2>1. CASE FinishPublish(c)
    BY <2>1 DEF FinishPublish, TypeOK, Statuses, waitVars
  <2>2. CASE FinishRelease(c)
    BY <2>2 DEF FinishRelease, TypeOK, waitVars
  <2> QED
    BY <1>2, <2>1, <2>2
<1>3. CASE BeginExit(c)
  BY <1>3 DEF BeginExit, TypeOK, ProcStates, Jobs, waitVars, cpuVars
<1>4. ASSUME NEW v \in Tasks, ReserveTermination(c, v) PROVE TypeOK'
  <2>1. currentTask[c] \in Tasks
    BY <1>4 DEF ReserveTermination, Free
  <2>2. preemptCount' \in [CPUs -> Nat]
    <3>1. OuterPin(currentTask[c]) \in Nat
      BY DEF OuterPin
    <3> QED
      BY <1>4, <3>1 DEF ReserveTermination, TypeOK
  <2>3. /\ node' \in [Tasks -> WaitQueues \cup {NoQueue}] /\ ahead' \in [Tasks -> SUBSET Tasks]
        /\ remaining' \in [Tasks -> Deadlines]
    BY <1>1, <1>4 DEF ReserveTermination, CancelWait, Unlink, ClearDeadlines, TypeOK
  <2>4. /\ status' \in [Tasks -> Statuses] /\ proc' \in [Tasks -> ProcStates]
        /\ job' \in [Tasks -> Jobs] /\ victim' \in [Tasks -> Tasks \cup {NoTask}]
    BY <1>4 DEF ReserveTermination, TypeOK, Statuses, ProcStates, Jobs
  <2> QED
    BY <1>4, <2>2, <2>3, <2>4 DEF ReserveTermination, TypeOK
<1>5. ASSUME NEW k \in Tasks, currentTask[c] = k,
             job[k] \in {"kill_pending", "kill_cleanup"}
      PROVE  preemptCount[c] \in Nat /\ OuterPin(k) \in Nat
             /\ (job[k] = "kill_pending" => preemptCount[c] - 1 \in Nat)
             /\ (job[k] = "kill_cleanup" => preemptCount[c] - OuterPin(k) \in Nat)
  <2>1. /\ preemptCount[c] = KillPins(k) + OpPins(c) /\ OpPins(c) \in {0, 1}
        /\ OuterPin(k) \in {0, 1}
    BY <1>5, Pinned DEF PinInv
  <2>2. KillPins(k) = IF job[k] = "kill_pending" THEN 1 + OuterPin(k) ELSE OuterPin(k)
    BY <1>5, TopologyAssumption DEF KillPins
  <2> QED
    BY <1>5, <2>1, <2>2
<1>6. CASE BeginTermination(c)
  <2>1. currentTask[c] \in Tasks /\ job[currentTask[c]] = "kill_pending"
    BY <1>6 DEF BeginTermination, TypeOK
  <2>2. preemptCount' \in [CPUs -> Nat]
    BY <1>5, <1>6, <2>1 DEF BeginTermination, TypeOK
  <2> QED
    BY <1>6, <2>2 DEF BeginTermination, TypeOK, Statuses, Jobs, waitVars
<1>7. CASE CommitTermination(c)
  <2> DEFINE v == victim[currentTask[c]]
  <2>1. currentTask[c] \in Tasks /\ job[currentTask[c]] = "kill_cleanup"
    BY <1>7 DEF CommitTermination, TypeOK
  <2>2. preemptCount' \in [CPUs -> Nat]
    BY <1>5, <1>7, <2>1 DEF CommitTermination, PinsLeft, TypeOK
  <2>3. /\ node' \in [Tasks -> WaitQueues \cup {NoQueue}] /\ ahead' \in [Tasks -> SUBSET Tasks]
        /\ remaining' \in [Tasks -> Deadlines]
    BY <1>1, <1>7 DEF CommitTermination, Unlink, ClearDeadlines, TypeOK
  <2>4. status' \in [Tasks -> Statuses]
    BY <1>7 DEF CommitTermination, ReleaseStatus, WakeStatus, TypeOK, Statuses
  <2>5. /\ proc' \in [Tasks -> ProcStates] /\ parent' \in [Tasks -> Tasks \cup {NoTask}]
        /\ job' \in [Tasks -> Jobs] /\ victim' \in [Tasks -> Tasks \cup {NoTask}]
    BY <1>7 DEF CommitTermination, ReleaseProc, Orphan, TypeOK, ProcStates, Jobs
  <2> QED
    BY <1>7, <2>2, <2>3, <2>4, <2>5 DEF CommitTermination, TypeOK
<1> QED
  BY <1>2, <1>3, <1>4, <1>6, <1>7

\* Creation and reaping.
LEMMA TypeCreate ==
    ASSUME TypeOK, PinInv,
           \/ \E t \in Tasks, mask \in Masks : CreateKernelTask(t, mask)
           \/ \E c \in CPUs, t \in Tasks, mask \in Masks : SetAffinity(c, t, mask)
           \/ \E supervised \in BOOLEAN : AdmitUserTask(supervised)
           \/ \E t \in Tasks : PublishUserTask(t) \/ StartPrepared(t)
           \/ \E prepared \in BOOLEAN : CompleteUserTask(prepared)
           \/ \E c \in CPUs : \/ ReleaseFinished(c)
                              \/ \E t \in Tasks : CollectChild(c, t) \/ TakeForReaping(c, t)
                              \/ \E done \in BOOLEAN : ReapStep(c, done)
    PROVE  TypeOK'
<1>1. BSP \in CPUs /\ \A mask \in Masks : mask \in SUBSET CPUs
  BY TopologyAssumption
<1>2. ASSUME NEW t \in Tasks, NEW mask \in Masks,
             CreateKernelTask(t, mask) \/ \E c \in CPUs : SetAffinity(c, t, mask)
      PROVE  TypeOK'
  <2>1. mask \in SUBSET CPUs
    BY <1>1
  <2>2. CASE CreateKernelTask(t, mask)
    BY <2>1, <2>2 DEF CreateKernelTask, FillSlot, TypeOK, Statuses, ProcStates, waitVars, cpuVars
  <2>3. CASE \E c \in CPUs : SetAffinity(c, t, mask)
    BY <2>1, <2>3 DEF SetAffinity, TypeOK, waitVars, cpuVars
  <2> QED
    BY <1>2, <2>2, <2>3
<1>3. ASSUME NEW supervised \in BOOLEAN, AdmitUserTask(supervised) PROVE TypeOK'
  BY <1>1, <1>3 DEF AdmitUserTask, TypeOK, Ops, taskVars, waitVars
<1>4. ASSUME NEW t \in Tasks, PublishUserTask(t) PROVE TypeOK'
  <2>1. Spawner \in Tasks \cup {NoTask} /\ {BSP} \in SUBSET CPUs
    BY <1>1 DEF Spawner, TypeOK
  <2> QED
    BY <1>4, <2>1 DEF PublishUserTask, FillSlot, TypeOK, Statuses, ProcStates, Ops, waitVars
<1>5. ASSUME NEW t \in Tasks, StartPrepared(t) PROVE TypeOK'
  BY <1>5 DEF StartPrepared, TypeOK, Statuses, waitVars, cpuVars
<1>6. ASSUME NEW prepared \in BOOLEAN, CompleteUserTask(prepared) PROVE TypeOK'
  <2>1. preemptCount[BSP] \in Nat \ {0}
    BY <1>1, <1>6, Pinned DEF CompleteUserTask
  <2>2. preemptCount' \in [CPUs -> Nat]
    <3>1. preemptCount' = [preemptCount EXCEPT ![BSP] = @ - 1]
      BY <1>6 DEF CompleteUserTask
    <3>2. preemptCount \in [CPUs -> Nat] /\ preemptCount[BSP] - 1 \in Nat
      BY <2>1 DEF TypeOK
    <3> QED
      BY <3>1, <3>2
  <2> QED
    BY <1>6, <2>2 DEF CompleteUserTask, TypeOK, Statuses, Ops, waitVars
<1>7. ASSUME NEW c \in CPUs, ReleaseFinished(c) PROVE TypeOK'
  BY <1>7 DEF ReleaseFinished, ReleaseStatus, ReleaseProc, TypeOK, Statuses, ProcStates,
              waitVars, cpuVars
<1>8. ASSUME NEW c \in CPUs, NEW t \in Tasks, CollectChild(c, t) PROVE TypeOK'
  BY <1>8 DEF CollectChild, ReleaseStatus, ReleaseProc, TypeOK, Statuses, ProcStates,
              waitVars, cpuVars
<1>9. ASSUME NEW c \in CPUs, NEW t \in Tasks, TakeForReaping(c, t) PROVE TypeOK'
  BY <1>9 DEF TakeForReaping, TypeOK, Ops, waitVars
<1>10. ASSUME NEW c \in CPUs, NEW done \in BOOLEAN, ReapStep(c, done) PROVE TypeOK'
  <2>1. preemptCount[c] \in Nat \ {0}
    BY <1>10, Pinned DEF ReapStep
  <2>2. preemptCount' \in [CPUs -> Nat]
    <3>1. preemptCount' = [preemptCount EXCEPT ![c] = @ - 1]
      BY <1>10 DEF ReapStep
    <3>2. preemptCount \in [CPUs -> Nat] /\ preemptCount[c] - 1 \in Nat
      BY <2>1 DEF TypeOK
    <3> QED
      BY <3>1, <3>2
  <2> QED
    BY <1>10, <2>2 DEF ReapStep, TypeOK, Statuses, Ops, waitVars
<1> QED
  BY <1>2, <1>3, <1>4, <1>5, <1>6, <1>7, <1>8, <1>9, <1>10

------------------------------------------------------------------------------
(* Ownership of tasks by processors.                                        *)

\* What a critical section may do to the status of a task it does not switch:
\* wake it, or change it while no processor owns it.
MayBecome(t, new) ==
    \/ new = status[t]
    \/ status[t] \in Blocked /\ new = "READY"
    \/ runningCpu[t] = NoCPU /\ new \notin {"RUNNING", "HANDOFF"}

\* The running task of a processor runs, and nobody else runs it.
LEMMA OwnerFacts ==
    ASSUME TypeOK, OwnerInv, NEW c \in CPUs
    PROVE  /\ currentTask[c] # NoTask =>
                 /\ currentTask[c] \in Tasks /\ runningCpu[currentTask[c]] = c
                 /\ status[currentTask[c]] = "RUNNING" /\ currentTask[c] # handoffTask[c]
           /\ handoffTask[c] # NoTask =>
                 /\ handoffTask[c] \in Tasks /\ runningCpu[handoffTask[c]] = c
                 /\ status[handoffTask[c]] \in {"HANDOFF", "WAITING", "SLEEPING", "READY",
                                                "FINISHED"}
           /\ \A t \in Tasks :
                 /\ status[t] = "RUNNING" /\ runningCpu[t] = c => currentTask[c] = t
                 /\ runningCpu[t] = c =>
                       status[t] \in {"RUNNING", "HANDOFF", "WAITING", "SLEEPING", "READY",
                                      "FINISHED"}
<1>1. \A a : HandoffStatuses(a) \subseteq {"HANDOFF", "WAITING", "SLEEPING", "READY", "FINISHED"}
  BY DEF HandoffStatuses
<1>2. currentTask[c] \in Tasks \cup {NoTask} /\ handoffTask[c] \in Tasks \cup {NoTask}
  BY DEF TypeOK
<1>3. handoffTask[c] # NoTask =>
          /\ handoffTask[c] \in Tasks /\ runningCpu[handoffTask[c]] = c
          /\ status[handoffTask[c]] \in {"HANDOFF", "WAITING", "SLEEPING", "READY", "FINISHED"}
  BY <1>1, <1>2 DEF OwnerInv, HandoffOwned
<1>4. currentTask[c] # NoTask =>
          /\ currentTask[c] \in Tasks /\ runningCpu[currentTask[c]] = c
          /\ status[currentTask[c]] = "RUNNING" /\ currentTask[c] # handoffTask[c]
  BY <1>2, <1>3 DEF OwnerInv, CurrentOwned
<1>5. ASSUME NEW t \in Tasks, runningCpu[t] = c
      PROVE  /\ status[t] = "RUNNING" => currentTask[c] = t
             /\ status[t] \in {"RUNNING", "HANDOFF", "WAITING", "SLEEPING", "READY", "FINISHED"}
  <2>1. c # NoCPU /\ t # NoTask
    BY TopologyAssumption
  <2>2. currentTask[c] = t \/ handoffTask[c] = t
    BY <1>5, <2>1 DEF OwnerInv, OwnedOnCpu
  <2> QED
    BY <1>3, <1>4, <2>1, <2>2
<1> QED
  BY <1>3, <1>4, <1>5

\* Steps that switch nothing.
LEMMA OwnerQuiet ==
    ASSUME TypeOK, OwnerInv, UNCHANGED <<runningCpu, currentTask, handoffTask, handoffAction>>,
           \A t \in Tasks : MayBecome(t, status'[t])
    PROVE  OwnerInv'
<1>1. CurrentOwned'
  <2>1. ASSUME NEW c \in CPUs, currentTask[c] # NoTask
        PROVE  runningCpu[currentTask[c]] = c /\ status'[currentTask[c]] = "RUNNING"
    <3>1. currentTask[c] \in Tasks /\ runningCpu[currentTask[c]] = c
          /\ status[currentTask[c]] = "RUNNING"
      BY <2>1, OwnerFacts
    <3>2. MayBecome(currentTask[c], status'[currentTask[c]])
      BY <3>1
    <3> QED
      BY <3>1, <3>2, TopologyAssumption DEF MayBecome, Blocked
  <2> QED
    BY <2>1 DEF CurrentOwned
<1>2. HandoffOwned'
  <2>1. ASSUME NEW c \in CPUs, handoffTask[c] # NoTask
        PROVE  runningCpu[handoffTask[c]] = c
               /\ status'[handoffTask[c]] \in HandoffStatuses(handoffAction[c])
    <3> DEFINE t == handoffTask[c]
    <3>1. t \in Tasks /\ runningCpu[t] = c /\ runningCpu[t] # NoCPU
      BY <2>1, OwnerFacts, TopologyAssumption
    <3>2. status[t] \in HandoffStatuses(handoffAction[c])
      BY <2>1 DEF OwnerInv, HandoffOwned
    <3>3. status'[t] = status[t] \/ (status[t] \in Blocked /\ status'[t] = "READY")
      BY <3>1 DEF MayBecome
    <3>4. status[t] \in Blocked => "READY" \in HandoffStatuses(handoffAction[c])
      BY <3>2 DEF HandoffStatuses, Blocked
    <3> QED
      BY <3>1, <3>2, <3>3, <3>4
  <2> QED
    BY <2>1 DEF HandoffOwned, OwnerInv
<1>3. OwnedOnCpu'
  BY DEF OwnedOnCpu, OwnerInv, MayBecome
<1> QED
  BY <1>1, <1>2, <1>3 DEF OwnerInv

\* What a switch does: the next task was ready and free.
LEMMA SwitchFacts ==
    ASSUME TypeOK, OwnerInv, NEW c \in CPUs, NEW prev \in Tasks, currentTask[c] = prev,
           handoffTask[c] = NoTask, NEW action \in {"READY", "RELEASE"},
           NEW st \in [Tasks -> Statuses], NEW next \in Selectable(st, c), next # prev,
           \A u \in Tasks : u # prev => MayBecome(u, st[u]),
           SwitchAway(c, prev, action, st, next)
    PROVE  /\ next \in Tasks \cup {NoTask} /\ next # prev
           /\ next # NoTask => /\ next \in Tasks /\ st[next] = "READY"
                               /\ runningCpu[next] = NoCPU /\ c \in affinity[next]
           /\ \A u \in Tasks :
                 /\ status'[u] = IF u = next THEN "RUNNING"
                                 ELSE IF u = prev /\ action = "READY" THEN "HANDOFF" ELSE st[u]
                 /\ runningCpu'[u] = IF u = next THEN c ELSE runningCpu[u]
           /\ \A d \in CPUs :
                 /\ currentTask'[d] = IF d = c THEN next ELSE currentTask[d]
                 /\ handoffTask'[d] = IF d = c THEN prev ELSE handoffTask[d]
                 /\ handoffAction'[d] = IF d = c THEN action ELSE handoffAction[d]
<1>1. next \in Tasks \cup {NoTask}
  BY DEF Selectable, Runnable
<1>2. ASSUME next # NoTask
      PROVE  /\ next \in Tasks /\ st[next] = "READY"
             /\ runningCpu[next] = NoCPU /\ c \in affinity[next]
  <2>1. next \in Tasks /\ next \in Runnable(st, c)
    BY <1>1, <1>2 DEF Selectable
  <2>2. ~(st[next] = "RUNNING" /\ runningCpu[next] = c)
    <3>1. SUFFICES ASSUME st[next] = "RUNNING", runningCpu[next] = c PROVE FALSE
      OBVIOUS
    <3>2. status[next] = "RUNNING"
      BY <2>1, <3>1 DEF MayBecome
    <3> QED
      BY <2>1, <3>1, <3>2, OwnerFacts
  <2> QED
    BY <2>1, <2>2 DEF Runnable
<1>3. \A u \in Tasks :
          /\ status'[u] = IF u = next THEN "RUNNING"
                          ELSE IF u = prev /\ action = "READY" THEN "HANDOFF" ELSE st[u]
          /\ runningCpu'[u] = IF u = next THEN c ELSE runningCpu[u]
  BY <1>1, TopologyAssumption DEF SwitchAway, ClaimStatus, ClaimCpu, TypeOK
<1>4. \A d \in CPUs :
          /\ currentTask'[d] = IF d = c THEN next ELSE currentTask[d]
          /\ handoffTask'[d] = IF d = c THEN prev ELSE handoffTask[d]
          /\ handoffAction'[d] = IF d = c THEN action ELSE handoffAction[d]
  BY DEF SwitchAway, TypeOK
<1> QED
  BY <1>1, <1>2, <1>3, <1>4

\* A switch keeps the ownership.
LEMMA OwnerSwitch ==
    ASSUME TypeOK, OwnerInv, NEW c \in CPUs, NEW prev \in Tasks, currentTask[c] = prev,
           handoffTask[c] = NoTask, NEW action \in {"READY", "RELEASE"},
           NEW st \in [Tasks -> Statuses], NEW next \in Selectable(st, c), next # prev,
           \A u \in Tasks : u # prev => MayBecome(u, st[u]),
           action = "RELEASE" => st[prev] \in {"WAITING", "SLEEPING", "FINISHED"},
           SwitchAway(c, prev, action, st, next)
    PROVE  OwnerInv'
<1>1. /\ next \in Tasks \cup {NoTask} /\ next # prev
      /\ next # NoTask => /\ next \in Tasks /\ st[next] = "READY" /\ runningCpu[next] = NoCPU
  BY SwitchFacts
<1>2. \A u \in Tasks :
          /\ status'[u] = IF u = next THEN "RUNNING"
                          ELSE IF u = prev /\ action = "READY" THEN "HANDOFF" ELSE st[u]
          /\ runningCpu'[u] = IF u = next THEN c ELSE runningCpu[u]
  BY SwitchFacts
<1>3. \A d \in CPUs :
          /\ currentTask'[d] = IF d = c THEN next ELSE currentTask[d]
          /\ handoffTask'[d] = IF d = c THEN prev ELSE handoffTask[d]
          /\ handoffAction'[d] = IF d = c THEN action ELSE handoffAction[d]
  BY SwitchFacts
<1>4. prev # NoTask /\ runningCpu[prev] = c /\ c # NoCPU /\ NoTask \notin Tasks
  BY OwnerFacts, TopologyAssumption
<1>5. CurrentOwned'
  <2>1. ASSUME NEW d \in CPUs, currentTask'[d] # NoTask
        PROVE  runningCpu'[currentTask'[d]] = d /\ status'[currentTask'[d]] = "RUNNING"
    <3>1. CASE d = c
      BY <1>1, <1>2, <1>3, <2>1, <3>1
    <3>2. CASE d # c
      <4> DEFINE u == currentTask[d]
      <4>1. currentTask'[d] = u /\ u \in Tasks /\ runningCpu[u] = d /\ status[u] = "RUNNING"
        BY <1>3, <2>1, <3>2, OwnerFacts
      <4>2. u # prev /\ u # next /\ d # NoCPU
        BY <1>1, <1>4, <3>2, <4>1, TopologyAssumption
      <4>3. st[u] = "RUNNING"
        BY <4>1, <4>2 DEF MayBecome, Blocked
      <4> QED
        BY <1>2, <4>1, <4>2, <4>3
    <3> QED
      BY <3>1, <3>2
  <2> QED
    BY <2>1 DEF CurrentOwned
<1>6. HandoffOwned'
  <2>1. ASSUME NEW d \in CPUs
        PROVE  /\ handoffTask'[d] = NoTask <=> handoffAction'[d] = "NONE"
               /\ handoffTask'[d] # NoTask =>
                    /\ runningCpu'[handoffTask'[d]] = d
                    /\ status'[handoffTask'[d]] \in HandoffStatuses(handoffAction'[d])
    <3>1. CASE d = c
      <4>1. runningCpu'[prev] = c /\ status'[prev] = IF action = "READY" THEN "HANDOFF" ELSE st[prev]
        BY <1>1, <1>2, <1>4
      <4> QED
        BY <1>3, <1>4, <3>1, <4>1 DEF HandoffStatuses
    <3>2. CASE d # c /\ handoffTask[d] = NoTask
      BY <1>3, <3>2 DEF OwnerInv, HandoffOwned
    <3>3. CASE d # c /\ handoffTask[d] # NoTask
      <4> DEFINE u == handoffTask[d]
      <4>1. /\ u \in Tasks /\ runningCpu[u] = d /\ handoffAction[d] # "NONE"
            /\ status[u] \in HandoffStatuses(handoffAction[d])
        BY <3>3, OwnerFacts DEF OwnerInv, HandoffOwned
      <4>2. u # prev /\ u # next /\ d # NoCPU
        BY <1>1, <1>4, <3>3, <4>1, TopologyAssumption
      <4>3. status'[u] = status[u] \/ (status[u] \in Blocked /\ status'[u] = "READY")
        BY <1>2, <4>1, <4>2 DEF MayBecome
      <4>4. status[u] \in Blocked => "READY" \in HandoffStatuses(handoffAction[d])
        BY <4>1 DEF HandoffStatuses, Blocked
      <4> QED
        BY <1>2, <1>3, <3>3, <4>1, <4>2, <4>3, <4>4
    <3> QED
      BY <3>1, <3>2, <3>3
  <2> QED
    BY <2>1 DEF HandoffOwned
<1>7. OwnedOnCpu'
  <2>1. ASSUME NEW u \in Tasks
        PROVE  /\ runningCpu'[u] # NoCPU =>
                     currentTask'[runningCpu'[u]] = u \/ handoffTask'[runningCpu'[u]] = u
               /\ status'[u] \in {"RUNNING", "HANDOFF"} => runningCpu'[u] # NoCPU
    <3>1. CASE u = next \/ u = prev
      BY <1>1, <1>2, <1>3, <1>4, <3>1
    <3>2. CASE u # next /\ u # prev
      <4>1. runningCpu'[u] = runningCpu[u] /\ status'[u] = st[u]
        BY <1>2, <3>2
      <4>2. ASSUME runningCpu[u] # NoCPU
            PROVE  currentTask'[runningCpu[u]] = u \/ handoffTask'[runningCpu[u]] = u
        <5>1. runningCpu[u] \in CPUs
          BY <4>2 DEF TypeOK
        <5>2. currentTask[runningCpu[u]] = u \/ handoffTask[runningCpu[u]] = u
          BY <4>2 DEF OwnerInv, OwnedOnCpu
        <5>3. runningCpu[u] # c
          BY <1>4, <3>2, <5>2
        <5> QED
          BY <1>3, <5>1, <5>2, <5>3
      <4>3. st[u] \in {"RUNNING", "HANDOFF"} => runningCpu[u] # NoCPU
        BY <3>2 DEF MayBecome, OwnerInv, OwnedOnCpu
      <4> QED
        BY <4>1, <4>2, <4>3
    <3> QED
      BY <3>1, <3>2
  <2> QED
    BY <2>1 DEF OwnedOnCpu
<1> QED
  BY <1>5, <1>6, <1>7 DEF OwnerInv

------------------------------------------------------------------------------
(* What leaves each part of the invariant alone.                            *)

\* Stacks: no dead slot is filled and the reaper's slots stay.
LEMMA StackKept ==
    ASSUME TypeOK, StackInv, UNCHANGED <<stack, op, opTask, reapBusy>>,
           \A t \in Tasks : /\ HoldsStack(t)' => HoldsStack(t)
                            /\ status[t] = "REAPING" => status'[t] = "REAPING"
    PROVE  StackInv'
BY DEF StackInv

\* Pins: no task stops running, and killers keep or lack their process.
LEMMA PinKept ==
    ASSUME TypeOK, PinInv, UNCHANGED <<preemptCount, currentTask, op, job>>,
           \A t \in Tasks : /\ status'[t] # "RUNNING" => status[t] # "RUNNING"
                            /\ (User(t)' <=> User(t)) \/ job[t] = "none"
    PROVE  PinInv'
<1>1. \A t \in Tasks : KillPins(t)' = KillPins(t)
  BY DEF KillPins, OuterPin
<1>2. KillPins(NoTask)' = KillPins(NoTask) /\ \A c \in CPUs : OpPins(c)' = OpPins(c)
  BY DEF KillPins, OpPins
<1>3. \A c \in CPUs : KillPins(currentTask[c])' = KillPins(currentTask[c])
  BY <1>1, <1>2 DEF TypeOK
<1> QED
  BY <1>1, <1>2, <1>3 DEF PinInv

\* Jobs: the victims stay doomed, their killers alive; exits may begin and end.
LEMMA JobKept ==
    ASSUME TypeOK, JobInv, UNCHANGED victim,
           \A t \in Tasks :
              /\ \/ job'[t] = job[t]
                 \/ job[t] \in {"none", "exiting"} /\ job'[t] \in {"none", "exiting"}
              /\ status[t] \in Terminating \/ status'[t] \in Terminating =>
                     status'[t] = status[t]
              /\ job'[t] # "none" => status'[t] \in Active
              /\ victim[t] # NoTask => proc'[t] = proc[t]
    PROVE  JobInv'
<1>1. \A k \in Tasks : victim[k] # NoTask => victim[k] \in Tasks /\ job'[k] = job[k]
  BY DEF JobInv, TypeOK
<1>2. \A k \in Tasks : victim[k] # NoTask => status'[victim[k]] = status[victim[k]]
  BY <1>1 DEF JobInv, Terminating
<1>3. ASSUME NEW k \in Tasks
      PROVE  /\ job'[k] # "none" => status'[k] \in Active
             /\ job'[k] \in {"kill_pending", "kill_cleanup"} <=> victim[k] # NoTask
             /\ job'[k] = "kill_pending" => status'[victim[k]] = "TERMINATION_PENDING"
             /\ job'[k] = "kill_cleanup" => status'[victim[k]] = "TERMINATING"
             /\ victim[k] # NoTask => proc'[k] \in {"none", "running"}
             /\ \A j \in Tasks : victim[k] # NoTask /\ victim[j] = victim[k] => j = k
  BY <1>1, <1>2 DEF JobInv
<1>4. \A v \in Tasks : status'[v] \in Terminating => \E k \in Tasks : victim[k] = v
  BY DEF JobInv
<1> QED
  BY <1>3, <1>4 DEF JobInv

\* Processes.
LEMMA ProcKept ==
    ASSUME TypeOK, ProcInv, UNCHANGED <<proc, job>>,
           \A t \in Tasks :
              \/ status'[t] = status[t]
              \/ /\ status[t] \notin Dead \cup Terminating
                 /\ status'[t] \notin Dead \cup Terminating
    PROVE  ProcInv'
BY DEF ProcInv, Dead

\* Queues: nothing is linked or unlinked.
LEMMA WaitKept ==
    ASSUME TypeOK, WaitInv, UNCHANGED waitVars,
           \A t \in Tasks :
              status'[t] = status[t] \/ (status[t] \notin Blocked /\ status'[t] \notin Blocked)
    PROVE  WaitInv'
BY DEF WaitInv, BlockedIffLinked, SleepOrdered, waitVars, Blocked

\* Queues: the tasks in S are unlinked and no longer blocked.
LEMMA WaitUnlinked ==
    ASSUME TypeOK, WaitInv, NEW S \in SUBSET Tasks, Unlink(S),
           remaining' = ClearDeadlines(S, remaining),
           \A t \in Tasks :
              IF t \in S THEN status'[t] \notin Blocked
              ELSE \/ status'[t] = status[t]
                   \/ status[t] \notin Blocked /\ status'[t] \notin Blocked
    PROVE  WaitInv'
<1>1. \A t \in Tasks : IF t \in S THEN node'[t] = NoQueue /\ ahead'[t] = {}
                       ELSE /\ node'[t] = node[t] /\ ahead'[t] = ahead[t] \ S
                            /\ remaining'[t] = remaining[t]
  BY DEF Unlink, ClearDeadlines
<1>2. NoQueue # SleepQ /\ \A t \in Tasks : ahead[t] \subseteq Tasks
  BY TopologyAssumption DEF TypeOK
<1>3. BlockedIffLinked'
  BY <1>1 DEF WaitInv, BlockedIffLinked
<1>4. ASSUME NEW t \in Tasks
      PROVE  /\ status'[t] = "SLEEPING" <=> node'[t] = SleepQ
             /\ node'[t] = SleepQ =>
                  /\ remaining'[t] \in Nat \ {0}
                  /\ \A u \in ahead'[t] : node'[u] = SleepQ /\ remaining'[u] <= remaining'[t]
  <2>1. CASE t \in S
    BY <1>1, <1>2, <2>1 DEF Blocked
  <2>2. CASE t \notin S
    <3>1. node'[t] = node[t] /\ remaining'[t] = remaining[t] /\ ahead'[t] = ahead[t] \ S
      BY <1>1, <2>2
    <3>2. status'[t] = "SLEEPING" <=> node'[t] = SleepQ
      BY <2>2, <3>1 DEF Blocked, WaitInv, SleepOrdered
    <3>3. ASSUME node[t] = SleepQ, NEW u \in ahead[t] \ S
          PROVE  node'[u] = SleepQ /\ remaining'[u] <= remaining[t]
      <4>1. u \in Tasks /\ u \notin S
        BY <1>2, <3>3
      <4>2. node[u] = SleepQ /\ remaining[u] <= remaining[t]
        BY <3>3 DEF WaitInv, SleepOrdered
      <4> QED
        BY <1>1, <4>1, <4>2
    <3>4. node[t] = SleepQ => remaining[t] \in Nat \ {0}
      BY DEF WaitInv, SleepOrdered
    <3> QED
      BY <3>1, <3>2, <3>3, <3>4
  <2> QED
    BY <2>1, <2>2
<1> QED
  BY <1>3, <1>4 DEF WaitInv, SleepOrdered

\* Waiters for a child: nobody is linked, and processes stay.
LEMMA ExitKept ==
    ASSUME TypeOK, ExitWaitersLive, UNCHANGED <<proc, parent>>,
           \A w \in Tasks : node'[w] \in {node[w], NoQueue} \cup Queues \cup {SleepQ}
    PROVE  ExitWaitersLive'
BY TopologyAssumption DEF ExitWaitersLive

\* Publication: nothing is filled and the published task is left alone.
LEMMA PublishKept ==
    ASSUME TypeOK, PublishInv, UNCHANGED <<op, opTask, affinity, complete>>,
           \A t \in Tasks : status'[t] \notin Dead => status[t] \notin Dead,
           op[BSP] \in {"published", "published_supervised"} =>
              /\ status'[opTask[BSP]] = "READY" /\ runningCpu'[opTask[BSP]] = NoCPU
              /\ proc'[opTask[BSP]] = "running"
              /\ parent'[opTask[BSP]] \in {parent[opTask[BSP]], NoTask}
              /\ currentTask'[BSP] = currentTask[BSP]
    PROVE  PublishInv'
BY DEF PublishInv

\* Saved contexts.
LEMMA ContextKept ==
    ASSUME KernelContextSaved, UNCHANGED <<currentTask, contextSaved>>
    PROVE  KernelContextSaved'
BY DEF KernelContextSaved

\* Room: while a spawn is under way no available slot disappears.
LEMMA RoomKept ==
    ASSUME TypeOK, RoomInv, op'[BSP] = op[BSP],
           op[BSP] = "admitted" => Available(BSP) \subseteq Available(BSP)'
    PROVE  RoomInv'
<1>1. SUFFICES ASSUME op[BSP] = "admitted" PROVE Cardinality(Available(BSP)') > Reserve
  BY DEF RoomInv
<1>2. Available(BSP)' \subseteq Tasks /\ IsFiniteSet(Tasks)
  BY TopologyAssumption DEF Available
<1>3. IsFiniteSet(Available(BSP)')
  BY <1>2, FS_Subset
<1>4. /\ IsFiniteSet(Available(BSP))
      /\ Cardinality(Available(BSP)) <= Cardinality(Available(BSP)')
  BY <1>1, <1>3, FS_Subset
<1>5. Cardinality(Available(BSP)) > Reserve /\ Reserve \in Nat
  BY <1>1, TopologyAssumption DEF RoomInv
<1>6. Cardinality(Available(BSP)) \in Nat /\ Cardinality(Available(BSP)') \in Nat
  BY <1>3, <1>4, FS_CardinalityType
<1> QED
  BY <1>4, <1>5, <1>6

------------------------------------------------------------------------------
(* Every action keeps the invariant.                                        *)

\* A wakeup only makes blocked tasks ready; it is left to show that the queues
\* keep their order.
LEMMA WakeKeeps ==
    ASSUME IInv, NEW S \in SUBSET Tasks, NEW left \in [Tasks -> Deadlines], Wake(S, left),
           \A t \in S : node[t] # NoQueue,
           UNCHANGED <<runningCpu, affinity, stack, complete, proc, parent, reapBusy, job,
                       victim, cpuVars>>
    PROVE  /\ OwnerInv' /\ StackInv' /\ PinInv' /\ JobInv' /\ ProcInv'
           /\ ExitWaitersLive' /\ PublishInv' /\ KernelContextSaved' /\ RoomInv'
           /\ BlockedIffLinked' /\ \A t \in Tasks : status'[t] = "SLEEPING" <=> node'[t] = SleepQ
<1> USE DEF IInv
<1>1. \A t \in Tasks : status[t] \in Blocked <=> node[t] # NoQueue
  BY DEF WaitInv, BlockedIffLinked
<1>2. \A t \in Tasks :
        IF t \in S THEN status[t] \in Blocked /\ status'[t] = "READY" /\ node'[t] = NoQueue
        ELSE status'[t] = status[t] /\ node'[t] = node[t]
  BY <1>1 DEF Wake, WakeStatus, Unlink
<1>3. UNCHANGED <<currentTask, handoffTask, handoffAction, contextSaved, preemptCount, op,
                  opTask>>
  BY DEF cpuVars
<1>4. OwnerInv'
  BY <1>2, <1>3, OwnerQuiet DEF MayBecome
<1>5. StackInv'
  BY <1>2, <1>3, StackKept DEF HoldsStack, Blocked, Dead
<1>6. PinInv'
  BY <1>2, <1>3, PinKept DEF Blocked, User
<1>7. JobInv'
  BY <1>2, <1>3, JobKept DEF Blocked, Terminating, Active, JobInv
<1>8. ProcInv'
  BY <1>2, <1>3, ProcKept DEF Blocked, Terminating, Dead
<1>9. ExitWaitersLive'
  BY <1>2, ExitKept
<1>10. PublishInv'
  <2>1. op[BSP] \in {"published", "published_supervised"} =>
           opTask[BSP] \in Tasks /\ status[opTask[BSP]] = "READY" /\ runningCpu[opTask[BSP]] = NoCPU
           /\ proc[opTask[BSP]] = "running"
    BY DEF PublishInv
  <2>2. op[BSP] \in {"published", "published_supervised"} => status'[opTask[BSP]] = "READY"
    BY <1>2, <2>1
  <2> QED
    BY <1>2, <1>3, <2>1, <2>2, PublishKept DEF Blocked, Dead
<1>11. KernelContextSaved'
  BY <1>3, ContextKept
<1>12. RoomInv'
  BY <1>2, <1>3, RoomKept DEF Available, Vacant, Blocked
<1>13. BlockedIffLinked' /\ \A t \in Tasks : status'[t] = "SLEEPING" <=> node'[t] = SleepQ
  <2>1. NoQueue # SleepQ
    BY TopologyAssumption
  <2> QED
    BY <1>1, <1>2, <2>1 DEF BlockedIffLinked, WaitInv, SleepOrdered, Blocked
<1> QED
  BY <1>4, <1>5, <1>6, <1>7, <1>8, <1>9, <1>10, <1>11, <1>12, <1>13

\* Wakeups by tasks and interrupt handlers.
LEMMA WakeStep ==
    ASSUME IInv, NEW c \in CPUs, NEW q \in Queues, WakeOne(c, q) \/ WakeAll(c, q)
    PROVE  IInv'
<1>1. PICK S \in {PoppedByWake(q), InQueue(q)} : Wake(S, remaining)
  BY DEF WakeOne, WakeAll
<1>2. S \in SUBSET Tasks /\ \A t \in S : node[t] # NoQueue
  BY TopologyAssumption DEF PoppedByWake, InQueue
<1>3. UNCHANGED <<runningCpu, affinity, stack, complete, proc, parent, reapBusy, job,
                  victim, cpuVars>>
  BY DEF WakeOne, WakeAll
<1>4. remaining \in [Tasks -> Deadlines]
  BY DEF IInv, TypeOK
<1>5. TypeOK'
  BY TypeWake DEF IInv
<1>6. WaitInv'
  <2>1. Unlink(S) /\ remaining' = ClearDeadlines(S, remaining)
    BY <1>1 DEF Wake
  <2>2. \A t \in Tasks : IF t \in S THEN status'[t] \notin Blocked ELSE status'[t] = status[t]
    BY <1>1 DEF Wake, WakeStatus, Blocked
  <2> QED
    BY <1>2, <2>1, <2>2, WaitUnlinked DEF IInv
<1> QED
  BY <1>1, <1>2, <1>3, <1>4, <1>5, <1>6, WakeKeeps DEF IInv

\* The clock: the pass from the head of the sleep queue reaches every sleeper that
\* is due, since nobody before it is due later.
LEMMA TickStep ==
    ASSUME IInv, Tick
    PROVE  IInv'
<1> DEFINE left == [t \in Tasks |-> Elapse(remaining[t])]
           S == DueSleepers(left) \cup ExpiredWaiters(left)
<1>1. Wake(S, left)
  BY DEF Tick
<1>2. S \in SUBSET Tasks /\ \A t \in S : node[t] # NoQueue
  BY TopologyAssumption DEF DueSleepers, ExpiredWaiters, InQueue
<1>3. UNCHANGED <<runningCpu, affinity, stack, complete, proc, parent, reapBusy, job,
                  victim, cpuVars>>
  BY DEF Tick
<1>4. left \in [Tasks -> Deadlines]
  BY ElapseType DEF IInv
<1>5. TypeOK'
  BY TypeWake DEF IInv
<1>6. \A t \in Tasks : /\ node'[t] = (IF t \in S THEN NoQueue ELSE node[t])
                       /\ ahead'[t] = (IF t \in S THEN {} ELSE ahead[t] \ S)
                       /\ remaining'[t] = (IF t \in S THEN 0 ELSE Elapse(remaining[t]))
  BY <1>1 DEF Wake, Unlink, ClearDeadlines
<1>7. ASSUME NEW t \in Tasks, node'[t] = SleepQ
      PROVE  /\ remaining'[t] \in Nat \ {0}
             /\ \A u \in ahead'[t] : node'[u] = SleepQ /\ remaining'[u] <= remaining'[t]
  <2>1. t \notin S /\ node[t] = SleepQ
    BY <1>6, <1>7, TopologyAssumption
  <2>2. /\ remaining[t] \in Nat \ {0}
        /\ \A u \in ahead[t] : u \in Tasks /\ node[u] = SleepQ /\ remaining[u] <= remaining[t]
    BY <2>1 DEF IInv, WaitInv, SleepOrdered, TypeOK
  <2>3. \A u \in ahead[t] : remaining[u] \in Nat \ {0}
    BY <2>2 DEF IInv, WaitInv, SleepOrdered
  <2>4. \A n \in Nat \ {0} : Elapse(n) = n - 1
    BY TopologyAssumption DEF Elapse
  <2>5. Elapse(remaining[t]) # 0
    <3>1. t \notin DueSleepers(left)
      BY <2>1
    <3>2. PICK u \in ahead[t] \cup {t} : left[u] # 0
      BY <2>1, <3>1 DEF DueSleepers, InQueue
    <3>3. /\ u \in Tasks /\ remaining[u] \in Nat \ {0} /\ remaining[u] <= remaining[t]
          /\ Elapse(remaining[u]) # 0
      BY <2>2, <2>3, <3>2
    <3> QED
      BY <2>2, <2>4, <3>3
  <2>6. ASSUME NEW u \in ahead'[t]
        PROVE  node'[u] = SleepQ /\ remaining'[u] <= remaining'[t]
    <3>1. u \in ahead[t] /\ u \notin S /\ u \in Tasks
      BY <1>6, <2>1, <2>2, <2>6
    <3>2. /\ node'[u] = SleepQ /\ remaining'[u] = Elapse(remaining[u])
          /\ remaining'[t] = Elapse(remaining[t])
      BY <1>6, <2>1, <2>2, <3>1
    <3> QED
      BY <2>2, <2>3, <2>4, <3>1, <3>2
  <2>7. remaining'[t] \in Nat \ {0}
    <3>1. remaining'[t] = Elapse(remaining[t]) /\ Elapse(remaining[t]) = remaining[t] - 1
      BY <1>6, <2>1, <2>2, <2>4
    <3> QED
      BY <2>2, <2>5, <3>1
  <2> QED
    BY <2>6, <2>7
<1> HIDE DEF left, S
<1>8. /\ BlockedIffLinked' /\ \A t \in Tasks : status'[t] = "SLEEPING" <=> node'[t] = SleepQ
      /\ OwnerInv' /\ StackInv' /\ PinInv' /\ JobInv' /\ ProcInv'
      /\ ExitWaitersLive' /\ PublishInv' /\ KernelContextSaved' /\ RoomInv'
  BY <1>1, <1>2, <1>3, <1>4, WakeKeeps
<1>9. WaitInv'
  BY <1>7, <1>8 DEF WaitInv, SleepOrdered
<1> QED
  BY <1>5, <1>8, <1>9 DEF IInv

\* Setting an affinity: it is not that of a task that is being published.
LEMMA AffinityStep ==
    ASSUME IInv, NEW c \in CPUs, NEW t \in Tasks, NEW mask \in Masks, SetAffinity(c, t, mask)
    PROVE  IInv'
<1> USE DEF IInv
<1>1. UNCHANGED <<status, runningCpu, stack, complete, proc, parent, reapBusy, job, victim,
                  waitVars, currentTask, handoffTask, handoffAction, contextSaved,
                  preemptCount, op, opTask>>
  BY DEF SetAffinity, cpuVars
<1>2. op[BSP] \in {"published", "published_supervised"} => affinity'[opTask[BSP]] = affinity[opTask[BSP]]
  <2>1. CASE c = BSP
    BY <2>1 DEF SetAffinity, AtLeisure
  <2>2. CASE c # BSP
    <3>1. runningCpu[t] = c
      BY <2>2, OwnerFacts, TopologyAssumption DEF SetAffinity
    <3> QED
      BY <3>1, TopologyAssumption DEF SetAffinity, PublishInv, TypeOK
  <2> QED
    BY <2>1, <2>2
<1>3. OwnerInv' /\ StackInv' /\ PinInv' /\ JobInv' /\ ProcInv' /\ WaitInv'
  BY <1>1, OwnerQuiet, StackKept, PinKept, JobKept, ProcKept, WaitKept
     DEF MayBecome, HoldsStack, User, JobInv
<1>4. ExitWaitersLive' /\ KernelContextSaved' /\ RoomInv'
  BY <1>1, ExitKept, ContextKept, RoomKept DEF waitVars, Available, Vacant
<1>5. PublishInv'
  BY <1>1, <1>2 DEF PublishInv
<1>6. TypeOK'
  BY TypeCreate
<1> QED
  BY <1>3, <1>4, <1>5, <1>6

\* Starting a prepared task: nobody owned it.
LEMMA StartStep ==
    ASSUME IInv, NEW t \in Tasks, StartPrepared(t)
    PROVE  IInv'
<1> USE DEF IInv
<1>1. UNCHANGED <<runningCpu, affinity, stack, complete, proc, parent, reapBusy, job, victim,
                  waitVars, currentTask, handoffTask, handoffAction, contextSaved,
                  preemptCount, op, opTask>>
  BY DEF StartPrepared, cpuVars
<1>2. op[BSP] = "none" /\ status[t] = "PREPARED" /\ runningCpu[t] = NoCPU
  BY DEF StartPrepared, AtLeisure
<1>3. \A u \in Tasks : status'[u] = IF u = t THEN "READY" ELSE status[u]
  BY DEF StartPrepared, TypeOK
<1>4. OwnerInv'
  BY <1>1, <1>2, <1>3, OwnerQuiet DEF MayBecome
<1>5. StackInv' /\ PinInv'
  BY <1>1, <1>2, <1>3, StackKept, PinKept DEF HoldsStack, User, Dead
<1>6. JobInv'
  BY <1>1, <1>2, <1>3, JobKept DEF JobInv, Terminating, Active
<1>7. ProcInv' /\ WaitInv'
  BY <1>1, <1>2, <1>3, ProcKept, WaitKept DEF Terminating, Dead, Blocked
<1>8. ExitWaitersLive' /\ KernelContextSaved'
  BY <1>1, ExitKept, ContextKept DEF waitVars
<1>9. PublishInv' /\ RoomInv'
  BY <1>1, <1>2, <1>3 DEF PublishInv, RoomInv, Dead
<1>10. TypeOK'
  BY TypeCreate
<1> QED
  BY <1>4, <1>5, <1>6, <1>7, <1>8, <1>9, <1>10

\* First store of a handoff: the preempted task is still owned by its processor.
LEMMA FinishPublishStep ==
    ASSUME IInv, NEW c \in CPUs, FinishPublish(c)
    PROVE  IInv'
<1> USE DEF IInv
<1> DEFINE t == handoffTask[c]
<1>1. UNCHANGED <<runningCpu, affinity, stack, complete, proc, parent, reapBusy, job, victim,
                  waitVars, currentTask, handoffTask, contextSaved, preemptCount, op, opTask>>
  BY DEF FinishPublish
<1>2. t \in Tasks /\ t # NoTask /\ status[t] = "HANDOFF" /\ runningCpu[t] = c
  <2>1. handoffAction[c] = "READY"
    BY DEF FinishPublish
  <2>2. t # NoTask
    BY <2>1 DEF OwnerInv, HandoffOwned
  <2> QED
    BY <2>1, <2>2 DEF OwnerInv, HandoffOwned, HandoffStatuses, TypeOK
<1>3. /\ \A u \in Tasks : status'[u] = IF u = t THEN "READY" ELSE status[u]
      /\ \A d \in CPUs : handoffAction'[d] = IF d = c THEN "READY_PUBLISHED" ELSE handoffAction[d]
  BY DEF FinishPublish, TypeOK
<1> HIDE DEF t
<1>4. OwnerInv'
  <2>1. CurrentOwned'
    BY <1>1, <1>2, <1>3, OwnerFacts DEF CurrentOwned
  <2>2. ASSUME NEW d \in CPUs
        PROVE  /\ handoffTask[d] = NoTask <=> handoffAction'[d] = "NONE"
               /\ handoffTask[d] # NoTask =>
                     /\ runningCpu[handoffTask[d]] = d
                     /\ status'[handoffTask[d]] \in HandoffStatuses(handoffAction'[d])
    <3>1. CASE d = c
      BY <1>2, <1>3, <3>1 DEF HandoffStatuses, t
    <3>2. CASE d # c
      <4>1. handoffTask[d] # NoTask => handoffTask[d] \in Tasks /\ handoffTask[d] # t
        BY <1>2, <3>2, OwnerFacts
      <4> QED
        BY <1>3, <3>2, <4>1 DEF OwnerInv, HandoffOwned
    <3> QED
      BY <3>1, <3>2
  <2>3. HandoffOwned'
    BY <1>1, <2>2 DEF HandoffOwned
  <2>4. OwnedOnCpu'
    BY <1>1, <1>2, <1>3 DEF OwnerInv, OwnedOnCpu
  <2> QED
    BY <2>1, <2>3, <2>4 DEF OwnerInv
<1>5. StackInv' /\ PinInv'
  BY <1>1, <1>2, <1>3, StackKept, PinKept DEF HoldsStack, User, Dead
<1>6. JobInv'
  BY <1>1, <1>2, <1>3, JobKept DEF JobInv, Terminating, Active
<1>7. ProcInv' /\ WaitInv'
  BY <1>1, <1>2, <1>3, ProcKept, WaitKept DEF Terminating, Dead, Blocked
<1>8. ExitWaitersLive' /\ KernelContextSaved'
  BY <1>1, ExitKept, ContextKept DEF waitVars
<1>9. PublishInv'
  BY <1>1, <1>2, <1>3, PublishKept DEF PublishInv, Dead
<1>10. RoomInv'
  BY <1>1, <1>2, <1>3, RoomKept DEF Available, Vacant
<1>11. TypeOK'
  BY TypeKill
<1> QED
  BY <1>4, <1>5, <1>6, <1>7, <1>8, <1>9, <1>10, <1>11

\* Second store: the processor gives the task up.
LEMMA FinishReleaseStep ==
    ASSUME IInv, NEW c \in CPUs, FinishRelease(c)
    PROVE  IInv'
<1> USE DEF IInv
<1> DEFINE t == handoffTask[c]
<1>1. UNCHANGED <<status, affinity, stack, complete, proc, parent, reapBusy, job, victim,
                  waitVars, currentTask, contextSaved, preemptCount, op, opTask>>
  BY DEF FinishRelease
<1>2. /\ t \in Tasks /\ t # NoTask /\ runningCpu[t] = c /\ t # currentTask[c]
      /\ status[t] \in {"WAITING", "SLEEPING", "READY", "FINISHED"}
  <2>1. handoffAction[c] \in {"READY_PUBLISHED", "RELEASE"}
    BY DEF FinishRelease
  <2>2. t # NoTask
    BY <2>1 DEF OwnerInv, HandoffOwned
  <2>3. t \in Tasks /\ t # currentTask[c]
    BY <2>2, OwnerFacts DEF TypeOK
  <2> QED
    BY <2>1, <2>2, <2>3 DEF OwnerInv, HandoffOwned, HandoffStatuses
<1>3. /\ \A u \in Tasks : runningCpu'[u] = IF u = t THEN NoCPU ELSE runningCpu[u]
      /\ \A d \in CPUs : /\ handoffAction'[d] = IF d = c THEN "NONE" ELSE handoffAction[d]
                         /\ handoffTask'[d] = IF d = c THEN NoTask ELSE handoffTask[d]
  BY DEF FinishRelease, TypeOK
<1> HIDE DEF t
<1>4. OwnerInv'
  <2>1. CurrentOwned'
    BY <1>1, <1>2, <1>3, OwnerFacts DEF CurrentOwned
  <2>2. ASSUME NEW d \in CPUs
        PROVE  /\ handoffTask'[d] = NoTask <=> handoffAction'[d] = "NONE"
               /\ handoffTask'[d] # NoTask =>
                     /\ runningCpu'[handoffTask'[d]] = d
                     /\ status[handoffTask'[d]] \in HandoffStatuses(handoffAction'[d])
    <3>1. CASE d = c
      BY <1>3, <3>1
    <3>2. CASE d # c
      <4>1. handoffTask[d] # NoTask => handoffTask[d] \in Tasks /\ handoffTask[d] # t
        BY <1>2, <3>2, OwnerFacts
      <4> QED
        BY <1>3, <3>2, <4>1 DEF OwnerInv, HandoffOwned
    <3> QED
      BY <3>1, <3>2
  <2>3. HandoffOwned'
    BY <1>1, <2>2 DEF HandoffOwned
  <2>4. ASSUME NEW u \in Tasks
        PROVE  /\ runningCpu'[u] # NoCPU =>
                     currentTask[runningCpu'[u]] = u \/ handoffTask'[runningCpu'[u]] = u
               /\ status[u] \in {"RUNNING", "HANDOFF"} => runningCpu'[u] # NoCPU
    <3>1. CASE u = t
      BY <1>2, <1>3, <3>1
    <3>2. CASE u # t
      <4>1. runningCpu[u] # NoCPU => runningCpu[u] \in CPUs
        BY DEF TypeOK
      <4>2. /\ runningCpu[u] # NoCPU =>
                 currentTask[runningCpu[u]] = u \/ handoffTask[runningCpu[u]] = u
            /\ status[u] \in {"RUNNING", "HANDOFF"} => runningCpu[u] # NoCPU
        BY DEF OwnerInv, OwnedOnCpu
      <4> QED
        BY <1>3, <3>2, <4>1, <4>2 DEF t
    <3> QED
      BY <3>1, <3>2
  <2>5. OwnedOnCpu'
    BY <1>1, <2>4 DEF OwnedOnCpu
  <2> QED
    BY <2>1, <2>3, <2>5 DEF OwnerInv
<1>5. StackInv' /\ PinInv'
  BY <1>1, <1>2, <1>3, StackKept, PinKept DEF HoldsStack, User, Dead
<1>6. JobInv'
  BY <1>1, <1>2, <1>3, JobKept DEF JobInv
<1>7. ProcInv' /\ WaitInv'
  BY <1>1, ProcKept, WaitKept
<1>8. ExitWaitersLive' /\ KernelContextSaved'
  BY <1>1, ExitKept, ContextKept DEF waitVars
<1>9. PublishInv'
  BY <1>1, <1>2, <1>3, PublishKept DEF PublishInv, Dead
<1>10. RoomInv'
  BY <1>1, <1>2, <1>3, RoomKept DEF Available, Vacant
<1>11. TypeOK'
  BY TypeKill
<1> QED
  BY <1>4, <1>5, <1>6, <1>7, <1>8, <1>9, <1>10, <1>11

\* A task that a processor may pick up is not the one being published, and it
\* carries no pin.
LEMMA NextFacts ==
    ASSUME IInv, NEW c \in CPUs, Preemptible(c), NEW next \in Tasks, c \in affinity[next],
           runningCpu[next] = NoCPU
    PROVE  /\ status[next] # "RUNNING"
           /\ op[BSP] \in {"published", "published_supervised"} => next # opTask[BSP]
<1>1. op[c] = "none"
  BY Pinned DEF IInv
<1> QED
  BY <1>1 DEF IInv, OwnerInv, OwnedOnCpu, PublishInv

\* The pins of a switch: the task that leaves holds none, nor does the next.
LEMMA SwitchPins ==
    ASSUME TypeOK, PinInv, NEW c \in CPUs, Preemptible(c), NEW next \in Tasks \cup {NoTask},
           next # NoTask => status[next] # "RUNNING",
           \A d \in CPUs : currentTask'[d] = IF d = c THEN next ELSE currentTask[d],
           UNCHANGED <<preemptCount, op>>, \A t \in Tasks : KillPins(t)' = KillPins(t),
           \A u \in Tasks : status'[u] # "RUNNING" => status[u] # "RUNNING" \/ u = currentTask[c]
    PROVE  PinInv'
<1>1. op[c] = "none" /\ KillPins(currentTask[c]) = 0 /\ KillPins(NoTask) = 0
  BY Pinned
<1>2. KillPins(next) = 0
  BY <1>1 DEF PinInv
<1>3. KillPins(NoTask)' = 0 /\ \A d \in CPUs : OpPins(d)' = OpPins(d)
  BY DEF KillPins, OpPins
<1>4. \A d \in CPUs : KillPins(currentTask[d])' = KillPins(currentTask'[d])
  BY <1>1, <1>3 DEF TypeOK
<1>5. ASSUME NEW d \in CPUs PROVE preemptCount[d] = KillPins(currentTask'[d]) + OpPins(d)
  BY <1>1, <1>2 DEF PinInv
<1>6. ASSUME NEW u \in Tasks, status'[u] # "RUNNING" PROVE KillPins(u)' = 0
  BY <1>1, <1>6 DEF PinInv
<1> QED
  BY <1>3, <1>4, <1>5, <1>6 DEF PinInv

\* Saved contexts across a switch from a task.
LEMMA SwitchContext ==
    ASSUME KernelContextSaved, NEW c \in CPUs, currentTask[c] # NoTask, NEW next,
           \A d \in CPUs : currentTask'[d] = IF d = c THEN next ELSE currentTask[d],
           UNCHANGED contextSaved
    PROVE  KernelContextSaved'
BY DEF KernelContextSaved

\* A preemption.
LEMMA PreemptStep ==
    ASSUME IInv, NEW c \in CPUs, NEW next \in Tasks \cup {NoTask}, Preempt(c, next)
    PROVE  IInv'
<1> USE DEF IInv
<1> DEFINE prev == currentTask[c]
<1>1. UNCHANGED <<affinity, stack, complete, proc, parent, reapBusy, job, victim, waitVars,
                  contextSaved, preemptCount, op, opTask>>
  BY DEF Preempt
<1>2. /\ Preemptible(c) /\ handoffTask[c] = NoTask /\ op[c] = "none"
      /\ prev \in Tasks /\ prev # NoTask /\ status[prev] = "RUNNING" /\ runningCpu[prev] = c
      /\ KillPins(prev) = 0
  BY OwnerFacts, Pinned DEF Preempt, Preemptible, Interruptible
<1>3. next \in Selectable(status, c) /\ next # prev /\ SwitchAway(c, prev, "READY", status, next)
  BY DEF Preempt
<1>4. status \in [Tasks -> Statuses] /\ \A u \in Tasks : MayBecome(u, status[u])
  BY DEF TypeOK, MayBecome
<1> HIDE DEF prev
<1>5. /\ next # NoTask => /\ next \in Tasks /\ status[next] = "READY"
                          /\ runningCpu[next] = NoCPU /\ c \in affinity[next]
      /\ \A u \in Tasks :
            /\ status'[u] = IF u = next THEN "RUNNING"
                            ELSE IF u = prev THEN "HANDOFF" ELSE status[u]
            /\ runningCpu'[u] = IF u = next THEN c ELSE runningCpu[u]
      /\ \A d \in CPUs :
            /\ currentTask'[d] = IF d = c THEN next ELSE currentTask[d]
            /\ handoffTask'[d] = IF d = c THEN prev ELSE handoffTask[d]
  BY <1>2, <1>3, <1>4, SwitchFacts DEF prev
<1>6. OwnerInv'
  BY <1>2, <1>3, <1>4, OwnerSwitch DEF prev
<1>7. StackInv'
  BY <1>1, <1>2, <1>5, StackKept, TopologyAssumption DEF HoldsStack, Dead
<1>8. PinInv'
  <2>1. \A t \in Tasks : KillPins(t)' = KillPins(t)
    BY <1>1 DEF KillPins, OuterPin, User
  <2>2. \A u \in Tasks : status'[u] # "RUNNING" => status[u] # "RUNNING" \/ u = currentTask[c]
    BY <1>5 DEF prev
  <2>3. next # NoTask => status[next] # "RUNNING"
    BY <1>5
  <2> QED
    BY <1>1, <1>2, <1>5, <2>1, <2>2, <2>3, SwitchPins
<1>9. JobInv' /\ ProcInv'
  <2>1. \A u \in Tasks : \/ status'[u] = status[u]
                         \/ status[u] \in Active /\ status'[u] \in Active
    BY <1>2, <1>5, TopologyAssumption DEF Active
  <2> QED
    BY <1>1, <2>1, JobKept, ProcKept DEF JobInv, Terminating, Active, Dead
<1>10. WaitInv' /\ ExitWaitersLive'
  BY <1>1, <1>2, <1>5, WaitKept, ExitKept, TopologyAssumption DEF Blocked, waitVars
<1>11. PublishInv'
  <2>1. op[BSP] \in {"published", "published_supervised"} =>
           c # BSP /\ opTask[BSP] # prev /\ opTask[BSP] # next
    BY <1>2, <1>5, NextFacts, TopologyAssumption DEF PublishInv
  <2> QED
    BY <1>1, <1>2, <1>5, <2>1, PublishKept, TopologyAssumption DEF PublishInv, Dead
<1>12. KernelContextSaved'
  BY <1>1, <1>2, <1>5, SwitchContext DEF prev
<1>13. RoomInv'
  <2>1. op[BSP] = "admitted" => c # BSP
    BY <1>2
  <2> QED
    BY <1>1, <1>2, <1>5, <2>1, RoomKept, TopologyAssumption DEF Available, Vacant
<1>14. TypeOK'
  BY TypeSwitch
<1> QED
  BY <1>6, <1>7, <1>8, <1>9, <1>10, <1>11, <1>12, <1>13, <1>14

\* The current task t blocks with the status b: everything but the queues.
LEMMA BlockKeeps ==
    ASSUME IInv, NEW c \in CPUs, NEW t \in Tasks, currentTask[c] = t, AtLeisure(c),
           NEW b \in Blocked, NEW next \in Tasks \cup {NoTask},
           LeaveBlocked(c, t, [status EXCEPT ![t] = b], next),
           UNCHANGED <<affinity, stack, complete, proc, parent, reapBusy, job, victim,
                       contextSaved, preemptCount, op, opTask>>
    PROVE  /\ OwnerInv' /\ StackInv' /\ PinInv' /\ JobInv' /\ ProcInv'
           /\ PublishInv' /\ KernelContextSaved' /\ RoomInv'
           /\ status[t] = "RUNNING"
           /\ \A u \in Tasks :
                 IF u = t THEN status'[u] = b
                 ELSE \/ status'[u] = status[u]
                      \/ status[u] \notin Blocked /\ status'[u] \notin Blocked
<1> USE DEF IInv
<1> DEFINE st == [status EXCEPT ![t] = b]
<1>2. /\ Preemptible(c) /\ handoffTask[c] = NoTask /\ op[c] = "none"
      /\ t # NoTask /\ status[t] = "RUNNING" /\ runningCpu[t] = c
      /\ KillPins(t) = 0
  BY OwnerFacts, Pinned, TopologyAssumption DEF AtLeisure, Preemptible, Interruptible
<1>3. \A u \in Tasks : st[u] = IF u = t THEN b ELSE status[u]
  BY DEF TypeOK
<1>4. /\ st \in [Tasks -> Statuses] /\ \A u \in Tasks : u # t => MayBecome(u, st[u])
      /\ st[t] \in {"WAITING", "SLEEPING", "FINISHED"}
  BY <1>3 DEF TypeOK, MayBecome, Statuses, Blocked
<1>5. next \in Selectable(st, c) /\ SwitchAway(c, t, "RELEASE", st, next)
  BY DEF LeaveBlocked
<1> HIDE DEF st
<1>6. next # t
  BY <1>3, <1>5, TopologyAssumption DEF Selectable, Runnable, Blocked
<1>7. /\ next # NoTask => /\ next \in Tasks /\ status[next] = "READY"
                          /\ runningCpu[next] = NoCPU /\ c \in affinity[next]
      /\ \A u \in Tasks :
            /\ status'[u] = IF u = next THEN "RUNNING" ELSE IF u = t THEN b ELSE status[u]
            /\ runningCpu'[u] = IF u = next THEN c ELSE runningCpu[u]
      /\ \A d \in CPUs :
            /\ currentTask'[d] = IF d = c THEN next ELSE currentTask[d]
            /\ handoffTask'[d] = IF d = c THEN t ELSE handoffTask[d]
  BY <1>2, <1>3, <1>4, <1>5, <1>6, SwitchFacts
<1>8. OwnerInv'
  BY <1>2, <1>4, <1>5, <1>6, OwnerSwitch
<1>9. StackInv'
  BY <1>2, <1>7, StackKept, TopologyAssumption DEF HoldsStack, Dead
<1>10. PinInv'
  <2>1. \A u \in Tasks : KillPins(u)' = KillPins(u)
    BY DEF KillPins, OuterPin, User
  <2>2. \A u \in Tasks : status'[u] # "RUNNING" => status[u] # "RUNNING" \/ u = currentTask[c]
    BY <1>7
  <2>3. next # NoTask => status[next] # "RUNNING"
    BY <1>7
  <2> QED
    BY <1>2, <1>7, <2>1, <2>2, <2>3, SwitchPins
<1>11. JobInv' /\ ProcInv'
  <2>1. \A u \in Tasks : \/ status'[u] = status[u]
                         \/ status[u] \in Active /\ status'[u] \in Active
    BY <1>2, <1>7, TopologyAssumption DEF Active, Blocked
  <2> QED
    BY <2>1, JobKept, ProcKept DEF JobInv, Terminating, Active, Dead
<1>12. PublishInv'
  <2>1. op[BSP] \in {"published", "published_supervised"} =>
           c # BSP /\ opTask[BSP] # t /\ opTask[BSP] # next
    BY <1>2, <1>7, NextFacts, TopologyAssumption DEF PublishInv
  <2> QED
    BY <1>2, <1>7, <2>1, PublishKept, TopologyAssumption DEF PublishInv, Dead
<1>13. KernelContextSaved'
  BY <1>2, <1>7, SwitchContext
<1>14. RoomInv'
  <2>1. op[BSP] = "admitted" => c # BSP
    BY <1>2
  <2>2. op[BSP] = "admitted" => currentTask'[BSP] = currentTask[BSP]
    BY <1>7, <2>1, TopologyAssumption
  <2>3. \A u \in Tasks : status[u] = "FINISHED" => status'[u] = status[u]
                                                 /\ runningCpu'[u] = runningCpu[u]
    BY <1>2, <1>7, TopologyAssumption
  <2> QED
    BY <2>2, <2>3, RoomKept DEF Available, Vacant
<1>15. \A u \in Tasks :
          IF u = t THEN status'[u] = b
          ELSE \/ status'[u] = status[u]
               \/ status[u] \notin Blocked /\ status'[u] \notin Blocked
  BY <1>2, <1>6, <1>7, TopologyAssumption DEF Blocked
<1> QED
  BY <1>2, <1>8, <1>9, <1>10, <1>11, <1>12, <1>13, <1>14, <1>15

\* A task that waits on a queue, or for a child that is still alive.
LEMMA BlockStep ==
    ASSUME IInv, NEW c \in CPUs, NEW q \in Queues \cup Tasks, NEW d \in Deadlines,
           NEW next \in Tasks \cup {NoTask}, BlockOn(c, q, d, next),
           q \in Tasks => parent[q] = currentTask[c] /\ proc[q] \in {"running", "terminating"}
    PROVE  IInv'
<1> DEFINE t == currentTask[c]
<1>1. t \in Tasks /\ node[t] = NoQueue /\ AtLeisure(c)
  BY DEF BlockOn, IInv, TypeOK
<1>2. /\ LeaveBlocked(c, t, [status EXCEPT ![t] = "WAITING"], next)
      /\ UNCHANGED <<affinity, stack, complete, proc, parent, reapBusy, job, victim,
                     contextSaved, preemptCount, op, opTask>>
  BY DEF BlockOn
<1>3. /\ OwnerInv' /\ StackInv' /\ PinInv' /\ JobInv' /\ ProcInv'
      /\ PublishInv' /\ KernelContextSaved' /\ RoomInv'
      /\ \A u \in Tasks :
            IF u = t THEN status'[u] = "WAITING"
            ELSE \/ status'[u] = status[u]
                 \/ status[u] \notin Blocked /\ status'[u] \notin Blocked
  BY <1>1, <1>2, BlockKeeps DEF Blocked
<1>4. q \in WaitQueues /\ q # NoQueue /\ q # SleepQ /\ NoQueue # SleepQ
  BY TopologyAssumption DEF WaitQueues
<1>5. TypeOK'
  BY <1>4, TypeSwitch DEF IInv
<1>6. \A u \in Tasks : /\ node'[u] = (IF u = t THEN q ELSE node[u])
                       /\ ahead'[u] = (IF u = t THEN InQueue(q) ELSE ahead[u])
                       /\ remaining'[u] = (IF u = t THEN d ELSE remaining[u])
  BY DEF BlockOn, Push, IInv, TypeOK
<1> HIDE DEF t
<1>7. WaitInv'
  <2>1. BlockedIffLinked'
    BY <1>3, <1>4, <1>6 DEF BlockedIffLinked, IInv, WaitInv, Blocked
  <2>2. ASSUME NEW u \in Tasks
        PROVE  /\ status'[u] = "SLEEPING" <=> node'[u] = SleepQ
               /\ node'[u] = SleepQ =>
                    /\ remaining'[u] \in Nat \ {0}
                    /\ \A w \in ahead'[u] : node'[w] = SleepQ /\ remaining'[w] <= remaining'[u]
    <3>1. CASE u = t
      BY <1>3, <1>4, <1>6, <3>1
    <3>2. CASE u # t
      <4>1. status'[u] = "SLEEPING" <=> node'[u] = SleepQ
        BY <1>3, <1>6, <3>2 DEF IInv, WaitInv, SleepOrdered, Blocked
      <4>2. ASSUME node[u] = SleepQ
            PROVE  /\ remaining[u] \in Nat \ {0}
                   /\ \A w \in ahead[u] : /\ w \in Tasks /\ w # t
                                          /\ node[w] = SleepQ /\ remaining[w] <= remaining[u]
        BY <1>1, <1>4, <4>2 DEF IInv, WaitInv, SleepOrdered, TypeOK, t
      <4> QED
        BY <1>6, <3>2, <4>1, <4>2
    <3> QED
      BY <3>1, <3>2
  <2> QED
    BY <2>1, <2>2 DEF WaitInv, SleepOrdered
<1>8. ExitWaitersLive'
  BY <1>2, <1>6 DEF IInv, ExitWaitersLive, t
<1> QED
  BY <1>3, <1>5, <1>7, <1>8 DEF IInv

\* A sleeper is linked behind everyone who is due no later.
LEMMA SleepStep ==
    ASSUME IInv, NEW c \in CPUs, NEW ms \in 1..MaxWait, NEW next \in Tasks \cup {NoTask},
           SleepMs(c, ms, next)
    PROVE  IInv'
<1> DEFINE t == currentTask[c]
           passed == {u \in InQueue(SleepQ) : \A v \in ahead[u] \cup {u} : remaining[v] <= ms}
<1>1. t \in Tasks /\ node[t] = NoQueue /\ AtLeisure(c) /\ ms \in Nat \ {0}
  BY TopologyAssumption DEF SleepMs, IInv, TypeOK
<1>2. /\ LeaveBlocked(c, t, [status EXCEPT ![t] = "SLEEPING"], next)
      /\ UNCHANGED <<affinity, stack, complete, proc, parent, reapBusy, job, victim,
                     contextSaved, preemptCount, op, opTask>>
  BY DEF SleepMs
<1>3. /\ OwnerInv' /\ StackInv' /\ PinInv' /\ JobInv' /\ ProcInv'
      /\ PublishInv' /\ KernelContextSaved' /\ RoomInv'
      /\ \A u \in Tasks :
            IF u = t THEN status'[u] = "SLEEPING"
            ELSE \/ status'[u] = status[u]
                 \/ status[u] \notin Blocked /\ status'[u] \notin Blocked
  BY <1>1, <1>2, BlockKeeps DEF Blocked
<1>4. NoQueue # SleepQ
  BY TopologyAssumption
<1>5. TypeOK'
  BY TypeSwitch DEF IInv
<1>6. \A u \in Tasks : /\ node'[u] = (IF u = t THEN SleepQ ELSE node[u])
                       /\ remaining'[u] = (IF u = t THEN ms ELSE remaining[u])
  BY DEF SleepMs, InsertOrdered, IInv, TypeOK
<1>7. \A u \in Tasks :
         ahead'[u] = IF u = t THEN passed
                     ELSE IF node[u] = SleepQ /\ u \notin passed THEN ahead[u] \cup {t}
                          ELSE ahead[u]
  BY DEF SleepMs, InsertOrdered
<1>8. \A u \in Tasks : node[u] = SleepQ =>
          /\ remaining[u] \in Nat \ {0}
          /\ \A w \in ahead[u] : /\ w \in Tasks /\ w # t
                                 /\ node[w] = SleepQ /\ remaining[w] <= remaining[u]
                                 /\ remaining[w] \in Nat
  BY <1>1, <1>4 DEF IInv, WaitInv, SleepOrdered, TypeOK
<1>9. \A u \in passed : u \in Tasks /\ u # t /\ node[u] = SleepQ /\ remaining[u] <= ms
  BY <1>1, <1>4 DEF InQueue
<1>10. ASSUME NEW u \in Tasks, node[u] = SleepQ, u \notin passed PROVE ms <= remaining[u]
  <2>1. PICK v \in ahead[u] \cup {u} : ~(remaining[v] <= ms)
    BY <1>10 DEF InQueue
  <2>2. remaining[v] \in Nat /\ remaining[u] \in Nat /\ remaining[v] <= remaining[u]
    BY <1>8, <1>10, <2>1
  <2> QED
    BY <1>1, <2>1, <2>2
<1> HIDE DEF t, passed
<1>11. WaitInv'
  <2>1. BlockedIffLinked'
    BY <1>3, <1>4, <1>6 DEF BlockedIffLinked, IInv, WaitInv, Blocked
  <2>2. ASSUME NEW u \in Tasks
        PROVE  /\ status'[u] = "SLEEPING" <=> node'[u] = SleepQ
               /\ node'[u] = SleepQ =>
                    /\ remaining'[u] \in Nat \ {0}
                    /\ \A w \in ahead'[u] : node'[w] = SleepQ /\ remaining'[w] <= remaining'[u]
    <3>1. CASE u = t
      BY <1>1, <1>3, <1>6, <1>7, <1>9, <3>1
    <3>2. CASE u # t
      <4>1. status'[u] = "SLEEPING" <=> node'[u] = SleepQ
        BY <1>3, <1>6, <3>2 DEF IInv, WaitInv, SleepOrdered, Blocked
      <4>2. ASSUME node[u] = SleepQ, NEW w \in ahead'[u]
            PROVE  node'[w] = SleepQ /\ remaining'[w] <= remaining[u]
        <5>1. CASE w = t
          <6>1. u \notin passed
            BY <1>7, <1>8, <3>2, <4>2, <5>1
          <6> QED
            BY <1>1, <1>6, <1>10, <4>2, <5>1, <6>1
        <5>2. CASE w # t
          <6>1. w \in ahead[u]
            BY <1>7, <3>2, <4>2, <5>2
          <6> QED
            BY <1>6, <1>8, <4>2, <5>2, <6>1
        <5> QED
          BY <5>1, <5>2
      <4> QED
        BY <1>6, <1>8, <3>2, <4>1, <4>2
    <3> QED
      BY <3>1, <3>2
  <2> QED
    BY <2>1, <2>2 DEF WaitInv, SleepOrdered
<1>12. ExitWaitersLive'
  <2>1. SleepQ \notin Tasks
    BY TopologyAssumption
  <2> QED
    BY <1>2, <1>6, <2>1 DEF IInv, ExitWaitersLive
<1> QED
  BY <1>3, <1>5, <1>11, <1>12 DEF IInv

\* A processor leaves its kernel context for a task.
LEMMA DispatchStep ==
    ASSUME IInv, NEW c \in CPUs, NEW next \in Tasks, DispatchIdle(c, next)
    PROVE  IInv'
<1> USE DEF IInv
<1>1. UNCHANGED <<affinity, stack, complete, proc, parent, reapBusy, job, victim, waitVars,
                  handoffTask, handoffAction, preemptCount, op, opTask>>
  BY DEF DispatchIdle
<1>2. /\ Preemptible(c) /\ handoffTask[c] = NoTask /\ op[c] = "none" /\ currentTask[c] = NoTask
      /\ next # NoTask /\ c # NoCPU
  BY Pinned, TopologyAssumption DEF DispatchIdle, Preemptible, Interruptible
<1>3. status[next] = "READY" /\ runningCpu[next] = NoCPU /\ c \in affinity[next]
  <2>1. next \in Runnable(status, c)
    BY DEF DispatchIdle
  <2> QED
    BY <1>2, <2>1, OwnerFacts DEF Runnable
<1>4. /\ \A u \in Tasks :
            /\ status'[u] = IF u = next THEN "RUNNING" ELSE status[u]
            /\ runningCpu'[u] = IF u = next THEN c ELSE runningCpu[u]
      /\ \A d \in CPUs :
            /\ currentTask'[d] = IF d = c THEN next ELSE currentTask[d]
            /\ contextSaved'[d] = (d = c \/ contextSaved[d])
  BY <1>2 DEF DispatchIdle, ClaimStatus, ClaimCpu, TypeOK
<1>5. OwnerInv'
  <2>1. \A d \in CPUs : currentTask[d] # next /\ handoffTask[d] # next
    BY <1>2, <1>3, OwnerFacts, TopologyAssumption
  <2>2. CurrentOwned'
    <3>1. ASSUME NEW d \in CPUs, currentTask'[d] # NoTask
          PROVE  runningCpu'[currentTask'[d]] = d /\ status'[currentTask'[d]] = "RUNNING"
      BY <1>4, <2>1, <3>1, OwnerFacts
    <3> QED
      BY <3>1 DEF CurrentOwned
  <2>3. HandoffOwned'
    <3>1. ASSUME NEW d \in CPUs, handoffTask[d] # NoTask
          PROVE  /\ runningCpu'[handoffTask[d]] = runningCpu[handoffTask[d]]
                 /\ status'[handoffTask[d]] = status[handoffTask[d]]
      BY <1>4, <2>1, <3>1, OwnerFacts
    <3> QED
      BY <1>1, <3>1 DEF OwnerInv, HandoffOwned
  <2>4. OwnedOnCpu'
    <3>1. ASSUME NEW u \in Tasks
          PROVE  /\ runningCpu'[u] # NoCPU =>
                       currentTask'[runningCpu'[u]] = u \/ handoffTask[runningCpu'[u]] = u
                 /\ status'[u] \in {"RUNNING", "HANDOFF"} => runningCpu'[u] # NoCPU
      <4>1. CASE u = next
        BY <1>2, <1>4, <4>1
      <4>2. CASE u # next
        <5>1. runningCpu[u] # NoCPU => runningCpu[u] \in CPUs
          BY DEF TypeOK
        <5>2. u # NoTask
          BY TopologyAssumption
        <5> QED
          BY <1>2, <1>4, <4>2, <5>1, <5>2 DEF OwnerInv, OwnedOnCpu
      <4> QED
        BY <4>1, <4>2
    <3> QED
      BY <1>1, <3>1 DEF OwnedOnCpu
  <2> QED
    BY <2>2, <2>3, <2>4 DEF OwnerInv
<1>6. StackInv'
  BY <1>1, <1>3, <1>4, StackKept DEF HoldsStack, Dead
<1>7. PinInv'
  <2>1. \A t \in Tasks : KillPins(t)' = KillPins(t)
    BY <1>1 DEF KillPins, OuterPin, User
  <2>2. \A u \in Tasks : status'[u] # "RUNNING" => status[u] # "RUNNING" \/ u = currentTask[c]
    BY <1>4
  <2> QED
    BY <1>1, <1>2, <1>3, <1>4, <2>1, <2>2, SwitchPins
<1>8. JobInv' /\ ProcInv' /\ WaitInv' /\ ExitWaitersLive'
  BY <1>1, <1>3, <1>4, JobKept, ProcKept, WaitKept, ExitKept
     DEF JobInv, Terminating, Active, Dead, Blocked, waitVars
<1>9. PublishInv'
  <2>1. op[BSP] \in {"published", "published_supervised"} => c # BSP /\ opTask[BSP] # next
    BY <1>2, <1>3, NextFacts
  <2> QED
    BY <1>1, <1>3, <1>4, <2>1, PublishKept, TopologyAssumption DEF PublishInv, Dead
<1>10. KernelContextSaved'
  BY <1>4 DEF KernelContextSaved
<1>11. RoomInv'
  <2>1. op[BSP] = "admitted" => currentTask'[BSP] = currentTask[BSP]
    BY <1>2, <1>4, TopologyAssumption
  <2> QED
    BY <1>1, <1>3, <1>4, <2>1, RoomKept DEF Available, Vacant
<1>12. TypeOK'
  BY <1>2, TypeSwitch
<1> QED
  BY <1>5, <1>6, <1>7, <1>8, <1>9, <1>10, <1>11, <1>12

\* What the orphaning of the children of p, as it is seen from c, finds.
LEMMA DeadFacts ==
    ASSUME IInv, NEW c \in CPUs, NEW p \in Tasks, NEW u \in DeadChildren(p)
    PROVE  /\ u \in Tasks /\ status[u] = "FINISHED" /\ proc[u] = "exited" /\ stack[u]
           /\ u \in ReapedChildren(c, p) => runningCpu[u] = NoCPU
           /\ job[u] = "none" /\ node[u] = NoQueue /\ victim[u] = NoTask
<1>1. u \in Tasks /\ status[u] = "FINISHED" /\ proc[u] = "exited"
  BY DEF DeadChildren, IInv, ProcInv
<1>2. stack[u] /\ (u \in ReapedChildren(c, p) => runningCpu[u] = NoCPU)
  BY <1>1 DEF IInv, StackInv, HoldsStack, ReapedChildren, Reapable
<1>3. job[u] = "none"
  BY <1>1 DEF IInv, JobInv, Active
<1>4. node[u] = NoQueue
  BY <1>1 DEF IInv, WaitInv, BlockedIffLinked, Blocked
<1>5. victim[u] = NoTask
  BY <1>1, <1>3 DEF IInv, JobInv
<1> QED
  BY <1>1, <1>2, <1>3, <1>4, <1>5

\* Who waits for p is blocked.
LEMMA WaiterFacts ==
    ASSUME IInv, NEW p \in Tasks, NEW u \in InQueue(p)
    PROVE  u \in Tasks /\ status[u] \in Blocked /\ node[u] = p /\ node[u] # NoQueue
BY TopologyAssumption DEF InQueue, IInv, WaitInv, BlockedIffLinked

\* The end of an exit.
LEMMA CommitExitStep ==
    ASSUME IInv, NEW c \in CPUs, NEW next \in Tasks \cup {NoTask}, CommitExit(c, next)
    PROVE  IInv'
<1> DEFINE t == currentTask[c]
           gone == DeadChildren(t)
           dead == ReapedChildren(c, t)
           st == [ReleaseStatus(WakeStatus(InQueue(t)), dead) EXCEPT ![t] = "FINISHED"]
<1>1. UNCHANGED <<affinity, stack, complete, reapBusy, victim, contextSaved, preemptCount, op,
                  opTask>>
  BY DEF CommitExit
<1>2. /\ Preemptible(c) /\ handoffTask[c] = NoTask /\ op[c] = "none"
      /\ t \in Tasks /\ t # NoTask /\ status[t] = "RUNNING" /\ runningCpu[t] = c
      /\ KillPins(t) = 0
  BY OwnerFacts, Pinned DEF IInv, CommitExit, AtLeisure, Preemptible, Interruptible
<1>3. job[t] \in {"none", "exiting"} /\ node[t] = NoQueue /\ victim[t] = NoTask
  <2>1. job[t] \in {"none", "exiting"}
    BY DEF CommitExit
  <2> QED
    BY <1>2, <2>1 DEF IInv, JobInv, WaitInv, BlockedIffLinked, Blocked
<1>4. /\ \A u \in gone : /\ u \in Tasks /\ status[u] = "FINISHED" /\ proc[u] = "exited" /\ stack[u]
                         /\ job[u] = "none" /\ node[u] = NoQueue /\ victim[u] = NoTask
      /\ \A u \in dead : u \in gone /\ runningCpu[u] = NoCPU
  BY <1>2, DeadFacts DEF ReapedChildren
<1>5. \A u \in InQueue(t) : u \in Tasks /\ status[u] \in Blocked /\ node[u] = t /\ node[u] # NoQueue
  BY <1>2, WaiterFacts
<1>6. \A u \in Tasks :
         st[u] = IF u = t THEN "FINISHED" ELSE IF u \in dead THEN "REAPING"
                 ELSE IF u \in InQueue(t) THEN "READY" ELSE status[u]
  BY <1>2, <1>5 DEF ReleaseStatus, WakeStatus
<1>7. st \in [Tasks -> Statuses]
  BY DEF ReleaseStatus, WakeStatus, IInv, TypeOK, Statuses
<1>8. next \in Selectable(st, c) /\ SwitchAway(c, t, "RELEASE", st, next)
  BY DEF CommitExit, LeaveBlocked
<1>9. /\ \A u \in Tasks : /\ node'[u] = (IF u \in InQueue(t) \cup {t} THEN NoQueue ELSE node[u])
                          /\ parent'[u] = (IF parent[u] = t \/ u \in gone THEN NoTask
                                           ELSE parent[u])
                          /\ job'[u] = (IF u = t THEN "none" ELSE job[u])
                          /\ u # t => proc'[u] = (IF u \in gone THEN "none" ELSE proc[u])
      /\ proc'[t] \in {"exited", "none"}
      /\ Unlink(InQueue(t) \cup {t})
      /\ remaining' = ClearDeadlines(InQueue(t) \cup {t}, remaining)
  BY <1>2 DEF CommitExit, Unlink, Orphan, ReleaseProc, IInv, TypeOK
<1>10. TypeOK'
  BY TypeSwitch DEF IInv
<1> HIDE DEF t, gone, dead, st
<1>11. \A u \in Tasks : u # t => MayBecome(u, st[u])
  BY <1>4, <1>5, <1>6 DEF MayBecome
<1>12. next # t /\ st[t] \in {"WAITING", "SLEEPING", "FINISHED"}
  BY <1>2, <1>6, <1>8 DEF Selectable, Runnable
<1>13. /\ next # NoTask => /\ next \in Tasks /\ st[next] = "READY"
                           /\ runningCpu[next] = NoCPU /\ c \in affinity[next]
       /\ \A u \in Tasks :
             /\ status'[u] = IF u = next THEN "RUNNING" ELSE st[u]
             /\ runningCpu'[u] = IF u = next THEN c ELSE runningCpu[u]
       /\ \A d \in CPUs :
             /\ currentTask'[d] = IF d = c THEN next ELSE currentTask[d]
             /\ handoffTask'[d] = IF d = c THEN t ELSE handoffTask[d]
  BY <1>2, <1>7, <1>8, <1>11, <1>12, SwitchFacts DEF IInv, t
<1>14. OwnerInv'
  BY <1>2, <1>7, <1>8, <1>11, <1>12, OwnerSwitch DEF IInv, t
<1>15. next # NoTask => /\ next # t /\ next \notin dead
                        /\ status[next] = "READY" \/ status[next] \in Blocked
  BY <1>4, <1>5, <1>6, <1>12, <1>13
<1>16. \A u \in Tasks :
          \/ u = t /\ status'[u] = "FINISHED"
          \/ u \in dead /\ u # t /\ status'[u] = "REAPING"
          \/ /\ u \notin dead /\ u # t
             /\ \/ status'[u] = status[u] /\ u \notin InQueue(t)
                \/ /\ status[u] \in Blocked \cup {"READY"} /\ status'[u] \in {"READY", "RUNNING"}
                   /\ u \in InQueue(t) \/ status[u] = "READY"
  <2>1. ASSUME NEW u \in Tasks, u = next
        PROVE  /\ u \notin dead /\ u # t /\ status'[u] = "RUNNING"
               /\ u \in InQueue(t) \/ status[u] = "READY"
    <3>1. next # NoTask
      BY <2>1, TopologyAssumption
    <3> QED
      BY <1>6, <1>13, <1>15, <2>1, <3>1
  <2>2. ASSUME NEW u \in Tasks, u # next PROVE status'[u] = st[u]
    BY <1>13, <2>2
  <2> QED
    BY <1>2, <1>4, <1>5, <1>6, <2>1, <2>2
<1>17. StackInv'
  <2>1. \A u \in Tasks : HoldsStack(u)' => HoldsStack(u)
    <3>1. ASSUME NEW u \in Tasks, HoldsStack(u)' PROVE HoldsStack(u)
      <4>1. CASE u = t
        BY <1>2, <4>1 DEF HoldsStack, Dead
      <4>2. CASE u \in dead
        BY <1>4, <4>2 DEF HoldsStack
      <4>3. CASE u # t /\ u \notin dead /\ u = next
        BY <1>15, <4>3, TopologyAssumption DEF HoldsStack, Dead, Blocked
      <4>4. CASE u # t /\ u \notin dead /\ u # next
        BY <1>4, <1>9, <1>13, <1>16, <3>1, <4>4 DEF HoldsStack, Dead, Blocked
      <4> QED
        BY <4>1, <4>2, <4>3, <4>4
    <3> QED
      BY <3>1
  <2>2. \A u \in Tasks : status[u] = "REAPING" => status'[u] = "REAPING"
    BY <1>2, <1>4, <1>16 DEF Blocked
  <2> QED
    BY <1>1, <2>1, <2>2, StackKept DEF IInv
<1>18. PinInv'
  <2>1. ASSUME NEW u \in Tasks PROVE KillPins(u)' = KillPins(u)
    <3>1. CASE u = t
      BY <1>2, <1>9, <3>1 DEF KillPins
    <3>2. CASE u \in gone /\ u # t
      BY <1>4, <1>9, <3>2 DEF KillPins
    <3>3. CASE u \notin gone /\ u # t
      BY <1>9, <3>3 DEF KillPins, OuterPin, User
    <3> QED
      BY <3>1, <3>2, <3>3
  <2>2. \A u \in Tasks : status'[u] # "RUNNING" => status[u] # "RUNNING" \/ u = currentTask[c]
    BY <1>4, <1>16 DEF t, Blocked
  <2>3. next # NoTask => status[next] # "RUNNING"
    BY <1>15 DEF Blocked
  <2> QED
    BY <1>1, <1>2, <1>13, <2>1, <2>2, <2>3, SwitchPins DEF IInv
<1>19. JobInv'
  <2>1. ASSUME NEW u \in Tasks
        PROVE  /\ \/ job'[u] = job[u]
                  \/ job[u] \in {"none", "exiting"} /\ job'[u] \in {"none", "exiting"}
               /\ status[u] \in Terminating \/ status'[u] \in Terminating =>
                      status'[u] = status[u]
               /\ job'[u] # "none" => status'[u] \in Active
               /\ victim[u] # NoTask => proc'[u] = proc[u]
    <3>1. job[u] # "none" => status[u] \in Active
      BY DEF IInv, JobInv
    <3>2. CASE u = t
      BY <1>2, <1>3, <1>9, <1>16, <3>2 DEF Terminating
    <3>3. CASE u \in gone /\ u # t
      BY <1>4, <1>9, <1>16, <3>3 DEF Terminating, Blocked
    <3>4. CASE u \notin gone /\ u # t
      BY <1>4, <1>9, <1>16, <3>1, <3>4 DEF Terminating, Active, Blocked
    <3> QED
      BY <3>2, <3>3, <3>4
  <2> QED
    BY <1>1, <2>1, JobKept DEF IInv
<1>20. ProcInv'
  <2>1. ASSUME NEW u \in Tasks
        PROVE  /\ status'[u] = "FINISHED" => proc'[u] \in {"none", "exited"}
               /\ status'[u] = "REAPING" => proc'[u] = "none"
               /\ proc'[u] = "exited" => status'[u] = "FINISHED"
               /\ proc'[u] = "terminating" <=> status'[u] \in Terminating \/ job'[u] = "exiting"
    <3>1. CASE u = t
      BY <1>9, <1>16, <3>1 DEF Terminating
    <3>2. CASE u \in gone /\ u # t
      BY <1>4, <1>9, <1>16, <3>2 DEF Terminating, Blocked
    <3>3. CASE u \notin gone /\ u # t
      <4>1. proc'[u] = proc[u] /\ job'[u] = job[u]
        BY <1>9, <3>3
      <4>2. /\ status[u] = "FINISHED" => proc[u] \in {"none", "exited"}
            /\ status[u] = "REAPING" => proc[u] = "none"
            /\ proc[u] = "exited" => status[u] = "FINISHED"
            /\ proc[u] = "terminating" <=> status[u] \in Terminating \/ job[u] = "exiting"
        BY DEF IInv, ProcInv
      <4> QED
        BY <1>4, <1>16, <3>3, <4>1, <4>2 DEF Terminating, Blocked
    <3> QED
      BY <3>1, <3>2, <3>3
  <2> QED
    BY <2>1 DEF ProcInv
<1>21. WaitInv'
  <2>1. InQueue(t) \cup {t} \in SUBSET Tasks
    BY <1>2, <1>5
  <2>2. \A u \in Tasks :
           IF u \in InQueue(t) \cup {t} THEN status'[u] \notin Blocked
           ELSE \/ status'[u] = status[u]
                \/ status[u] \notin Blocked /\ status'[u] \notin Blocked
    BY <1>4, <1>5, <1>16 DEF Blocked
  <2> QED
    BY <1>9, <2>1, <2>2, WaitUnlinked DEF IInv
<1>22. ExitWaitersLive'
  <2>1. ASSUME NEW u \in Tasks, NEW w \in Tasks, node'[w] = u
        PROVE  proc'[u] \in {"running", "terminating"} /\ parent'[u] = w
    <3>1. w \notin InQueue(t) /\ w # t /\ node[w] = u
      BY <1>9, <2>1, TopologyAssumption
    <3>2. proc[u] \in {"running", "terminating"} /\ parent[u] = w /\ u # t
      BY <3>1 DEF IInv, ExitWaitersLive, InQueue
    <3> QED
      BY <1>4, <1>9, <3>1, <3>2
  <2> QED
    BY <2>1 DEF ExitWaitersLive
<1>23. PublishInv'
  <2>1. ASSUME op[BSP] \in {"published", "published_supervised"}
        PROVE  /\ c # BSP /\ opTask[BSP] \in Tasks /\ opTask[BSP] # t /\ opTask[BSP] # next
               /\ opTask[BSP] \notin gone /\ opTask[BSP] \notin InQueue(t)
               /\ status[opTask[BSP]] = "READY" /\ runningCpu[opTask[BSP]] = NoCPU
               /\ proc[opTask[BSP]] = "running"
    <3>1. /\ opTask[BSP] \in Tasks /\ status[opTask[BSP]] = "READY"
          /\ runningCpu[opTask[BSP]] = NoCPU /\ proc[opTask[BSP]] = "running"
      BY <2>1 DEF IInv, PublishInv
    <3>2. opTask[BSP] # next
      BY <1>2, <1>13, <2>1, <3>1, NextFacts, TopologyAssumption
    <3> QED
      BY <1>2, <1>4, <1>5, <2>1, <3>1, <3>2 DEF Blocked
  <2>2. op[BSP] \in {"published", "published_supervised"} =>
           /\ status'[opTask[BSP]] = "READY" /\ runningCpu'[opTask[BSP]] = NoCPU
           /\ proc'[opTask[BSP]] = "running"
           /\ parent'[opTask[BSP]] \in {parent[opTask[BSP]], NoTask}
           /\ currentTask'[BSP] = currentTask[BSP]
    BY <1>4, <1>6, <1>9, <1>13, <2>1, TopologyAssumption
  <2>3. \A u \in Tasks : status'[u] \notin Dead => status[u] \notin Dead
    BY <1>16 DEF Dead, Blocked
  <2> QED
    BY <1>1, <2>2, <2>3, PublishKept DEF IInv
<1>24. KernelContextSaved'
  BY <1>1, <1>2, <1>13, SwitchContext DEF IInv, t
<1>25. RoomInv'
  <2>1. op[BSP] = "admitted" => currentTask'[BSP] = currentTask[BSP]
    BY <1>2, <1>13, TopologyAssumption
  <2>2. stack[t]
    BY <1>2 DEF IInv, StackInv, HoldsStack, Dead
  <2>3. \A u \in Tasks : Vacant(u) => /\ status'[u] = status[u] /\ stack'[u] = stack[u]
                                      /\ runningCpu'[u] = runningCpu[u]
    <3>1. ASSUME NEW u \in Tasks, Vacant(u)
          PROVE  status'[u] = status[u] /\ runningCpu'[u] = runningCpu[u]
      <4>1. u # t /\ u \notin dead /\ u # next
        BY <1>4, <1>15, <2>2, <3>1, TopologyAssumption DEF Vacant, Blocked
      <4> QED
        BY <1>13, <1>16, <3>1, <4>1 DEF Vacant, Blocked
    <3> QED
      BY <1>1, <3>1
  <2> QED
    BY <1>1, <2>1, <2>3, RoomKept DEF IInv, Available, Vacant
<1> QED
  BY <1>10, <1>14, <1>17, <1>18, <1>19, <1>20, <1>21, <1>22, <1>23, <1>24, <1>25 DEF IInv

\* The beginning of an exit: the running task becomes one that nobody can kill.
LEMMA BeginExitStep ==
    ASSUME IInv, NEW c \in CPUs, BeginExit(c)
    PROVE  IInv'
<1> DEFINE t == currentTask[c]
<1>1. UNCHANGED <<status, runningCpu, affinity, stack, complete, parent, reapBusy, victim,
                  waitVars, currentTask, handoffTask, handoffAction, contextSaved,
                  preemptCount, op, opTask>>
  BY DEF BeginExit, cpuVars
<1>2. t \in Tasks /\ t # NoTask /\ job[t] = "none" /\ proc[t] = "running" /\ status[t] = "RUNNING"
  BY OwnerFacts, TopologyAssumption DEF IInv, BeginExit, Free
<1>3. \A u \in Tasks : /\ proc'[u] = IF u = t THEN "terminating" ELSE proc[u]
                       /\ job'[u] = IF u = t THEN "exiting" ELSE job[u]
  BY DEF BeginExit, IInv, TypeOK
<1>4. victim[t] = NoTask
  BY <1>2 DEF IInv, JobInv
<1> HIDE DEF t
<1>5. OwnerInv'
  BY <1>1, OwnerQuiet DEF IInv, MayBecome
<1>6. StackInv'
  BY <1>1, <1>2, <1>3, StackKept DEF IInv, HoldsStack
<1>7. PinInv'
  <2>1. \A u \in Tasks : KillPins(u)' = KillPins(u)
    BY <1>2, <1>3 DEF KillPins, OuterPin, User
  <2>2. KillPins(NoTask)' = KillPins(NoTask) /\ \A d \in CPUs : OpPins(d)' = OpPins(d)
    BY <1>1 DEF KillPins, OpPins
  <2>3. \A d \in CPUs : KillPins(currentTask[d])' = KillPins(currentTask[d])
    BY <1>1, <2>1, <2>2 DEF IInv, TypeOK
  <2> QED
    BY <1>1, <2>1, <2>2, <2>3 DEF IInv, PinInv
<1>8. JobInv'
  BY <1>1, <1>2, <1>3, <1>4, JobKept DEF IInv, JobInv, Active
<1>9. ProcInv'
  BY <1>1, <1>2, <1>3 DEF IInv, ProcInv
<1>10. WaitInv'
  BY <1>1, WaitKept DEF IInv
<1>11. ExitWaitersLive'
  BY <1>1, <1>3 DEF IInv, ExitWaitersLive, waitVars
<1>12. PublishInv'
  BY <1>1, <1>2, <1>3, PublishKept DEF IInv, PublishInv
<1>13. KernelContextSaved' /\ RoomInv'
  BY <1>1, ContextKept, RoomKept DEF IInv, Available, Vacant
<1>14. TypeOK'
  BY TypeKill DEF IInv
<1> QED
  BY <1>5, <1>6, <1>7, <1>8, <1>9, <1>10, <1>11, <1>12, <1>13, <1>14 DEF IInv

\* A task that may be killed is neither killing nor exiting nor being published.
LEMMA VictimFacts ==
    ASSUME IInv, NEW c \in CPUs, NEW v \in Tasks, ReserveTermination(c, v)
    PROVE  /\ job[v] = "none" /\ victim[v] = NoTask
           /\ op[BSP] \in {"published", "published_supervised"} => v # opTask[BSP] /\ c # BSP
           /\ \A j \in Tasks : victim[j] # v
<1>1. /\ proc[v] = "running" /\ runningCpu[v] = NoCPU
      /\ status[v] \in {"READY", "WAITING", "SLEEPING", "PREPARED"}
  BY DEF ReserveTermination, Quiescent
<1>2. job[v] # "exiting"
  BY <1>1 DEF IInv, ProcInv
<1>3. job[v] \notin {"kill_pending", "kill_cleanup"}
  <2>1. KillPins(v) = 0
    BY <1>1 DEF IInv, PinInv
  <2>2. OuterPin(v) = 1 /\ v # NoTask
    BY <1>1, TopologyAssumption DEF OuterPin, User
  <2> QED
    BY <2>1, <2>2 DEF KillPins
<1>4. job[v] = "none"
  BY <1>2, <1>3 DEF IInv, TypeOK, Jobs
<1>5. ASSUME op[BSP] \in {"published", "published_supervised"} PROVE v # opTask[BSP] /\ c # BSP
  <2>1. op[c] = "none" /\ currentTask[c] \in Tasks
    BY DEF ReserveTermination, Free, AtLeisure
  <2>2. c # BSP
    BY <1>5, <2>1
  <2>3. parent[v] = currentTask[c]
    BY <2>2 DEF ReserveTermination
  <2>4. runningCpu[currentTask[c]] = c /\ currentTask[c] # NoTask
    BY <2>1, OwnerFacts, TopologyAssumption DEF IInv
  <2>5. currentTask[BSP] # currentTask[c]
    BY <2>2, <2>4, OwnerFacts, TopologyAssumption DEF IInv
  <2>6. v # opTask[BSP]
    BY <1>5, <2>3, <2>4, <2>5 DEF IInv, PublishInv
  <2> QED
    BY <2>2, <2>6
<1>6. \A j \in Tasks : victim[j] # v
  BY <1>1, TopologyAssumption DEF IInv, JobInv
<1> QED
  BY <1>4, <1>5, <1>6 DEF IInv, JobInv

\* A kill is reserved.
LEMMA ReserveStep ==
    ASSUME IInv, NEW c \in CPUs, NEW v \in Tasks, ReserveTermination(c, v)
    PROVE  IInv'
<1> DEFINE k == currentTask[c]
<1>1. UNCHANGED <<runningCpu, affinity, stack, complete, parent, reapBusy, currentTask,
                  handoffTask, handoffAction, contextSaved, op, opTask>>
  BY DEF ReserveTermination
<1>2. /\ k \in Tasks /\ k # NoTask /\ job[k] = "none" /\ status[k] = "RUNNING" /\ v # k
      /\ op[c] = "none" /\ KillPins(k) = 0 /\ preemptCount[c] = 0 /\ runningCpu[k] = c
  <2>1. k \in Tasks /\ job[k] = "none" /\ op[c] = "none" /\ preemptCount[c] = 0 /\ v # k
    BY DEF ReserveTermination, Free, AtLeisure, Preemptible
  <2>2. k # NoTask
    BY <2>1, TopologyAssumption
  <2> QED
    BY <2>1, <2>2, OwnerFacts DEF IInv, KillPins
<1>3. /\ proc[v] = "running" /\ runningCpu[v] = NoCPU
      /\ status[v] \in {"READY", "WAITING", "SLEEPING", "PREPARED"}
  BY DEF ReserveTermination, Quiescent
<1>4. /\ job[v] = "none" /\ victim[v] = NoTask
      /\ op[BSP] \in {"published", "published_supervised"} => v # opTask[BSP] /\ c # BSP
      /\ \A j \in Tasks : victim[j] # v
  BY VictimFacts
<1>5. \A u \in Tasks :
         /\ status'[u] = IF u = v THEN "TERMINATION_PENDING" ELSE status[u]
         /\ proc'[u] = IF u = v THEN "terminating" ELSE proc[u]
         /\ job'[u] = IF u = k THEN "kill_pending" ELSE job[u]
         /\ victim'[u] = IF u = k THEN v ELSE victim[u]
         /\ node'[u] = IF u = v THEN NoQueue ELSE node[u]
  BY DEF ReserveTermination, CancelWait, Unlink, IInv, TypeOK
<1>6. \A d \in CPUs : preemptCount'[d] = IF d = c THEN 1 + OuterPin(k) ELSE preemptCount[d]
  <2>1. OuterPin(k) \in Nat
    BY DEF OuterPin
  <2> QED
    BY <1>2, <2>1 DEF ReserveTermination, IInv, TypeOK
<1>7. Unlink({v}) /\ remaining' = ClearDeadlines({v}, remaining)
  BY DEF ReserveTermination, CancelWait
<1>8. TypeOK'
  BY TypeKill DEF IInv
<1> HIDE DEF k
<1>9. OwnerInv'
  BY <1>1, <1>3, <1>5, OwnerQuiet DEF IInv, MayBecome
<1>10. StackInv'
  BY <1>1, <1>3, <1>5, StackKept DEF IInv, HoldsStack, Dead
<1>11. PinInv'
  <2>1. \A u \in Tasks : u # k => KillPins(u)' = KillPins(u)
    BY <1>3, <1>5 DEF KillPins, OuterPin, User
  <2>2. KillPins(k)' = 1 + OuterPin(k)
    <3>1. k' = k
      BY <1>1 DEF k
    <3> QED
      BY <1>2, <1>5, <3>1 DEF KillPins, OuterPin, User
  <2>3. KillPins(NoTask)' = KillPins(NoTask) /\ \A d \in CPUs : OpPins(d)' = OpPins(d)
    BY <1>1 DEF KillPins, OpPins
  <2>4. ASSUME NEW d \in CPUs PROVE preemptCount'[d] = KillPins(currentTask[d])' + OpPins(d)
    <3>1. CASE d = c
      <4>1. OpPins(d) = 0 /\ OuterPin(k) \in Nat
        BY <1>2, <3>1 DEF OpPins, OuterPin
      <4> QED
        BY <1>1, <1>6, <2>2, <3>1, <4>1 DEF k
    <3>2. CASE d # c
      <4>1. currentTask[d] \in (Tasks \ {k}) \cup {NoTask}
        BY <1>2, <3>2, OwnerFacts DEF IInv, TypeOK
      <4>2. KillPins(currentTask[d])' = KillPins(currentTask[d])
        BY <1>1, <2>1, <2>3, <4>1
      <4> QED
        BY <1>6, <3>2, <4>2 DEF IInv, PinInv
    <3> QED
      BY <3>1, <3>2
  <2>5. \A u \in Tasks : status'[u] # "RUNNING" => KillPins(u)' = 0
    BY <1>2, <1>3, <1>5, <2>1 DEF IInv, PinInv
  <2> QED
    BY <2>3, <2>4, <2>5 DEF PinInv
<1>12. JobInv'
  <2>1. proc[k] \in {"none", "running"}
    BY <1>2 DEF IInv, ProcInv, TypeOK, ProcStates, Terminating
  <2>2. ASSUME NEW j \in Tasks
        PROVE  /\ job'[j] # "none" => status'[j] \in Active
               /\ job'[j] \in {"kill_pending", "kill_cleanup"} <=> victim'[j] # NoTask
               /\ job'[j] = "kill_pending" => status'[victim'[j]] = "TERMINATION_PENDING"
               /\ job'[j] = "kill_cleanup" => status'[victim'[j]] = "TERMINATING"
               /\ victim'[j] # NoTask => proc'[j] \in {"none", "running"}
    <3>1. CASE j = k
      BY <1>2, <1>5, <2>1, <3>1, TopologyAssumption DEF Active
    <3>2. CASE j # k
      <4>1. victim[j] # NoTask => victim[j] \in Tasks /\ victim[j] # v
        BY <1>4 DEF IInv, TypeOK
      <4>2. victim[j] # NoTask => j # v
        BY <1>4
      <4> QED
        BY <1>4, <1>5, <3>2, <4>1, <4>2 DEF IInv, JobInv
    <3> QED
      BY <3>1, <3>2
  <2>3. \A i, j \in Tasks : victim'[i] # NoTask /\ victim'[j] = victim'[i] => j = i
    BY <1>4, <1>5 DEF IInv, JobInv
  <2>4. \A u \in Tasks : status'[u] \in Terminating => \E j \in Tasks : victim'[j] = u
    <3>1. ASSUME NEW u \in Tasks, status'[u] \in Terminating
          PROVE  \E j \in Tasks : victim'[j] = u
      <4>1. CASE u = v
        BY <1>2, <1>5, <4>1
      <4>2. CASE u # v
        <5>1. PICK j \in Tasks : victim[j] = u
          BY <1>5, <3>1, <4>2 DEF IInv, JobInv
        <5>2. j # k
          <6>1. victim[k] = NoTask
            BY <1>2 DEF IInv, JobInv
          <6> QED
            BY <5>1, <6>1, TopologyAssumption
        <5> QED
          BY <1>5, <5>1, <5>2
      <4> QED
        BY <4>1, <4>2
    <3> QED
      BY <3>1
  <2> QED
    BY <2>2, <2>3, <2>4 DEF JobInv
<1>13. ProcInv'
  BY <1>2, <1>3, <1>4, <1>5 DEF IInv, ProcInv, Terminating
<1>14. WaitInv'
  BY <1>5, <1>7, WaitUnlinked DEF IInv, Blocked
<1>15. ExitWaitersLive'
  BY <1>1, <1>5, TopologyAssumption DEF IInv, ExitWaitersLive
<1>16. PublishInv'
  BY <1>1, <1>3, <1>4, <1>5, PublishKept DEF IInv, PublishInv, Dead
<1>17. KernelContextSaved' /\ RoomInv'
  BY <1>1, <1>3, <1>5, ContextKept, RoomKept DEF IInv, Available, Vacant
<1> QED
  BY <1>8, <1>9, <1>10, <1>11, <1>12, <1>13, <1>14, <1>15, <1>16, <1>17 DEF IInv

\* A reserved kill begins; the processor keeps the pin of the request alone.
LEMMA BeginTerminationStep ==
    ASSUME IInv, NEW c \in CPUs, BeginTermination(c)
    PROVE  IInv'
<1> DEFINE k == currentTask[c]
           v == victim[k]
<1>1. UNCHANGED <<runningCpu, affinity, stack, complete, proc, parent, reapBusy, victim,
                  waitVars, currentTask, handoffTask, handoffAction, contextSaved, op, opTask>>
  BY DEF BeginTermination
<1>2. /\ k \in Tasks /\ k # NoTask /\ job[k] = "kill_pending" /\ status[k] = "RUNNING"
      /\ runningCpu[k] = c
  BY OwnerFacts DEF IInv, BeginTermination
<1>3. v \in Tasks /\ status[v] = "TERMINATION_PENDING" /\ runningCpu[v] = NoCPU
  BY <1>2 DEF BeginTermination, IInv, JobInv, TypeOK
<1>4. \A u \in Tasks :
         /\ status'[u] = IF u = v THEN "TERMINATING" ELSE status[u]
         /\ job'[u] = IF u = k THEN "kill_cleanup" ELSE job[u]
  BY DEF BeginTermination, IInv, TypeOK
<1>5. \A d \in CPUs : preemptCount'[d] = IF d = c THEN preemptCount[c] - 1 ELSE preemptCount[d]
  BY DEF BeginTermination, IInv, TypeOK
<1>6. k' = k /\ v' = v
  BY <1>1
<1>7. TypeOK'
  BY TypeKill DEF IInv
<1> HIDE DEF k, v
<1>8. OwnerInv'
  BY <1>1, <1>3, <1>4, OwnerQuiet DEF IInv, MayBecome
<1>9. StackInv'
  BY <1>1, <1>3, <1>4, StackKept DEF IInv, HoldsStack, Dead
<1>10. PinInv'
  <2>1. \A u \in Tasks : u # k => KillPins(u)' = KillPins(u)
    BY <1>1, <1>4 DEF KillPins, OuterPin, User
  <2>2. KillPins(k)' = OuterPin(k) /\ KillPins(k) = 1 + OuterPin(k) /\ OuterPin(k) \in Nat
    BY <1>1, <1>2, <1>4, <1>6 DEF KillPins, OuterPin, User
  <2>3. KillPins(NoTask)' = KillPins(NoTask) /\ \A d \in CPUs : OpPins(d)' = OpPins(d)
    BY <1>1 DEF KillPins, OpPins
  <2>4. ASSUME NEW d \in CPUs PROVE preemptCount'[d] = KillPins(currentTask[d])' + OpPins(d)
    <3>1. preemptCount[d] = KillPins(currentTask[d]) + OpPins(d) /\ OpPins(d) \in Nat
      BY DEF IInv, PinInv, OpPins
    <3>2. CASE d = c
      BY <1>5, <1>6, <2>2, <3>1, <3>2 DEF k
    <3>3. CASE d # c
      <4>1. currentTask[d] \in (Tasks \ {k}) \cup {NoTask}
        BY <1>2, <3>3, OwnerFacts DEF IInv, TypeOK
      <4>2. KillPins(currentTask[d])' = KillPins(currentTask[d])
        BY <1>1, <2>1, <2>3, <4>1
      <4> QED
        BY <1>5, <3>1, <3>3, <4>2
    <3> QED
      BY <3>2, <3>3
  <2>5. \A u \in Tasks : status'[u] # "RUNNING" => KillPins(u)' = 0
    BY <1>2, <1>3, <1>4, <2>1 DEF IInv, PinInv
  <2> QED
    BY <2>3, <2>4, <2>5 DEF PinInv
<1>11. JobInv'
  <2>1. ASSUME NEW j \in Tasks
        PROVE  /\ job'[j] # "none" => status'[j] \in Active
               /\ job'[j] \in {"kill_pending", "kill_cleanup"} <=> victim[j] # NoTask
               /\ job'[j] = "kill_pending" => status'[victim[j]] = "TERMINATION_PENDING"
               /\ job'[j] = "kill_cleanup" => status'[victim[j]] = "TERMINATING"
               /\ victim[j] # NoTask => proc[j] \in {"none", "running"}
    <3>1. CASE j = k
      <4>1. victim[k] = v /\ v # NoTask /\ v # k
        BY <1>2, <1>3, TopologyAssumption DEF v
      <4> QED
        BY <1>2, <1>3, <1>4, <3>1, <4>1 DEF Active, IInv, JobInv
    <3>2. CASE j # k
      <4>1. victim[j] # NoTask => victim[j] \in Tasks /\ victim[j] # v
        BY <1>2, <1>3, <3>2 DEF IInv, TypeOK, JobInv, v
      <4>2. job[j] # "none" => j # v
        BY <1>3 DEF IInv, JobInv, Active
      <4> QED
        BY <1>4, <3>2, <4>1, <4>2 DEF IInv, JobInv
    <3> QED
      BY <3>1, <3>2
  <2>2. \A u \in Tasks : status'[u] \in Terminating => \E j \in Tasks : victim[j] = u
    BY <1>3, <1>4 DEF IInv, JobInv, Terminating
  <2> QED
    BY <1>1, <2>1, <2>2 DEF JobInv, IInv
<1>12. ProcInv'
  BY <1>1, <1>2, <1>3, <1>4 DEF IInv, ProcInv, Terminating
<1>13. WaitInv' /\ ExitWaitersLive'
  BY <1>1, <1>3, <1>4, WaitKept, ExitKept DEF IInv, Blocked, waitVars
<1>14. PublishInv'
  BY <1>1, <1>3, <1>4, PublishKept DEF IInv, PublishInv, Dead
<1>15. KernelContextSaved' /\ RoomInv'
  BY <1>1, <1>3, <1>4, ContextKept, RoomKept DEF IInv, Available, Vacant
<1> QED
  BY <1>7, <1>8, <1>9, <1>10, <1>11, <1>12, <1>13, <1>14, <1>15 DEF IInv

\* A kill ends: the victim is dead, its waiters are awake, its children orphans.
LEMMA CommitTerminationStep ==
    ASSUME IInv, NEW c \in CPUs, CommitTermination(c)
    PROVE  IInv'
<1> DEFINE k == currentTask[c]
           v == victim[k]
           gone == DeadChildren(v)
           dead == ReapedChildren(c, v)
<1>1. UNCHANGED <<runningCpu, affinity, stack, complete, reapBusy, currentTask, handoffTask,
                  handoffAction, contextSaved, op, opTask>>
  BY DEF CommitTermination
<1>2. /\ k \in Tasks /\ k # NoTask /\ job[k] = "kill_cleanup" /\ status[k] = "RUNNING"
      /\ runningCpu[k] = c
  BY OwnerFacts DEF IInv, CommitTermination
<1>3. v \in Tasks /\ v # NoTask /\ status[v] = "TERMINATING" /\ v # k
  <2>1. v \in Tasks /\ v # NoTask /\ status[v] = "TERMINATING"
    BY <1>2 DEF IInv, JobInv, TypeOK
  <2> QED
    BY <1>2, <2>1
<1>4. /\ runningCpu[v] = NoCPU /\ node[v] = NoQueue /\ job[v] = "none"
      /\ victim[v] = NoTask /\ stack[v]
  <2>1. runningCpu[v] = NoCPU
    <3>1. runningCpu[v] \in CPUs \cup {NoCPU}
      BY <1>3 DEF IInv, TypeOK
    <3>2. runningCpu[v] \notin CPUs
      BY <1>3, OwnerFacts DEF IInv
    <3> QED
      BY <3>1, <3>2
  <2> QED
    BY <1>3, <2>1 DEF IInv, WaitInv, BlockedIffLinked, Blocked, JobInv, Active, StackInv,
                      HoldsStack, Dead
<1>5. /\ \A u \in gone : /\ u \in Tasks /\ status[u] = "FINISHED" /\ proc[u] = "exited" /\ stack[u]
                         /\ job[u] = "none" /\ node[u] = NoQueue /\ victim[u] = NoTask
      /\ \A u \in dead : u \in gone /\ runningCpu[u] = NoCPU
  BY <1>3, DeadFacts DEF ReapedChildren
<1>6. \A u \in InQueue(v) : u \in Tasks /\ status[u] \in Blocked /\ node[u] = v /\ node[u] # NoQueue
  BY <1>3, WaiterFacts
<1>7. \A u \in Tasks :
         /\ status'[u] = IF u = v THEN "FINISHED" ELSE IF u \in dead THEN "REAPING"
                         ELSE IF u \in InQueue(v) THEN "READY" ELSE status[u]
         /\ node'[u] = IF u \in InQueue(v) \cup {v} THEN NoQueue ELSE node[u]
  BY <1>3, <1>6 DEF CommitTermination, ReleaseStatus, WakeStatus, Unlink
<1>8. \A u \in Tasks :
         /\ parent'[u] = IF parent[u] = v \/ u \in gone THEN NoTask ELSE parent[u]
         /\ job'[u] = IF u = k THEN "none" ELSE job[u]
         /\ victim'[u] = IF u = k THEN NoTask ELSE victim[u]
         /\ proc'[u] = IF u = v THEN "exited" ELSE IF u \in gone THEN "none" ELSE proc[u]
  BY <1>2, <1>3 DEF CommitTermination, Orphan, ReleaseProc, IInv, TypeOK
<1>9. \A d \in CPUs : preemptCount'[d] = IF d = c THEN preemptCount[c] - OuterPin(k)
                                         ELSE preemptCount[d]
  BY DEF CommitTermination, PinsLeft, IInv, TypeOK
<1>10. Unlink(InQueue(v) \cup {v}) /\ remaining' = ClearDeadlines(InQueue(v) \cup {v}, remaining)
  BY DEF CommitTermination
<1>11. TypeOK'
  BY TypeKill DEF IInv
<1>12. k' = k
  BY <1>1
<1> HIDE DEF k, v, gone, dead
<1>13. k \notin dead /\ k \notin InQueue(v) /\ v \notin dead /\ v \notin InQueue(v)
  BY <1>2, <1>3, <1>5, <1>6 DEF Blocked
<1>14. OwnerInv'
  BY <1>1, <1>4, <1>5, <1>6, <1>7, OwnerQuiet DEF IInv, MayBecome
<1>15. StackInv'
  <2>1. \A u \in Tasks : HoldsStack(u)' => HoldsStack(u)
    BY <1>1, <1>3, <1>5, <1>6, <1>7, <1>8 DEF HoldsStack, Dead, Blocked
  <2>2. \A u \in Tasks : status[u] = "REAPING" => status'[u] = "REAPING"
    BY <1>3, <1>5, <1>6, <1>7 DEF Blocked
  <2> QED
    BY <1>1, <2>1, <2>2, StackKept DEF IInv
<1>16. PinInv'
  <2>1. ASSUME NEW u \in Tasks, u # k PROVE KillPins(u)' = KillPins(u)
    <3>1. CASE u = v \/ u \in gone
      BY <1>4, <1>5, <1>8, <2>1, <3>1 DEF KillPins
    <3>2. CASE u # v /\ u \notin gone
      BY <1>8, <2>1, <3>2 DEF KillPins, OuterPin, User
    <3> QED
      BY <3>1, <3>2
  <2>2. KillPins(k)' = 0 /\ KillPins(k) = OuterPin(k) /\ OuterPin(k) \in Nat
    BY <1>2, <1>8, <1>12 DEF KillPins, OuterPin
  <2>3. KillPins(NoTask)' = KillPins(NoTask) /\ \A d \in CPUs : OpPins(d)' = OpPins(d)
    BY <1>1 DEF KillPins, OpPins
  <2>4. ASSUME NEW d \in CPUs PROVE preemptCount'[d] = KillPins(currentTask[d])' + OpPins(d)
    <3>1. preemptCount[d] = KillPins(currentTask[d]) + OpPins(d) /\ OpPins(d) \in Nat
      BY DEF IInv, PinInv, OpPins
    <3>2. CASE d = c
      BY <1>9, <1>12, <2>2, <3>1, <3>2 DEF k
    <3>3. CASE d # c
      <4>1. currentTask[d] \in (Tasks \ {k}) \cup {NoTask}
        BY <1>2, <3>3, OwnerFacts DEF IInv, TypeOK
      <4>2. KillPins(currentTask[d])' = KillPins(currentTask[d])
        BY <1>1, <2>1, <2>3, <4>1
      <4> QED
        BY <1>9, <3>1, <3>3, <4>2
    <3> QED
      BY <3>2, <3>3
  <2>5. ASSUME NEW u \in Tasks, status'[u] # "RUNNING" PROVE KillPins(u)' = 0
    <3>1. status[u] # "RUNNING" /\ u # k
      BY <1>2, <1>3, <1>5, <1>6, <1>7, <1>13, <2>5 DEF Blocked
    <3> QED
      BY <2>1, <3>1 DEF IInv, PinInv
  <2> QED
    BY <2>3, <2>4, <2>5 DEF PinInv
<1>17. JobInv'
  <2>1. ASSUME NEW j \in Tasks
        PROVE  /\ job'[j] # "none" => status'[j] \in Active
               /\ job'[j] \in {"kill_pending", "kill_cleanup"} <=> victim'[j] # NoTask
               /\ job'[j] = "kill_pending" => status'[victim'[j]] = "TERMINATION_PENDING"
               /\ job'[j] = "kill_cleanup" => status'[victim'[j]] = "TERMINATING"
               /\ victim'[j] # NoTask => proc'[j] \in {"none", "running"}
    <3>1. CASE j = k
      BY <1>8, <3>1
    <3>2. CASE j # k
      <4>1. job'[j] = job[j] /\ victim'[j] = victim[j]
        BY <1>8, <3>2
      <4>2. ASSUME job[j] # "none" PROVE status'[j] \in Active /\ proc'[j] = proc[j]
        BY <1>4, <1>5, <1>7, <1>8, <4>2 DEF IInv, JobInv, Active
      <4>3. ASSUME victim[j] # NoTask PROVE status'[victim[j]] = status[victim[j]]
        <5>1. victim[j] \in Tasks /\ victim[j] # v /\ status[victim[j]] \in Terminating
          BY <1>2, <1>3, <3>2, <4>3 DEF IInv, TypeOK, JobInv, v, Terminating
        <5> QED
          BY <1>5, <1>6, <1>7, <5>1 DEF Terminating, Blocked
      <4> QED
        BY <4>1, <4>2, <4>3 DEF IInv, JobInv
    <3> QED
      BY <3>1, <3>2
  <2>2. \A i, j \in Tasks : victim'[i] # NoTask /\ victim'[j] = victim'[i] => j = i
    BY <1>8 DEF IInv, JobInv
  <2>3. ASSUME NEW u \in Tasks, status'[u] \in Terminating
        PROVE  \E j \in Tasks : victim'[j] = u
    <3>1. status[u] \in Terminating /\ u # v
      BY <1>7, <2>3 DEF Terminating
    <3>2. PICK j \in Tasks : victim[j] = u
      BY <3>1 DEF IInv, JobInv
    <3>3. j # k
      BY <3>1, <3>2 DEF v
    <3> QED
      BY <1>8, <3>2, <3>3
  <2> QED
    BY <2>1, <2>2, <2>3 DEF JobInv
<1>18. ProcInv'
  <2>1. ASSUME NEW u \in Tasks
        PROVE  /\ status'[u] = "FINISHED" => proc'[u] \in {"none", "exited"}
               /\ status'[u] = "REAPING" => proc'[u] = "none"
               /\ proc'[u] = "exited" => status'[u] = "FINISHED"
               /\ proc'[u] = "terminating" <=> status'[u] \in Terminating \/ job'[u] = "exiting"
    <3>1. CASE u = v
      BY <1>3, <1>4, <1>7, <1>8, <3>1 DEF Terminating
    <3>2. CASE u \in gone /\ u # v
      BY <1>5, <1>6, <1>7, <1>8, <3>2 DEF Terminating, Blocked
    <3>3. CASE u \notin gone /\ u # v
      <4>1. proc'[u] = proc[u] /\ (job'[u] = "exiting" <=> job[u] = "exiting")
        BY <1>2, <1>8, <3>3
      <4>2. \/ status'[u] = status[u]
            \/ status'[u] = "READY" /\ status[u] \in Blocked
        BY <1>5, <1>6, <1>7, <3>3
      <4> QED
        BY <4>1, <4>2 DEF Terminating, Blocked, IInv, ProcInv
    <3> QED
      BY <3>1, <3>2, <3>3
  <2> QED
    BY <2>1 DEF ProcInv
<1>19. WaitInv'
  <2>1. InQueue(v) \cup {v} \in SUBSET Tasks
    BY <1>3, <1>6
  <2>2. \A u \in Tasks :
           IF u \in InQueue(v) \cup {v} THEN status'[u] \notin Blocked
           ELSE \/ status'[u] = status[u]
                \/ status[u] \notin Blocked /\ status'[u] \notin Blocked
    BY <1>5, <1>6, <1>7 DEF Blocked
  <2> QED
    BY <1>10, <2>1, <2>2, WaitUnlinked DEF IInv
<1>20. ExitWaitersLive'
  <2>1. ASSUME NEW u \in Tasks, NEW w \in Tasks, node'[w] = u
        PROVE  proc'[u] \in {"running", "terminating"} /\ parent'[u] = w
    <3>1. w \notin InQueue(v) /\ w # v /\ node[w] = u
      BY <1>7, <2>1, TopologyAssumption
    <3>2. proc[u] \in {"running", "terminating"} /\ parent[u] = w /\ u # v
      BY <3>1 DEF IInv, ExitWaitersLive, InQueue
    <3> QED
      BY <1>5, <1>8, <3>1, <3>2
  <2> QED
    BY <2>1 DEF ExitWaitersLive
<1>21. PublishInv'
  <2>1. op[BSP] \in {"published", "published_supervised"} =>
           /\ status'[opTask[BSP]] = "READY" /\ runningCpu'[opTask[BSP]] = NoCPU
           /\ proc'[opTask[BSP]] = "running"
           /\ parent'[opTask[BSP]] \in {parent[opTask[BSP]], NoTask}
           /\ currentTask'[BSP] = currentTask[BSP]
    BY <1>1, <1>3, <1>5, <1>6, <1>7, <1>8 DEF IInv, PublishInv
  <2>2. \A u \in Tasks : status'[u] \notin Dead => status[u] \notin Dead
    BY <1>6, <1>7 DEF Dead, Blocked
  <2> QED
    BY <1>1, <2>1, <2>2, PublishKept DEF IInv
<1>22. KernelContextSaved' /\ RoomInv'
  <2>1. \A u \in Tasks : Vacant(u) => status'[u] = status[u]
    BY <1>5, <1>6, <1>7 DEF Vacant, Blocked
  <2> QED
    BY <1>1, <2>1, ContextKept, RoomKept DEF IInv, Available, Vacant
<1> QED
  BY <1>11, <1>14, <1>15, <1>16, <1>17, <1>18, <1>19, <1>20, <1>21, <1>22 DEF IInv

\* Quiescent dead tasks go to the reaper, whoever finds them.
LEMMA ReleaseStep ==
    ASSUME IInv, NEW c \in CPUs, ReleaseFinished(c) \/ \E child \in Tasks : CollectChild(c, child)
    PROVE  IInv'
<1>1. UNCHANGED <<runningCpu, affinity, stack, complete, reapBusy, job, victim, waitVars,
                  currentTask, handoffTask, handoffAction, contextSaved, preemptCount, op,
                  opTask>>
  BY DEF ReleaseFinished, CollectChild, cpuVars
<1>2. PICK S \in SUBSET Tasks, F \in SUBSET Tasks :
         /\ S \subseteq F
         /\ \A u \in S : Reapable(c, u)
         /\ \A u \in F : status[u] = "FINISHED" /\ (stack[u] \/ User(u))
         /\ \A u \in Tasks : /\ status'[u] = IF u \in S THEN "REAPING" ELSE status[u]
                             /\ proc'[u] = IF u \in F THEN "none" ELSE proc[u]
                             /\ parent'[u] = IF u \in F THEN NoTask ELSE parent[u]
  <2>1. CASE ReleaseFinished(c)
    <3> DEFINE S == {t \in Tasks : Reapable(c, t) /\ (stack[t] \/ User(t))}
    <3>1. /\ \A u \in S : Reapable(c, u)
          /\ \A u \in S : status[u] = "FINISHED" /\ (stack[u] \/ User(u))
          /\ \A u \in Tasks : /\ status'[u] = IF u \in S THEN "REAPING" ELSE status[u]
                              /\ proc'[u] = IF u \in S THEN "none" ELSE proc[u]
                              /\ parent'[u] = IF u \in S THEN NoTask ELSE parent[u]
      BY <2>1 DEF ReleaseFinished, ReleaseStatus, ReleaseProc, Reapable
    <3>2. S \in SUBSET Tasks /\ S \subseteq S
      OBVIOUS
    <3> HIDE DEF S
    <3> QED
      BY <3>1, <3>2
  <2>2. ASSUME NEW child \in Tasks, CollectChild(c, child)
        PROVE  \E S \in SUBSET Tasks, F \in SUBSET Tasks :
                 /\ S \subseteq F
                 /\ \A u \in S : Reapable(c, u)
                 /\ \A u \in F : status[u] = "FINISHED" /\ (stack[u] \/ User(u))
                 /\ \A u \in Tasks : /\ status'[u] = IF u \in S THEN "REAPING" ELSE status[u]
                                     /\ proc'[u] = IF u \in F THEN "none" ELSE proc[u]
                                     /\ parent'[u] = IF u \in F THEN NoTask ELSE parent[u]
    <3> DEFINE S == {t \in {child} : Reapable(c, t)}
               F == {child}
    <3>1. S \in SUBSET Tasks /\ F \in SUBSET Tasks /\ S \subseteq F /\ \A u \in S : Reapable(c, u)
      OBVIOUS
    <3>2. \A u \in F : status[u] = "FINISHED" /\ (stack[u] \/ User(u))
      BY <2>2 DEF CollectChild, User, IInv, ProcInv
    <3>3. \A u \in Tasks : /\ status'[u] = IF u \in S THEN "REAPING" ELSE status[u]
                           /\ proc'[u] = IF u \in F THEN "none" ELSE proc[u]
                           /\ parent'[u] = IF u \in F THEN NoTask ELSE parent[u]
      BY <2>2 DEF CollectChild, ReleaseStatus, ReleaseProc, IInv, TypeOK
    <3> HIDE DEF S, F
    <3> QED
      BY <3>1, <3>2, <3>3
  <2> QED
    BY <2>1, <2>2
<1>3. /\ \A u \in F : /\ u \in Tasks /\ status[u] = "FINISHED" /\ stack[u]
                      /\ proc[u] \in {"none", "exited"} /\ job[u] = "none" /\ victim[u] = NoTask
      /\ \A u \in S : u \in F /\ runningCpu[u] = NoCPU
  <2>1. ASSUME NEW u \in F
        PROVE  /\ u \in Tasks /\ status[u] = "FINISHED" /\ stack[u]
               /\ proc[u] \in {"none", "exited"} /\ job[u] = "none" /\ victim[u] = NoTask
    <3>1. u \in Tasks /\ status[u] = "FINISHED"
      BY <1>2
    <3>2. stack[u]
      BY <1>2, <3>1 DEF User, IInv, StackInv, HoldsStack
    <3>3. proc[u] \in {"none", "exited"} /\ job[u] = "none"
      BY <3>1 DEF IInv, ProcInv, JobInv, Active
    <3> QED
      BY <3>1, <3>2, <3>3 DEF IInv, JobInv
  <2> QED
    BY <1>2, <2>1 DEF Reapable
<1>4. OwnerInv'
  BY <1>1, <1>2, <1>3, OwnerQuiet DEF IInv, MayBecome
<1>5. StackInv'
  BY <1>1, <1>2, <1>3, StackKept DEF IInv, HoldsStack, Dead
<1>6. PinInv'
  BY <1>1, <1>2, <1>3, PinKept DEF IInv, User
<1>7. JobInv'
  <2>1. \A u \in Tasks : job[u] # "none" => status'[u] \in Active
    BY <1>2, <1>3 DEF IInv, JobInv
  <2>2. \A u \in Tasks : status[u] \in Terminating \/ status'[u] \in Terminating =>
                             status'[u] = status[u]
    BY <1>2, <1>3 DEF Terminating
  <2> QED
    BY <1>1, <1>2, <1>3, <2>1, <2>2, JobKept DEF IInv
<1>8. ProcInv'
  BY <1>1, <1>2, <1>3 DEF IInv, ProcInv, Terminating
<1>9. WaitInv'
  BY <1>1, <1>2, <1>3, WaitKept DEF IInv, Blocked
<1>10. ExitWaitersLive'
  BY <1>1, <1>2, <1>3 DEF IInv, ExitWaitersLive, waitVars
<1>11. PublishInv'
  BY <1>1, <1>2, <1>3, PublishKept DEF IInv, PublishInv, Dead
<1>12. KernelContextSaved' /\ RoomInv'
  BY <1>1, <1>2, <1>3, ContextKept, RoomKept DEF IInv, Available, Vacant
<1>13. TypeOK'
  BY TypeCreate DEF IInv
<1> QED
  BY <1>4, <1>5, <1>6, <1>7, <1>8, <1>9, <1>10, <1>11, <1>12, <1>13 DEF IInv

\* Pins of a processor that begins or ends an operation of its own.
LEMMA OpPinned ==
    ASSUME TypeOK, PinInv, UNCHANGED <<currentTask, job>>, NEW c \in CPUs,
           \A t \in Tasks : /\ status'[t] # "RUNNING" => status[t] # "RUNNING"
                            /\ (User(t)' <=> User(t)) \/ job[t] = "none",
           \A d \in CPUs : d # c => preemptCount'[d] = preemptCount[d] /\ op'[d] = op[d],
           \/ op[c] = "none" /\ op'[c] # "none" /\ preemptCount'[c] = preemptCount[c] + 1
           \/ op[c] # "none" /\ op'[c] = "none" /\ preemptCount'[c] = preemptCount[c] - 1
           \/ op[c] # "none" /\ op'[c] # "none" /\ preemptCount'[c] = preemptCount[c]
    PROVE  PinInv'
<1>1. \A t \in Tasks : KillPins(t)' = KillPins(t) /\ KillPins(t) \in Nat
  BY Pinned DEF KillPins, OuterPin
<1>2. KillPins(NoTask)' = 0 /\ KillPins(NoTask) = 0
  BY DEF KillPins
<1>3. \A d \in CPUs : /\ KillPins(currentTask[d])' = KillPins(currentTask[d])
                      /\ KillPins(currentTask[d]) \in Nat
  BY <1>1, <1>2 DEF TypeOK
<1>4. ASSUME NEW d \in CPUs PROVE preemptCount'[d] = KillPins(currentTask[d]) + OpPins(d)'
  <2>1. preemptCount[d] = KillPins(currentTask[d]) + OpPins(d) /\ KillPins(currentTask[d]) \in Nat
    BY <1>3 DEF PinInv
  <2> QED
    BY <2>1 DEF OpPins
<1>5. \A u \in Tasks : status'[u] # "RUNNING" => KillPins(u)' = 0
  BY <1>1 DEF PinInv
<1> QED
  BY <1>3, <1>4, <1>5 DEF PinInv

\* The reaper takes a slot nobody works on.
LEMMA TakeStep ==
    ASSUME IInv, NEW c \in CPUs, NEW t \in Tasks, TakeForReaping(c, t)
    PROVE  IInv'
<1>1. UNCHANGED <<status, runningCpu, affinity, stack, complete, proc, parent, job, victim,
                  waitVars, currentTask, handoffTask, handoffAction, contextSaved>>
  BY DEF TakeForReaping
<1>2. op[c] = "none" /\ status[t] = "REAPING" /\ ~reapBusy[t] /\ stack[t]
  BY DEF TakeForReaping, AtLeisure, Teardown
<1>3. /\ \A u \in Tasks : reapBusy'[u] = (u = t \/ reapBusy[u])
      /\ \A d \in CPUs : /\ op'[d] = IF d = c THEN "reaping" ELSE op[d]
                         /\ opTask'[d] = IF d = c THEN t ELSE opTask[d]
                         /\ preemptCount'[d] = IF d = c THEN preemptCount[c] + 1
                                               ELSE preemptCount[d]
  BY DEF TakeForReaping, IInv, TypeOK
<1>4. OwnerInv' /\ JobInv' /\ ProcInv' /\ WaitInv' /\ ExitWaitersLive' /\ KernelContextSaved'
  BY <1>1, OwnerQuiet, JobKept, ProcKept, WaitKept, ExitKept, ContextKept
     DEF IInv, MayBecome, JobInv, waitVars
<1>5. StackInv'
  <2>1. \A u \in Tasks : HoldsStack(u)' => stack'[u]
    BY <1>1 DEF IInv, StackInv, HoldsStack
  <2>2. ASSUME NEW d \in CPUs, op'[d] = "reaping"
        PROVE  /\ opTask'[d] \in Tasks /\ reapBusy'[opTask'[d]]
               /\ stack[opTask'[d]] /\ status[opTask'[d]] = "REAPING"
               /\ \A e \in CPUs : op'[e] = "reaping" /\ opTask'[e] = opTask'[d] => d = e
    <3>1. \A e \in CPUs : op[e] = "reaping" =>
             /\ opTask[e] \in Tasks /\ reapBusy[opTask[e]] /\ opTask[e] # t
             /\ stack[opTask[e]] /\ status[opTask[e]] = "REAPING"
             /\ \A f \in CPUs : op[f] = "reaping" /\ opTask[f] = opTask[e] => e = f
      BY <1>2 DEF IInv, StackInv
    <3>2. CASE d = c
      <4>1. opTask'[d] = t /\ reapBusy'[t]
        BY <1>3, <3>2
      <4>2. \A e \in CPUs : op'[e] = "reaping" /\ opTask'[e] = t => c = e
        BY <1>3, <3>1
      <4> QED
        BY <1>2, <3>2, <4>1, <4>2
    <3>3. CASE d # c
      <4>1. op[d] = "reaping" /\ opTask'[d] = opTask[d] /\ opTask[d] \in Tasks
        BY <1>3, <2>2, <3>1, <3>3
      <4>2. reapBusy'[opTask[d]]
        BY <1>3, <3>1, <4>1
      <4>3. \A e \in CPUs : op'[e] = "reaping" /\ opTask'[e] = opTask[d] => d = e
        BY <1>3, <3>1, <4>1
      <4> QED
        BY <3>1, <4>1, <4>2, <4>3
    <3> QED
      BY <3>2, <3>3
  <2> QED
    BY <1>1, <2>1, <2>2 DEF StackInv
<1>6. PinInv'
  BY <1>1, <1>2, <1>3, OpPinned DEF IInv, User
<1>7. PublishInv'
  <2>1. op'[BSP] \in {"published", "published_supervised", "admitted"} =>
           c # BSP /\ op'[BSP] = op[BSP] /\ opTask'[BSP] = opTask[BSP]
    BY <1>3, TopologyAssumption
  <2>2. op[BSP] \in {"published", "published_supervised"} =>
           op'[BSP] = op[BSP] /\ opTask'[BSP] = opTask[BSP]
    BY <1>2, <1>3, TopologyAssumption
  <2>3. \A d \in CPUs : op'[d] \notin {"none", "reaping"} => d = BSP
    BY <1>3 DEF IInv, PublishInv
  <2> QED
    BY <1>1, <2>1, <2>2, <2>3 DEF IInv, PublishInv
<1>8. RoomInv'
  <2>1. op'[BSP] = "admitted" => op[BSP] = "admitted"
    BY <1>3, TopologyAssumption
  <2> QED
    BY <1>1, <2>1 DEF IInv, RoomInv, Available, Vacant
<1>9. TypeOK'
  BY TypeCreate DEF IInv
<1> QED
  BY <1>4, <1>5, <1>6, <1>7, <1>8, <1>9 DEF IInv

\* The reaper puts the slot back, unfinished or vacant.
LEMMA ReapStepStep ==
    ASSUME IInv, NEW c \in CPUs, NEW done \in BOOLEAN, ReapStep(c, done)
    PROVE  IInv'
<1> DEFINE t == opTask[c]
<1>1. UNCHANGED <<runningCpu, proc, parent, job, victim, waitVars, currentTask, handoffTask,
                  handoffAction, contextSaved>>
  BY DEF ReapStep
<1>2. /\ op[c] = "reaping" /\ t \in Tasks /\ status[t] = "REAPING" /\ stack[t]
      /\ \A d \in CPUs : op[d] = "reaping" /\ opTask[d] = t => d = c
  BY DEF ReapStep, IInv, StackInv
<1>3. runningCpu[t] = NoCPU /\ proc[t] = "none" /\ job[t] = "none"
  <2>1. runningCpu[t] \in CPUs \cup {NoCPU}
    BY <1>2 DEF IInv, TypeOK
  <2>2. runningCpu[t] \notin CPUs
    BY <1>2, OwnerFacts DEF IInv
  <2> QED
    BY <1>2, <2>1, <2>2 DEF IInv, ProcInv, JobInv, Active
<1>4. /\ \A u \in Tasks :
            /\ reapBusy'[u] = (u # t /\ reapBusy[u])
            /\ stack'[u] = IF u = t THEN ~done ELSE stack[u]
            /\ status'[u] = IF u = t THEN IF done THEN "FINISHED" ELSE "REAPING" ELSE status[u]
            /\ complete'[u] = IF u = t /\ done THEN FALSE ELSE complete[u]
            /\ affinity'[u] = IF u = t /\ done THEN {} ELSE affinity[u]
      /\ \A d \in CPUs : /\ op'[d] = IF d = c THEN "none" ELSE op[d]
                         /\ opTask'[d] = IF d = c THEN NoTask ELSE opTask[d]
                         /\ preemptCount'[d] = IF d = c THEN preemptCount[c] - 1
                                               ELSE preemptCount[d]
  <2>1. \A u \in Tasks : reapBusy'[u] = (u # t /\ reapBusy[u])
    <3>1. reapBusy \in [Tasks -> BOOLEAN] /\ reapBusy' = [reapBusy EXCEPT ![t] = FALSE]
      BY DEF ReapStep, IInv, TypeOK
    <3> QED
      BY <3>1
  <2>4. \A u \in Tasks : stack'[u] = IF u = t THEN ~done ELSE stack[u]
    BY <1>2 DEF ReapStep, IInv, TypeOK
  <2>2. \A u \in Tasks :
           /\ status'[u] = IF u = t THEN IF done THEN "FINISHED" ELSE "REAPING" ELSE status[u]
           /\ complete'[u] = IF u = t /\ done THEN FALSE ELSE complete[u]
           /\ affinity'[u] = IF u = t /\ done THEN {} ELSE affinity[u]
    BY <1>2 DEF ReapStep, IInv, TypeOK
  <2>3. \A d \in CPUs : /\ op'[d] = IF d = c THEN "none" ELSE op[d]
                        /\ opTask'[d] = IF d = c THEN NoTask ELSE opTask[d]
                        /\ preemptCount'[d] = IF d = c THEN preemptCount[c] - 1
                                              ELSE preemptCount[d]
    BY DEF ReapStep, IInv, TypeOK
  <2> QED
    BY <2>1, <2>2, <2>3, <2>4
<1>5. TypeOK'
  BY TypeCreate DEF IInv
<1> HIDE DEF t
<1>6. OwnerInv'
  BY <1>1, <1>3, <1>4, OwnerQuiet DEF IInv, MayBecome
<1>7. StackInv'
  <2>1. \A u \in Tasks : HoldsStack(u)' => stack'[u]
    BY <1>1, <1>3, <1>4 DEF IInv, StackInv, HoldsStack, Dead
  <2>2. ASSUME NEW d \in CPUs, op'[d] = "reaping"
        PROVE  /\ opTask'[d] \in Tasks /\ reapBusy'[opTask'[d]]
               /\ stack'[opTask'[d]] /\ status'[opTask'[d]] = "REAPING"
               /\ \A e \in CPUs : op'[e] = "reaping" /\ opTask'[e] = opTask'[d] => d = e
    <3>1. \A e \in CPUs : op'[e] = "reaping" =>
             e # c /\ op[e] = "reaping" /\ opTask'[e] = opTask[e] /\ opTask[e] # t
      BY <1>2, <1>4
    <3>2. /\ opTask[d] \in Tasks /\ reapBusy[opTask[d]]
          /\ stack[opTask[d]] /\ status[opTask[d]] = "REAPING"
          /\ \A e \in CPUs : op[e] = "reaping" /\ opTask[e] = opTask[d] => d = e
      BY <2>2, <3>1 DEF IInv, StackInv
    <3>3. reapBusy'[opTask[d]] /\ stack'[opTask[d]] /\ status'[opTask[d]] = "REAPING"
      BY <1>4, <2>2, <3>1, <3>2
    <3>4. \A e \in CPUs : op'[e] = "reaping" /\ opTask'[e] = opTask'[d] => d = e
      BY <2>2, <3>1, <3>2
    <3> QED
      BY <2>2, <3>1, <3>2, <3>3, <3>4
  <2> QED
    BY <2>1, <2>2 DEF StackInv
<1>8. PinInv'
  <2>1. \A u \in Tasks : /\ status'[u] # "RUNNING" => status[u] # "RUNNING"
                         /\ (User(u)' <=> User(u)) \/ job[u] = "none"
    BY <1>1, <1>2, <1>4 DEF User
  <2>2. /\ \A d \in CPUs : d # c => preemptCount'[d] = preemptCount[d] /\ op'[d] = op[d]
        /\ op[c] # "none" /\ op'[c] = "none" /\ preemptCount'[c] = preemptCount[c] - 1
    BY <1>2, <1>4
  <2> QED
    BY <1>1, <2>1, <2>2, OpPinned DEF IInv
<1>9. JobInv'
  <2>1. \A u \in Tasks : u # t => status'[u] = status[u]
    BY <1>4
  <2>2. status[t] \notin Terminating /\ status'[t] \notin Terminating
    BY <1>2, <1>4 DEF Terminating
  <2>3. \A u \in Tasks : job[u] # "none" => status'[u] \in Active
    BY <1>3, <2>1 DEF IInv, JobInv
  <2> QED
    BY <1>1, <2>1, <2>2, <2>3, JobKept DEF IInv
<1>10. ProcInv'
  <2>1. \A u \in Tasks : u # t => status'[u] = status[u]
    BY <1>4
  <2>2. status'[t] \in {"FINISHED", "REAPING"}
    BY <1>2, <1>4
  <2> QED
    BY <1>1, <1>3, <2>1, <2>2 DEF IInv, ProcInv, Terminating
<1>11. WaitInv' /\ ExitWaitersLive' /\ KernelContextSaved'
  BY <1>1, <1>2, <1>4, WaitKept, ExitKept, ContextKept DEF IInv, Blocked, waitVars
<1>12. PublishInv'
  <2>1. \A d \in CPUs : op'[d] \notin {"none", "reaping"} => d = BSP
    BY <1>4 DEF IInv, PublishInv
  <2>2. op'[BSP] \in {"published", "published_supervised"} =>
           op'[BSP] = op[BSP] /\ opTask'[BSP] = opTask[BSP]
    BY <1>4, TopologyAssumption
  <2>3. op[BSP] \in {"published", "published_supervised"} =>
           op'[BSP] = op[BSP] /\ opTask'[BSP] = opTask[BSP] /\ opTask[BSP] # t
    BY <1>2, <1>4, TopologyAssumption DEF IInv, PublishInv
  <2>4. \A u \in Tasks : status'[u] \notin Dead => u # t /\ status'[u] = status[u]
                                                 /\ complete'[u] = complete[u]
    BY <1>4 DEF Dead
  <2>5. op'[BSP] \in {"published", "published_supervised"} =>
          /\ opTask[BSP] \in Tasks
          /\ status'[opTask[BSP]] = "READY" /\ runningCpu[opTask[BSP]] = NoCPU
          /\ affinity'[opTask[BSP]] = {BSP} /\ proc[opTask[BSP]] = "running"
          /\ parent[opTask[BSP]] \in {NoTask, currentTask[BSP]}
    BY <1>4, <2>2, <2>3 DEF IInv, PublishInv
  <2>6. \A u \in Tasks : status'[u] \notin Dead /\ ~complete'[u] =>
           op[BSP] \in {"published", "published_supervised"} /\ opTask[BSP] = u
    BY <2>4 DEF IInv, PublishInv
  <2> QED
    BY <1>1, <2>1, <2>2, <2>3, <2>5, <2>6 DEF PublishInv
<1>13. RoomInv'
  <2>1. op'[BSP] = "admitted" => op[BSP] = "admitted"
    BY <1>4, TopologyAssumption
  <2>2. CASE op[BSP] # "admitted"
    BY <2>1, <2>2 DEF RoomInv
  <2>3. CASE op[BSP] = "admitted"
    <3>1. op'[BSP] = op[BSP]
      BY <1>2, <1>4, <2>3, TopologyAssumption
    <3>2. Available(BSP) \subseteq Available(BSP)'
      BY <1>1, <1>2, <1>4 DEF Available, Vacant
    <3> QED
      BY <3>1, <3>2, RoomKept DEF IInv
  <2> QED
    BY <2>2, <2>3
<1> QED
  BY <1>5, <1>6, <1>7, <1>8, <1>9, <1>10, <1>11, <1>12, <1>13 DEF IInv

\* What a vacant slot is.
LEMMA VacantFacts ==
    ASSUME IInv, NEW t \in Tasks, Vacant(t)
    PROVE  /\ status[t] = "FINISHED" /\ ~stack[t] /\ runningCpu[t] = NoCPU /\ proc[t] = "none"
           /\ job[t] = "none" /\ victim[t] = NoTask /\ node[t] = NoQueue
           /\ \A w \in Tasks : node[w] # t
<1>1. status[t] = "FINISHED" /\ ~stack[t]
  BY DEF Vacant
<1>2. runningCpu[t] = NoCPU /\ proc[t] = "none"
  BY <1>1 DEF IInv, StackInv, HoldsStack
<1>3. job[t] = "none" /\ node[t] = NoQueue
  BY <1>1 DEF IInv, JobInv, Active, WaitInv, BlockedIffLinked, Blocked
<1>4. victim[t] = NoTask
  BY <1>3 DEF IInv, JobInv
<1>5. \A w \in Tasks : node[w] # t
  BY <1>2 DEF IInv, ExitWaitersLive
<1> QED
  BY <1>1, <1>2, <1>3, <1>4, <1>5

\* Filling a vacant slot: what does not depend on the operation of the BSP.
LEMMA FillKeeps ==
    ASSUME IInv, NEW t \in Tasks, NEW mask, NEW process \in {"none", "running"}, NEW creator,
           NEW whole \in BOOLEAN, FillSlot(t, mask, process, creator, whole),
           UNCHANGED <<job, victim, waitVars, currentTask, handoffTask, handoffAction,
                       contextSaved>>
    PROVE  /\ OwnerInv' /\ JobInv' /\ ProcInv' /\ WaitInv' /\ ExitWaitersLive'
           /\ KernelContextSaved'
           /\ \A u \in Tasks : HoldsStack(u)' => stack'[u]
           /\ \A u \in Tasks :
                 /\ status'[u] = IF u = t THEN "READY" ELSE status[u]
                 /\ runningCpu'[u] = runningCpu[u]
                 /\ affinity'[u] = IF u = t THEN mask ELSE affinity[u]
                 /\ stack'[u] = (u = t \/ stack[u])
                 /\ complete'[u] = IF u = t THEN whole ELSE complete[u]
                 /\ proc'[u] = IF u = t THEN process ELSE proc[u]
                 /\ parent'[u] = IF u = t THEN creator ELSE parent[u]
                 /\ reapBusy'[u] = (u # t /\ reapBusy[u])
<1>1. /\ status[t] = "FINISHED" /\ ~stack[t] /\ runningCpu[t] = NoCPU /\ proc[t] = "none"
      /\ job[t] = "none" /\ victim[t] = NoTask /\ node[t] = NoQueue
      /\ \A w \in Tasks : node[w] # t
  BY VacantFacts DEF FillSlot
<1>2. \A u \in Tasks :
         /\ status'[u] = IF u = t THEN "READY" ELSE status[u]
         /\ runningCpu'[u] = runningCpu[u]
         /\ affinity'[u] = IF u = t THEN mask ELSE affinity[u]
         /\ stack'[u] = (u = t \/ stack[u])
         /\ complete'[u] = IF u = t THEN whole ELSE complete[u]
         /\ proc'[u] = IF u = t THEN process ELSE proc[u]
         /\ parent'[u] = IF u = t THEN creator ELSE parent[u]
         /\ reapBusy'[u] = (u # t /\ reapBusy[u])
  BY <1>1 DEF FillSlot, IInv, TypeOK
<1>3. runningCpu' = runningCpu
  BY <1>1 DEF FillSlot, IInv, TypeOK
<1>4. OwnerInv'
  BY <1>1, <1>2, <1>3, OwnerQuiet DEF IInv, MayBecome
<1>5. JobInv'
  BY <1>1, <1>2, JobKept DEF IInv, JobInv, Terminating, Active
<1>6. ProcInv'
  BY <1>1, <1>2 DEF IInv, ProcInv, Terminating
<1>7. WaitInv' /\ KernelContextSaved'
  BY <1>1, <1>2, WaitKept, ContextKept DEF IInv, Blocked
<1>8. ExitWaitersLive'
  BY <1>1, <1>2 DEF IInv, ExitWaitersLive, waitVars
<1>9. ASSUME NEW u \in Tasks, HoldsStack(u)' PROVE stack'[u]
  <2>1. u # t => stack[u]
    BY <1>2, <1>9 DEF IInv, StackInv, HoldsStack
  <2> QED
    BY <1>2, <2>1
<1> QED
  BY <1>2, <1>4, <1>5, <1>6, <1>7, <1>8, <1>9

\* The reaper's slots are not vacant.
LEMMA FillReaping ==
    ASSUME IInv, NEW t \in Tasks, status[t] = "FINISHED", TypeOK',
           \A u \in Tasks : HoldsStack(u)' => stack'[u],
           \A u \in Tasks : u # t => /\ status'[u] = status[u] /\ stack'[u] = stack[u]
                                     /\ reapBusy'[u] = reapBusy[u],
           \A d \in CPUs : op'[d] = "reaping" => op[d] = "reaping" /\ opTask'[d] = opTask[d]
    PROVE  StackInv'
<1>1. ASSUME NEW d \in CPUs, op'[d] = "reaping"
      PROVE  /\ opTask'[d] \in Tasks /\ reapBusy'[opTask'[d]]
             /\ stack'[opTask'[d]] /\ status'[opTask'[d]] = "REAPING"
             /\ \A e \in CPUs : op'[e] = "reaping" /\ opTask'[e] = opTask'[d] => d = e
  <2>1. /\ opTask[d] \in Tasks /\ reapBusy[opTask[d]]
        /\ stack[opTask[d]] /\ status[opTask[d]] = "REAPING"
        /\ \A e \in CPUs : op[e] = "reaping" /\ opTask[e] = opTask[d] => d = e
    BY <1>1 DEF IInv, StackInv
  <2>2. opTask'[d] = opTask[d] /\ opTask[d] # t
    BY <1>1, <2>1
  <2>3. \A e \in CPUs : op'[e] = "reaping" /\ opTask'[e] = opTask'[d] => d = e
    BY <2>1, <2>2
  <2> QED
    BY <2>1, <2>2, <2>3
<1> QED
  BY <1>1 DEF StackInv

\* A kernel worker is created, complete.
LEMMA CreateStep ==
    ASSUME IInv, NEW t \in Tasks, NEW mask \in Masks, CreateKernelTask(t, mask)
    PROVE  IInv'
<1>1. /\ FillSlot(t, mask, "none", NoTask, TRUE) /\ op[BSP] = "none"
      /\ UNCHANGED <<job, victim, waitVars, currentTask, handoffTask, handoffAction,
                     contextSaved, preemptCount, op, opTask>>
  BY DEF CreateKernelTask, AtLeisure, cpuVars
<1>2. /\ OwnerInv' /\ JobInv' /\ ProcInv' /\ WaitInv' /\ ExitWaitersLive'
      /\ KernelContextSaved'
      /\ \A u \in Tasks : HoldsStack(u)' => stack'[u]
      /\ \A u \in Tasks :
            /\ status'[u] = IF u = t THEN "READY" ELSE status[u]
            /\ runningCpu'[u] = runningCpu[u]
            /\ affinity'[u] = IF u = t THEN mask ELSE affinity[u]
            /\ stack'[u] = (u = t \/ stack[u])
            /\ complete'[u] = IF u = t THEN TRUE ELSE complete[u]
            /\ proc'[u] = IF u = t THEN "none" ELSE proc[u]
            /\ parent'[u] = IF u = t THEN NoTask ELSE parent[u]
            /\ reapBusy'[u] = (u # t /\ reapBusy[u])
  BY <1>1, FillKeeps
<1>3. status[t] = "FINISHED" /\ proc[t] = "none" /\ job[t] = "none" /\ ~stack[t]
  BY <1>1, VacantFacts DEF FillSlot
<1>4. TypeOK'
  BY TypeCreate DEF IInv
<1>5. StackInv'
  <2>1. \A u \in Tasks : u # t => /\ status'[u] = status[u] /\ stack'[u] = stack[u]
                                  /\ reapBusy'[u] = reapBusy[u]
    <3>1. stack \in [Tasks -> BOOLEAN] /\ stack' \in [Tasks -> BOOLEAN]
          /\ reapBusy \in [Tasks -> BOOLEAN] /\ reapBusy' \in [Tasks -> BOOLEAN]
      BY <1>4 DEF IInv, TypeOK
    <3> QED
      BY <1>2, <3>1
  <2>2. \A u \in Tasks : HoldsStack(u)' => stack'[u]
    BY <1>2
  <2> QED
    BY <1>1, <1>3, <1>4, <2>1, <2>2, FillReaping
<1>6. PinInv'
  BY <1>1, <1>2, <1>3, PinKept DEF IInv, User
<1>7. PublishInv'
  BY <1>1, <1>2 DEF IInv, PublishInv
<1>8. RoomInv'
  BY <1>1 DEF RoomInv
<1> QED
  BY <1>2, <1>4, <1>5, <1>6, <1>7, <1>8 DEF IInv

\* A spawn is admitted.
LEMMA AdmitStep ==
    ASSUME IInv, NEW supervised \in BOOLEAN, AdmitUserTask(supervised)
    PROVE  IInv'
<1>1. UNCHANGED <<status, runningCpu, affinity, stack, complete, proc, parent, reapBusy, job,
                  victim, waitVars, currentTask, handoffTask, handoffAction, contextSaved,
                  opTask>>
  BY DEF AdmitUserTask, taskVars
<1>2. op[BSP] = "none" /\ BSP \in CPUs /\ Admissible(supervised)
  BY TopologyAssumption DEF AdmitUserTask, AtLeisure
<1>3. \A d \in CPUs : /\ op'[d] = IF d = BSP THEN IF supervised THEN "admitted_supervised"
                                                  ELSE "admitted"
                                  ELSE op[d]
                      /\ preemptCount'[d] = IF d = BSP THEN preemptCount[BSP] + 1
                                            ELSE preemptCount[d]
  BY DEF AdmitUserTask, IInv, TypeOK
<1>4. OwnerInv' /\ JobInv' /\ ProcInv' /\ WaitInv' /\ ExitWaitersLive' /\ KernelContextSaved'
  BY <1>1, OwnerQuiet, JobKept, ProcKept, WaitKept, ExitKept, ContextKept
     DEF IInv, MayBecome, JobInv, waitVars
<1>5. StackInv'
  <2>1. \A u \in Tasks : HoldsStack(u)' => stack'[u]
    BY <1>1 DEF IInv, StackInv, HoldsStack
  <2>2. \A d \in CPUs : op'[d] = "reaping" <=> op[d] = "reaping"
    BY <1>2, <1>3
  <2> QED
    BY <1>1, <2>1, <2>2 DEF IInv, StackInv
<1>6. PinInv'
  BY <1>1, <1>2, <1>3, OpPinned DEF IInv, User
<1>7. PublishInv'
  BY <1>1, <1>2, <1>3 DEF IInv, PublishInv
<1>8. RoomInv'
  BY <1>1, <1>2, <1>3 DEF RoomInv, Admissible, Available, Vacant
<1>9. TypeOK'
  BY TypeCreate DEF IInv
<1> QED
  BY <1>4, <1>5, <1>6, <1>7, <1>8, <1>9 DEF IInv

\* An admitted task is published: it is runnable, and not complete.
LEMMA PublishStep ==
    ASSUME IInv, NEW t \in Tasks, PublishUserTask(t)
    PROVE  IInv'
<1>1. /\ FillSlot(t, {BSP}, "running", Spawner, FALSE)
      /\ op[BSP] \in {"admitted", "admitted_supervised"} /\ t # currentTask[BSP] /\ BSP \in CPUs
      /\ UNCHANGED <<job, victim, waitVars, currentTask, handoffTask, handoffAction,
                     contextSaved, preemptCount>>
  BY TopologyAssumption DEF PublishUserTask
<1>2. /\ OwnerInv' /\ JobInv' /\ ProcInv' /\ WaitInv' /\ ExitWaitersLive'
      /\ KernelContextSaved'
      /\ \A u \in Tasks : HoldsStack(u)' => stack'[u]
      /\ \A u \in Tasks :
            /\ status'[u] = IF u = t THEN "READY" ELSE status[u]
            /\ runningCpu'[u] = runningCpu[u]
            /\ affinity'[u] = IF u = t THEN {BSP} ELSE affinity[u]
            /\ stack'[u] = (u = t \/ stack[u])
            /\ complete'[u] = IF u = t THEN FALSE ELSE complete[u]
            /\ proc'[u] = IF u = t THEN "running" ELSE proc[u]
            /\ parent'[u] = IF u = t THEN Spawner ELSE parent[u]
            /\ reapBusy'[u] = (u # t /\ reapBusy[u])
  BY <1>1, FillKeeps
<1>3. /\ status[t] = "FINISHED" /\ proc[t] = "none" /\ job[t] = "none" /\ ~stack[t]
      /\ runningCpu[t] = NoCPU
  BY <1>1, VacantFacts DEF FillSlot
<1>4. TypeOK'
  BY TypeCreate DEF IInv
<1>5. /\ \A d \in CPUs : d # BSP => op'[d] = op[d] /\ opTask'[d] = opTask[d]
      /\ op'[BSP] \in {"published", "published_supervised"} /\ opTask'[BSP] = t
  BY <1>1 DEF PublishUserTask, IInv, TypeOK
<1>6. StackInv'
  <2>1. \A u \in Tasks : u # t => /\ status'[u] = status[u] /\ stack'[u] = stack[u]
                                  /\ reapBusy'[u] = reapBusy[u]
    <3>1. stack \in [Tasks -> BOOLEAN] /\ stack' \in [Tasks -> BOOLEAN]
          /\ reapBusy \in [Tasks -> BOOLEAN] /\ reapBusy' \in [Tasks -> BOOLEAN]
      BY <1>4 DEF IInv, TypeOK
    <3> QED
      BY <1>2, <3>1
  <2>2. \A u \in Tasks : HoldsStack(u)' => stack'[u]
    BY <1>2
  <2>3. \A d \in CPUs : op'[d] = "reaping" => op[d] = "reaping" /\ opTask'[d] = opTask[d]
    BY <1>5
  <2> QED
    BY <1>3, <1>4, <2>1, <2>2, <2>3, FillReaping
<1>7. PinInv'
  <2>1. \A u \in Tasks : /\ status'[u] # "RUNNING" => status[u] # "RUNNING"
                         /\ (User(u)' <=> User(u)) \/ job[u] = "none"
    BY <1>2, <1>3 DEF User
  <2> QED
    BY <1>1, <1>5, <2>1, OpPinned DEF IInv
<1>8. PublishInv'
  <2>1. \A d \in CPUs : op'[d] \notin {"none", "reaping"} => d = BSP
    BY <1>5 DEF IInv, PublishInv
  <2>2. Spawner \in {NoTask, currentTask[BSP]}
    BY DEF Spawner
  <2>3. \A u \in Tasks : status[u] \notin Dead => complete[u]
    BY <1>1 DEF IInv, PublishInv
  <2>4. \A u \in Tasks : status'[u] \notin Dead /\ ~complete'[u] => u = t
    BY <1>2, <2>3
  <2> QED
    BY <1>1, <1>2, <1>3, <1>5, <2>1, <2>2, <2>4 DEF PublishInv
<1>9. RoomInv'
  BY <1>5 DEF RoomInv
<1> QED
  BY <1>2, <1>4, <1>6, <1>7, <1>8, <1>9 DEF IInv

\* A published task is completed; nobody has run or killed it meanwhile.
LEMMA CompleteStep ==
    ASSUME IInv, NEW prepared \in BOOLEAN, CompleteUserTask(prepared)
    PROVE  IInv'
<1> DEFINE t == opTask[BSP]
<1>1. UNCHANGED <<runningCpu, affinity, stack, proc, parent, reapBusy, job, victim, waitVars,
                  currentTask, handoffTask, handoffAction, contextSaved>>
  BY DEF CompleteUserTask
<1>2. /\ op[BSP] \in {"published", "published_supervised"} /\ BSP \in CPUs
      /\ t \in Tasks /\ status[t] = "READY" /\ runningCpu[t] = NoCPU /\ proc[t] = "running"
  BY TopologyAssumption DEF CompleteUserTask, IInv, PublishInv
<1>3. job[t] = "none"
  <2>1. job[t] # "exiting"
    BY <1>2 DEF IInv, ProcInv, Terminating
  <2>2. KillPins(t) = 0 /\ OuterPin(t) = 1 /\ t # NoTask
    BY <1>2, TopologyAssumption DEF IInv, PinInv, OuterPin, User
  <2>3. job[t] \notin {"kill_pending", "kill_cleanup"}
    BY <2>2 DEF KillPins
  <2> QED
    BY <1>2, <2>1, <2>3 DEF IInv, TypeOK, Jobs
<1>4. /\ \A u \in Tasks : /\ complete'[u] = (u = t \/ complete[u])
                          /\ status'[u] = IF u = t /\ prepared THEN "PREPARED" ELSE status[u]
      /\ \A d \in CPUs : /\ op'[d] = IF d = BSP THEN "none" ELSE op[d]
                         /\ opTask'[d] = IF d = BSP THEN NoTask ELSE opTask[d]
                         /\ preemptCount'[d] = IF d = BSP THEN preemptCount[BSP] - 1
                                               ELSE preemptCount[d]
  BY DEF CompleteUserTask, IInv, TypeOK
<1>5. TypeOK'
  BY TypeCreate DEF IInv
<1> HIDE DEF t
<1>6. OwnerInv'
  BY <1>1, <1>2, <1>4, OwnerQuiet DEF IInv, MayBecome
<1>7. StackInv'
  <2>1. \A u \in Tasks : HoldsStack(u)' => stack'[u]
    BY <1>1, <1>2, <1>4 DEF IInv, StackInv, HoldsStack, Dead
  <2>2. \A d \in CPUs : op'[d] = "reaping" => op[d] = "reaping" /\ opTask'[d] = opTask[d]
    BY <1>4
  <2>3. \A u \in Tasks : status[u] = "REAPING" => status'[u] = "REAPING"
    BY <1>2, <1>4
  <2> QED
    BY <1>1, <2>1, <2>2, <2>3 DEF IInv, StackInv
<1>8. PinInv'
  <2>1. \A u \in Tasks : /\ status'[u] # "RUNNING" => status[u] # "RUNNING"
                         /\ (User(u)' <=> User(u)) \/ job[u] = "none"
    BY <1>1, <1>2, <1>4 DEF User
  <2> QED
    BY <1>1, <1>2, <1>4, <2>1, OpPinned DEF IInv
<1>9. JobInv' /\ ProcInv' /\ WaitInv' /\ ExitWaitersLive' /\ KernelContextSaved'
  BY <1>1, <1>2, <1>3, <1>4, JobKept, ProcKept, WaitKept, ExitKept, ContextKept
     DEF IInv, JobInv, Terminating, Dead, Blocked, waitVars
<1>10. PublishInv'
  <2>1. \A d \in CPUs : op'[d] \notin {"none", "reaping"} => d = BSP
    BY <1>4 DEF IInv, PublishInv
  <2>2. \A u \in Tasks : status'[u] \notin Dead => complete'[u]
    BY <1>2, <1>4 DEF IInv, PublishInv, Dead, t
  <2>3. op'[BSP] = "none"
    BY <1>2, <1>4
  <2> QED
    BY <2>1, <2>2, <2>3 DEF PublishInv
<1>11. RoomInv'
  BY <1>2, <1>4 DEF RoomInv
<1> QED
  BY <1>5, <1>6, <1>7, <1>8, <1>9, <1>10, <1>11 DEF IInv

------------------------------------------------------------------------------
(* The theorems.                                                            *)

\* The empty table.
LEMMA InitHolds ==
    ASSUME Init
    PROVE  IInv
<1>1. TypeOK
  BY TopologyAssumption DEF Init, TypeOK, Statuses, ProcStates, Jobs, Deadlines, Ops
<1>2. OwnerInv
  BY DEF Init, OwnerInv, CurrentOwned, HandoffOwned, OwnedOnCpu
<1>3. StackInv
  BY DEF Init, StackInv, HoldsStack, Dead
<1>4. PinInv
  BY DEF Init, PinInv, KillPins, OpPins
<1>5. JobInv /\ ProcInv
  BY DEF Init, JobInv, ProcInv, Terminating
<1>6. WaitInv
  BY TopologyAssumption DEF Init, WaitInv, BlockedIffLinked, SleepOrdered, Blocked
<1>7. ExitWaitersLive
  BY TopologyAssumption DEF Init, ExitWaitersLive
<1>8. PublishInv
  BY TopologyAssumption DEF Init, PublishInv, Dead
<1>9. KernelContextSaved /\ RoomInv
  BY TopologyAssumption DEF Init, KernelContextSaved, RoomInv
<1> QED
  BY <1>1, <1>2, <1>3, <1>4, <1>5, <1>6, <1>7, <1>8, <1>9 DEF IInv

\* Every step keeps the invariant, one case per action.
LEMMA NextKeeps ==
    ASSUME IInv, [Next]_vars
    PROVE  IInv'
<1>1. CASE UNCHANGED vars
  <2>1. UNCHANGED <<status, runningCpu, affinity, stack, complete, proc, parent, reapBusy, job,
                    victim, waitVars, currentTask, handoffTask, handoffAction, contextSaved,
                    preemptCount, op, opTask>>
    BY <1>1 DEF vars, taskVars, cpuVars
  <2>2. TypeOK'
    BY <2>1 DEF IInv, TypeOK, waitVars
  <2>3. OwnerInv' /\ JobInv' /\ ProcInv' /\ WaitInv' /\ ExitWaitersLive' /\ KernelContextSaved'
    BY <2>1, OwnerQuiet, JobKept, ProcKept, WaitKept, ExitKept, ContextKept
       DEF IInv, MayBecome, JobInv, waitVars
  <2>4. StackInv' /\ PinInv' /\ RoomInv'
    BY <2>1, StackKept, PinKept, RoomKept DEF IInv, HoldsStack, User, Available, Vacant
  <2>5. PublishInv'
    BY <2>1 DEF IInv, PublishInv
  <2> QED
    BY <2>2, <2>3, <2>4, <2>5 DEF IInv
<1>2. CASE Tick
  BY <1>2, TickStep
<1>3. ASSUME NEW c \in CPUs, NEW next \in Tasks \cup {NoTask},
             \/ Preempt(c, next)
             \/ \E q \in Queues, d \in Deadlines \ {0} : Block(c, q, d, next)
             \/ \E child \in Tasks : WaitChild(c, child, next)
             \/ \E ms \in 1..MaxWait : SleepMs(c, ms, next)
             \/ CommitExit(c, next)
      PROVE  IInv'
  <2>1. CASE Preempt(c, next)
    BY <2>1, PreemptStep
  <2>2. ASSUME NEW q \in Queues, NEW d \in Deadlines \ {0}, Block(c, q, d, next) PROVE IInv'
    <3>1. q \notin Tasks /\ d \in Deadlines /\ BlockOn(c, q, d, next)
      BY <2>2, TopologyAssumption DEF Block
    <3> QED
      BY <3>1, BlockStep
  <2>3. ASSUME NEW child \in Tasks, WaitChild(c, child, next) PROVE IInv'
    <3>1. /\ Forever \in Deadlines /\ BlockOn(c, child, Forever, next)
          /\ parent[child] = currentTask[c] /\ proc[child] \in {"running", "terminating"}
      BY <2>3 DEF WaitChild, Waitable, Deadlines
    <3> QED
      BY <3>1, BlockStep
  <2>4. ASSUME NEW ms \in 1..MaxWait, SleepMs(c, ms, next) PROVE IInv'
    BY <2>4, SleepStep
  <2>5. CASE CommitExit(c, next)
    BY <2>5, CommitExitStep
  <2> QED
    BY <1>3, <2>1, <2>2, <2>3, <2>4, <2>5
<1>4. ASSUME NEW c \in CPUs, NEW t \in Tasks,
             DispatchIdle(c, t) \/ ReserveTermination(c, t) \/ TakeForReaping(c, t)
      PROVE  IInv'
  BY <1>4, DispatchStep, ReserveStep, TakeStep
<1>5. ASSUME NEW c \in CPUs, NEW q \in Queues, WakeOne(c, q) \/ WakeAll(c, q)
      PROVE  IInv'
  BY <1>5, WakeStep
<1>6. ASSUME NEW c \in CPUs, FinishPublish(c) \/ FinishRelease(c) PROVE IInv'
  BY <1>6, FinishPublishStep, FinishReleaseStep
<1>7. ASSUME NEW c \in CPUs, BeginExit(c) \/ BeginTermination(c) \/ CommitTermination(c)
      PROVE  IInv'
  BY <1>7, BeginExitStep, BeginTerminationStep, CommitTerminationStep
<1>8. ASSUME NEW c \in CPUs, ReleaseFinished(c) \/ \E child \in Tasks : CollectChild(c, child)
      PROVE  IInv'
  BY <1>8, ReleaseStep
<1>9. ASSUME NEW c \in CPUs, NEW done \in BOOLEAN, ReapStep(c, done) PROVE IInv'
  BY <1>9, ReapStepStep
<1>10. ASSUME NEW t \in Tasks, NEW mask \in Masks,
              CreateKernelTask(t, mask) \/ \E c \in CPUs : SetAffinity(c, t, mask)
       PROVE  IInv'
  BY <1>10, CreateStep, AffinityStep
<1>11. ASSUME NEW b \in BOOLEAN, AdmitUserTask(b) \/ CompleteUserTask(b) PROVE IInv'
  BY <1>11, AdmitStep, CompleteStep
<1>12. ASSUME NEW t \in Tasks, PublishUserTask(t) \/ StartPrepared(t) PROVE IInv'
  BY <1>12, PublishStep, StartStep
<1> QED
  BY <1>1, <1>2, <1>3, <1>4, <1>5, <1>6, <1>7, <1>8, <1>9, <1>10, <1>11, <1>12 DEF Next

\* The invariant holds in every reachable state.
THEOREM SchedulerInvariant == Spec => []IInv
<1>1. Init => IInv
  BY InitHolds
<1>2. IInv /\ [Next]_vars => IInv'
  BY NextKeeps
<1> QED
  BY <1>1, <1>2, PTL DEF Spec

\* Every variable keeps its type: scheduler_init and every critical section.
THEOREM SchedulerTypes == Spec => []TypeOK
<1>1. IInv => TypeOK
  BY DEF IInv
<1> QED
  BY <1>1, SchedulerInvariant, PTL

\* No kernel stack is used by two processors: claim_task_for_current_cpu picks up only
\* what finish_task_handoff has given up.
THEOREM NoSharedStack == Spec => []SingleOwner
<1>1. IInv => SingleOwner
  <2>1. SUFFICES ASSUME IInv PROVE SingleOwner
    OBVIOUS
  <2>2. \A c \in CPUs : \A t \in OnCpu(c) : t \in Tasks /\ runningCpu[t] = c
    BY <2>1, OwnerFacts DEF IInv, OnCpu
  <2>3. \A c \in CPUs : currentTask[c] # NoTask => currentTask[c] # handoffTask[c]
    BY <2>1, OwnerFacts DEF IInv
  <2> QED
    BY <2>2, <2>3 DEF SingleOwner
<1> QED
  BY <1>1, SchedulerInvariant, PTL

\* No user task runs before create_user_task_admitted has completed it.
THEOREM NothingHalfBuilt == Spec => []DispatchedComplete
<1>1. IInv => DispatchedComplete
  <2>1. SUFFICES ASSUME IInv, NEW c \in CPUs, currentTask[c] # NoTask
                 PROVE  complete[currentTask[c]]
    BY DEF DispatchedComplete
  <2>2. currentTask[c] \in Tasks /\ status[currentTask[c]] = "RUNNING"
    BY <2>1, OwnerFacts DEF IInv
  <2> QED
    BY <2>1, <2>2 DEF IInv, PublishInv, Dead
<1> QED
  BY <1>1, SchedulerInvariant, PTL

\* The stack under a processor is neither freed nor at the reaper.
THEOREM StackUnderfoot == Spec => []StackInUse
<1>1. IInv => StackInUse
  <2>1. SUFFICES ASSUME IInv, NEW c \in CPUs, NEW t \in OnCpu(c)
                 PROVE  stack[t] /\ status[t] # "REAPING"
    BY DEF StackInUse
  <2>2. /\ t \in Tasks /\ runningCpu[t] = c
        /\ status[t] \in {"RUNNING", "HANDOFF", "WAITING", "SLEEPING", "READY", "FINISHED"}
    BY <2>1, OwnerFacts DEF IInv, OnCpu
  <2>3. runningCpu[t] # NoCPU
    BY <2>2, TopologyAssumption
  <2> QED
    BY <2>1, <2>2, <2>3 DEF IInv, StackInv, HoldsStack
<1> QED
  BY <1>1, SchedulerInvariant, PTL

\* wait_node and status agree: no blocked task is out of every wakeup's reach.
THEOREM NoLostSleeper == Spec => []BlockedIffLinked
<1>1. IInv => BlockedIffLinked
  BY DEF IInv, WaitInv
<1> QED
  BY <1>1, SchedulerInvariant, PTL

\* wait() loses no exit.
THEOREM NoLostExit == Spec => []ExitWaitersLive
<1>1. IInv => ExitWaitersLive
  BY DEF IInv
<1> QED
  BY <1>1, SchedulerInvariant, PTL

\* A reserved victim has one killer, which can neither die nor be killed first.
THEOREM KillsAreFinished == Spec => []TerminationOwned
<1>1. IInv => TerminationOwned
  <2>1. SUFFICES ASSUME IInv, NEW v \in Tasks, status[v] \in Terminating
                 PROVE  \E k \in Tasks :
                           /\ victim[k] = v /\ \A j \in Tasks : victim[j] = v => j = k
                           /\ status[k] \notin Terminating \cup {"FINISHED", "REAPING"}
    BY DEF TerminationOwned
  <2>2. PICK k \in Tasks : victim[k] = v
    BY <2>1 DEF IInv, JobInv
  <2>3. v # NoTask
    BY TopologyAssumption
  <2>4. \A j \in Tasks : victim[j] = v => j = k
    BY <2>1, <2>2, <2>3 DEF IInv, JobInv
  <2>5. status[k] \in Active
    BY <2>1, <2>2, <2>3 DEF IInv, JobInv
  <2> QED
    BY <2>2, <2>4, <2>5 DEF Active, Terminating
<1> QED
  BY <1>1, SchedulerInvariant, PTL

\* Two processors never tear down the same task.
THEOREM OneReaper == Spec => []ReaperExclusive
<1>1. IInv => ReaperExclusive
  BY DEF IInv, StackInv, ReaperExclusive
<1> QED
  BY <1>1, SchedulerInvariant, PTL

\* scheduler_sleep_ms never oversleeps.
THEOREM SleepersWakeInTime == Spec => []NoOversleep
<1>1. IInv => NoOversleep
  BY DEF IInv, WaitInv, SleepOrdered, NoOversleep
<1> QED
  BY <1>1, SchedulerInvariant, PTL

\* A switch by a running task does not touch the doomed.
LEMMA DoomedSwitch ==
    ASSUME IInv, NEW c \in CPUs, NEW prev \in Tasks, status[prev] = "RUNNING",
           NEW action, NEW st \in [Tasks -> Statuses], NEW next \in Selectable(st, c),
           SwitchAway(c, prev, action, st, next), NEW t \in Tasks, status[t] \in Terminating,
           st[t] = status[t]
    PROVE  status'[t] = status[t]
<1>1. t # prev /\ t # NoTask
  BY TopologyAssumption DEF Terminating
<1>2. t # next
  BY <1>1 DEF Selectable, Runnable, Terminating
<1> QED
  BY <1>1, <1>2 DEF SwitchAway, ClaimStatus

\* No action brings a doomed task back.
LEMMA DoomedStep ==
    ASSUME IInv, [Next]_vars, NEW t \in Tasks, status[t] \in Terminating
    PROVE  status'[t] \in Terminating \cup {"FINISHED"}
<1>1. status[t] \notin Blocked \cup {"READY", "RUNNING", "HANDOFF", "PREPARED", "FINISHED",
                                     "REAPING"}
  BY DEF Terminating, Blocked
<1>2. \A S : WakeStatus(S)[t] = status[t]
  BY <1>1 DEF WakeStatus
<1>3. CASE UNCHANGED status
  BY <1>3
<1>4. ASSUME NEW S, NEW left, Wake(S, left) PROVE status'[t] = status[t]
  BY <1>2, <1>4 DEF Wake
<1>5. ASSUME NEW c \in CPUs, NEW next \in Tasks \cup {NoTask},
             \/ Preempt(c, next)
             \/ \E q \in Queues, d \in Deadlines \ {0} : Block(c, q, d, next)
             \/ \E child \in Tasks : WaitChild(c, child, next)
             \/ \E ms \in 1..MaxWait : SleepMs(c, ms, next)
             \/ CommitExit(c, next)
      PROVE  status'[t] = status[t]
  <2> DEFINE p == currentTask[c]
  <2>1. p \in Tasks /\ status[p] = "RUNNING" /\ t # p
    <3>1. p # NoTask
      BY <1>5 DEF Preempt, Block, WaitChild, BlockOn, SleepMs, CommitExit
    <3> QED
      BY <1>1, <3>1, OwnerFacts DEF IInv
  <2>2. CASE Preempt(c, next)
    <3>1. status \in [Tasks -> Statuses]
      BY DEF IInv, TypeOK
    <3> QED
      BY <2>1, <2>2, <3>1, DoomedSwitch DEF Preempt
  <2>3. ASSUME NEW b \in Blocked, LeaveBlocked(c, p, [status EXCEPT ![p] = b], next)
        PROVE  status'[t] = status[t]
    <3> DEFINE st == [status EXCEPT ![p] = b]
    <3>1. st \in [Tasks -> Statuses] /\ st[t] = status[t]
      BY <2>1 DEF IInv, TypeOK, Statuses, Blocked
    <3>2. next \in Selectable(st, c) /\ SwitchAway(c, p, "RELEASE", st, next)
      BY <2>3 DEF LeaveBlocked
    <3> HIDE DEF st, p
    <3> QED
      BY <2>1, <3>1, <3>2, DoomedSwitch
  <2>4. CASE \/ \E q \in Queues, d \in Deadlines \ {0} : Block(c, q, d, next)
             \/ \E child \in Tasks : WaitChild(c, child, next)
             \/ \E ms \in 1..MaxWait : SleepMs(c, ms, next)
    BY <2>3, <2>4 DEF Block, WaitChild, BlockOn, SleepMs, Blocked
  <2>5. CASE CommitExit(c, next)
    <3> DEFINE st == [ReleaseStatus(WakeStatus(InQueue(p)), ReapedChildren(c, p))
                        EXCEPT ![p] = "FINISHED"]
    <3>1. st \in [Tasks -> Statuses]
      BY DEF IInv, TypeOK, Statuses, ReleaseStatus, WakeStatus
    <3>2. t \notin ReapedChildren(c, p)
      BY <1>1 DEF ReapedChildren, Reapable
    <3>3. st[t] = status[t]
      BY <1>2, <2>1, <3>2 DEF ReleaseStatus
    <3>4. next \in Selectable(st, c) /\ SwitchAway(c, p, "RELEASE", st, next)
      BY <2>5 DEF CommitExit, LeaveBlocked
    <3> HIDE DEF st, p
    <3> QED
      BY <2>1, <3>1, <3>3, <3>4, DoomedSwitch
  <2> QED
    BY <1>5, <2>2, <2>4, <2>5
<1>6. ASSUME NEW c \in CPUs, NEW u \in Tasks,
             DispatchIdle(c, u) \/ ReserveTermination(c, u) \/ TakeForReaping(c, u)
      PROVE  status'[t] \in Terminating
  <2>1. CASE DispatchIdle(c, u)
    BY <1>1, <2>1, TopologyAssumption DEF DispatchIdle, ClaimStatus, Runnable
  <2>2. CASE ReserveTermination(c, u)
    BY <2>2 DEF ReserveTermination, Terminating, IInv, TypeOK
  <2>3. CASE TakeForReaping(c, u)
    BY <2>3 DEF TakeForReaping
  <2> QED
    BY <1>6, <2>1, <2>2, <2>3
<1>7. ASSUME NEW c \in CPUs, FinishPublish(c) \/ FinishRelease(c) PROVE status'[t] = status[t]
  <2>1. FinishPublish(c) => status[handoffTask[c]] = "HANDOFF"
    BY DEF FinishPublish, IInv, OwnerInv, HandoffOwned, HandoffStatuses
  <2>2. status \in [Tasks -> Statuses]
    BY DEF IInv, TypeOK
  <2>3. CASE FinishPublish(c)
    <3>1. t # handoffTask[c]
      BY <1>1, <2>1, <2>3
    <3> QED
      BY <2>2, <2>3, <3>1 DEF FinishPublish
  <2>4. CASE FinishRelease(c)
    BY <2>4 DEF FinishRelease
  <2> QED
    BY <1>7, <2>3, <2>4
<1>8. ASSUME NEW c \in CPUs, BeginExit(c) \/ BeginTermination(c) \/ CommitTermination(c)
      PROVE  status'[t] \in Terminating \cup {"FINISHED"}
  <2>1. CASE BeginExit(c)
    BY <2>1 DEF BeginExit
  <2>2. CASE BeginTermination(c)
    BY <2>2 DEF BeginTermination, Terminating, IInv, TypeOK
  <2>3. CASE CommitTermination(c)
    <3>1. t \notin ReapedChildren(c, victim[currentTask[c]])
      BY <1>1 DEF ReapedChildren, Reapable
    <3> QED
      BY <1>2, <2>3, <3>1 DEF CommitTermination, ReleaseStatus
  <2> QED
    BY <1>8, <2>1, <2>2, <2>3
<1>9. ASSUME NEW c \in CPUs, ReleaseFinished(c) \/ \E child \in Tasks : CollectChild(c, child)
      PROVE  status'[t] = status[t]
  BY <1>1, <1>9 DEF ReleaseFinished, CollectChild, ReleaseStatus, Reapable
<1>10. ASSUME NEW c \in CPUs, NEW done \in BOOLEAN, ReapStep(c, done) PROVE status'[t] = status[t]
  <2>1. status[opTask[c]] = "REAPING"
    BY <1>10 DEF ReapStep, IInv, StackInv
  <2> QED
    BY <1>1, <1>10, <2>1 DEF ReapStep
<1>11. ASSUME NEW u \in Tasks, NEW mask, NEW process, NEW creator, NEW whole,
              FillSlot(u, mask, process, creator, whole)
       PROVE  status'[t] = status[t]
  BY <1>1, <1>11 DEF FillSlot, Vacant
<1>12. ASSUME NEW u \in Tasks, NEW mask \in Masks,
              CreateKernelTask(u, mask) \/ \E c \in CPUs : SetAffinity(c, u, mask)
       PROVE  status'[t] = status[t]
  BY <1>11, <1>12 DEF CreateKernelTask, SetAffinity
<1>13. ASSUME NEW b \in BOOLEAN, AdmitUserTask(b) \/ CompleteUserTask(b)
       PROVE  status'[t] = status[t]
  <2>1. CASE AdmitUserTask(b)
    BY <2>1 DEF AdmitUserTask, taskVars
  <2>2. CASE CompleteUserTask(b)
    <3>1. status[opTask[BSP]] = "READY"
      BY <2>2 DEF CompleteUserTask, IInv, PublishInv
    <3> QED
      BY <1>1, <2>2, <3>1 DEF CompleteUserTask
  <2> QED
    BY <1>13, <2>1, <2>2
<1>14. ASSUME NEW u \in Tasks, PublishUserTask(u) \/ StartPrepared(u) PROVE status'[t] = status[t]
  <2>1. CASE PublishUserTask(u)
    BY <1>11, <2>1 DEF PublishUserTask
  <2>2. CASE StartPrepared(u)
    BY <1>1, <2>2 DEF StartPrepared, IInv, TypeOK
  <2> QED
    BY <1>14, <2>1, <2>2
<1>15. CASE Tick
  BY <1>4, <1>15 DEF Tick
<1>16. ASSUME NEW c \in CPUs, NEW q \in Queues, WakeOne(c, q) \/ WakeAll(c, q)
       PROVE  status'[t] = status[t]
  BY <1>4, <1>16 DEF WakeOne, WakeAll
<1>17. CASE UNCHANGED vars
  BY <1>17 DEF vars, taskVars
<1> QED
  BY <1>5, <1>6, <1>7, <1>8, <1>9, <1>10, <1>12, <1>13, <1>14, <1>15, <1>16, <1>17 DEF Next

\* A task reserved for termination is never run again.
THEOREM DoomedForGood == Spec => DoomedStaysDoomed
<1>1. IInv /\ [Next]_vars =>
         [\A t \in Tasks : status[t] \in Terminating
            => status'[t] \in Terminating \cup {"FINISHED"}]_vars
  BY DoomedStep
<1> QED
  BY <1>1, SchedulerInvariant, PTL DEF Spec, DoomedStaysDoomed

\* Only the second critical section of a spawn publishes a task.
LEMMA PublishesOnly ==
    ASSUME IInv, [Next]_vars, op[BSP] = "admitted", op'[BSP] = "published"
    PROVE  \E t \in Tasks : PublishUserTask(t)
<1>1. op' # op /\ BSP \in CPUs
  BY TopologyAssumption
<1>2. ~Tick /\ ~UNCHANGED vars
  BY <1>1 DEF Tick, vars, cpuVars
<1>3. ASSUME NEW c \in CPUs, NEW next \in Tasks \cup {NoTask}
      PROVE  /\ ~Preempt(c, next) /\ ~CommitExit(c, next)
             /\ \A q, d : ~Block(c, q, d, next)
             /\ \A child : ~WaitChild(c, child, next)
             /\ \A ms : ~SleepMs(c, ms, next)
  BY <1>1 DEF Preempt, SleepMs, CommitExit, Block, WaitChild, BlockOn
<1>4. ASSUME NEW c \in CPUs
      PROVE  /\ \A next \in Tasks : ~DispatchIdle(c, next)
             /\ ~FinishPublish(c) /\ ~FinishRelease(c)
             /\ \A q \in Queues : ~WakeOne(c, q) /\ ~WakeAll(c, q)
  BY <1>1 DEF DispatchIdle, FinishPublish, FinishRelease, WakeOne, WakeAll, cpuVars
<1>5. ASSUME NEW c \in CPUs
      PROVE  /\ ~BeginExit(c) /\ ~BeginTermination(c) /\ ~CommitTermination(c)
             /\ ~ReleaseFinished(c)
             /\ \A v \in Tasks : ~ReserveTermination(c, v) /\ ~CollectChild(c, v)
  BY <1>1 DEF BeginExit, BeginTermination, CommitTermination, ReleaseFinished,
              ReserveTermination, CollectChild, cpuVars
<1>6. ASSUME NEW c \in CPUs
      PROVE  /\ \A t \in Tasks : ~TakeForReaping(c, t)
             /\ \A done \in BOOLEAN : ~ReapStep(c, done)
  BY <1>1 DEF TakeForReaping, ReapStep, IInv, TypeOK
<1>7. /\ \A t \in Tasks, mask \in Masks : ~CreateKernelTask(t, mask)
      /\ \A c \in CPUs, t \in Tasks, mask \in Masks : ~SetAffinity(c, t, mask)
      /\ \A t \in Tasks : ~StartPrepared(t)
  BY <1>1 DEF CreateKernelTask, SetAffinity, StartPrepared, cpuVars
<1>8. \A b \in BOOLEAN : ~AdmitUserTask(b) /\ ~CompleteUserTask(b)
  BY <1>1 DEF AdmitUserTask, CompleteUserTask, IInv, TypeOK
<1> QED
  BY <1>2, <1>3, <1>4, <1>5, <1>6, <1>7, <1>8 DEF Next

\* An ordinary spawn leaves the reserve in place: the slots counted by the admission
\* test of create_user_task_admitted are still there when one of them is taken.
THEOREM ReserveHolds == Spec => ReserveKept
<1>1. ASSUME IInv, [Next]_vars, op[BSP] = "admitted", op'[BSP] = "published"
      PROVE  Cardinality(Available(BSP)') >= Reserve
  <2>1. PICK t \in Tasks : PublishUserTask(t)
    BY <1>1, PublishesOnly
  <2>2. Vacant(t) /\ t # currentTask[BSP] /\ UNCHANGED currentTask
    BY <2>1 DEF PublishUserTask, FillSlot
  <2>3. runningCpu[t] = NoCPU
    BY <1>1, <2>2, VacantFacts
  <2>4. t \in Available(BSP)
    BY <2>2, <2>3 DEF Available
  <2>5. Available(BSP) \ {t} \subseteq Available(BSP)'
    BY <1>1, <2>1, <2>2 DEF PublishUserTask, FillSlot, Available, Vacant, IInv, TypeOK
  <2>6. Available(BSP) \subseteq Tasks /\ Available(BSP)' \subseteq Tasks /\ IsFiniteSet(Tasks)
    BY TopologyAssumption DEF Available
  <2>7. IsFiniteSet(Available(BSP)) /\ IsFiniteSet(Available(BSP)')
    BY <2>6, FS_Subset
  <2>8. /\ IsFiniteSet(Available(BSP) \ {t})
        /\ Cardinality(Available(BSP) \ {t}) = Cardinality(Available(BSP)) - 1
    BY <2>4, <2>7, FS_RemoveElement
  <2>9. Cardinality(Available(BSP) \ {t}) <= Cardinality(Available(BSP)')
    BY <2>5, <2>7, FS_Subset
  <2>10. Cardinality(Available(BSP)) > Reserve /\ Reserve \in Nat
    BY <1>1, TopologyAssumption DEF IInv, RoomInv
  <2>11. /\ Cardinality(Available(BSP)) \in Nat /\ Cardinality(Available(BSP)') \in Nat
         /\ Cardinality(Available(BSP) \ {t}) \in Nat
    BY <2>7, <2>8, FS_CardinalityType
  <2> QED
    BY <2>8, <2>9, <2>10, <2>11
<1>2. IInv /\ [Next]_vars =>
         [op[BSP] = "admitted" /\ op'[BSP] = "published"
            => Cardinality(Available(BSP)') >= Reserve]_vars
  BY <1>1
<1> QED
  BY <1>2, SchedulerInvariant, PTL DEF Spec, ReserveKept
=============================================================================
