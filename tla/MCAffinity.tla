------------------------------ MODULE MCAffinity -----------------------------
(***************************************************************************)
(* The supervisor takes a driver off an application processor before it    *)
(* revokes the driver's device (driver_fence_until): it sets the driver's  *)
(* affinity back to the BSP and waits for a scheduler tick.  Two monitor   *)
(* variables record the driver and the CPUs that have made a scheduling    *)
(* decision since.                                                         *)
(***************************************************************************)
EXTENDS Scheduler

VARIABLES fenced, decided

monitored == <<vars, fenced, decided>>

MonitorInit == Init /\ fenced = NoTask /\ decided = {}

\* The supervisor returns a task that runs elsewhere to the BSP.
FenceToBsp(t) ==
    /\ runningCpu[t] \notin {BSP, NoCPU}
    /\ SetAffinity(BSP, t, {BSP})
    /\ fenced' = t /\ decided' = {}

\* A scheduling decision of CPU c, with or without a switch.
Decide(c) ==
    /\ KeepRunning(c) \/ \E next \in Tasks \cup {NoTask} : Preempt(c, next)
    /\ decided' = decided \cup {c}
    /\ UNCHANGED fenced

\* Everything else that happens to the tasks, as far as this scenario needs it.
Other ==
    /\ \/ \E c \in CPUs : \/ FinishPublish(c) \/ FinishRelease(c)
                          \/ \E next \in Tasks : DispatchIdle(c, next)
       \/ AdmitUserTask(TRUE)
       \/ \E t \in Tasks : PublishUserTask(t) \/ StartPrepared(t)
       \/ CompleteUserTask(TRUE)
       \/ \E t \in Tasks, mask \in Masks \ {{BSP}} :
            status[t] = "PREPARED" /\ SetAffinity(BSP, t, mask)
    /\ UNCHANGED <<fenced, decided>>

MonitorNext ==
    \/ \E t \in Tasks : FenceToBsp(t)
    \/ \E c \in CPUs : Decide(c)
    \/ Other

MonitorSpec == MonitorInit /\ [][MonitorNext]_monitored

\* "Return its generation to the BSP and yield for one scheduler tick before
\* revoking mediated I/O.  The BSP-bound supervisor then resumes without the
\* target concurrently entering its userspace exit path on another CPU": once
\* every other CPU has made a scheduling decision, the target runs on none of them.
FencedOffOtherCpus ==
    fenced # NoTask /\ CPUs \ {BSP} \subseteq decided
        => runningCpu[fenced] \in {BSP, NoCPU}
==============================================================================
