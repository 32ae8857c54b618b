-------------------------- MODULE MutexWakeupProofs --------------------------
(***************************************************************************)
(* Wakeups of kernel mutexes are not lost, for any number of tasks, CPUs   *)
(* and mutexes.  A wake that finds sleepers must find one at the head of   *)
(* the queue; the invariant that says so is the order of the queue.        *)
(***************************************************************************)
EXTENDS KernelMutexProofs, WellFoundedInduction

\* Only waiting tasks are linked, none has timed out, and a task has every task
\* before it that the tasks before it have before them.
QueueOrder ==
    \A t \in Tasks :
        /\ mode[t] = "waiting" => want[t] \in Mutexes /\ ~timedOut[t]
        /\ mode[t] # "waiting" => ahead[t] = {}
        /\ \A u \in ahead[t] :
              /\ mode[u] = "waiting" /\ want[u] = want[t]
              /\ u \notin ahead[u] /\ ahead[u] \subseteq ahead[t]

WakeInv == QueueOrder /\ NoStrandedWaiter

\* The tasks that have been woken for m and will look at it.
OnTheWay(m) == {t \in Tasks : mode[t] \in {"ready", "running"} /\ want[t] = m /\ ~timedOut[t]}

------------------------------------------------------------------------------
(* The queue has a head.                                                    *)

\* wait_queue_wake_one finds a task whenever one waits: a shortest set of
\* predecessors is empty.
LEMMA QueueHasHead ==
    ASSUME TypeOK, QueueOrder, NEW m \in Mutexes, Waiters(m) # {}
    PROVE  Woken(m) # {}
<1> DEFINE before == {ahead[t] : t \in Waiters(m)}
           R == StrictSubsetOrdering(Tasks)
           F == FiniteSubsetsOf(Tasks)
<1>1. before \subseteq F /\ before # {}
  <2>1. \A t \in Waiters(m) : ahead[t] \subseteq Tasks
    BY DEF TypeOK, Waiters
  <2>2. \A t \in Waiters(m) : IsFiniteSet(ahead[t])
    BY <2>1, MutexAssumption, FS_Subset
  <2> QED
    BY <2>1, <2>2 DEF FiniteSubsetsOf
<1>2. IsWellFoundedOn(R, F)
  BY FS_StrictSubsetOrderingWellFounded
<1> HIDE DEF R, F
<1>3. PICK s \in before : \A r \in before : <<r, s>> \notin R
  <2> HIDE DEF before
  <2> QED
    BY <1>1, <1>2, WFMin
<1>4. PICK t \in Waiters(m) : ahead[t] = s
  BY <1>3
<1>5. ahead[t] = {}
  <2>1. SUFFICES ASSUME NEW u \in ahead[t]
                 PROVE  FALSE
    OBVIOUS
  <2>2. t \in Tasks /\ u \in Tasks /\ want[t] = m
    BY <1>4, <2>1 DEF TypeOK, Waiters
  <2>3. mode[u] = "waiting" /\ want[u] = m /\ u \notin ahead[u] /\ ahead[u] \subseteq ahead[t]
    BY <2>1, <2>2 DEF QueueOrder
  <2>4. u \in Waiters(m)
    BY <2>2, <2>3 DEF Waiters
  <2>5. ahead[u] \subseteq Tasks /\ ahead[t] \subseteq Tasks /\ ahead[u] # ahead[t]
    BY <2>1, <2>2, <2>3 DEF TypeOK
  <2>6. <<ahead[u], ahead[t]>> \in R
    BY <2>3, <2>5 DEF R, StrictSubsetOrdering
  <2> QED
    BY <1>3, <1>4, <2>4, <2>6
<1> QED
  BY <1>4, <1>5 DEF Woken

------------------------------------------------------------------------------
(* Steps of the code, by what they do to the queues.                        *)

\* A step that links and unlinks nobody, frees no mutex and turns no woken task
\* away from a free one.
LEMMA QuietStep ==
    ASSUME IInv, WakeInv, ahead' = ahead, swallowed' = swallowed,
           \A t \in Tasks : mode[t] = "waiting" <=> mode'[t] = "waiting",
           \A t \in Tasks : mode[t] = "waiting" =>
               want'[t] = want[t] /\ timedOut'[t] = timedOut[t],
           \A m \in Mutexes : owner'[m] = NoOwner =>
               owner[m] = NoOwner /\ OnTheWay(m) \subseteq OnTheWay(m)'
    PROVE  WakeInv'
<1>1. QueueOrder'
  <2>1. \A t \in Tasks : ahead[t] \subseteq Tasks
    BY DEF IInv, TypeOK
  <2>2. \A t \in Tasks : \A u \in ahead[t] : mode[t] = "waiting"
    BY DEF WakeInv, QueueOrder
  <2> QED
    BY <2>1, <2>2 DEF WakeInv, QueueOrder
<1>2. \A m \in Mutexes : Waiters(m)' = Waiters(m)
  BY DEF Waiters
<1>3. NoStrandedWaiter'
  BY <1>2 DEF WakeInv, NoStrandedWaiter, OnTheWay
<1> QED
  BY <1>1, <1>3 DEF WakeInv

\* A wake on m: whoever is at the head of its queue is on the way.
LEMMA WakeStep ==
    ASSUME IInv, WakeInv, NEW m \in Mutexes, WakeOne(m), timedOut' = timedOut,
           \A k \in Mutexes : k # m => owner'[k] = owner[k],
           \A t \in Tasks : want'[t] # want[t] => mode[t] = "running" /\ want[t] \in {m, NoMutex}
    PROVE  WakeInv'
<1>1. /\ mode' = [t \in Tasks |-> IF t \in Woken(m) THEN "ready" ELSE mode[t]]
      /\ ahead' = [t \in Tasks |-> ahead[t] \ Woken(m)]
      /\ swallowed' = [swallowed EXCEPT ![m] = FALSE]
  BY DEF WakeOne
<1>2. \A t \in Woken(m) : t \in Tasks /\ mode[t] = "waiting" /\ want[t] = m /\ ahead[t] = {}
  BY DEF Woken, Waiters
<1>3. QueueOrder'
  <2>1. \A t \in Tasks : mode'[t] = "waiting" <=> mode[t] = "waiting" /\ t \notin Woken(m)
    BY <1>1
  <2>2. \A t \in Tasks : mode[t] = "waiting" => want'[t] = want[t]
    OBVIOUS
  <2>3. ASSUME NEW t \in Tasks
        PROVE  /\ mode'[t] = "waiting" => want'[t] \in Mutexes /\ ~timedOut'[t]
               /\ mode'[t] # "waiting" => ahead'[t] = {}
    BY <1>1, <1>2, <2>1, <2>2 DEF WakeInv, QueueOrder
  <2>4. ASSUME NEW t \in Tasks, NEW u \in ahead'[t]
        PROVE  /\ mode'[u] = "waiting" /\ want'[u] = want'[t]
               /\ u \notin ahead'[u] /\ ahead'[u] \subseteq ahead'[t]
    <3>1. u \in ahead[t] /\ u \notin Woken(m) /\ u \in Tasks
      BY <1>1, <2>4 DEF IInv, TypeOK
    <3>2. /\ mode[t] = "waiting" /\ mode[u] = "waiting" /\ want[u] = want[t]
          /\ u \notin ahead[u] /\ ahead[u] \subseteq ahead[t]
      BY <3>1 DEF WakeInv, QueueOrder
    <3> QED
      BY <1>1, <2>1, <2>2, <3>1, <3>2
  <2> QED
    BY <2>3, <2>4 DEF QueueOrder
<1>4. NoStrandedWaiter'
  <2>1. SUFFICES ASSUME NEW k \in Mutexes, owner'[k] = NoOwner, Waiters(k)' # {}
                 PROVE  swallowed'[k] \/ \E t \in Tasks : /\ mode'[t] \in {"ready", "running"}
                                                          /\ want'[t] = k /\ ~timedOut'[t]
    BY DEF NoStrandedWaiter
  <2>2. Waiters(k) # {}
    BY <1>1, <2>1 DEF Waiters
  <2>3. CASE k = m
    <3>1. PICK t \in Woken(m) : TRUE
      BY <2>2, <2>3, QueueHasHead DEF IInv, WakeInv
    <3>2. t \in Tasks /\ mode'[t] = "ready" /\ want'[t] = m /\ ~timedOut'[t]
      BY <1>1, <1>2, <3>1 DEF WakeInv, QueueOrder
    <3> QED
      BY <2>3, <3>2
  <2>4. CASE k # m
    <3>1. CASE swallowed[k]
      BY <1>1, <2>4, <3>1 DEF IInv, TypeOK
    <3>2. CASE ~swallowed[k]
      <4>1. PICK t \in Tasks : mode[t] \in {"ready", "running"} /\ want[t] = k /\ ~timedOut[t]
        BY <2>1, <2>2, <2>4, <3>2 DEF WakeInv, NoStrandedWaiter
      <4>2. mode'[t] \in {"ready", "running"}
        BY <1>1, <4>1
      <4>3. want'[t] = k
        BY <2>4, <4>1, MutexAssumption
      <4> QED
        BY <4>1, <4>2, <4>3
    <3> QED
      BY <3>1, <3>2
  <2> QED
    BY <2>3, <2>4
<1> QED
  BY <1>3, <1>4 DEF WakeInv

\* A task leaves its queue by expiry or by a kill, or was in none; the others
\* close up behind it.
LEMMA UnlinkedOrder ==
    ASSUME IInv, QueueOrder, NEW t \in Tasks, NEW status \in {"ready", "doomed"},
           mode' = [mode EXCEPT ![t] = status],
           ahead' = [u \in Tasks |-> IF u = t THEN {} ELSE ahead[u] \ {t}],
           \A u \in Tasks : u # t => want'[u] = want[u] /\ timedOut'[u] = timedOut[u]
    PROVE  QueueOrder'
<1>1. \A u \in Tasks : mode'[u] = "waiting" <=> mode[u] = "waiting" /\ u # t
  BY DEF IInv, TypeOK
<1>2. ASSUME NEW u \in Tasks
      PROVE  /\ mode'[u] = "waiting" => want'[u] \in Mutexes /\ ~timedOut'[u]
             /\ mode'[u] # "waiting" => ahead'[u] = {}
  BY <1>1 DEF QueueOrder
<1>3. ASSUME NEW u \in Tasks, NEW v \in ahead'[u]
      PROVE  /\ mode'[v] = "waiting" /\ want'[v] = want'[u]
             /\ v \notin ahead'[v] /\ ahead'[v] \subseteq ahead'[u]
  <2>1. u # t /\ v # t /\ v \in ahead[u] /\ v \in Tasks
    BY <1>3 DEF IInv, TypeOK
  <2>2. mode[v] = "waiting" /\ want[v] = want[u] /\ v \notin ahead[v] /\ ahead[v] \subseteq ahead[u]
    BY <2>1 DEF QueueOrder
  <2> QED
    BY <1>1, <2>1, <2>2
<1> QED
  BY <1>2, <1>3 DEF QueueOrder

------------------------------------------------------------------------------
(* The steps that touch the queues.                                         *)

\* A release, by the holder or by the terminator of a dead one.
LEMMA ReleaseStep ==
    ASSUME IInv, WakeInv, NEW m \in Mutexes, Release(m), want' = want, timedOut' = timedOut
    PROVE  WakeInv'
<1>1. WakeOne(m) /\ \A k \in Mutexes : k # m => owner'[k] = owner[k]
  BY DEF Release, IInv, TypeOK
<1> QED
  BY <1>1, WakeStep

\* A task that can record no further mutex passes its wakeup on.
LEMMA RefusedPassesOn ==
    ASSUME IInv, WakeInv, NEW c \in CPUs, NEW m \in Mutexes, LockRefused(c, m)
    PROVE  WakeInv'
<1>1. WakeOne(m) /\ timedOut' = timedOut /\ owner' = owner
  BY DEF LockRefused, PassWakeupOn, mutexVars
<1>2. \A t \in Tasks : want'[t] # want[t] => mode[t] = "running" /\ want[t] \in {m, NoMutex}
  BY MutexAssumption DEF LockRefused, ReturnFromLock, InLockCall, IInv, TypeOK, Placement
<1> QED
  BY <1>1, <1>2, WakeStep

\* A task that finds the mutex taken is linked behind all who wait for it.
LEMMA WaitLinks ==
    ASSUME IInv, WakeInv, NEW c \in CPUs, NEW m \in Mutexes, LockWait(c, m)
    PROVE  WakeInv'
<1> DEFINE t == running[c]
<1>1. /\ t \in Tasks /\ mode[t] = "running" /\ want[t] \in {m, NoMutex} /\ ~timedOut[t]
      /\ owner[m] # NoOwner /\ owner' = owner /\ swallowed' = swallowed /\ timedOut' = timedOut
      /\ mode' = [mode EXCEPT ![t] = "waiting"] /\ want' = [want EXCEPT ![t] = m]
      /\ ahead' = [ahead EXCEPT ![t] = Waiters(m)]
  <2>1. t \in Tasks /\ mode[t] = "running"
    BY DEF LockWait, IInv, TypeOK, Placement
  <2>2. want[t] \in {m, NoMutex} /\ ~timedOut[t]
    BY <2>1, MutexAssumption DEF LockWait, InLockCall
  <2> QED
    BY <2>1, <2>2 DEF LockWait, mutexVars
<1> HIDE DEF t
<1>2. QueueOrder'
  <2>1. ASSUME NEW u \in Tasks
        PROVE  /\ mode'[u] = "waiting" => want'[u] \in Mutexes /\ ~timedOut'[u]
               /\ mode'[u] # "waiting" => ahead'[u] = {}
    BY <1>1 DEF WakeInv, QueueOrder, IInv, TypeOK
  <2>2. ASSUME NEW u \in Tasks, NEW v \in ahead'[u]
        PROVE  /\ mode'[v] = "waiting" /\ want'[v] = want'[u]
               /\ v \notin ahead'[v] /\ ahead'[v] \subseteq ahead'[u]
    <3>1. \A x \in Tasks : \A y \in ahead[x] :
              /\ y \in Tasks /\ mode[y] = "waiting" /\ want[y] = want[x]
              /\ y \notin ahead[y] /\ ahead[y] \subseteq ahead[x]
      BY DEF WakeInv, QueueOrder, IInv, TypeOK
    <3>2. CASE u = t
      <4>1. v \in Tasks /\ mode[v] = "waiting" /\ want[v] = m /\ v # t /\ ahead'[u] = Waiters(m)
        BY <1>1, <2>2, <3>2 DEF Waiters, IInv, TypeOK
      <4>2. v \notin ahead[v]
        BY <3>1, <4>1
      <4>3. ahead[v] \subseteq Waiters(m)
        BY <3>1, <4>1 DEF Waiters
      <4> QED
        BY <1>1, <3>2, <4>1, <4>2, <4>3 DEF IInv, TypeOK
    <3>3. CASE u # t
      <4>1. v \in ahead[u]
        BY <1>1, <2>2, <3>3 DEF IInv, TypeOK
      <4>2. v # t /\ v \in Tasks
        BY <1>1, <3>1, <4>1
      <4> QED
        BY <1>1, <3>1, <3>3, <4>1, <4>2 DEF IInv, TypeOK
    <3> QED
      BY <3>2, <3>3
  <2> QED
    BY <2>1, <2>2 DEF QueueOrder
<1>3. NoStrandedWaiter'
  <2>1. SUFFICES ASSUME NEW k \in Mutexes, owner'[k] = NoOwner, Waiters(k)' # {}
                 PROVE  swallowed'[k] \/ \E u \in Tasks : /\ mode'[u] \in {"ready", "running"}
                                                          /\ want'[u] = k /\ ~timedOut'[u]
    BY DEF NoStrandedWaiter
  <2>2. k # m /\ owner[k] = NoOwner
    BY <1>1, <2>1
  <2>3. Waiters(k) # {}
    BY <1>1, <2>1, <2>2 DEF Waiters, IInv, TypeOK
  <2>4. CASE swallowed[k]
    BY <1>1, <2>4
  <2>5. CASE ~swallowed[k]
    <3>1. PICK u \in Tasks : mode[u] \in {"ready", "running"} /\ want[u] = k /\ ~timedOut[u]
      BY <2>2, <2>3, <2>5 DEF WakeInv, NoStrandedWaiter
    <3>2. u # t
      BY <1>1, <2>2, <3>1, MutexAssumption
    <3> QED
      BY <1>1, <3>1, <3>2 DEF IInv, TypeOK
  <2> QED
    BY <2>4, <2>5
<1> QED
  BY <1>2, <1>3 DEF WakeInv

\* A wait that expires strands nobody: the task was not the one on the way.
LEMMA ExpiryUnlinks ==
    ASSUME IInv, WakeInv, NEW t \in Tasks, Expire(t)
    PROVE  WakeInv'
<1>1. /\ mode[t] = "waiting" /\ mode' = [mode EXCEPT ![t] = "ready"]
      /\ ahead' = [u \in Tasks |-> IF u = t THEN {} ELSE ahead[u] \ {t}]
      /\ timedOut' = [timedOut EXCEPT ![t] = TRUE]
      /\ owner' = owner /\ want' = want /\ swallowed' = swallowed
  BY DEF Expire, mutexVars
<1>2. QueueOrder'
  <2>1. \A u \in Tasks : u # t => want'[u] = want[u] /\ timedOut'[u] = timedOut[u]
    BY <1>1 DEF IInv, TypeOK
  <2> QED
    BY <1>1, <2>1, UnlinkedOrder DEF WakeInv
<1>3. \A m \in Mutexes : Waiters(m)' \subseteq Waiters(m)
  BY <1>1 DEF Waiters, IInv, TypeOK
<1>4. \A m \in Mutexes : OnTheWay(m) \subseteq OnTheWay(m)'
  BY <1>1 DEF OnTheWay, IInv, TypeOK
<1>5. NoStrandedWaiter'
  BY <1>1, <1>3, <1>4 DEF WakeInv, NoStrandedWaiter, OnTheWay
<1> QED
  BY <1>2, <1>5 DEF WakeInv

\* A kill strands waiters of a free mutex only with the victim's own wakeup.
LEMMA KillUnlinks ==
    ASSUME IInv, WakeInv, NEW t \in Tasks, Kill(t)
    PROVE  WakeInv'
<1>1. /\ mode[t] \in {"ready", "waiting"} /\ mode' = [mode EXCEPT ![t] = "doomed"]
      /\ ahead' = [u \in Tasks |-> IF u = t THEN {} ELSE ahead[u] \ {t}]
      /\ want' = [want EXCEPT ![t] = NoMutex] /\ timedOut' = [timedOut EXCEPT ![t] = FALSE]
      /\ owner' = owner
  BY DEF Kill, Killable, mutexVars
<1>2. QueueOrder'
  <2>1. \A u \in Tasks : u # t => want'[u] = want[u] /\ timedOut'[u] = timedOut[u]
    BY <1>1 DEF IInv, TypeOK
  <2> QED
    BY <1>1, <2>1, UnlinkedOrder DEF WakeInv
<1>3. \A m \in Mutexes : Waiters(m)' \subseteq Waiters(m)
  BY <1>1 DEF Waiters, IInv, TypeOK
<1>4. NoStrandedWaiter'
  <2>1. SUFFICES ASSUME NEW m \in Mutexes, owner'[m] = NoOwner, Waiters(m)' # {}, ~swallowed'[m]
                 PROVE  \E u \in Tasks : /\ mode'[u] \in {"ready", "running"}
                                         /\ want'[u] = m /\ ~timedOut'[u]
    BY DEF NoStrandedWaiter
  <2>2. /\ ~swallowed[m]
        /\ ~(mode[t] = "ready" /\ want[t] = m /\ ~timedOut[t] /\ owner[m] = NoOwner)
    BY <2>1 DEF Kill
  <2>3. PICK u \in Tasks : mode[u] \in {"ready", "running"} /\ want[u] = m /\ ~timedOut[u]
    BY <1>1, <1>3, <2>1, <2>2 DEF WakeInv, NoStrandedWaiter
  <2>4. u # t
    BY <1>1, <2>1, <2>2, <2>3
  <2> QED
    BY <1>1, <2>3, <2>4 DEF IInv, TypeOK
<1> QED
  BY <1>2, <1>4 DEF WakeInv

------------------------------------------------------------------------------
(* The steps that leave the queues alone.                                   *)

\* Taking a free mutex ends the taker's own wait for it and nobody else's.
LEMMA TakeQuiet ==
    ASSUME IInv, WakeInv, NEW c \in CPUs, NEW m \in Mutexes, LockFree(c, m)
    PROVE  WakeInv'
<1> USE MutexAssumption
<1>1. /\ ahead' = ahead /\ swallowed' = swallowed /\ mode' = mode /\ timedOut' = timedOut
      /\ owner' = [owner EXCEPT ![m] = Caller(c)]
      /\ want' = [t \in Tasks |-> IF t = running[c] THEN NoMutex ELSE want[t]]
  BY DEF LockFree, ReturnFromLock
<1>2. \A t \in Tasks : t = running[c] => mode[t] = "running" /\ want[t] \in {m, NoMutex}
  BY DEF LockFree, InLockCall, IInv, TypeOK, Placement
<1>3. Caller(c) # NoOwner
  BY DEF Caller, IInv, TypeOK
<1>4. \A k \in Mutexes : owner'[k] = NoOwner => owner[k] = NoOwner /\ k # m
  BY <1>1, <1>3 DEF IInv, TypeOK
<1>5. \A k \in Mutexes : k # m => OnTheWay(k) \subseteq OnTheWay(k)'
  BY <1>1, <1>2 DEF OnTheWay
<1> QED
  BY <1>1, <1>2, <1>4, <1>5, QuietStep

\* A call that returns late finds the mutex taken or has itself timed out.
LEMMA ReturnQuiet ==
    ASSUME IInv, WakeInv, NEW c \in CPUs,
           LockTimeout(c) \/ \E m \in Mutexes : LockLate(c, m)
    PROVE  WakeInv'
<1> USE MutexAssumption
<1>1. /\ ahead' = ahead /\ swallowed' = swallowed /\ mode' = mode /\ owner' = owner
      /\ want' = [t \in Tasks |-> IF t = running[c] THEN NoMutex ELSE want[t]]
      /\ \A t \in Tasks : t # running[c] => timedOut'[t] = timedOut[t]
      /\ running[c] \in Tasks /\ mode[running[c]] = "running"
  <2>1. running[c] \in Tasks /\ mode[running[c]] = "running"
    BY DEF LockTimeout, LockLate, IInv, TypeOK, Placement
  <2>2. CASE LockTimeout(c)
    BY <2>1, <2>2 DEF LockTimeout, ReturnFromLock, IInv, TypeOK, mutexVars, taskVars
  <2>3. CASE \E m \in Mutexes : LockLate(c, m)
    BY <2>1, <2>3 DEF LockLate, ReturnFromLock, mutexVars, taskVars
  <2> QED
    BY <2>1, <2>2, <2>3
<1>2. \A k \in Mutexes : owner[k] = NoOwner => running[c] \notin OnTheWay(k)
  <2>1. CASE LockTimeout(c)
    BY <2>1 DEF LockTimeout, OnTheWay
  <2>2. ASSUME NEW m \in Mutexes, LockLate(c, m)
        PROVE  \A k \in Mutexes : owner[k] = NoOwner => running[c] \notin OnTheWay(k)
    BY <2>2 DEF LockLate, OnTheWay
  <2> QED
    BY <2>1, <2>2
<1>3. \A k \in Mutexes : owner[k] = NoOwner => OnTheWay(k) \subseteq OnTheWay(k)'
  BY <1>1, <1>2 DEF OnTheWay
<1>4. \A t \in Tasks : mode[t] = "waiting" => want'[t] = want[t] /\ timedOut'[t] = timedOut[t]
  BY <1>1
<1> QED
  BY <1>1, <1>3, <1>4, QuietStep

\* Pinned locking, recursion, inner unlocks and preemption guards wake nobody.
LEMMA GuardQuiet ==
    ASSUME IInv, WakeInv, NEW c \in CPUs,
           \/ DisablePreemption(c) \/ EnablePreemption(c)
           \/ \E m \in Mutexes : \/ LockAgain(c, m) \/ TryLockPinned(c, m)
                                 \/ TryLockAgain(c, m) \/ UnlockInner(c, m)
    PROVE  WakeInv'
<1> USE MutexAssumption
<1>1. UNCHANGED <<mode, want, ahead, timedOut, swallowed>>
  BY DEF DisablePreemption, EnablePreemption, LockAgain, TryLockPinned, TryLockAgain,
         UnlockInner, taskVars, waitVars
<1>2. \A k \in Mutexes : owner'[k] = NoOwner => owner[k] = NoOwner
  BY DEF DisablePreemption, EnablePreemption, LockAgain, TryLockPinned, TryLockAgain,
         UnlockInner, mutexVars, IInv, TypeOK
<1>3. \A k \in Mutexes : OnTheWay(k) \subseteq OnTheWay(k)'
  BY <1>1 DEF OnTheWay
<1> QED
  BY <1>1, <1>2, <1>3, QuietStep

\* The scheduler moves tasks between CPUs and slots without touching a queue.
LEMMA SchedulerQuiet ==
    ASSUME IInv, WakeInv,
           \/ \E c \in CPUs : Preempt(c) \/ Exit(c) \/ \E t \in Tasks : Dispatch(c, t)
           \/ \E t \in Tasks : \/ DeadlinePasses(t) \/ Create(t) \/ FinishKill(t)
                               \/ \E m \in Mutexes : PopHeld(t, m)
    PROVE  WakeInv'
<1> USE MutexAssumption
<1>1. UNCHANGED <<owner, want, ahead, timedOut, swallowed>>
  BY DEF Preempt, Exit, Dispatch, DeadlinePasses, Create, FinishKill, PopHeld,
         mutexVars, waitVars
<1>2. ASSUME NEW t \in Tasks
      PROVE  /\ mode[t] = "waiting" <=> mode'[t] = "waiting"
             /\ mode[t] \in {"ready", "running"} /\ want[t] # NoMutex =>
                    mode'[t] \in {"ready", "running"}
  <2>1. CASE \E c \in CPUs : Preempt(c) \/ Exit(c)
    BY <2>1 DEF Preempt, Exit, BetweenCalls, IInv, TypeOK, Placement
  <2>2. CASE \E c \in CPUs : \E u \in Tasks : Dispatch(c, u)
    BY <2>2 DEF Dispatch, IInv, TypeOK
  <2>3. CASE \E u \in Tasks : Create(u) \/ FinishKill(u)
    BY <2>3 DEF Create, FinishKill, IInv, TypeOK
  <2>4. CASE \E u \in Tasks : DeadlinePasses(u) \/ \E m \in Mutexes : PopHeld(u, m)
    BY <2>4 DEF DeadlinePasses, PopHeld, taskVars
  <2> QED
    BY <2>1, <2>2, <2>3, <2>4
<1>3. \A k \in Mutexes : OnTheWay(k) \subseteq OnTheWay(k)'
  BY <1>1, <1>2 DEF OnTheWay
<1> QED
  BY <1>1, <1>2, <1>3, QuietStep

------------------------------------------------------------------------------
(* The theorem.                                                             *)

\* Nobody waits for a mutex that has just been initialised.
LEMMA InitWakes == Init => WakeInv
BY DEF Init, WakeInv, QueueOrder, NoStrandedWaiter, Waiters

\* Every step of the code keeps the queues ordered and strands no waiter.
LEMMA NextWakes == IInv /\ WakeInv /\ [Next]_vars => WakeInv'
<1> SUFFICES ASSUME IInv, WakeInv, [Next]_vars PROVE WakeInv'
  OBVIOUS
<1>1. ASSUME NEW c \in CPUs, NEW m \in Mutexes,
             LockFree(c, m) \/ LockRefused(c, m) \/ LockWait(c, m)
      PROVE  WakeInv'
  BY <1>1, TakeQuiet, RefusedPassesOn, WaitLinks
<1>2. ASSUME NEW c \in CPUs, NEW m \in Mutexes,
             \/ LockAgain(c, m) \/ LockLate(c, m)
             \/ TryLockPinned(c, m) \/ TryLockAgain(c, m) \/ UnlockInner(c, m)
      PROVE  WakeInv'
  BY <1>2, GuardQuiet, ReturnQuiet
<1>3. ASSUME NEW c \in CPUs, NEW m \in Mutexes, UnlockFinal(c, m)
      PROVE  WakeInv'
  BY <1>3, ReleaseStep DEF UnlockFinal
<1>4. ASSUME NEW c \in CPUs,
             LockTimeout(c) \/ DisablePreemption(c) \/ EnablePreemption(c)
      PROVE  WakeInv'
  BY <1>4, GuardQuiet, ReturnQuiet
<1>5. ASSUME NEW c \in CPUs, Preempt(c) \/ Exit(c) \/ \E t \in Tasks : Dispatch(c, t)
      PROVE  WakeInv'
  BY <1>5, SchedulerQuiet
<1>6. ASSUME NEW t \in Tasks,
             \/ DeadlinePasses(t) \/ Create(t) \/ FinishKill(t)
             \/ \E m \in Mutexes : PopHeld(t, m)
      PROVE  WakeInv'
  BY <1>6, SchedulerQuiet
<1>7. ASSUME NEW t \in Tasks, Expire(t) \/ Kill(t)
      PROVE  WakeInv'
  BY <1>7, ExpiryUnlinks, KillUnlinks
<1>8. ASSUME NEW t \in Tasks, Abandon(t)
      PROVE  WakeInv'
  <2>1. popped[t] \in Mutexes /\ Release(popped[t]) /\ want' = want /\ timedOut' = timedOut
    BY <1>8 DEF Abandon, IInv, TypeOK
  <2> QED
    BY <2>1, ReleaseStep
<1>9. CASE UNCHANGED vars
  <2>1. UNCHANGED <<owner, mode, want, ahead, timedOut, swallowed>>
    BY <1>9 DEF vars, mutexVars, taskVars, waitVars
  <2>2. \A k \in Mutexes : OnTheWay(k)' = OnTheWay(k)
    BY <2>1 DEF OnTheWay
  <2> QED
    BY <2>1, <2>2, QuietStep
<1> QED
  BY <1>1, <1>2, <1>3, <1>4, <1>5, <1>6, <1>7, <1>8, <1>9 DEF Next

\* No wakeup of a mutex is lost, whatever the number of tasks, CPUs and mutexes:
\* a free mutex with waiters has a woken task on its way, unless that task was
\* killed first.
THEOREM WakeupsReachSomeone == Spec => []NoStrandedWaiter
<1>1. Init => WakeInv
  BY InitWakes
<1>2. IInv /\ WakeInv /\ [Next]_vars => WakeInv'
  BY NextWakes
<1>3. WakeInv => NoStrandedWaiter
  BY DEF WakeInv
<1> QED
  BY <1>1, <1>2, <1>3, MutexInvariant, PTL DEF Spec
==============================================================================
