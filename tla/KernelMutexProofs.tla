-------------------------- MODULE KernelMutexProofs --------------------------
(***************************************************************************)
(* Ownership of kernel mutexes, for any number of tasks, CPUs and mutexes  *)
(* and every recursion limit and capacity: nothing a mutex needs in order  *)
(* to be released again is ever lost.                                      *)
(***************************************************************************)
EXTENDS KernelMutex, FiniteSetTheorems, TLAPS

------------------------------------------------------------------------------
(* The inductive invariant.                                                 *)

\* A task runs on at most one CPU, and knows that it does.
Placement ==
    /\ \A c \in CPUs : running[c] # NoTask => mode[running[c]] = "running"
    /\ \A c, d \in CPUs : running[c] # NoTask /\ running[c] = running[d] => c = d

\* Only a killed task has a mutex under revocation, and only one record of it.
Revocation ==
    \A t \in Tasks : popped[t] # NoMutex => mode[t] = "doomed" /\ popped[t] \notin held[t]

\* A holder that is not recorded is on a CPU; a kernel context never takes a
\* mutex pinned.
UnrecordedPlaced ==
    \A m \in Mutexes :
        /\ owner[m] \in CPUs \/ (owner[m] # NoOwner /\ pinned[m])
              => \E c \in CPUs : Caller(c) = owner[m]
        /\ owner[m] \in CPUs => ~pinned[m]

IInv ==
    /\ TypeOK
    /\ Placement
    /\ Revocation
    /\ RevocableExactly
    /\ OwnerAlive
    /\ UnrecordedPlaced
    /\ PinsBalanced

------------------------------------------------------------------------------
(* Pins.                                                                    *)

\* The pins of a CPU can be counted.
LEMMA GuardsFinite ==
    ASSUME NEW c \in CPUs
    PROVE  IsFiniteSet(Guards(c)) /\ Cardinality(Guards(c)) \in Nat
<1>1. IsFiniteSet(1..RecursionLimit)
  BY MutexAssumption, FS_Interval
<1>2. IsFiniteSet(Mutexes \X (1..RecursionLimit))
  BY <1>1, MutexAssumption, FS_Product
<1>3. Guards(c) \subseteq Mutexes \X (1..RecursionLimit)
  BY DEF Guards
<1> QED
  BY <1>2, <1>3, FS_Subset, FS_CardinalityType

\* Different CPUs run different callers.
LEMMA CallersDiffer ==
    ASSUME TypeOK, Placement, NEW c \in CPUs, NEW d \in CPUs, Caller(c) = Caller(d)
    PROVE  c = d
BY MutexAssumption DEF TypeOK, Placement, Caller

\* A CPU without a pin is not inside a section that needs one.
LEMMA NoPinNoGuard ==
    ASSUME IInv, NEW c \in CPUs, pins[c] = 0
    PROVE  Guards(c) = {} /\ callerPins[c] = 0
<1>1. callerPins[c] \in Nat /\ Cardinality(Guards(c)) \in Nat
  BY GuardsFinite, MutexAssumption DEF IInv, TypeOK
<1>2. callerPins[c] = 0 /\ Cardinality(Guards(c)) = 0
  BY <1>1 DEF IInv, PinsBalanced
<1> QED
  BY <1>2, GuardsFinite, FS_EmptySet

\* A step that changes neither the mutexes nor who runs where keeps all guards.
LEMMA GuardsKept ==
    ASSUME owner' = owner, depth' = depth, pinned' = pinned, running' = running
    PROVE  \A c \in CPUs : Guards(c)' = Guards(c)
BY DEF Guards, Caller

\* One caller takes a further guard, all others keep theirs.
LEMMA OneGuardMore ==
    ASSUME TypeOK, PinsBalanced, callerPins' = callerPins,
           NEW c \in CPUs, NEW g, g \notin Guards(c), Guards(c)' = Guards(c) \cup {g},
           \A d \in CPUs : d # c => Guards(d)' = Guards(d),
           pins' = [pins EXCEPT ![c] = @ + 1]
    PROVE  PinsBalanced' /\ pins' \in [CPUs -> Nat]
<1>1. Cardinality(Guards(c)') = Cardinality(Guards(c)) + 1
  BY GuardsFinite, FS_AddElement
<1>2. \A d \in CPUs : Cardinality(Guards(d)) \in Nat /\ callerPins[d] \in Nat
  BY GuardsFinite, MutexAssumption DEF TypeOK
<1>3. \A d \in CPUs : Cardinality(Guards(d)') = Cardinality(Guards(d)) + (IF d = c THEN 1 ELSE 0)
  BY <1>1, <1>2
<1>4. \A d \in CPUs : pins[d] = callerPins[d] + Cardinality(Guards(d)) /\ pins[d] \in Nat
  BY DEF PinsBalanced, TypeOK
<1>5. pins' \in [CPUs -> Nat]
  BY DEF TypeOK
<1>6. \A d \in CPUs : pins'[d] = callerPins'[d] + Cardinality(Guards(d)')
  BY <1>2, <1>3, <1>4 DEF TypeOK
<1> QED
  BY <1>5, <1>6 DEF PinsBalanced

\* One caller drops a guard, all others keep theirs.
LEMMA OneGuardLess ==
    ASSUME TypeOK, PinsBalanced, callerPins' = callerPins,
           NEW c \in CPUs, NEW g \in Guards(c), Guards(c)' = Guards(c) \ {g},
           \A d \in CPUs : d # c => Guards(d)' = Guards(d),
           pins' = [pins EXCEPT ![c] = @ - 1]
    PROVE  PinsBalanced' /\ pins' \in [CPUs -> Nat]
<1>1. Cardinality(Guards(c)') = Cardinality(Guards(c)) - 1 /\ Cardinality(Guards(c)) > 0
  <2>1. Cardinality(Guards(c) \ {g}) = Cardinality(Guards(c)) - 1
    BY GuardsFinite, FS_RemoveElement
  <2>2. Cardinality(Guards(c)) # 0
    BY GuardsFinite, FS_EmptySet
  <2> QED
    BY <2>1, <2>2, GuardsFinite
<1>2. \A d \in CPUs : Cardinality(Guards(d)) \in Nat /\ callerPins[d] \in Nat
  BY GuardsFinite, MutexAssumption DEF TypeOK
<1>3. \A d \in CPUs : Cardinality(Guards(d)') = Cardinality(Guards(d)) - (IF d = c THEN 1 ELSE 0)
  BY <1>1, <1>2
<1>4. \A d \in CPUs : pins[d] = callerPins[d] + Cardinality(Guards(d)) /\ pins[d] \in Nat
  BY DEF PinsBalanced, TypeOK
<1>5. pins \in [CPUs -> Nat]
  BY DEF TypeOK
<1>6. pins' \in [CPUs -> Nat]
  BY <1>1, <1>2, <1>4, <1>5
<1>7. \A d \in CPUs : pins'[d] = pins[d] - (IF d = c THEN 1 ELSE 0)
  BY <1>4, <1>5
<1>8. \A d \in CPUs : pins'[d] = callerPins'[d] + Cardinality(Guards(d)')
  BY <1>2, <1>3, <1>4, <1>7
<1> QED
  BY <1>6, <1>8 DEF PinsBalanced

\* No caller takes or drops a guard.
LEMMA GuardsUntouched ==
    ASSUME PinsBalanced, callerPins' = callerPins, pins' = pins,
           \A d \in CPUs : Guards(d)' = Guards(d)
    PROVE  PinsBalanced'
BY DEF PinsBalanced

------------------------------------------------------------------------------
(* Types of what the actions share.                                         *)

\* Returning from kernel_mutex_lock_until keeps the types of the call state.
LEMMA ReturnType ==
    ASSUME TypeOK, NEW c \in CPUs, ReturnFromLock(c)
    PROVE  /\ want' \in [Tasks -> Mutexes \cup {NoMutex}]
           /\ late' \in [Tasks -> BOOLEAN]
<1>1. want' \in [Tasks -> Mutexes \cup {NoMutex}]
  BY DEF TypeOK, ReturnFromLock
<1>2. late' \in [Tasks -> BOOLEAN]
  BY Zenon DEF TypeOK, ReturnFromLock
<1> QED
  BY <1>1, <1>2

\* wait_queue_wake_one keeps the types of the state it writes.
LEMMA WakeType ==
    ASSUME TypeOK, NEW m \in Mutexes, WakeOne(m)
    PROVE  /\ mode' \in [Tasks -> Modes]
           /\ ahead' \in [Tasks -> SUBSET Tasks]
           /\ swallowed' \in [Mutexes -> BOOLEAN]
<1>1. mode' \in [Tasks -> Modes]
  BY DEF TypeOK, WakeOne, Modes
<1>2. ahead' \in [Tasks -> SUBSET Tasks]
  BY DEF TypeOK, WakeOne
<1>3. swallowed' \in [Mutexes -> BOOLEAN]
  BY DEF TypeOK, WakeOne
<1> QED
  BY <1>1, <1>2, <1>3

\* held_mutexes: one entry more where there is room, one less, or none at all.
LEMMA HeldEntries ==
    ASSUME NEW S \in SUBSET Mutexes, NEW m, Cardinality(S) <= Capacity
    PROVE  /\ Cardinality(S) < Capacity => Cardinality(S \cup {m}) <= Capacity
           /\ Cardinality(S \ {m}) <= Capacity /\ Cardinality({}) <= Capacity
<1>1. IsFiniteSet(S) /\ Cardinality(S) \in Nat /\ Capacity \in Nat
  BY MutexAssumption, FS_Subset, FS_CardinalityType
<1>2. Cardinality(S \cup {m}) = IF m \in S THEN Cardinality(S) ELSE Cardinality(S) + 1
  BY <1>1, FS_AddElement
<1>3. Cardinality(S \ {m}) <= Cardinality(S) /\ Cardinality(S \ {m}) \in Nat
  <2>1. S \ {m} \in SUBSET S
    OBVIOUS
  <2> QED
    BY <1>1, <2>1, FS_Subset, FS_CardinalityType
<1>4. Cardinality({}) = 0
  BY FS_EmptySet
<1> QED
  BY <1>1, <1>2, <1>3, <1>4

------------------------------------------------------------------------------
(* Steps that only concern waiting tasks, and steps that leave a CPU.       *)

\* Nothing but waiting and killing happens: the mutexes, the CPUs and the records
\* of ownership stay as they are.
LEMMA OnlyWaitersStep ==
    ASSUME IInv, TypeOK',
           UNCHANGED <<mutexVars, cpuVars, gen, held, popped>>,
           \A t \in Tasks : mode'[t] # mode[t] =>
               mode[t] \in {"ready", "waiting"} /\ mode'[t] \in {"ready", "doomed"}
    PROVE  IInv'
<1>1. UNCHANGED <<owner, ownerGen, depth, pinned, running, pins, callerPins, gen, held, popped>>
  BY DEF mutexVars, cpuVars
<1>2. Placement'
  <2>1. \A d \in CPUs : running[d] # NoTask => running[d] \in Tasks
    BY DEF IInv, TypeOK
  <2>2. \A d \in CPUs : running[d] # NoTask => mode'[running[d]] = "running"
    BY <2>1 DEF IInv, Placement
  <2> QED
    BY <1>1, <2>2 DEF IInv, Placement
<1>3. Revocation' /\ RevocableExactly'
  BY <1>1 DEF IInv, TypeOK, Revocation, RevocableExactly
<1>4. OwnerAlive'
  BY <1>1 DEF IInv, TypeOK, OwnerAlive
<1>5. UnrecordedPlaced'
  BY <1>1 DEF IInv, UnrecordedPlaced, Caller
<1>6. PinsBalanced'
  BY <1>1, GuardsKept, GuardsUntouched DEF IInv
<1> QED
  BY <1>2, <1>3, <1>4, <1>5, <1>6 DEF IInv

\* A task without a pin loses its CPU: it holds nothing that is not recorded.
LEMMA LeaveCpuStep ==
    ASSUME IInv, TypeOK', NEW c \in CPUs, NEW status \in Modes,
           running[c] # NoTask, pins[c] = 0,
           running' = [running EXCEPT ![c] = NoTask],
           mode' = [mode EXCEPT ![running[c]] = status],
           status = "free" => \A m \in Mutexes : owner[m] # running[c],
           UNCHANGED <<mutexVars, pins, callerPins, gen, held, popped>>
    PROVE  IInv'
<1> USE MutexAssumption
<1>1. UNCHANGED <<owner, ownerGen, depth, pinned, pins, callerPins, gen, held, popped>>
  BY DEF mutexVars
<1>2. running[c] \in Tasks /\ mode[running[c]] = "running"
  BY DEF IInv, TypeOK, Placement
<1>3. \A d \in CPUs : Caller(d) = Caller(c) => d = c
  BY CallersDiffer DEF IInv
<1>4. \A m \in Mutexes : owner[m] # c
  <2>1. SUFFICES ASSUME NEW m \in Mutexes, owner[m] = c
                 PROVE  FALSE
    OBVIOUS
  <2>2. PICK d \in CPUs : Caller(d) = c
    BY <2>1 DEF IInv, UnrecordedPlaced
  <2>3. CASE running[d] = NoTask
    <3>1. d = c
      BY <2>2, <2>3 DEF Caller
    <3> QED
      BY <2>3, <3>1
  <2>4. CASE running[d] # NoTask
    <3>1. running[d] \in Tasks /\ running[d] = c
      BY <2>2, <2>4 DEF IInv, TypeOK, Caller
    <3> QED
      BY <3>1
  <2> QED
    BY <2>3, <2>4
<1>5. \A m \in Mutexes : ~(owner[m] = running[c] /\ pinned[m])
  <2>1. SUFFICES ASSUME NEW m \in Mutexes, owner[m] = running[c], pinned[m]
                 PROVE  FALSE
    OBVIOUS
  <2>2. depth[m] # 0 /\ depth[m] \in 0..RecursionLimit
    BY <1>2, <2>1 DEF IInv, TypeOK, OwnerAlive
  <2>3. <<m, 1>> \in Guards(c)
    BY <2>1, <2>2 DEF Guards, Caller
  <2> QED
    BY <2>3, NoPinNoGuard
<1>6. Placement'
  BY <1>2 DEF IInv, TypeOK, Placement
<1>7. Revocation' /\ RevocableExactly'
  BY <1>1, <1>2 DEF IInv, TypeOK, Revocation, RevocableExactly
<1>8. OwnerAlive'
  BY <1>1, <1>2 DEF IInv, TypeOK, OwnerAlive
<1>9. UnrecordedPlaced'
  BY <1>1, <1>2, <1>4, <1>5 DEF IInv, TypeOK, UnrecordedPlaced, Caller
<1>10. PinsBalanced'
  <2>1. Guards(c)' = {} /\ Guards(c) = {}
    BY <1>1, <1>4, NoPinNoGuard DEF IInv, TypeOK, Guards, Caller
  <2>2. \A d \in CPUs : d # c => Guards(d)' = Guards(d)
    BY <1>1 DEF IInv, TypeOK, Guards, Caller
  <2> QED
    BY <1>1, <2>1, <2>2, GuardsUntouched DEF IInv
<1> QED
  BY <1>6, <1>7, <1>8, <1>9, <1>10 DEF IInv

------------------------------------------------------------------------------
(* Steps of kernel_mutex_lock_until.                                        *)

\* Taking a free mutex.
LEMMA LockFreeStep ==
    ASSUME IInv, NEW c \in CPUs, NEW m \in Mutexes, LockFree(c, m)
    PROVE  IInv'
<1> USE MutexAssumption
<1> DEFINE t == running[c]
<1>1. depth[m] = 0 /\ owner[m] = NoOwner
  BY DEF IInv, OwnerAlive, LockFree
<1>2. \A u \in Tasks : m \notin held[u] /\ popped[u] # m
  BY <1>1 DEF IInv, RevocableExactly
<1>3. PinsBalanced' /\ pins' \in [CPUs -> Nat]
  <2>1. \A d \in CPUs : d # c => Guards(d)' = Guards(d)
    BY <1>1, CallersDiffer DEF IInv, TypeOK, LockFree, Guards, Caller
  <2>2. CASE t = NoTask
    <3>1. Guards(c)' = Guards(c) \cup {<<m, 1>>}
      BY <1>1, <2>2 DEF IInv, TypeOK, LockFree, Guards, Caller
    <3>2. <<m, 1>> \notin Guards(c)
      BY <1>1, <2>2 DEF Guards, Caller
    <3>3. pins' = [pins EXCEPT ![c] = @ + 1] /\ callerPins' = callerPins
      BY <2>2 DEF LockFree, KernelGuard
    <3> QED
      BY <2>1, <3>1, <3>2, <3>3, OneGuardMore DEF IInv
  <2>3. CASE t # NoTask
    <3>1. Guards(c)' = Guards(c)
      BY <1>1, <2>3 DEF IInv, TypeOK, LockFree, Guards, Caller
    <3>2. pins' = pins /\ callerPins' = callerPins
      BY <2>3 DEF IInv, TypeOK, LockFree, KernelGuard
    <3> QED
      BY <2>1, <3>1, <3>2, GuardsUntouched DEF IInv, TypeOK
  <2> QED
    BY <2>2, <2>3
<1>4. TypeOK'
  <2>1. /\ want' \in [Tasks -> Mutexes \cup {NoMutex}]
        /\ late' \in [Tasks -> BOOLEAN]
    BY ReturnType DEF IInv, LockFree
  <2>2. held' \in [Tasks -> SUBSET Mutexes]
    BY DEF IInv, TypeOK, LockFree, Register
  <2>3. \A u \in Tasks : Cardinality(held'[u]) <= Capacity
    <3>1. \A u \in Tasks : held[u] \in SUBSET Mutexes /\ Cardinality(held[u]) <= Capacity
      BY DEF IInv, TypeOK
    <3>2. \A u \in Tasks : held'[u] = held[u] \/ (u = t /\ held'[u] = held[u] \cup {m})
      BY DEF LockFree, Register
    <3>3. \A u \in Tasks : u = t => Cardinality(held[u]) < Capacity
      BY DEF LockFree, HasRoom
    <3> QED
      BY <3>1, <3>2, <3>3, HeldEntries
  <2> QED
    BY <1>3, <2>1, <2>2, <2>3 DEF IInv, TypeOK, LockFree, Caller, Generation
<1>5. Placement' /\ Revocation'
  BY <1>2 DEF IInv, TypeOK, Placement, Revocation, LockFree, Register
<1>6. RevocableExactly'
  BY <1>1, <1>2 DEF IInv, TypeOK, RevocableExactly, LockFree, Register, Caller
<1>7. OwnerAlive'
  BY <1>1 DEF IInv, TypeOK, OwnerAlive, Placement, LockFree, Caller, Generation
<1>8. UnrecordedPlaced'
  BY <1>1 DEF IInv, TypeOK, UnrecordedPlaced, LockFree, Caller
<1> QED
  BY <1>3, <1>4, <1>5, <1>6, <1>7, <1>8 DEF IInv

\* A grant refused by the held_mutexes capacity leaves the mutex free and nobody pinned.
LEMMA LockRefusedStep ==
    ASSUME IInv, NEW c \in CPUs, NEW m \in Mutexes, LockRefused(c, m)
    PROVE  IInv'
<1>1. TypeOK'
  BY ReturnType, WakeType
     DEF IInv, TypeOK, LockRefused, PassWakeupOn, mutexVars, cpuVars
<1>2. \A t \in Tasks : mode'[t] # mode[t] => mode[t] = "waiting" /\ mode'[t] = "ready"
  BY DEF IInv, TypeOK, LockRefused, PassWakeupOn, WakeOne, Woken, Waiters
<1> QED
  BY <1>1, <1>2, OnlyWaitersStep DEF LockRefused

\* A recursive kernel_mutex_lock adds a depth and an outer guard.
LEMMA LockAgainStep ==
    ASSUME IInv, NEW c \in CPUs, NEW m \in Mutexes, LockAgain(c, m)
    PROVE  IInv'
<1> USE MutexAssumption
<1>1. depth[m] \in 1..RecursionLimit - 1 /\ owner[m] = Caller(c)
  BY DEF IInv, TypeOK, OwnerAlive, LockAgain, Owns, BelowLimit, Caller
<1>2. UNCHANGED <<owner, ownerGen, pinned, running, callerPins, mode, gen, lastGen,
                  held, popped, want, ahead, late, timedOut, swallowed>>
  BY DEF LockAgain, taskVars, waitVars
<1>3. PinsBalanced' /\ pins' \in [CPUs -> Nat]
  <2>1. \A d \in CPUs : d # c => Guards(d)' = Guards(d)
    BY <1>1, <1>2, CallersDiffer DEF IInv, TypeOK, LockAgain, Guards, Caller
  <2>2. CASE running[c] = NoTask
    <3>1. Guards(c)' = Guards(c) \cup {<<m, depth[m] + 1>>}
      BY <1>1, <1>2, <2>2 DEF IInv, TypeOK, LockAgain, Guards, Caller
    <3>2. <<m, depth[m] + 1>> \notin Guards(c)
      BY <1>1, <2>2 DEF Guards, Caller
    <3>3. pins' = [pins EXCEPT ![c] = @ + 1]
      BY <2>2 DEF LockAgain, KernelGuard
    <3> QED
      BY <1>2, <2>1, <3>1, <3>2, <3>3, OneGuardMore DEF IInv
  <2>3. CASE running[c] # NoTask
    <3>1. Guards(c)' = Guards(c)
      BY <1>1, <1>2, <2>3 DEF IInv, TypeOK, LockAgain, Guards, Caller
    <3>2. pins' = pins
      BY <2>3 DEF IInv, TypeOK, LockAgain, KernelGuard
    <3> QED
      BY <1>2, <2>1, <3>1, <3>2, GuardsUntouched DEF IInv, TypeOK
  <2> QED
    BY <2>2, <2>3
<1>4. TypeOK'
  BY <1>1, <1>2, <1>3 DEF IInv, TypeOK, LockAgain
<1>5. Placement' /\ Revocation' /\ RevocableExactly' /\ UnrecordedPlaced'
  BY <1>2 DEF IInv, Placement, Revocation, RevocableExactly, UnrecordedPlaced, Caller
<1>6. OwnerAlive'
  BY <1>1, <1>2 DEF IInv, TypeOK, OwnerAlive, LockAgain, Caller
<1> QED
  BY <1>3, <1>4, <1>5, <1>6 DEF IInv

\* Enqueueing on a held mutex touches neither owner nor pins.
LEMMA LockWaitStep ==
    ASSUME IInv, NEW c \in CPUs, NEW m \in Mutexes, LockWait(c, m)
    PROVE  IInv'
<1>1. running[c] \in Tasks
  BY DEF IInv, TypeOK, LockWait
<1>2. TypeOK'
  BY <1>1 DEF IInv, TypeOK, LockWait, Modes, Waiters, mutexVars
<1> QED
  BY <1>2, LeaveCpuStep DEF LockWait, Modes

\* A retry after the deadline returns and owns nothing new.
LEMMA LockLateStep ==
    ASSUME IInv, NEW c \in CPUs, NEW m \in Mutexes, LockLate(c, m)
    PROVE  IInv'
<1>1. TypeOK'
  BY ReturnType DEF IInv, TypeOK, LockLate, mutexVars, cpuVars, taskVars
<1> QED
  BY <1>1, OnlyWaitersStep DEF LockLate, taskVars

\* A waiter that woke by its deadline returns without having taken anything.
LEMMA LockTimeoutStep ==
    ASSUME IInv, NEW c \in CPUs, LockTimeout(c)
    PROVE  IInv'
<1>1. TypeOK'
  BY ReturnType DEF IInv, TypeOK, LockTimeout, mutexVars, cpuVars, taskVars
<1> QED
  BY <1>1, OnlyWaitersStep DEF LockTimeout, taskVars

------------------------------------------------------------------------------
(* Steps of kernel_mutex_trylock_pinned and kernel_mutex_unlock.            *)

\* A trylock from a pinned caller owns the mutex unrecorded, under a pin of its own.
LEMMA TryLockPinnedStep ==
    ASSUME IInv, NEW c \in CPUs, NEW m \in Mutexes, TryLockPinned(c, m)
    PROVE  IInv'
<1> USE MutexAssumption
<1>1. depth[m] = 0 /\ owner[m] = NoOwner /\ running[c] \in Tasks
  BY DEF IInv, TypeOK, OwnerAlive, TryLockPinned, PinnedCaller
<1>2. \A u \in Tasks : m \notin held[u] /\ popped[u] # m
  BY <1>1 DEF IInv, RevocableExactly
<1>3. UNCHANGED <<running, callerPins, mode, gen, lastGen, held, popped, want, ahead,
                  late, timedOut, swallowed>>
  BY DEF TryLockPinned, taskVars, waitVars
<1>4. PinsBalanced' /\ pins' \in [CPUs -> Nat]
  <2>1. \A d \in CPUs : d # c => Guards(d)' = Guards(d)
    BY <1>1, <1>3, CallersDiffer DEF IInv, TypeOK, TryLockPinned, Guards, Caller
  <2>2. Guards(c)' = Guards(c) \cup {<<m, 1>>}
    BY <1>1, <1>3 DEF IInv, TypeOK, TryLockPinned, Guards, Caller
  <2>3. <<m, 1>> \notin Guards(c)
    BY <1>1 DEF Guards, Caller
  <2>4. pins' = [pins EXCEPT ![c] = @ + 1]
    BY DEF TryLockPinned, InternalPin
  <2> QED
    BY <1>3, <2>1, <2>2, <2>3, <2>4, OneGuardMore DEF IInv
<1>5. TypeOK'
  BY <1>1, <1>3, <1>4 DEF IInv, TypeOK, TryLockPinned, Caller, Generation
<1>6. Placement' /\ Revocation'
  BY <1>3 DEF IInv, Placement, Revocation
<1>7. RevocableExactly'
  BY <1>1, <1>2, <1>3 DEF IInv, TypeOK, RevocableExactly, TryLockPinned
<1>8. OwnerAlive'
  BY <1>1, <1>3
     DEF IInv, TypeOK, OwnerAlive, Placement, TryLockPinned, Caller, Generation
<1>9. UnrecordedPlaced'
  BY <1>1, <1>3 DEF IInv, TypeOK, UnrecordedPlaced, TryLockPinned, Caller
<1> QED
  BY <1>4, <1>5, <1>6, <1>7, <1>8, <1>9 DEF IInv

\* A recursive trylock adds a depth, never a record.
LEMMA TryLockAgainStep ==
    ASSUME IInv, NEW c \in CPUs, NEW m \in Mutexes, TryLockAgain(c, m)
    PROVE  IInv'
<1> USE MutexAssumption
<1>1. /\ depth[m] \in 1..RecursionLimit - 1 /\ owner[m] = Caller(c)
      /\ running[c] \in Tasks
  BY DEF IInv, TypeOK, OwnerAlive, TryLockAgain, Owns, BelowLimit, Caller, PinnedCaller
<1>2. UNCHANGED <<owner, ownerGen, pinned, running, pins, callerPins, mode, gen,
                  lastGen, held, popped, want, ahead, late, timedOut, swallowed>>
  BY DEF TryLockAgain, cpuVars, taskVars, waitVars
<1>3. \A d \in CPUs : Guards(d)' = Guards(d)
  <2>1. \A d \in CPUs : d # c => Guards(d)' = Guards(d)
    BY <1>1, <1>2, CallersDiffer DEF IInv, TypeOK, TryLockAgain, Guards, Caller
  <2>2. Guards(c)' = Guards(c)
    BY <1>1, <1>2 DEF IInv, TypeOK, TryLockAgain, Guards, Caller
  <2> QED
    BY <2>1, <2>2
<1>4. PinsBalanced'
  BY <1>2, <1>3, GuardsUntouched DEF IInv
<1>5. TypeOK'
  BY <1>1, <1>2 DEF IInv, TypeOK, TryLockAgain
<1>6. Placement' /\ Revocation' /\ RevocableExactly' /\ UnrecordedPlaced'
  BY <1>2 DEF IInv, Placement, Revocation, RevocableExactly, UnrecordedPlaced, Caller
<1>7. OwnerAlive'
  BY <1>1, <1>2 DEF IInv, TypeOK, OwnerAlive, TryLockAgain, Caller
<1> QED
  BY <1>4, <1>5, <1>6, <1>7 DEF IInv

\* An inner unlock drops one depth and its guard, the owner stays.
LEMMA UnlockInnerStep ==
    ASSUME IInv, NEW c \in CPUs, NEW m \in Mutexes, UnlockInner(c, m)
    PROVE  IInv'
<1> USE MutexAssumption
<1>1. depth[m] \in 2..RecursionLimit /\ owner[m] = Caller(c)
  BY DEF IInv, TypeOK, UnlockInner, Owns
<1>2. UNCHANGED <<owner, ownerGen, pinned, running, callerPins, mode, gen, lastGen,
                  held, popped, want, ahead, late, timedOut, swallowed>>
  BY DEF UnlockInner, taskVars, waitVars
<1>3. PinsBalanced' /\ pins' \in [CPUs -> Nat]
  <2>1. \A d \in CPUs : d # c => Guards(d)' = Guards(d)
    BY <1>1, <1>2, CallersDiffer DEF IInv, TypeOK, UnlockInner, Guards, Caller
  <2>2. CASE running[c] = NoTask
    <3>1. Guards(c)' = Guards(c) \ {<<m, depth[m]>>}
      BY <1>1, <1>2, <2>2 DEF IInv, TypeOK, UnlockInner, Guards, Caller
    <3>2. <<m, depth[m]>> \in Guards(c)
      BY <1>1, <2>2 DEF Guards, Caller
    <3>3. pins' = [pins EXCEPT ![c] = @ - 1]
      BY <2>2 DEF UnlockInner, KernelGuard
    <3> QED
      BY <1>2, <2>1, <3>1, <3>2, <3>3, OneGuardLess DEF IInv
  <2>3. CASE running[c] # NoTask
    <3>1. Guards(c)' = Guards(c)
      BY <1>1, <1>2, <2>3 DEF IInv, TypeOK, UnlockInner, Guards, Caller
    <3>2. pins' = pins
      BY <2>3 DEF IInv, TypeOK, UnlockInner, KernelGuard
    <3> QED
      BY <1>2, <2>1, <3>1, <3>2, GuardsUntouched DEF IInv, TypeOK
  <2> QED
    BY <2>2, <2>3
<1>4. TypeOK'
  BY <1>1, <1>2, <1>3 DEF IInv, TypeOK, UnlockInner
<1>5. Placement' /\ Revocation' /\ RevocableExactly' /\ UnrecordedPlaced'
  BY <1>2 DEF IInv, Placement, Revocation, RevocableExactly, UnrecordedPlaced, Caller
<1>6. OwnerAlive'
  BY <1>1, <1>2 DEF IInv, TypeOK, OwnerAlive, UnlockInner, Caller
<1> QED
  BY <1>3, <1>4, <1>5, <1>6 DEF IInv

\* What Release does to the waiters keeps everybody where he is.
LEMMA ReleaseWakes ==
    ASSUME TypeOK, NEW m \in Mutexes, WakeOne(m)
    PROVE  \A t \in Tasks : mode'[t] # mode[t] => mode[t] = "waiting" /\ mode'[t] = "ready"
BY DEF TypeOK, WakeOne, Woken, Waiters

\* The last unlock drops owner, record and internal pin in one section.
LEMMA UnlockFinalStep ==
    ASSUME IInv, NEW c \in CPUs, NEW m \in Mutexes, UnlockFinal(c, m)
    PROVE  IInv'
<1> USE MutexAssumption
<1> DEFINE t == running[c]
<1>1. depth[m] = 1 /\ owner[m] = Caller(c) /\ Release(m)
  BY DEF UnlockFinal, Owns
<1>2. UNCHANGED <<running, callerPins, gen, lastGen, popped, want, late, timedOut>>
  BY DEF UnlockFinal
<1>3. /\ owner' = [owner EXCEPT ![m] = NoOwner] /\ ownerGen' = [ownerGen EXCEPT ![m] = 0]
      /\ depth' = [depth EXCEPT ![m] = 0] /\ pinned' = [pinned EXCEPT ![m] = FALSE]
      /\ WakeOne(m)
  BY <1>1 DEF Release
<1>4. held' = [u \in Tasks |-> IF u = t THEN held[u] \ {m} ELSE held[u]]
  BY DEF UnlockFinal
<1>5. \A u \in Tasks : mode'[u] # mode[u] => mode[u] = "waiting" /\ mode'[u] = "ready"
  BY <1>3, ReleaseWakes DEF IInv
<1>6. mode' \in [Tasks -> Modes]
  BY <1>3, WakeType DEF IInv
<1>7. PinsBalanced' /\ pins' \in [CPUs -> Nat]
  <2>1. \A d \in CPUs : d # c => Guards(d)' = Guards(d)
    BY <1>1, <1>2, <1>3, CallersDiffer DEF IInv, TypeOK, Guards, Caller
  <2>2. CASE t = NoTask \/ pinned[m]
    <3>1. Guards(c)' = Guards(c) \ {<<m, 1>>}
      BY <1>1, <1>2, <1>3, <2>2 DEF IInv, TypeOK, Guards, Caller
    <3>2. <<m, 1>> \in Guards(c)
      BY <1>1, <2>2 DEF Guards, Caller
    <3>3. t = NoTask => ~pinned[m]
      BY <1>1 DEF IInv, UnrecordedPlaced, Caller
    <3>4. pins[c] \in Nat
      BY DEF IInv, TypeOK
    <3>5. pins' = [pins EXCEPT ![c] = @ - 1]
      <4>1. pins' = [pins EXCEPT ![c] = @ - KernelGuard(c, m)
                                          - (IF pinned[m] THEN InternalPin ELSE 0)]
        BY DEF UnlockFinal
      <4>2. pins[c] - KernelGuard(c, m) - (IF pinned[m] THEN InternalPin ELSE 0) = pins[c] - 1
        BY <2>2, <3>3, <3>4 DEF KernelGuard, InternalPin
      <4> QED
        BY <4>1, <4>2
    <3> QED
      BY <1>2, <2>1, <3>1, <3>2, <3>5, OneGuardLess DEF IInv
  <2>3. CASE t # NoTask /\ ~pinned[m]
    <3>1. Guards(c)' = Guards(c)
      BY <1>1, <1>2, <1>3, <2>3 DEF IInv, TypeOK, Guards, Caller
    <3>2. pins' = pins
      BY <2>3 DEF IInv, TypeOK, UnlockFinal, KernelGuard, InternalPin
    <3> QED
      BY <1>2, <2>1, <3>1, <3>2, GuardsUntouched DEF IInv, TypeOK
  <2> QED
    BY <2>2, <2>3
<1>8. TypeOK'
  <2>1. held' \in [Tasks -> SUBSET Mutexes]
    BY <1>4 DEF IInv, TypeOK
  <2>2. \A u \in Tasks : Cardinality(held'[u]) <= Capacity
    BY <1>4, HeldEntries DEF IInv, TypeOK
  <2> QED
    BY <1>2, <1>3, <1>6, <1>7, <2>1, <2>2, WakeType DEF IInv, TypeOK
<1>9. Placement' /\ Revocation'
  BY <1>2, <1>4, <1>5 DEF IInv, TypeOK, Placement, Revocation
<1>10. RevocableExactly'
  <2>1. \A u \in Tasks : u # t => m \notin held[u]
    BY <1>1 DEF IInv, TypeOK, RevocableExactly, Caller
  <2>2. \A u \in Tasks : popped[u] # m
    BY <1>1 DEF IInv, TypeOK, RevocableExactly, Revocation, Placement, Caller
  <2> QED
    BY <1>2, <1>3, <1>4, <2>1, <2>2 DEF IInv, TypeOK, RevocableExactly
<1>11. OwnerAlive'
  BY <1>2, <1>3, <1>5 DEF IInv, TypeOK, OwnerAlive
<1>12. UnrecordedPlaced'
  BY <1>2, <1>3 DEF IInv, TypeOK, UnrecordedPlaced, Caller
<1> QED
  BY <1>7, <1>8, <1>9, <1>10, <1>11, <1>12 DEF IInv

------------------------------------------------------------------------------
(* Steps of the callers' own guards and of the scheduler.                   *)

\* preempt_disable and preempt_enable by the caller itself move one pin.
LEMMA GuardNestingStep ==
    ASSUME IInv, NEW c \in CPUs, DisablePreemption(c) \/ EnablePreemption(c)
    PROVE  IInv'
<1> USE MutexAssumption
<1>1. UNCHANGED <<owner, ownerGen, depth, pinned, running, mode, gen, lastGen, held,
                  popped, want, ahead, late, timedOut, swallowed>>
  BY DEF DisablePreemption, EnablePreemption, mutexVars, taskVars, waitVars
<1>2. \A d \in CPUs : Guards(d)' = Guards(d)
  BY <1>1, GuardsKept
<1>3. \A d \in CPUs : Cardinality(Guards(d)) \in Nat /\ callerPins[d] \in Nat
  BY GuardsFinite DEF IInv, TypeOK
<1>4. \A d \in CPUs : pins[d] = callerPins[d] + Cardinality(Guards(d))
  BY DEF IInv, PinsBalanced
<1>5. callerPins' \in [CPUs -> 0..MaxCallerPins]
  BY DEF IInv, TypeOK, DisablePreemption, EnablePreemption
<1>6. \A d \in CPUs : pins'[d] = callerPins'[d] + Cardinality(Guards(d))
  BY <1>3, <1>4 DEF IInv, TypeOK, DisablePreemption, EnablePreemption
<1>7. pins' \in [CPUs -> Nat]
  BY <1>3, <1>5, <1>6 DEF IInv, TypeOK, DisablePreemption, EnablePreemption
<1>8. TypeOK'
  BY <1>1, <1>5, <1>7 DEF IInv, TypeOK
<1>9. PinsBalanced'
  BY <1>2, <1>6 DEF PinsBalanced
<1>10. Placement' /\ Revocation' /\ RevocableExactly' /\ OwnerAlive' /\ UnrecordedPlaced'
  BY <1>1 DEF IInv, Placement, Revocation, RevocableExactly, OwnerAlive,
              UnrecordedPlaced, Caller
<1> QED
  BY <1>8, <1>9, <1>10 DEF IInv

\* Only a task without pins is switched out, so nothing unrecorded leaves its CPU.
LEMMA PreemptStep ==
    ASSUME IInv, NEW c \in CPUs, Preempt(c)
    PROVE  IInv'
<1>1. TypeOK'
  BY DEF IInv, TypeOK, Preempt, Modes, mutexVars, waitVars
<1> QED
  BY <1>1, LeaveCpuStep DEF Preempt, Modes

\* A task that exits holds no mutex, so leaving its CPU orphans nothing.
LEMMA ExitStep ==
    ASSUME IInv, NEW c \in CPUs, Exit(c)
    PROVE  IInv'
<1>1. TypeOK'
  BY DEF IInv, TypeOK, Exit, Modes, mutexVars, waitVars
<1> QED
  BY <1>1, LeaveCpuStep DEF Exit, Modes

\* A dispatched task takes an idle CPU that nobody has pinned.
LEMMA DispatchStep ==
    ASSUME IInv, NEW c \in CPUs, NEW t \in Tasks, Dispatch(c, t)
    PROVE  IInv'
<1> USE MutexAssumption
<1>1. UNCHANGED <<owner, ownerGen, depth, pinned, pins, callerPins, gen, lastGen, held,
                  popped, want, ahead, late, timedOut, swallowed>>
  BY DEF Dispatch, mutexVars, waitVars
<1>2. /\ running[c] = NoTask /\ pins[c] = 0 /\ mode[t] = "ready"
      /\ mode' = [mode EXCEPT ![t] = "running"] /\ running' = [running EXCEPT ![c] = t]
  BY DEF Dispatch
<1>3. \A d \in CPUs : running[d] # t
  BY <1>2 DEF IInv, TypeOK, Placement
<1>4. \A m \in Mutexes : ~(owner[m] = t /\ pinned[m])
  BY <1>3 DEF IInv, TypeOK, UnrecordedPlaced, Caller
<1>5. \A m \in Mutexes : owner[m] # c
  <2>1. SUFFICES ASSUME NEW m \in Mutexes, owner[m] = c
                 PROVE  FALSE
    OBVIOUS
  <2>2. depth[m] # 0 /\ depth[m] \in 0..RecursionLimit
    BY <2>1 DEF IInv, TypeOK, OwnerAlive
  <2>3. <<m, 1>> \in Guards(c)
    BY <1>2, <2>1, <2>2 DEF Guards, Caller
  <2> QED
    BY <1>2, <2>3, NoPinNoGuard
<1>6. TypeOK'
  BY <1>1, <1>2 DEF IInv, TypeOK, Modes
<1>7. Placement'
  BY <1>2, <1>3 DEF IInv, TypeOK, Placement
<1>8. Revocation' /\ RevocableExactly' /\ OwnerAlive'
  BY <1>1, <1>2 DEF IInv, TypeOK, Revocation, RevocableExactly, OwnerAlive
<1>9. UnrecordedPlaced'
  BY <1>1, <1>2, <1>5 DEF IInv, TypeOK, UnrecordedPlaced, Caller
<1>10. PinsBalanced'
  <2>1. Guards(c)' = {} /\ Guards(c) = {}
    BY <1>1, <1>2, <1>4, NoPinNoGuard DEF IInv, TypeOK, Guards, Caller
  <2>2. \A d \in CPUs : d # c => Guards(d)' = Guards(d)
    BY <1>1, <1>2 DEF IInv, TypeOK, Guards, Caller
  <2> QED
    BY <1>1, <2>1, <2>2, GuardsUntouched DEF IInv
<1> QED
  BY <1>6, <1>7, <1>8, <1>9, <1>10 DEF IInv

\* The clock moves no owner and no pin.
LEMMA DeadlinePassesStep ==
    ASSUME IInv, NEW t \in Tasks, DeadlinePasses(t)
    PROVE  IInv'
<1>1. TypeOK'
  BY DEF IInv, TypeOK, DeadlinePasses, mutexVars, cpuVars, taskVars
<1> QED
  BY <1>1, OnlyWaitersStep DEF DeadlinePasses, taskVars

\* Expiring a waiter makes it ready and leaves all ownership alone.
LEMMA ExpireStep ==
    ASSUME IInv, NEW t \in Tasks, Expire(t)
    PROVE  IInv'
<1>1. TypeOK'
  BY DEF IInv, TypeOK, Expire, Modes, mutexVars, cpuVars
<1>2. \A u \in Tasks : mode'[u] # mode[u] => mode[u] = "waiting" /\ mode'[u] = "ready"
  BY DEF IInv, TypeOK, Expire
<1> QED
  BY <1>1, <1>2, OnlyWaitersStep DEF Expire

\* A kill takes only a task that is off its CPU, and such a task owns nothing unrecorded.
LEMMA KillStep ==
    ASSUME IInv, NEW t \in Tasks, Kill(t)
    PROVE  IInv'
<1>1. swallowed' \in [Mutexes -> BOOLEAN]
  BY Zenon DEF IInv, TypeOK, Kill
<1>2. TypeOK'
  BY <1>1 DEF IInv, TypeOK, Kill, Modes, mutexVars, cpuVars
<1>3. \A u \in Tasks : mode'[u] # mode[u] =>
          mode[u] \in {"ready", "waiting"} /\ mode'[u] = "doomed"
  BY DEF IInv, TypeOK, Kill, Killable
<1> QED
  BY <1>2, <1>3, OnlyWaitersStep DEF Kill

\* A free slot owns nothing, so its next task inherits nothing.
LEMMA CreateStep ==
    ASSUME IInv, NEW t \in Tasks, Create(t)
    PROVE  IInv'
<1> USE MutexAssumption
<1>1. UNCHANGED <<owner, ownerGen, depth, pinned, running, pins, callerPins, popped,
                  want, ahead, late, timedOut, swallowed>>
  BY DEF Create, mutexVars, cpuVars, waitVars
<1>2. /\ mode[t] = "free" /\ mode' = [mode EXCEPT ![t] = "ready"]
      /\ gen' = [gen EXCEPT ![t] = lastGen + 1] /\ lastGen' = lastGen + 1
      /\ held' = [held EXCEPT ![t] = {}]
  BY DEF Create, NextGeneration
<1>3. \A m \in Mutexes : owner[m] # t
  BY <1>2 DEF IInv, OwnerAlive
<1>4. held[t] = {}
  BY <1>3 DEF IInv, TypeOK, RevocableExactly
<1>5. TypeOK'
  <2>1. held' = held
    BY <1>2, <1>4 DEF IInv, TypeOK
  <2>2. \A u \in Tasks : Cardinality(held'[u]) <= Capacity
    BY <2>1 DEF IInv, TypeOK
  <2>3. /\ mode' \in [Tasks -> Modes] /\ gen' \in [Tasks -> Nat] /\ lastGen' \in Nat
        /\ held' \in [Tasks -> SUBSET Mutexes]
    BY <1>2, <2>1 DEF IInv, TypeOK, Modes
  <2> QED
    BY <1>1, <2>2, <2>3 DEF IInv, TypeOK
<1>6. Placement' /\ Revocation'
  BY <1>1, <1>2, <1>4 DEF IInv, TypeOK, Placement, Revocation
<1>7. RevocableExactly' /\ OwnerAlive'
  BY <1>1, <1>2, <1>3, <1>4 DEF IInv, TypeOK, RevocableExactly, OwnerAlive
<1>8. UnrecordedPlaced'
  BY <1>1 DEF IInv, UnrecordedPlaced, Caller
<1>9. PinsBalanced'
  BY <1>1, GuardsKept, GuardsUntouched DEF IInv
<1> QED
  BY <1>5, <1>6, <1>7, <1>8, <1>9 DEF IInv

\* The terminator pops a mutex from held_mutexes into its own hands.
LEMMA PopHeldStep ==
    ASSUME IInv, NEW t \in Tasks, NEW m \in Mutexes, PopHeld(t, m)
    PROVE  IInv'
<1> USE MutexAssumption
<1>1. UNCHANGED <<owner, ownerGen, depth, pinned, running, pins, callerPins, mode, gen,
                  lastGen, want, ahead, late, timedOut, swallowed>>
  BY DEF PopHeld, mutexVars, cpuVars, waitVars
<1>2. /\ mode[t] = "doomed" /\ popped[t] = NoMutex /\ m \in held[t]
      /\ held' = [held EXCEPT ![t] = @ \ {m}] /\ popped' = [popped EXCEPT ![t] = m]
  BY DEF PopHeld
<1>3. TypeOK'
  <2>1. \A u \in Tasks : Cardinality(held'[u]) <= Capacity
    BY <1>2, HeldEntries DEF IInv, TypeOK
  <2> QED
    BY <1>1, <1>2, <2>1 DEF IInv, TypeOK
<1>4. Placement' /\ OwnerAlive' /\ UnrecordedPlaced'
  BY <1>1 DEF IInv, Placement, OwnerAlive, UnrecordedPlaced, Caller
<1>5. Revocation' /\ RevocableExactly'
  BY <1>1, <1>2 DEF IInv, TypeOK, Revocation, RevocableExactly
<1>6. PinsBalanced'
  BY <1>1, GuardsKept, GuardsUntouched DEF IInv
<1> QED
  BY <1>3, <1>4, <1>5, <1>6 DEF IInv

\* kernel_mutex_abandon frees exactly the popped mutex of the victim.
LEMMA AbandonStep ==
    ASSUME IInv, NEW t \in Tasks, Abandon(t)
    PROVE  IInv'
<1> USE MutexAssumption
<1> DEFINE m == popped[t]
<1>1. /\ m \in Mutexes /\ owner[m] = t /\ ~pinned[m] /\ Release(m)
      /\ popped' = [popped EXCEPT ![t] = NoMutex]
      /\ UNCHANGED <<running, pins, callerPins, gen, lastGen, held, want, late, timedOut>>
  BY DEF IInv, TypeOK, Abandon, AbandonMatches, Owns, cpuVars
<1>2. /\ owner' = [owner EXCEPT ![m] = NoOwner] /\ ownerGen' = [ownerGen EXCEPT ![m] = 0]
      /\ depth' = [depth EXCEPT ![m] = 0] /\ pinned' = [pinned EXCEPT ![m] = FALSE]
      /\ WakeOne(m)
  BY <1>1 DEF Release
<1>3. \A u \in Tasks : mode'[u] # mode[u] => mode[u] = "waiting" /\ mode'[u] = "ready"
  BY <1>1, <1>2, ReleaseWakes DEF IInv
<1>4. \A u \in Tasks : /\ m \notin held[u]
                       /\ u # t => popped[u] # m
  BY <1>1 DEF IInv, TypeOK, RevocableExactly, Revocation
<1>5. \A d \in CPUs : running[d] # t
  BY <1>1 DEF IInv, TypeOK, Placement, Revocation
<1>6. TypeOK'
  BY <1>1, <1>2, WakeType DEF IInv, TypeOK
<1>7. Placement' /\ Revocation'
  BY <1>1, <1>3 DEF IInv, TypeOK, Placement, Revocation
<1>8. RevocableExactly'
  BY <1>1, <1>2, <1>4 DEF IInv, TypeOK, RevocableExactly
<1>9. OwnerAlive'
  BY <1>1, <1>2, <1>3 DEF IInv, TypeOK, OwnerAlive
<1>10. UnrecordedPlaced'
  BY <1>1, <1>2 DEF IInv, TypeOK, UnrecordedPlaced, Caller
<1>11. \A d \in CPUs : Guards(d)' = Guards(d)
  BY <1>1, <1>2, <1>5 DEF IInv, TypeOK, Guards, Caller
<1>12. PinsBalanced'
  BY <1>1, <1>11, GuardsUntouched DEF IInv
<1> QED
  BY <1>6, <1>7, <1>8, <1>9, <1>10, <1>12 DEF IInv

\* A slot is freed only once its held_mutexes are empty.
LEMMA FinishKillStep ==
    ASSUME IInv, NEW t \in Tasks, FinishKill(t)
    PROVE  IInv'
<1> USE MutexAssumption
<1>1. UNCHANGED <<owner, ownerGen, depth, pinned, running, pins, callerPins, gen,
                  lastGen, held, popped, want, ahead, late, timedOut, swallowed>>
  BY DEF FinishKill, mutexVars, cpuVars, waitVars
<1>2. /\ mode[t] = "doomed" /\ popped[t] = NoMutex /\ held[t] = {}
      /\ mode' = [mode EXCEPT ![t] = "free"]
  BY DEF FinishKill, RevokedAll
<1>3. \A d \in CPUs : running[d] # t
  BY <1>2 DEF IInv, TypeOK, Placement
<1>4. \A m \in Mutexes : owner[m] # t
  BY <1>2, <1>3 DEF IInv, TypeOK, RevocableExactly, UnrecordedPlaced, Caller
<1>5. TypeOK'
  BY <1>1, <1>2 DEF IInv, TypeOK, Modes
<1>6. Placement' /\ Revocation' /\ RevocableExactly'
  BY <1>1, <1>2, <1>3 DEF IInv, TypeOK, Placement, Revocation, RevocableExactly
<1>7. OwnerAlive'
  BY <1>1, <1>2, <1>4 DEF IInv, TypeOK, OwnerAlive
<1>8. UnrecordedPlaced'
  BY <1>1 DEF IInv, UnrecordedPlaced, Caller
<1>9. PinsBalanced'
  BY <1>1, GuardsKept, GuardsUntouched DEF IInv
<1> QED
  BY <1>5, <1>6, <1>7, <1>8, <1>9 DEF IInv

------------------------------------------------------------------------------
(* The invariant of the specification.                                      *)

\* After kernel_mutex_init nothing is owned and nothing is pinned.
LEMMA InitEstablishes == Init => IInv
<1> SUFFICES ASSUME Init PROVE IInv
  OBVIOUS
<1> USE MutexAssumption
<1>1. TypeOK /\ Placement /\ Revocation /\ RevocableExactly /\ OwnerAlive /\ UnrecordedPlaced
  <2>1. TypeOK
    BY FS_EmptySet DEF Init, TypeOK, Modes
  <2>2. Placement /\ Revocation
    BY DEF Init, Placement, Revocation
  <2>3. RevocableExactly /\ OwnerAlive
    BY DEF Init, RevocableExactly, OwnerAlive
  <2>4. UnrecordedPlaced
    BY DEF Init, UnrecordedPlaced
  <2> QED
    BY <2>1, <2>2, <2>3, <2>4
<1>2. \A c \in CPUs : Guards(c) = {}
  BY DEF Init, Guards
<1>3. PinsBalanced
  <2>1. \A c \in CPUs : Cardinality(Guards(c)) = 0
    BY <1>2, GuardsFinite, FS_EmptySet
  <2>2. \A c \in CPUs : pins[c] = 0 /\ callerPins[c] = 0
    BY DEF Init
  <2> QED
    BY <2>1, <2>2 DEF PinsBalanced
<1> QED
  BY <1>1, <1>3 DEF IInv

\* Every critical section, and every step of the scheduler, keeps it.
LEMMA NextPreserves == IInv /\ [Next]_vars => IInv'
<1> SUFFICES ASSUME IInv, [Next]_vars PROVE IInv'
  OBVIOUS
<1>1. ASSUME NEW c \in CPUs, NEW m \in Mutexes,
             LockFree(c, m) \/ LockRefused(c, m) \/ LockAgain(c, m)
                 \/ LockWait(c, m) \/ LockLate(c, m)
      PROVE  IInv'
  BY <1>1, LockFreeStep, LockRefusedStep, LockAgainStep, LockWaitStep, LockLateStep
<1>2. ASSUME NEW c \in CPUs, NEW m \in Mutexes,
             TryLockPinned(c, m) \/ TryLockAgain(c, m)
                 \/ UnlockInner(c, m) \/ UnlockFinal(c, m)
      PROVE  IInv'
  BY <1>2, TryLockPinnedStep, TryLockAgainStep, UnlockInnerStep, UnlockFinalStep
<1>3. ASSUME NEW c \in CPUs,
             LockTimeout(c) \/ DisablePreemption(c) \/ EnablePreemption(c)
                 \/ Preempt(c) \/ Exit(c)
      PROVE  IInv'
  BY <1>3, LockTimeoutStep, GuardNestingStep, PreemptStep, ExitStep
<1>4. ASSUME NEW c \in CPUs, NEW t \in Tasks, Dispatch(c, t)
      PROVE  IInv'
  BY <1>4, DispatchStep
<1>5. ASSUME NEW t \in Tasks,
             DeadlinePasses(t) \/ Expire(t) \/ Create(t) \/ Kill(t) \/ Abandon(t)
                 \/ FinishKill(t)
      PROVE  IInv'
  BY <1>5, DeadlinePassesStep, ExpireStep, CreateStep, KillStep, AbandonStep, FinishKillStep
<1>6. ASSUME NEW t \in Tasks, NEW m \in Mutexes, PopHeld(t, m)
      PROVE  IInv'
  BY <1>6, PopHeldStep
<1>7. CASE UNCHANGED vars
  <2>1. UNCHANGED <<owner, ownerGen, depth, pinned, running, pins, callerPins, mode, gen,
                    lastGen, held, popped, want, ahead, late, timedOut, swallowed>>
    BY <1>7 DEF vars, mutexVars, cpuVars, taskVars, waitVars
  <2>2. TypeOK'
    BY <2>1 DEF IInv, TypeOK
  <2> QED
    BY <2>1, <2>2, OnlyWaitersStep DEF mutexVars, cpuVars
<1> QED
  BY <1>1, <1>2, <1>3, <1>4, <1>5, <1>6, <1>7 DEF Next

\* The inductive invariant holds in every reachable state.
THEOREM MutexInvariant == Spec => []IInv
BY InitEstablishes, NextPreserves, PTL DEF Spec

\* A holder that no kill could revoke is on a CPU, and a pin keeps it there.
LEMMA PlacedIsPinned == IInv => UnrecordedOwnerRuns
<1> SUFFICES ASSUME IInv, NEW m \in Mutexes,
                    owner[m] \in CPUs \/ (owner[m] # NoOwner /\ pinned[m])
             PROVE  \E c \in CPUs : Caller(c) = owner[m] /\ pins[c] > 0
  BY DEF UnrecordedOwnerRuns
<1> USE MutexAssumption
<1>1. PICK c \in CPUs : Caller(c) = owner[m]
  BY DEF IInv, UnrecordedPlaced
<1>2. owner[m] # NoOwner
  BY DEF IInv, TypeOK
<1>3. depth[m] \in 1..RecursionLimit
  BY <1>2 DEF IInv, TypeOK, OwnerAlive
<1>4. running[c] = NoTask \/ pinned[m]
  BY <1>1 DEF IInv, TypeOK, Caller
<1>5. <<m, 1>> \in Guards(c)
  BY <1>1, <1>3, <1>4 DEF Guards
<1>6. Guards(c) # {}
  BY <1>5
<1>7. pins[c] # 0 /\ pins[c] \in Nat
  BY <1>6, NoPinNoGuard DEF IInv, TypeOK
<1> QED
  BY <1>1, <1>7

\* Types: in particular no preempt_disable_count ever goes below zero and no
\* recursion_depth beyond its limit.
THEOREM MutexTypes == Spec => []TypeOK
BY MutexInvariant, PTL DEF IInv

\* The ownership sets that kills work from are exact, for any number of tasks,
\* CPUs and mutexes.
THEOREM OwnershipRecorded == Spec => []RevocableExactly
BY MutexInvariant, PTL DEF IInv

\* No mutex is owned by a dead slot or by a task of another generation.
THEOREM OwnersLive == Spec => []OwnerAlive
BY MutexInvariant, PTL DEF IInv

\* Whoever holds a mutex without a record of it is executing and cannot be
\* preempted or killed.
THEOREM UnrecordedOwnersRun == Spec => []UnrecordedOwnerRuns
BY MutexInvariant, PlacedIsPinned, PTL

\* Every preempt_disable of the mutexes is paired with one preempt_enable.
THEOREM PinsPaired == Spec => []PinsBalanced
BY MutexInvariant, PTL DEF IInv
==============================================================================
