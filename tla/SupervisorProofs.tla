-------------------------- MODULE SupervisorProofs --------------------------
(***************************************************************************)
(* Safety of the supervised drivers, for any number of domains, restart    *)
(* budgets and driver behaviours: no driver runs off the record, no        *)
(* restarted driver gets output authority by the self-test of another, and *)
(* no report brings an earlier generation back, as long as the boot thread *)
(* does not (it panics when it does).                                      *)
(***************************************************************************)
EXTENDS Supervisor, SequenceTheorems, TLAPS

------------------------------------------------------------------------------
(* The inductive invariant.                                                 *)

Live == {"running", "exiting"}
SetUp == {"DMA_BOUND", "ACTIVE"}
AllDead(d) == \A p \in DOMAIN procs[d] : procs[d][p] = "dead"

\* The newest process of a domain: the only one that may be alive.
Last(d) == Len(procs[d])

\* The record c names a process that was dead when the boot thread wrote it back:
\* nothing but that thread's panic is to come of it.
Stale(d, c) ==
    boot.pc = "move" /\ boot.slot = d /\ boot.copy.pid = c /\ c # 0 /\ ~Alive(d, c)

\* A domain whose record may name nobody.
Vacant(d) ==
    /\ \A p \in DOMAIN procs[d] : procs[d][p] \notin Live
    /\ dev[d].state \notin SetUp
    /\ sup[d].epoch > 1 => sup[d].state \notin Reportable

\* What a record, or a copy of it that will be written back, may name.
Names(d, c) == IF c = 0 THEN Vacant(d) ELSE c = Last(d) \/ Stale(d, c)
Cleared(d, c) == c = 0 \/ Stale(d, c)

\* The worker has a process that is not on record yet.
Preparing ==
    \/ worker.pc \in {"publish", "start"}
    \/ worker.aborting /\ worker.pc \in {"fence_device", "terminate"}

\* Only the newest process is alive; one that has not been started is known to the
\* worker, and the boot thread does not take it for a driver that is ready.
ProcessInv(d) ==
    \A p \in DOMAIN procs[d] :
        /\ procs[d][p] # "dead" => p = Last(d)
        /\ procs[d][p] = "prepared" =>
              /\ Preparing /\ worker.slot = d /\ worker.pid = p
              /\ ctl[d].pid = p => ctl[d].fenced

\* A device that is set up is owned by the newest process.
DeviceInv(d) ==
    /\ dev[d].owner = 0 <=> dev[d].state = "AVAILABLE"
    /\ dev[d].state \in SetUp => dev[d].owner = Last(d)

\* The session of a record is that of its domain, except while the worker, having
\* granted a restart, has not yet told the record, which then names no process.
Restarting == worker.pc \in {"event", "session"}
RecordInv(d) ==
    /\ Names(d, ctl[d].pid)
    /\ \/ ctl[d].epoch = sup[d].epoch
       \/ Restarting /\ worker.slot = d /\ ctl[d].pid = 0
       \/ Stale(d, ctl[d].pid)

\* A process in a system call runs: it exits from user mode only, and a kill takes
\* its call with it.  The copy of a report is of the caller and of the session.
CallInv(d) ==
    /\ call[d].pc # "user" => Running(d, call[d].pid)
    /\ call[d].pc \in {"call", "write", "move", "fail"} =>
          call[d].snap.pid = call[d].pid /\ call[d].snap.epoch = sup[d].epoch

\* In every generation but the first the self-test comes before the states that
\* give output authority, before a granted activation and before an active device.
TestInv(d) ==
    sup[d].epoch > 1 =>
        /\ sup[d].state \in Reportable =>
              \A p \in DOMAIN procs[d] : procs[d][p] \in Live => p \in tested[d]
        /\ dev[d].state = "ACTIVE" => dev[d].owner \in tested[d]
        /\ call[d].pc \in {"granted", "busy"} /\ call[d].type = "activate"
              => call[d].pid \in tested[d]

DomainInv(d) ==
    ProcessInv(d) /\ DeviceInv(d) /\ RecordInv(d) /\ CallInv(d) /\ TestInv(d)

\* What the worker knows of the domain it is dealing with.
OutsideFence == {"boot", "devices", "monitor", "poll"}
FenceSteps == {"fence_device", "terminate", "recover", "clear"}
InFence == {"affinity", "verify", "decide"} \cup FenceSteps
StartInv(d) ==
    /\ worker.aborting => worker.pc \in FenceSteps \cup {"isolate"} /\ Vacant(d)
    /\ worker.pc \in {"spawn", "publish", "start"} => Vacant(d)
    /\ worker.pc \in {"spawn", "publish"} => Cleared(d, ctl[d].pid)
    /\ worker.pc = "start" => ctl[d].pid # 0
    /\ worker.pc \in {"publish", "start"} =>
          /\ worker.pid = Last(d)
          /\ worker.pid \in DOMAIN procs[d] /\ procs[d][worker.pid] = "prepared"
          /\ dev[d] = [state |-> "CLAIMED", owner |-> worker.pid]
CopyInv(d) ==
    /\ worker.pc \in {"spawn", "publish", "start"} \cup FenceSteps =>
          worker.copy.epoch = sup[d].epoch
    /\ worker.pc = "session" => Names(d, worker.copy.pid)
FenceInv(d) ==
    /\ worker.pc \in {"fence_device", "terminate", "recover"} =>
          worker.pid \in DOMAIN procs[d]
    /\ worker.pc \in InFence /\ ~worker.aborting =>
          /\ sup[d].state \in {"FENCING", "ISOLATED"}
          /\ worker.pc \in {"fence_device", "terminate"} => worker.pid = Last(d)
          /\ worker.pc \in {"recover", "clear"} => AllDead(d)
          /\ worker.pc = "clear" => dev[d].owner = 0
          /\ worker.pc = "decide" /\ worker.ok =>
                AllDead(d) /\ dev[d].owner = 0 /\ Cleared(d, ctl[d].pid)
Serves(d) ==
    /\ worker.pc \notin OutsideFence => worker.epoch = sup[d].epoch
    /\ StartInv(d) /\ CopyInv(d) /\ FenceInv(d)

\* Domains whose driver has not been started yet.
Unstarted(d) ==
    /\ procs[d] = << >> /\ ctl[d] = NoControl /\ sup[d].epoch = 0
    /\ dev[d] = [state |-> "AVAILABLE", owner |-> 0]
BootingInv ==
    /\ worker.pc = "boot" => worker.booting /\ worker.epoch = 1
    /\ worker.booting =>
          /\ boot.pc = "idle"
          /\ \/ worker.pc \in {"boot", "record", "spawn", "publish", "start", "isolate"}
             \/ worker.aborting /\ worker.pc \in FenceSteps
          /\ \A d \in Domains :
                d > worker.slot \/ (d = worker.slot /\ worker.pc = "boot") => Unstarted(d)

\* The boot thread's copy is of a process that was started, and as long as it lives
\* of the present session.
BootInv ==
    LET d == boot.slot
        p == boot.copy.pid IN
    boot.pc # "idle" =>
        /\ p \in DOMAIN procs[d] /\ procs[d][p] # "prepared"
        /\ boot.pc = "write" /\ Alive(d, p) => boot.copy.epoch = sup[d].epoch

IInv ==
    /\ TypeOK /\ \A d \in Domains : DomainInv(d)
    /\ Serves(worker.slot) /\ BootingInv /\ BootInv

------------------------------------------------------------------------------
(* Processes.                                                               *)

ProcStates == {"prepared", "running", "exiting", "dead"}

\* The processes of a domain are numbered from 1.
LEMMA ProcNumbers ==
    ASSUME TypeOK, NEW d \in Domains
    PROVE  /\ procs[d] \in Seq(ProcStates) /\ Len(procs[d]) \in Nat
           /\ DOMAIN procs[d] = 1..Len(procs[d]) /\ 0 \notin DOMAIN procs[d]
<1>1. procs[d] \in Seq(ProcStates)
  BY DEF TypeOK, ProcStates
<1>2. Len(procs[d]) \in Nat /\ DOMAIN procs[d] = 1..Len(procs[d])
  BY <1>1, LenProperties
<1> QED
  BY <1>1, <1>2

\* One process changes its state.
LEMMA ProcUpdate ==
    ASSUME TypeOK, NEW d \in Domains, NEW p \in DOMAIN procs[d], NEW st \in ProcStates,
           procs' = [procs EXCEPT ![d][p] = st]
    PROVE  /\ procs' \in [Domains -> Seq(ProcStates)]
           /\ \A e \in Domains : e # d => procs'[e] = procs[e]
           /\ DOMAIN procs'[d] = DOMAIN procs[d] /\ procs'[d][p] = st
           /\ Len(procs'[d]) = Len(procs[d])
           /\ \A q \in DOMAIN procs[d] : q # p => procs'[d][q] = procs[d][q]
<1>1. procs \in [Domains -> Seq(ProcStates)]
  BY DEF TypeOK, ProcStates
<1>2. procs[d] \in Seq(ProcStates) /\ p \in 1..Len(procs[d])
  BY <1>1, ProcNumbers
<1>3. /\ [procs[d] EXCEPT ![p] = st] \in Seq(ProcStates)
      /\ Len([procs[d] EXCEPT ![p] = st]) = Len(procs[d])
  BY <1>2, ExceptSeq
<1>4. procs' = [procs EXCEPT ![d] = [procs[d] EXCEPT ![p] = st]]
  OBVIOUS
<1> QED
  BY <1>1, <1>2, <1>3, <1>4

\* One process more.
LEMMA ProcAppend ==
    ASSUME TypeOK, NEW d \in Domains, NEW st \in ProcStates,
           procs' = [procs EXCEPT ![d] = Append(@, st)]
    PROVE  /\ procs' \in [Domains -> Seq(ProcStates)]
           /\ \A e \in Domains : e # d => procs'[e] = procs[e]
           /\ DOMAIN procs'[d] = DOMAIN procs[d] \cup {Len(procs[d]) + 1}
           /\ procs'[d][Len(procs[d]) + 1] = st /\ Len(procs'[d]) = Len(procs[d]) + 1
           /\ Len(procs[d]) + 1 \notin DOMAIN procs[d]
           /\ \A q \in DOMAIN procs[d] : procs'[d][q] = procs[d][q]
<1>1. procs \in [Domains -> Seq(ProcStates)]
  BY DEF TypeOK, ProcStates
<1>2. /\ procs[d] \in Seq(ProcStates) /\ Len(procs[d]) \in Nat
      /\ DOMAIN procs[d] = 1..Len(procs[d])
  BY ProcNumbers
<1>3. /\ Append(procs[d], st) \in Seq(ProcStates)
      /\ Len(Append(procs[d], st)) = Len(procs[d]) + 1
      /\ \A i \in 1..Len(procs[d]) : Append(procs[d], st)[i] = procs[d][i]
      /\ Append(procs[d], st)[Len(procs[d]) + 1] = st
  BY <1>2, AppendProperties
<1>4. DOMAIN Append(procs[d], st) = 1..(Len(procs[d]) + 1)
  BY <1>3
<1> QED
  BY <1>1, <1>2, <1>3, <1>4

------------------------------------------------------------------------------
(* What a step leaves alone.                                                *)

SupRecords == [state : States, epoch : Nat, restart_count : Nat, overdue : BOOLEAN]
DeviceStates == {"AVAILABLE", "CLAIMED", "DMA_BOUND", "ACTIVE", "FENCED"}
DeviceRecords == [state : DeviceStates, owner : Nat]
CallRecords == [pc : {"user", "call", "write", "move", "fail", "granted", "busy"},
                pid : Nat, type : ReportTypes \cup OpTypes \cup {"none"}, snap : Control]
WorkerRecords == [pc : WorkerSteps, slot : Domains, epoch : Nat, pid : Nat,
                  ok : BOOLEAN, booting : BOOLEAN, aborting : BOOLEAN, copy : Control]
BootRecords == [pc : {"idle", "write", "move"}, slot : Domains, copy : Control,
                todo : SUBSET Domains]

\* The types, by name.
LEMMA Types ==
    TypeOK <=>
        /\ sup \in [Domains -> SupRecords] /\ ctl \in [Domains -> Control]
        /\ dev \in [Domains -> DeviceRecords] /\ procs \in [Domains -> Seq(ProcStates)]
        /\ call \in [Domains -> CallRecords] /\ busy \in SUBSET (Domains \X Nat)
        /\ worker \in WorkerRecords /\ boot \in BootRecords
        /\ next_poll_slot \in Domains /\ tested \in [Domains -> SUBSET Nat]
BY DEF TypeOK, SupRecords, DeviceStates, DeviceRecords, CallRecords, WorkerRecords,
       BootRecords, ProcStates

\* The processes of a domain are those there were, and none of them comes to life:
\* one that has been prepared may be started.
Ages(d) ==
    \A q \in DOMAIN procs[d] :
        /\ q \in DOMAIN procs'[d]
        /\ procs[d][q] = "dead" => procs'[d][q] = "dead"
        /\ procs'[d][q] = "prepared" => procs[d][q] = "prepared"

\* The process the boot thread wrote back stays dead.
LEMMA StaleStays ==
    ASSUME IInv, NEW d \in Domains, NEW c, Stale(d, c),
           boot'.pc = boot.pc, boot'.slot = boot.slot, boot'.copy = boot.copy, Ages(d)
    PROVE  Stale(d, c)'
BY DEF Stale, IInv, BootInv, Alive, Ages

\* So does what a record may name.
LEMMA NamesStay ==
    ASSUME IInv, NEW d \in Domains, NEW c,
           boot'.pc = boot.pc, boot'.slot = boot.slot, boot'.copy = boot.copy, Ages(d)
    PROVE  /\ Cleared(d, c) => Cleared(d, c)'
           /\ Names(d, c) /\ Last(d)' = Last(d) /\ (Vacant(d) => Vacant(d)') => Names(d, c)'
BY StaleStays DEF Cleared, Names

\* The boot thread's copy stays what it is.
LEMMA BootKept ==
    ASSUME IInv, boot'.pc = boot.pc, boot'.slot = boot.slot, boot'.copy = boot.copy,
           \A d \in Domains : Ages(d),
           \A d \in Domains : sup'[d].epoch = sup[d].epoch \/ AllDead(d)
    PROVE  BootInv'
<1>1. boot.slot \in Domains
  BY DEF IInv, TypeOK
<1>2. boot.pc # "idle" =>
         /\ boot.copy.pid \in DOMAIN procs'[boot.slot]
         /\ procs'[boot.slot][boot.copy.pid] # "prepared"
  BY <1>1 DEF IInv, BootInv, Ages
<1>3. ASSUME boot.pc = "write", Alive(boot.slot, boot.copy.pid)'
      PROVE  boot.copy.epoch = sup'[boot.slot].epoch
  <2>1. Alive(boot.slot, boot.copy.pid)
    BY <1>1, <1>3 DEF IInv, BootInv, Alive, Ages
  <2>2. ~AllDead(boot.slot)
    BY <2>1 DEF Alive, AllDead
  <2> QED
    BY <1>1, <1>3, <2>1, <2>2 DEF IInv, BootInv
<1> QED
  BY <1>2, <1>3 DEF BootInv

\* The state of a domain after an isolation, or a decision, that keeps the session.
Settles(d) ==
    /\ sup'[d].epoch = sup[d].epoch
    /\ sup'[d].state = sup[d].state \/ sup'[d].state \notin Reportable

\* A worker that moves on takes what it has prepared with it.
Carries(d) ==
    worker.slot = d =>
        /\ Preparing => Preparing' /\ worker'.slot = d /\ worker'.pid = worker.pid
        /\ Restarting => Restarting' /\ worker'.slot = d

\* A domain of which at most the state changes keeps its invariant.
LEMMA DomainKept ==
    ASSUME IInv, NEW d \in Domains, Carries(d), Settles(d),
           boot'.pc = boot.pc, boot'.slot = boot.slot, boot'.copy = boot.copy,
           ctl'[d] = ctl[d], dev'[d] = dev[d], procs'[d] = procs[d], call'[d] = call[d],
           tested'[d] = tested[d]
    PROVE  DomainInv(d)' /\ (Vacant(d) => Vacant(d)') /\ Last(d)' = Last(d) /\ Ages(d)
<1>1. Last(d)' = Last(d) /\ Ages(d)
  BY DEF Last, Ages
<1>2. Vacant(d) => Vacant(d)'
  BY DEF Vacant, Settles
<1>3. DomainInv(d)
  BY DEF IInv
<1>4. ProcessInv(d)'
  BY <1>1, <1>3 DEF DomainInv, ProcessInv, Carries
<1>5. DeviceInv(d)'
  BY <1>1, <1>3 DEF DomainInv, DeviceInv
<1>6. RecordInv(d)'
  BY <1>1, <1>2, <1>3, NamesStay, StaleStays DEF DomainInv, RecordInv, Settles, Carries
<1>7. CallInv(d)' /\ TestInv(d)'
  BY <1>3 DEF DomainInv, CallInv, TestInv, Running, Settles
<1> QED
  BY <1>1, <1>2, <1>4, <1>5, <1>6, <1>7 DEF DomainInv

\* Nothing at all happens to a domain.
Same(d) ==
    /\ sup'[d] = sup[d] /\ ctl'[d] = ctl[d] /\ dev'[d] = dev[d] /\ procs'[d] = procs[d]
    /\ call'[d] = call[d] /\ tested'[d] = tested[d]
LEMMA SameKept ==
    ASSUME IInv, NEW d \in Domains, Carries(d), Same(d),
           boot'.pc = boot.pc, boot'.slot = boot.slot, boot'.copy = boot.copy
    PROVE  /\ DomainInv(d)' /\ (Vacant(d) => Vacant(d)') /\ Last(d)' = Last(d) /\ Ages(d)
           /\ Unstarted(d) => Unstarted(d)'
<1>1. Settles(d)
  BY DEF Same, Settles
<1>2. Unstarted(d) => Unstarted(d)'
  BY DEF Same, Unstarted
<1> QED
  BY <1>1, <1>2, DomainKept DEF Same

------------------------------------------------------------------------------
(* What the drivers do: the worker and the boot thread stand still.         *)

\* A domain with a process of its own that runs or exits is not one the worker is
\* starting or has found dead.
LEMMA LiveProcess ==
    ASSUME IInv, NEW d \in Domains, NEW p \in DOMAIN procs[d], procs[d][p] \in Live
    PROVE  /\ p = Last(d) /\ p # 0 /\ p \in Nat /\ ~Vacant(d) /\ ~AllDead(d)
           /\ ctl[d].pid = p \/ Stale(d, ctl[d].pid)
           /\ ctl[d].pid = p => ctl[d].epoch = sup[d].epoch
           /\ \A q \in DOMAIN procs[d] : q # p => procs[d][q] = "dead"
           /\ worker.slot = d => /\ worker.pc \notin {"boot", "spawn", "publish", "start"}
                                 /\ ~worker.aborting
           /\ ~Unstarted(d)
<1>1. /\ p = Last(d) /\ p # 0 /\ p \in Nat /\ ~Vacant(d)
      /\ \A q \in DOMAIN procs[d] : q # p => procs[d][q] = "dead"
  BY ProcNumbers DEF IInv, DomainInv, ProcessInv, Vacant, Live
<1>2. ctl[d].pid = p \/ Stale(d, ctl[d].pid)
  BY <1>1 DEF IInv, DomainInv, RecordInv, Names
<1>3. ctl[d].pid = p => ctl[d].epoch = sup[d].epoch
  BY <1>1 DEF IInv, DomainInv, RecordInv, Stale, Alive, Live
<1>4. ~Unstarted(d)
  BY ProcNumbers DEF IInv, Unstarted
<1>5. worker.slot = d => /\ worker.pc \notin {"boot", "spawn", "publish", "start"}
                         /\ ~worker.aborting
  BY <1>1, <1>4 DEF IInv, Serves, StartInv, BootingInv
<1>6. ~AllDead(d)
  BY DEF AllDead, Live
<1> QED
  BY <1>1, <1>2, <1>3, <1>4, <1>5, <1>6

\* What the worker knows of a domain to which nothing happens.
LEMMA SameServed ==
    ASSUME IInv, worker' = worker, boot' = boot, NEW e \in Domains, worker.slot = e, Same(e)
    PROVE  Serves(worker.slot)'
<1>1. Serves(e) /\ worker'.slot = e
  BY DEF IInv
<1>2. Carries(e)
  BY DEF Carries, Preparing, Restarting
<1>3. (Vacant(e) => Vacant(e)') /\ Last(e)' = Last(e) /\ Ages(e)
  BY <1>2, SameKept
<1>4. /\ Cleared(e, ctl[e].pid) => Cleared(e, ctl[e].pid)'
      /\ Names(e, worker.copy.pid) => Names(e, worker.copy.pid)'
  BY <1>3, NamesStay DEF Same
<1>5. StartInv(e)' /\ CopyInv(e)' /\ FenceInv(e)'
  BY <1>1, <1>3, <1>4 DEF Serves, StartInv, CopyInv, FenceInv, Same, AllDead
<1> QED
  BY <1>1, <1>5 DEF Serves, Same

\* A step of a domain with such a process: it may change the state within the
\* session, write back a copy of its own record, use its device and come to its end.
LEMMA LiveStep ==
    ASSUME IInv, TypeOK', NEW d \in Domains, NEW p \in DOMAIN procs[d],
           procs[d][p] \in Live, worker' = worker, boot' = boot,
           \A e \in Domains : e # d => Same(e),
           sup'[d].epoch = sup[d].epoch,
           sup[d].state \in {"FENCING", "ISOLATED"} => sup'[d].state \in {"FENCING", "ISOLATED"},
           ctl'[d] = ctl[d] \/ (ctl'[d].pid = p /\ ctl'[d].epoch = sup[d].epoch),
           DOMAIN procs'[d] = DOMAIN procs[d], Last(d)' = Last(d),
           \A q \in DOMAIN procs[d] :
               procs'[d][q] = procs[d][q] \/ (q = p /\ procs'[d][q] \in {"exiting", "dead"}),
           DeviceInv(d)', CallInv(d)', TestInv(d)'
    PROVE  IInv'
<1>1. /\ p = Last(d) /\ p # 0 /\ p \in Nat /\ ~Vacant(d) /\ ~AllDead(d)
      /\ ctl[d].pid = p \/ Stale(d, ctl[d].pid)
      /\ ctl[d].pid = p => ctl[d].epoch = sup[d].epoch
      /\ \A q \in DOMAIN procs[d] : q # p => procs[d][q] = "dead"
      /\ worker.slot = d => /\ worker.pc \notin {"boot", "spawn", "publish", "start"}
                            /\ ~worker.aborting
      /\ ~Unstarted(d)
  BY LiveProcess
<1>2. \A e \in Domains : Carries(e)
  BY DEF Carries, Preparing, Restarting
<1>3. \A e \in Domains : e # d =>
         DomainInv(e)' /\ (Vacant(e) => Vacant(e)') /\ Last(e)' = Last(e) /\ Ages(e)
         /\ (Unstarted(e) => Unstarted(e)')
  BY <1>2, SameKept
<1>4. Ages(d)
  BY <1>1 DEF Ages, Live
<1>5. ProcessInv(d)'
  BY <1>1 DEF ProcessInv, Live
<1>6. RecordInv(d)'
  <2>1. ctl'[d].pid = p \/ (ctl'[d] = ctl[d] /\ Stale(d, ctl[d].pid)')
    BY <1>1, <1>4, StaleStays
  <2>2. Names(d, ctl[d].pid)'
    BY <1>1, <2>1 DEF Names, Stale
  <2>3. ctl'[d].epoch = sup'[d].epoch \/ Stale(d, ctl[d].pid)'
    BY <1>1, <2>1
  <2> QED
    BY <2>2, <2>3 DEF RecordInv
<1>7. DomainInv(d)'
  BY <1>5, <1>6 DEF DomainInv
<1>8. \A e \in Domains : DomainInv(e)'
  BY <1>3, <1>7
<1>9. BootInv'
  <2>1. \A e \in Domains : Ages(e) /\ sup'[e].epoch = sup[e].epoch
    BY <1>3, <1>4 DEF Same
  <2> QED
    BY <2>1, BootKept
<1>10. BootingInv'
  BY <1>1, <1>3 DEF IInv, BootingInv
<1>11. Serves(worker.slot)'
  <2>1. CASE worker.slot # d
    BY <2>1, SameServed DEF IInv, TypeOK
  <2>2. CASE worker.slot = d
    <3>1. Serves(d)
      BY <2>2 DEF IInv
    <3>2. StartInv(d)'
      BY <1>1, <2>2 DEF StartInv
    <3>3. CopyInv(d)'
      <4>1. Names(d, worker.copy.pid) => Names(d, worker.copy.pid)'
        BY <1>1, <1>4, NamesStay DEF Names
      <4> QED
        BY <3>1, <4>1 DEF Serves, CopyInv
    <3>4. FenceInv(d)'
      BY <1>1, <2>2, <3>1 DEF Serves, FenceInv
    <3> QED
      BY <2>2, <3>1, <3>2, <3>3, <3>4 DEF Serves
  <2> QED
    BY <2>1, <2>2
<1> QED
  BY <1>8, <1>9, <1>10, <1>11 DEF IInv

------------------------------------------------------------------------------
(* System calls.                                                            *)

\* What a call of the driver of d may have become.
Sound(d, c) ==
    /\ c.pc # "user" => Running(d, c.pid)
    /\ c.pc \in {"call", "write", "move", "fail"} =>
          c.snap.pid = c.pid /\ c.snap.epoch = sup[d].epoch
    /\ sup[d].epoch > 1 /\ c.pc \in {"granted", "busy"} /\ c.type = "activate"
          => c.pid \in tested[d]

\* A driver back in user mode claims nothing.
LEMMA UserSound ==
    ASSUME NEW d \in Domains
    PROVE  InUser \in CallRecords /\ Sound(d, InUser) /\ InUser.pc = "user"
           /\ NoControl \in Control
BY DEF InUser, CallRecords, Sound, NoControl, Control

\* The call a driver is in.
LEMMA CallSound ==
    ASSUME IInv, NEW d \in Domains
    PROVE  /\ call[d] \in CallRecords /\ Sound(d, call[d])
           /\ ctl[d] \in Control /\ sup[d] \in SupRecords /\ tested[d] \in SUBSET Nat
           /\ dev[d] \in DeviceRecords /\ call[d].snap \in Control /\ call[d].pid \in Nat
           /\ call[d].pc # "user" => /\ call[d].pid \in DOMAIN procs[d]
                                     /\ procs[d][call[d].pid] = "running"
<1>1. /\ call[d] \in CallRecords /\ ctl[d] \in Control /\ sup[d] \in SupRecords
      /\ tested[d] \in SUBSET Nat /\ dev[d] \in DeviceRecords
  BY Types DEF IInv
<1>2. Sound(d, call[d])
  BY DEF IInv, DomainInv, CallInv, TestInv, Sound
<1> QED
  BY <1>1, <1>2 DEF Sound, Running, CallRecords

\* A report that fails: the isolation is of the session of the copy.
LEMMA FailingSound ==
    ASSUME IInv, NEW d \in Domains, call[d].pc \in {"call", "move"}
    PROVE  Failing(call[d]) \in CallRecords /\ Sound(d, Failing(call[d]))
BY CallSound DEF Failing, CallRecords, Sound, NoControl, Control

\* A step of a call that changes nothing else.
LEMMA CallStep ==
    ASSUME IInv, NEW d \in Domains, NEW c \in CallRecords, Sound(d, c),
           NEW p \in DOMAIN procs[d], procs[d][p] = "running",
           call' = [call EXCEPT ![d] = c], busy' \in SUBSET (Domains \X Nat),
           UNCHANGED <<sup, ctl, dev, procs, worker, boot, next_poll_slot, tested>>
    PROVE  IInv'
<1>1. call'[d] = c /\ \A e \in Domains : e # d => Same(e)
  BY Types DEF IInv, Same
<1>2. TypeOK'
  BY Types DEF IInv, TypeOK, CallRecords
<1>3. DomainInv(d)
  BY DEF IInv
<1>4. DeviceInv(d)' /\ CallInv(d)' /\ TestInv(d)' /\ Last(d)' = Last(d)
  BY <1>1, <1>3 DEF DomainInv, DeviceInv, CallInv, TestInv, Sound, Last, Running
<1> QED
  BY <1>1, <1>2, <1>4, LiveStep DEF Live

\* device_control: output authority stands for the self-test.
LEMMA ControlStep ==
    ASSUME IInv, NEW d \in Domains, NEW p \in DOMAIN procs[d], NEW op \in Ops[d],
           device_control(d, p, op)
    PROVE  IInv'
<1> DEFINE c == [pc |-> "granted", pid |-> p, type |-> op, snap |-> NoControl]
<1>1. p \in Nat /\ op \in OpTypes /\ procs[d][p] = "running"
  BY ProcNumbers, SupervisorAssumption DEF IInv, device_control, Running
<1>2. c \in CallRecords
  BY <1>1, UserSound DEF CallRecords
<1>3. op = "activate" /\ sup[d].epoch > 1 => p \in tested[d]
  BY <1>1 DEF device_control, OutputAllowed, SessionHealthy, IInv, DomainInv, TestInv,
              Reportable, Live
<1>4. Sound(d, c)
  BY <1>3 DEF device_control, Sound
<1>5. /\ call' = [call EXCEPT ![d] = c] /\ busy' \in SUBSET (Domains \X Nat)
      /\ UNCHANGED <<sup, ctl, dev, procs, worker, boot, next_poll_slot, tested>>
  BY DEF device_control, IInv, TypeOK
<1> HIDE DEF c
<1> QED
  BY <1>1, <1>2, <1>4, <1>5, CallStep

\* supervisor_device_driver_report: the copy is the record of the caller.
LEMMA ReportStep ==
    ASSUME IInv, NEW d \in Domains, NEW p \in DOMAIN procs[d], NEW type \in Reports[d],
           supervisor_device_driver_report(d, p, type)
    PROVE  IInv'
<1> DEFINE c == [pc |-> "call", pid |-> p, type |-> type, snap |-> ctl[d]]
<1>1. /\ p \in Nat /\ type \in ReportTypes /\ ctl[d] \in Control
      /\ procs[d][p] = "running" /\ ctl[d].pid = p
  BY ProcNumbers, CallSound, SupervisorAssumption
     DEF IInv, supervisor_device_driver_report, Running
<1>2. ctl[d].epoch = sup[d].epoch
  BY <1>1, LiveProcess DEF Live
<1>3. c \in CallRecords
  BY <1>1 DEF CallRecords
<1>4. Sound(d, c)
  BY <1>1, <1>2 DEF supervisor_device_driver_report, Sound
<1>5. /\ call' = [call EXCEPT ![d] = c] /\ busy' \in SUBSET (Domains \X Nat)
      /\ UNCHANGED <<sup, ctl, dev, procs, worker, boot, next_poll_slot, tested>>
  BY DEF supervisor_device_driver_report, IInv, TypeOK
<1> HIDE DEF c
<1> QED
  BY <1>1, <1>3, <1>4, <1>5, CallStep

\* begin_operation.
LEMMA BeginStep ==
    ASSUME IInv, NEW d \in Domains, begin_operation(d)
    PROVE  IInv'
<1> DEFINE c == [call[d] EXCEPT !.pc = "busy"]
<1>1. UNCHANGED <<sup, ctl, dev, procs, worker, boot, next_poll_slot, tested>>
  BY DEF begin_operation
<1>2. /\ call[d] \in CallRecords /\ Sound(d, call[d]) /\ call[d].pc = "granted"
      /\ call[d].pid \in DOMAIN procs[d] /\ procs[d][call[d].pid] = "running"
      /\ call[d].pid \in Nat
  BY CallSound DEF begin_operation
<1>3. c \in CallRecords /\ Sound(d, c)
  BY <1>2 DEF CallRecords, Sound
<1>4. \/ call' = [call EXCEPT ![d] = c] /\ busy' = {<<d, call[d].pid>>}
      \/ call' = [call EXCEPT ![d] = InUser] /\ busy' = busy
  <2>1. CASE busy = {}
    BY <2>1 DEF begin_operation
  <2>2. CASE busy # {}
    BY <2>2 DEF begin_operation
  <2> QED
    BY <2>1, <2>2
<1>5. busy' \in SUBSET (Domains \X Nat)
  <2>1. <<d, call[d].pid>> \in Domains \X Nat /\ busy \in SUBSET (Domains \X Nat)
    BY <1>2 DEF IInv, TypeOK
  <2> HIDE DEF c
  <2> QED
    BY <1>4, <2>1
<1> HIDE DEF c
<1> QED
  BY <1>1, <1>2, <1>3, <1>4, <1>5, UserSound, CallStep

\* Startup progress, the service channel and the move to other processors.
LEMMA ChannelStep ==
    ASSUME IInv, NEW d \in Domains,
           report_startup_progress(d) \/ report_channel(d) \/ report_moves(d)
    PROVE  IInv'
<1> DEFINE f == Failing(call[d])
           w == [call[d] EXCEPT !.pc = "write", !.snap.channel = TRUE]
<1>1. /\ UNCHANGED <<sup, ctl, dev, procs, worker, boot, next_poll_slot, tested>>
      /\ busy' \in SUBSET (Domains \X Nat) /\ call[d].pc \in {"call", "move"}
  BY DEF report_startup_progress, report_channel, report_moves, Reporting, IInv, TypeOK
<1>2. /\ call[d] \in CallRecords /\ Sound(d, call[d]) /\ call[d].snap \in Control
      /\ call[d].pid \in DOMAIN procs[d] /\ procs[d][call[d].pid] = "running"
  BY <1>1, CallSound
<1>3. f \in CallRecords /\ Sound(d, f)
  BY <1>1, FailingSound
<1>4. w \in CallRecords
  BY <1>2 DEF CallRecords, Control
<1>5. Sound(d, w)
  <2>1. /\ w.pc = "write" /\ w.pid = call[d].pid
        /\ w.snap.pid = call[d].snap.pid /\ w.snap.epoch = call[d].snap.epoch
    BY <1>2 DEF CallRecords, Control
  <2> QED
    BY <1>1, <1>2, <2>1 DEF Sound
<1>6. \/ call' = [call EXCEPT ![d] = InUser]
      \/ call' = [call EXCEPT ![d] = f]
      \/ call' = [call EXCEPT ![d] = w]
  BY DEF report_startup_progress, report_channel, report_moves
<1> HIDE DEF f, w
<1> QED
  BY <1>1, <1>2, <1>3, <1>4, <1>5, <1>6, UserSound, CallStep

\* A report that changes the state of its domain, within the session.
LEMMA ReportMoves ==
    ASSUME IInv, NEW d \in Domains, NEW s \in SupRecords, NEW c \in CallRecords,
           NEW T \in SUBSET Nat, NEW p \in DOMAIN procs[d], procs[d][p] = "running",
           sup' = [sup EXCEPT ![d] = s], call' = [call EXCEPT ![d] = c],
           tested' = [tested EXCEPT ![d] = T],
           tested[d] \subseteq T, Sound(d, c), s.epoch = sup[d].epoch,
           sup[d].state \in {"FENCING", "ISOLATED"} => s.state \in {"FENCING", "ISOLATED"},
           s.state \in Reportable => sup[d].state \in Reportable \/ p \in T,
           UNCHANGED <<ctl, dev, procs, busy, worker, boot, next_poll_slot>>
    PROVE  IInv'
<1>1. /\ sup'[d] = s /\ call'[d] = c /\ tested'[d] = T
      /\ \A e \in Domains : e # d => Same(e)
  BY Types DEF IInv, Same
<1>2. TypeOK'
  BY Types DEF IInv, TypeOK, CallRecords, SupRecords
<1>3. DomainInv(d) /\ \A q \in DOMAIN procs[d] : q # p => procs[d][q] = "dead"
  BY LiveProcess DEF IInv, Live
<1>4. DeviceInv(d)' /\ CallInv(d)' /\ Last(d)' = Last(d)
  BY <1>1, <1>3 DEF DomainInv, DeviceInv, CallInv, Sound, Last, Running
<1>5. TestInv(d)'
  BY <1>1, <1>3 DEF DomainInv, TestInv, Sound, Live
<1> QED
  BY <1>1, <1>2, <1>4, <1>5, LiveStep DEF Live

\* Isolation keeps a record a record, and the session.
LEMMA IsolateMoves ==
    ASSUME NEW s \in SupRecords, NEW epoch
    PROVE  /\ CheckDeadline(s) \in SupRecords /\ Isolate(s, epoch) \in SupRecords
           /\ CheckDeadline(s).epoch = s.epoch /\ Isolate(s, epoch).epoch = s.epoch
           /\ CheckDeadline(s) = s \/ CheckDeadline(s).state = "ISOLATED"
           /\ Isolate(s, epoch) = s \/ Isolate(s, epoch).state = "ISOLATED"
<1>1. /\ Isolated(s) \in SupRecords /\ Isolated(s).epoch = s.epoch
      /\ Isolated(s).state = "ISOLATED"
  BY DEF SupRecords, Isolated, States
<1> QED
  BY <1>1 DEF CheckDeadline, Isolate

\* Self-test, heartbeat and failure.
LEMMA HealthStep ==
    ASSUME IInv, NEW d \in Domains,
           report_self_test(d) \/ report_progress(d) \/ report_fails(d)
    PROVE  IInv'
<1> DEFINE p == call[d].pid
           f == Failing(call[d])
<1>1. /\ UNCHANGED <<ctl, dev, procs, busy, worker, boot, next_poll_slot>>
      /\ call[d].pc \in {"call", "fail"}
      /\ call[d].pc = "fail" => report_fails(d)
  BY DEF report_self_test, report_progress, report_fails, Reporting
<1>2. /\ sup[d] \in SupRecords /\ sup \in [Domains -> SupRecords]
      /\ tested \in [Domains -> SUBSET Nat] /\ tested[d] \in SUBSET Nat
      /\ call[d] \in CallRecords /\ Sound(d, call[d]) /\ call[d].snap \in Control
      /\ p \in DOMAIN procs[d] /\ procs[d][p] = "running" /\ p \in Nat
  BY <1>1, CallSound, Types DEF IInv
<1>3. sup = [sup EXCEPT ![d] = sup[d]] /\ tested = [tested EXCEPT ![d] = tested[d]]
  BY <1>2
<1>4. CASE UNCHANGED <<sup, tested>> /\ call' = [call EXCEPT ![d] = f] /\ call[d].pc = "call"
  <2>1. f \in CallRecords /\ Sound(d, f)
    BY <1>4, FailingSound
  <2> HIDE DEF f, p
  <2> QED
    BY <1>1, <1>2, <1>3, <1>4, <2>1, ReportMoves
<1>5. CASE report_self_test(d) /\ SelfTestAccepted(d)
  <2> DEFINE s == [sup[d] EXCEPT !.state = "STARTING"]
             T == tested[d] \cup {p}
  <2>1. /\ sup' = [sup EXCEPT ![d] = s] /\ tested' = [tested EXCEPT ![d] = T]
        /\ call' = [call EXCEPT ![d] = InUser]
        /\ sup[d].state \in {"STARTING", "RECOVERING"}
    BY <1>5 DEF report_self_test, SelfTestAccepted
  <2>2. s \in SupRecords /\ s.epoch = sup[d].epoch /\ T \in SUBSET Nat /\ p \in T
        /\ tested[d] \subseteq T
    BY <1>2 DEF SupRecords, States
  <2> HIDE DEF s, T, p
  <2> QED
    BY <1>1, <1>2, <2>1, <2>2, UserSound, ReportMoves
<1>6. CASE report_progress(d) /\ ProgressAccepted(d)
  <2> DEFINE s == [sup[d] EXCEPT !.state = "HEALTHY", !.overdue = FALSE]
             w == [call[d] EXCEPT !.pc = "write", !.snap.fenced = FALSE]
  <2>1. /\ sup' = [sup EXCEPT ![d] = s] /\ tested' = tested /\ sup[d].state \in Reportable
        /\ call' = [call EXCEPT ![d] = w] \/ call' = [call EXCEPT ![d] = InUser]
    BY <1>6 DEF report_progress, ProgressAccepted
  <2>2. s \in SupRecords /\ s.epoch = sup[d].epoch /\ s.state = "HEALTHY"
    BY <1>2 DEF SupRecords, States
  <2>3. w \in CallRecords
    BY <1>2 DEF CallRecords, Control
  <2>4. /\ w.pc = "write" /\ w.pid = p
        /\ w.snap.pid = call[d].snap.pid /\ w.snap.epoch = call[d].snap.epoch
    BY <1>2 DEF CallRecords, Control
  <2>5. Sound(d, w)
    BY <1>1, <1>2, <2>4 DEF Sound
  <2>6. sup[d].state \notin {"FENCING", "ISOLATED"}
    BY <2>1 DEF Reportable
  <2> HIDE DEF s, w, p
  <2> QED
    BY <1>1, <1>2, <1>3, <2>1, <2>2, <2>3, <2>5, <2>6, UserSound, ReportMoves
<1>7. CASE report_fails(d)
  <2> DEFINE s == Isolate(sup[d], call[d].snap.epoch)
  <2>1. /\ sup' = [sup EXCEPT ![d] = s] /\ tested' = tested
        /\ call' = [call EXCEPT ![d] = InUser]
    BY <1>7 DEF report_fails
  <2>2. s \in SupRecords /\ s.epoch = sup[d].epoch /\ (s = sup[d] \/ s.state = "ISOLATED")
    BY <1>2, IsolateMoves
  <2> HIDE DEF s, p
  <2> QED
    BY <1>1, <1>2, <1>3, <2>1, <2>2, UserSound, ReportMoves DEF Reportable
<1> QED
  BY <1>1, <1>4, <1>5, <1>6, <1>7 DEF report_self_test, report_progress

\* driver_control_write of a report: process and session are the present ones.
LEMMA WriteStep ==
    ASSUME IInv, NEW d \in Domains, report_writes(d)
    PROVE  IInv'
<1> DEFINE c == [call[d] EXCEPT !.pc = "move"]
<1>1. /\ UNCHANGED <<sup, dev, procs, busy, worker, boot, next_poll_slot, tested>>
      /\ call[d].pc = "write" /\ ctl' = [ctl EXCEPT ![d] = call[d].snap]
      /\ call' = [call EXCEPT ![d] = c] \/ call' = [call EXCEPT ![d] = InUser]
  BY DEF report_writes
<1>2. /\ call[d] \in CallRecords /\ Sound(d, call[d]) /\ call[d].snap \in Control
      /\ call[d].pid \in DOMAIN procs[d] /\ procs[d][call[d].pid] = "running"
  BY <1>1, CallSound
<1>3. c \in CallRecords /\ Sound(d, c)
  BY <1>1, <1>2 DEF CallRecords, Sound
<1> HIDE DEF c
<1>4. /\ ctl'[d] = call[d].snap /\ call'[d] \in CallRecords /\ Sound(d, call'[d])
      /\ \A e \in Domains : e # d => Same(e)
  BY <1>1, <1>3, UserSound, Types DEF IInv, Same
<1>5. TypeOK'
  <2>1. ctl' \in [Domains -> Control] /\ call' \in [Domains -> CallRecords]
    BY <1>1, <1>2, <1>3, UserSound, Types DEF IInv
  <2> QED
    BY <1>1, <2>1 DEF IInv, TypeOK, CallRecords
<1>6. call[d].snap.pid = call[d].pid /\ call[d].snap.epoch = sup[d].epoch
  BY <1>1, <1>2 DEF Sound
<1>7. DomainInv(d)
  BY DEF IInv
<1>8. DeviceInv(d)' /\ CallInv(d)' /\ TestInv(d)' /\ Last(d)' = Last(d)
  BY <1>1, <1>4, <1>7 DEF DomainInv, DeviceInv, CallInv, TestInv, Sound, Last, Running
<1> QED
  BY <1>1, <1>2, <1>4, <1>5, <1>6, <1>8, LiveStep DEF Live

------------------------------------------------------------------------------
(* The device, and the end of a process.                                    *)

\* A device operation, by a process that is still running.
LEMMA OperationStep ==
    ASSUME IInv, NEW d \in Domains, end_operation(d)
    PROVE  IInv'
<1> DEFINE p == call[d].pid
           St(ok) == IF dev[d].owner = p THEN Operated(dev[d], call[d].type, ok)
                     ELSE dev[d].state
<1>1. /\ UNCHANGED <<sup, ctl, procs, worker, boot, next_poll_slot, tested>>
      /\ call[d].pc = "busy" /\ call' = [call EXCEPT ![d] = InUser] /\ busy' = {}
  BY DEF end_operation
<1>2. PICK ok \in Outcomes[d] : dev' = [dev EXCEPT ![d].state = St(ok)]
  BY DEF end_operation
<1>3. /\ p \in DOMAIN procs[d] /\ procs[d][p] = "running" /\ p = Last(d) /\ p # 0
      /\ dev[d] \in DeviceRecords /\ Sound(d, call[d])
  BY <1>1, CallSound, LiveProcess DEF Live
<1>4. DomainInv(d)
  BY DEF IInv
<1>5. /\ St(ok) \in DeviceStates
      /\ St(ok) = "AVAILABLE" <=> dev[d].owner = 0
      /\ St(ok) \in SetUp => dev[d].owner = p
      /\ St(ok) = "ACTIVE" /\ sup[d].epoch > 1 => dev[d].owner \in tested[d]
  <2>1. /\ dev[d].state \in DeviceStates
        /\ dev[d].owner = 0 <=> dev[d].state = "AVAILABLE"
        /\ dev[d].state \in SetUp => dev[d].owner = p
        /\ dev[d].state = "ACTIVE" /\ sup[d].epoch > 1 => dev[d].owner \in tested[d]
        /\ call[d].type = "activate" /\ sup[d].epoch > 1 => p \in tested[d]
    BY <1>1, <1>3, <1>4 DEF DomainInv, DeviceInv, TestInv, DeviceRecords, Sound
  <2> QED
    BY <1>3, <2>1 DEF Operated, DeviceStates, SetUp
<1> HIDE DEF St, p
<1>6. /\ dev'[d].state = St(ok) /\ dev'[d].owner = dev[d].owner /\ call'[d] = InUser
      /\ \A e \in Domains : e # d => Same(e)
  BY <1>1, <1>2, Types DEF IInv, DeviceRecords, Same
<1>7. TypeOK'
  <2>1. dev' \in [Domains -> DeviceRecords] /\ call' \in [Domains -> CallRecords]
    BY <1>1, <1>2, <1>5, UserSound, Types DEF IInv, DeviceRecords
  <2> QED
    BY <1>1, <2>1, Types DEF IInv, TypeOK, CallRecords, DeviceRecords, DeviceStates
<1>8. DeviceInv(d)' /\ CallInv(d)' /\ TestInv(d)' /\ Last(d)' = Last(d)
  BY <1>1, <1>3, <1>4, <1>5, <1>6, UserSound
     DEF DomainInv, DeviceInv, CallInv, TestInv, Last, InUser
<1> QED
  BY <1>1, <1>3, <1>6, <1>7, <1>8, LiveStep DEF Live

\* What cleanup does to the device.
LEMMA CleanupFacts ==
    ASSUME IInv, NEW d \in Domains, NEW p \in Nat \ {0},
           dev' = [dev EXCEPT ![d] = CleanedUp(d, p)]
    PROVE  /\ dev' \in [Domains -> DeviceRecords]
           /\ \A e \in Domains : e # d => dev'[e] = dev[e]
           /\ dev'[d].owner = dev[d].owner
           /\ dev'[d].state = dev[d].state \/ (dev'[d].state = "FENCED" /\ dev[d].owner # 0)
<1>1. dev \in [Domains -> DeviceRecords]
  BY Types DEF IInv
<1>2. /\ CleanedUp(d, p) \in DeviceRecords /\ CleanedUp(d, p).owner = dev[d].owner
      /\ \/ CleanedUp(d, p).state = dev[d].state
         \/ CleanedUp(d, p).state = "FENCED" /\ dev[d].owner # 0
  BY <1>1 DEF CleanedUp, DeviceRecords, DeviceStates
<1> QED
  BY <1>1, <1>2

\* A dead process is in no call.
LEMMA GoneFacts ==
    ASSUME IInv, NEW d \in Domains, NEW p \in DOMAIN procs[d], Gone(d, p)
    PROVE  /\ procs' \in [Domains -> Seq(ProcStates)]
           /\ \A e \in Domains : e # d => procs'[e] = procs[e] /\ call'[e] = call[e]
           /\ DOMAIN procs'[d] = DOMAIN procs[d] /\ procs'[d][p] = "dead"
           /\ Last(d)' = Last(d)
           /\ \A q \in DOMAIN procs[d] : q # p => procs'[d][q] = procs[d][q]
           /\ call' \in [Domains -> CallRecords]
           /\ call'[d] = InUser \/ (call'[d] = call[d] /\ call[d].pid # p)
           /\ Sound(d, call[d]) => CallInv(d)' \/ ~(sup' = sup)
<1>1. /\ procs' = [procs EXCEPT ![d][p] = "dead"]
      /\ call' = [call EXCEPT ![d] = IF @.pid = p THEN InUser ELSE @]
  BY DEF Gone
<1>2. /\ procs' \in [Domains -> Seq(ProcStates)]
      /\ \A e \in Domains : e # d => procs'[e] = procs[e]
      /\ DOMAIN procs'[d] = DOMAIN procs[d] /\ procs'[d][p] = "dead"
      /\ Len(procs'[d]) = Len(procs[d])
      /\ \A q \in DOMAIN procs[d] : q # p => procs'[d][q] = procs[d][q]
  BY <1>1, ProcUpdate DEF IInv, ProcStates
<1>3. call \in [Domains -> CallRecords] /\ InUser \in CallRecords
  BY UserSound, Types DEF IInv
<1>4. /\ call' \in [Domains -> CallRecords]
      /\ \A e \in Domains : e # d => call'[e] = call[e]
      /\ call'[d] = InUser \/ (call'[d] = call[d] /\ call[d].pid # p)
  BY <1>1, <1>3
<1>5. Sound(d, call[d]) /\ sup' = sup => CallInv(d)'
  BY <1>2, <1>4 DEF Sound, Running, InUser, CallInv
<1> QED
  BY <1>2, <1>4, <1>5 DEF Last

\* A driver leaves user mode for good.
LEMMA ExitStep ==
    ASSUME IInv, NEW d \in Domains, NEW p \in DOMAIN procs[d], driver_exits(d, p)
    PROVE  IInv'
<1>1. /\ UNCHANGED <<sup, ctl, dev, call, busy, worker, boot, next_poll_slot, tested>>
      /\ procs' = [procs EXCEPT ![d][p] = "exiting"]
      /\ procs[d][p] \in Live /\ call[d].pc = "user"
  BY DEF driver_exits, Running, Live
<1>2. /\ procs' \in [Domains -> Seq(ProcStates)]
      /\ \A e \in Domains : e # d => procs'[e] = procs[e]
      /\ DOMAIN procs'[d] = DOMAIN procs[d] /\ procs'[d][p] = "exiting"
      /\ Len(procs'[d]) = Len(procs[d])
      /\ \A q \in DOMAIN procs[d] : q # p => procs'[d][q] = procs[d][q]
  BY <1>1, ProcUpdate DEF IInv, ProcStates
<1>3. TypeOK'
  BY <1>1, <1>2 DEF IInv, TypeOK, ProcStates
<1>4. DomainInv(d) /\ Last(d)' = Last(d)
  BY <1>2 DEF IInv, Last
<1>5. DeviceInv(d)' /\ CallInv(d)' /\ TestInv(d)'
  BY <1>1, <1>2, <1>4 DEF DomainInv, DeviceInv, CallInv, TestInv, Live
<1>6. \A e \in Domains : e # d => Same(e)
  BY <1>1, <1>2 DEF Same
<1>7. \A q \in DOMAIN procs[d] :
          procs'[d][q] = procs[d][q] \/ (q = p /\ procs'[d][q] \in {"exiting", "dead"})
  BY <1>2
<1> QED
  BY <1>1, <1>2, <1>3, <1>4, <1>5, <1>6, <1>7, LiveStep

\* The newest process is gone, its device cleaned up.
LEMMA GoneStep ==
    ASSUME IInv, NEW d \in Domains, NEW p \in DOMAIN procs[d], procs[d][p] # "dead",
           Gone(d, p), dev' = [dev EXCEPT ![d] = CleanedUp(d, p)],
           UNCHANGED <<sup, ctl, busy, boot, next_poll_slot, tested>>
    PROVE  /\ worker' = worker /\ procs[d][p] \in Live => IInv'
           /\ DeviceInv(d)' /\ CallInv(d)' /\ TestInv(d)' /\ Last(d)' = Last(d) /\ Ages(d)
           /\ (Vacant(d) => Vacant(d)') /\ AllDead(d)' /\ \A e \in Domains : e # d => Same(e)
           /\ dev' \in [Domains -> DeviceRecords] /\ procs' \in [Domains -> Seq(ProcStates)]
           /\ call' \in [Domains -> CallRecords]
           /\ DOMAIN procs'[d] = DOMAIN procs[d] /\ dev'[d].owner = dev[d].owner
<1>1. p \in Nat \ {0} /\ \A q \in DOMAIN procs[d] : q # p => procs[d][q] = "dead"
  BY ProcNumbers DEF IInv, DomainInv, ProcessInv
<1>2. /\ dev' \in [Domains -> DeviceRecords]
      /\ \A e \in Domains : e # d => dev'[e] = dev[e]
      /\ dev'[d].owner = dev[d].owner
      /\ dev'[d].state = dev[d].state \/ (dev'[d].state = "FENCED" /\ dev[d].owner # 0)
  BY <1>1, CleanupFacts
<1>3. /\ procs' \in [Domains -> Seq(ProcStates)]
      /\ \A e \in Domains : e # d => procs'[e] = procs[e] /\ call'[e] = call[e]
      /\ DOMAIN procs'[d] = DOMAIN procs[d] /\ procs'[d][p] = "dead"
      /\ Last(d)' = Last(d)
      /\ \A q \in DOMAIN procs[d] : q # p => procs'[d][q] = procs[d][q]
      /\ call' \in [Domains -> CallRecords]
      /\ call'[d] = InUser \/ (call'[d] = call[d] /\ call[d].pid # p)
      /\ CallInv(d)'
  BY GoneFacts, CallSound
<1>4. DomainInv(d)
  BY DEF IInv
<1>5. DeviceInv(d)'
  BY <1>2, <1>3, <1>4 DEF DomainInv, DeviceInv, SetUp
<1>6. Ages(d) /\ AllDead(d)'
  BY <1>1, <1>3 DEF Ages, AllDead
<1>7. \A e \in Domains : e # d => Same(e)
  BY <1>2, <1>3 DEF Same
<1>8. TestInv(d)'
  <2>1. \A q \in DOMAIN procs'[d] : procs'[d][q] \notin Live
    BY <1>6 DEF AllDead, Live
  <2>2. dev'[d].state = "ACTIVE" => dev[d].state = "ACTIVE"
    BY <1>2
  <2>3. call'[d].pc \in {"granted", "busy"} => call'[d] = call[d]
    BY <1>3 DEF InUser
  <2> QED
    BY <1>2, <1>4, <2>1, <2>2, <2>3 DEF DomainInv, TestInv
<1>9. ASSUME worker' = worker, procs[d][p] \in Live PROVE IInv'
  <2>1. TypeOK'
    BY <1>2, <1>3, <1>9 DEF IInv, TypeOK, DeviceRecords, DeviceStates, ProcStates,
                            CallRecords
  <2>2. \A q \in DOMAIN procs[d] :
            procs'[d][q] = procs[d][q] \/ (q = p /\ procs'[d][q] \in {"exiting", "dead"})
    BY <1>3
  <2> QED
    BY <1>3, <1>5, <1>7, <1>8, <1>9, <2>1, <2>2, LiveStep
<1>10. Vacant(d) => Vacant(d)'
  BY <1>2, <1>6 DEF Vacant, AllDead, Live, SetUp
<1> QED
  BY <1>2, <1>3, <1>5, <1>6, <1>7, <1>8, <1>9, <1>10

\* The exit releases what the driver owned.
LEMMA ExitedStep ==
    ASSUME IInv, NEW d \in Domains, NEW p \in DOMAIN procs[d], driver_exited(d, p)
    PROVE  IInv'
<1>1. /\ procs[d][p] # "dead" /\ procs[d][p] \in Live /\ Gone(d, p)
      /\ dev' = [dev EXCEPT ![d] = CleanedUp(d, p)] /\ worker' = worker
      /\ UNCHANGED <<sup, ctl, busy, boot, next_poll_slot, tested>>
  BY DEF driver_exited, Live
<1> QED
  BY <1>1, GoneStep

------------------------------------------------------------------------------
(* Decisions: the domains change their state, within the session.           *)

\* Nothing but the state changes, and the worker's position is accounted for.
LEMMA Decision ==
    ASSUME IInv, UNCHANGED <<ctl, dev, procs, call, busy, boot, tested>>,
           sup' \in [Domains -> SupRecords], worker' \in WorkerRecords,
           next_poll_slot' \in Domains, \A e \in Domains : Settles(e) /\ Carries(e),
           Serves(worker.slot)', BootingInv'
    PROVE  IInv'
<1>1. TypeOK'
  BY DEF IInv, TypeOK, SupRecords, WorkerRecords
<1>2. \A e \in Domains : DomainInv(e)' /\ Ages(e)
  BY DomainKept
<1>3. BootInv'
  BY <1>2, BootKept DEF Settles
<1> QED
  BY <1>1, <1>2, <1>3 DEF IInv

\* The deadline passes and the timer sees it.
LEMMA ClockStep ==
    ASSUME IInv, supervisor_clock_tick \/ \E d \in Domains : deadline_passes(d)
    PROVE  IInv'
<1>1. UNCHANGED <<ctl, dev, procs, call, busy, worker, boot, next_poll_slot, tested>>
  BY DEF supervisor_clock_tick, deadline_passes
<1>2. sup \in [Domains -> SupRecords]
  BY Types DEF IInv
<1>3. /\ sup' \in [Domains -> SupRecords]
      /\ \A e \in Domains : /\ sup'[e].epoch = sup[e].epoch
                            /\ sup'[e].state = sup[e].state \/ sup'[e].state = "ISOLATED"
  <2>1. CASE supervisor_clock_tick
    <3>1. sup' = [d \in Domains |-> CheckDeadline(sup[d])]
      BY <2>1 DEF supervisor_clock_tick
    <3>2. \A e \in Domains : sup[e] \in SupRecords
      BY <1>2
    <3> QED
      BY <3>1, <3>2, IsolateMoves
  <2>2. ASSUME NEW d \in Domains, deadline_passes(d)
        PROVE  /\ sup' \in [Domains -> SupRecords]
               /\ \A e \in Domains : /\ sup'[e].epoch = sup[e].epoch
                                     /\ sup'[e].state = sup[e].state
    <3>1. sup' = [sup EXCEPT ![d].overdue = TRUE]
      BY <2>2 DEF deadline_passes
    <3> QED
      BY <1>2, <3>1 DEF SupRecords
  <2> QED
    BY <2>1, <2>2
<1>4. \A e \in Domains : Settles(e) /\ Carries(e)
  BY <1>1, <1>3 DEF Settles, Carries, Preparing, Restarting, Reportable
<1>5. \A e \in Domains : (Vacant(e) => Vacant(e)') /\ Last(e)' = Last(e) /\ Ages(e)
  BY <1>1, <1>4, DomainKept
<1>6. ASSUME NEW e \in Domains, e = worker.slot PROVE Serves(worker.slot)'
  <2>1. Serves(e) /\ worker' = worker
    BY <1>1, <1>6 DEF IInv
  <2>2. \A c : /\ Cleared(e, c) => Cleared(e, c)'
               /\ Names(e, c) => Names(e, c)'
    BY <1>1, <1>5, NamesStay
  <2>3. Cleared(e, ctl[e].pid) => Cleared(e, ctl[e].pid)'
    BY <1>1, <2>2
  <2>4. Names(e, worker.copy.pid) => Names(e, worker.copy.pid)'
    BY <2>1, <2>2
  <2>5. StartInv(e)' /\ CopyInv(e)'
    BY <1>1, <1>3, <1>5, <2>1, <2>3, <2>4 DEF Serves, StartInv, CopyInv
  <2>6. FenceInv(e)'
    BY <1>1, <1>3, <1>5, <2>1, <2>3 DEF Serves, FenceInv, AllDead
  <2> QED
    BY <1>3, <1>6, <2>1, <2>5, <2>6 DEF Serves
<1>7. BootingInv'
  BY <1>1, <1>3 DEF IInv, BootingInv, Unstarted
<1>8. /\ worker' \in WorkerRecords /\ next_poll_slot' \in Domains
      /\ \E e \in Domains : e = worker.slot
  BY <1>1, Types DEF IInv, WorkerRecords
<1>9. Serves(worker.slot)'
  BY <1>6, <1>8
<1> QED
  BY <1>1, <1>3, <1>4, <1>7, <1>8, <1>9, Decision

\* The first domain is one, and the worker's next pass begins with it.
LEMMA PassRecord ==
    /\ 1 \in Domains /\ NextPass \in WorkerRecords /\ NoControl \in Control
    /\ NextPass.pc = "devices" /\ ~NextPass.booting /\ ~NextPass.aborting
BY SupervisorAssumption DEF NextPass, WorkerRecords, WorkerSteps, Domains, NoControl, Control

\* Between two domains the worker knows nothing.
LEMMA PassInv ==
    ASSUME worker'.pc \in {"devices", "monitor", "poll"}, ~worker'.booting,
           ~worker'.aborting
    PROVE  Serves(worker.slot)' /\ BootingInv'
<1>1. StartInv(worker.slot)' /\ CopyInv(worker.slot)' /\ FenceInv(worker.slot)'
  BY DEF StartInv, CopyInv, FenceInv, FenceSteps, InFence
<1> QED
  BY <1>1 DEF Serves, BootingInv, OutsideFence

\* A worker that is neither preparing a process nor about to tell a record of its
\* session leaves no trace.
LEMMA CarriesNothing ==
    ASSUME ~Preparing, ~Restarting
    PROVE  \A e \in Domains : Carries(e)
BY DEF Carries

\* An idle worker: neither aborting nor booting.
LEMMA IdleFacts ==
    ASSUME IInv, worker.pc \in {"devices", "monitor", "poll", "fence", "affinity",
                                "verify", "decide", "event", "session"}
    PROVE  ~worker.aborting /\ ~worker.booting /\ ~Preparing
           /\ worker.slot \in Domains /\ worker \in WorkerRecords
           /\ next_poll_slot \in Domains /\ sup \in [Domains -> SupRecords]
<1>1. TypeOK /\ worker.slot \in Domains
  BY DEF IInv, TypeOK
<1>2. ~worker.aborting
  BY DEF IInv, Serves, StartInv, FenceSteps
<1>3. ~worker.booting
  BY <1>2 DEF IInv, BootingInv
<1> QED
  BY <1>1, <1>2, <1>3, Types DEF Preparing

\* driver_monitor_processes.
LEMMA MonitorStep ==
    ASSUME IInv, driver_monitor_processes
    PROVE  IInv'
<1>1. /\ UNCHANGED <<ctl, dev, procs, call, busy, boot, next_poll_slot, tested>>
      /\ worker.pc = "monitor" /\ worker' = [worker EXCEPT !.pc = "poll"]
  BY DEF driver_monitor_processes, Step
<1>2. /\ worker' \in WorkerRecords /\ worker'.pc = "poll"
      /\ ~worker'.booting /\ ~worker'.aborting
  BY <1>1, IdleFacts DEF WorkerRecords, WorkerSteps
<1>3. \A e \in Domains : /\ sup'[e] \in SupRecords /\ sup'[e].epoch = sup[e].epoch
                         /\ sup'[e] = sup[e] \/ sup'[e].state = "ISOLATED"
  <2> TAKE e \in Domains
  <2>1. sup'[e] = sup[e] \/ sup'[e] = Isolate(sup[e], ctl[e].epoch)
    BY DEF driver_monitor_processes
  <2>2. sup[e] \in SupRecords
    BY Types DEF IInv
  <2> QED
    BY <2>1, <2>2, IsolateMoves
<1>4. sup' \in [Domains -> SupRecords]
  BY <1>3 DEF driver_monitor_processes
<1>5. \A e \in Domains : Settles(e)
  BY <1>3 DEF Settles, Reportable
<1>6. \A e \in Domains : Carries(e)
  BY <1>1, IdleFacts, CarriesNothing DEF Restarting
<1> QED
  BY <1>1, <1>2, <1>4, <1>5, <1>6, IdleFacts, PassInv, Decision

\* The walk over the domains stays within them.
LEMMA SlotBounds ==
    ASSUME TypeOK
    PROVE  /\ \A k \in 0..(NumDomains - 1) : Slot(k) \in Domains
           /\ \A d \in Domains : SlotAfter(d) \in Domains
           /\ Polled \subseteq Domains
<1>1. NumDomains \in Nat \ {0} /\ next_poll_slot \in 1..NumDomains
  BY SupervisorAssumption DEF TypeOK, Domains
<1>2. \A n \in Nat : (n % NumDomains) + 1 \in 1..NumDomains
  BY <1>1
<1>3. \A k \in 0..(NumDomains - 1) : next_poll_slot - 1 + k \in Nat
  BY <1>1
<1>4. \A k \in 0..(NumDomains - 1) : Slot(k) \in Domains
  BY <1>2, <1>3 DEF Slot, Domains
<1>5. \A d \in Domains : SlotAfter(d) \in Domains
  BY <1>1, <1>2 DEF SlotAfter, Domains
<1> QED
  BY <1>4, <1>5 DEF Polled

\* supervisor_poll.
LEMMA PollStep ==
    ASSUME IInv, supervisor_poll
    PROVE  IInv'
<1>1. /\ UNCHANGED <<ctl, dev, procs, call, busy, boot, tested>> /\ worker.pc = "poll"
      /\ sup' = [d \in Domains |-> CheckDeadline(sup[d])]
  BY DEF supervisor_poll
<1>2. \A e \in Domains : /\ sup'[e] \in SupRecords /\ sup'[e].epoch = sup[e].epoch
                         /\ sup'[e] = sup[e] \/ sup'[e].state = "ISOLATED"
  <2> TAKE e \in Domains
  <2>1. sup[e] \in SupRecords /\ sup'[e] = CheckDeadline(sup[e])
    BY <1>1, Types DEF IInv
  <2> QED
    BY <2>1, IsolateMoves
<1>3. sup' \in [Domains -> SupRecords]
  BY <1>1, <1>2
<1>4. \A e \in Domains : Settles(e)
  BY <1>2 DEF Settles, Reportable
<1>5. \A e \in Domains : Carries(e)
  BY <1>1, IdleFacts, CarriesNothing DEF Restarting
<1>6. /\ worker' \in WorkerRecords /\ next_poll_slot' \in Domains
      /\ Serves(worker.slot)' /\ BootingInv'
  <2>1. CASE worker' = NextPass
    <3>1. next_poll_slot' \in Domains
      BY <1>1, IdleFacts, SlotBounds DEF supervisor_poll, IInv
    <3> QED
      BY <2>1, <3>1, PassRecord, PassInv
  <2>2. CASE worker' # NextPass
    <3>1. PICK d \in Domains :
             /\ worker' = [worker EXCEPT !.slot = d, !.epoch = sup[d].epoch,
                              !.pc = IF sup'[d].state = "ISOLATED" THEN "fence" ELSE "event"]
             /\ next_poll_slot' = SlotAfter(d)
      BY <2>2, SlotBounds DEF supervisor_poll, IInv
    <3>2. worker \in WorkerRecords /\ sup[d] \in SupRecords
          /\ ~worker.booting /\ ~worker.aborting
      BY <1>1, IdleFacts
    <3>3. /\ worker' \in WorkerRecords /\ worker'.slot = d /\ worker'.epoch = sup'[d].epoch
          /\ worker'.pc \in {"fence", "event"} /\ ~worker'.booting /\ ~worker'.aborting
      BY <1>2, <3>1, <3>2 DEF WorkerRecords, WorkerSteps, SupRecords
    <3>4. StartInv(worker.slot)' /\ CopyInv(worker.slot)' /\ FenceInv(worker.slot)'
      BY <3>3 DEF StartInv, CopyInv, FenceInv, InFence, FenceSteps
    <3>5. Serves(worker.slot)' /\ BootingInv'
      BY <3>3, <3>4 DEF Serves, BootingInv
    <3> QED
      BY <3>1, <3>3, <3>5, SlotBounds DEF IInv
  <2> QED
    BY <2>1, <2>2
<1> QED
  BY <1>1, <1>3, <1>4, <1>5, <1>6, Decision

\* supervisor_apply_fence: the worker takes an isolated domain in hand.
LEMMA FenceStep ==
    ASSUME IInv, supervisor_apply_fence
    PROVE  IInv'
<1>1. /\ UNCHANGED <<ctl, dev, procs, call, busy, boot, next_poll_slot, tested>>
      /\ worker.pc = "fence"
  BY DEF supervisor_apply_fence
<1>2. /\ worker.slot \in Domains /\ ~worker.booting /\ ~worker.aborting
      /\ worker \in WorkerRecords /\ next_poll_slot' \in Domains
      /\ sup \in [Domains -> SupRecords] /\ \A e \in Domains : Carries(e)
  BY <1>1, IdleFacts, CarriesNothing DEF Restarting
<1>3. CASE worker' = NextPass /\ sup' = sup
  <2>1. \A e \in Domains : Settles(e)
    BY <1>3 DEF Settles
  <2> QED
    BY <1>1, <1>2, <1>3, <2>1, PassRecord, PassInv, Decision
<1>4. ASSUME NEW d \in Domains, d = worker.slot, sup[d].epoch = worker.epoch,
             sup' = [sup EXCEPT ![d].state = "FENCING"],
             worker' = [worker EXCEPT !.pc = "affinity"]
      PROVE  IInv'
  <2>1. /\ worker' \in WorkerRecords /\ worker'.pc = "affinity" /\ worker'.slot = d
        /\ worker'.epoch = worker.epoch /\ ~worker'.booting /\ ~worker'.aborting
    BY <1>2, <1>4 DEF WorkerRecords, WorkerSteps
  <2>2. /\ sup' \in [Domains -> SupRecords] /\ sup'[d].state = "FENCING"
        /\ \A e \in Domains : sup'[e].epoch = sup[e].epoch
        /\ \A e \in Domains : e # d => sup'[e] = sup[e]
    BY <1>2, <1>4 DEF SupRecords, States
  <2>3. StartInv(d)' /\ CopyInv(d)' /\ FenceInv(d)'
    BY <2>1, <2>2 DEF StartInv, CopyInv, FenceInv, InFence, FenceSteps
  <2>4. Serves(worker.slot)' /\ BootingInv'
    BY <1>4, <2>1, <2>2, <2>3 DEF Serves, BootingInv
  <2>5. \A e \in Domains : Settles(e)
    BY <2>2 DEF Settles, Reportable
  <2> QED
    BY <1>1, <1>2, <2>1, <2>2, <2>4, <2>5, Decision
<1> QED
  BY <1>2, <1>3, <1>4 DEF supervisor_apply_fence

\* Outside a start, nobody is alive in a vacant domain.
LEMMA VacantDead ==
    ASSUME IInv, NEW d \in Domains, Vacant(d), ~Preparing
    PROVE  AllDead(d)
<1>1. \A p \in DOMAIN procs[d] : procs[d][p] \in ProcStates
  BY ProcNumbers DEF IInv
<1> QED
  BY <1>1 DEF IInv, DomainInv, ProcessInv, Vacant, AllDead, ProcStates, Live

\* driver_fence_until and driver_fence_verify: the worker looks and decides.
LEMMA LookStep ==
    ASSUME IInv, driver_fence_verify \/ \E moved \in BOOLEAN : driver_fence_until(moved)
    PROVE  IInv'
<1>1. /\ UNCHANGED <<sup, ctl, dev, procs, call, busy, boot, next_poll_slot, tested>>
      /\ worker.pc \in {"affinity", "verify"}
  BY DEF driver_fence_verify, driver_fence_until
<1>2. /\ worker.slot \in Domains /\ ~worker.booting /\ ~worker.aborting
      /\ worker \in WorkerRecords /\ next_poll_slot' \in Domains /\ ~Preparing
      /\ sup \in [Domains -> SupRecords] /\ \A e \in Domains : Carries(e)
  BY <1>1, IdleFacts, CarriesNothing DEF Restarting
<1>3. ASSUME NEW d \in Domains, d = worker.slot
      PROVE  worker' \in WorkerRecords /\ Serves(worker.slot)' /\ BootingInv'
  <2>1. /\ worker.epoch = sup[d].epoch /\ sup[d].state \in {"FENCING", "ISOLATED"}
        /\ DomainInv(d) /\ ctl[d] \in Control
    BY <1>1, <1>2, <1>3, CallSound DEF IInv, Serves, FenceInv, InFence, OutsideFence
  <2>2. /\ worker' \in WorkerRecords
        /\ worker'.slot = d /\ worker'.epoch = worker.epoch
        /\ ~worker'.booting /\ ~worker'.aborting
        /\ \/ worker'.pc = "verify"
           \/ /\ worker'.pc = "fence_device" /\ worker'.pid = ctl[d].pid
              /\ worker'.copy = ctl[d] /\ Movable(d, ctl[d].pid)
           \/ worker'.pc = "decide" /\ (worker'.ok => ctl[d].pid = 0 /\ dev[d].owner = 0)
    <3>1. CASE driver_fence_verify
      <4>1. /\ worker' = [worker EXCEPT !.pc = "decide", !.ok = worker'.ok]
            /\ worker'.ok \in BOOLEAN /\ (worker'.ok => ctl[d].pid = 0 /\ dev[d].owner = 0)
        BY <1>2, <1>3, <3>1 DEF driver_fence_verify, WorkerRecords
      <4> QED
        BY <1>2, <1>3, <4>1 DEF WorkerRecords, WorkerSteps
    <3>2. CASE \E moved \in BOOLEAN : driver_fence_until(moved)
      <4>1. \/ worker' = [worker EXCEPT !.pc = "verify"]
            \/ /\ Movable(d, ctl[d].pid)
               /\ worker' = [worker EXCEPT !.pc = "fence_device", !.pid = ctl[d].pid,
                                           !.copy = ctl[d]]
            \/ worker' = FenceFailed
        BY <1>3, <3>2 DEF driver_fence_until
      <4>2. ctl[d].pid \in Nat /\ NoControl \in Control
        BY <2>1, UserSound DEF Control
      <4>3. CASE worker' = [worker EXCEPT !.pc = "verify"]
        BY <1>2, <1>3, <4>3 DEF WorkerRecords, WorkerSteps
      <4>4. CASE /\ Movable(d, ctl[d].pid)
                 /\ worker' = [worker EXCEPT !.pc = "fence_device", !.pid = ctl[d].pid,
                                             !.copy = ctl[d]]
        BY <1>2, <1>3, <2>1, <4>2, <4>4 DEF WorkerRecords, WorkerSteps
      <4>5. CASE worker' = FenceFailed
        BY <1>2, <1>3, <4>2, <4>5 DEF WorkerRecords, WorkerSteps, FenceFailed
      <4> QED
        BY <4>1, <4>3, <4>4, <4>5
    <3> QED
      BY <3>1, <3>2
  <2>3. CASE worker'.pc = "verify"
    <3>1. StartInv(d)' /\ CopyInv(d)' /\ FenceInv(d)'
      BY <1>1, <2>1, <2>2, <2>3 DEF StartInv, CopyInv, FenceInv, FenceSteps
    <3> QED
      BY <1>1, <2>1, <2>2, <2>3, <3>1 DEF Serves, BootingInv
  <2>4. CASE worker'.pc = "fence_device"
    <3>1. /\ ctl[d].pid \in DOMAIN procs[d] /\ ctl[d].pid = Last(d)
          /\ ctl[d].epoch = sup[d].epoch
      BY <1>1, <2>1, <2>2, <2>4
         DEF Movable, DomainInv, ProcessInv, RecordInv, Restarting, Stale, Alive
    <3>2. Last(d)' = Last(d)
      BY <1>1 DEF Last
    <3>3. StartInv(d)' /\ CopyInv(d)' /\ FenceInv(d)'
      BY <1>1, <2>1, <2>2, <2>4, <3>1, <3>2 DEF StartInv, CopyInv, FenceInv
    <3> QED
      BY <1>1, <2>1, <2>2, <2>4, <3>3 DEF Serves, BootingInv
  <2>5. CASE worker'.pc = "decide"
    <3>1. worker'.ok => AllDead(d)' /\ dev'[d].owner = 0 /\ ctl'[d].pid = 0
      <4>1. ctl[d].pid = 0 => Vacant(d)
        BY <2>1 DEF DomainInv, RecordInv, Names
      <4> QED
        BY <1>1, <1>2, <2>2, <2>5, <4>1, VacantDead DEF AllDead
    <3>2. StartInv(d)' /\ CopyInv(d)' /\ FenceInv(d)'
      BY <1>1, <2>1, <2>2, <2>5, <3>1 DEF StartInv, CopyInv, FenceInv, FenceSteps, Cleared
    <3> QED
      BY <1>1, <2>1, <2>2, <2>5, <3>2 DEF Serves, BootingInv
  <2> QED
    BY <2>2, <2>3, <2>4, <2>5
<1>4. worker' \in WorkerRecords /\ Serves(worker.slot)' /\ BootingInv'
  BY <1>2, <1>3
<1>5. \A e \in Domains : Settles(e)
  BY <1>1 DEF Settles
<1> QED
  BY <1>1, <1>2, <1>4, <1>5, Decision

------------------------------------------------------------------------------
(* Steps of the worker in the domain it deals with.                         *)

\* The other domains notice nothing.
LEMMA WorkerStep ==
    ASSUME IInv, TypeOK', NEW d \in Domains, d = worker.slot,
           boot'.pc = boot.pc, boot'.slot = boot.slot, boot'.copy = boot.copy,
           \A e \in Domains : e # d => Same(e),
           DomainInv(d)', Ages(d), sup'[d].epoch = sup[d].epoch \/ AllDead(d),
           Serves(worker.slot)', BootingInv'
    PROVE  IInv'
<1>1. \A e \in Domains : e # d => Carries(e)
  BY DEF Carries
<1>2. \A e \in Domains : e # d => DomainInv(e)' /\ Ages(e) /\ sup'[e].epoch = sup[e].epoch
  BY <1>1, SameKept DEF Same
<1>3. BootInv'
  BY <1>2, BootKept
<1> QED
  BY <1>2, <1>3 DEF IInv

\* The drivers that have not been started yet do not notice either.
LEMMA BootingKept ==
    ASSUME IInv, NEW d \in Domains, d = worker.slot, boot'.pc = boot.pc,
           \A e \in Domains : e # d => Same(e), worker'.slot = d, worker'.pc # "boot",
           worker'.booting = worker.booting,
           worker.booting => \/ worker'.pc \in {"record", "spawn", "publish", "start", "isolate"}
                             \/ worker'.aborting /\ worker'.pc \in FenceSteps
    PROVE  BootingInv'
<1>1. d \in Nat
  BY SupervisorAssumption DEF Domains
<1>2. \A e \in Domains : e > d => Same(e)
  BY <1>1
<1>3. \A e \in Domains : e > d /\ Unstarted(e) => Unstarted(e)'
  BY <1>2 DEF Same, Unstarted
<1> QED
  BY <1>3 DEF IInv, BootingInv

\* fence_decides: a restart is granted for a domain in which nobody is alive.
LEMMA DecideStep ==
    ASSUME IInv, fence_decides
    PROVE  IInv'
<1>1. /\ UNCHANGED <<ctl, dev, procs, call, busy, boot, next_poll_slot, tested>>
      /\ worker.pc = "decide"
  BY DEF fence_decides
<1>2. /\ worker.slot \in Domains /\ ~worker.booting /\ ~worker.aborting
      /\ worker \in WorkerRecords /\ next_poll_slot' \in Domains
      /\ sup \in [Domains -> SupRecords] /\ \A e \in Domains : Carries(e)
  BY <1>1, IdleFacts, CarriesNothing DEF Restarting
<1>3. CASE worker' = NextPass /\ (sup' = sup \/ sup' = [sup EXCEPT ![worker.slot].state = "SAFE_STATE"])
  <2>1. /\ sup' \in [Domains -> SupRecords]
        /\ \A e \in Domains : /\ sup'[e].epoch = sup[e].epoch
                              /\ sup'[e] = sup[e] \/ sup'[e].state = "SAFE_STATE"
    BY <1>2, <1>3 DEF SupRecords, States
  <2>2. \A e \in Domains : Settles(e)
    BY <2>1 DEF Settles, Reportable
  <2> QED
    BY <1>1, <1>2, <1>3, <2>1, <2>2, PassRecord, PassInv, Decision
<1>4. ASSUME NEW d \in Domains, d = worker.slot, NEW r, worker.ok,
             r = [state |-> "RECOVERING", epoch |-> sup[d].epoch + 1,
                  restart_count |-> sup[d].restart_count + 1, overdue |-> FALSE],
             sup' = [sup EXCEPT ![d] = r],
             worker' = [worker EXCEPT !.pc = "event", !.epoch = @ + 1]
      PROVE  IInv'
  <2>1. r \in SupRecords /\ r.epoch = sup[d].epoch + 1 /\ r.state = "RECOVERING"
    BY <1>2, <1>4 DEF SupRecords, States
  <2>2. /\ sup' \in [Domains -> SupRecords] /\ sup'[d] = r
        /\ \A e \in Domains : e # d => Same(e)
    BY <1>1, <1>2, <1>4, <2>1 DEF Same
  <2>3. /\ worker' \in WorkerRecords /\ worker'.slot = d /\ worker'.pc = "event"
        /\ worker'.epoch = worker.epoch + 1 /\ ~worker'.booting /\ ~worker'.aborting
    <3> DEFINE n == worker.epoch + 1
    <3>1. worker' = [worker EXCEPT !.pc = "event", !.epoch = n] /\ worker.slot = d /\ n \in Nat
      BY <1>2, <1>4 DEF WorkerRecords
    <3> HIDE DEF n
    <3>2. /\ worker' \in WorkerRecords /\ worker'.slot = d /\ worker'.pc = "event"
          /\ worker'.epoch = n /\ ~worker'.booting /\ ~worker'.aborting
      BY <1>2, <3>1 DEF WorkerRecords, WorkerSteps
    <3> QED
      BY <3>2 DEF n
  <2>4. /\ worker.epoch = sup[d].epoch /\ AllDead(d) /\ dev[d].owner = 0
        /\ Cleared(d, ctl[d].pid) /\ DomainInv(d)
    BY <1>1, <1>2, <1>4 DEF IInv, Serves, FenceInv, InFence, OutsideFence
  <2>5. Ages(d) /\ Last(d)' = Last(d) /\ AllDead(d)'
    BY <1>1, <2>4 DEF Ages, Last, AllDead
  <2>6. dev[d].state = "AVAILABLE" /\ call[d].pc = "user"
    BY <2>4 DEF DomainInv, DeviceInv, CallInv, Running, AllDead
  <2>7. Vacant(d)'
    BY <1>1, <2>1, <2>2, <2>5, <2>6 DEF Vacant, AllDead, Live, SetUp, Reportable
  <2>8. Cleared(d, ctl[d].pid)'
    BY <1>1, <2>4, <2>5, NamesStay
  <2>9. ProcessInv(d)' /\ DeviceInv(d)'
    BY <1>1, <2>5, <2>6, <2>4 DEF ProcessInv, DeviceInv, AllDead, SetUp
  <2>10. RecordInv(d)'
    BY <2>3, <2>7, <2>8 DEF RecordInv, Cleared, Names, Restarting, Stale
  <2>11. CallInv(d)' /\ TestInv(d)'
    BY <1>1, <2>1, <2>2, <2>6 DEF CallInv, TestInv, Reportable
  <2>12. TypeOK'
    BY <1>1, <2>2, <2>3 DEF IInv, TypeOK, SupRecords, WorkerRecords
  <2>13. StartInv(d)' /\ CopyInv(d)' /\ FenceInv(d)'
    BY <2>3 DEF StartInv, CopyInv, FenceInv, FenceSteps, InFence
  <2>14. Serves(worker.slot)' /\ BootingInv'
    BY <2>1, <2>2, <2>3, <2>4, <2>13 DEF Serves, BootingInv
  <2> QED
    BY <1>1, <1>4, <2>2, <2>4, <2>5, <2>9, <2>10, <2>11, <2>12, <2>14, WorkerStep
       DEF DomainInv
<1> QED
  BY <1>2, <1>3, <1>4 DEF fence_decides

\* driver_service_event: the copy names what the record names.
LEMMA EventStep ==
    ASSUME IInv, driver_service_event
    PROVE  IInv'
<1>1. /\ UNCHANGED <<sup, ctl, dev, procs, call, busy, boot, next_poll_slot, tested>>
      /\ worker.pc = "event"
      /\ worker' = [worker EXCEPT !.pc = "session", !.copy = ctl[worker.slot]]
  BY DEF driver_service_event
<1>2. /\ worker.slot \in Domains /\ ~worker.booting /\ ~worker.aborting /\ ~Preparing
      /\ worker \in WorkerRecords /\ next_poll_slot' \in Domains
      /\ sup \in [Domains -> SupRecords] /\ ctl[worker.slot] \in Control
  BY <1>1, IdleFacts, CallSound
<1>3. ASSUME NEW d \in Domains, d = worker.slot PROVE IInv'
  <2>1. /\ worker' \in WorkerRecords /\ worker'.pc = "session" /\ worker'.slot = d
        /\ worker'.epoch = worker.epoch /\ worker'.copy = ctl[d]
        /\ ~worker'.booting /\ ~worker'.aborting
    BY <1>1, <1>2, <1>3 DEF WorkerRecords, WorkerSteps
  <2>2. \A e \in Domains : Settles(e) /\ Carries(e)
    BY <1>1, <1>2, <1>3, <2>1 DEF Settles, Carries, Restarting
  <2>3. Names(d, ctl[d].pid) /\ worker.epoch = sup[d].epoch
    BY <1>1, <1>3 DEF IInv, DomainInv, RecordInv, Serves, OutsideFence
  <2>4. (Vacant(d) => Vacant(d)') /\ Last(d)' = Last(d) /\ Ages(d)
    BY <1>1, <2>2, DomainKept
  <2>5. Names(d, worker.copy.pid)'
    BY <1>1, <2>1, <2>3, <2>4, NamesStay
  <2>6. StartInv(d)' /\ CopyInv(d)' /\ FenceInv(d)'
    BY <2>1, <2>5 DEF StartInv, CopyInv, FenceInv, FenceSteps, InFence
  <2>7. Serves(worker.slot)' /\ BootingInv'
    BY <1>1, <2>1, <2>3, <2>6 DEF Serves, BootingInv
  <2> QED
    BY <1>1, <1>2, <2>1, <2>2, <2>7, Decision
<1> QED
  BY <1>2, <1>3

\* driver_session_written: the record is of the new session, and names what it did.
LEMMA SessionStep ==
    ASSUME IInv, driver_session_written
    PROVE  IInv'
<1>1. /\ UNCHANGED <<sup, dev, procs, call, busy, boot, next_poll_slot, tested>>
      /\ worker.pc = "session"
      /\ ctl' = [ctl EXCEPT ![worker.slot] = [worker.copy EXCEPT !.epoch = worker.epoch]]
      /\ worker' = [worker EXCEPT !.pc = "record", !.copy = NoControl]
  BY DEF driver_session_written
<1>2. /\ worker.slot \in Domains /\ ~worker.booting /\ ~worker.aborting /\ ~Preparing
      /\ worker \in WorkerRecords /\ ctl \in [Domains -> Control] /\ NoControl \in Control
  BY <1>1, IdleFacts, Types, UserSound DEF IInv
<1>3. ASSUME NEW d \in Domains, d = worker.slot PROVE IInv'
  <2>1. /\ worker' \in WorkerRecords /\ worker'.pc = "record" /\ worker'.slot = d
        /\ worker'.epoch = worker.epoch /\ ~worker'.booting /\ ~worker'.aborting
    BY <1>1, <1>2, <1>3 DEF WorkerRecords, WorkerSteps
  <2>2. /\ ctl' \in [Domains -> Control] /\ ctl'[d].pid = worker.copy.pid
        /\ ctl'[d].epoch = worker.epoch
        /\ \A e \in Domains : e # d => Same(e)
    BY <1>1, <1>2, <1>3 DEF Control, WorkerRecords, Same
  <2>3. /\ Names(d, worker.copy.pid) /\ worker.epoch = sup[d].epoch /\ DomainInv(d)
    BY <1>1, <1>3 DEF IInv, Serves, OutsideFence, CopyInv
  <2>4. Ages(d) /\ Last(d)' = Last(d) /\ (Vacant(d) => Vacant(d)')
    BY <1>1 DEF Ages, Last, Vacant
  <2>5. Names(d, ctl[d].pid)'
    <3>1. \A c : Names(d, c) => Names(d, c)'
      BY <1>1, <2>4, NamesStay
    <3> QED
      BY <2>2, <2>3, <3>1 DEF Names, Stale
  <2>6. RecordInv(d)'
    BY <1>1, <2>2, <2>3, <2>5 DEF RecordInv
  <2>7. ProcessInv(d)' /\ DeviceInv(d)'
    BY <1>1, <1>2, <2>3, <2>4 DEF DomainInv, ProcessInv, DeviceInv
  <2>8. CallInv(d)' /\ TestInv(d)'
    BY <1>1, <2>3 DEF DomainInv, CallInv, TestInv, Running
  <2>9. TypeOK'
    BY <1>1, <2>1, <2>2 DEF IInv, TypeOK, WorkerRecords
  <2>10. StartInv(d)' /\ CopyInv(d)' /\ FenceInv(d)'
    BY <2>1 DEF StartInv, CopyInv, FenceInv, FenceSteps, InFence
  <2>11. Serves(worker.slot)' /\ BootingInv'
    BY <1>1, <2>1, <2>3, <2>10 DEF Serves, BootingInv
  <2> QED
    BY <1>1, <1>3, <2>2, <2>4, <2>6, <2>7, <2>8, <2>9, <2>11, WorkerStep DEF DomainInv
<1> QED
  BY <1>2, <1>3

\* After a start: the next driver of the boot sequence, or the worker's next pass.
LEMMA AfterStart ==
    ASSUME IInv, NEW d \in Domains, d = worker.slot, worker' = Started,
           boot'.pc = boot.pc, \A e \in Domains : e # d => Same(e)
    PROVE  worker' \in WorkerRecords /\ Serves(worker.slot)' /\ BootingInv'
           /\ worker'.pc \in {"boot", "devices"} /\ ~worker'.aborting
<1>1. CASE worker' = NextPass
  BY <1>1, PassRecord, PassInv
<1>2. CASE /\ worker.booting /\ d < NumDomains
           /\ worker' = [NextPass EXCEPT !.pc = "boot", !.slot = d + 1, !.booting = TRUE]
  <2>1. d \in Nat /\ NumDomains \in Nat /\ d + 1 \in Domains
    BY <1>2, SupervisorAssumption DEF Domains
  <2>2. /\ worker' \in WorkerRecords /\ worker'.pc = "boot" /\ worker'.slot = d + 1
        /\ worker'.booting /\ ~worker'.aborting /\ worker'.epoch = 1
    <3>1. /\ NextPass \in WorkerRecords /\ NextPass.epoch = 1 /\ ~NextPass.aborting
          /\ "boot" \in WorkerSteps
      BY PassRecord DEF NextPass, WorkerSteps
    <3> QED
      BY <1>2, <2>1, <3>1 DEF WorkerRecords
  <2>3. \A e \in Domains : e > d \/ e = d + 1 => e > d /\ e # d
    BY <2>1 DEF Domains
  <2>4. \A e \in Domains : e > d + 1 => e > d
    BY <2>1 DEF Domains
  <2>5. \A e \in Domains : e > d => Unstarted(e)'
    BY <1>2, <2>3 DEF IInv, BootingInv, Same, Unstarted
  <2>6. BootingInv'
    BY <1>2, <2>2, <2>3, <2>4, <2>5 DEF IInv, BootingInv
  <2>7. Serves(worker.slot)'
    BY <2>2 DEF Serves, StartInv, CopyInv, FenceInv, FenceSteps, InFence, OutsideFence
  <2> QED
    BY <2>2, <2>6, <2>7
<1> QED
  BY <1>1, <1>2 DEF Started

\* The caller of driver_spawn_next isolates the domain.
LEMMA IsolateStep ==
    ASSUME IInv, start_isolates
    PROVE  IInv'
<1>1. /\ UNCHANGED <<ctl, dev, procs, call, busy, boot, next_poll_slot, tested>>
      /\ worker.pc = "isolate" /\ worker' = Started
      /\ sup' = [sup EXCEPT ![worker.slot] = Isolate(sup[worker.slot], worker.epoch)]
  BY DEF start_isolates
<1>2. /\ worker.slot \in Domains /\ sup \in [Domains -> SupRecords]
      /\ next_poll_slot' \in Domains
  BY <1>1, Types DEF IInv, WorkerRecords
<1>3. ASSUME NEW d \in Domains, d = worker.slot PROVE IInv'
  <2>1. /\ Isolate(sup[d], worker.epoch) \in SupRecords
        /\ Isolate(sup[d], worker.epoch).epoch = sup[d].epoch
        /\ \/ Isolate(sup[d], worker.epoch) = sup[d]
           \/ Isolate(sup[d], worker.epoch).state = "ISOLATED"
    BY <1>2, IsolateMoves
  <2>2. /\ sup' \in [Domains -> SupRecords] /\ \A e \in Domains : e # d => Same(e)
        /\ \A e \in Domains : /\ sup'[e].epoch = sup[e].epoch
                              /\ sup'[e] = sup[e] \/ sup'[e].state = "ISOLATED"
    BY <1>1, <1>2, <1>3, <2>1 DEF Same
  <2>3. worker' \in WorkerRecords /\ Serves(worker.slot)' /\ BootingInv'
    BY <1>1, <1>3, <2>2, AfterStart
  <2>4. \A e \in Domains : Settles(e) /\ Carries(e)
    BY <1>1, <2>2, CarriesNothing DEF Settles, Reportable, Preparing, Restarting
  <2> QED
    BY <1>1, <1>2, <2>2, <2>3, <2>4, Decision
<1> QED
  BY <1>2, <1>3

\* driver_spawn_next: a record that names nobody is of a domain without driver.
LEMMA SpawnStep ==
    ASSUME IInv, driver_spawn_next
    PROVE  IInv'
<1>1. /\ UNCHANGED <<sup, ctl, dev, procs, call, busy, boot, next_poll_slot, tested>>
      /\ worker.pc = "record"
  BY DEF driver_spawn_next
<1>2. /\ worker.slot \in Domains /\ worker \in WorkerRecords /\ next_poll_slot' \in Domains
      /\ sup \in [Domains -> SupRecords] /\ ctl[worker.slot] \in Control
  BY <1>1, Types DEF IInv, WorkerRecords
<1>3. ASSUME NEW d \in Domains, d = worker.slot PROVE IInv'
  <2>1. Serves(d) /\ DomainInv(d) /\ ~worker.aborting /\ worker.epoch = sup[d].epoch
    BY <1>1, <1>3 DEF IInv, Serves, StartInv, FenceSteps, OutsideFence
  <2>2. \A e \in Domains : Settles(e) /\ Carries(e) /\ Same(e)
    BY <1>1, <2>1, CarriesNothing DEF Settles, Preparing, Restarting, Same
  <2>3. (Vacant(d) => Vacant(d)') /\ Last(d)' = Last(d) /\ Ages(d)
    BY <1>1, <2>2, DomainKept
  <2>4. CASE worker' = [worker EXCEPT !.pc = "isolate"]
    <3>1. /\ worker' \in WorkerRecords /\ worker'.pc = "isolate" /\ worker'.slot = d
          /\ worker'.epoch = worker.epoch /\ worker'.booting = worker.booting
          /\ ~worker'.aborting
      BY <1>2, <1>3, <2>1, <2>4 DEF WorkerRecords, WorkerSteps
    <3>2. StartInv(d)' /\ CopyInv(d)' /\ FenceInv(d)'
      BY <3>1 DEF StartInv, CopyInv, FenceInv, FenceSteps, InFence
    <3>3. Serves(worker.slot)'
      BY <1>1, <2>1, <3>1, <3>2 DEF Serves
    <3>4. BootingInv'
      BY <1>1, <1>3, <2>2, <3>1, BootingKept
    <3> QED
      BY <1>1, <1>2, <2>2, <3>1, <3>3, <3>4, Decision
  <2>5. CASE ctl[d].pid = 0 /\ worker' = [worker EXCEPT !.pc = "spawn", !.copy = ctl[d]]
    <3>1. /\ worker' \in WorkerRecords /\ worker'.pc = "spawn" /\ worker'.slot = d
          /\ worker'.epoch = worker.epoch /\ worker'.booting = worker.booting
          /\ worker'.copy = ctl[d] /\ ~worker'.aborting
      BY <1>2, <1>3, <2>1, <2>5 DEF WorkerRecords, WorkerSteps
    <3>2. Vacant(d)' /\ ctl[d].epoch = sup[d].epoch
      BY <1>1, <2>1, <2>3, <2>5 DEF DomainInv, RecordInv, Names, Restarting, Stale
    <3>3. StartInv(d)' /\ CopyInv(d)' /\ FenceInv(d)'
      BY <1>1, <2>5, <3>1, <3>2 DEF StartInv, CopyInv, FenceInv, FenceSteps, InFence, Cleared
    <3>4. Serves(worker.slot)'
      BY <1>1, <2>1, <3>1, <3>3 DEF Serves
    <3>5. BootingInv'
      BY <1>1, <1>3, <2>2, <3>1, BootingKept
    <3> QED
      BY <1>1, <1>2, <2>2, <3>1, <3>4, <3>5, Decision
  <2> QED
    BY <1>3, <2>4, <2>5 DEF driver_spawn_next
<1> QED
  BY <1>2, <1>3

\* supervisor_start_device_driver: the first session of a domain.
LEMMA RegisterStep ==
    ASSUME IInv, supervisor_start_device_driver
    PROVE  IInv'
<1> DEFINE s == [state |-> "STARTING", epoch |-> 1, restart_count |-> 0, overdue |-> FALSE]
           c == [NoControl EXCEPT !.epoch = 1]
<1>1. /\ UNCHANGED <<dev, procs, call, busy, boot, next_poll_slot, tested>>
      /\ worker.pc = "boot" /\ worker' = [worker EXCEPT !.pc = "record"]
      /\ sup' = [sup EXCEPT ![worker.slot] = s] /\ ctl' = [ctl EXCEPT ![worker.slot] = c]
  BY DEF supervisor_start_device_driver, Step
<1>2. /\ s \in SupRecords /\ s.epoch = 1
      /\ c \in Control /\ c.pid = 0 /\ c.epoch = 1
  BY DEF SupRecords, States, NoControl, Control
<1> HIDE DEF s, c
<1>3. /\ worker.slot \in Domains /\ worker \in WorkerRecords
      /\ sup \in [Domains -> SupRecords] /\ ctl \in [Domains -> Control]
  BY <1>1, Types DEF IInv, WorkerRecords
<1>4. ASSUME NEW d \in Domains, d = worker.slot PROVE IInv'
  <2>1. /\ worker.booting /\ worker.epoch = 1 /\ Unstarted(d) /\ ~worker.aborting
        /\ DomainInv(d)
    BY <1>1, <1>4 DEF IInv, BootingInv, Serves, StartInv, FenceSteps
  <2>2. /\ worker' \in WorkerRecords /\ worker'.pc = "record" /\ worker'.slot = d
        /\ worker'.epoch = 1 /\ worker'.booting = worker.booting /\ ~worker'.aborting
    BY <1>1, <1>3, <1>4, <2>1 DEF WorkerRecords, WorkerSteps
  <2>3. /\ sup' \in [Domains -> SupRecords] /\ ctl' \in [Domains -> Control]
        /\ sup'[d] = s /\ ctl'[d] = c /\ \A e \in Domains : e # d => Same(e)
    BY <1>1, <1>2, <1>3, <1>4 DEF Same
  <2>4. /\ DOMAIN procs[d] = {} /\ DOMAIN procs'[d] = {} /\ dev'[d] = dev[d]
        /\ dev[d].state = "AVAILABLE" /\ dev[d].owner = 0 /\ call[d].pc = "user"
    BY <1>1, <2>1, ProcNumbers DEF Unstarted, DomainInv, CallInv, Running, IInv
  <2>5. Ages(d) /\ Vacant(d)' /\ AllDead(d)
    BY <1>2, <2>3, <2>4 DEF Ages, Vacant, AllDead, SetUp
  <2>6. ProcessInv(d)' /\ DeviceInv(d)'
    BY <2>4 DEF ProcessInv, DeviceInv, SetUp
  <2>7. RecordInv(d)'
    BY <1>2, <2>3, <2>5 DEF RecordInv, Names
  <2>8. CallInv(d)' /\ TestInv(d)'
    BY <1>1, <1>2, <2>3, <2>4 DEF CallInv, TestInv
  <2>9. TypeOK'
    BY <1>1, <2>2, <2>3 DEF IInv, TypeOK, WorkerRecords, SupRecords
  <2>10. StartInv(d)' /\ CopyInv(d)' /\ FenceInv(d)'
    BY <2>2 DEF StartInv, CopyInv, FenceInv, FenceSteps, InFence
  <2>11. Serves(worker.slot)'
    BY <1>2, <2>2, <2>3, <2>10 DEF Serves
  <2>12. BootingInv'
    BY <1>1, <1>4, <2>2, <2>3, BootingKept
  <2> QED
    BY <1>1, <1>4, <2>3, <2>5, <2>6, <2>7, <2>8, <2>9, <2>11, <2>12, WorkerStep
       DEF DomainInv
<1> QED
  BY <1>3, <1>4

------------------------------------------------------------------------------
(* Starting a generation.                                                   *)

\* A domain in which a driver is about to be started.
LEMMA SpawnFacts ==
    ASSUME IInv, NEW d \in Domains, d = worker.slot, worker.pc = "spawn"
    PROVE  /\ worker.epoch = sup[d].epoch /\ worker.copy.epoch = sup[d].epoch
           /\ Vacant(d) /\ Cleared(d, ctl[d].pid) /\ AllDead(d) /\ DomainInv(d)
           /\ ~worker.aborting /\ ~Preparing /\ ~Restarting
           /\ call[d].pc = "user" /\ worker \in WorkerRecords
           /\ ctl[d].pid = 0 \/ ctl[d].pid \in DOMAIN procs[d]
<1>1. /\ worker.epoch = sup[d].epoch /\ worker.copy.epoch = sup[d].epoch
      /\ Vacant(d) /\ Cleared(d, ctl[d].pid) /\ DomainInv(d)
      /\ ~worker.aborting /\ ~Preparing /\ ~Restarting
  BY DEF IInv, Serves, StartInv, CopyInv, OutsideFence, FenceSteps, Preparing, Restarting
<1>2. AllDead(d)
  BY <1>1, VacantDead
<1>3. call[d].pc = "user"
  BY <1>1, <1>2 DEF DomainInv, CallInv, Running, AllDead
<1>4. ctl[d].pid = 0 \/ ctl[d].pid \in DOMAIN procs[d]
  BY <1>1 DEF Cleared, Stale, IInv, BootInv
<1> QED
  BY <1>1, <1>2, <1>3, <1>4, Types DEF IInv

\* A process is prepared, with or without the device.
LEMMA PreparedStep ==
    ASSUME IInv, NEW d \in Domains, d = worker.slot, worker.pc = "spawn",
           NEW p, p = Len(procs[d]) + 1, procs' = [procs EXCEPT ![d] = Append(@, "prepared")],
           dev' \in [Domains -> DeviceRecords], \A e \in Domains : e # d => dev'[e] = dev[e],
           worker' \in WorkerRecords, worker'.slot = d, worker'.pid = p,
           worker'.epoch = worker.epoch, worker'.copy = worker.copy,
           worker'.booting = worker.booting,
           \/ worker'.pc = "terminate" /\ worker'.aborting /\ dev'[d] = dev[d]
           \/ worker'.pc = "publish" /\ ~worker'.aborting
              /\ dev'[d] = [state |-> "CLAIMED", owner |-> p],
           UNCHANGED <<sup, ctl, call, busy, boot, next_poll_slot, tested>>
    PROVE  IInv'
<1>1. /\ worker.epoch = sup[d].epoch /\ worker.copy.epoch = sup[d].epoch
      /\ Vacant(d) /\ Cleared(d, ctl[d].pid) /\ AllDead(d) /\ DomainInv(d)
      /\ call[d].pc = "user" /\ ~Restarting
      /\ ctl[d].pid = 0 \/ ctl[d].pid \in DOMAIN procs[d]
  BY SpawnFacts
<1>2. /\ procs' \in [Domains -> Seq(ProcStates)]
      /\ \A e \in Domains : e # d => procs'[e] = procs[e]
      /\ DOMAIN procs'[d] = DOMAIN procs[d] \cup {p} /\ procs'[d][p] = "prepared"
      /\ p \notin DOMAIN procs[d] /\ Last(d)' = p
      /\ \A q \in DOMAIN procs[d] : procs'[d][q] = procs[d][q]
      /\ p \in Nat \ {0}
  <2>1. TypeOK /\ "prepared" \in ProcStates
    BY DEF IInv, ProcStates
  <2>2. Len(procs[d]) \in Nat
    BY <2>1, ProcNumbers
  <2> DEFINE st == "prepared"
  <2>3. st \in ProcStates /\ procs' = [procs EXCEPT ![d] = Append(@, st)]
    BY <2>1
  <2> HIDE DEF st
  <2>4. /\ procs' \in [Domains -> Seq(ProcStates)]
        /\ \A e \in Domains : e # d => procs'[e] = procs[e]
        /\ DOMAIN procs'[d] = DOMAIN procs[d] \cup {Len(procs[d]) + 1}
        /\ procs'[d][Len(procs[d]) + 1] = st /\ Len(procs'[d]) = Len(procs[d]) + 1
        /\ Len(procs[d]) + 1 \notin DOMAIN procs[d]
        /\ \A q \in DOMAIN procs[d] : procs'[d][q] = procs[d][q]
    BY <2>1, <2>3, ProcAppend
  <2> QED
    BY <2>2, <2>4 DEF Last, st
<1>3. TypeOK'
  BY <1>2 DEF IInv, TypeOK, DeviceRecords, DeviceStates, ProcStates, WorkerRecords
<1>4. \A e \in Domains : e # d => Same(e)
  BY <1>2 DEF Same
<1>5. /\ dev'[d].owner = 0 <=> dev'[d].state = "AVAILABLE"
      /\ dev'[d].state \notin SetUp
  BY <1>1, <1>2 DEF DomainInv, DeviceInv, Vacant, SetUp
<1>6. Ages(d) /\ Vacant(d)'
  BY <1>1, <1>2, <1>5 DEF Ages, Vacant, AllDead, Live
<1>7. Cleared(d, ctl[d].pid)'
  BY <1>1, <1>6, NamesStay
<1>8. ProcessInv(d)'
  <2>1. Preparing'
    BY DEF Preparing
  <2>2. \A q \in DOMAIN procs'[d] : procs'[d][q] # "dead" => q = p
    BY <1>1, <1>2 DEF AllDead
  <2>3. ctl'[d].pid # p
    BY <1>1, <1>2
  <2> QED
    BY <1>2, <2>1, <2>2, <2>3 DEF ProcessInv
<1>9. DeviceInv(d)'
  BY <1>5 DEF DeviceInv
<1>10. RecordInv(d)'
  BY <1>1, <1>6, <1>7 DEF DomainInv, RecordInv, Cleared, Names, Stale
<1>11. CallInv(d)' /\ TestInv(d)'
  <2>1. sup[d].epoch > 1 => sup[d].state \notin Reportable
    BY <1>1 DEF Vacant
  <2> QED
    BY <1>1, <1>5, <2>1 DEF CallInv, TestInv, SetUp
<1>12. StartInv(d)' /\ CopyInv(d)' /\ FenceInv(d)'
  <2>1. StartInv(d)'
    BY <1>2, <1>6, <1>7 DEF StartInv, FenceSteps
  <2>2. CopyInv(d)'
    BY <1>1 DEF CopyInv, FenceSteps
  <2>3. FenceInv(d)'
    BY <1>2 DEF FenceInv, InFence, FenceSteps
  <2> QED
    BY <2>1, <2>2, <2>3
<1>13. Serves(worker.slot)'
  BY <1>1, <1>12 DEF Serves
<1>14. BootingInv'
  BY <1>4, BootingKept DEF FenceSteps
<1> QED
  BY <1>3, <1>4, <1>6, <1>8, <1>9, <1>10, <1>11, <1>13, <1>14, WorkerStep DEF DomainInv

\* driver_prepares.
LEMMA PrepareStep ==
    ASSUME IInv, driver_prepares
    PROVE  IInv'
<1>1. /\ UNCHANGED <<sup, ctl, call, busy, boot, next_poll_slot, tested>>
      /\ worker.pc = "spawn"
  BY DEF driver_prepares
<1>2. /\ worker.slot \in Domains /\ worker \in WorkerRecords
      /\ sup \in [Domains -> SupRecords] /\ next_poll_slot' \in Domains
      /\ dev \in [Domains -> DeviceRecords]
  BY <1>1, Types DEF IInv, WorkerRecords
<1>3. ASSUME NEW d \in Domains, d = worker.slot PROVE IInv'
  <2> DEFINE p == Len(procs[d]) + 1
  <2>0. p \in Nat
    BY ProcNumbers DEF IInv
  <2>1. /\ worker.epoch = sup[d].epoch /\ worker.copy.epoch = sup[d].epoch
        /\ Vacant(d) /\ ~worker.aborting /\ ~Preparing /\ ~Restarting
    BY <1>1, <1>3, SpawnFacts
  <2>2. CASE /\ worker' = [worker EXCEPT !.pc = "clear", !.aborting = TRUE]
             /\ UNCHANGED <<dev, procs>>
    <3>1. /\ worker' \in WorkerRecords /\ worker'.slot = d /\ worker'.pc = "clear"
          /\ worker'.aborting /\ worker'.epoch = worker.epoch
          /\ worker'.copy = worker.copy /\ worker'.booting = worker.booting
      BY <1>2, <1>3, <2>2 DEF WorkerRecords, WorkerSteps
    <3>2. \A e \in Domains : Settles(e) /\ Carries(e) /\ Same(e)
      BY <1>1, <2>1, <2>2, CarriesNothing DEF Settles, Same
    <3>3. Vacant(d)'
      BY <1>1, <2>1, <2>2, <3>2, DomainKept
    <3>4. StartInv(d)' /\ CopyInv(d)' /\ FenceInv(d)'
      BY <1>1, <2>1, <3>1, <3>3 DEF StartInv, CopyInv, FenceInv, FenceSteps
    <3>5. Serves(worker.slot)'
      BY <1>1, <2>1, <3>1, <3>4 DEF Serves
    <3>6. BootingInv'
      BY <1>1, <1>3, <3>1, <3>2, BootingKept DEF FenceSteps
    <3> QED
      BY <1>1, <1>2, <2>2, <3>1, <3>2, <3>5, <3>6, Decision
  <2>3. CASE /\ worker' = [worker EXCEPT !.pc = "terminate", !.pid = p, !.aborting = TRUE]
             /\ procs' = [procs EXCEPT ![d] = Append(@, "prepared")] /\ dev' = dev
    <3> HIDE DEF p
    <3>1. /\ worker' \in WorkerRecords /\ worker'.slot = d /\ worker'.pc = "terminate"
          /\ worker'.aborting /\ worker'.epoch = worker.epoch /\ worker'.pid = p
          /\ worker'.copy = worker.copy /\ worker'.booting = worker.booting
      BY <1>2, <1>3, <2>0, <2>3 DEF WorkerRecords, WorkerSteps
    <3>2. p = Len(procs[d]) + 1
      BY DEF p
    <3> QED
      BY <1>1, <1>2, <1>3, <2>3, <3>1, <3>2, PreparedStep
  <2>4. CASE /\ worker' = [worker EXCEPT !.pc = "publish", !.pid = p]
             /\ procs' = [procs EXCEPT ![d] = Append(@, "prepared")]
             /\ dev' = [dev EXCEPT ![d] = [state |-> "CLAIMED", owner |-> p]]
    <3> HIDE DEF p
    <3>1. /\ worker' \in WorkerRecords /\ worker'.slot = d /\ worker'.pc = "publish"
          /\ ~worker'.aborting /\ worker'.epoch = worker.epoch /\ worker'.pid = p
          /\ worker'.copy = worker.copy /\ worker'.booting = worker.booting
      BY <1>2, <1>3, <2>0, <2>1, <2>4 DEF WorkerRecords, WorkerSteps
    <3>2. p = Len(procs[d]) + 1
      BY DEF p
    <3>3. /\ dev' \in [Domains -> DeviceRecords]
          /\ dev'[d] = [state |-> "CLAIMED", owner |-> p]
          /\ \A e \in Domains : e # d => dev'[e] = dev[e]
      BY <1>2, <2>0, <2>4 DEF DeviceRecords, DeviceStates
    <3> QED
      BY <1>1, <1>3, <2>4, <3>1, <3>2, <3>3, PreparedStep
  <2> QED
    BY <1>3, <2>2, <2>3, <2>4 DEF driver_prepares
<1> QED
  BY <1>2, <1>3

\* A process that is about to be started.
LEMMA PreparedFacts ==
    ASSUME IInv, NEW d \in Domains, d = worker.slot, worker.pc \in {"publish", "start"}
    PROVE  /\ worker.epoch = sup[d].epoch /\ worker.copy.epoch = sup[d].epoch
           /\ Vacant(d) /\ DomainInv(d) /\ ~worker.aborting /\ ~Restarting
           /\ worker.pid = Last(d) /\ worker.pid # 0 /\ worker.pid \in Nat
           /\ worker.pid \in DOMAIN procs[d]
           /\ procs[d][worker.pid] = "prepared"
           /\ \A q \in DOMAIN procs[d] : q # worker.pid => procs[d][q] = "dead"
           /\ dev[d] = [state |-> "CLAIMED", owner |-> worker.pid]
           /\ call[d].pc = "user" /\ worker \in WorkerRecords
<1>1. /\ worker.epoch = sup[d].epoch /\ worker.copy.epoch = sup[d].epoch
      /\ Vacant(d) /\ DomainInv(d) /\ ~worker.aborting /\ ~Restarting
      /\ worker.pid = Last(d) /\ worker.pid \in DOMAIN procs[d]
      /\ procs[d][worker.pid] = "prepared"
      /\ dev[d] = [state |-> "CLAIMED", owner |-> worker.pid]
  BY DEF IInv, Serves, StartInv, CopyInv, OutsideFence, FenceSteps, Restarting
<1>2. worker.pid # 0 /\ worker.pid \in Nat
  BY <1>1, ProcNumbers DEF IInv
<1>3. \A q \in DOMAIN procs[d] : q # worker.pid => procs[d][q] = "dead"
  BY <1>1 DEF DomainInv, ProcessInv
<1>4. call[d].pc = "user"
  BY <1>1 DEF DomainInv, CallInv, Running, Vacant, Live
<1> QED
  BY <1>1, <1>2, <1>3, <1>4, Types DEF IInv

\* driver_publishes.
LEMMA PublishStep ==
    ASSUME IInv, driver_publishes
    PROVE  IInv'
<1> DEFINE c == [worker.copy EXCEPT !.pid = worker.pid, !.epoch = worker.epoch,
                                    !.fenced = TRUE]
<1>1. /\ UNCHANGED <<sup, dev, procs, call, busy, boot, next_poll_slot, tested>>
      /\ worker.pc = "publish" /\ ctl' = [ctl EXCEPT ![worker.slot] = c]
      /\ worker' = [worker EXCEPT !.pc = "start", !.copy = c]
  BY DEF driver_publishes
<1>2. /\ worker.slot \in Domains /\ worker \in WorkerRecords /\ ctl \in [Domains -> Control]
  BY <1>1, Types DEF IInv, WorkerRecords
<1>3. /\ c \in Control /\ c.pid = worker.pid /\ c.epoch = worker.epoch /\ c.fenced
  BY <1>2 DEF WorkerRecords, Control
<1> HIDE DEF c
<1>4. ASSUME NEW d \in Domains, d = worker.slot PROVE IInv'
  <2>1. /\ worker.epoch = sup[d].epoch /\ Vacant(d) /\ DomainInv(d) /\ ~worker.aborting
        /\ worker.pid = Last(d) /\ worker.pid # 0 /\ worker.pid \in DOMAIN procs[d]
        /\ procs[d][worker.pid] = "prepared"
        /\ dev[d] = [state |-> "CLAIMED", owner |-> worker.pid]
    BY <1>1, <1>4, PreparedFacts
  <2>2. /\ worker' \in WorkerRecords /\ worker'.pc = "start" /\ worker'.slot = d
        /\ worker'.epoch = worker.epoch /\ worker'.pid = worker.pid /\ worker'.copy = c
        /\ worker'.booting = worker.booting /\ ~worker'.aborting
    BY <1>1, <1>2, <1>3, <1>4, <2>1 DEF WorkerRecords, WorkerSteps
  <2>3. /\ ctl' \in [Domains -> Control] /\ ctl'[d] = c
        /\ \A e \in Domains : e # d => Same(e)
    BY <1>1, <1>2, <1>3, <1>4 DEF Same
  <2>4. Ages(d) /\ Last(d)' = Last(d) /\ Vacant(d)'
    BY <1>1, <2>1 DEF Ages, Last, Vacant
  <2>5. ProcessInv(d)'
    BY <1>1, <1>3, <2>1, <2>2, <2>3, <2>4 DEF DomainInv, ProcessInv, Preparing
  <2>6. RecordInv(d)'
    BY <1>1, <1>3, <2>1, <2>3, <2>4 DEF RecordInv, Names
  <2>7. DeviceInv(d)' /\ CallInv(d)' /\ TestInv(d)'
    BY <1>1, <2>1, <2>4 DEF DomainInv, DeviceInv, CallInv, TestInv, Running
  <2>8. TypeOK'
    BY <1>1, <2>2, <2>3 DEF IInv, TypeOK, WorkerRecords
  <2>9. StartInv(d)' /\ CopyInv(d)' /\ FenceInv(d)'
    BY <1>1, <1>3, <2>1, <2>2, <2>3, <2>4 DEF StartInv, CopyInv, FenceInv, FenceSteps, InFence
  <2>10. Serves(worker.slot)'
    BY <1>1, <2>1, <2>2, <2>9 DEF Serves
  <2>11. BootingInv'
    BY <1>1, <1>4, <2>2, <2>3, BootingKept
  <2> QED
    BY <1>1, <1>4, <2>3, <2>4, <2>5, <2>6, <2>7, <2>8, <2>10, <2>11, WorkerStep DEF DomainInv
<1> QED
  BY <1>2, <1>4

\* driver_starts: the process runs, on record unless the boot thread is in the way.
LEMMA StartStep ==
    ASSUME IInv, driver_starts
    PROVE  IInv'
<1>1. /\ UNCHANGED <<sup, ctl, dev, call, busy, next_poll_slot, tested>>
      /\ worker.pc = "start"
  BY DEF driver_starts
<1>2. /\ worker.slot \in Domains /\ worker \in WorkerRecords /\ boot \in BootRecords
      /\ sup \in [Domains -> SupRecords] /\ next_poll_slot' \in Domains
  BY <1>1, Types DEF IInv, WorkerRecords
<1>3. ASSUME NEW d \in Domains, d = worker.slot PROVE IInv'
  <2> DEFINE p == worker.pid
  <2>1. /\ worker.epoch = sup[d].epoch /\ worker.copy.epoch = sup[d].epoch
        /\ Vacant(d) /\ DomainInv(d) /\ ~worker.aborting /\ ~Restarting
        /\ p = Last(d) /\ p # 0 /\ p \in DOMAIN procs[d]
        /\ procs[d][p] = "prepared" /\ call[d].pc = "user"
        /\ \A q \in DOMAIN procs[d] : q # p => procs[d][q] = "dead"
        /\ dev[d] = [state |-> "CLAIMED", owner |-> p]
    BY <1>1, <1>3, PreparedFacts
  <2>2. ctl[d].pid # 0
    BY <1>1, <1>3 DEF IInv, Serves, StartInv
  <2>3. CASE /\ worker' = [worker EXCEPT !.pc = "fence_device", !.aborting = TRUE]
             /\ UNCHANGED <<procs, boot>>
    <3>1. /\ worker' \in WorkerRecords /\ worker'.slot = d /\ worker'.pc = "fence_device"
          /\ worker'.aborting /\ worker'.epoch = worker.epoch /\ worker'.pid = p
          /\ worker'.copy = worker.copy /\ worker'.booting = worker.booting
      BY <1>2, <1>3, <2>3 DEF WorkerRecords, WorkerSteps
    <3>2. \A e \in Domains : Settles(e) /\ Carries(e) /\ Same(e)
      BY <1>1, <1>3, <2>1, <2>3, <3>1 DEF Settles, Same, Carries, Preparing
    <3>3. Vacant(d)'
      BY <1>1, <2>1, <2>3, <3>2, DomainKept
    <3>4. StartInv(d)' /\ CopyInv(d)' /\ FenceInv(d)'
      BY <1>1, <2>1, <2>3, <3>1, <3>3 DEF StartInv, CopyInv, FenceInv, FenceSteps
    <3>5. Serves(worker.slot)'
      BY <1>1, <2>1, <3>1, <3>4 DEF Serves
    <3>6. BootingInv'
      BY <1>3, <2>3, <3>1, <3>2, BootingKept DEF FenceSteps
    <3> QED
      BY <1>1, <1>2, <2>3, <3>1, <3>2, <3>5, <3>6, Decision
  <2>4. CASE /\ procs' = [procs EXCEPT ![d][p] = "running"] /\ worker' = Started
             /\ boot' = [boot EXCEPT !.todo = IF worker.booting
                                              THEN @ \cup ({d} \cap Moved) ELSE @]
    <3>1. /\ boot' \in BootRecords /\ boot'.pc = boot.pc /\ boot'.slot = boot.slot
          /\ boot'.copy = boot.copy
      BY <1>2, <2>4 DEF BootRecords
    <3> HIDE DEF p
    <3>2. /\ procs' \in [Domains -> Seq(ProcStates)]
          /\ \A e \in Domains : e # d => procs'[e] = procs[e]
          /\ DOMAIN procs'[d] = DOMAIN procs[d] /\ procs'[d][p] = "running"
          /\ Len(procs'[d]) = Len(procs[d])
          /\ \A q \in DOMAIN procs[d] : q # p => procs'[d][q] = procs[d][q]
      BY <2>1, <2>4, ProcUpdate DEF IInv, ProcStates
    <3>3. Last(d)' = Last(d) /\ Ages(d) /\ \A e \in Domains : e # d => Same(e)
      BY <1>1, <2>1, <3>2 DEF Last, Ages, Same
    <3>4. worker' \in WorkerRecords /\ Serves(worker.slot)' /\ BootingInv'
      BY <1>3, <2>4, <3>1, <3>3, AfterStart
    <3>5. ProcessInv(d)'
      BY <2>1, <3>2, <3>3 DEF ProcessInv
    <3>6. RecordInv(d)'
      <4>1. ctl[d].pid = Last(d) \/ Stale(d, ctl[d].pid)
        BY <2>1, <2>2 DEF DomainInv, RecordInv, Names
      <4>2. Stale(d, ctl[d].pid) => Stale(d, ctl[d].pid)'
        BY <1>1, <3>1, <3>3, StaleStays
      <4> QED
        BY <1>1, <2>1, <2>2, <3>3, <4>1, <4>2 DEF DomainInv, RecordInv, Names
    <3>7. DeviceInv(d)' /\ CallInv(d)'
      BY <1>1, <2>1, <3>3 DEF DomainInv, DeviceInv, CallInv, SetUp
    <3>8. TestInv(d)'
      BY <1>1, <2>1 DEF TestInv, Vacant
    <3>9. TypeOK'
      BY <1>1, <3>1, <3>2, <3>4 DEF IInv, TypeOK, WorkerRecords, BootRecords, ProcStates
    <3> QED
      BY <1>1, <1>3, <3>1, <3>3, <3>4, <3>5, <3>6, <3>7, <3>8, <3>9, WorkerStep DEF DomainInv
  <2> QED
    BY <1>3, <2>3, <2>4 DEF driver_starts
<1> QED
  BY <1>2, <1>3

------------------------------------------------------------------------------
(* Fencing and aborting.                                                    *)

\* device_domain_poll: active devices are fenced.
LEMMA DevicePollStep ==
    ASSUME IInv, device_domain_poll
    PROVE  IInv'
<1>1. /\ UNCHANGED <<sup, ctl, procs, call, busy, boot, next_poll_slot, tested>>
      /\ worker.pc = "devices" /\ worker' = [worker EXCEPT !.pc = "monitor"]
  BY DEF device_domain_poll, Step
<1>2. /\ worker' \in WorkerRecords /\ worker'.pc = "monitor"
      /\ ~worker'.booting /\ ~worker'.aborting /\ ~Preparing /\ ~Restarting
  BY <1>1, IdleFacts DEF WorkerRecords, WorkerSteps, Restarting
<1>3. dev \in [Domains -> DeviceRecords]
  BY Types DEF IInv
<1>4. PICK late \in SUBSET {d \in Domains : busy = {} /\ dev[d].state = "ACTIVE"} :
         dev' = [d \in Domains |-> IF d \in late THEN [dev[d] EXCEPT !.state = "FENCED"]
                                   ELSE dev[d]]
  BY DEF device_domain_poll
<1>5. /\ dev' \in [Domains -> DeviceRecords]
      /\ \A e \in Domains : /\ dev'[e].owner = dev[e].owner
                            /\ \/ dev'[e].state = dev[e].state
                               \/ dev'[e].state = "FENCED" /\ dev[e].state = "ACTIVE"
  BY <1>3, <1>4 DEF DeviceRecords, DeviceStates
<1>6. TypeOK'
  BY <1>1, <1>2, <1>5 DEF IInv, TypeOK, WorkerRecords, DeviceRecords, DeviceStates
<1>7. ASSUME NEW e \in Domains PROVE DomainInv(e)' /\ Ages(e)
  <2>1. DomainInv(e) /\ Last(e)' = Last(e) /\ Ages(e)
    BY <1>1 DEF IInv, Last, Ages
  <2>2. Vacant(e) => Vacant(e)'
    BY <1>1, <1>5 DEF Vacant, SetUp
  <2>3. Names(e, ctl[e].pid)' /\ (Stale(e, ctl[e].pid) => Stale(e, ctl[e].pid)')
    BY <1>1, <2>1, <2>2, NamesStay, StaleStays DEF DomainInv, RecordInv
  <2>4. RecordInv(e)'
    BY <1>1, <1>2, <2>1, <2>3 DEF DomainInv, RecordInv
  <2>5. ProcessInv(e)'
    BY <1>1, <1>2, <2>1 DEF DomainInv, ProcessInv
  <2>6. DeviceInv(e)'
    BY <1>5, <2>1 DEF DomainInv, DeviceInv, SetUp
  <2>7. CallInv(e)' /\ TestInv(e)'
    BY <1>1, <1>5, <2>1 DEF DomainInv, CallInv, TestInv, Running
  <2> QED
    BY <2>1, <2>4, <2>5, <2>6, <2>7 DEF DomainInv
<1>8. BootInv'
  BY <1>1, <1>7, BootKept
<1> QED
  BY <1>2, <1>6, <1>7, <1>8, PassInv DEF IInv

\* What the worker knows while it fences a domain or aborts a start.
LEMMA FenceFacts ==
    ASSUME IInv, NEW d \in Domains, d = worker.slot, worker.pc \in FenceSteps
    PROVE  /\ worker.epoch = sup[d].epoch /\ worker.copy.epoch = sup[d].epoch
           /\ DomainInv(d) /\ worker \in WorkerRecords /\ worker.slot \in Domains
           /\ ~Restarting /\ (worker.aborting => Vacant(d))
           /\ worker.booting => worker.aborting
           /\ worker.pc # "clear" => /\ worker.pid \in DOMAIN procs[d] /\ worker.pid \in Nat
                                     /\ worker.pid # 0
           /\ ~worker.aborting => sup[d].state \in {"FENCING", "ISOLATED"}
<1>1. /\ worker.epoch = sup[d].epoch /\ worker.copy.epoch = sup[d].epoch
      /\ DomainInv(d) /\ ~Restarting /\ (worker.aborting => Vacant(d))
      /\ worker.booting => worker.aborting
      /\ worker.pc # "clear" => worker.pid \in DOMAIN procs[d]
      /\ ~worker.aborting => sup[d].state \in {"FENCING", "ISOLATED"}
  BY DEF IInv, Serves, StartInv, CopyInv, FenceInv, BootingInv, FenceSteps, InFence,
         OutsideFence, Restarting
<1>2. worker \in WorkerRecords
  BY Types DEF IInv
<1> QED
  BY <1>1, <1>2, ProcNumbers DEF IInv

\* The fence has failed: nothing is known but the state.
LEMMA FailedServes ==
    ASSUME IInv, NEW d \in Domains, d = worker.slot, worker.pc \in FenceSteps,
           ~worker.aborting, worker' = FenceFailed, sup' = sup
    PROVE  worker' \in WorkerRecords /\ Serves(worker.slot)' /\ BootingInv' /\ ~worker'.aborting
           /\ worker'.slot = d /\ worker'.pc = "decide"
<1>1. /\ worker.epoch = sup[d].epoch /\ worker \in WorkerRecords /\ ~worker.booting
      /\ sup[d].state \in {"FENCING", "ISOLATED"} /\ NoControl \in Control
  BY FenceFacts, UserSound
<1>2. /\ worker' \in WorkerRecords /\ worker'.pc = "decide" /\ worker'.slot = d
      /\ worker'.epoch = worker.epoch /\ ~worker'.ok /\ ~worker'.aborting /\ ~worker'.booting
  BY <1>1 DEF FenceFailed, WorkerRecords, WorkerSteps
<1>3. StartInv(d)' /\ CopyInv(d)' /\ FenceInv(d)'
  BY <1>1, <1>2 DEF StartInv, CopyInv, FenceInv, FenceSteps
<1> QED
  BY <1>1, <1>2, <1>3 DEF Serves, BootingInv

\* The worker fences or recovers the device of its domain.
LEMMA DeviceStep ==
    ASSUME IInv, NEW d \in Domains, d = worker.slot, ~Restarting,
           UNCHANGED <<sup, ctl, procs, call, busy, boot, next_poll_slot, tested>>,
           dev' \in [Domains -> DeviceRecords], \A e \in Domains : e # d => dev'[e] = dev[e],
           \/ dev'[d] = dev[d]
           \/ dev'[d].state \notin SetUp /\ (dev'[d].owner = 0 <=> dev'[d].state = "AVAILABLE")
    PROVE  /\ (Vacant(d) => Vacant(d)') /\ (AllDead(d) => AllDead(d)')
           /\ Last(d)' = Last(d)
           /\ Carries(d) /\ worker' \in WorkerRecords /\ Serves(worker.slot)' /\ BootingInv'
                => IInv'
           /\ \A e \in Domains : e # d => Same(e)
<1>1. \A e \in Domains : e # d => Same(e)
  BY DEF Same
<1>2. DomainInv(d) /\ Last(d)' = Last(d) /\ Ages(d) /\ (AllDead(d) => AllDead(d)')
  BY DEF IInv, Last, Ages, AllDead
<1>3. Vacant(d) => Vacant(d)'
  BY DEF Vacant
<1>4. ASSUME Carries(d), worker' \in WorkerRecords, Serves(worker.slot)', BootingInv'
      PROVE  IInv'
  <2>1. TypeOK'
    BY <1>4 DEF IInv, TypeOK, DeviceRecords, DeviceStates, WorkerRecords
  <2>2. Names(d, ctl[d].pid)' /\ (Stale(d, ctl[d].pid) => Stale(d, ctl[d].pid)')
    BY <1>2, <1>3, NamesStay, StaleStays DEF DomainInv, RecordInv
  <2>3. RecordInv(d)'
    BY <1>2, <2>2 DEF DomainInv, RecordInv
  <2>4. ProcessInv(d)'
    BY <1>2, <1>4 DEF DomainInv, ProcessInv, Carries
  <2>5. DeviceInv(d)'
    BY <1>2 DEF DomainInv, DeviceInv
  <2>6. CallInv(d)' /\ TestInv(d)'
    BY <1>2 DEF DomainInv, CallInv, TestInv, Running, SetUp
  <2> QED
    BY <1>1, <1>2, <1>4, <2>1, <2>3, <2>4, <2>5, <2>6, WorkerStep DEF DomainInv
<1> QED
  BY <1>1, <1>2, <1>3, <1>4

\* device_domain_fence.
LEMMA DeviceFenceStep ==
    ASSUME IInv, device_domain_fence
    PROVE  IInv'
<1>1. /\ UNCHANGED <<sup, ctl, procs, call, busy, boot, next_poll_slot, tested>>
      /\ worker.pc = "fence_device" /\ worker.slot \in Domains
      /\ dev \in [Domains -> DeviceRecords]
  BY Types DEF device_domain_fence, IInv, WorkerRecords
<1>2. ASSUME NEW d \in Domains, d = worker.slot PROVE IInv'
  <2>1. /\ worker.epoch = sup[d].epoch /\ worker.copy.epoch = sup[d].epoch
        /\ worker \in WorkerRecords /\ ~Restarting
        /\ worker.aborting => Vacant(d)
        /\ worker.booting => worker.aborting
        /\ worker.pid \in DOMAIN procs[d] /\ worker.pid # 0
        /\ ~worker.aborting => sup[d].state \in {"FENCING", "ISOLATED"} /\ worker.pid = Last(d)
    BY <1>1, <1>2, FenceFacts DEF FenceSteps, IInv, Serves, FenceInv, InFence
  <2>2. PICK ok \in BOOLEAN : worker' = [worker EXCEPT !.pc = "terminate", !.ok = ok]
    BY <1>1, <1>2, SupervisorAssumption DEF device_domain_fence
  <2>3. /\ worker' \in WorkerRecords /\ worker'.slot = d /\ worker'.pc = "terminate"
        /\ worker'.epoch = worker.epoch /\ worker'.pid = worker.pid
        /\ worker'.copy = worker.copy /\ worker'.booting = worker.booting
        /\ worker'.aborting = worker.aborting
    BY <1>2, <2>1, <2>2 DEF WorkerRecords, WorkerSteps
  <2>4. /\ dev' \in [Domains -> DeviceRecords]
        /\ \A e \in Domains : e # d => dev'[e] = dev[e]
        /\ dev'[d] = dev[d] \/ (dev'[d].state = "FENCED" /\ dev'[d].owner = worker.pid)
    BY <1>1, <1>2 DEF device_domain_fence, DeviceRecords, DeviceStates
  <2>5. \/ dev'[d] = dev[d]
        \/ dev'[d].state \notin SetUp /\ (dev'[d].owner = 0 <=> dev'[d].state = "AVAILABLE")
    BY <2>1, <2>4 DEF SetUp
  <2>6. (Vacant(d) => Vacant(d)') /\ Last(d)' = Last(d) /\ \A e \in Domains : e # d => Same(e)
    BY <1>1, <1>2, <2>1, <2>4, <2>5, DeviceStep
  <2>7. Carries(d)
    BY <1>1, <1>2, <2>1, <2>3 DEF Carries, Preparing
  <2>8. StartInv(d)' /\ CopyInv(d)' /\ FenceInv(d)'
    BY <1>1, <2>1, <2>3, <2>6 DEF StartInv, CopyInv, FenceInv, FenceSteps
  <2>9. Serves(worker.slot)'
    BY <1>1, <2>1, <2>3, <2>8 DEF Serves
  <2>10. BootingInv'
    BY <1>1, <1>2, <2>1, <2>3, <2>6, BootingKept DEF FenceSteps
  <2> QED
    BY <1>1, <1>2, <2>1, <2>3, <2>4, <2>5, <2>7, <2>9, <2>10, DeviceStep
<1> QED
  BY <1>1, <1>2

\* device_domain_recover_owner: the device is free again, stays fenced or is left alone.
LEMMA RecoverStep ==
    ASSUME IInv, device_domain_recover_owner
    PROVE  IInv'
<1>1. /\ UNCHANGED <<sup, ctl, procs, call, busy, boot, next_poll_slot, tested>>
      /\ worker.pc = "recover" /\ worker.slot \in Domains
      /\ dev \in [Domains -> DeviceRecords]
  BY Types DEF device_domain_recover_owner, IInv, WorkerRecords
<1>2. ASSUME NEW d \in Domains, d = worker.slot PROVE IInv'
  <2>1. /\ worker.epoch = sup[d].epoch /\ worker.copy.epoch = sup[d].epoch
        /\ worker \in WorkerRecords /\ ~Restarting
        /\ worker.aborting => Vacant(d)
        /\ worker.booting => worker.aborting
        /\ worker.pid # 0 /\ worker.pid \in Nat
        /\ ~worker.aborting => sup[d].state \in {"FENCING", "ISOLATED"} /\ AllDead(d)
    BY <1>1, <1>2, FenceFacts DEF FenceSteps, IInv, Serves, FenceInv, InFence
  <2>2. PICK ok \in Outcomes[d] :
           /\ dev' = [dev EXCEPT ![d] = Recovered(d, worker.pid, ok)]
           /\ worker' = IF worker.aborting \/ (dev'[d].owner = 0 /\ dev[d].owner = worker.pid)
                        THEN [worker EXCEPT !.pc = "clear", !.pid = 0] ELSE FenceFailed
    BY <1>2 DEF device_domain_recover_owner
  <2>3. /\ Recovered(d, worker.pid, ok) \in DeviceRecords
        /\ \/ Recovered(d, worker.pid, ok) = dev[d]
           \/ /\ Recovered(d, worker.pid, ok).state \notin SetUp
              /\ Recovered(d, worker.pid, ok).owner = 0
                    <=> Recovered(d, worker.pid, ok).state = "AVAILABLE"
    BY <1>1, <2>1 DEF Recovered, DeviceRecords, DeviceStates, SetUp
  <2>4. /\ dev' \in [Domains -> DeviceRecords]
        /\ \A e \in Domains : e # d => dev'[e] = dev[e]
        /\ \/ dev'[d] = dev[d]
           \/ dev'[d].state \notin SetUp /\ (dev'[d].owner = 0 <=> dev'[d].state = "AVAILABLE")
    BY <1>1, <2>2, <2>3
  <2>5. /\ (Vacant(d) => Vacant(d)') /\ (AllDead(d) => AllDead(d)') /\ Last(d)' = Last(d)
        /\ \A e \in Domains : e # d => Same(e)
    BY <1>1, <1>2, <2>1, <2>4, DeviceStep
  <2>6. Carries(d)
    BY <1>1, <2>1 DEF Carries, Preparing
  <2>7. CASE worker' = FenceFailed /\ ~worker.aborting
    <3>1. worker' \in WorkerRecords /\ Serves(worker.slot)' /\ BootingInv'
      BY <1>1, <1>2, <2>7, FailedServes DEF FenceSteps
    <3> QED
      BY <1>1, <1>2, <2>1, <2>4, <2>6, <3>1, DeviceStep
  <2>8. CASE /\ worker' = [worker EXCEPT !.pc = "clear", !.pid = 0]
             /\ worker.aborting \/ dev'[d].owner = 0
    <3>1. /\ worker' \in WorkerRecords /\ worker'.slot = d /\ worker'.pc = "clear"
          /\ worker'.epoch = worker.epoch /\ worker'.copy = worker.copy
          /\ worker'.booting = worker.booting /\ worker'.aborting = worker.aborting
      BY <1>2, <2>1, <2>8 DEF WorkerRecords, WorkerSteps
    <3>2. StartInv(d)' /\ CopyInv(d)' /\ FenceInv(d)'
      BY <1>1, <2>1, <2>5, <2>8, <3>1 DEF StartInv, CopyInv, FenceInv, FenceSteps
    <3>3. Serves(worker.slot)'
      BY <1>1, <2>1, <3>1, <3>2 DEF Serves
    <3>4. BootingInv'
      BY <1>1, <1>2, <2>1, <2>5, <3>1, BootingKept DEF FenceSteps
    <3> QED
      BY <1>1, <1>2, <2>1, <2>4, <2>6, <3>1, <3>3, <3>4, DeviceStep
  <2> QED
    BY <2>2, <2>7, <2>8
<1> QED
  BY <1>1, <1>2

\* process_terminate, for the processes: no prepared one outlives it.
LEMMA StopFacts ==
    ASSUME IInv, NEW d \in Domains, d = worker.slot, NEW stopped \in BOOLEAN,
           process_terminate(stopped)
    PROVE  /\ dev' \in [Domains -> DeviceRecords] /\ procs' \in [Domains -> Seq(ProcStates)]
           /\ call' \in [Domains -> CallRecords] /\ \A e \in Domains : e # d => Same(e)
           /\ DOMAIN procs'[d] = DOMAIN procs[d] /\ Ages(d) /\ (Vacant(d) => Vacant(d)')
           /\ DomainInv(d)' /\ (stopped => AllDead(d)') /\ (worker.aborting => stopped)
<1> DEFINE p == worker.pid
<1>1. /\ worker.pc = "terminate" /\ UNCHANGED <<sup, ctl, busy, boot, next_poll_slot, tested>>
  BY DEF process_terminate
<1>2. /\ DomainInv(d) /\ ~Restarting /\ (worker.aborting => Vacant(d)) /\ p \in DOMAIN procs[d]
      /\ (~worker.aborting => p = Last(d) /\ ~Preparing)
  BY <1>1, FenceFacts DEF FenceSteps, IInv, Serves, FenceInv, InFence, Preparing
<1>3. \A q \in DOMAIN procs[d] : procs[d][q] \in ProcStates
  BY ProcNumbers DEF IInv
<1>4. \A q \in DOMAIN procs[d] : procs[d][q] = "prepared" => q = p
  BY <1>2 DEF DomainInv, ProcessInv
<1>5. ASSUME DeviceInv(d)', CallInv(d)', TestInv(d)', Last(d)' = Last(d), Ages(d),
             Vacant(d) => Vacant(d)', DOMAIN procs'[d] = DOMAIN procs[d],
             \A q \in DOMAIN procs[d] : /\ procs'[d][q] # "prepared"
                                        /\ procs'[d][q] # "dead" => procs[d][q] # "dead"
      PROVE  DomainInv(d)'
  <2>1. ProcessInv(d)'
    BY <1>2, <1>5 DEF DomainInv, ProcessInv
  <2>2. Names(d, ctl[d].pid)' /\ (Stale(d, ctl[d].pid) => Stale(d, ctl[d].pid)')
    BY <1>1, <1>2, <1>5, NamesStay, StaleStays DEF DomainInv, RecordInv
  <2>3. RecordInv(d)'
    BY <1>1, <1>2, <2>2 DEF DomainInv, RecordInv
  <2> QED
    BY <1>5, <2>1, <2>3 DEF DomainInv
<1>6. CASE UNCHANGED <<dev, procs, call>> /\ procs[d][p] # "prepared"
           /\ (stopped => ~Alive(d, p)) /\ (~stopped => Alive(d, p))
  <2>1. /\ Last(d)' = Last(d) /\ Ages(d) /\ (Vacant(d) => Vacant(d)')
        /\ \A e \in Domains : Same(e)
    BY <1>1, <1>6 DEF Last, Ages, Vacant, Same
  <2>2. DeviceInv(d)' /\ CallInv(d)' /\ TestInv(d)'
    BY <1>1, <1>2, <1>6, <2>1 DEF DomainInv, DeviceInv, CallInv, TestInv, Running
  <2>3. DomainInv(d)'
    BY <1>4, <1>5, <1>6, <2>1, <2>2
  <2>4. worker.aborting => stopped
    BY <1>2, <1>3, <1>6 DEF Alive, Vacant, Live, ProcStates
  <2>5. stopped => AllDead(d)
    <3>1. ASSUME stopped, NEW q \in DOMAIN procs[d], procs[d][q] # "dead" PROVE FALSE
      <4>1. procs[d][q] # "prepared" /\ q = Last(d)
        BY <1>2, <1>4, <1>6, <3>1 DEF DomainInv, ProcessInv
      <4>2. procs[d][q] \in Live /\ q # p
        BY <1>2, <1>3, <1>6, <3>1, <4>1 DEF Live, ProcStates, Alive
      <4> QED
        BY <1>2, <4>1, <4>2 DEF Vacant
    <3> QED
      BY <3>1 DEF AllDead
  <2>6. stopped => AllDead(d)'
    BY <1>6, <2>5 DEF AllDead
  <2> QED
    BY <1>6, <2>1, <2>3, <2>4, <2>6, Types DEF IInv
<1>7. CASE /\ dev' = [dev EXCEPT ![d] = CleanedUp(d, p)] /\ Gone(d, p) /\ stopped
           /\ Movable(d, p)
  <2>1. procs[d][p] # "dead"
    BY <1>7 DEF Movable
  <2> HIDE DEF p
  <2>2. /\ DeviceInv(d)' /\ CallInv(d)' /\ TestInv(d)' /\ Last(d)' = Last(d) /\ Ages(d)
        /\ (Vacant(d) => Vacant(d)') /\ AllDead(d)' /\ \A e \in Domains : e # d => Same(e)
        /\ dev' \in [Domains -> DeviceRecords] /\ procs' \in [Domains -> Seq(ProcStates)]
        /\ call' \in [Domains -> CallRecords] /\ DOMAIN procs'[d] = DOMAIN procs[d]
    BY <1>1, <1>2, <1>7, <2>1, GoneStep
  <2>3. DomainInv(d)'
    BY <1>5, <2>2 DEF AllDead
  <2> QED
    BY <1>7, <2>2, <2>3
<1>8. ~Alive(d, p) => procs[d][p] # "prepared"
  BY <1>2 DEF Alive
<1> QED
  BY <1>6, <1>7, <1>8 DEF process_terminate

\* process_terminate.
LEMMA TerminateStep ==
    ASSUME IInv, NEW stopped \in BOOLEAN, process_terminate(stopped)
    PROVE  IInv'
<1>1. /\ UNCHANGED <<sup, ctl, busy, boot, next_poll_slot, tested>>
      /\ worker.pc = "terminate" /\ worker.slot \in Domains
  BY Types DEF process_terminate, IInv, WorkerRecords
<1>2. ASSUME NEW d \in Domains, d = worker.slot PROVE IInv'
  <2>1. /\ worker.epoch = sup[d].epoch /\ worker.copy.epoch = sup[d].epoch
        /\ worker \in WorkerRecords /\ (worker.aborting => Vacant(d))
        /\ worker.booting => worker.aborting
        /\ worker.pid \in DOMAIN procs[d]
        /\ ~worker.aborting => sup[d].state \in {"FENCING", "ISOLATED"}
    BY <1>1, <1>2, FenceFacts DEF FenceSteps
  <2>2. /\ dev' \in [Domains -> DeviceRecords] /\ procs' \in [Domains -> Seq(ProcStates)]
        /\ call' \in [Domains -> CallRecords] /\ \A e \in Domains : e # d => Same(e)
        /\ DOMAIN procs'[d] = DOMAIN procs[d] /\ Ages(d) /\ (Vacant(d) => Vacant(d)')
        /\ DomainInv(d)' /\ (stopped => AllDead(d)') /\ (worker.aborting => stopped)
    BY <1>2, StopFacts
  <2>3. \/ /\ worker' = [worker EXCEPT !.pc = "recover"] /\ (worker.aborting \/ stopped)
        \/ /\ worker' = [worker EXCEPT !.pc = "clear"] /\ worker.aborting
        \/ worker' = FenceFailed /\ ~worker.aborting
    BY <1>2 DEF process_terminate, Stopped
  <2>4. /\ worker' \in WorkerRecords /\ Serves(worker.slot)' /\ BootingInv'
    <3>1. CASE worker' = FenceFailed /\ ~worker.aborting
      BY <1>1, <1>2, <3>1, FailedServes DEF FenceSteps
    <3>2. ASSUME NEW to \in {"recover", "clear"}, worker' = [worker EXCEPT !.pc = to],
                 worker.aborting \/ (to = "recover" /\ stopped)
          PROVE  worker' \in WorkerRecords /\ Serves(worker.slot)' /\ BootingInv'
      <4>1. /\ worker' \in WorkerRecords /\ worker'.slot = d /\ worker'.pc = to
            /\ worker'.epoch = worker.epoch /\ worker'.copy = worker.copy
            /\ worker'.pid = worker.pid
            /\ worker'.booting = worker.booting /\ worker'.aborting = worker.aborting
        BY <1>2, <2>1, <3>2 DEF WorkerRecords, WorkerSteps
      <4>2. StartInv(d)' /\ CopyInv(d)' /\ FenceInv(d)'
        BY <1>1, <2>1, <2>2, <3>2, <4>1 DEF StartInv, CopyInv, FenceInv, FenceSteps
      <4>3. Serves(worker.slot)'
        BY <1>1, <2>1, <4>1, <4>2 DEF Serves
      <4>4. BootingInv'
        BY <1>1, <1>2, <2>1, <2>2, <4>1, BootingKept DEF FenceSteps
      <4> QED
        BY <4>1, <4>3, <4>4
    <3> QED
      BY <2>3, <3>1, <3>2
  <2>5. TypeOK'
    BY <1>1, <2>2, <2>4 DEF IInv, TypeOK, DeviceRecords, DeviceStates, ProcStates,
                            CallRecords, WorkerRecords
  <2> QED
    BY <1>1, <1>2, <2>2, <2>4, <2>5, WorkerStep
<1> QED
  BY <1>1, <1>2

\* driver_record_cleared: nobody is left whom the record would have to name.
LEMMA ClearStep ==
    ASSUME IInv, driver_record_cleared
    PROVE  IInv'
<1> DEFINE c == [NoControl EXCEPT !.epoch = worker.copy.epoch, !.mask = worker.copy.mask]
<1>1. /\ UNCHANGED <<sup, dev, procs, call, busy, boot, next_poll_slot, tested>>
      /\ worker.pc = "clear" /\ ctl' = [ctl EXCEPT ![worker.slot] = c]
      /\ worker' = [worker EXCEPT !.pc = IF worker.aborting THEN "isolate" ELSE "verify",
                                  !.copy = NoControl]
  BY DEF driver_record_cleared
<1>2. /\ worker.slot \in Domains /\ worker \in WorkerRecords /\ ctl \in [Domains -> Control]
      /\ NoControl \in Control
  BY <1>1, Types, UserSound DEF IInv, WorkerRecords
<1>3. /\ c \in Control /\ c.pid = 0 /\ c.epoch = worker.copy.epoch
  BY <1>2 DEF WorkerRecords, Control, NoControl
<1> HIDE DEF c
<1>4. ASSUME NEW d \in Domains, d = worker.slot PROVE IInv'
  <2>1. /\ worker.epoch = sup[d].epoch /\ worker.copy.epoch = sup[d].epoch
        /\ DomainInv(d) /\ (worker.aborting => Vacant(d))
        /\ worker.booting => worker.aborting
        /\ ~worker.aborting => /\ sup[d].state \in {"FENCING", "ISOLATED"}
                               /\ AllDead(d) /\ dev[d].owner = 0
        /\ ~Preparing
    BY <1>1, <1>4, FenceFacts DEF FenceSteps, IInv, Serves, FenceInv, InFence, Preparing
  <2>2. /\ worker' \in WorkerRecords /\ worker'.slot = d /\ worker'.epoch = worker.epoch
        /\ worker'.pc = (IF worker.aborting THEN "isolate" ELSE "verify")
        /\ worker'.booting = worker.booting /\ worker'.aborting = worker.aborting
    BY <1>1, <1>2, <1>4 DEF WorkerRecords, WorkerSteps
  <2>3. /\ ctl' \in [Domains -> Control] /\ ctl'[d] = c
        /\ \A e \in Domains : e # d => Same(e)
    BY <1>1, <1>2, <1>3, <1>4 DEF Same
  <2>4. Vacant(d)
    BY <2>1 DEF Vacant, AllDead, Live, DomainInv, DeviceInv, SetUp, Reportable
  <2>5. Ages(d) /\ Last(d)' = Last(d) /\ Vacant(d)'
    BY <1>1, <2>4 DEF Ages, Last, Vacant
  <2>6. ProcessInv(d)'
    BY <1>1, <2>1, <2>5 DEF DomainInv, ProcessInv
  <2>7. RecordInv(d)'
    BY <1>1, <1>3, <2>1, <2>3, <2>5 DEF RecordInv, Names
  <2>8. DeviceInv(d)' /\ CallInv(d)' /\ TestInv(d)'
    BY <1>1, <2>1, <2>5 DEF DomainInv, DeviceInv, CallInv, TestInv, Running
  <2>9. TypeOK'
    BY <1>1, <2>2, <2>3 DEF IInv, TypeOK, WorkerRecords
  <2>10. StartInv(d)' /\ CopyInv(d)' /\ FenceInv(d)'
    BY <1>1, <2>1, <2>2, <2>5 DEF StartInv, CopyInv, FenceInv, FenceSteps, InFence
  <2>11. Serves(worker.slot)'
    BY <1>1, <2>1, <2>2, <2>10 DEF Serves
  <2>12. BootingInv'
    BY <1>1, <1>4, <2>1, <2>2, <2>3, BootingKept
  <2> QED
    BY <1>1, <1>4, <2>3, <2>5, <2>6, <2>7, <2>8, <2>9, <2>11, <2>12, WorkerStep
       DEF DomainInv
<1> QED
  BY <1>2, <1>4

------------------------------------------------------------------------------
(* The boot thread.                                                         *)

\* It reads a record, or goes on: no record becomes stale by that.
LEMMA BootFrame ==
    ASSUME IInv, UNCHANGED <<sup, ctl, dev, procs, call, busy, worker, next_poll_slot, tested>>,
           boot' \in BootRecords,
           \A d \in Domains : \A c : ~Stale(d, c) /\ ~Stale(d, c)',
           ~worker.booting, BootInv'
    PROVE  IInv'
<1>1. TypeOK'
  BY DEF IInv, TypeOK, BootRecords
<1>2. ASSUME NEW d \in Domains
      PROVE  /\ DomainInv(d)' /\ Last(d)' = Last(d) /\ (Vacant(d) <=> Vacant(d)')
             /\ \A c : (Names(d, c) => Names(d, c)') /\ (Cleared(d, c) => Cleared(d, c)')
  <2>1. DomainInv(d) /\ Last(d)' = Last(d) /\ (Vacant(d) <=> Vacant(d)')
    BY DEF IInv, Last, Vacant
  <2>2. \A c : (Names(d, c) => Names(d, c)') /\ (Cleared(d, c) => Cleared(d, c)')
    BY <2>1 DEF Names, Cleared
  <2>3. ProcessInv(d)' /\ DeviceInv(d)'
    BY <2>1 DEF DomainInv, ProcessInv, DeviceInv, Preparing
  <2>4. Names(d, ctl[d].pid)'
    BY <2>1, <2>2 DEF DomainInv, RecordInv
  <2>5. RecordInv(d)'
    BY <2>1, <2>4 DEF DomainInv, RecordInv, Restarting
  <2>6. CallInv(d)' /\ TestInv(d)'
    BY <2>1 DEF DomainInv, CallInv, TestInv, Running
  <2> QED
    BY <2>1, <2>2, <2>3, <2>5, <2>6 DEF DomainInv
<1>3. ASSUME NEW d \in Domains, d = worker.slot PROVE Serves(worker.slot)'
  <2>1. Serves(d) /\ worker' = worker
    BY <1>3 DEF IInv
  <2>2. Cleared(d, ctl[d].pid) => Cleared(d, ctl[d].pid)'
    BY <1>2
  <2>3. Names(d, worker.copy.pid) => Names(d, worker.copy.pid)'
    BY <1>2
  <2>4. StartInv(d)' /\ CopyInv(d)' /\ FenceInv(d)'
    BY <1>2, <2>1, <2>2, <2>3 DEF Serves, StartInv, CopyInv, FenceInv, AllDead
  <2> QED
    BY <1>3, <2>1, <2>4 DEF Serves
<1>4. BootingInv'
  BY DEF IInv, BootingInv
<1>5. worker.slot \in Domains
  BY Types DEF IInv, WorkerRecords
<1> QED
  BY <1>1, <1>2, <1>3, <1>4, <1>5 DEF IInv

\* supervisor_set_device_driver_current_affinity: a driver that is ready has been
\* started, and its record is of the present session.
LEMMA BootReadStep ==
    ASSUME IInv, NEW d \in Domains, supervisor_set_device_driver_current_affinity(d)
    PROVE  IInv'
<1>1. /\ UNCHANGED <<sup, ctl, dev, procs, call, busy, worker, next_poll_slot, tested>>
      /\ ~worker.booting /\ boot.pc = "idle" /\ ctl[d].pid # 0 /\ ~ctl[d].fenced
      /\ boot' = [pc |-> "write", slot |-> d, copy |-> ctl[d], todo |-> boot.todo \ {d}]
  BY DEF supervisor_set_device_driver_current_affinity
<1>2. /\ boot' \in BootRecords /\ boot'.pc = "write" /\ boot'.slot = d /\ boot'.copy = ctl[d]
  BY <1>1, Types DEF IInv, BootRecords
<1>3. \A e \in Domains : \A c : ~Stale(e, c) /\ ~Stale(e, c)'
  BY <1>1, <1>2 DEF Stale
<1>4. DomainInv(d)
  BY DEF IInv
<1>5. ctl[d].pid = Last(d) /\ ctl[d].epoch = sup[d].epoch
  BY <1>1, <1>3, <1>4 DEF DomainInv, RecordInv, Names
<1>6. ctl[d].pid \in DOMAIN procs[d]
  BY <1>1, <1>5, ProcNumbers DEF IInv, Last
<1>7. procs[d][ctl[d].pid] # "prepared"
  BY <1>1, <1>4, <1>6 DEF DomainInv, ProcessInv
<1>8. BootInv'
  BY <1>1, <1>2, <1>5, <1>6, <1>7 DEF BootInv
<1> QED
  BY <1>1, <1>2, <1>3, <1>8, BootFrame

\* process_set_supervised_affinity succeeds: the process on record is alive.
LEMMA BootMoveStep ==
    ASSUME IInv, boot_moves
    PROVE  IInv'
<1>1. /\ UNCHANGED <<sup, ctl, dev, procs, call, busy, worker, next_poll_slot, tested>>
      /\ boot.pc = "move" /\ Movable(boot.slot, boot.copy.pid)
      /\ boot' = [pc |-> "idle", slot |-> 1, copy |-> NoControl, todo |-> boot.todo]
  BY DEF boot_moves
<1>2. /\ boot' \in BootRecords /\ boot'.pc = "idle"
  BY <1>1, Types, PassRecord DEF IInv, BootRecords
<1>3. \A e \in Domains : \A c : ~Stale(e, c) /\ ~Stale(e, c)'
  BY <1>1, <1>2 DEF Stale, Movable, Alive
<1>4. BootInv' /\ ~worker.booting
  BY <1>1, <1>2 DEF BootInv, IInv, BootingInv
<1> QED
  BY <1>1, <1>2, <1>3, <1>4, BootFrame

\* The boot thread writes its copy back: of the newest process if that still lives,
\* or else of a process that is dead, and the record is stale.
LEMMA BootWriteStep ==
    ASSUME IInv, boot_writes
    PROVE  IInv'
<1> DEFINE c == [boot.copy EXCEPT !.mask = TRUE]
           b == [NoControl EXCEPT !.pid = boot.copy.pid]
<1>1. /\ UNCHANGED <<sup, dev, procs, call, busy, worker, next_poll_slot, tested>>
      /\ boot.pc = "write" /\ ctl' = [ctl EXCEPT ![boot.slot] = c]
      /\ boot' = [boot EXCEPT !.pc = "move", !.copy = b]
  BY DEF boot_writes
<1>2. /\ boot \in BootRecords /\ ctl \in [Domains -> Control] /\ NoControl \in Control
  BY Types, UserSound DEF IInv
<1>3. /\ c \in Control /\ c.pid = boot.copy.pid /\ c.epoch = boot.copy.epoch
      /\ b \in Control /\ b.pid = boot.copy.pid /\ boot.slot \in Domains
  BY <1>2 DEF BootRecords, Control
<1> HIDE DEF c, b
<1>4. ~worker.booting
  BY <1>1 DEF IInv, BootingInv
<1>5. ASSUME NEW d \in Domains, d = boot.slot, NEW p, p = boot.copy.pid PROVE IInv'
  <2>1. /\ boot' \in BootRecords /\ boot'.pc = "move" /\ boot'.slot = d /\ boot'.copy.pid = p
    BY <1>1, <1>2, <1>3, <1>5 DEF BootRecords
  <2>2. /\ ctl' \in [Domains -> Control] /\ ctl'[d].pid = p /\ ctl'[d].epoch = boot.copy.epoch
        /\ \A e \in Domains : e # d => ctl'[e] = ctl[e]
    BY <1>1, <1>2, <1>3, <1>5
  <2>3. /\ p \in DOMAIN procs[d] /\ procs[d][p] # "prepared" /\ p # 0 /\ DomainInv(d)
        /\ Alive(d, p) => boot.copy.epoch = sup[d].epoch
    BY <1>1, <1>5, ProcNumbers DEF IInv, BootInv
  <2>4. \/ Stale(d, p)' /\ ~Alive(d, p)
        \/ Alive(d, p) /\ p = Last(d) /\ ctl'[d].epoch = sup'[d].epoch
    BY <1>1, <2>1, <2>2, <2>3 DEF Stale, Alive, DomainInv, ProcessInv
  <2>5. \A e \in Domains : \A n : ~Stale(e, n)
    BY <1>1 DEF Stale
  <2>6. \A e \in Domains : Last(e)' = Last(e) /\ (Vacant(e) <=> Vacant(e)')
                           /\ (AllDead(e) <=> AllDead(e)')
    BY <1>1 DEF Last, Vacant, AllDead
  <2>7. \A e \in Domains : \A n : Names(e, n) => Names(e, n)'
    BY <2>5, <2>6 DEF Names
  <2>8. TypeOK'
    BY <1>1, <2>1, <2>2 DEF IInv, TypeOK, BootRecords
  <2>9. ASSUME NEW e \in Domains PROVE DomainInv(e)'
    <3>1. DomainInv(e)
      BY DEF IInv
    <3>2. CallInv(e)' /\ TestInv(e)' /\ DeviceInv(e)'
      BY <1>1, <2>6, <3>1 DEF DomainInv, CallInv, TestInv, DeviceInv, Running
    <3>3. ProcessInv(e)'
      BY <1>1, <2>2, <2>3, <2>6, <3>1 DEF DomainInv, ProcessInv, Preparing
    <3>4. RecordInv(e)'
      <4>1. CASE e = d
        <5>1. Names(d, ctl[d].pid)'
          BY <2>2, <2>3, <2>4, <2>6 DEF Names, Stale
        <5>2. ctl'[d].epoch = sup'[d].epoch \/ Stale(d, ctl[d].pid)'
          BY <2>2, <2>4 DEF Stale
        <5> QED
          BY <4>1, <5>1, <5>2 DEF RecordInv
      <4>2. CASE e # d
        <5>1. Names(e, ctl[e].pid)'
          BY <2>2, <2>7, <3>1, <4>2 DEF DomainInv, RecordInv, Names, Stale
        <5> QED
          BY <1>1, <2>2, <2>5, <3>1, <4>2, <5>1 DEF DomainInv, RecordInv, Restarting
      <4> QED
        BY <4>1, <4>2
    <3> QED
      BY <3>2, <3>3, <3>4 DEF DomainInv
  <2>10. ASSUME NEW e \in Domains, e = worker.slot PROVE Serves(worker.slot)'
    <3>1. Serves(e) /\ worker' = worker
      BY <1>1, <2>10 DEF IInv
    <3>2. /\ ctl[e].pid # 0 => ctl'[e].pid # 0
          /\ Cleared(e, ctl[e].pid) /\ (Vacant(e) \/ AllDead(e)) => Cleared(e, ctl[e].pid)'
      <4>1. CASE e = d
        <5>1. procs[d][p] \in ProcStates
          BY <2>3, ProcNumbers DEF IInv
        <5>2. Vacant(d) \/ AllDead(d) => ~Alive(d, p)
          BY <2>3, <5>1 DEF Vacant, AllDead, Alive, Live, ProcStates
        <5> QED
          BY <2>2, <2>3, <2>4, <4>1, <5>2 DEF Cleared, Stale
      <4>2. CASE e # d
        BY <2>2, <2>5, <4>2 DEF Cleared, Stale
      <4> QED
        BY <4>1, <4>2
    <3>3. Names(e, worker.copy.pid) => Names(e, worker.copy.pid)'
      BY <2>7, <3>1
    <3>4. StartInv(e)'
      BY <1>1, <2>6, <3>1, <3>2 DEF Serves, StartInv
    <3>5. CopyInv(e)' /\ FenceInv(e)'
      BY <1>1, <2>6, <3>1, <3>2, <3>3 DEF Serves, CopyInv, FenceInv
    <3> QED
      BY <1>1, <2>10, <3>1, <3>4, <3>5 DEF Serves
  <2>11. worker.slot \in Domains
    BY Types DEF IInv, WorkerRecords
  <2>12. BootingInv'
    BY <1>1, <1>4 DEF IInv, BootingInv
  <2>13. BootInv'
    BY <1>1, <2>1, <2>3 DEF BootInv
  <2> QED
    BY <2>8, <2>9, <2>10, <2>11, <2>12, <2>13 DEF IInv
<1> QED
  BY <1>3, <1>5

------------------------------------------------------------------------------
(* The theorems.                                                            *)

\* Before the first driver.
LEMMA InitKeeps == Init => IInv
<1> SUFFICES ASSUME Init PROVE IInv
  OBVIOUS
<1>1. 1 \in Domains /\ NoControl \in Control
  BY PassRecord
<1>2. TypeOK
  <2>1. << >> \in Seq(ProcStates) /\ InUser \in CallRecords
    BY <1>1 DEF InUser, CallRecords
  <2>2. /\ sup \in [Domains -> SupRecords] /\ dev \in [Domains -> DeviceRecords]
        /\ worker \in WorkerRecords /\ boot \in BootRecords
    BY <1>1 DEF Init, SupRecords, DeviceRecords, DeviceStates, WorkerRecords, WorkerSteps,
                States, BootRecords
  <2> QED
    BY <1>1, <2>1, <2>2 DEF Init, TypeOK, SupRecords, DeviceRecords, DeviceStates,
                            WorkerRecords, BootRecords, CallRecords, ProcStates
<1>3. ASSUME NEW d \in Domains PROVE DomainInv(d) /\ Unstarted(d)
  <2>1. /\ procs[d] = << >> /\ DOMAIN procs[d] = {} /\ ctl[d] = NoControl /\ NoControl.pid = 0
        /\ NoControl.epoch = 0 /\ sup[d].epoch = 0 /\ call[d].pc = "user"
        /\ dev[d] = [state |-> "AVAILABLE", owner |-> 0]
    BY <1>2, ProcNumbers DEF Init, NoControl, InUser
  <2>2. Vacant(d)
    BY <2>1 DEF Vacant, SetUp
  <2>3. ProcessInv(d) /\ DeviceInv(d) /\ RecordInv(d)
    BY <2>1, <2>2 DEF ProcessInv, DeviceInv, RecordInv, Names, SetUp
  <2>4. CallInv(d) /\ TestInv(d)
    BY <2>1 DEF CallInv, TestInv
  <2> QED
    BY <2>1, <2>3, <2>4 DEF DomainInv, Unstarted
<1>4. /\ worker.pc = "boot" /\ worker.epoch = 1 /\ worker.booting /\ ~worker.aborting
      /\ boot.pc = "idle"
  BY DEF Init
<1>5. Serves(worker.slot)
  BY <1>4 DEF Serves, StartInv, CopyInv, FenceInv, FenceSteps, InFence, OutsideFence
<1>6. BootingInv /\ BootInv
  BY <1>3, <1>4 DEF BootingInv, BootInv
<1> QED
  BY <1>2, <1>3, <1>5, <1>6 DEF IInv

\* Nothing happens.
LEMMA StutterKeeps ==
    ASSUME IInv, UNCHANGED vars
    PROVE  IInv'
<1>1. UNCHANGED <<sup, ctl, dev, procs, call, busy, worker, boot, next_poll_slot, tested>>
  BY DEF vars
<1>2. \A e \in Domains : Same(e) /\ Settles(e) /\ Carries(e)
  BY <1>1 DEF Same, Settles, Carries, Preparing, Restarting
<1>3. /\ sup' \in [Domains -> SupRecords] /\ worker' \in WorkerRecords
      /\ next_poll_slot' \in Domains /\ worker.slot \in Domains
  BY <1>1, Types DEF IInv, WorkerRecords
<1>4. Serves(worker.slot)'
  BY <1>1, <1>2, <1>3, SameServed
<1>5. BootingInv'
  BY <1>1 DEF IInv, BootingInv, Unstarted
<1> QED
  BY <1>1, <1>2, <1>3, <1>4, <1>5, Decision

\* Every step keeps the invariant.
LEMMA NextKeeps == IInv /\ [Next]_vars => IInv'
<1> SUFFICES ASSUME IInv, [Next]_vars PROVE IInv'
  OBVIOUS
<1>1. CASE Kernel
  BY <1>1, RegisterStep, SpawnStep, PrepareStep, PublishStep, StartStep, IsolateStep,
     DevicePollStep, MonitorStep, PollStep, FenceStep, LookStep, TerminateStep,
     DeviceFenceStep, RecoverStep, ClearStep, DecideStep, EventStep, SessionStep DEF Kernel
<1>2. CASE Boot
  BY <1>2, BootReadStep, BootWriteStep, BootMoveStep DEF Boot
<1>3. ASSUME NEW d \in Domains, InKernel(d) PROVE IInv'
  BY <1>3, ExitedStep, BeginStep, OperationStep, ChannelStep, ReportMoves, HealthStep,
     WriteStep DEF InKernel
<1>4. ASSUME NEW d \in Domains, Driver(d) PROVE IInv'
  BY <1>4, ExitStep, ControlStep, ReportStep DEF Driver
<1>5. CASE supervisor_clock_tick \/ \E d \in Domains : deadline_passes(d)
  BY <1>5, ClockStep
<1>6. CASE UNCHANGED vars
  BY <1>6, StutterKeeps
<1> QED
  BY <1>1, <1>2, <1>3, <1>4, <1>5, <1>6 DEF Next

\* The inductive invariant, for any number of domains and any restart budgets.
THEOREM SupervisorInvariant == Spec => []IInv
BY InitKeeps, NextKeeps, PTL DEF Spec

\* Types: supervisor_state_t, supervisor_driver_control_t, device_slot_t and the
\* position of supervisor_worker, its walk over the domains included.
THEOREM SupervisorTypes == Spec => []TypeOK
<1>1. IInv => TypeOK
  BY DEF IInv
<1> QED
  BY <1>1, SupervisorInvariant, PTL

\* driver_spawn_next, driver_fence_until and the exits: nothing drives a device off
\* the record, until the boot thread has written an old record back and panics.
THEOREM DriversOnRecord == Spec => []DriverOnRecord
<1>1. IInv => DriverOnRecord
  <2> SUFFICES ASSUME IInv, NEW d \in Domains, ~Overwritten(d)
               PROVE  /\ \A p \in DOMAIN procs[d] : procs[d][p] = "running" => ctl[d].pid = p
                      /\ dev[d].state \in {"DMA_BOUND", "ACTIVE"} => dev[d].owner = ctl[d].pid
    BY DEF DriverOnRecord
  <2>1. ~Stale(d, ctl[d].pid) /\ DomainInv(d)
    BY DEF Overwritten, Stale, IInv
  <2>2. \A p \in DOMAIN procs[d] : procs[d][p] = "running" => ctl[d].pid = p
    BY <2>1, LiveProcess DEF Live
  <2> QED
    BY <2>1, <2>2 DEF DomainInv, DeviceInv, RecordInv, Names, Vacant, SetUp
<1> QED
  BY <1>1, SupervisorInvariant, PTL

\* supervisor_report_self_test and supervisor_report_progress: no restarted driver
\* has output authority, or an active device, by the self-test of another one.
THEOREM TestedBeforeAuthority == Spec => []RestartedIsTested
<1>1. IInv => RestartedIsTested
  BY DEF IInv, DomainInv, TestInv, RestartedIsTested, OutputAllowed, SessionHealthy,
         Reportable, Running, Live
<1> QED
  BY <1>1, SupervisorInvariant, PTL

\* supervisor_device_driver_report: the copy it writes back, after being preempted for
\* any time, is of the process and session on record, whatever the worker and the boot
\* thread have written meanwhile, until the boot thread's own write-back makes it panic.
THEOREM ReportsOverwriteNothing == Spec => []ReportCopyCurrent
<1>1. IInv => ReportCopyCurrent
  <2> SUFFICES ASSUME IInv, NEW d \in Domains,
                      call[d].pc \in {"call", "write", "move", "fail"}, ~Overwritten(d)
               PROVE  call[d].snap.pid = ctl[d].pid /\ call[d].snap.epoch = ctl[d].epoch
    BY DEF ReportCopyCurrent
  <2>1. ~Stale(d, ctl[d].pid)
    BY DEF Overwritten, Stale
  <2>2. /\ Running(d, call[d].pid) /\ call[d].snap.pid = call[d].pid
        /\ call[d].snap.epoch = sup[d].epoch
    BY DEF IInv, DomainInv, CallInv
  <2>3. ctl[d].pid = call[d].pid /\ ctl[d].epoch = sup[d].epoch
    BY <2>1, <2>2, LiveProcess DEF Running, Live
  <2> QED
    BY <2>2, <2>3
<1> QED
  BY <1>1, SupervisorInvariant, PTL

\* A new session of a running domain is the next one, and is granted only when no
\* process of the domain is alive and its device is free.
RestartsClean ==
    \A d \in Domains :
        sup[d].epoch # 0 /\ sup'[d].epoch # sup[d].epoch =>
            /\ sup'[d].epoch = sup[d].epoch + 1
            /\ AllDead(d) /\ dev[d] = [state |-> "AVAILABLE", owner |-> 0]

\* Only supervisor_start_device_driver and fence_decides change a session.
LEMMA EpochSteps ==
    ASSUME IInv, [Next]_vars, NEW d \in Domains, sup'[d].epoch # sup[d].epoch
    PROVE  d = worker.slot /\ (supervisor_start_device_driver \/ fence_decides)
<1>0. sup \in [Domains -> SupRecords]
  BY Types DEF IInv
<1>1. ASSUME NEW e, sup'[d] = Isolate(sup[d], e) \/ sup'[d] = CheckDeadline(sup[d])
      PROVE  FALSE
  BY <1>0, <1>1, IsolateMoves
<1>2. CASE supervisor_start_device_driver
  BY <1>0, <1>2 DEF supervisor_start_device_driver
<1>3. CASE fence_decides
  <2>1. d # worker.slot => sup'[d] = sup[d]
    BY <1>0, <1>3 DEF fence_decides
  <2> QED
    BY <1>3, <2>1
<1>4. ASSUME NEW e \in Domains, InKernel(e) \/ Driver(e) \/ deadline_passes(e)
      PROVE  FALSE
  <2>1. CASE report_self_test(e) \/ report_progress(e) \/ deadline_passes(e)
    BY <1>0, <2>1 DEF report_self_test, report_progress, deadline_passes, SupRecords
  <2>2. CASE report_fails(e)
    <3>1. sup'[d] = sup[d] \/ sup'[d] = Isolate(sup[d], call[e].snap.epoch)
      BY <1>0, <2>2 DEF report_fails
    <3> QED
      BY <1>1, <3>1
  <2>3. CASE sup' = sup
    BY <2>3
  <2> QED
    BY <1>4, <2>1, <2>2, <2>3 DEF InKernel, Driver, driver_exited, begin_operation,
       end_operation, report_startup_progress, report_channel, report_writes, report_moves,
       driver_exits, device_control, supervisor_device_driver_report
<1>5. CASE supervisor_clock_tick \/ supervisor_poll
  BY <1>1, <1>5 DEF supervisor_clock_tick, supervisor_poll
<1>6. CASE driver_monitor_processes
  BY <1>1, <1>6 DEF driver_monitor_processes
<1>7. CASE start_isolates
  <2>1. sup'[d] = sup[d] \/ sup'[d] = Isolate(sup[d], worker.epoch)
    BY <1>0, <1>7 DEF start_isolates
  <2> QED
    BY <1>1, <2>1
<1>8. CASE supervisor_apply_fence
  BY <1>0, <1>8 DEF supervisor_apply_fence, SupRecords
<1>9. CASE \/ driver_spawn_next \/ driver_prepares \/ driver_publishes \/ driver_starts
           \/ device_domain_poll \/ device_domain_fence \/ device_domain_recover_owner
           \/ driver_record_cleared \/ driver_fence_verify \/ driver_service_event
           \/ driver_session_written \/ Boot
           \/ \E ok \in BOOLEAN : driver_fence_until(ok) \/ process_terminate(ok)
           \/ UNCHANGED vars
  BY <1>9 DEF driver_spawn_next, driver_prepares, driver_publishes, driver_starts, vars,
              device_domain_poll, device_domain_fence, device_domain_recover_owner,
              driver_record_cleared, driver_fence_verify, driver_service_event,
              driver_session_written, driver_fence_until, process_terminate, Boot,
              supervisor_set_device_driver_current_affinity, boot_writes, boot_moves
<1> QED
  BY <1>2, <1>3, <1>4, <1>5, <1>6, <1>7, <1>8, <1>9 DEF Next, Kernel

\* supervisor_apply_fence: two generations of a driver never overlap.
THEOREM GenerationsNeverOverlap == Spec => [][RestartsClean]_vars
<1>1. IInv /\ [Next]_vars => RestartsClean
  <2> SUFFICES ASSUME IInv, [Next]_vars, NEW d \in Domains,
                      sup[d].epoch # 0, sup'[d].epoch # sup[d].epoch
               PROVE  /\ sup'[d].epoch = sup[d].epoch + 1
                      /\ AllDead(d) /\ dev[d] = [state |-> "AVAILABLE", owner |-> 0]
    BY DEF RestartsClean
  <2>1. d = worker.slot /\ (supervisor_start_device_driver \/ fence_decides)
    BY EpochSteps
  <2>2. ~supervisor_start_device_driver
    BY <2>1 DEF supervisor_start_device_driver, Step, IInv, BootingInv, Unstarted
  <2>3. worker.pc = "decide" /\ worker.ok /\ sup'[d].epoch = sup[d].epoch + 1
    <3> DEFINE r == [state |-> "RECOVERING", epoch |-> sup[d].epoch + 1,
                     restart_count |-> sup[d].restart_count + 1, overdue |-> FALSE]
    <3>1. /\ worker.pc = "decide"
          /\ \/ sup' = sup
             \/ sup' = [sup EXCEPT ![d].state = "SAFE_STATE"]
             \/ worker.ok /\ sup' = [sup EXCEPT ![d] = r]
      BY <2>1, <2>2 DEF fence_decides
    <3>2. r.epoch = sup[d].epoch + 1 /\ sup \in [Domains -> SupRecords]
      BY Types DEF IInv
    <3> HIDE DEF r
    <3>3. sup' # sup /\ sup' # [sup EXCEPT ![d].state = "SAFE_STATE"]
      BY <3>2 DEF SupRecords
    <3> QED
      BY <3>1, <3>2, <3>3
  <2>4. ~worker.aborting
    BY <2>3, IdleFacts
  <2>5. AllDead(d) /\ dev[d].owner = 0 /\ dev[d].state = "AVAILABLE"
        /\ dev[d] \in DeviceRecords
    BY <2>1, <2>3, <2>4, Types DEF IInv, Serves, FenceInv, InFence, DomainInv, DeviceInv
  <2>6. dev[d] = [state |-> "AVAILABLE", owner |-> 0]
    BY <2>5 DEF DeviceRecords
  <2> QED
    BY <2>3, <2>5, <2>6
<1> QED
  BY <1>1, SupervisorInvariant, PTL DEF Spec
=============================================================================
