--------------------------------- MODULE Ipc ---------------------------------
(***************************************************************************)
(* The capability-protected IPC endpoints of kernel/ipc/ipc.c: creation,   *)
(* delegation, release and revocation of endpoints, the bounded message    *)
(* queue and the one-entry bulk slot, callers that sleep on the endpoint's *)
(* two wait queues with a deadline, the trusted ingress of the kernel, and *)
(* the teardown that a process exit or kill runs.                          *)
(*                                                                         *)
(* Every action is one section under ipc_state_lock.  A caller that finds  *)
(* nothing to do is queued and releases the lock in one step               *)
(* (wait_queue_block_until_spinlocked); when it is woken it starts its     *)
(* loop again and resolves its capability again.  A call that returns      *)
(* without any effect at its first attempt (a bad handle, EAGAIN of        *)
(* timeout 0, EPIPE, ENOSPC) changes no state and is not an action.        *)
(*                                                                         *)
(* A process identity is a pid with its generation and is never reused.    *)
(* A process runs one task, so it makes one call at a time.                *)
(***************************************************************************)
EXTENDS Naturals, Sequences, FiniteSets

CONSTANTS
    Procs,          \* process identities (pid, generation)
    Creators,       \* bound: the processes that create endpoints
    Grants,         \* bound: the sets of rights syscall 55 hands on
    Kernel,         \* the reserved sender identity (0, 0)
    NoProc,         \* an empty bulk slot, an endpoint that never had an owner
    NumSlots,       \* IPC_MAX_ENDPOINTS
    MaxGeneration,  \* IPC_HANDLE_GENERATION_MAX
    QueueDepth,     \* IPC_QUEUE_DEPTH
    MaxRecords,     \* IPC_MAX_CAPABILITY_RECORDS
    MaxLocal,       \* IPC_MAX_CAPABILITIES_PER_PROCESS
    MaxExits        \* bound: how many processes may terminate

ASSUME IpcAssumption ==
    /\ NumSlots \in Nat \ {0} /\ MaxGeneration \in Nat \ {0}
    /\ QueueDepth \in Nat \ {0}
    /\ MaxRecords \in Nat /\ MaxLocal \in Nat /\ MaxExits \in Nat
    /\ Creators \subseteq Procs
    /\ Grants \subseteq SUBSET {"SEND", "RECEIVE"}
    /\ NoProc \notin Procs /\ Kernel \notin Procs /\ Kernel # NoProc

Slots == 1..NumSlots

(* A handle encodes the endpoint slot and its generation; generation 0 is  *)
(* never valid.                                                            *)
Handles == Slots \X (1..MaxGeneration)

NoHandle == <<0, 0>>

AllRights == {"SEND", "RECEIVE", "CONTROL"}

Delegable == {"SEND", "RECEIVE"}

Records == [handle : Handles, holder : Procs, rights : (SUBSET AllRights) \ {{}}]

SendOps == {"send", "send_bulk"}
RecvOps == {"receive", "receive_bulk"}

Endpoints == [active : BOOLEAN, retired : BOOLEAN, gen : 0..MaxGeneration,
              owner : Procs \cup {NoProc}, peerSeen : BOOLEAN,
              peerCaps : {0, 1}, queue : Seq(Procs \cup {Kernel}),
              bulk : Procs \cup {NoProc}]

Idle == [op |-> "none", handle |-> NoHandle, phase |-> "idle",
         expired |-> FALSE]

Calls == {Idle} \cup [op : SendOps \cup RecvOps, handle : Handles,
                      phase : {"wait", "run"}, expired : BOOLEAN]

VARIABLES
    ep,      \* ipc_endpoints
    rec,     \* the active entries of ipc_capability_records
    local,   \* Process.ipc_capabilities: the handles a process may name
    sendq,   \* send_waiters of each endpoint slot, first in line first
    recvq,   \* receive_waiters of each endpoint slot
    call,    \* the send or receive call a process sleeps in or was woken from
    life,    \* progress of the process from running to exited
    misled   \* history: slots where a wakeup went to a peer that cannot use it

vars == <<ep, rec, local, sendq, recvq, call, life, misled>>

EmptyEndpoint == [active |-> FALSE, retired |-> FALSE, gen |-> 0,
                  owner |-> NoProc, peerSeen |-> FALSE, peerCaps |-> 0,
                  queue |-> <<>>, bulk |-> NoProc]

Init ==
    /\ ep = [s \in Slots |-> EmptyEndpoint]
    /\ rec = {}
    /\ local = [p \in Procs |-> {}]
    /\ sendq = [s \in Slots |-> <<>>]
    /\ recvq = [s \in Slots |-> <<>>]
    /\ call = [p \in Procs |-> Idle]
    /\ life = [p \in Procs |-> "running"]
    /\ misled = {}

-----------------------------------------------------------------------------
(* Capabilities *)

Handle(s) == <<s, ep[s].gen>>

(* Process.is_running stays set through the whole teardown and is cleared  *)
(* by its last step.                                                       *)
IsRunning(p) == life[p] # "exited"

Elements(q) == {q[i] : i \in DOMAIN q}

(* Two independent records agree: the handle in the process's own table    *)
(* and a global record bound to its identity, on an endpoint of the same   *)
(* generation.                                                             *)
Resolves(p, h, rights) ==
    /\ IsRunning(p)
    /\ h \in local[p]
    /\ \E r \in rec : r.handle = h /\ r.holder = p /\ rights \subseteq r.rights
    /\ ep[h[1]].active /\ ep[h[1]].gen = h[2]

IsPeerRecord(r, s) == r.handle[1] = s /\ "CONTROL" \notin r.rights

PeerGone(s) == ep[s].peerSeen /\ ep[s].peerCaps = 0

Revoked(e) == [e EXCEPT !.active = FALSE, !.peerCaps = 0, !.queue = <<>>,
                        !.bulk = NoProc]

(* Both wait queues of every slot in W are emptied and the sleepers become *)
(* runnable (wait_queue_wake_all_locked).                                  *)
WakeAll(W) ==
    LET woken == {p \in Procs : \E s \in W : p \in Elements(sendq[s])
                                              \/ p \in Elements(recvq[s])}
    IN  /\ sendq' = [s \in Slots |-> IF s \in W THEN <<>> ELSE sendq[s]]
        /\ recvq' = [s \in Slots |-> IF s \in W THEN <<>> ELSE recvq[s]]
        /\ call' = [p \in Procs |-> IF p \in woken
                                    THEN [call[p] EXCEPT !.phase = "run"]
                                    ELSE call[p]]

(* Mutant of Drop: the released peer stays counted.                        *)
DropKeepsPeerCount(gone, dead) ==
    /\ rec' = rec \ gone
    /\ local' = [p \in Procs |->
                   local[p] \ {r.handle : r \in {g \in gone : g.holder = p}}]
    /\ ep' = [s \in Slots |-> IF s \in dead THEN Revoked(ep[s]) ELSE ep[s]]

(* The records in gone are cleared: each leaves the table of its holder,   *)
(* and a peer's record leaves the peer count of an endpoint that stays     *)
(* active.  The endpoints in dead are revoked with them.                   *)
Drop(gone, dead) ==
    /\ rec' = rec \ gone
    /\ local' = [p \in Procs |->
                   local[p] \ {r.handle : r \in {g \in gone : g.holder = p}}]
    /\ ep' = [s \in Slots |->
                IF s \in dead THEN Revoked(ep[s])
                ELSE IF \E r \in gone : IsPeerRecord(r, s)
                     THEN [ep[s] EXCEPT !.peerCaps = 0]
                     ELSE ep[s]]

RecordsOf(S) == {r \in rec : \E s \in S : r.handle = Handle(s)}

-----------------------------------------------------------------------------
(* Endpoints and their capabilities *)

Free(s) == ~ep[s].active /\ ~ep[s].retired

Exhausted(s) == Free(s) /\ ep[s].gen >= MaxGeneration

Usable(s) == Free(s) /\ ep[s].gen < MaxGeneration

Opened(s, p) == [EmptyEndpoint EXCEPT !.active = TRUE, !.owner = p,
                                      !.gen = ep[s].gen + 1]

(* The first usable slot takes the next generation; every exhausted free   *)
(* slot the scan passes is retired for good.                               *)
ipc_create(p) ==
    /\ p \in Creators /\ life[p] = "running" /\ call[p] = Idle
    /\ Cardinality(rec) < MaxRecords /\ Cardinality(local[p]) < MaxLocal
    /\ \E s \in Slots :
         /\ Usable(s) /\ \A t \in 1..(s - 1) : ~Usable(t)
         /\ ep' = [t \in Slots |->
                     IF t = s THEN Opened(s, p)
                     ELSE IF t < s /\ Exhausted(t)
                          THEN [ep[t] EXCEPT !.retired = TRUE]
                          ELSE ep[t]]
         /\ rec' = rec \cup {[handle |-> <<s, ep[s].gen + 1>>, holder |-> p,
                              rights |-> AllRights]}
         /\ local' = [local EXCEPT ![p] = @ \cup {<<s, ep[s].gen + 1>>}]
         /\ sendq' = [sendq EXCEPT ![s] = <<>>]
         /\ recvq' = [recvq EXCEPT ![s] = <<>>]
         /\ misled' = misled \ {s}
    /\ UNCHANGED <<call, life>>

(* ENOSPC: the scan finds no usable slot but retires the exhausted ones.   *)
ipc_create_full(p) ==
    /\ p \in Creators /\ life[p] = "running" /\ call[p] = Idle
    /\ Cardinality(rec) < MaxRecords /\ Cardinality(local[p]) < MaxLocal
    /\ \A s \in Slots : ~Usable(s)
    /\ \E s \in Slots : Exhausted(s)
    /\ ep' = [s \in Slots |-> IF Exhausted(s)
                              THEN [ep[s] EXCEPT !.retired = TRUE] ELSE ep[s]]
    /\ UNCHANGED <<rec, local, sendq, recvq, call, life, misled>>

(* The target is found in the process table by is_running alone.           *)
ipc_delegate(src, h, dst, rights) ==
    /\ src # dst /\ rights # {}
    /\ IsRunning(dst)
    /\ Resolves(src, h, rights)
    /\ ep[h[1]].peerCaps = 0 /\ h \notin local[dst]
    /\ Cardinality(local[dst]) < MaxLocal /\ Cardinality(rec) < MaxRecords
    /\ rec' = rec \cup {[handle |-> h, holder |-> dst, rights |-> rights]}
    /\ local' = [local EXCEPT ![dst] = @ \cup {h}]
    /\ ep' = [ep EXCEPT ![h[1]] = [@ EXCEPT !.peerSeen = TRUE, !.peerCaps = 1]]
    /\ UNCHANGED <<sendq, recvq, call, life, misled>>

(* Syscall 55: the holder delegates to a pid of its choice.                *)
process_ipc_delegate(src, h, dst, rights) ==
    /\ life[src] = "running" /\ call[src] = Idle
    /\ ipc_delegate(src, h, dst, rights)

(* A service connection: the client's own call makes the supervisor        *)
(* delegate the service's endpoint to it; the service may sleep meanwhile. *)
process_ipc_delegate_identity(src, h, dst) ==
    /\ life[dst] = "running" /\ call[dst] = Idle
    /\ ipc_delegate(src, h, dst, Delegable)

(* Mutant of ipc_release: the owner's sleepers are not woken.              *)
ReleaseSilently(p, h) ==
    /\ life[p] = "running" /\ call[p] = Idle
    /\ Resolves(p, h, {}) /\ ep[h[1]].owner # p
    /\ Drop({r \in rec : r.handle = h /\ r.holder = p}, {})
    /\ UNCHANGED <<sendq, recvq, call, life, misled>>

(* Only a peer may release; both wait queues are woken so that the owner   *)
(* sees the closed channel.                                                *)
ipc_release(p, h) ==
    /\ life[p] = "running" /\ call[p] = Idle
    /\ Resolves(p, h, {}) /\ ep[h[1]].owner # p
    /\ Drop({r \in rec : r.handle = h /\ r.holder = p}, {})
    /\ WakeAll({h[1]})
    /\ UNCHANGED <<life, misled>>

ipc_close(p, h) ==
    /\ life[p] = "running" /\ call[p] = Idle
    /\ Resolves(p, h, {"CONTROL"}) /\ ep[h[1]].owner = p
    /\ Drop(RecordsOf({h[1]}), {h[1]})
    /\ WakeAll({h[1]})
    /\ UNCHANGED <<life, misled>>

(* Any operation that finds the protected data of an active endpoint or of *)
(* one of its messages unusable in both copies withdraws the endpoint and  *)
(* every record on its slot.                                               *)
quarantine_endpoint(s) ==
    /\ ep[s].active
    /\ Drop({r \in rec : r.handle[1] = s}, {s})
    /\ WakeAll({s})
    /\ UNCHANGED <<life, misled>>

-----------------------------------------------------------------------------
(* Messages *)

(* p runs an iteration of a send or receive loop on handle h: its first,   *)
(* or one after it was woken.                                              *)
Iterates(p, op, h) ==
    /\ life[p] = "running"
    /\ \/ call[p] = Idle
       \/ call[p].phase = "run" /\ call[p].op = op /\ call[p].handle = h

(* Mutant of HasRoom: the capacity check is off by one.                    *)
HasRoomOffByOne(s, op) == IF op = "send" THEN Len(ep[s].queue) <= QueueDepth
                                         ELSE ep[s].bulk = NoProc

HasRoom(s, op) == IF op = "send" THEN Len(ep[s].queue) < QueueDepth
                                 ELSE ep[s].bulk = NoProc

(* The first waiter of queue q becomes runnable, if there is one.          *)
Woken(c, q) == IF q = <<>> THEN c ELSE [c EXCEPT ![Head(q)].phase = "run"]

Rest(q) == IF q = <<>> THEN q ELSE Tail(q)

Enqueued(e, op, m) == IF op = "send" THEN [e EXCEPT !.queue = Append(@, m)]
                                     ELSE [e EXCEPT !.bulk = m]

send_completes(p, op, h) ==
    LET s == h[1] IN
    /\ Iterates(p, op, h) /\ Resolves(p, h, {"SEND"}) /\ ~PeerGone(s)
    /\ HasRoom(s, op)
    /\ ep' = [ep EXCEPT ![s] = Enqueued(@, op, p)]
    /\ call' = Woken([call EXCEPT ![p] = Idle], recvq[s])
    /\ recvq' = [recvq EXCEPT ![s] = Rest(@)]
    /\ UNCHANGED <<rec, local, sendq, life, misled>>

Sleeping(p, op, h) == [call EXCEPT ![p] = [op |-> op, handle |-> h,
                                           phase |-> "wait", expired |-> FALSE]]

send_blocks(p, op, h) ==
    LET s == h[1] IN
    /\ Iterates(p, op, h) /\ Resolves(p, h, {"SEND"}) /\ ~PeerGone(s)
    /\ ~HasRoom(s, op) /\ ~call[p].expired
    /\ call' = Sleeping(p, op, h)
    /\ sendq' = [sendq EXCEPT ![s] = Append(@, p)]
    /\ UNCHANGED <<ep, rec, local, recvq, life, misled>>

(* The queue positions p may take: it never receives what carries its own  *)
(* identity.                                                               *)
Receivable(s, p) == {i \in DOMAIN ep[s].queue : ep[s].queue[i] # p}

BulkReceivable(s, p, op) ==
    op = "receive_bulk" /\ ep[s].bulk # NoProc /\ ep[s].bulk # p

Without(q, i) == [j \in 1..(Len(q) - 1) |-> IF j < i THEN q[j] ELSE q[j + 1]]

(* The endpoint after p took the first message it may take; the bulk slot  *)
(* is looked at only when no queued message is receivable.                 *)
Taken(s, p) ==
    IF Receivable(s, p) # {}
    THEN LET i == CHOOSE i \in Receivable(s, p) :
                    \A j \in Receivable(s, p) : i <= j
         IN [ep[s] EXCEPT !.queue = Without(@, i)]
    ELSE [ep[s] EXCEPT !.bulk = NoProc]

(* Mutant of receive_completes: the freed place wakes nobody.              *)
ReceiveWakesNobody(p, op, h) ==
    LET s == h[1] IN
    /\ Iterates(p, op, h) /\ Resolves(p, h, {"RECEIVE"})
    /\ Receivable(s, p) # {} \/ BulkReceivable(s, p, op)
    /\ ep' = [ep EXCEPT ![s] = Taken(s, p)]
    /\ call' = [call EXCEPT ![p] = Idle]
    /\ UNCHANGED <<rec, local, sendq, recvq, life, misled>>

receive_completes(p, op, h) ==
    LET s == h[1] IN
    /\ Iterates(p, op, h) /\ Resolves(p, h, {"RECEIVE"})
    /\ Receivable(s, p) # {} \/ BulkReceivable(s, p, op)
    /\ ep' = [ep EXCEPT ![s] = Taken(s, p)]
    /\ call' = Woken([call EXCEPT ![p] = Idle], sendq[s])
    /\ sendq' = [sendq EXCEPT ![s] = Rest(@)]
    /\ UNCHANGED <<rec, local, recvq, life, misled>>

receive_blocks(p, op, h) ==
    LET s == h[1] IN
    /\ Iterates(p, op, h) /\ Resolves(p, h, {"RECEIVE"})
    /\ Receivable(s, p) = {} /\ ~BulkReceivable(s, p, op)
    /\ ~PeerGone(s) /\ ~call[p].expired
    /\ call' = Sleeping(p, op, h)
    /\ recvq' = [recvq EXCEPT ![s] = Append(@, p)]
    /\ UNCHANGED <<ep, rec, local, sendq, life, misled>>

(* A woken call whose capability is gone (EBADF), whose peer is gone       *)
(* (EPIPE), or that still cannot proceed after its deadline (ETIMEDOUT),   *)
(* returns.                                                                *)
woken_call_fails(p) ==
    LET c == call[p]  s == c.handle[1]  send == c.op \in SendOps
        ready == IF send THEN HasRoom(s, c.op)
                 ELSE Receivable(s, p) # {} \/ BulkReceivable(s, p, c.op)
    IN  /\ life[p] = "running" /\ c.phase = "run"
        /\ \/ ~Resolves(p, c.handle, IF send THEN {"SEND"} ELSE {"RECEIVE"})
           \/ PeerGone(s) /\ (send \/ ~ready)
           \/ ~ready /\ c.expired
        /\ call' = [call EXCEPT ![p] = Idle]
        /\ UNCHANGED <<ep, rec, local, sendq, recvq, life, misled>>

(* The deadline passes between the wakeup of a call and its next look at   *)
(* the endpoint.                                                           *)
deadline_passes(p) ==
    /\ call[p].phase = "run" /\ ~call[p].expired
    /\ call' = [call EXCEPT ![p].expired = TRUE]
    /\ UNCHANGED <<ep, rec, local, sendq, recvq, life, misled>>

(* wait_queue_remove_locked: a sleeper has one link.                       *)
Unlinked(q, p) == IF p \in Elements(q)
                  THEN Without(q, CHOOSE i \in DOMAIN q : q[i] = p) ELSE q

(* Mutant of timer_wakes: the scan overlooks senders.                      *)
TimerSkipsSenders(p) ==
    LET s == call[p].handle[1] IN
    /\ call[p].phase = "wait" /\ call[p].op \in RecvOps
    /\ recvq' = [recvq EXCEPT ![s] = Unlinked(@, p)]
    /\ call' = [call EXCEPT ![p] = Idle]
    /\ UNCHANGED <<ep, rec, local, sendq, life, misled>>

(* The deadline of a sleeper passes and the timer scan unlinks it; its     *)
(* call returns ETIMEDOUT.  (A sleeper woken between the two is one whose  *)
(* deadline passes just after it was woken.)                               *)
timer_wakes(p) ==
    LET s == call[p].handle[1] IN
    /\ call[p].phase = "wait"
    /\ sendq' = [sendq EXCEPT ![s] = Unlinked(@, p)]
    /\ recvq' = [recvq EXCEPT ![s] = Unlinked(@, p)]
    /\ call' = [call EXCEPT ![p] = Idle]
    /\ UNCHANGED <<ep, rec, local, life, misled>>

(* A queued message is the sender identity it carries.  Nonblocking        *)
(* ingress from kernel code carries the identity of the live peer, or the  *)
(* reserved kernel identity.                                               *)
Ingress(s, m) ==
    /\ ep[s].active /\ HasRoom(s, "send")
    /\ ep' = [ep EXCEPT ![s] = Enqueued(@, "send", m)]
    /\ call' = Woken(call, recvq[s])
    /\ recvq' = [recvq EXCEPT ![s] = Rest(@)]
    /\ misled' = IF recvq[s] # <<>> /\ Head(recvq[s]) = m
                 THEN misled \cup {s} ELSE misled
    /\ UNCHANGED <<rec, local, sendq, life>>

ipc_send_external_from_peer(s) ==
    \E r \in rec : /\ IsPeerRecord(r, s) /\ IsRunning(r.holder)
                   /\ Ingress(s, r.holder)

ipc_send_kernel_to_owner(s) == Ingress(s, Kernel)

-----------------------------------------------------------------------------
(* Process exit *)

(* The process leaves by itself (process_begin_exit) or is killed while    *)
(* its task is off every processor: a sleeper is unlinked first, and the   *)
(* call it was in never returns.                                           *)
process_terminates(p) ==
    /\ life[p] = "running"
    /\ Cardinality({q \in Procs : life[q] # "running"}) < MaxExits
    /\ life' = [life EXCEPT ![p] = "terminating"]
    /\ sendq' = [s \in Slots |-> Unlinked(sendq[s], p)]
    /\ recvq' = [s \in Slots |-> Unlinked(recvq[s], p)]
    /\ call' = [call EXCEPT ![p] = Idle]
    /\ UNCHANGED <<ep, rec, local, misled>>

(* The one call of ipc_process_cleanup: the process's endpoints are        *)
(* revoked and its remaining records cleared, with everybody on the        *)
(* touched slots woken.                                                    *)
ipc_process_cleanup(p) ==
    LET dead == {s \in Slots : ep[s].active /\ ep[s].owner = p}
        gone == RecordsOf(dead) \cup {r \in rec : r.holder = p}
    IN  /\ life[p] = "terminating"
        /\ life' = [life EXCEPT ![p] = "cleaned"]
        /\ Drop(gone, dead)
        /\ WakeAll(dead \cup {r.handle[1] : r \in gone})
        /\ UNCHANGED misled

(* Descriptors are closed, which may sleep; then is_running is cleared.    *)
process_exits(p) ==
    /\ life[p] = "cleaned"
    /\ life' = [life EXCEPT ![p] = "exited"]
    /\ UNCHANGED <<ep, rec, local, sendq, recvq, call, misled>>

-----------------------------------------------------------------------------

ipc_send_timeout(p) ==
    \E op \in SendOps, h \in Handles :
        send_completes(p, op, h) \/ send_blocks(p, op, h)

ipc_receive_timeout(p) ==
    \E op \in RecvOps, h \in Handles :
        receive_completes(p, op, h) \/ receive_blocks(p, op, h)

Capability(p) ==
    \/ ipc_create(p) \/ ipc_create_full(p)
    \/ \E h \in Handles :
         \/ ipc_close(p, h) \/ ipc_release(p, h)
         \/ \E q \in Procs : process_ipc_delegate_identity(p, h, q)
         \/ \E q \in Procs, rights \in Grants :
              process_ipc_delegate(p, h, q, rights)

Next ==
    \/ \E p \in Procs :
         \/ Capability(p) \/ ipc_send_timeout(p) \/ ipc_receive_timeout(p)
         \/ woken_call_fails(p) \/ deadline_passes(p) \/ timer_wakes(p)
         \/ process_terminates(p) \/ ipc_process_cleanup(p) \/ process_exits(p)
    \/ \E s \in Slots :
         \/ quarantine_endpoint(s)
         \/ ipc_send_external_from_peer(s) \/ ipc_send_kernel_to_owner(s)

Spec == Init /\ [][Next]_vars

(* A woken call continues its loop.                                        *)
Resume(p) ==
    LET op == call[p].op  h == call[p].handle IN
    /\ call[p].phase = "run"
    /\ \/ op \in SendOps /\ (send_completes(p, op, h) \/ send_blocks(p, op, h))
       \/ op \in RecvOps /\ (receive_completes(p, op, h) \/ receive_blocks(p, op, h))
       \/ woken_call_fails(p)

(* A runnable call is scheduled, and the timer interrupt keeps arriving    *)
(* and scanning the sleepers.                                              *)
Fairness ==
    \A p \in Procs : /\ WF_vars(Resume(p))
                     /\ WF_vars(deadline_passes(p) \/ timer_wakes(p))

FairSpec == Spec /\ Fairness

-----------------------------------------------------------------------------
(* Properties *)

(* Every variable keeps its type and no queue outgrows its array.          *)
TypeOK ==
    /\ ep \in [Slots -> Endpoints]
    /\ \A s \in Slots : Len(ep[s].queue) <= QueueDepth
    /\ rec \in SUBSET Records
    /\ local \in [Procs -> SUBSET Handles]
    /\ sendq \in [Slots -> Seq(Procs)]
    /\ recvq \in [Slots -> Seq(Procs)]
    /\ call \in [Procs -> Calls]
    /\ life \in [Procs -> {"running", "terminating", "cleaned", "exited"}]
    /\ misled \subseteq Slots

(* Authority is exact: a record exists only for the current generation of  *)
(* an active endpoint, the handles in a process's table are exactly those  *)
(* of its records, the owner alone holds CONTROL, and the peer count that  *)
(* decides EPIPE and admits a delegation is the number of peer records,    *)
(* which is at most one.  counterpart_identity_locked and the external     *)
(* ingress quarantine the endpoint where a second peer would show.         *)
CapabilityExact ==
    /\ \A r \in rec :
         /\ ep[r.handle[1]].active /\ r.handle = Handle(r.handle[1])
         /\ ("CONTROL" \in r.rights) <=> (ep[r.handle[1]].owner = r.holder)
    /\ \A p \in Procs : local[p] = {r.handle : r \in {x \in rec : x.holder = p}}
    /\ \A s \in Slots :
         /\ (ep[s].peerCaps = 1) <=> \E r \in rec : IsPeerRecord(r, s)
         /\ \A r1, r2 \in rec :
              IsPeerRecord(r1, s) /\ IsPeerRecord(r2, s) => r1 = r2
         /\ ep[s].active =>
              \E r \in rec : r.handle = Handle(s) /\ r.holder = ep[s].owner

(* Nobody sleeps on an endpoint that can no longer serve it: a process     *)
(* linked on a wait queue waits on the incarnation that now occupies the   *)
(* slot, still holds its capability, and its peer is not known to be gone. *)
(* ipc_create may therefore reinitialise the queues of a reused slot.      *)
NoOrphanedWaiter ==
    \A s \in Slots : \A p \in Elements(sendq[s]) \cup Elements(recvq[s]) :
        /\ call[p].phase = "wait" /\ call[p].handle = Handle(s)
        /\ Resolves(p, Handle(s), {})
        /\ ~PeerGone(s)

(* Somebody is about to look at endpoint s again: a woken call on it, or   *)
(* the teardown of a holder, which wakes everyone on it.                   *)
Attended(s, p) ==
    \E q \in Procs \ {p} :
        \/ call[q].phase = "run" /\ call[q].handle = Handle(s)
        \/ life[q] = "terminating" /\ Handle(s) \in local[q]

(* No wakeup is lost: when a queued message is receivable by a sleeping    *)
(* receiver, or there is room for a sleeping sender, a call that was woken *)
(* in its place, or the teardown of a holder, is still to come.  The only  *)
(* exception starts with kernel ingress in a peer's name that woke this    *)
(* very peer, which can never take the message.                            *)
NoLostWakeup ==
    \A s \in Slots \ misled :
        /\ \A p \in Elements(recvq[s]) : Receivable(s, p) # {} => Attended(s, p)
        /\ \A p \in Elements(sendq[s]) : HasRoom(s, call[p].op) => Attended(s, p)

(* Every send and receive call that has gone to sleep comes back, whatever *)
(* its peer, the owner and the other callers do.                           *)
CallsReturn == \A p \in Procs : (call[p].phase # "idle") ~> (call[p].phase = "idle")

(* The loss of a peer process is visible as a closed channel: no endpoint  *)
(* counts a peer whose process has exited.                                 *)
PeerLossVisible ==
    \A s \in Slots : ep[s].active /\ ep[s].peerCaps = 1 =>
        \A r \in rec : IsPeerRecord(r, s) => IsRunning(r.holder)
=============================================================================
