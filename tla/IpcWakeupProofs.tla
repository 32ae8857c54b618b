--------------------------- MODULE IpcWakeupProofs ---------------------------
(***************************************************************************)
(* No wakeup of an IPC endpoint is lost, for any number of processes and   *)
(* slots and any queue depth.  The argument rests on AuthorityExact: an    *)
(* endpoint has two holders at most, so who is asleep on it has one        *)
(* counterpart only, and a wakeup that does not go to the one goes to the  *)
(* other.                                                                  *)
(***************************************************************************)
EXTENDS IpcProofs

------------------------------------------------------------------------------
(* The inductive invariant.                                                 *)

\* The right the loop of a call resolves its handle with.
Right(op) == IF op \in SendOps THEN "SEND" ELSE "RECEIVE"

\* The handle of a call under way names no future incarnation, and the caller can
\* still resolve it unless this incarnation is over.
Holds(q) ==
    LET h == call[q].handle IN
    /\ life[q] = "running" /\ h[2] <= ep[h[1]].gen
    /\ ep[h[1]].active /\ h[2] = ep[h[1]].gen =>
         \E r \in rec : r.handle = h /\ r.holder = q /\ Right(call[q].op) \in r.rights

CallHeld == \A q \in Procs : call[q].phase # "idle" => Holds(q)

\* A sender is asleep only while there is no room for it.
NoRoom == \A s \in Slots : \A p \in Elements(sendq[s]) : ~HasRoom(s, call[p].op)

\* q is a holder whose teardown is to come, or was woken for the only message there is.
Attends(q, s) ==
    \/ life[q] = "terminating" /\ Handle(s) \in local[q]
    \/ /\ call[q].phase = "run" /\ call[q].op \in RecvOps /\ call[q].handle = Handle(s)
       /\ Len(ep[s].queue) = 1 /\ ep[s].queue[1] # q

\* What a sleeping receiver could take, its counterpart is about to take.
Cared ==
    \A s \in Slots : s \notin misled =>
        \A p \in Elements(recvq[s]) : Receivable(s, p) # {} =>
            \E q \in Procs : q # p /\ Attends(q, s)

WInv == CallHeld /\ NoRoom /\ Cared

------------------------------------------------------------------------------
(* Holders.                                                                 *)

\* Of three holders of an endpoint two are the same: its owner and one peer.
LEMMA TwoHolders ==
    ASSUME IInv, NEW s \in Slots, NEW a \in Procs, NEW b \in Procs, NEW c \in Procs,
           Handle(s) \in local[a], Handle(s) \in local[b], Handle(s) \in local[c]
    PROVE  a = b \/ b = c \/ a = c
<1>1. Handle(s)[1] = s
  BY DEF Handle
<1>2. ASSUME NEW p \in Procs, Handle(s) \in local[p]
      PROVE  \E r \in rec : /\ r.holder = p /\ r.handle = Handle(s)
                            /\ p = ep[s].owner \/ IsPeerRecord(r, s)
  <2>1. PICK r \in rec : r.handle = Handle(s) /\ r.holder = p
    BY <1>2 DEF IInv, CapabilityExact
  <2>2. ("CONTROL" \in r.rights) <=> (ep[s].owner = p)
    BY <1>1, <2>1 DEF IInv, CapabilityExact
  <2> QED
    BY <1>1, <2>1, <2>2 DEF IsPeerRecord
<1>3. \A r1, r2 \in rec : IsPeerRecord(r1, s) /\ IsPeerRecord(r2, s) => r1 = r2
  BY DEF IInv, CapabilityExact
<1>4. PICK ra \in rec : ra.holder = a /\ (a = ep[s].owner \/ IsPeerRecord(ra, s))
  BY <1>2
<1>5. PICK rb \in rec : rb.holder = b /\ (b = ep[s].owner \/ IsPeerRecord(rb, s))
  BY <1>2
<1>6. PICK rc \in rec : rc.holder = c /\ (c = ep[s].owner \/ IsPeerRecord(rc, s))
  BY <1>2
<1> QED
  BY <1>3, <1>4, <1>5, <1>6

\* Who is linked on an endpoint is asleep, alive and holds it.
LEMMA SleeperHolds ==
    ASSUME IInv, NEW s \in Slots, NEW p \in Elements(sendq[s]) \cup Elements(recvq[s])
    PROVE  /\ p \in Procs /\ call[p].phase = "wait" /\ life[p] = "running"
           /\ Handle(s) \in local[p]
BY ElementsSeq DEF IInv, TypeOK, QueueExact, Linked

\* A call under way has a handle, and its slot exists.
LEMMA CallHandle ==
    ASSUME TypeOK, NEW q \in Procs, call[q].phase # "idle"
    PROVE  /\ call[q].handle \in Handles /\ call[q].handle[1] \in Slots
           /\ call[q].handle[2] \in Nat /\ call[q].op \in SendOps \cup RecvOps
           /\ ep[call[q].handle[1]].gen \in Nat
<1>1. call[q] \in Calls
  BY DEF TypeOK
<1>2. call[q].handle \in Handles /\ call[q].op \in SendOps \cup RecvOps
  BY <1>1 DEF Calls, Idle
<1>3. call[q].handle[1] \in Slots /\ call[q].handle[2] \in Nat
  BY <1>2, IpcAssumption DEF Handles
<1>4. ep[call[q].handle[1]] \in Endpoints
  BY <1>3 DEF TypeOK
<1> QED
  BY <1>2, <1>3, <1>4, IpcAssumption DEF Endpoints

\* A woken receiver, or a holder about to be torn down, is a holder.
LEMMA AttendantHolds ==
    ASSUME IInv, CallHeld, NEW s \in Slots, ep[s].active, NEW q \in Procs, Attends(q, s)
    PROVE  /\ Handle(s) \in local[q] /\ call[q].phase # "wait"
           /\ life[q] \in {"running", "terminating"}
<1>1. CASE life[q] = "terminating" /\ Handle(s) \in local[q]
  BY <1>1 DEF CallHeld, Holds
<1>2. CASE call[q].phase = "run" /\ call[q].handle = Handle(s)
  <2>1. Handle(s)[1] = s /\ Handle(s)[2] = ep[s].gen
    BY DEF Handle
  <2>2. Holds(q)
    BY <1>2 DEF CallHeld
  <2>3. \E r \in rec : r.handle = Handle(s) /\ r.holder = q
    BY <1>2, <2>1, <2>2 DEF Holds
  <2> QED
    BY <1>2, <2>2, <2>3 DEF IInv, CapabilityExact, Holds
<1> QED
  BY <1>1, <1>2 DEF Attends

\* An endpoint somebody sleeps on is active.
LEMMA SleptOnActive ==
    ASSUME IInv, NEW s \in Slots, NEW p \in Elements(sendq[s]) \cup Elements(recvq[s])
    PROVE  ep[s].active
<1>1. p \in Procs /\ Handle(s) \in local[p]
  BY SleeperHolds
<1>2. \E r \in rec : r.handle = Handle(s)
  BY <1>1 DEF IInv, CapabilityExact
<1> QED
  BY <1>2 DEF IInv, CapabilityExact, Handle

------------------------------------------------------------------------------
(* Steps that leave all capabilities as they are.                           *)

\* Calls go on with their operation and handle, or begin with a handle that resolves.
LEMMA CallsKept ==
    ASSUME IInv, TypeOK', CallHeld, rec' = rec, Undisturbed,
           \A q \in Procs : call'[q].phase # "idle" =>
              /\ life'[q] = "running"
              /\ \/ call[q].phase # "idle" /\ call'[q].op = call[q].op
                                           /\ call'[q].handle = call[q].handle
                 \/ Resolves(q, call'[q].handle, {Right(call'[q].op)})
    PROVE  CallHeld'
<1> SUFFICES ASSUME NEW q \in Procs, call'[q].phase # "idle"
             PROVE  Holds(q)'
  BY DEF CallHeld
<1> DEFINE h == call'[q].handle
<1>1. h[1] \in Slots /\ h[2] \in Nat
  <2>1. call'[q] \in Calls
    BY DEF TypeOK
  <2>2. call'[q].handle \in Handles
    BY <2>1 DEF Calls, Idle
  <2> QED
    BY <2>2, IpcAssumption DEF Handles
<1>2. ep'[h[1]].gen = ep[h[1]].gen /\ ep'[h[1]].active = ep[h[1]].active
  BY <1>1 DEF Undisturbed
<1>3. CASE call[q].phase # "idle" /\ call'[q].op = call[q].op /\ call'[q].handle = call[q].handle
  <2>1. Holds(q)
    BY <1>3 DEF CallHeld
  <2> QED
    BY <1>2, <1>3, <2>1 DEF Holds, Right, SendOps
<1>4. CASE Resolves(q, h, {Right(call'[q].op)})
  <2>1. /\ ep[h[1]].gen = h[2]
        /\ \E r \in rec : r.handle = h /\ r.holder = q /\ {Right(call'[q].op)} \subseteq r.rights
    BY <1>4 DEF Resolves
  <2>2. h[2] <= h[2]
    BY <1>1
  <2> QED
    BY <1>2, <2>1, <2>2 DEF Holds, Right, SendOps
<1> QED
  BY <1>3, <1>4

\* Senders that sleep on find the endpoint at least as full as before.
LEMMA RoomKept ==
    ASSUME IInv, TypeOK', NoRoom,
           \A s \in Slots : \A p \in Elements(sendq'[s]) :
              /\ p \in Elements(sendq[s]) /\ call'[p].op = call[p].op
              /\ Len(ep'[s].queue) >= Len(ep[s].queue)
              /\ ep'[s].bulk = NoProc => ep[s].bulk = NoProc
    PROVE  NoRoom'
<1> SUFFICES ASSUME NEW s \in Slots, NEW p \in Elements(sendq'[s]), HasRoom(s, call[p].op)'
             PROVE  FALSE
  BY DEF NoRoom, Elements
<1>1. ep[s] \in Endpoints /\ ep'[s] \in Endpoints
  BY DEF IInv, TypeOK
<1>2. Len(ep[s].queue) \in Nat /\ Len(ep'[s].queue) \in Nat
  BY <1>1 DEF Endpoints
<1>3. HasRoom(s, call[p].op)
  BY <1>2, IpcAssumption DEF HasRoom
<1> QED
  BY <1>3 DEF NoRoom

\* Receivers that sleep on keep their message and who attends to it.
LEMMA CareKept ==
    ASSUME IInv, Cared,
           \A s \in Slots : s \notin misled' =>
              \A p \in Elements(recvq'[s]) : Receivable(s, p)' # {} =>
                 \/ \E q \in Procs : q # p /\ Attends(q, s)'
                 \/ /\ s \notin misled /\ p \in Elements(recvq[s]) /\ Receivable(s, p) # {}
                    /\ \A q \in Procs : q # p /\ Attends(q, s) => Attends(q, s)'
    PROVE  Cared'
<1> SUFFICES ASSUME NEW s \in Slots, s \notin misled', NEW p \in Elements(recvq'[s]),
                    Receivable(s, p)' # {}
             PROVE  \E q \in Procs : q # p /\ Attends(q, s)'
  BY DEF Cared, Elements
<1>1. CASE \E q \in Procs : q # p /\ Attends(q, s)'
  BY <1>1
<1>2. CASE /\ s \notin misled /\ p \in Elements(recvq[s]) /\ Receivable(s, p) # {}
           /\ \A q \in Procs : q # p /\ Attends(q, s) => Attends(q, s)'
  BY <1>2 DEF Cared
<1> QED
  BY <1>1, <1>2

\* The attendant of an endpoint stays one while its message is there and it does
\* not run.
LEMMA AttendsKept ==
    ASSUME NEW s, NEW q, Attends(q, s), Handle(s)' = Handle(s),
           ep'[s].queue = ep[s].queue,
           life[q] = "terminating" /\ Handle(s) \in local[q] =>
              life'[q] = "terminating" /\ Handle(s) \in local'[q],
           call[q].phase = "run" => /\ call'[q].phase = "run" /\ call'[q].op = call[q].op
                                    /\ call'[q].handle = call[q].handle
    PROVE  Attends(q, s)'
<1>1. CASE life[q] = "terminating" /\ Handle(s) \in local[q]
  BY <1>1 DEF Attends
<1>2. CASE /\ call[q].phase = "run" /\ call[q].op \in RecvOps /\ call[q].handle = Handle(s)
           /\ Len(ep[s].queue) = 1 /\ ep[s].queue[1] # q
  BY <1>2 DEF Attends, RecvOps
<1> QED
  BY <1>1, <1>2 DEF Attends

\* Receivable depends on the queue alone.
LEMMA ReceivableKept ==
    ASSUME NEW s, NEW p, ep'[s].queue = ep[s].queue
    PROVE  Receivable(s, p)' = Receivable(s, p)
BY DEF Receivable

------------------------------------------------------------------------------
(* Calls that wake, end or go to sleep.                                     *)

\* A woken receiver that attends to an endpoint finds what it was woken for.
LEMMA AttendantReady ==
    ASSUME IInv, CallHeld, NEW s \in Slots, ep[s].active, NEW q \in Procs, Attends(q, s),
           life[q] # "terminating"
    PROVE  /\ call[q].phase = "run" /\ call[q].op \in RecvOps /\ call[q].handle = Handle(s)
           /\ Len(ep[s].queue) = 1 /\ ep[s].queue[1] # q
           /\ 1 \in Receivable(s, q) /\ Resolves(q, Handle(s), {"RECEIVE"})
<1>1. /\ call[q].phase = "run" /\ call[q].op \in RecvOps /\ call[q].handle = Handle(s)
      /\ Len(ep[s].queue) = 1 /\ ep[s].queue[1] # q
  BY DEF Attends
<1>2. Handle(s)[1] = s /\ Handle(s)[2] = ep[s].gen
  BY DEF Handle
<1>3. ep[s].queue \in Seq(Procs \cup {Kernel})
  BY DEF IInv, TypeOK, Endpoints
<1>4. 1 \in Receivable(s, q)
  BY <1>1, <1>3 DEF Receivable
<1>5. Holds(q) /\ Right(call[q].op) = "RECEIVE"
  BY <1>1 DEF CallHeld, Right, SendOps, RecvOps
<1>6. life[q] = "running" /\ \E r \in rec : r.handle = Handle(s) /\ r.holder = q /\ "RECEIVE" \in r.rights
  BY <1>1, <1>2, <1>5 DEF Holds
<1>7. Handle(s) \in local[q]
  BY <1>6 DEF IInv, CapabilityExact
<1> QED
  BY <1>1, <1>2, <1>4, <1>6, <1>7 DEF Resolves, IsRunning

\* A woken call that ends without effect was not the one a sleeper counts on.
LEMMA AwakeWakes ==
    ASSUME IInv, WInv, NEW p \in Procs, woken_call_fails(p) \/ deadline_passes(p)
    PROVE  WInv'
<1>1. /\ call[p].phase = "run" /\ UNCHANGED <<ep, rec, local, sendq, recvq, life, misled>>
      /\ call' = [call EXCEPT ![p] = Idle] \/ call' = [call EXCEPT ![p].expired = TRUE]
  BY DEF woken_call_fails, deadline_passes
<1>2. Undisturbed /\ TypeOK' /\ CallHeld /\ NoRoom /\ Cared
  BY <1>1, AwakeStep DEF Undisturbed, IInv, WInv
<1>3. call \in [Procs -> Calls]
  BY DEF IInv, TypeOK
<1>4. \A q \in Procs : q # p => call'[q] = call[q]
  BY <1>1, <1>3
<1>5. call'[p].phase = "idle" \/ (/\ call'[p].phase = call[p].phase /\ call'[p].op = call[p].op
                                 /\ call'[p].handle = call[p].handle)
  <2>1. CASE call' = [call EXCEPT ![p] = Idle]
    BY <1>3, <2>1 DEF Idle
  <2>2. CASE call' = [call EXCEPT ![p].expired = TRUE]
    <3>1. call'[p] = [call[p] EXCEPT !.expired = TRUE]
      BY <1>3, <2>2
    <3>2. call[p] \in [op : SendOps \cup RecvOps, handle : Handles, phase : {"wait", "run"},
                       expired : BOOLEAN]
      BY <1>1, <1>3 DEF Calls, Idle
    <3> QED
      BY <3>1, <3>2
  <2> QED
    BY <1>1, <2>1, <2>2
<1>6. CallHeld'
  <2>1. \A q \in Procs : call'[q].phase # "idle" =>
           /\ life'[q] = "running"
           /\ call[q].phase # "idle" /\ call'[q].op = call[q].op
              /\ call'[q].handle = call[q].handle
    BY <1>1, <1>2, <1>4, <1>5 DEF CallHeld, Holds
  <2> QED
    BY <1>1, <1>2, <2>1, CallsKept
<1>7. NoRoom'
  <2>1. \A s \in Slots : \A q \in Elements(sendq[s]) : q \in Procs /\ q # p
    BY <1>1, SleeperHolds
  <2>2. \A s \in Slots : Len(ep[s].queue) >= Len(ep[s].queue)
    <3>1. \A s \in Slots : Len(ep[s].queue) \in Nat
      BY DEF IInv, TypeOK, Endpoints
    <3> QED
      BY <3>1
  <2> QED
    BY <1>1, <1>2, <1>4, <2>1, <2>2, RoomKept
<1>8. Cared'
  <2>1. ASSUME NEW s \in Slots, NEW x \in Elements(recvq[s]), NEW q \in Procs, Attends(q, s)
        PROVE  Attends(q, s)'
    <3>1. Handle(s)' = Handle(s) /\ ep'[s].queue = ep[s].queue
      BY <1>1 DEF Handle
    <3>2. CASE q # p
      BY <1>1, <1>4, <2>1, <3>1, <3>2, AttendsKept
    <3>3. CASE q = p /\ deadline_passes(p)
      <4>1. call'[p].phase = "run" /\ call'[p].op = call[p].op /\ call'[p].handle = call[p].handle
        <5>1. call' = [call EXCEPT ![p].expired = TRUE]
          BY <3>3 DEF deadline_passes
        <5>2. call'[p].phase # "idle"
          BY <1>1, <1>3, <5>1 DEF Calls, Idle
        <5> QED
          BY <1>1, <1>5, <5>2
      <4> QED
        BY <1>1, <2>1, <3>1, <3>3, <4>1, AttendsKept
    <3>4. CASE q = p /\ woken_call_fails(p)
      <4>1. ep[s].active /\ life[p] = "running"
        BY <3>4, SleptOnActive DEF woken_call_fails
      <4>2. /\ call[p].op \in RecvOps /\ call[p].handle = Handle(s)
            /\ Receivable(s, p) # {} /\ Resolves(p, Handle(s), {"RECEIVE"})
        BY <1>2, <2>1, <3>4, <4>1, AttendantReady
      <4>3. Handle(s)[1] = s /\ call[p].op \notin SendOps
        BY <4>2 DEF Handle, SendOps, RecvOps
      <4> QED
        BY <3>4, <4>2, <4>3 DEF woken_call_fails
    <3> QED
      BY <3>2, <3>3, <3>4
  <2>2. \A s \in Slots : \A x : Receivable(s, x)' = Receivable(s, x)
    BY <1>1, ReceivableKept
  <2> QED
    BY <1>1, <1>2, <2>1, <2>2, CareKept
<1> QED
  BY <1>6, <1>7, <1>8 DEF WInv

\* Endpoints have queues of finite length.
LEMMA QueueLength ==
    ASSUME IInv, NEW s \in Slots
    PROVE  /\ ep[s].queue \in Seq(Procs \cup {Kernel}) /\ Len(ep[s].queue) \in Nat
           /\ Len(ep[s].queue) >= Len(ep[s].queue)
<1>1. ep[s].queue \in Seq(Procs \cup {Kernel})
  BY DEF IInv, TypeOK, Endpoints
<1> QED
  BY <1>1

\* The timer unlinks a sleeper, which attended to nothing; a process that ends is
\* attended by its own teardown from then on.
LEMMA UnlinkWakes ==
    ASSUME IInv, WInv, NEW p \in Procs, timer_wakes(p) \/ process_terminates(p)
    PROVE  WInv'
<1>1. /\ call' = [call EXCEPT ![p] = Idle] /\ UNCHANGED <<ep, rec, local, misled>>
      /\ \A q \in Procs : q # p => life'[q] = life[q]
  BY DEF timer_wakes, process_terminates, IInv, TypeOK
<1>2. Undisturbed /\ TypeOK' /\ CallHeld /\ NoRoom /\ Cared
  BY <1>1, UnlinkStep DEF Undisturbed, IInv, WInv
<1>3. call'[p].phase = "idle" /\ \A q \in Procs : q # p => call'[q] = call[q]
  BY <1>1 DEF IInv, TypeOK, Idle
<1>4. \A t \in Slots : /\ Elements(sendq'[t]) \subseteq Elements(sendq[t]) \ {p}
                       /\ Elements(recvq'[t]) \subseteq Elements(recvq[t]) \ {p}
  BY UnlinkQueues
<1>5. CallHeld'
  <2>1. \A q \in Procs : call'[q].phase # "idle" =>
           /\ life'[q] = "running"
           /\ call[q].phase # "idle" /\ call'[q].op = call[q].op
              /\ call'[q].handle = call[q].handle
    BY <1>1, <1>2, <1>3 DEF CallHeld, Holds
  <2> QED
    BY <1>1, <1>2, <2>1, CallsKept
<1>6. NoRoom'
  <2>1. \A s \in Slots : \A q \in Elements(sendq[s]) : q \in Procs
    BY SleeperHolds
  <2> QED
    BY <1>1, <1>2, <1>3, <1>4, <2>1, QueueLength, RoomKept
<1>7. Cared'
  <2>1. ASSUME NEW s \in Slots, NEW x \in Elements(recvq[s]), NEW q \in Procs, Attends(q, s)
        PROVE  Attends(q, s)'
    <3>1. Handle(s)' = Handle(s) /\ ep'[s].queue = ep[s].queue
      BY <1>1 DEF Handle
    <3>2. CASE q # p
      BY <1>1, <1>3, <2>1, <3>1, <3>2, AttendsKept
    <3>3. CASE q = p
      <4>1. ep[s].active
        BY SleptOnActive
      <4>2. /\ Handle(s) \in local[p] /\ call[p].phase # "wait"
        BY <1>2, <2>1, <3>3, <4>1, AttendantHolds
      <4>3. life'[p] = "terminating"
        BY <4>2 DEF timer_wakes, process_terminates, IInv, TypeOK
      <4> QED
        BY <1>1, <3>1, <3>3, <4>2, <4>3 DEF Attends
    <3> QED
      BY <3>2, <3>3
  <2>2. \A s \in Slots : \A x : Receivable(s, x)' = Receivable(s, x)
    BY <1>1, ReceivableKept
  <2> QED
    BY <1>1, <1>2, <1>4, <2>1, <2>2, CareKept
<1> QED
  BY <1>5, <1>6, <1>7 DEF WInv

\* A cleaned process disappears, or a full scan retires slots: nobody is concerned.
LEMMA UnconcernedWakes ==
    ASSUME IInv, WInv, \E p \in Procs : process_exits(p) \/ ipc_create_full(p)
    PROVE  WInv'
<1>1. UNCHANGED <<rec, local, sendq, recvq, call, misled>>
  BY DEF process_exits, ipc_create_full
<1>2. \A q \in Procs : life[q] \in {"running", "terminating"} => life'[q] = life[q]
  BY DEF process_exits, ipc_create_full, IInv, TypeOK
<1>3. \A s \in Slots : /\ ep'[s].queue = ep[s].queue /\ ep'[s].bulk = ep[s].bulk
                       /\ ep'[s].active = ep[s].active /\ ep'[s].gen = ep[s].gen
                       /\ ep'[s].owner = ep[s].owner /\ ep'[s].peerCaps = ep[s].peerCaps
                       /\ ep'[s].peerSeen = ep[s].peerSeen
  <2>1. CASE ep' = ep
    BY <2>1
  <2>2. CASE ep' = [s \in Slots |-> IF Exhausted(s) THEN [ep[s] EXCEPT !.retired = TRUE] ELSE ep[s]]
    <3> SUFFICES ASSUME NEW s \in Slots
                 PROVE  /\ ep'[s].queue = ep[s].queue /\ ep'[s].bulk = ep[s].bulk
                        /\ ep'[s].active = ep[s].active /\ ep'[s].gen = ep[s].gen
                        /\ ep'[s].owner = ep[s].owner /\ ep'[s].peerCaps = ep[s].peerCaps
                        /\ ep'[s].peerSeen = ep[s].peerSeen
      OBVIOUS
    <3>1. ep[s] \in Endpoints
      BY DEF IInv, TypeOK
    <3>2. ep'[s] = ep[s] \/ ep'[s] = [ep[s] EXCEPT !.retired = TRUE]
      BY <2>2
    <3> QED
      BY <3>1, <3>2 DEF Endpoints
  <2> QED
    BY <2>1, <2>2 DEF process_exits, ipc_create_full
<1>4. Undisturbed /\ TypeOK' /\ CallHeld /\ NoRoom /\ Cared
  BY <1>3, UnconcernedStep DEF Undisturbed, IInv, WInv
<1>5. CallHeld'
  <2>1. \A q \in Procs : call'[q].phase # "idle" =>
           /\ life'[q] = "running"
           /\ call[q].phase # "idle" /\ call'[q].op = call[q].op
              /\ call'[q].handle = call[q].handle
    BY <1>1, <1>2, <1>4 DEF CallHeld, Holds
  <2> QED
    BY <1>1, <1>4, <2>1, CallsKept
<1>6. NoRoom'
  BY <1>1, <1>3, <1>4, QueueLength, RoomKept
<1>7. Cared'
  <2>1. ASSUME NEW s \in Slots, NEW q \in Procs, Attends(q, s)
        PROVE  Attends(q, s)'
    <3>1. Handle(s)' = Handle(s) /\ ep'[s].queue = ep[s].queue
      BY <1>3 DEF Handle
    <3> QED
      BY <1>1, <1>2, <2>1, <3>1, AttendsKept
  <2>2. \A s \in Slots : \A x : Receivable(s, x)' = Receivable(s, x)
    BY <1>3, ReceivableKept
  <2> QED
    BY <1>1, <1>4, <2>1, <2>2, CareKept
<1> QED
  BY <1>5, <1>6, <1>7 DEF WInv

\* A call goes to sleep only when it finds no room or nothing to take.
LEMMA SleepWakes ==
    ASSUME IInv, WInv, NEW p \in Procs, NEW op \in SendOps \cup RecvOps, NEW h \in Handles,
           \/ op \in SendOps /\ send_blocks(p, op, h)
           \/ op \in RecvOps /\ receive_blocks(p, op, h)
    PROVE  WInv'
<1>1. /\ call' = Sleeping(p, op, h) /\ UNCHANGED <<ep, rec, local, life, misled>>
      /\ Iterates(p, op, h) /\ Resolves(p, h, {Right(op)})
      /\ op \in SendOps => ~HasRoom(h[1], op) /\ recvq' = recvq
      /\ op \in RecvOps => Receivable(h[1], p) = {} /\ sendq' = sendq
  BY DEF send_blocks, receive_blocks, Right, SendOps, RecvOps
<1>2. Undisturbed /\ TypeOK' /\ CallHeld /\ NoRoom /\ Cared
  <2>1. IInv'
    BY SleepStep DEF send_blocks, receive_blocks
  <2> QED
    BY <1>1, <2>1 DEF Undisturbed, IInv, WInv
<1>3. /\ h[1] \in Slots /\ h = Handle(h[1]) /\ call[p].phase # "wait" /\ life[p] = "running"
  BY <1>1, HandleCurrent, IteratesAwake
<1>4. /\ \A q \in Procs : q # p => call'[q] = call[q]
      /\ call'[p].phase = "wait" /\ call'[p].op = op /\ call'[p].handle = h
  BY <1>1 DEF Sleeping, IInv, TypeOK
<1>5. \A t \in Slots : p \notin Elements(sendq[t]) /\ p \notin Elements(recvq[t])
  BY <1>3, AwakeUnlinked DEF IInv
<1>6. \A t \in Slots :
        /\ \A q \in Elements(sendq'[t]) :
              q \in Elements(sendq[t]) \/ (q = p /\ t = h[1] /\ op \in SendOps)
        /\ \A q \in Elements(recvq'[t]) :
              q \in Elements(recvq[t]) \/ (q = p /\ t = h[1] /\ op \in RecvOps)
  <2>1. /\ Elements(Append(sendq[h[1]], p)) = Elements(sendq[h[1]]) \cup {p}
        /\ Elements(Append(recvq[h[1]], p)) = Elements(recvq[h[1]]) \cup {p}
    BY <1>3, <1>5, AppendSeq DEF IInv, TypeOK, QueueExact
  <2>2. CASE op \in SendOps
    <3>1. sendq' = [sendq EXCEPT ![h[1]] = Append(sendq[h[1]], p)] /\ recvq' = recvq
      BY <2>2 DEF send_blocks, receive_blocks, SendOps, RecvOps
    <3> QED
      BY <1>3, <2>1, <2>2, <3>1 DEF IInv, TypeOK
  <2>3. CASE op \in RecvOps
    <3>1. recvq' = [recvq EXCEPT ![h[1]] = Append(recvq[h[1]], p)] /\ sendq' = sendq
      BY <2>3 DEF send_blocks, receive_blocks, SendOps, RecvOps
    <3> QED
      BY <1>3, <2>1, <2>3, <3>1 DEF IInv, TypeOK
  <2> QED
    BY <2>2, <2>3
<1>7. CallHeld'
  <2>1. \A q \in Procs : call'[q].phase # "idle" =>
           /\ life'[q] = "running"
           /\ \/ call[q].phase # "idle" /\ call'[q].op = call[q].op
                                        /\ call'[q].handle = call[q].handle
              \/ Resolves(q, call'[q].handle, {Right(call'[q].op)})
    <3>1. Resolves(p, call'[p].handle, {Right(call'[p].op)}) /\ life'[p] = "running"
      BY <1>1, <1>3, <1>4
    <3>2. \A q \in Procs : q # p /\ call[q].phase # "idle" => life'[q] = "running"
      BY <1>1, <1>2 DEF CallHeld, Holds
    <3> QED
      BY <1>4, <3>1, <3>2
  <2> QED
    BY <1>1, <1>2, <2>1, CallsKept
<1>8. NoRoom'
  <2> SUFFICES ASSUME NEW s \in Slots, NEW q \in Elements(sendq'[s])
               PROVE  ~HasRoom(s, call[q].op)'
    BY DEF NoRoom, Elements
  <2>1. CASE q \in Elements(sendq[s])
    <3>1. q \in Procs /\ q # p /\ ~HasRoom(s, call[q].op)
      BY <1>2, <1>5, <2>1, SleeperHolds DEF NoRoom
    <3> QED
      BY <1>1, <1>4, <3>1 DEF HasRoom
  <2>2. CASE q = p /\ s = h[1] /\ op \in SendOps
    BY <1>1, <1>4, <2>2 DEF HasRoom
  <2> QED
    BY <1>6, <2>1, <2>2
<1>9. Cared'
  <2>1. ASSUME NEW s \in Slots, NEW x \in Elements(recvq[s]), NEW q \in Procs, Attends(q, s)
        PROVE  Attends(q, s)'
    <3>1. Handle(s)' = Handle(s) /\ ep'[s].queue = ep[s].queue
      BY <1>1 DEF Handle
    <3>2. CASE q # p
      BY <1>1, <1>4, <2>1, <3>1, <3>2, AttendsKept
    <3>3. CASE q = p
      <4>1. ep[s].active
        BY SleptOnActive
      <4>2. /\ call[p].phase = "run" /\ call[p].op \in RecvOps /\ call[p].handle = Handle(s)
            /\ Receivable(s, p) # {}
        BY <1>2, <1>3, <2>1, <3>3, <4>1, AttendantReady
      <4>3. op \in RecvOps /\ h = Handle(s)
        BY <1>1, <4>2 DEF Iterates, Idle
      <4>4. h[1] = s
        BY <4>3 DEF Handle
      <4> QED
        BY <1>1, <4>2, <4>3, <4>4
    <3> QED
      BY <3>2, <3>3
  <2>2. \A s \in Slots : \A x : Receivable(s, x)' = Receivable(s, x)
    BY <1>1, ReceivableKept
  <2>3. \A s \in Slots : \A x \in Elements(recvq'[s]) :
           Receivable(s, x) # {} => x \in Elements(recvq[s])
    BY <1>1, <1>6
  <2> QED
    BY <1>1, <1>2, <2>1, <2>2, <2>3, CareKept
<1> QED
  BY <1>7, <1>8, <1>9 DEF WInv

------------------------------------------------------------------------------
(* Messages.                                                                *)

\* A holder that is awake has one counterpart at most: waking one sleeper wakes all.
LEMMA LoneSleeper ==
    ASSUME IInv, NEW s \in Slots, NEW p \in Procs, Handle(s) \in local[p],
           call[p].phase # "wait"
    PROVE  Elements(Rest(recvq[s])) = {} /\ Elements(Rest(sendq[s])) = {}
<1>1. ASSUME NEW q \in Seq(Procs), NoDup(q),
             \A x \in Elements(q) : x \in Procs /\ Handle(s) \in local[x] /\ x # p
      PROVE  Elements(Rest(q)) = {}
  <2> SUFFICES ASSUME NEW x \in Elements(Rest(q)) PROVE FALSE
    OBVIOUS
  <2>1. x \in Elements(q)
    BY <1>1, RestSeq
  <2>2. q # <<>>
    BY <2>1 DEF Elements
  <2>3. Head(q) \in Elements(q) /\ Head(q) # x
    BY <1>1, <2>2, RestSeq
  <2> QED
    BY <1>1, <2>1, <2>3, TwoHolders
<1>2. \A x \in Elements(sendq[s]) \cup Elements(recvq[s]) :
         x \in Procs /\ Handle(s) \in local[x] /\ x # p
  BY SleeperHolds
<1>3. /\ sendq[s] \in Seq(Procs) /\ recvq[s] \in Seq(Procs)
      /\ NoDup(sendq[s]) /\ NoDup(recvq[s])
  BY DEF IInv, TypeOK, QueueExact
<1> QED
  BY <1>1, <1>2, <1>3

\* Waking the head of a queue changes its phase and nothing else.
LEMMA WokenCalls ==
    ASSUME NEW c \in [Procs -> Calls], NEW q \in Seq(Procs),
           q # <<>> => c[Head(q)].phase = "wait"
    PROVE  \A x \in Procs :
             /\ Woken(c, q)[x].op = c[x].op /\ Woken(c, q)[x].handle = c[x].handle
             /\ q # <<>> /\ x = Head(q) => Woken(c, q)[x].phase = "run"
             /\ ~(q # <<>> /\ x = Head(q)) => Woken(c, q)[x] = c[x]
<1>1. CASE q = <<>>
  BY <1>1 DEF Woken
<1>2. CASE q # <<>>
  <2> DEFINE y == Head(q)
             r == [c[y] EXCEPT !.phase = "run"]
  <2>1. y \in Procs
    BY <1>2
  <2>2. c[y] \in [op : SendOps \cup RecvOps, handle : Handles, phase : {"wait", "run"},
                  expired : BOOLEAN]
    BY <1>2, <2>1 DEF Calls, Idle
  <2>3. r.op = c[y].op /\ r.handle = c[y].handle /\ r.phase = "run"
    BY <2>2
  <2>4. Woken(c, q) = [c EXCEPT ![y] = r]
    BY <1>2 DEF Woken
  <2> HIDE DEF r
  <2>5. Woken(c, q)[y] = r /\ \A x \in Procs : x # y => Woken(c, q)[x] = c[x]
    BY <2>1, <2>4
  <2> QED
    BY <1>2, <2>3, <2>5
<1> QED
  BY <1>1, <1>2

\* A caller returns and wakes the head of q: who was awake otherwise is not touched.
LEMMA ReturnWakes ==
    ASSUME IInv, NEW p \in Procs, call[p].phase # "wait", NEW q \in Seq(Procs),
           q # <<>> => Head(q) \in Procs /\ call[Head(q)].phase = "wait",
           call' = Woken([call EXCEPT ![p] = Idle], q)
    PROVE  /\ call'[p].phase = "idle"
           /\ \A x \in Procs : x # p =>
                /\ call'[x].op = call[x].op /\ call'[x].handle = call[x].handle
                /\ call[x].phase # "wait" => call'[x] = call[x]
                /\ call[x].phase = "idle" => call'[x].phase = "idle"
<1> DEFINE c == [call EXCEPT ![p] = Idle]
<1>1. /\ c \in [Procs -> Calls] /\ c[p] = Idle
      /\ \A x \in Procs : x # p => c[x] = call[x]
  <2>1. Idle \in Calls
    BY DEF Calls
  <2> QED
    BY <2>1 DEF IInv, TypeOK
<1>2. call' = Woken(c, q)
  OBVIOUS
<1>3. Idle.phase = "idle"
  BY DEF Idle
<1> HIDE DEF c
<1>4. q # <<>> => c[Head(q)].phase = "wait" /\ Head(q) # p
  BY <1>1
<1>5. \A x \in Procs :
             /\ call'[x].op = c[x].op /\ call'[x].handle = c[x].handle
             /\ q # <<>> /\ x = Head(q) => call'[x].phase = "run"
             /\ ~(q # <<>> /\ x = Head(q)) => call'[x] = c[x]
  BY <1>1, <1>2, <1>4, WokenCalls
<1>6. call'[p].phase = "idle"
  BY <1>1, <1>3, <1>4, <1>5
<1>7. ASSUME NEW x \in Procs, x # p
      PROVE  /\ call'[x].op = call[x].op /\ call'[x].handle = call[x].handle
             /\ call[x].phase # "wait" => call'[x] = call[x]
             /\ call[x].phase = "idle" => call'[x].phase = "idle"
  <2>1. c[x] = call[x] /\ call'[x].op = c[x].op /\ call'[x].handle = c[x].handle
    BY <1>1, <1>5, <1>7
  <2>2. CASE q # <<>> /\ x = Head(q)
    BY <2>1, <2>2
  <2>3. CASE ~(q # <<>> /\ x = Head(q))
    <3>1. call'[x] = c[x]
      BY <1>5, <1>7, <2>3
    <3> QED
      BY <2>1, <3>1
  <2> QED
    BY <2>2, <2>3
<1> QED
  BY <1>6, <1>7

\* The head of a queue of sleepers is asleep.
LEMMA HeadAsleep ==
    ASSUME IInv, NEW s \in Slots
    PROVE  /\ recvq[s] \in Seq(Procs) /\ sendq[s] \in Seq(Procs)
           /\ recvq[s] # <<>> => /\ Head(recvq[s]) \in Elements(recvq[s])
                                 /\ Head(recvq[s]) \in Procs
                                 /\ call[Head(recvq[s])].phase = "wait"
           /\ sendq[s] # <<>> => /\ Head(sendq[s]) \in Elements(sendq[s])
                                 /\ Head(sendq[s]) \in Procs
                                 /\ call[Head(sendq[s])].phase = "wait"
<1>1. /\ sendq[s] \in Seq(Procs) /\ recvq[s] \in Seq(Procs)
      /\ NoDup(sendq[s]) /\ NoDup(recvq[s])
  BY DEF IInv, TypeOK, QueueExact
<1> QED
  BY <1>1, RestSeq, SleeperHolds

\* One more message leaves no more room.
LEMMA EnqueuedFull ==
    ASSUME NEW e \in Endpoints, NEW op \in SendOps, NEW m \in Procs \cup {Kernel},
           op # "send" => m \in Procs
    PROVE  /\ Len(Enqueued(e, op, m).queue) >= Len(e.queue)
           /\ Enqueued(e, op, m).bulk = NoProc => e.bulk = NoProc
           /\ op = "send" => Enqueued(e, op, m).queue = Append(e.queue, m)
<1>1. e.queue \in Seq(Procs \cup {Kernel})
  BY DEF Endpoints
<1>2. /\ Append(e.queue, m) \in Seq(Procs \cup {Kernel})
      /\ Len(Append(e.queue, m)) = Len(e.queue) + 1 /\ Len(e.queue) \in Nat
  BY <1>1
<1>3. CASE op = "send"
  <2>1. Enqueued(e, op, m) = [e EXCEPT !.queue = Append(e.queue, m)]
    BY <1>3 DEF Enqueued
  <2>2. Enqueued(e, op, m).queue = Append(e.queue, m) /\ Enqueued(e, op, m).bulk = e.bulk
    BY <2>1 DEF Endpoints
  <2> QED
    BY <1>2, <2>2
<1>4. CASE op # "send"
  <2>1. Enqueued(e, op, m).queue = e.queue /\ Enqueued(e, op, m).bulk = m
    BY <1>4 DEF Enqueued, Endpoints
  <2> QED
    BY <1>2, <1>4, <2>1, IpcAssumption
<1> QED
  BY <1>3, <1>4

\* A send wakes the only receiver that can be asleep while the sender is not.
LEMMA SendWakes ==
    ASSUME IInv, WInv, NEW p \in Procs, NEW op \in SendOps, NEW h \in Handles,
           send_completes(p, op, h)
    PROVE  WInv'
<1> DEFINE s == h[1]
<1>1. /\ s \in Slots /\ h = Handle(s) /\ h \in local[p] /\ call[p].phase # "wait"
      /\ life[p] = "running" /\ Iterates(p, op, h)
  BY HandleCurrent, IteratesAwake DEF send_completes
<1>2. /\ ep' = [ep EXCEPT ![s] = Enqueued(ep[s], op, p)]
      /\ call' = Woken([call EXCEPT ![p] = Idle], recvq[s])
      /\ recvq' = [recvq EXCEPT ![s] = Rest(@)] /\ HasRoom(s, op)
      /\ UNCHANGED <<rec, local, sendq, life, misled>>
  BY DEF send_completes
<1> HIDE DEF s
<1>3. TypeOK' /\ CallHeld /\ NoRoom /\ Cared
  BY SendStep DEF IInv, WInv
<1>4. /\ call'[p].phase = "idle"
      /\ \A x \in Procs : x # p =>
           /\ call'[x].op = call[x].op /\ call'[x].handle = call[x].handle
           /\ call[x].phase # "wait" => call'[x] = call[x]
           /\ call[x].phase = "idle" => call'[x].phase = "idle"
  <2>1. /\ recvq[s] \in Seq(Procs)
        /\ recvq[s] # <<>> => Head(recvq[s]) \in Procs /\ call[Head(recvq[s])].phase = "wait"
    BY <1>1, HeadAsleep
  <2>2. call' = Woken([call EXCEPT ![p] = Idle], recvq[s]) /\ call[p].phase # "wait"
    BY <1>1, <1>2
  <2> QED
    BY <2>1, <2>2, ReturnWakes
<1>5. /\ ep[s] \in Endpoints /\ Len(ep[s].queue) <= QueueDepth
      /\ op = "send" => Len(ep[s].queue) < QueueDepth
  BY <1>1, <1>2 DEF IInv, TypeOK, HasRoom
<1>6. /\ \A t \in Slots : t # s => ep'[t] = ep[t]
      /\ Len(ep'[s].queue) >= Len(ep[s].queue)
      /\ ep'[s].bulk = NoProc => ep[s].bulk = NoProc
      /\ Undisturbed
  <2>1. ep'[s] = Enqueued(ep[s], op, p) /\ \A t \in Slots : t # s => ep'[t] = ep[t]
    BY <1>1, <1>2 DEF IInv, TypeOK
  <2> QED
    BY <1>5, <2>1, EnqueuedFull, EnqueuedType DEF Undisturbed
<1>7. /\ Elements(recvq'[s]) = {} /\ \A t \in Slots : t # s => recvq'[t] = recvq[t]
  <2>1. recvq'[s] = Rest(recvq[s]) /\ \A t \in Slots : t # s => recvq'[t] = recvq[t]
    BY <1>1, <1>2 DEF IInv, TypeOK
  <2> QED
    BY <1>1, <2>1, LoneSleeper
<1>8. CallHeld'
  <2>1. \A q \in Procs : call'[q].phase # "idle" =>
           /\ life'[q] = "running"
           /\ call[q].phase # "idle" /\ call'[q].op = call[q].op
              /\ call'[q].handle = call[q].handle
    BY <1>2, <1>3, <1>4 DEF CallHeld, Holds
  <2> QED
    BY <1>2, <1>3, <1>6, <2>1, CallsKept
<1>9. NoRoom'
  <2>1. \A t \in Slots : \A q \in Elements(sendq[t]) : q \in Procs /\ q # p
    BY <1>1, SleeperHolds
  <2>2. \A t \in Slots : /\ Len(ep'[t].queue) >= Len(ep[t].queue)
                         /\ ep'[t].bulk = NoProc => ep[t].bulk = NoProc
    BY <1>6, QueueLength
  <2> QED
    BY <1>2, <1>3, <1>4, <2>1, <2>2, RoomKept
<1>10. Cared'
  <2>1. ASSUME NEW t \in Slots, t # s, NEW x \in Elements(recvq[t]), NEW q \in Procs,
               Attends(q, t)
        PROVE  Attends(q, t)'
    <3>1. Handle(t)' = Handle(t) /\ ep'[t].queue = ep[t].queue
      BY <1>6, <2>1 DEF Handle
    <3>2. q # p
      <4> SUFFICES ASSUME q = p PROVE FALSE
        OBVIOUS
      <4>1. call[p].phase = "run" /\ call[p].op \in RecvOps
        BY <1>1, <1>3, <2>1, SleptOnActive, AttendantReady
      <4> QED
        BY <1>1, <4>1 DEF Iterates, Idle, SendOps, RecvOps
    <3>3. call[q].phase = "run" => call'[q] = call[q]
      BY <1>4, <3>2
    <3> QED
      BY <1>2, <2>1, <3>1, <3>3, AttendsKept
  <2>2. \A t \in Slots : t # s => \A x : Receivable(t, x)' = Receivable(t, x)
    BY <1>6, ReceivableKept
  <2>3. \A t \in Slots : \A x \in Elements(recvq'[t]) : t # s /\ x \in Elements(recvq[t])
    BY <1>7
  <2> QED
    BY <1>2, <1>3, <2>1, <2>2, <2>3, CareKept
<1> QED
  BY <1>8, <1>9, <1>10 DEF WInv

\* What is left of a queue after a message was taken was there before.
LEMMA TakenQueue ==
    ASSUME IInv, NEW s \in Slots, NEW p, NEW e, e = Taken(s, p)
    PROVE  /\ Receivable(s, p) # {} /\ Len(ep[s].queue) = 1 => DOMAIN e.queue = {}
           /\ \A x : (\E i \in DOMAIN e.queue : e.queue[i] # x) => Receivable(s, x) # {}
<1> DEFINE q == ep[s].queue
           M == Procs \cup {Kernel}
<1>1. ep[s] \in Endpoints /\ q \in Seq(M)
  BY DEF IInv, TypeOK, Endpoints
<1>2. CASE Receivable(s, p) # {}
  <2> DEFINE i == CHOOSE i \in Receivable(s, p) : \A j \in Receivable(s, p) : i <= j
             w == Without(q, i)
  <2>1. PICK k \in Receivable(s, p) : \A j \in Receivable(s, p) : k <= j
    <3>1. Receivable(s, p) \subseteq Nat
      BY <1>1 DEF Receivable
    <3> QED
      BY <1>2, <3>1, SmallestNat
  <2>2. i \in 1..Len(q)
    BY <1>1, <2>1 DEF Receivable
  <2> HIDE DEF i
  <2>3. /\ w \in Seq(M) /\ Len(w) = Len(q) - 1
        /\ \A j \in 1..Len(q) - 1 : w[j] = IF j < i THEN q[j] ELSE q[j + 1]
    BY <1>1, <2>2, WithoutSeq
  <2>4. e = [ep[s] EXCEPT !.queue = w]
    BY <1>2 DEF Taken, i
  <2> HIDE DEF w
  <2>5. e.queue = w
    BY <1>1, <2>4 DEF Endpoints
  <2>6. Len(q) = 1 => DOMAIN w = {}
    BY <2>3
  <2>7. ASSUME NEW x, NEW j \in DOMAIN w, w[j] # x
        PROVE  Receivable(s, x) # {}
    <3>1. j \in 1..Len(q) - 1 /\ j \in 1..Len(q) /\ j + 1 \in 1..Len(q)
      BY <1>1, <2>3
    <3>2. q[j] # x \/ q[j + 1] # x
      BY <2>3, <2>7, <3>1
    <3> QED
      BY <1>1, <3>1, <3>2 DEF Receivable
  <2> QED
    BY <2>5, <2>6, <2>7
<1>3. CASE Receivable(s, p) = {}
  <2>1. e = [ep[s] EXCEPT !.bulk = NoProc]
    BY <1>3 DEF Taken
  <2>2. e.queue = q
    BY <1>1, <2>1 DEF Endpoints
  <2> QED
    BY <1>3, <2>2 DEF Receivable
<1> QED
  BY <1>2, <1>3

\* A receive wakes the only sender that can be asleep, and leaves a sleeping
\* receiver only an empty queue.
LEMMA ReceiveWakes ==
    ASSUME IInv, WInv, NEW p \in Procs, NEW op \in RecvOps, NEW h \in Handles,
           receive_completes(p, op, h)
    PROVE  WInv'
<1> DEFINE s == h[1]
<1>1. /\ s \in Slots /\ h = Handle(s) /\ h \in local[p] /\ call[p].phase # "wait"
      /\ life[p] = "running" /\ Iterates(p, op, h)
  BY HandleCurrent, IteratesAwake DEF receive_completes
<1>2. /\ ep' = [ep EXCEPT ![s] = Taken(s, p)]
      /\ call' = Woken([call EXCEPT ![p] = Idle], sendq[s])
      /\ sendq' = [sendq EXCEPT ![s] = Rest(@)]
      /\ UNCHANGED <<rec, local, recvq, life, misled>>
  BY DEF receive_completes
<1> HIDE DEF s
<1>3. TypeOK' /\ CallHeld /\ NoRoom /\ Cared
  BY ReceiveStep DEF IInv, WInv
<1>4. /\ call'[p].phase = "idle"
      /\ \A x \in Procs : x # p =>
           /\ call'[x].op = call[x].op /\ call'[x].handle = call[x].handle
           /\ call[x].phase # "wait" => call'[x] = call[x]
           /\ call[x].phase = "idle" => call'[x].phase = "idle"
  <2>1. /\ sendq[s] \in Seq(Procs)
        /\ sendq[s] # <<>> => Head(sendq[s]) \in Procs /\ call[Head(sendq[s])].phase = "wait"
    BY <1>1, HeadAsleep
  <2>2. call' = Woken([call EXCEPT ![p] = Idle], sendq[s]) /\ call[p].phase # "wait"
    BY <1>1, <1>2
  <2> QED
    BY <2>1, <2>2, ReturnWakes
<1>5. /\ ep'[s] = Taken(s, p) /\ \A t \in Slots : t # s => ep'[t] = ep[t]
      /\ Undisturbed
  <2>1. ep'[s] = Taken(s, p) /\ \A t \in Slots : t # s => ep'[t] = ep[t]
    BY <1>1, <1>2 DEF IInv, TypeOK
  <2> QED
    BY <1>1, <2>1, TakenType DEF IInv, Undisturbed
<1>6. /\ Elements(sendq'[s]) = {} /\ \A t \in Slots : t # s => sendq'[t] = sendq[t]
  <2>1. sendq'[s] = Rest(sendq[s]) /\ \A t \in Slots : t # s => sendq'[t] = sendq[t]
    BY <1>1, <1>2 DEF IInv, TypeOK
  <2> QED
    BY <1>1, <2>1, LoneSleeper
<1>7. CallHeld'
  <2>1. \A q \in Procs : call'[q].phase # "idle" =>
           /\ life'[q] = "running"
           /\ call[q].phase # "idle" /\ call'[q].op = call[q].op
              /\ call'[q].handle = call[q].handle
    BY <1>2, <1>3, <1>4 DEF CallHeld, Holds
  <2> QED
    BY <1>2, <1>3, <1>5, <2>1, CallsKept
<1>8. NoRoom'
  <2>1. \A t \in Slots : \A q \in Elements(sendq[t]) : q \in Procs /\ q # p
    BY <1>1, SleeperHolds
  <2>2. \A t \in Slots : \A q \in Elements(sendq'[t]) : t # s /\ q \in Elements(sendq[t])
    BY <1>6
  <2>3. \A t \in Slots : t # s => /\ Len(ep'[t].queue) >= Len(ep[t].queue)
                                  /\ ep'[t].bulk = NoProc => ep[t].bulk = NoProc
    BY <1>5, QueueLength
  <2> QED
    BY <1>3, <1>4, <2>1, <2>2, <2>3, RoomKept
<1>9. Cared'
  <2>1. ASSUME NEW t \in Slots, t # s, NEW x \in Elements(recvq[t]), NEW q \in Procs,
               Attends(q, t)
        PROVE  Attends(q, t)'
    <3>1. Handle(t)' = Handle(t) /\ ep'[t].queue = ep[t].queue
      BY <1>5, <2>1 DEF Handle
    <3>2. q # p
      <4> SUFFICES ASSUME q = p PROVE FALSE
        OBVIOUS
      <4>1. call[p].phase = "run" /\ call[p].handle = Handle(t)
        BY <1>1, <1>3, <2>1, SleptOnActive, AttendantReady
      <4>2. h = Handle(t)
        BY <1>1, <4>1 DEF Iterates, Idle
      <4> QED
        BY <1>1, <2>1, <4>2, HandlesDiffer
    <3>3. call[q].phase = "run" => call'[q] = call[q]
      BY <1>4, <3>2
    <3> QED
      BY <1>2, <2>1, <3>1, <3>3, AttendsKept
  <2>2. \A t \in Slots : t # s => \A x : Receivable(t, x)' = Receivable(t, x)
    BY <1>5, ReceivableKept
  <2>3. ASSUME s \notin misled, NEW x \in Elements(recvq[s])
        PROVE  Receivable(s, x)' = {}
    <3> SUFFICES ASSUME Receivable(s, x)' # {} PROVE FALSE
      OBVIOUS
    <3>1. \E i \in DOMAIN ep'[s].queue : ep'[s].queue[i] # x
      BY DEF Receivable
    <3>2. Receivable(s, x) # {}
      BY <1>1, <1>5, <3>1, TakenQueue
    <3>3. PICK q \in Procs : q # x /\ Attends(q, s)
      BY <1>1, <1>3, <2>3, <3>2 DEF Cared
    <3>4. x \in Procs /\ Handle(s) \in local[x] /\ call[x].phase = "wait" /\ ep[s].active
      BY <1>1, SleeperHolds, SleptOnActive
    <3>5. Handle(s) \in local[q] /\ call[q].phase # "wait"
      BY <1>1, <1>3, <3>3, <3>4, AttendantHolds
    <3>6. q = p
      BY <1>1, <3>3, <3>4, <3>5, TwoHolders
    <3>7. Len(ep[s].queue) = 1 /\ Receivable(s, p) # {}
      BY <1>1, <1>3, <3>3, <3>4, <3>6, AttendantReady
    <3> QED
      BY <1>1, <1>5, <3>1, <3>7, TakenQueue
  <2> QED
    BY <1>2, <1>3, <2>1, <2>2, <2>3, CareKept
<1> QED
  BY <1>7, <1>8, <1>9 DEF WInv

\* Kernel ingress wakes one of two sleeping receivers for the only message there is,
\* or the sleeping one.
LEMMA IngressWakes ==
    ASSUME IInv, WInv, NEW s \in Slots, NEW m \in Procs \cup {Kernel}, Ingress(s, m)
    PROVE  WInv'
<1>1. /\ HasRoom(s, "send") /\ ep' = [ep EXCEPT ![s] = Enqueued(ep[s], "send", m)]
      /\ call' = Woken(call, recvq[s]) /\ recvq' = [recvq EXCEPT ![s] = Rest(@)]
      /\ misled \subseteq misled' /\ misled' \subseteq misled \cup {s}
      /\ recvq[s] # <<>> /\ Head(recvq[s]) = m => s \in misled'
      /\ UNCHANGED <<rec, local, sendq, life>>
  BY DEF Ingress
<1>2. TypeOK' /\ CallHeld /\ NoRoom /\ Cared
  BY IngressStep DEF IInv, WInv
<1>3. \A x \in Procs :
        /\ call'[x].op = call[x].op /\ call'[x].handle = call[x].handle
        /\ recvq[s] # <<>> /\ x = Head(recvq[s]) => call'[x].phase = "run" /\ call[x].phase = "wait"
        /\ ~(recvq[s] # <<>> /\ x = Head(recvq[s])) => call'[x] = call[x]
  <2>1. call \in [Procs -> Calls]
    BY DEF IInv, TypeOK
  <2>2. /\ recvq[s] \in Seq(Procs)
        /\ recvq[s] # <<>> => call[Head(recvq[s])].phase = "wait"
    BY HeadAsleep
  <2> QED
    BY <1>1, <2>1, <2>2, WokenCalls
<1>4. /\ \A t \in Slots : t # s => ep'[t] = ep[t]
      /\ ep'[s].queue = Append(ep[s].queue, m)
      /\ Len(ep'[s].queue) >= Len(ep[s].queue)
      /\ ep'[s].bulk = NoProc => ep[s].bulk = NoProc
      /\ Undisturbed
  <2>1. ep'[s] = Enqueued(ep[s], "send", m) /\ \A t \in Slots : t # s => ep'[t] = ep[t]
    BY <1>1 DEF IInv, TypeOK
  <2>2. /\ ep[s] \in Endpoints /\ Len(ep[s].queue) <= QueueDepth /\ "send" \in SendOps
        /\ Len(ep[s].queue) < QueueDepth
    BY <1>1 DEF IInv, TypeOK, HasRoom, SendOps
  <2> QED
    BY <2>1, <2>2, EnqueuedFull, EnqueuedType DEF Undisturbed
<1>5. CallHeld'
  <2>1. \A q \in Procs : call'[q].phase # "idle" =>
           /\ life'[q] = "running"
           /\ call[q].phase # "idle" /\ call'[q].op = call[q].op
              /\ call'[q].handle = call[q].handle
    BY <1>1, <1>2, <1>3 DEF CallHeld, Holds
  <2> QED
    BY <1>1, <1>2, <1>4, <2>1, CallsKept
<1>6. NoRoom'
  <2>1. \A t \in Slots : \A q \in Elements(sendq[t]) : q \in Procs
    BY SleeperHolds
  <2>2. \A t \in Slots : /\ Len(ep'[t].queue) >= Len(ep[t].queue)
                         /\ ep'[t].bulk = NoProc => ep[t].bulk = NoProc
    BY <1>4, QueueLength
  <2> QED
    BY <1>1, <1>2, <1>3, <2>1, <2>2, RoomKept
<1>7. /\ recvq'[s] = Rest(recvq[s]) /\ \A t \in Slots : t # s => recvq'[t] = recvq[t]
  BY <1>1 DEF IInv, TypeOK
<1>8. ASSUME NEW x \in Elements(recvq'[s]), s \notin misled'
      PROVE  \E q \in Procs : q # x /\ Attends(q, s)'
  <2>1. recvq[s] \in Seq(Procs) /\ NoDup(recvq[s])
    BY DEF IInv, TypeOK, QueueExact
  <2>2. x \in Elements(recvq[s]) /\ recvq[s] # <<>>
    <3>1. x \in Elements(recvq[s])
      BY <1>7, <1>8, <2>1, RestSeq
    <3> QED
      BY <3>1 DEF Elements
  <2>0. PICK y \in Procs : y = Head(recvq[s])
    BY <2>1, <2>2
  <2>3. y \in Elements(recvq[s]) /\ y # x
    BY <1>7, <1>8, <2>0, <2>1, <2>2, RestSeq
  <2>4. /\ x \in Procs /\ y \in Procs /\ Handle(s) \in local[x] /\ Handle(s) \in local[y]
        /\ call[x].phase = "wait" /\ call[y].phase = "wait" /\ ep[s].active
    BY <2>2, <2>3, SleeperHolds, SleptOnActive
  <2>5. /\ m # y /\ s \notin misled /\ call'[y].phase = "run"
        /\ call'[y].op = call[y].op /\ call'[y].handle = call[y].handle
    BY <1>1, <1>3, <1>8, <2>0, <2>2, <2>4
  <2>6. call[y].op \in RecvOps /\ call[y].handle = Handle(s)
    BY <2>3 DEF IInv, QueueExact, Linked
  <2>7. ASSUME NEW z \in Elements(recvq[s]), z = x \/ z = y
        PROVE  Receivable(s, z) = {}
    <3> SUFFICES ASSUME Receivable(s, z) # {} PROVE FALSE
      OBVIOUS
    <3>1. PICK q \in Procs : q # z /\ Attends(q, s)
      BY <1>2, <2>5, <2>7 DEF Cared
    <3>2. Handle(s) \in local[q] /\ call[q].phase # "wait"
      BY <1>2, <2>4, <3>1, AttendantHolds
    <3> QED
      BY <2>3, <2>4, <3>2, TwoHolders
  <2>8. ep[s].queue \in Seq(Procs \cup {Kernel})
    BY QueueLength
  <2>9. Len(ep[s].queue) = 0
    <3> SUFFICES ASSUME Len(ep[s].queue) # 0 PROVE FALSE
      OBVIOUS
    <3>1. 1 \in DOMAIN ep[s].queue
      BY <2>8
    <3>2. ep[s].queue[1] = x /\ ep[s].queue[1] = y
      BY <2>2, <2>3, <2>7, <3>1 DEF Receivable
    <3> QED
      BY <2>3, <3>2
  <2>10. Len(ep'[s].queue) = 1 /\ ep'[s].queue[1] = m
    BY <1>4, <2>8, <2>9
  <2>11. Handle(s)' = Handle(s)
    BY <1>4 DEF Undisturbed, Handle
  <2>12. Attends(y, s)'
    BY <2>5, <2>6, <2>10, <2>11 DEF Attends, RecvOps
  <2> QED
    BY <2>3, <2>4, <2>12
<1>9. Cared'
  <2>1. ASSUME NEW t \in Slots, t # s, NEW q \in Procs, Attends(q, t)
        PROVE  Attends(q, t)'
    <3>1. Handle(t)' = Handle(t) /\ ep'[t].queue = ep[t].queue
      BY <1>4, <2>1 DEF Handle
    <3>2. call[q].phase = "run" => call'[q] = call[q]
      BY <1>3
    <3> QED
      BY <1>1, <2>1, <3>1, <3>2, AttendsKept
  <2>2. \A t \in Slots : t # s => \A x : Receivable(t, x)' = Receivable(t, x)
    BY <1>4, ReceivableKept
  <2> QED
    BY <1>1, <1>2, <1>7, <1>8, <2>1, <2>2, CareKept
<1> QED
  BY <1>5, <1>6, <1>9 DEF WInv

------------------------------------------------------------------------------
(* Endpoints and their capabilities.                                        *)

\* Two generations of which neither is ahead are one.
LEMMA NeitherAhead ==
    ASSUME NEW a \in Nat, NEW b \in Nat, a <= b, a >= b
    PROVE  a = b
OBVIOUS

\* Calls keep their handles while incarnations end and begin and records come and go.
LEMMA HandlesOutlast ==
    ASSUME IInv, TypeOK', CallHeld,
           \A q \in Procs : call'[q].phase # "idle" =>
              /\ life'[q] = "running" /\ call[q].phase # "idle"
              /\ call'[q].op = call[q].op /\ call'[q].handle = call[q].handle,
           \A t \in Slots : /\ ep'[t].gen >= ep[t].gen
                            /\ ep'[t].active /\ ep'[t].gen = ep[t].gen => ep[t].active,
           \A r \in rec : call[r.holder].phase # "idle" /\ ep'[r.handle[1]].active => r \in rec'
    PROVE  CallHeld'
<1> SUFFICES ASSUME NEW q \in Procs, call'[q].phase # "idle"
             PROVE  Holds(q)'
  BY DEF CallHeld
<1>0. /\ call[q].phase # "idle" /\ life'[q] = "running"
      /\ call'[q].handle = call[q].handle /\ call'[q].op = call[q].op
  OBVIOUS
<1>h. PICK h \in Handles : h = call[q].handle
  BY <1>0, CallHandle DEF IInv
<1>t. PICK t \in Slots : t = h[1]
  BY <1>0, <1>h, CallHandle DEF IInv
<1>1. /\ call[q].phase # "idle" /\ life'[q] = "running" /\ call'[q].handle = h
      /\ call'[q].op = call[q].op
  BY <1>0, <1>h
<1>2. t \in Slots /\ h[2] \in Nat /\ ep[t].gen \in Nat
  BY <1>1, <1>h, <1>t, CallHandle DEF IInv
<1>3. ep'[t].gen \in Nat
  <2>1. ep'[t] \in Endpoints
    BY <1>2 DEF TypeOK
  <2> QED
    BY <2>1, IpcAssumption DEF Endpoints
<1>4. /\ h[2] <= ep[t].gen
      /\ ep[t].active /\ h[2] = ep[t].gen =>
           \E r \in rec : r.handle = h /\ r.holder = q /\ Right(call[q].op) \in r.rights
  BY <1>1, <1>h, <1>t DEF CallHeld, Holds
<1>5. ep'[t].gen >= ep[t].gen
  BY <1>2
<1>6. h[2] <= ep'[t].gen
  BY <1>2, <1>3, <1>4, <1>5
<1>7. ASSUME ep'[t].active, h[2] = ep'[t].gen
      PROVE  \E r \in rec' : r.handle = h /\ r.holder = q /\ Right(call[q].op) \in r.rights
  <2>1. ep'[t].gen = ep[t].gen
    <3>1. ep'[t].gen <= ep[t].gen /\ ep'[t].gen >= ep[t].gen
      BY <1>4, <1>5, <1>7
    <3> QED
      BY <1>2, <1>3, <3>1, NeitherAhead
  <2>2. PICK r \in rec : r.handle = h /\ r.holder = q /\ Right(call[q].op) \in r.rights
    BY <1>2, <1>4, <1>7, <2>1
  <2>3. r.handle[1] = t
    BY <2>2, <1>t
  <2> QED
    BY <1>1, <1>7, <2>2, <2>3
<1> QED
  BY <1>1, <1>6, <1>7, <1>t DEF Holds, Right, SendOps

\* wait_queue_wake_all_locked touches the phase of sleepers only.
LEMMA WakeAllCalls ==
    ASSUME IInv, NEW W \in SUBSET Slots, WakeAll(W)
    PROVE  \A x \in Procs : /\ call'[x].op = call[x].op /\ call'[x].handle = call[x].handle
                            /\ call[x].phase # "wait" => call'[x] = call[x]
                            /\ call[x].phase = "idle" <=> call'[x].phase = "idle"
<1> DEFINE woken == {p \in Procs : \E s \in W : p \in Elements(sendq[s]) \/ p \in Elements(recvq[s])}
<1>1. call' = [p \in Procs |-> IF p \in woken THEN [call[p] EXCEPT !.phase = "run"] ELSE call[p]]
  BY DEF WakeAll
<1>2. \A p \in woken : call[p].phase = "wait"
  BY DEF IInv, QueueExact, Linked
<1> HIDE DEF woken
<1> SUFFICES ASSUME NEW x \in Procs
             PROVE  /\ call'[x].op = call[x].op /\ call'[x].handle = call[x].handle
                    /\ call[x].phase # "wait" => call'[x] = call[x]
                    /\ call[x].phase = "idle" <=> call'[x].phase = "idle"
  OBVIOUS
<1>3. CASE x \in woken
  <2>1. call'[x] = [call[x] EXCEPT !.phase = "run"] /\ call[x].phase = "wait"
    BY <1>1, <1>2, <1>3
  <2>2. call[x] \in [op : SendOps \cup RecvOps, handle : Handles, phase : {"wait", "run"},
                     expired : BOOLEAN]
    BY <2>1 DEF IInv, TypeOK, Calls, Idle
  <2> QED
    BY <2>1, <2>2
<1>4. CASE x \notin woken
  BY <1>1, <1>4
<1> QED
  BY <1>3, <1>4

\* Whatever a withdrawal touches it wakes, so who sleeps on is not concerned.
LEMMA WithdrawWakes ==
    ASSUME IInv, WInv, TypeOK', NEW gone \in SUBSET rec, NEW dead \in SUBSET Slots,
           NEW W \in SUBSET Slots, Drop(gone, dead), WakeAll(W), misled' = misled,
           \A q \in Procs : life[q] = "running" => life'[q] = "running",
           dead \subseteq W, \A r \in gone : r.handle[1] \in W,
           \A r \in gone : r.handle[1] \in dead \/ call[r.holder].phase = "idle",
           \A q \in Procs : \/ life[q] = "terminating" => life'[q] = "terminating"
                            \/ \A s \in Slots : Handle(s) \in local[q] => s \in W
    PROVE  WInv'
<1>1. /\ rec' = rec \ gone
      /\ local' = [p \in Procs |-> local[p] \ {r.handle : r \in {g \in gone : g.holder = p}}]
      /\ ep' = [s \in Slots |-> IF s \in dead THEN Revoked(ep[s])
                                ELSE IF \E r \in gone : IsPeerRecord(r, s)
                                     THEN [ep[s] EXCEPT !.peerCaps = 0]
                                     ELSE ep[s]]
  BY DEF Drop
<1>2. \A s \in Slots : /\ ep'[s].gen = ep[s].gen
                       /\ ep'[s].active = (ep[s].active /\ s \notin dead)
  <2>1. \A s \in Slots : ep[s] \in Endpoints
    BY DEF IInv, TypeOK
  <2> QED
    BY <1>1, <2>1 DEF Revoked, Endpoints
<1>3. \A s \in Slots : s \notin W => ep'[s] = ep[s]
  BY <1>1 DEF IsPeerRecord
<1>4. /\ \A s \in W : sendq'[s] = <<>> /\ recvq'[s] = <<>>
      /\ \A s \in Slots \ W : sendq'[s] = sendq[s] /\ recvq'[s] = recvq[s]
  BY WakeAllStep DEF IInv
<1>5. \A x \in Procs : /\ call'[x].op = call[x].op /\ call'[x].handle = call[x].handle
                       /\ call[x].phase # "wait" => call'[x] = call[x]
                       /\ call[x].phase = "idle" <=> call'[x].phase = "idle"
  BY WakeAllCalls
<1>6. CallHeld /\ NoRoom /\ Cared
  BY DEF WInv
<1>7. CallHeld'
  <2>1. \A q \in Procs : call'[q].phase # "idle" =>
           /\ life'[q] = "running" /\ call[q].phase # "idle"
           /\ call'[q].op = call[q].op /\ call'[q].handle = call[q].handle
    BY <1>5, <1>6 DEF CallHeld, Holds
  <2>2. \A t \in Slots : /\ ep'[t].gen >= ep[t].gen
                         /\ ep'[t].active /\ ep'[t].gen = ep[t].gen => ep[t].active
    <3>1. \A t \in Slots : ep[t].gen \in Nat
      BY IpcAssumption DEF IInv, TypeOK, Endpoints
    <3>2. \A n \in Nat : n >= n
      OBVIOUS
    <3>3. \A t \in Slots : ep'[t].gen >= ep[t].gen
      BY <1>2, <3>1, <3>2
    <3>4. \A t \in Slots : ep'[t].active => ep[t].active
      BY <1>2
    <3> QED
      BY <3>3, <3>4
  <2>3. \A r \in rec : call[r.holder].phase # "idle" /\ ep'[r.handle[1]].active => r \in rec'
    <3>1. \A r \in rec : r.handle[1] \in Slots
      BY DEF IInv, TypeOK, Records, Handles
    <3> QED
      BY <1>1, <1>2, <3>1
  <2> QED
    BY <1>6, <2>1, <2>2, <2>3, HandlesOutlast
<1>8. \A s \in Slots : \A x : /\ x \in Elements(sendq'[s]) => s \notin W /\ x \in Elements(sendq[s])
                              /\ x \in Elements(recvq'[s]) => s \notin W /\ x \in Elements(recvq[s])
  <2>1. Elements(<<>>) = {}
    BY DEF Elements
  <2> QED
    BY <1>4, <2>1
<1>9. NoRoom'
  <2>1. \A s \in Slots : \A x \in Elements(sendq[s]) : x \in Procs
    BY SleeperHolds
  <2> QED
    BY <1>3, <1>5, <1>6, <1>8, <2>1, QueueLength, RoomKept
<1>10. Cared'
  <2>1. ASSUME NEW s \in Slots, s \notin W, NEW q \in Procs, Attends(q, s)
        PROVE  Attends(q, s)'
    <3>1. Handle(s)' = Handle(s) /\ ep'[s].queue = ep[s].queue
      BY <1>3, <2>1 DEF Handle
    <3>2. Handle(s) \in local[q] => Handle(s) \in local'[q]
      <4>1. \A r \in gone : r.handle # Handle(s)
        BY <2>1 DEF Handle
      <4> QED
        BY <1>1, <4>1
    <3>3. life[q] = "terminating" /\ Handle(s) \in local[q] => life'[q] = "terminating"
      BY <2>1
    <3> QED
      BY <1>5, <2>1, <3>1, <3>2, <3>3, AttendsKept
  <2>2. \A s \in Slots : s \notin W => \A x : Receivable(s, x)' = Receivable(s, x)
    BY <1>3, ReceivableKept
  <2> QED
    BY <1>6, <1>8, <2>1, <2>2, CareKept
<1> QED
  BY <1>7, <1>9, <1>10 DEF WInv

\* A peer gives its capability back.
LEMMA ReleaseWakes ==
    ASSUME IInv, WInv, NEW p \in Procs, NEW h \in Handles, ipc_release(p, h)
    PROVE  WInv'
<1> DEFINE gone == {r \in rec : r.handle = h /\ r.holder = p}
<1>0. Resolves(p, h, {}) /\ call[p] = Idle
  BY DEF ipc_release
<1>1. h[1] \in Slots /\ call[p].phase = "idle"
  <2>1. h[1] \in Slots
    BY <1>0, HandleCurrent
  <2>2. call[p].phase = "idle"
    BY <1>0 DEF Idle
  <2> QED
    BY <2>1, <2>2
<1>2. Drop(gone, {}) /\ WakeAll({h[1]}) /\ life' = life /\ misled' = misled
  BY DEF ipc_release
<1>3. \A r \in gone : r.handle[1] = h[1] /\ call[r.holder].phase = "idle"
  BY <1>1
<1> HIDE DEF gone
<1>4. gone \in SUBSET rec /\ {} \in SUBSET Slots /\ {h[1]} \in SUBSET Slots
  BY <1>1 DEF gone
<1>5. TypeOK'
  BY ReleaseStep DEF IInv
<1> QED
  BY <1>2, <1>3, <1>4, <1>5, WithdrawWakes

\* The owner closes its endpoint.
LEMMA CloseWakes ==
    ASSUME IInv, WInv, NEW p \in Procs, NEW h \in Handles, ipc_close(p, h)
    PROVE  WInv'
<1> DEFINE dead == {h[1]}
           gone == RecordsOf(dead)
<1>1. h[1] \in Slots
  BY HandleCurrent DEF ipc_close
<1>2. Drop(gone, dead) /\ WakeAll(dead) /\ life' = life /\ misled' = misled
  BY DEF ipc_close
<1>3. gone \in SUBSET rec /\ \A r \in gone : r.handle[1] \in dead
  BY DEF RecordsOf, Handle
<1>4. dead \in SUBSET Slots
  BY <1>1
<1> HIDE DEF gone, dead
<1>5. TypeOK'
  BY CloseStep DEF IInv
<1> QED
  BY <1>2, <1>3, <1>4, <1>5, WithdrawWakes

\* An endpoint is taken out of service.
LEMMA QuarantineWakes ==
    ASSUME IInv, WInv, NEW s \in Slots, quarantine_endpoint(s)
    PROVE  WInv'
<1> DEFINE gone == {r \in rec : r.handle[1] = s}
<1>1. Drop(gone, {s}) /\ WakeAll({s}) /\ life' = life /\ misled' = misled
  BY DEF quarantine_endpoint
<1>2. gone \in SUBSET rec /\ {s} \in SUBSET Slots /\ \A r \in gone : r.handle[1] \in {s}
  OBVIOUS
<1> HIDE DEF gone
<1>3. TypeOK'
  BY QuarantineStep DEF IInv
<1> QED
  BY <1>1, <1>2, <1>3, WithdrawWakes

\* The teardown that a sleeper counts on wakes everybody on the endpoints of the
\* process.
LEMMA CleanupWakes ==
    ASSUME IInv, WInv, NEW p \in Procs, ipc_process_cleanup(p)
    PROVE  WInv'
<1> DEFINE dead == {s \in Slots : ep[s].active /\ ep[s].owner = p}
           gone == RecordsOf(dead) \cup {r \in rec : r.holder = p}
           W == dead \cup {r.handle[1] : r \in gone}
<1>1. /\ life[p] = "terminating" /\ life' = [life EXCEPT ![p] = "cleaned"]
      /\ Drop(gone, dead) /\ WakeAll(W) /\ misled' = misled
  BY DEF ipc_process_cleanup
<1>2. gone \in SUBSET rec /\ dead \in SUBSET Slots
  BY DEF RecordsOf
<1>3. W \in SUBSET Slots
  <2>1. \A r \in rec : r.handle[1] \in Slots
    BY DEF IInv, TypeOK, Records, Handles
  <2> QED
    BY <1>2, <2>1
<1>4. call[p].phase = "idle"
  BY <1>1 DEF WInv, CallHeld, Holds
<1>5. \A r \in gone : r.handle[1] \in dead \/ call[r.holder].phase = "idle"
  BY <1>4 DEF RecordsOf, Handle
<1>6. /\ \A q \in Procs : life[q] = "running" => life'[q] = "running"
      /\ \A q \in Procs : q # p => life'[q] = life[q]
  BY <1>1 DEF IInv, TypeOK
<1>7. \A s \in Slots : Handle(s) \in local[p] => s \in W
  <2> SUFFICES ASSUME NEW s \in Slots, Handle(s) \in local[p] PROVE s \in W
    OBVIOUS
  <2>1. PICK r \in rec : r.handle = Handle(s) /\ r.holder = p
    BY DEF IInv, CapabilityExact
  <2>2. r \in gone /\ r.handle[1] = s
    BY <2>1 DEF Handle
  <2> QED
    BY <2>2
<1>8. dead \subseteq W /\ \A r \in gone : r.handle[1] \in W
  OBVIOUS
<1> HIDE DEF dead, gone, W
<1>9. TypeOK'
  BY CleanupStep DEF IInv
<1> QED
  BY <1>1, <1>2, <1>3, <1>5, <1>6, <1>7, <1>8, <1>9, WithdrawWakes

\* A new incarnation begins with empty queues, and the others go on.
LEMMA CreateWakes ==
    ASSUME IInv, WInv, NEW p \in Procs, ipc_create(p)
    PROVE  WInv'
<1>1. PICK s \in Slots :
         /\ Usable(s)
         /\ ep' = [t \in Slots |-> IF t = s THEN Opened(s, p)
                                   ELSE IF t < s /\ Exhausted(t)
                                        THEN [ep[t] EXCEPT !.retired = TRUE]
                                        ELSE ep[t]]
         /\ rec' = rec \cup {[handle |-> <<s, ep[s].gen + 1>>, holder |-> p, rights |-> AllRights]}
         /\ local' = [local EXCEPT ![p] = @ \cup {<<s, ep[s].gen + 1>>}]
         /\ sendq' = [sendq EXCEPT ![s] = <<>>] /\ recvq' = [recvq EXCEPT ![s] = <<>>]
         /\ misled' = misled \ {s} /\ call' = call /\ life' = life
  BY DEF ipc_create
<1>2. TypeOK' /\ CallHeld /\ NoRoom /\ Cared
  BY CreateStep DEF IInv, WInv
<1>3. ASSUME NEW t \in Slots, t # s
      PROVE  /\ ep'[t].queue = ep[t].queue /\ ep'[t].bulk = ep[t].bulk
             /\ ep'[t].active = ep[t].active /\ ep'[t].gen = ep[t].gen
  <2>1. ep[t] \in Endpoints
    BY DEF IInv, TypeOK
  <2>2. ep'[t] = ep[t] \/ ep'[t] = [ep[t] EXCEPT !.retired = TRUE]
    BY <1>1, <1>3
  <2> QED
    BY <2>1, <2>2 DEF Endpoints
<1>4. ep'[s].gen = ep[s].gen + 1
  <2>1. ep'[s] = Opened(s, p)
    BY <1>1
  <2>2. EmptyEndpoint \in [active : BOOLEAN, retired : BOOLEAN, gen : {0}, owner : {NoProc},
                           peerSeen : BOOLEAN, peerCaps : {0}, queue : {<<>>}, bulk : {NoProc}]
    BY DEF EmptyEndpoint
  <2> QED
    BY <2>1, <2>2 DEF Opened
<1>5. \A t \in Slots : ep[t].gen \in Nat
  BY IpcAssumption DEF IInv, TypeOK, Endpoints
<1>6. CallHeld'
  <2>1. \A q \in Procs : call'[q].phase # "idle" =>
           /\ life'[q] = "running" /\ call[q].phase # "idle"
           /\ call'[q].op = call[q].op /\ call'[q].handle = call[q].handle
    BY <1>1, <1>2 DEF CallHeld, Holds
  <2>2. ASSUME NEW t \in Slots
        PROVE  /\ ep'[t].gen >= ep[t].gen
               /\ ep'[t].active /\ ep'[t].gen = ep[t].gen => ep[t].active
    <3>1. \A n \in Nat : n >= n /\ n + 1 >= n /\ n + 1 # n
      OBVIOUS
    <3>2. CASE t = s
      BY <1>4, <1>5, <3>1, <3>2
    <3>3. CASE t # s
      BY <1>3, <1>5, <3>1, <3>3
    <3> QED
      BY <3>2, <3>3
  <2>3. rec \subseteq rec'
    BY <1>1
  <2> QED
    BY <1>2, <2>1, <2>2, <2>3, HandlesOutlast
<1>7. /\ \A t \in Slots : t # s => sendq'[t] = sendq[t] /\ recvq'[t] = recvq[t]
      /\ Elements(sendq'[s]) = {} /\ Elements(recvq'[s]) = {}
  <2>1. sendq'[s] = <<>> /\ recvq'[s] = <<>>
        /\ \A t \in Slots : t # s => sendq'[t] = sendq[t] /\ recvq'[t] = recvq[t]
    BY <1>1 DEF IInv, TypeOK
  <2>2. Elements(<<>>) = {}
    BY DEF Elements
  <2> QED
    BY <2>1, <2>2
<1>8. NoRoom'
  <2>1. ASSUME NEW t \in Slots, NEW x \in Elements(sendq'[t])
        PROVE  /\ x \in Elements(sendq[t]) /\ call'[x].op = call[x].op
               /\ Len(ep'[t].queue) >= Len(ep[t].queue)
               /\ ep'[t].bulk = NoProc => ep[t].bulk = NoProc
    <3>1. t # s
      BY <1>7, <2>1
    <3>2. ep'[t].queue = ep[t].queue /\ ep'[t].bulk = ep[t].bulk
      BY <1>3, <3>1
    <3> QED
      BY <1>1, <1>7, <2>1, <3>1, <3>2, QueueLength
  <2> QED
    BY <1>2, <2>1, RoomKept
<1>9. Cared'
  <2>1. ASSUME NEW t \in Slots, t # s, NEW q \in Procs, Attends(q, t)
        PROVE  Attends(q, t)'
    <3>1. Handle(t)' = Handle(t) /\ ep'[t].queue = ep[t].queue
      BY <1>3, <2>1 DEF Handle
    <3>2. local[q] \subseteq local'[q]
      BY <1>1 DEF IInv, TypeOK
    <3>3. life'[q] = life[q] /\ call'[q] = call[q]
      BY <1>1
    <3> QED
      BY <2>1, <3>1, <3>2, <3>3, AttendsKept
  <2>2. \A t \in Slots : t # s => \A x : Receivable(t, x)' = Receivable(t, x)
    BY <1>3, ReceivableKept
  <2>3. \A t \in Slots : t # s /\ t \notin misled' => t \notin misled
    BY <1>1
  <2>4. \A t \in Slots : \A x \in Elements(recvq'[t]) : t # s /\ x \in Elements(recvq[t])
    BY <1>7
  <2> QED
    BY <1>2, <2>1, <2>2, <2>3, <2>4, CareKept
<1> QED
  BY <1>6, <1>8, <1>9 DEF WInv

\* A delegation concerns nobody who sleeps.
LEMMA DelegateWakes ==
    ASSUME IInv, WInv, NEW src \in Procs, NEW h \in Handles, NEW dst \in Procs,
           NEW rights \in SUBSET Delegable, ipc_delegate(src, h, dst, rights)
    PROVE  WInv'
<1>1. /\ rec \subseteq rec' /\ local' = [local EXCEPT ![dst] = @ \cup {h}]
      /\ ep' = [ep EXCEPT ![h[1]] = [ep[h[1]] EXCEPT !.peerSeen = TRUE, !.peerCaps = 1]]
      /\ UNCHANGED <<sendq, recvq, call, life, misled>>
  BY DEF ipc_delegate
<1>2. TypeOK' /\ CallHeld /\ NoRoom /\ Cared
  BY DelegateStep DEF IInv, WInv
<1>3. ASSUME NEW t \in Slots
      PROVE  /\ ep'[t].queue = ep[t].queue /\ ep'[t].bulk = ep[t].bulk
             /\ ep'[t].active = ep[t].active /\ ep'[t].gen = ep[t].gen
  <2>1. ep[t] \in Endpoints /\ ep \in [Slots -> Endpoints]
    BY DEF IInv, TypeOK
  <2>2. ep'[t] = ep[t] \/ ep'[t] = [ep[t] EXCEPT !.peerSeen = TRUE, !.peerCaps = 1]
    BY <1>1, <2>1
  <2> QED
    BY <2>1, <2>2 DEF Endpoints
<1>4. CallHeld'
  <2>1. \A q \in Procs : call'[q].phase # "idle" =>
           /\ life'[q] = "running" /\ call[q].phase # "idle"
           /\ call'[q].op = call[q].op /\ call'[q].handle = call[q].handle
    BY <1>1, <1>2 DEF CallHeld, Holds
  <2>2. ASSUME NEW t \in Slots
        PROVE  /\ ep'[t].gen >= ep[t].gen
               /\ ep'[t].active /\ ep'[t].gen = ep[t].gen => ep[t].active
    <3>1. \A n \in Nat : n >= n
      OBVIOUS
    <3>2. ep[t].gen \in Nat
      BY IpcAssumption DEF IInv, TypeOK, Endpoints
    <3> QED
      BY <1>3, <3>1, <3>2
  <2> QED
    BY <1>1, <1>2, <2>1, <2>2, HandlesOutlast
<1>5. NoRoom'
  <2>1. \A t \in Slots : /\ Len(ep'[t].queue) >= Len(ep[t].queue)
                         /\ ep'[t].bulk = NoProc => ep[t].bulk = NoProc
    BY <1>3, QueueLength
  <2> QED
    BY <1>1, <1>2, <2>1, RoomKept
<1>6. Cared'
  <2>1. ASSUME NEW t \in Slots, NEW q \in Procs, Attends(q, t)
        PROVE  Attends(q, t)'
    <3>1. Handle(t)' = Handle(t) /\ ep'[t].queue = ep[t].queue
      BY <1>3 DEF Handle
    <3>2. local[q] \subseteq local'[q]
      BY <1>1 DEF IInv, TypeOK
    <3>3. life'[q] = life[q] /\ call'[q] = call[q]
      BY <1>1
    <3> QED
      BY <2>1, <3>1, <3>2, <3>3, AttendsKept
  <2>2. \A t \in Slots : \A x : Receivable(t, x)' = Receivable(t, x)
    BY <1>3, ReceivableKept
  <2> QED
    BY <1>1, <1>2, <2>1, <2>2, CareKept
<1> QED
  BY <1>4, <1>5, <1>6 DEF WInv

------------------------------------------------------------------------------
(* The wakeup theorem.                                                      *)

\* At the start nobody is in a call.
LEMMA WakeupsInit == Init => WInv
<1> SUFFICES ASSUME Init PROVE WInv
  OBVIOUS
<1>1. \A q \in Procs : call[q].phase = "idle"
  BY DEF Init, Idle
<1>2. \A s \in Slots : Elements(sendq[s]) = {} /\ Elements(recvq[s]) = {}
  BY DEF Init, Elements
<1> QED
  BY <1>1, <1>2 DEF WInv, CallHeld, NoRoom, Cared

\* Every section under ipc_state_lock keeps it.
LEMMA WakeupsNext == IInv /\ WInv /\ [Next]_vars => WInv'
<1> SUFFICES ASSUME IInv, WInv, [Next]_vars PROVE WInv'
  OBVIOUS
<1>1. ASSUME NEW p \in Procs, Capability(p)
      PROVE  WInv'
  <2>1. CASE ipc_create(p) \/ ipc_create_full(p)
    BY <2>1, CreateWakes, UnconcernedWakes
  <2>2. CASE \E h \in Handles : ipc_close(p, h) \/ ipc_release(p, h)
    BY <2>2, CloseWakes, ReleaseWakes
  <2>3. ASSUME NEW h \in Handles, NEW q \in Procs, process_ipc_delegate_identity(p, h, q)
        PROVE  WInv'
    BY <2>3, DelegateWakes DEF process_ipc_delegate_identity
  <2>4. ASSUME NEW h \in Handles, NEW q \in Procs, NEW rights \in Grants,
               process_ipc_delegate(p, h, q, rights)
        PROVE  WInv'
    <3>1. rights \in SUBSET Delegable
      BY IpcAssumption DEF Delegable
    <3> QED
      BY <2>4, <3>1, DelegateWakes DEF process_ipc_delegate
  <2> QED
    BY <1>1, <2>1, <2>2, <2>3, <2>4 DEF Capability
<1>2. ASSUME NEW p \in Procs, ipc_send_timeout(p)
      PROVE  WInv'
  <2>1. PICK op \in SendOps, h \in Handles : send_completes(p, op, h) \/ send_blocks(p, op, h)
    BY <1>2 DEF ipc_send_timeout
  <2> QED
    BY <2>1, SendWakes, SleepWakes
<1>3. ASSUME NEW p \in Procs, ipc_receive_timeout(p)
      PROVE  WInv'
  <2>1. PICK op \in RecvOps, h \in Handles :
            receive_completes(p, op, h) \/ receive_blocks(p, op, h)
    BY <1>3 DEF ipc_receive_timeout
  <2> QED
    BY <2>1, ReceiveWakes, SleepWakes
<1>4. ASSUME NEW p \in Procs,
             \/ woken_call_fails(p) \/ deadline_passes(p) \/ timer_wakes(p)
             \/ process_terminates(p) \/ ipc_process_cleanup(p) \/ process_exits(p)
      PROVE  WInv'
  BY <1>4, AwakeWakes, UnlinkWakes, CleanupWakes, UnconcernedWakes
<1>5. ASSUME NEW s \in Slots, quarantine_endpoint(s)
      PROVE  WInv'
  BY <1>5, QuarantineWakes
<1>6. ASSUME NEW s \in Slots, ipc_send_external_from_peer(s) \/ ipc_send_kernel_to_owner(s)
      PROVE  WInv'
  <2>1. CASE ipc_send_kernel_to_owner(s)
    BY <2>1, IngressWakes DEF ipc_send_kernel_to_owner
  <2>2. CASE ipc_send_external_from_peer(s)
    <3>1. PICK r \in rec : Ingress(s, r.holder)
      BY <2>2 DEF ipc_send_external_from_peer
    <3>2. r.holder \in Procs
      BY DEF IInv, TypeOK, Records
    <3> QED
      BY <3>1, <3>2, IngressWakes
  <2> QED
    BY <1>6, <2>1, <2>2
<1>7. CASE UNCHANGED vars
  <2>1. UNCHANGED <<ep, rec, local, sendq, recvq, call, life, misled>>
    BY <1>7 DEF vars
  <2>2. CallHeld'
    BY <2>1 DEF WInv, CallHeld, Holds, Right
  <2>3. NoRoom'
    BY <2>1 DEF WInv, NoRoom, HasRoom, Elements
  <2>4. Cared'
    <3>1. \A s \in Slots : \A p : /\ Receivable(s, p)' = Receivable(s, p)
                                  /\ Attends(p, s)' <=> Attends(p, s)
      BY <2>1 DEF Receivable, Attends, Handle
    <3>2. \A s \in Slots : Elements(recvq[s])' = Elements(recvq[s]) /\ misled' = misled
      BY <2>1
    <3> QED
      BY <3>1, <3>2 DEF WInv, Cared
  <2> QED
    BY <2>2, <2>3, <2>4 DEF WInv
<1> QED
  BY <1>1, <1>2, <1>3, <1>4, <1>5, <1>6, <1>7 DEF Next

\* What the sleepers of an endpoint count on, in every reachable state.
THEOREM WakeupInvariant == Spec => [](IInv /\ WInv)
<1>1. Init => IInv /\ WInv
  BY InitEstablishes, WakeupsInit
<1>2. IInv /\ WInv /\ [Next]_vars => (IInv /\ WInv)'
  BY NextPreserves, WakeupsNext
<1> QED
  BY <1>1, <1>2, PTL DEF Spec

\* A sender is never asleep while there is room for what it sends.
THEOREM SendersWaitForRoom == Spec => []NoRoom
BY WakeupInvariant, PTL DEF WInv

\* send and receive wake one sleeper and not all, ingress wakes one receiver: none of
\* these wakeups is lost, for any number of processes and any queue depth.
THEOREM IpcWakeupsKept == Spec => []NoLostWakeup
<1>1. IInv /\ WInv => NoLostWakeup
  <2> SUFFICES ASSUME IInv, WInv, NEW s \in Slots \ misled
               PROVE  /\ \A p \in Elements(recvq[s]) : Receivable(s, p) # {} => Attended(s, p)
                      /\ \A p \in Elements(sendq[s]) : HasRoom(s, call[p].op) => Attended(s, p)
    BY DEF NoLostWakeup
  <2>1. \A p \in Elements(sendq[s]) : ~HasRoom(s, call[p].op)
    BY DEF WInv, NoRoom
  <2>2. ASSUME NEW p \in Elements(recvq[s]), Receivable(s, p) # {}
        PROVE  Attended(s, p)
    <3>1. PICK q \in Procs : q # p /\ Attends(q, s)
      BY <2>2 DEF WInv, Cared
    <3> QED
      BY <3>1 DEF Attends, Attended
  <2> QED
    BY <2>1, <2>2
<1> QED
  BY <1>1, WakeupInvariant, PTL
=============================================================================
