------------------------------ MODULE IpcProofs ------------------------------
(***************************************************************************)
(* Capabilities and wait queues of the IPC endpoints, for any number of    *)
(* processes, endpoint slots, generations, queue places and records: the   *)
(* two capability tables agree with the endpoints after every operation,   *)
(* and nobody sleeps on an endpoint that can no longer serve him.          *)
(***************************************************************************)
EXTENDS Ipc, WellFoundedInduction, TLAPS

------------------------------------------------------------------------------
(* The inductive invariant.                                                 *)

\* A process holds at most one record on an endpoint.
RecordsDistinct ==
    \A r1, r2 \in rec : r1.handle = r2.handle /\ r1.holder = r2.holder => r1 = r2

\* p sleeps in a call on endpoint s that may still be served.
Linked(p, s, ops) ==
    /\ call[p].phase = "wait" /\ call[p].op \in ops /\ call[p].handle = Handle(s)
    /\ life[p] = "running" /\ Handle(s) \in local[p]
    /\ ~PeerGone(s)

NoDup(q) == \A i, j \in 1..Len(q) : q[i] = q[j] => i = j

QueueExact ==
    \A s \in Slots :
        /\ \A p \in Elements(sendq[s]) : Linked(p, s, SendOps)
        /\ \A p \in Elements(recvq[s]) : Linked(p, s, RecvOps)
        /\ NoDup(sendq[s]) /\ NoDup(recvq[s])

IInv == TypeOK /\ CapabilityExact /\ RecordsDistinct /\ QueueExact

------------------------------------------------------------------------------
(* Sequences.                                                               *)

\* The members of a sequence.
LEMMA ElementsSeq ==
    ASSUME NEW S, NEW q \in Seq(S)
    PROVE  /\ Elements(q) = {q[i] : i \in 1..Len(q)} /\ Elements(q) \subseteq S
           /\ Elements(<<>>) = {}
BY DEF Elements

\* Queueing at the tail.
LEMMA AppendSeq ==
    ASSUME NEW S, NEW q \in Seq(S), NEW p \in S, p \notin Elements(q), NoDup(q)
    PROVE  /\ Append(q, p) \in Seq(S)
           /\ Elements(Append(q, p)) = Elements(q) \cup {p}
           /\ NoDup(Append(q, p))
BY DEF Elements, NoDup

\* Waking the head.
LEMMA RestSeq ==
    ASSUME NEW S, NEW q \in Seq(S), NoDup(q)
    PROVE  /\ Rest(q) \in Seq(S) /\ NoDup(Rest(q))
           /\ Elements(Rest(q)) \subseteq Elements(q)
           /\ q # <<>> => Head(q) \in Elements(q) /\ Head(q) \notin Elements(Rest(q))
BY DEF Rest, Elements, NoDup

\* Taking one element out.
LEMMA WithoutSeq ==
    ASSUME NEW S, NEW q \in Seq(S), NEW i \in 1..Len(q)
    PROVE  /\ Without(q, i) \in Seq(S) /\ Len(Without(q, i)) = Len(q) - 1
           /\ \A j \in 1..Len(q) - 1 : Without(q, i)[j] = IF j < i THEN q[j] ELSE q[j + 1]
<1>1. \A j \in 1..Len(q) - 1 : (IF j < i THEN q[j] ELSE q[j + 1]) \in S
  OBVIOUS
<1>2. Len(q) - 1 \in Nat
  OBVIOUS
<1> QED
  BY <1>1, <1>2 DEF Without

\* Unlinking a sleeper.
LEMMA UnlinkedSeq ==
    ASSUME NEW S, NEW q \in Seq(S), NEW p, NoDup(q)
    PROVE  /\ Unlinked(q, p) \in Seq(S) /\ NoDup(Unlinked(q, p))
           /\ Elements(Unlinked(q, p)) \subseteq Elements(q) \ {p}
<1>1. CASE p \notin Elements(q)
  BY <1>1 DEF Unlinked
<1>2. CASE p \in Elements(q)
  <2> DEFINE i == CHOOSE i \in DOMAIN q : q[i] = p
             w == Without(q, i)
  <2>1. i \in 1..Len(q) /\ q[i] = p
    BY <1>2 DEF Elements
  <2> HIDE DEF i
  <2>2. w \in Seq(S) /\ Len(w) = Len(q) - 1
        /\ \A j \in 1..Len(q) - 1 : w[j] = IF j < i THEN q[j] ELSE q[j + 1]
    BY <2>1, WithoutSeq
  <2>3. Unlinked(q, p) = w
    BY <1>2 DEF Unlinked, i
  <2> HIDE DEF w
  <2>4. NoDup(w)
    BY <2>1, <2>2 DEF NoDup
  <2>5. Elements(w) \subseteq Elements(q) \ {p}
    <3>1. SUFFICES ASSUME NEW j \in 1..Len(w)
                   PROVE  w[j] \in Elements(q) /\ w[j] # p
      BY <2>2, ElementsSeq
    <3>2. w[j] = (IF j < i THEN q[j] ELSE q[j + 1])
      BY <2>2
    <3>3. j \in 1..Len(q) /\ j + 1 \in 1..Len(q) /\ (j < i => j # i) /\ (~(j < i) => j + 1 # i)
      BY <2>1, <2>2
    <3>4. w[j] # p
      BY <2>1, <3>2, <3>3 DEF NoDup
    <3> QED
      BY <3>2, <3>3, <3>4, ElementsSeq
  <2> QED
    BY <2>2, <2>3, <2>4, <2>5
<1> QED
  BY <1>1, <1>2

------------------------------------------------------------------------------
(* Handles, sleepers and wakeups.                                           *)

\* A handle that resolves names the present incarnation of its slot.
LEMMA HandleCurrent ==
    ASSUME NEW p, NEW h \in Handles, NEW rights, Resolves(p, h, rights)
    PROVE  h[1] \in Slots /\ h = Handle(h[1]) /\ h \in local[p] /\ ep[h[1]].active
BY DEF Handles, Resolves, Handle

\* Handles of different slots differ.
LEMMA HandlesDiffer ==
    ASSUME NEW s, NEW t, Handle(s) = Handle(t)
    PROVE  s = t
BY DEF Handle

\* A process that is not asleep is linked nowhere.
LEMMA AwakeUnlinked ==
    ASSUME QueueExact, NEW p, call[p].phase # "wait"
    PROVE  \A s \in Slots : p \notin Elements(sendq[s]) /\ p \notin Elements(recvq[s])
BY DEF QueueExact, Linked

\* A sleeper is linked on one slot only, and on one of its queues.
LEMMA LinkedOnce ==
    ASSUME QueueExact, NEW s \in Slots, NEW t \in Slots, NEW p
    PROVE  /\ p \in Elements(sendq[s]) => p \notin Elements(recvq[t])
           /\ p \in Elements(sendq[s]) /\ p \in Elements(sendq[t]) => s = t
           /\ p \in Elements(recvq[s]) /\ p \in Elements(recvq[t]) => s = t
BY HandlesDiffer DEF QueueExact, Linked, SendOps, RecvOps

\* Queues that lose members, while those who stay keep what makes them linked.
LEMMA QueueKept ==
    ASSUME QueueExact,
           \A s \in Slots : /\ Elements(sendq'[s]) \subseteq Elements(sendq[s])
                            /\ Elements(recvq'[s]) \subseteq Elements(recvq[s])
                            /\ NoDup(sendq'[s]) /\ NoDup(recvq'[s]),
           \A s \in Slots : \A p \in Elements(sendq'[s]) \cup Elements(recvq'[s]) :
               /\ call'[p] = call[p] /\ life'[p] = life[p]
               /\ Handle(s)' = Handle(s) /\ Handle(s) \in local'[p]
               /\ PeerGone(s)' => PeerGone(s)
    PROVE  QueueExact'
<1>1. ASSUME NEW s \in Slots, NEW p \in Elements(sendq'[s])
      PROVE  Linked(p, s, SendOps)'
  BY <1>1 DEF QueueExact, Linked, SendOps
<1>2. ASSUME NEW s \in Slots, NEW p \in Elements(recvq'[s])
      PROVE  Linked(p, s, RecvOps)'
  BY <1>2 DEF QueueExact, Linked, RecvOps
<1>3. \A s \in Slots : NoDup(sendq[s])' /\ NoDup(recvq[s])'
  BY DEF NoDup
<1> QED
  BY <1>1, <1>2, <1>3 DEF QueueExact, Elements

\* A change of phase of a call that is under way.
LEMMA PhaseType ==
    ASSUME NEW c \in Calls, c.phase = "wait"
    PROVE  [c EXCEPT !.phase = "run"] \in Calls
BY DEF Calls, Idle

\* wait_queue_wake_all_locked on the slots in W.
LEMMA WakeAllStep ==
    ASSUME TypeOK, QueueExact, NEW W \in SUBSET Slots, WakeAll(W)
    PROVE  /\ sendq' \in [Slots -> Seq(Procs)] /\ recvq' \in [Slots -> Seq(Procs)]
           /\ call' \in [Procs -> Calls]
           /\ \A s \in W : sendq'[s] = <<>> /\ recvq'[s] = <<>>
           /\ \A s \in Slots \ W : sendq'[s] = sendq[s] /\ recvq'[s] = recvq[s]
           /\ \A s \in Slots \ W : \A p \in Elements(sendq[s]) \cup Elements(recvq[s]) :
                  p \in Procs /\ call'[p] = call[p]
<1> DEFINE woken == {p \in Procs : \E s \in W : p \in Elements(sendq[s]) \/ p \in Elements(recvq[s])}
<1>1. /\ sendq' = [s \in Slots |-> IF s \in W THEN <<>> ELSE sendq[s]]
      /\ recvq' = [s \in Slots |-> IF s \in W THEN <<>> ELSE recvq[s]]
      /\ call' = [p \in Procs |-> IF p \in woken THEN [call[p] EXCEPT !.phase = "run"]
                                                 ELSE call[p]]
  BY DEF WakeAll
<1>2. \A p \in woken : call[p].phase = "wait"
  BY DEF QueueExact, Linked
<1>3. call' \in [Procs -> Calls]
  <2>1. \A p \in woken : [call[p] EXCEPT !.phase = "run"] \in Calls
    BY <1>2, PhaseType DEF TypeOK
  <2> QED
    BY <1>1, <2>1 DEF TypeOK
<1>4. /\ sendq' \in [Slots -> Seq(Procs)] /\ recvq' \in [Slots -> Seq(Procs)]
      /\ \A s \in W : sendq'[s] = <<>> /\ recvq'[s] = <<>>
      /\ \A s \in Slots \ W : sendq'[s] = sendq[s] /\ recvq'[s] = recvq[s]
  <2>1. <<>> \in Seq(Procs)
    OBVIOUS
  <2> QED
    BY <1>1, <2>1 DEF TypeOK
<1>5. ASSUME NEW s \in Slots \ W, NEW p \in Elements(sendq[s]) \cup Elements(recvq[s])
      PROVE  p \in Procs /\ call'[p] = call[p]
  <2>1. p \in Procs
    BY <1>5, ElementsSeq DEF TypeOK
  <2>2. p \notin woken
    BY <1>5, LinkedOnce
  <2> QED
    BY <1>1, <2>1, <2>2
<1> QED
  BY <1>3, <1>4, <1>5

------------------------------------------------------------------------------
(* Withdrawing capabilities.                                                *)

\* Records leave both tables, endpoints die, and everybody on the slots concerned
\* is woken: clear_capability_record_locked and revoke_endpoint_locked as release,
\* close, quarantine and the cleanup of a process combine them.
LEMMA WithdrawStep ==
    ASSUME IInv, NEW gone \in SUBSET rec, NEW dead \in SUBSET Slots, NEW W \in SUBSET Slots,
           Drop(gone, dead), WakeAll(W), misled' = misled,
           life' \in [Procs -> {"running", "terminating", "cleaned", "exited"}],
           \A p \in Procs : life[p] = "running" => life'[p] = "running",
           dead \subseteq W, \A r \in gone : r.handle[1] \in W,
           \A r \in rec : r.handle[1] \in dead => r \in gone,
           \A r \in gone : r.handle[1] \notin dead => "CONTROL" \notin r.rights
    PROVE  IInv'
<1>1. /\ rec' = rec \ gone
      /\ local' = [p \in Procs |-> local[p] \ {r.handle : r \in {g \in gone : g.holder = p}}]
      /\ ep' = [s \in Slots |-> IF s \in dead THEN Revoked(ep[s])
                                ELSE IF \E r \in gone : IsPeerRecord(r, s)
                                     THEN [ep[s] EXCEPT !.peerCaps = 0]
                                     ELSE ep[s]]
  BY DEF Drop
<1>2. \A r \in rec : r \in Records /\ r.handle[1] \in Slots /\ r.holder \in Procs
  BY DEF IInv, TypeOK, Records, Handles
<1>3. ep' \in [Slots -> Endpoints] /\ \A s \in Slots : Len(ep'[s].queue) <= QueueDepth
  <2>1. ASSUME NEW s \in Slots
        PROVE  ep'[s] \in Endpoints /\ Len(ep'[s].queue) <= QueueDepth
    <3>1. ep[s] \in Endpoints /\ Len(ep[s].queue) <= QueueDepth
      BY DEF IInv, TypeOK
    <3>2. Revoked(ep[s]) \in Endpoints /\ Len(Revoked(ep[s]).queue) <= QueueDepth
      <4>1. Revoked(ep[s]) \in Endpoints
        <5>1. <<>> \in Seq(Procs \cup {Kernel})
          OBVIOUS
        <5> QED
          BY <3>1, <5>1 DEF Revoked, Endpoints
      <4>2. Revoked(ep[s]).queue = <<>>
        BY <3>1 DEF Revoked, Endpoints
      <4> QED
        BY <4>1, <4>2, IpcAssumption
    <3>3. /\ [ep[s] EXCEPT !.peerCaps = 0] \in Endpoints
          /\ Len([ep[s] EXCEPT !.peerCaps = 0].queue) <= QueueDepth
      BY <3>1 DEF Endpoints
    <3> QED
      BY <1>1, <3>1, <3>2, <3>3
  <2> QED
    BY <1>1, <2>1
<1>4. local' \in [Procs -> SUBSET Handles] /\ rec' \subseteq Records
  BY <1>1 DEF IInv, TypeOK
<1>5. TypeOK'
  BY <1>3, <1>4, WakeAllStep DEF IInv, TypeOK
<1>6. \A s \in Slots : /\ ep'[s].gen = ep[s].gen /\ ep'[s].owner = ep[s].owner
                       /\ ep'[s].peerSeen = ep[s].peerSeen
                       /\ ep'[s].active = (ep[s].active /\ s \notin dead)
                       /\ ep'[s].peerCaps = IF s \in dead \/ \E r \in gone : IsPeerRecord(r, s)
                                            THEN 0 ELSE ep[s].peerCaps
  <2>1. \A s \in Slots : ep[s] \in Endpoints
    BY DEF IInv, TypeOK
  <2> QED
    BY <1>1, <2>1 DEF Revoked, Endpoints
<1>7. \A s \in Slots : Handle(s)' = Handle(s)
  BY <1>6 DEF Handle
<1>8. RecordsDistinct'
  BY <1>1 DEF IInv, RecordsDistinct
<1>9. CapabilityExact'
  <2>1. ASSUME NEW r \in rec'
        PROVE  /\ ep'[r.handle[1]].active /\ r.handle = Handle(r.handle[1])'
               /\ ("CONTROL" \in r.rights) <=> (ep'[r.handle[1]].owner = r.holder)
    BY <1>1, <1>2, <1>6, <1>7, <2>1 DEF IInv, CapabilityExact
  <2>2. ASSUME NEW p \in Procs
        PROVE  local'[p] = {r.handle : r \in {x \in rec' : x.holder = p}}
    <3>1. local[p] = {r.handle : r \in {x \in rec : x.holder = p}}
      BY DEF IInv, CapabilityExact
    <3> QED
      BY <1>1, <3>1 DEF IInv, RecordsDistinct
  <2>3. ASSUME NEW s \in Slots
        PROVE  (ep'[s].peerCaps = 1) <=> \E r \in rec' : IsPeerRecord(r, s)
    <3>1. (ep[s].peerCaps = 1) <=> \E r \in rec : IsPeerRecord(r, s)
      BY DEF IInv, CapabilityExact
    <3>2. \A r1, r2 \in rec : IsPeerRecord(r1, s) /\ IsPeerRecord(r2, s) => r1 = r2
      BY DEF IInv, CapabilityExact
    <3>3. CASE s \in dead
      BY <1>1, <1>6, <3>3 DEF IsPeerRecord
    <3>4. CASE s \notin dead
      BY <1>1, <1>6, <3>1, <3>2, <3>4
    <3> QED
      BY <3>3, <3>4
  <2>4. ASSUME NEW s \in Slots
        PROVE  \A r1, r2 \in rec' : IsPeerRecord(r1, s) /\ IsPeerRecord(r2, s) => r1 = r2
    BY <1>1 DEF IInv, CapabilityExact
  <2>5. ASSUME NEW s \in Slots, ep'[s].active
        PROVE  \E r \in rec' : r.handle = Handle(s)' /\ r.holder = ep'[s].owner
    <3>1. ep[s].active /\ s \notin dead
      BY <1>6, <2>5
    <3>2. PICK r \in rec : r.handle = Handle(s) /\ r.holder = ep[s].owner
      BY <3>1 DEF IInv, CapabilityExact
    <3>3. r.handle[1] = s
      BY <3>2 DEF Handle
    <3>4. "CONTROL" \in r.rights
      BY <3>2, <3>3 DEF IInv, CapabilityExact
    <3> QED
      BY <1>1, <1>6, <1>7, <3>1, <3>2, <3>3, <3>4
  <2> QED
    BY <2>1, <2>2, <2>3, <2>4, <2>5 DEF CapabilityExact, IsPeerRecord
<1>10. QueueExact'
  <2>1. \A s \in Slots : s \in W => sendq'[s] = <<>> /\ recvq'[s] = <<>>
    BY WakeAllStep DEF IInv
  <2>2. \A s \in Slots : s \notin W => /\ sendq'[s] = sendq[s] /\ recvq'[s] = recvq[s]
                                       /\ \A p \in Elements(sendq[s]) \cup Elements(recvq[s]) :
                                              p \in Procs /\ call'[p] = call[p]
    BY WakeAllStep DEF IInv
  <2>3. Elements(<<>>) = {} /\ NoDup(<<>>)
    BY DEF Elements, NoDup
  <2>4. \A s \in Slots : /\ Elements(sendq'[s]) \subseteq Elements(sendq[s])
                         /\ Elements(recvq'[s]) \subseteq Elements(recvq[s])
                         /\ NoDup(sendq'[s]) /\ NoDup(recvq'[s])
    BY <2>1, <2>2, <2>3 DEF IInv, QueueExact
  <2>5. ASSUME NEW s \in Slots, NEW p \in Elements(sendq'[s]) \cup Elements(recvq'[s])
        PROVE  /\ call'[p] = call[p] /\ life'[p] = life[p]
               /\ Handle(s)' = Handle(s) /\ Handle(s) \in local'[p]
               /\ PeerGone(s)' => PeerGone(s)
    <3>1. s \notin W /\ p \in Elements(sendq[s]) \cup Elements(recvq[s])
      BY <2>1, <2>2, <2>3, <2>5
    <3>2. p \in Procs /\ call'[p] = call[p]
      BY <2>2, <3>1
    <3>3. life[p] = "running" /\ Handle(s) \in local[p]
      BY <3>1 DEF IInv, QueueExact, Linked
    <3>4. life'[p] = life[p]
      BY <3>2, <3>3
    <3>5. \A r \in gone : r.handle # Handle(s)
      BY <3>1 DEF Handle
    <3>6. Handle(s) \in local'[p]
      BY <1>1, <3>2, <3>3, <3>5
    <3>7. ep'[s].peerCaps = ep[s].peerCaps /\ ep'[s].peerSeen = ep[s].peerSeen
      BY <1>6, <3>1 DEF IsPeerRecord
    <3> QED
      BY <1>7, <3>2, <3>4, <3>6, <3>7 DEF PeerGone
  <2> QED
    BY <2>4, <2>5, QueueKept DEF IInv
<1> QED
  BY <1>5, <1>8, <1>9, <1>10 DEF IInv

------------------------------------------------------------------------------
(* Operations that withdraw capabilities.                                   *)

\* A peer gives its capability back.
LEMMA ReleaseStep ==
    ASSUME IInv, NEW p \in Procs, NEW h \in Handles, ipc_release(p, h)
    PROVE  IInv'
<1> DEFINE gone == {r \in rec : r.handle = h /\ r.holder = p}
<1>1. h[1] \in Slots /\ ep[h[1]].owner # p
  BY HandleCurrent DEF ipc_release
<1>2. Drop(gone, {}) /\ WakeAll({h[1]}) /\ life' = life /\ misled' = misled
  BY DEF ipc_release
<1>3. \A r \in gone : r.handle[1] = h[1] /\ "CONTROL" \notin r.rights
  BY <1>1 DEF IInv, CapabilityExact
<1> HIDE DEF gone
<1>4. gone \in SUBSET rec /\ {} \in SUBSET Slots /\ {h[1]} \in SUBSET Slots
  BY <1>1 DEF gone
<1>5. life' \in [Procs -> {"running", "terminating", "cleaned", "exited"}]
  BY <1>2 DEF IInv, TypeOK
<1> QED
  BY <1>1, <1>2, <1>3, <1>4, <1>5, WithdrawStep

\* The owner closes its endpoint.
LEMMA CloseStep ==
    ASSUME IInv, NEW p \in Procs, NEW h \in Handles, ipc_close(p, h)
    PROVE  IInv'
<1> DEFINE dead == {h[1]}
           gone == RecordsOf(dead)
<1>1. h[1] \in Slots
  BY HandleCurrent DEF ipc_close
<1>2. Drop(gone, dead) /\ WakeAll(dead) /\ life' = life /\ misled' = misled
  BY DEF ipc_close
<1>3. gone \in SUBSET rec /\ \A r \in gone : r.handle[1] \in dead
  BY DEF RecordsOf, Handle
<1>4. \A r \in rec : r.handle[1] \in dead => r \in gone
  BY DEF RecordsOf, IInv, CapabilityExact
<1>5. life' \in [Procs -> {"running", "terminating", "cleaned", "exited"}] /\ dead \in SUBSET Slots
  BY <1>1, <1>2 DEF IInv, TypeOK
<1> HIDE DEF gone, dead
<1> QED
  BY <1>2, <1>3, <1>4, <1>5, WithdrawStep

\* Unusable protected data takes the endpoint and its records out of service.
LEMMA QuarantineStep ==
    ASSUME IInv, NEW s \in Slots, quarantine_endpoint(s)
    PROVE  IInv'
<1> DEFINE gone == {r \in rec : r.handle[1] = s}
<1>1. Drop(gone, {s}) /\ WakeAll({s}) /\ life' = life /\ misled' = misled
  BY DEF quarantine_endpoint
<1>2. gone \in SUBSET rec /\ \A r \in gone : r.handle[1] = s
  OBVIOUS
<1>3. \A r \in rec : r.handle[1] \in {s} => r \in gone
  OBVIOUS
<1>4. life' \in [Procs -> {"running", "terminating", "cleaned", "exited"}] /\ {s} \in SUBSET Slots
  BY <1>1 DEF IInv, TypeOK
<1> HIDE DEF gone
<1> QED
  BY <1>1, <1>2, <1>3, <1>4, WithdrawStep

\* ipc_process_cleanup: the endpoints of a dying process and its records on others.
LEMMA CleanupStep ==
    ASSUME IInv, NEW p \in Procs, ipc_process_cleanup(p)
    PROVE  IInv'
<1> DEFINE dead == {s \in Slots : ep[s].active /\ ep[s].owner = p}
           gone == RecordsOf(dead) \cup {r \in rec : r.holder = p}
           W == dead \cup {r.handle[1] : r \in gone}
<1>1. /\ life[p] = "terminating" /\ life' = [life EXCEPT ![p] = "cleaned"]
      /\ Drop(gone, dead) /\ WakeAll(W) /\ misled' = misled
  BY DEF ipc_process_cleanup
<1>2. gone \in SUBSET rec /\ dead \in SUBSET Slots
  BY DEF RecordsOf
<1>3. W \in SUBSET Slots
  <2>1. \A r \in rec : r.handle[1] \in Slots
    BY DEF IInv, TypeOK, Records, Handles
  <2> QED
    BY <1>2, <2>1
<1>4. \A r \in rec : r.handle[1] \in dead => r \in gone
  BY DEF RecordsOf, IInv, CapabilityExact
<1>5. \A r \in gone : r.handle[1] \notin dead => "CONTROL" \notin r.rights
  <2>1. SUFFICES ASSUME NEW r \in rec, r.holder = p, r.handle[1] \notin dead
                 PROVE  "CONTROL" \notin r.rights
    BY DEF RecordsOf, Handle
  <2>2. r.handle[1] \in Slots
    BY DEF IInv, TypeOK, Records, Handles
  <2> QED
    BY <2>1, <2>2 DEF IInv, CapabilityExact
<1>6. /\ life' \in [Procs -> {"running", "terminating", "cleaned", "exited"}]
      /\ \A q \in Procs : life[q] = "running" => life'[q] = "running"
  BY <1>1 DEF IInv, TypeOK
<1>7. dead \subseteq W /\ \A r \in gone : r.handle[1] \in W
  OBVIOUS
<1> HIDE DEF dead, gone, W
<1> QED
  BY <1>1, <1>2, <1>3, <1>4, <1>5, <1>6, <1>7, WithdrawStep

------------------------------------------------------------------------------
(* Operations that hand out capabilities.                                   *)

\* Retiring a slot changes nothing else.
LEMMA RetiredType ==
    ASSUME NEW e \in Endpoints
    PROVE  LET r == [e EXCEPT !.retired = TRUE]
           IN  /\ r \in Endpoints /\ r.queue = e.queue /\ r.active = e.active /\ r.gen = e.gen
               /\ r.owner = e.owner /\ r.peerCaps = e.peerCaps /\ r.peerSeen = e.peerSeen
BY DEF Endpoints

\* Delegation marks the endpoint's one peer place as taken and leaves the rest.
LEMMA PeerTakenType ==
    ASSUME NEW e \in Endpoints
    PROVE  LET r == [e EXCEPT !.peerSeen = TRUE, !.peerCaps = 1]
           IN  /\ r \in Endpoints /\ r.queue = e.queue /\ r.active = e.active /\ r.gen = e.gen
               /\ r.owner = e.owner /\ r.peerCaps = 1
<1> DEFINE r == [e EXCEPT !.peerSeen = TRUE, !.peerCaps = 1]
<1>1. r \in Endpoints
  BY DEF Endpoints
<1>2. r.queue = e.queue /\ r.active = e.active /\ r.gen = e.gen /\ r.owner = e.owner
  BY DEF Endpoints
<1>3. r.peerCaps = 1
  BY DEF Endpoints
<1> QED
  BY <1>1, <1>2, <1>3

\* ipc_create opens the next incarnation of a slot nobody waits on.
LEMMA CreateStep ==
    ASSUME IInv, NEW p \in Procs, ipc_create(p)
    PROVE  IInv'
<1>1. PICK s \in Slots :
         /\ Usable(s)
         /\ ep' = [t \in Slots |-> IF t = s THEN Opened(s, p)
                                   ELSE IF t < s /\ Exhausted(t)
                                        THEN [ep[t] EXCEPT !.retired = TRUE]
                                        ELSE ep[t]]
         /\ rec' = rec \cup {[handle |-> <<s, ep[s].gen + 1>>, holder |-> p, rights |-> AllRights]}
         /\ local' = [local EXCEPT ![p] = @ \cup {<<s, ep[s].gen + 1>>}]
         /\ sendq' = [sendq EXCEPT ![s] = <<>>] /\ recvq' = [recvq EXCEPT ![s] = <<>>]
         /\ misled' = misled \ {s} /\ call' = call /\ life' = life
  BY DEF ipc_create
<1> DEFINE h == <<s, ep[s].gen + 1>>
           new == [handle |-> h, holder |-> p, rights |-> AllRights]
<1>2. ~ep[s].active /\ ep[s].gen \in 0..MaxGeneration - 1 /\ h \in Handles
  BY <1>1, IpcAssumption DEF IInv, TypeOK, Endpoints, Usable, Free, Handles
<1>3. \A r \in rec : r.handle[1] # s
  BY <1>2 DEF IInv, CapabilityExact
<1>4. new \in Records /\ "CONTROL" \in new.rights /\ new.handle[1] = s
  <2>1. AllRights \in (SUBSET AllRights) \ {{}} /\ "CONTROL" \in AllRights
    BY DEF AllRights
  <2>2. new.handle = h /\ new.holder = p /\ new.rights = AllRights /\ h[1] = s
    OBVIOUS
  <2>3. new \in [handle : Handles, holder : Procs, rights : (SUBSET AllRights) \ {{}}]
    <3> HIDE DEF h
    <3> QED
      BY <1>2, <2>1
  <2> QED
    BY <2>1, <2>2, <2>3 DEF Records
<1>5. /\ Opened(s, p) \in Endpoints /\ Opened(s, p).queue = <<>>
      /\ Opened(s, p).active /\ Opened(s, p).owner = p /\ Opened(s, p).gen = ep[s].gen + 1
      /\ Opened(s, p).peerCaps = 0
  <2>1. <<>> \in Seq(Procs \cup {Kernel})
    OBVIOUS
  <2>2. EmptyEndpoint \in Endpoints
    BY <2>1, IpcAssumption DEF EmptyEndpoint, Endpoints
  <2>3. EmptyEndpoint.queue = <<>> /\ EmptyEndpoint.peerCaps = 0
    BY DEF EmptyEndpoint
  <2>4. ep[s].gen + 1 \in 0..MaxGeneration
    BY <1>2, IpcAssumption
  <2> QED
    BY <2>2, <2>3, <2>4 DEF Opened, Endpoints
<1>6. ASSUME NEW t \in Slots, t # s
      PROVE  /\ ep'[t] \in Endpoints /\ ep'[t].queue = ep[t].queue /\ ep'[t].active = ep[t].active
             /\ ep'[t].gen = ep[t].gen /\ ep'[t].owner = ep[t].owner
             /\ ep'[t].peerCaps = ep[t].peerCaps /\ ep'[t].peerSeen = ep[t].peerSeen
  <2>1. ep[t] \in Endpoints
    BY DEF IInv, TypeOK
  <2>2. ep'[t] = ep[t] \/ ep'[t] = [ep[t] EXCEPT !.retired = TRUE]
    BY <1>1, <1>6
  <2> QED
    BY <2>1, <2>2, RetiredType
<1>7. ep'[s] = Opened(s, p)
  BY <1>1
<1>8. TypeOK'
  <2>1. ep' \in [Slots -> Endpoints] /\ \A t \in Slots : Len(ep'[t].queue) <= QueueDepth
    <3>1. ep' \in [Slots -> Endpoints]
      BY <1>1, <1>5, <1>6, <1>7
    <3>2. \A t \in Slots : Len(ep[t].queue) <= QueueDepth
      BY DEF IInv, TypeOK
    <3> QED
      BY <1>5, <1>6, <1>7, <3>1, <3>2, IpcAssumption
  <2>2. <<>> \in Seq(Procs)
    OBVIOUS
  <2>3. sendq' \in [Slots -> Seq(Procs)] /\ recvq' \in [Slots -> Seq(Procs)]
    BY <1>1, <2>2 DEF IInv, TypeOK
  <2> QED
    BY <1>1, <1>2, <1>4, <2>1, <2>3 DEF IInv, TypeOK
<1>9. \A t \in Slots : t # s => Handle(t)' = Handle(t)
  BY <1>6 DEF Handle
<1>10. Handle(s)' = h
  BY <1>5, <1>7 DEF Handle
<1> HIDE DEF new
<1>11. new.handle = h /\ new.holder = p
  BY DEF new
<1>12. RecordsDistinct'
  BY <1>1, <1>3, <1>11 DEF IInv, RecordsDistinct, new
<1>13. CapabilityExact'
  <2>1. rec' = rec \cup {new}
    BY <1>1 DEF new
  <2>2. \A r \in rec : r.handle[1] \in Slots /\ r.handle[1] # s
    BY <1>3 DEF IInv, TypeOK, Records, Handles
  <2>3. ASSUME NEW r \in rec'
        PROVE  /\ ep'[r.handle[1]].active /\ r.handle = Handle(r.handle[1])'
               /\ ("CONTROL" \in r.rights) <=> (ep'[r.handle[1]].owner = r.holder)
    <3>1. CASE r \in rec
      BY <1>6, <1>9, <2>2, <3>1 DEF IInv, CapabilityExact
    <3>2. CASE r = new
      BY <1>4, <1>5, <1>7, <1>10, <1>11, <3>2
    <3> QED
      BY <2>1, <2>3, <3>1, <3>2
  <2>4. ASSUME NEW q \in Procs
        PROVE  local'[q] = {r.handle : r \in {x \in rec' : x.holder = q}}
    <3>1. local[q] = {r.handle : r \in {x \in rec : x.holder = q}}
      BY DEF IInv, CapabilityExact
    <3>2. local'[q] = IF q = p THEN local[q] \cup {h} ELSE local[q]
      BY <1>1 DEF IInv, TypeOK
    <3> QED
      BY <1>11, <2>1, <3>1, <3>2
  <2>5. \A t \in Slots : \A r \in rec' : IsPeerRecord(r, t) => r \in rec /\ t # s
    BY <1>4, <2>1, <2>2 DEF IsPeerRecord
  <2>6. ASSUME NEW t \in Slots
        PROVE  /\ (ep'[t].peerCaps = 1) <=> \E r \in rec' : IsPeerRecord(r, t)
               /\ \A r1, r2 \in rec' : IsPeerRecord(r1, t) /\ IsPeerRecord(r2, t) => r1 = r2
    BY <1>5, <1>6, <1>7, <2>1, <2>5 DEF IInv, CapabilityExact
  <2>7. ASSUME NEW t \in Slots, ep'[t].active
        PROVE  \E r \in rec' : r.handle = Handle(t)' /\ r.holder = ep'[t].owner
    <3>1. CASE t = s
      BY <1>5, <1>7, <1>10, <1>11, <2>1, <3>1
    <3>2. CASE t # s
      BY <1>6, <1>9, <2>1, <2>7, <3>2 DEF IInv, CapabilityExact
    <3> QED
      BY <3>1, <3>2
  <2> QED
    BY <2>3, <2>4, <2>6, <2>7 DEF CapabilityExact, IsPeerRecord
<1>14. QueueExact'
  <2>1. Elements(<<>>) = {} /\ NoDup(<<>>)
    BY DEF Elements, NoDup
  <2>2. sendq'[s] = <<>> /\ recvq'[s] = <<>>
        /\ \A t \in Slots : t # s => sendq'[t] = sendq[t] /\ recvq'[t] = recvq[t]
    BY <1>1 DEF IInv, TypeOK
  <2>3. \A t \in Slots : /\ Elements(sendq'[t]) \subseteq Elements(sendq[t])
                         /\ Elements(recvq'[t]) \subseteq Elements(recvq[t])
                         /\ NoDup(sendq'[t]) /\ NoDup(recvq'[t])
    BY <2>1, <2>2 DEF IInv, QueueExact
  <2>4. ASSUME NEW t \in Slots, NEW q \in Elements(sendq'[t]) \cup Elements(recvq'[t])
        PROVE  /\ call'[q] = call[q] /\ life'[q] = life[q]
               /\ Handle(t)' = Handle(t) /\ Handle(t) \in local'[q]
               /\ PeerGone(t)' => PeerGone(t)
    <3>1. t # s /\ q \in Elements(sendq[t]) \cup Elements(recvq[t])
      BY <2>1, <2>2, <2>4
    <3>2. q \in Procs
      BY <3>1, ElementsSeq DEF IInv, TypeOK
    <3>3. Handle(t) \in local[q]
      BY <3>1 DEF IInv, QueueExact, Linked
    <3>4. Handle(t) \in local'[q]
      BY <1>1, <3>2, <3>3 DEF IInv, TypeOK
    <3> QED
      BY <1>1, <1>6, <1>9, <3>1, <3>4 DEF PeerGone
  <2> QED
    BY <2>3, <2>4, QueueKept DEF IInv
<1> QED
  BY <1>8, <1>12, <1>13, <1>14 DEF IInv

\* ipc_delegate gives the one peer place of an endpoint to a process without it.
LEMMA DelegateStep ==
    ASSUME IInv, NEW src \in Procs, NEW h \in Handles, NEW dst \in Procs,
           NEW rights \in SUBSET Delegable, ipc_delegate(src, h, dst, rights)
    PROVE  IInv'
<1> DEFINE s == h[1]
           new == [handle |-> h, holder |-> dst, rights |-> rights]
<1>1. s \in Slots /\ h = Handle(s) /\ ep[s].active
  BY HandleCurrent DEF ipc_delegate
<1>2. /\ rights # {} /\ ep[s].peerCaps = 0 /\ h \notin local[dst]
      /\ rec' = rec \cup {new} /\ local' = [local EXCEPT ![dst] = @ \cup {h}]
      /\ ep' = [ep EXCEPT ![s] = [ep[s] EXCEPT !.peerSeen = TRUE, !.peerCaps = 1]]
      /\ UNCHANGED <<sendq, recvq, call, life, misled>>
  BY DEF ipc_delegate
<1>3. new \in Records /\ new.handle = h /\ new.holder = dst /\ "CONTROL" \notin new.rights
  BY <1>2 DEF Records, Delegable, AllRights
<1> HIDE DEF new, s
<1>4. ep' \in [Slots -> Endpoints]
      /\ \A t \in Slots : /\ ep'[t].queue = ep[t].queue /\ ep'[t].active = ep[t].active
                          /\ ep'[t].gen = ep[t].gen /\ ep'[t].owner = ep[t].owner
                          /\ t # s => ep'[t] = ep[t]
                          /\ t = s => ep'[t].peerCaps = 1
  <2>1. ep \in [Slots -> Endpoints]
    BY DEF IInv, TypeOK
  <2>2. ep' = [ep EXCEPT ![s] = [ep[s] EXCEPT !.peerSeen = TRUE, !.peerCaps = 1]]
    BY <1>2
  <2>3. ep[s] \in Endpoints
    BY <1>1, <2>1
  <2>4. /\ ep'[s] = [ep[s] EXCEPT !.peerSeen = TRUE, !.peerCaps = 1]
        /\ \A t \in Slots : t # s => ep'[t] = ep[t]
    BY <1>1, <2>1, <2>2
  <2>5. /\ ep'[s] \in Endpoints /\ ep'[s].queue = ep[s].queue /\ ep'[s].active = ep[s].active
        /\ ep'[s].gen = ep[s].gen /\ ep'[s].owner = ep[s].owner /\ ep'[s].peerCaps = 1
    BY <2>3, <2>4, PeerTakenType
  <2>6. ep' \in [Slots -> Endpoints]
    BY <1>1, <2>1, <2>2, <2>4, <2>5
  <2> QED
    BY <2>4, <2>5, <2>6
<1>5. TypeOK'
  BY <1>2, <1>3, <1>4 DEF IInv, TypeOK
<1>6. \A t \in Slots : Handle(t)' = Handle(t)
  BY <1>4 DEF Handle
<1>7. \A r \in rec : ~(r.handle = h /\ r.holder = dst)
  BY <1>2 DEF IInv, CapabilityExact
<1>8. RecordsDistinct'
  BY <1>2, <1>3, <1>7 DEF IInv, RecordsDistinct
<1>9. \A r \in rec : r.handle[1] \in Slots /\ ~IsPeerRecord(r, s)
  <2>1. \A r \in rec : r.handle[1] \in Slots
    BY DEF IInv, TypeOK, Records, Handles
  <2>2. \A r \in rec : ~IsPeerRecord(r, s)
    BY <1>1, <1>2 DEF IInv, CapabilityExact
  <2> QED
    BY <2>1, <2>2
<1>10. ep[s].owner # dst
  BY <1>1, <1>7 DEF IInv, CapabilityExact
<1>11. h[1] = s
  BY DEF s
<1>12. CapabilityExact'
  <2>1. ASSUME NEW r \in rec'
        PROVE  /\ ep'[r.handle[1]].active /\ r.handle = Handle(r.handle[1])'
               /\ ("CONTROL" \in r.rights) <=> (ep'[r.handle[1]].owner = r.holder)
    <3>1. CASE r \in rec
      BY <1>4, <1>6, <1>9, <3>1 DEF IInv, CapabilityExact
    <3>2. CASE r = new
      BY <1>1, <1>3, <1>4, <1>6, <1>10, <1>11, <3>2
    <3> QED
      BY <1>2, <2>1, <3>1, <3>2
  <2>2. ASSUME NEW q \in Procs
        PROVE  local'[q] = {r.handle : r \in {x \in rec' : x.holder = q}}
    <3>1. local[q] = {r.handle : r \in {x \in rec : x.holder = q}}
      BY DEF IInv, CapabilityExact
    <3>2. local'[q] = IF q = dst THEN local[q] \cup {h} ELSE local[q]
      BY <1>2 DEF IInv, TypeOK
    <3> QED
      BY <1>2, <1>3, <3>1, <3>2
  <2>3. IsPeerRecord(new, s) /\ \A t \in Slots : t # s => ~IsPeerRecord(new, t)
    BY <1>3, <1>11 DEF IsPeerRecord
  <2>4. ASSUME NEW t \in Slots
        PROVE  /\ (ep'[t].peerCaps = 1) <=> \E r \in rec' : IsPeerRecord(r, t)
               /\ \A r1, r2 \in rec' : IsPeerRecord(r1, t) /\ IsPeerRecord(r2, t) => r1 = r2
    <3>1. CASE t = s
      BY <1>2, <1>4, <1>9, <2>3, <3>1
    <3>2. CASE t # s
      BY <1>2, <1>4, <2>3, <3>2 DEF IInv, CapabilityExact
    <3> QED
      BY <3>1, <3>2
  <2>5. ASSUME NEW t \in Slots, ep'[t].active
        PROVE  \E r \in rec' : r.handle = Handle(t)' /\ r.holder = ep'[t].owner
    BY <1>2, <1>4, <1>6, <2>5 DEF IInv, CapabilityExact
  <2> QED
    BY <2>1, <2>2, <2>4, <2>5 DEF CapabilityExact, IsPeerRecord
<1>13. QueueExact'
  <2>1. ASSUME NEW t \in Slots, NEW q \in Elements(sendq'[t]) \cup Elements(recvq'[t])
        PROVE  /\ call'[q] = call[q] /\ life'[q] = life[q]
               /\ Handle(t)' = Handle(t) /\ Handle(t) \in local'[q]
               /\ PeerGone(t)' => PeerGone(t)
    <3>1. q \in Procs /\ Handle(t) \in local[q]
      BY <1>2, <2>1, ElementsSeq DEF IInv, TypeOK, QueueExact, Linked
    <3>2. Handle(t) \in local'[q]
      BY <1>2, <3>1 DEF IInv, TypeOK
    <3>3. PeerGone(t)' => PeerGone(t)
      BY <1>4 DEF PeerGone
    <3> QED
      BY <1>2, <1>6, <3>2, <3>3
  <2>2. \A t \in Slots : /\ Elements(sendq'[t]) \subseteq Elements(sendq[t])
                         /\ Elements(recvq'[t]) \subseteq Elements(recvq[t])
                         /\ NoDup(sendq'[t]) /\ NoDup(recvq'[t])
    BY <1>2 DEF IInv, QueueExact
  <2> QED
    BY <2>1, <2>2, QueueKept DEF IInv
<1> QED
  BY <1>5, <1>8, <1>12, <1>13 DEF IInv

------------------------------------------------------------------------------
(* Steps that leave all capabilities as they are.                           *)

\* What the capability tables and the sleepers know of an endpoint stays.
Undisturbed ==
    \A s \in Slots : /\ ep'[s].active = ep[s].active /\ ep'[s].gen = ep[s].gen
                     /\ ep'[s].owner = ep[s].owner
                     /\ ep'[s].peerCaps = ep[s].peerCaps /\ ep'[s].peerSeen = ep[s].peerSeen

\* Messages, wakeups and retirement of slots do not concern capabilities.
LEMMA AuthorityKept ==
    ASSUME IInv, rec' = rec, local' = local, Undisturbed
    PROVE  /\ CapabilityExact' /\ RecordsDistinct'
           /\ \A s \in Slots : Handle(s)' = Handle(s) /\ (PeerGone(s)' => PeerGone(s))
<1>1. \A r \in rec : r.handle[1] \in Slots
  BY DEF IInv, TypeOK, Records, Handles
<1>2. \A s \in Slots : Handle(s)' = Handle(s)
  BY DEF Undisturbed, Handle
<1>3. \A s \in Slots : PeerGone(s)' => PeerGone(s)
  BY DEF Undisturbed, PeerGone
<1>4. RecordsDistinct'
  BY DEF IInv, RecordsDistinct
<1>5. CapabilityExact'
  <2>1. ASSUME NEW r \in rec'
        PROVE  /\ ep'[r.handle[1]].active /\ r.handle = Handle(r.handle[1])'
               /\ ("CONTROL" \in r.rights) <=> (ep'[r.handle[1]].owner = r.holder)
    BY <1>1, <1>2, <2>1 DEF IInv, CapabilityExact, Undisturbed
  <2>2. ASSUME NEW s \in Slots
        PROVE  /\ (ep'[s].peerCaps = 1) <=> \E r \in rec' : IsPeerRecord(r, s)
               /\ \A r1, r2 \in rec' : IsPeerRecord(r1, s) /\ IsPeerRecord(r2, s) => r1 = r2
               /\ ep'[s].active => \E r \in rec' : r.handle = Handle(s)' /\ r.holder = ep'[s].owner
    BY <1>2 DEF IInv, CapabilityExact, Undisturbed
  <2>3. \A p \in Procs : local'[p] = {r.handle : r \in {x \in rec' : x.holder = p}}
    BY DEF IInv, CapabilityExact
  <2> QED
    BY <2>1, <2>2, <2>3 DEF CapabilityExact, IsPeerRecord
<1> QED
  BY <1>2, <1>3, <1>4, <1>5

\* A step in which sleepers may be unlinked and the others sleep on.
LEMMA SleepersKept ==
    ASSUME IInv, TypeOK', rec' = rec, local' = local, Undisturbed,
           \A s \in Slots : /\ Elements(sendq'[s]) \subseteq Elements(sendq[s])
                            /\ Elements(recvq'[s]) \subseteq Elements(recvq[s])
                            /\ NoDup(sendq'[s]) /\ NoDup(recvq'[s]),
           \A s \in Slots : \A p \in Elements(sendq'[s]) \cup Elements(recvq'[s]) :
               call'[p] = call[p] /\ life'[p] = life[p]
    PROVE  IInv'
<1>1. /\ CapabilityExact' /\ RecordsDistinct'
      /\ \A s \in Slots : Handle(s)' = Handle(s) /\ (PeerGone(s)' => PeerGone(s))
  BY AuthorityKept
<1>2. \A s \in Slots : \A p \in Elements(sendq'[s]) \cup Elements(recvq'[s]) : Handle(s) \in local'[p]
  BY DEF IInv, QueueExact, Linked
<1>3. QueueExact'
  BY <1>1, <1>2, QueueKept DEF IInv
<1> QED
  BY <1>1, <1>3 DEF IInv

\* The head of a receive queue is woken, and a process that was awake returns from
\* its call (c): everybody else on the queues sleeps on.
LEMMA ReceiverWoken ==
    ASSUME IInv, NEW s \in Slots, NEW c \in [Procs -> Calls],
           \A p \in Procs : call[p].phase = "wait" => c[p] = call[p],
           call' = Woken(c, recvq[s]), recvq' = [recvq EXCEPT ![s] = Rest(@)], sendq' = sendq
    PROVE  /\ call' \in [Procs -> Calls] /\ recvq' \in [Slots -> Seq(Procs)]
           /\ \A t \in Slots : /\ Elements(sendq'[t]) \subseteq Elements(sendq[t])
                               /\ Elements(recvq'[t]) \subseteq Elements(recvq[t])
                               /\ NoDup(sendq'[t]) /\ NoDup(recvq'[t])
           /\ \A t \in Slots : \A p \in Elements(sendq'[t]) \cup Elements(recvq'[t]) :
                  call'[p] = call[p]
<1> DEFINE q == recvq[s]
           head == Head(q)
<1>1. q \in Seq(Procs) /\ NoDup(q)
  BY DEF IInv, TypeOK, QueueExact
<1>2. /\ Rest(q) \in Seq(Procs) /\ NoDup(Rest(q)) /\ Elements(Rest(q)) \subseteq Elements(q)
      /\ q # <<>> => head \in Elements(q) /\ head \notin Elements(Rest(q))
  BY <1>1, RestSeq
<1>3. /\ recvq' \in [Slots -> Seq(Procs)] /\ recvq'[s] = Rest(q)
      /\ \A t \in Slots : t # s => recvq'[t] = recvq[t]
  BY <1>2 DEF IInv, TypeOK
<1>4. \A t \in Slots : /\ Elements(sendq'[t]) \subseteq Elements(sendq[t])
                       /\ Elements(recvq'[t]) \subseteq Elements(recvq[t])
                       /\ NoDup(sendq'[t]) /\ NoDup(recvq'[t])
  BY <1>2, <1>3 DEF IInv, QueueExact
<1>5. \A t \in Slots : \A p \in Elements(sendq'[t]) \cup Elements(recvq'[t]) :
          p \in Procs /\ c[p] = call[p]
  <2>1. \A t \in Slots : \A p \in Elements(sendq[t]) \cup Elements(recvq[t]) :
            p \in Procs /\ call[p].phase = "wait"
    BY ElementsSeq DEF IInv, TypeOK, QueueExact, Linked
  <2> QED
    BY <1>4, <2>1
<1>6. CASE q = <<>>
  BY <1>3, <1>4, <1>5, <1>6 DEF Woken
<1>7. CASE q # <<>>
  <2>1. head \in Elements(q) /\ head \in Procs /\ call[head].phase = "wait"
    BY <1>1, <1>2, <1>7, ElementsSeq DEF IInv, QueueExact, Linked
  <2>2. c[head] = call[head] /\ [c[head] EXCEPT !.phase = "run"] \in Calls
    BY <2>1, PhaseType
  <2>3. call' = [c EXCEPT ![head] = [c[head] EXCEPT !.phase = "run"]]
    BY <1>7 DEF Woken
  <2>4. \A t \in Slots : head \notin Elements(sendq'[t]) /\ head \notin Elements(recvq'[t])
    BY <1>2, <1>3, <1>7, <2>1, LinkedOnce DEF IInv
  <2> HIDE DEF head
  <2>5. call' \in [Procs -> Calls] /\ \A p \in Procs : p # head => call'[p] = c[p]
    BY <2>1, <2>2, <2>3
  <2> QED
    BY <1>3, <1>4, <1>5, <2>4, <2>5
<1> QED
  BY <1>6, <1>7

\* The same for the send queue.
LEMMA SenderWoken ==
    ASSUME IInv, NEW s \in Slots, NEW c \in [Procs -> Calls],
           \A p \in Procs : call[p].phase = "wait" => c[p] = call[p],
           call' = Woken(c, sendq[s]), sendq' = [sendq EXCEPT ![s] = Rest(@)], recvq' = recvq
    PROVE  /\ call' \in [Procs -> Calls] /\ sendq' \in [Slots -> Seq(Procs)]
           /\ \A t \in Slots : /\ Elements(sendq'[t]) \subseteq Elements(sendq[t])
                               /\ Elements(recvq'[t]) \subseteq Elements(recvq[t])
                               /\ NoDup(sendq'[t]) /\ NoDup(recvq'[t])
           /\ \A t \in Slots : \A p \in Elements(sendq'[t]) \cup Elements(recvq'[t]) :
                  call'[p] = call[p]
<1> DEFINE q == sendq[s]
           head == Head(q)
<1>1. q \in Seq(Procs) /\ NoDup(q)
  BY DEF IInv, TypeOK, QueueExact
<1>2. /\ Rest(q) \in Seq(Procs) /\ NoDup(Rest(q)) /\ Elements(Rest(q)) \subseteq Elements(q)
      /\ q # <<>> => head \in Elements(q) /\ head \notin Elements(Rest(q))
  BY <1>1, RestSeq
<1>3. /\ sendq' \in [Slots -> Seq(Procs)] /\ sendq'[s] = Rest(q)
      /\ \A t \in Slots : t # s => sendq'[t] = sendq[t]
  BY <1>2 DEF IInv, TypeOK
<1>4. \A t \in Slots : /\ Elements(sendq'[t]) \subseteq Elements(sendq[t])
                       /\ Elements(recvq'[t]) \subseteq Elements(recvq[t])
                       /\ NoDup(sendq'[t]) /\ NoDup(recvq'[t])
  BY <1>2, <1>3 DEF IInv, QueueExact
<1>5. \A t \in Slots : \A p \in Elements(sendq'[t]) \cup Elements(recvq'[t]) :
          p \in Procs /\ c[p] = call[p]
  <2>1. \A t \in Slots : \A p \in Elements(sendq[t]) \cup Elements(recvq[t]) :
            p \in Procs /\ call[p].phase = "wait"
    BY ElementsSeq DEF IInv, TypeOK, QueueExact, Linked
  <2> QED
    BY <1>4, <2>1
<1>6. CASE q = <<>>
  BY <1>3, <1>4, <1>5, <1>6 DEF Woken
<1>7. CASE q # <<>>
  <2>1. head \in Elements(q) /\ head \in Procs /\ call[head].phase = "wait"
    BY <1>1, <1>2, <1>7, ElementsSeq DEF IInv, QueueExact, Linked
  <2>2. c[head] = call[head] /\ [c[head] EXCEPT !.phase = "run"] \in Calls
    BY <2>1, PhaseType
  <2>3. call' = [c EXCEPT ![head] = [c[head] EXCEPT !.phase = "run"]]
    BY <1>7 DEF Woken
  <2>4. \A t \in Slots : head \notin Elements(sendq'[t]) /\ head \notin Elements(recvq'[t])
    BY <1>2, <1>3, <1>7, <2>1, LinkedOnce DEF IInv
  <2> HIDE DEF head
  <2>5. call' \in [Procs -> Calls] /\ \A p \in Procs : p # head => call'[p] = c[p]
    BY <2>1, <2>2, <2>3
  <2> QED
    BY <1>3, <1>4, <1>5, <2>4, <2>5
<1> QED
  BY <1>6, <1>7

\* A process that runs an iteration of a loop is awake, and idle when it returns.
LEMMA AwakeReturns ==
    ASSUME IInv, NEW p \in Procs, call[p].phase # "wait"
    PROVE  /\ [call EXCEPT ![p] = Idle] \in [Procs -> Calls]
           /\ \A q \in Procs : call[q].phase = "wait" => [call EXCEPT ![p] = Idle][q] = call[q]
<1>1. Idle \in Calls
  BY DEF Calls
<1> QED
  BY <1>1 DEF IInv, TypeOK

\* An iteration of a loop is run by a live process that is awake.
LEMMA IteratesAwake ==
    ASSUME NEW p, NEW op, NEW h, Iterates(p, op, h)
    PROVE  call[p].phase # "wait" /\ life[p] = "running"
BY DEF Iterates, Idle

------------------------------------------------------------------------------
(* Messages.                                                                *)

\* A set of numbers that is not empty has a least one: receivable_offset stops.
LEMMA SmallestNat ==
    ASSUME NEW S \in SUBSET Nat, S # {}
    PROVE  \E k \in S : \A j \in S : k <= j
<1> DEFINE R == OpToRel(<, Nat)
<1>1. IsWellFoundedOn(R, Nat)
  BY NatLessThanWellFounded
<1> HIDE DEF R
<1>2. PICK k \in S : \A j \in S : <<j, k>> \notin R
  BY <1>1, WFMin
<1>3. \A j \in S : ~(j < k)
  BY <1>2 DEF R, OpToRel
<1> QED
  BY <1>3

\* An endpoint with one more message.
LEMMA EnqueuedType ==
    ASSUME NEW e \in Endpoints, Len(e.queue) <= QueueDepth, NEW op \in SendOps,
           NEW m \in Procs \cup {Kernel}, op = "send" => Len(e.queue) < QueueDepth,
           op # "send" => m \in Procs
    PROVE  /\ Enqueued(e, op, m) \in Endpoints /\ Len(Enqueued(e, op, m).queue) <= QueueDepth
           /\ Enqueued(e, op, m).active = e.active /\ Enqueued(e, op, m).gen = e.gen
           /\ Enqueued(e, op, m).owner = e.owner /\ Enqueued(e, op, m).peerCaps = e.peerCaps
           /\ Enqueued(e, op, m).peerSeen = e.peerSeen
<1>1. e.queue \in Seq(Procs \cup {Kernel})
  BY DEF Endpoints
<1>2. CASE op = "send"
  <2>1. /\ Append(e.queue, m) \in Seq(Procs \cup {Kernel})
        /\ Len(Append(e.queue, m)) = Len(e.queue) + 1
    BY <1>1
  <2>2. Len(Append(e.queue, m)) <= QueueDepth
    BY <1>1, <1>2, <2>1, IpcAssumption
  <2>3. Enqueued(e, op, m) = [e EXCEPT !.queue = Append(e.queue, m)]
    BY <1>2 DEF Enqueued
  <2> QED
    BY <2>1, <2>2, <2>3 DEF Endpoints
<1>3. CASE op # "send"
  BY <1>3 DEF Enqueued, Endpoints
<1> QED
  BY <1>2, <1>3

\* An endpoint after a message was taken.
LEMMA TakenType ==
    ASSUME TypeOK, NEW s \in Slots, NEW p
    PROVE  /\ Taken(s, p) \in Endpoints /\ Len(Taken(s, p).queue) <= QueueDepth
           /\ Taken(s, p).active = ep[s].active /\ Taken(s, p).gen = ep[s].gen
           /\ Taken(s, p).owner = ep[s].owner /\ Taken(s, p).peerCaps = ep[s].peerCaps
           /\ Taken(s, p).peerSeen = ep[s].peerSeen
<1> DEFINE e == ep[s]
           M == Procs \cup {Kernel}
<1>1. e \in Endpoints /\ Len(e.queue) <= QueueDepth /\ e.queue \in Seq(M)
  BY DEF TypeOK, Endpoints
<1>2. CASE Receivable(s, p) # {}
  <2> DEFINE i == CHOOSE i \in Receivable(s, p) : \A j \in Receivable(s, p) : i <= j
             w == Without(e.queue, i)
  <2>1. PICK k \in Receivable(s, p) : \A j \in Receivable(s, p) : k <= j
    <3>1. Receivable(s, p) \subseteq Nat
      BY <1>1 DEF Receivable
    <3> QED
      BY <1>2, <3>1, SmallestNat
  <2>2. i \in 1..Len(e.queue)
    BY <1>1, <2>1 DEF Receivable
  <2> HIDE DEF i
  <2>3. w \in Seq(M) /\ Len(w) = Len(e.queue) - 1
    BY <1>1, <2>2, WithoutSeq
  <2>4. Taken(s, p) = [e EXCEPT !.queue = w]
    BY <1>2 DEF Taken, i
  <2>5. Len(w) <= QueueDepth
    BY <1>1, <2>2, <2>3, IpcAssumption
  <2> HIDE DEF w
  <2> QED
    BY <1>1, <2>3, <2>4, <2>5 DEF Endpoints
<1>3. CASE Receivable(s, p) = {}
  BY <1>1, <1>3 DEF Taken, Endpoints
<1> QED
  BY <1>2, <1>3

\* A send that finds room wakes one receiver.
LEMMA SendStep ==
    ASSUME IInv, NEW p \in Procs, NEW op \in SendOps, NEW h \in Handles, send_completes(p, op, h)
    PROVE  IInv'
<1> DEFINE s == h[1]
<1>1. s \in Slots /\ call[p].phase # "wait"
  BY HandleCurrent, IteratesAwake DEF send_completes
<1>2. /\ HasRoom(s, op) /\ ep' = [ep EXCEPT ![s] = Enqueued(ep[s], op, p)]
      /\ call' = Woken([call EXCEPT ![p] = Idle], recvq[s])
      /\ recvq' = [recvq EXCEPT ![s] = Rest(@)]
      /\ UNCHANGED <<rec, local, sendq, life, misled>>
  BY DEF send_completes
<1> HIDE DEF s
<1>3. /\ ep' \in [Slots -> Endpoints] /\ \A t \in Slots : Len(ep'[t].queue) <= QueueDepth
      /\ Undisturbed
  <2>1. ep[s] \in Endpoints /\ Len(ep[s].queue) <= QueueDepth
    BY <1>1 DEF IInv, TypeOK
  <2>2. op = "send" => Len(ep[s].queue) < QueueDepth
    BY <1>2 DEF HasRoom
  <2> QED
    BY <1>1, <1>2, <2>1, <2>2, EnqueuedType DEF IInv, TypeOK, Undisturbed
<1>4. /\ call' \in [Procs -> Calls] /\ recvq' \in [Slots -> Seq(Procs)]
      /\ \A t \in Slots : /\ Elements(sendq'[t]) \subseteq Elements(sendq[t])
                          /\ Elements(recvq'[t]) \subseteq Elements(recvq[t])
                          /\ NoDup(sendq'[t]) /\ NoDup(recvq'[t])
      /\ \A t \in Slots : \A q \in Elements(sendq'[t]) \cup Elements(recvq'[t]) :
             call'[q] = call[q]
  <2> DEFINE c == [call EXCEPT ![p] = Idle]
  <2>1. c \in [Procs -> Calls] /\ \A q \in Procs : call[q].phase = "wait" => c[q] = call[q]
    BY <1>1, AwakeReturns
  <2> HIDE DEF c
  <2>2. call' = Woken(c, recvq[s])
    BY <1>2 DEF c
  <2> QED
    BY <1>1, <1>2, <2>1, <2>2, ReceiverWoken
<1>5. TypeOK'
  BY <1>2, <1>3, <1>4 DEF IInv, TypeOK
<1> QED
  BY <1>2, <1>3, <1>4, <1>5, SleepersKept

\* A receive that finds a message wakes one sender.
LEMMA ReceiveStep ==
    ASSUME IInv, NEW p \in Procs, NEW op, NEW h \in Handles, receive_completes(p, op, h)
    PROVE  IInv'
<1> DEFINE s == h[1]
<1>1. s \in Slots /\ call[p].phase # "wait"
  BY HandleCurrent, IteratesAwake DEF receive_completes
<1>2. /\ ep' = [ep EXCEPT ![s] = Taken(s, p)]
      /\ call' = Woken([call EXCEPT ![p] = Idle], sendq[s])
      /\ sendq' = [sendq EXCEPT ![s] = Rest(@)]
      /\ UNCHANGED <<rec, local, recvq, life, misled>>
  BY DEF receive_completes
<1> HIDE DEF s
<1>3. /\ ep' \in [Slots -> Endpoints] /\ \A t \in Slots : Len(ep'[t].queue) <= QueueDepth
      /\ Undisturbed
  <2>1. /\ Taken(s, p) \in Endpoints /\ Len(Taken(s, p).queue) <= QueueDepth
        /\ Taken(s, p).active = ep[s].active /\ Taken(s, p).gen = ep[s].gen
        /\ Taken(s, p).owner = ep[s].owner /\ Taken(s, p).peerCaps = ep[s].peerCaps
        /\ Taken(s, p).peerSeen = ep[s].peerSeen
    BY <1>1, TakenType DEF IInv
  <2> QED
    BY <1>1, <1>2, <2>1 DEF IInv, TypeOK, Undisturbed
<1>4. /\ call' \in [Procs -> Calls] /\ sendq' \in [Slots -> Seq(Procs)]
      /\ \A t \in Slots : /\ Elements(sendq'[t]) \subseteq Elements(sendq[t])
                          /\ Elements(recvq'[t]) \subseteq Elements(recvq[t])
                          /\ NoDup(sendq'[t]) /\ NoDup(recvq'[t])
      /\ \A t \in Slots : \A q \in Elements(sendq'[t]) \cup Elements(recvq'[t]) :
             call'[q] = call[q]
  <2> DEFINE c == [call EXCEPT ![p] = Idle]
  <2>1. c \in [Procs -> Calls] /\ \A q \in Procs : call[q].phase = "wait" => c[q] = call[q]
    BY <1>1, AwakeReturns
  <2> HIDE DEF c
  <2>2. call' = Woken(c, sendq[s])
    BY <1>2 DEF c
  <2> QED
    BY <1>1, <1>2, <2>1, <2>2, SenderWoken
<1>5. TypeOK'
  BY <1>2, <1>3, <1>4 DEF IInv, TypeOK
<1> QED
  BY <1>2, <1>3, <1>4, <1>5, SleepersKept

\* Kernel ingress in the name of the live peer or of the kernel.
LEMMA IngressStep ==
    ASSUME IInv, NEW s \in Slots, NEW m \in Procs \cup {Kernel}, Ingress(s, m)
    PROVE  IInv'
<1>1. /\ HasRoom(s, "send") /\ ep' = [ep EXCEPT ![s] = Enqueued(ep[s], "send", m)]
      /\ call' = Woken(call, recvq[s]) /\ recvq' = [recvq EXCEPT ![s] = Rest(@)]
      /\ misled' \subseteq misled \cup {s}
      /\ UNCHANGED <<rec, local, sendq, life>>
  BY DEF Ingress
<1>2. /\ ep' \in [Slots -> Endpoints] /\ \A t \in Slots : Len(ep'[t].queue) <= QueueDepth
      /\ Undisturbed
  <2>1. ep[s] \in Endpoints /\ Len(ep[s].queue) <= QueueDepth
    BY DEF IInv, TypeOK
  <2>2. Len(ep[s].queue) < QueueDepth /\ "send" \in SendOps
    BY <1>1 DEF HasRoom, SendOps
  <2> QED
    BY <1>1, <2>1, <2>2, EnqueuedType DEF IInv, TypeOK, Undisturbed
<1>3. call \in [Procs -> Calls]
  BY DEF IInv, TypeOK
<1>4. /\ call' \in [Procs -> Calls] /\ recvq' \in [Slots -> Seq(Procs)]
      /\ \A t \in Slots : /\ Elements(sendq'[t]) \subseteq Elements(sendq[t])
                          /\ Elements(recvq'[t]) \subseteq Elements(recvq[t])
                          /\ NoDup(sendq'[t]) /\ NoDup(recvq'[t])
      /\ \A t \in Slots : \A q \in Elements(sendq'[t]) \cup Elements(recvq'[t]) :
             call'[q] = call[q]
  BY <1>1, <1>3, ReceiverWoken
<1>5. TypeOK'
  BY <1>1, <1>2, <1>4 DEF IInv, TypeOK
<1> QED
  BY <1>1, <1>2, <1>4, <1>5, SleepersKept

------------------------------------------------------------------------------
(* Going to sleep and waking up.                                            *)

\* A process that sleeps on an endpoint joins one of its queues, while everybody
\* else sleeps on.
LEMMA SleepStep ==
    ASSUME IInv, NEW p \in Procs, NEW op \in SendOps \cup RecvOps, NEW h \in Handles,
           NEW rights, Iterates(p, op, h), Resolves(p, h, rights), ~PeerGone(h[1]),
           call' = Sleeping(p, op, h), UNCHANGED <<ep, rec, local, life, misled>>,
           \/ op \in SendOps /\ sendq' = [sendq EXCEPT ![h[1]] = Append(@, p)] /\ recvq' = recvq
           \/ op \in RecvOps /\ recvq' = [recvq EXCEPT ![h[1]] = Append(@, p)] /\ sendq' = sendq
    PROVE  IInv'
<1> DEFINE s == h[1]
<1>1. /\ s \in Slots /\ h = Handle(s) /\ h \in local[p]
      /\ call[p].phase # "wait" /\ life[p] = "running"
  BY HandleCurrent, IteratesAwake
<1>2. \A t \in Slots : p \notin Elements(sendq[t]) /\ p \notin Elements(recvq[t])
  BY <1>1, AwakeUnlinked DEF IInv
<1> HIDE DEF s
<1>3. h[1] = s
  BY DEF s
<1>4. /\ call' \in [Procs -> Calls] /\ \A q \in Procs : q # p => call'[q] = call[q]
      /\ call'[p].phase = "wait" /\ call'[p].op = op /\ call'[p].handle = h
  <2> DEFINE new == [op |-> op, handle |-> h, phase |-> "wait", expired |-> FALSE]
  <2>1. new \in Calls
    BY DEF Calls
  <2> QED
    BY <2>1 DEF Sleeping, IInv, TypeOK
<1>5. \A t \in Slots : Handle(t)' = Handle(t) /\ (PeerGone(t)' <=> PeerGone(t))
  BY DEF Handle, PeerGone
<1>6. CapabilityExact' /\ RecordsDistinct'
  BY AuthorityKept DEF Undisturbed
<1>7. /\ Append(sendq[s], p) \in Seq(Procs) /\ NoDup(Append(sendq[s], p))
      /\ Elements(Append(sendq[s], p)) = Elements(sendq[s]) \cup {p}
      /\ Append(recvq[s], p) \in Seq(Procs) /\ NoDup(Append(recvq[s], p))
      /\ Elements(Append(recvq[s], p)) = Elements(recvq[s]) \cup {p}
  <2>1. sendq[s] \in Seq(Procs) /\ recvq[s] \in Seq(Procs) /\ NoDup(sendq[s]) /\ NoDup(recvq[s])
    BY <1>1 DEF IInv, TypeOK, QueueExact
  <2> QED
    BY <1>1, <1>2, <2>1, AppendSeq
<1>8. /\ sendq' \in [Slots -> Seq(Procs)] /\ recvq' \in [Slots -> Seq(Procs)]
      /\ \A t \in Slots :
            /\ NoDup(sendq'[t]) /\ NoDup(recvq'[t])
            /\ \A q \in Elements(sendq'[t]) :
                  q \in Elements(sendq[t]) \/ (q = p /\ t = s /\ op \in SendOps)
            /\ \A q \in Elements(recvq'[t]) :
                  q \in Elements(recvq[t]) \/ (q = p /\ t = s /\ op \in RecvOps)
  <2>1. \A t \in Slots : NoDup(sendq[t]) /\ NoDup(recvq[t])
    BY DEF IInv, QueueExact
  <2>2. CASE op \in SendOps /\ sendq' = [sendq EXCEPT ![s] = Append(sendq[s], p)] /\ recvq' = recvq
    BY <1>1, <1>7, <2>1, <2>2 DEF IInv, TypeOK
  <2>3. CASE op \in RecvOps /\ recvq' = [recvq EXCEPT ![s] = Append(recvq[s], p)] /\ sendq' = sendq
    BY <1>1, <1>7, <2>1, <2>3 DEF IInv, TypeOK
  <2> QED
    BY <1>3, <2>2, <2>3
<1>9. TypeOK'
  BY <1>4, <1>8 DEF IInv, TypeOK
<1>10. QueueExact'
  <2>1. ASSUME NEW t \in Slots, NEW q, NEW ops,
               \/ q \in Procs /\ q # p /\ Linked(q, t, ops)
               \/ q = p /\ t = s /\ op \in ops
        PROVE  Linked(q, t, ops)'
    <3>1. CASE q \in Procs /\ q # p /\ Linked(q, t, ops)
      BY <1>4, <1>5, <3>1 DEF Linked
    <3>2. CASE q = p /\ t = s /\ op \in ops
      BY <1>1, <1>3, <1>4, <1>5, <3>2 DEF Linked
    <3> QED
      BY <2>1, <3>1, <3>2
  <2>2. \A t \in Slots :
            /\ \A q \in Elements(sendq[t]) : q \in Procs /\ q # p /\ Linked(q, t, SendOps)
            /\ \A q \in Elements(recvq[t]) : q \in Procs /\ q # p /\ Linked(q, t, RecvOps)
    BY <1>2, ElementsSeq DEF IInv, TypeOK, QueueExact
  <2>3. \A t \in Slots : /\ \A q \in Elements(sendq'[t]) : Linked(q, t, SendOps)'
                         /\ \A q \in Elements(recvq'[t]) : Linked(q, t, RecvOps)'
    BY <1>8, <2>1, <2>2
  <2> QED
    BY <1>8, <2>3 DEF QueueExact, Elements, NoDup, SendOps, RecvOps
<1> QED
  BY <1>6, <1>9, <1>10 DEF IInv

\* A call under way ends, or learns that its deadline has passed, without a trace.
LEMMA AwakeStep ==
    ASSUME IInv, NEW p \in Procs, woken_call_fails(p) \/ deadline_passes(p)
    PROVE  IInv'
<1>1. /\ call[p].phase = "run" /\ UNCHANGED <<ep, rec, local, sendq, recvq, life, misled>>
      /\ call' = [call EXCEPT ![p] = Idle] \/ call' = [call EXCEPT ![p].expired = TRUE]
  BY DEF woken_call_fails, deadline_passes
<1>2. \A t \in Slots : p \notin Elements(sendq[t]) /\ p \notin Elements(recvq[t])
  BY <1>1, AwakeUnlinked DEF IInv
<1>3. call' \in [Procs -> Calls] /\ \A q \in Procs : q # p => call'[q] = call[q]
  <2>1. call \in [Procs -> Calls]
    BY DEF IInv, TypeOK
  <2>2. Idle \in Calls
    BY DEF Calls
  <2>3. [call[p] EXCEPT !.expired = TRUE] \in Calls
    <3>1. call[p] \in [op : SendOps \cup RecvOps, handle : Handles, phase : {"wait", "run"},
                       expired : BOOLEAN]
      BY <1>1, <2>1 DEF Calls, Idle
    <3>2. [call[p] EXCEPT !.expired = TRUE] \in
              [op : SendOps \cup RecvOps, handle : Handles, phase : {"wait", "run"},
               expired : BOOLEAN]
      BY <3>1
    <3> QED
      BY <3>2 DEF Calls
  <2> QED
    BY <1>1, <2>1, <2>2, <2>3
<1>4. TypeOK'
  BY <1>1, <1>3 DEF IInv, TypeOK
<1>5. \A t \in Slots : \A q \in Elements(sendq'[t]) \cup Elements(recvq'[t]) :
          call'[q] = call[q] /\ life'[q] = life[q]
  BY <1>1, <1>2, <1>3, ElementsSeq DEF IInv, TypeOK
<1>6. Undisturbed
  BY <1>1 DEF Undisturbed
<1> QED
  BY <1>1, <1>4, <1>5, <1>6, SleepersKept DEF IInv, QueueExact

\* The queues lose the unlinked process and nobody else.
LEMMA UnlinkQueues ==
    ASSUME IInv, NEW p \in Procs, timer_wakes(p) \/ process_terminates(p)
    PROVE  /\ sendq' \in [Slots -> Seq(Procs)] /\ recvq' \in [Slots -> Seq(Procs)]
           /\ \A t \in Slots : /\ Elements(sendq'[t]) \subseteq Elements(sendq[t]) \ {p}
                               /\ Elements(recvq'[t]) \subseteq Elements(recvq[t]) \ {p}
                               /\ NoDup(sendq'[t]) /\ NoDup(recvq'[t])
<1>0. \A t \in Slots : /\ Unlinked(sendq[t], p) \in Seq(Procs) /\ NoDup(Unlinked(sendq[t], p))
                       /\ Elements(Unlinked(sendq[t], p)) \subseteq Elements(sendq[t]) \ {p}
                       /\ Unlinked(recvq[t], p) \in Seq(Procs) /\ NoDup(Unlinked(recvq[t], p))
                       /\ Elements(Unlinked(recvq[t], p)) \subseteq Elements(recvq[t]) \ {p}
  <2>1. \A t \in Slots : /\ sendq[t] \in Seq(Procs) /\ recvq[t] \in Seq(Procs)
                         /\ NoDup(sendq[t]) /\ NoDup(recvq[t])
    BY DEF IInv, TypeOK, QueueExact
  <2> QED
    BY <2>1, UnlinkedSeq
<1>1. CASE process_terminates(p)
  <2>1. /\ sendq' = [t \in Slots |-> Unlinked(sendq[t], p)]
        /\ recvq' = [t \in Slots |-> Unlinked(recvq[t], p)]
    BY <1>1 DEF process_terminates
  <2> QED
    BY <1>0, <2>1
<1>2. CASE timer_wakes(p)
  <2> DEFINE s == call[p].handle[1]
  <2>1. /\ call[p].phase = "wait"
        /\ sendq' = [sendq EXCEPT ![s] = Unlinked(sendq[s], p)]
        /\ recvq' = [recvq EXCEPT ![s] = Unlinked(recvq[s], p)]
    BY <1>2 DEF timer_wakes
  <2>2. s \in Slots
    <3>1. call[p] \in Calls /\ call[p].phase # "idle"
      BY <2>1 DEF IInv, TypeOK
    <3>2. call[p].handle \in Handles
      BY <3>1 DEF Calls, Idle
    <3> QED
      BY <3>2 DEF Handles
  <2>3. \A t \in Slots : t # s => p \notin Elements(sendq[t]) /\ p \notin Elements(recvq[t])
    <3>1. \A t \in Slots : p \in Elements(sendq[t]) \/ p \in Elements(recvq[t]) =>
              call[p].handle = Handle(t)
      BY DEF IInv, QueueExact, Linked
    <3> QED
      BY <3>1 DEF Handle
  <2> HIDE DEF s
  <2>4. \A t \in Slots : NoDup(sendq[t]) /\ NoDup(recvq[t])
    BY DEF IInv, QueueExact
  <2> QED
    BY <1>0, <2>1, <2>2, <2>3, <2>4 DEF IInv, TypeOK
<1> QED
  BY <1>1, <1>2

\* A sleeper is unlinked by the timer, or a process by its own end.
LEMMA UnlinkStep ==
    ASSUME IInv, NEW p \in Procs, timer_wakes(p) \/ process_terminates(p)
    PROVE  IInv'
<1>1. /\ call' = [call EXCEPT ![p] = Idle] /\ UNCHANGED <<ep, rec, local, misled>>
      /\ life' \in [Procs -> {"running", "terminating", "cleaned", "exited"}]
      /\ \A q \in Procs : q # p => life'[q] = life[q]
  BY DEF timer_wakes, process_terminates, IInv, TypeOK
<1>3. /\ sendq' \in [Slots -> Seq(Procs)] /\ recvq' \in [Slots -> Seq(Procs)]
      /\ \A t \in Slots : /\ Elements(sendq'[t]) \subseteq Elements(sendq[t]) \ {p}
                          /\ Elements(recvq'[t]) \subseteq Elements(recvq[t]) \ {p}
                          /\ NoDup(sendq'[t]) /\ NoDup(recvq'[t])
  BY UnlinkQueues
<1>4. call' \in [Procs -> Calls] /\ \A q \in Procs : q # p => call'[q] = call[q]
  <2>1. Idle \in Calls
    BY DEF Calls
  <2> QED
    BY <1>1, <2>1 DEF IInv, TypeOK
<1>5. TypeOK'
  BY <1>1, <1>3, <1>4 DEF IInv, TypeOK
<1>6. \A t \in Slots : \A q \in Elements(sendq'[t]) \cup Elements(recvq'[t]) :
          call'[q] = call[q] /\ life'[q] = life[q]
  BY <1>1, <1>3, <1>4, ElementsSeq DEF IInv, TypeOK
<1>7. Undisturbed
  BY <1>1 DEF Undisturbed
<1>8. \A t \in Slots : /\ Elements(sendq'[t]) \subseteq Elements(sendq[t])
                       /\ Elements(recvq'[t]) \subseteq Elements(recvq[t])
                       /\ NoDup(sendq'[t]) /\ NoDup(recvq'[t])
  BY <1>3
<1> QED
  BY <1>1, <1>5, <1>6, <1>7, <1>8, SleepersKept

\* A cleaned process disappears, or a full scan retires slots: nobody is concerned.
LEMMA UnconcernedStep ==
    ASSUME IInv, \E p \in Procs : process_exits(p) \/ ipc_create_full(p)
    PROVE  IInv'
<1>1. UNCHANGED <<rec, local, sendq, recvq, call, misled>>
  BY DEF process_exits, ipc_create_full
<1>2. /\ life' \in [Procs -> {"running", "terminating", "cleaned", "exited"}]
      /\ \A q \in Procs : life[q] = "running" => life'[q] = life[q]
  BY DEF process_exits, ipc_create_full, IInv, TypeOK
<1>3. /\ ep' \in [Slots -> Endpoints] /\ \A t \in Slots : Len(ep'[t].queue) <= QueueDepth
      /\ Undisturbed
  <2>1. CASE ep' = ep
    BY <2>1 DEF IInv, TypeOK, Undisturbed
  <2>2. CASE ep' = [s \in Slots |-> IF Exhausted(s) THEN [ep[s] EXCEPT !.retired = TRUE] ELSE ep[s]]
    <3>1. \A s \in Slots : ep[s] \in Endpoints /\ Len(ep[s].queue) <= QueueDepth
      BY DEF IInv, TypeOK
    <3>2. \A s \in Slots : ep'[s] = ep[s] \/ ep'[s] = [ep[s] EXCEPT !.retired = TRUE]
      BY <2>2
    <3>3. ASSUME NEW s \in Slots
          PROVE  /\ ep'[s] \in Endpoints /\ ep'[s].queue = ep[s].queue
                 /\ ep'[s].active = ep[s].active /\ ep'[s].gen = ep[s].gen
                 /\ ep'[s].owner = ep[s].owner /\ ep'[s].peerCaps = ep[s].peerCaps
                 /\ ep'[s].peerSeen = ep[s].peerSeen
      <4>1. ep[s] \in Endpoints
        BY <3>1
      <4>2. CASE ep'[s] = ep[s]
        BY <4>1, <4>2
      <4>3. CASE ep'[s] = [ep[s] EXCEPT !.retired = TRUE]
        BY <4>1, <4>3, RetiredType
      <4> QED
        BY <3>2, <4>2, <4>3
    <3>4. ep' \in [Slots -> Endpoints]
      BY <2>2, <3>3
    <3> QED
      BY <3>1, <3>3, <3>4 DEF Undisturbed
  <2> QED
    BY <2>1, <2>2 DEF process_exits, ipc_create_full
<1>4. TypeOK'
  BY <1>1, <1>2, <1>3 DEF IInv, TypeOK
<1>5. \A t \in Slots : \A q \in Elements(sendq'[t]) \cup Elements(recvq'[t]) :
          call'[q] = call[q] /\ life'[q] = life[q]
  BY <1>1, <1>2, ElementsSeq DEF IInv, TypeOK, QueueExact, Linked
<1> QED
  BY <1>1, <1>3, <1>4, <1>5, SleepersKept DEF IInv, QueueExact

------------------------------------------------------------------------------
(* The invariant of the specification.                                      *)

\* ipc_init: no endpoint, no record, nobody asleep.
LEMMA InitEstablishes == Init => IInv
<1> SUFFICES ASSUME Init PROVE IInv
  OBVIOUS
<1>1. EmptyEndpoint \in Endpoints /\ EmptyEndpoint.queue = <<>>
      /\ EmptyEndpoint.peerCaps = 0 /\ ~EmptyEndpoint.active
  <2>1. <<>> \in Seq(Procs \cup {Kernel})
    OBVIOUS
  <2>2. EmptyEndpoint \in Endpoints
    BY <2>1, IpcAssumption DEF EmptyEndpoint, Endpoints
  <2> QED
    BY <2>2 DEF EmptyEndpoint
<1>2. TypeOK
  <2>1. Idle \in Calls /\ <<>> \in Seq(Procs)
    BY DEF Calls
  <2>2. ep \in [Slots -> Endpoints] /\ \A s \in Slots : Len(ep[s].queue) <= QueueDepth
    BY <1>1, IpcAssumption DEF Init
  <2> QED
    BY <2>1, <2>2 DEF Init, TypeOK
<1>3. CapabilityExact /\ RecordsDistinct
  BY <1>1 DEF Init, CapabilityExact, RecordsDistinct
<1>4. QueueExact
  BY DEF Init, QueueExact, Elements, NoDup
<1> QED
  BY <1>2, <1>3, <1>4 DEF IInv

\* Every section under ipc_state_lock keeps it.
LEMMA NextPreserves == IInv /\ [Next]_vars => IInv'
<1> SUFFICES ASSUME IInv, [Next]_vars PROVE IInv'
  OBVIOUS
<1>1. ASSUME NEW p \in Procs, Capability(p)
      PROVE  IInv'
  <2>1. CASE ipc_create(p) \/ ipc_create_full(p)
    BY <2>1, CreateStep, UnconcernedStep
  <2>2. CASE \E h \in Handles : ipc_close(p, h) \/ ipc_release(p, h)
    BY <2>2, CloseStep, ReleaseStep
  <2>3. ASSUME NEW h \in Handles, NEW q \in Procs, process_ipc_delegate_identity(p, h, q)
        PROVE  IInv'
    BY <2>3, DelegateStep DEF process_ipc_delegate_identity
  <2>4. ASSUME NEW h \in Handles, NEW q \in Procs, NEW rights \in Grants,
               process_ipc_delegate(p, h, q, rights)
        PROVE  IInv'
    <3>1. rights \in SUBSET Delegable
      BY IpcAssumption DEF Delegable
    <3> QED
      BY <2>4, <3>1, DelegateStep DEF process_ipc_delegate
  <2> QED
    BY <1>1, <2>1, <2>2, <2>3, <2>4 DEF Capability
<1>2. ASSUME NEW p \in Procs, ipc_send_timeout(p)
      PROVE  IInv'
  <2>1. PICK op \in SendOps, h \in Handles : send_completes(p, op, h) \/ send_blocks(p, op, h)
    BY <1>2 DEF ipc_send_timeout
  <2>2. CASE send_completes(p, op, h)
    BY <2>2, SendStep
  <2>3. CASE send_blocks(p, op, h)
    BY <2>3, SleepStep DEF send_blocks
  <2> QED
    BY <2>1, <2>2, <2>3
<1>3. ASSUME NEW p \in Procs, ipc_receive_timeout(p)
      PROVE  IInv'
  <2>1. PICK op \in RecvOps, h \in Handles :
            receive_completes(p, op, h) \/ receive_blocks(p, op, h)
    BY <1>3 DEF ipc_receive_timeout
  <2>2. CASE receive_completes(p, op, h)
    BY <2>2, ReceiveStep
  <2>3. CASE receive_blocks(p, op, h)
    BY <2>3, SleepStep DEF receive_blocks
  <2> QED
    BY <2>1, <2>2, <2>3
<1>4. ASSUME NEW p \in Procs,
             \/ woken_call_fails(p) \/ deadline_passes(p) \/ timer_wakes(p)
             \/ process_terminates(p) \/ ipc_process_cleanup(p) \/ process_exits(p)
      PROVE  IInv'
  BY <1>4, AwakeStep, UnlinkStep, CleanupStep, UnconcernedStep
<1>5. ASSUME NEW s \in Slots, quarantine_endpoint(s)
      PROVE  IInv'
  BY <1>5, QuarantineStep
<1>6. ASSUME NEW s \in Slots, ipc_send_external_from_peer(s) \/ ipc_send_kernel_to_owner(s)
      PROVE  IInv'
  <2>1. CASE ipc_send_kernel_to_owner(s)
    BY <2>1, IngressStep DEF ipc_send_kernel_to_owner
  <2>2. CASE ipc_send_external_from_peer(s)
    <3>1. PICK r \in rec : Ingress(s, r.holder)
      BY <2>2 DEF ipc_send_external_from_peer
    <3>2. r.holder \in Procs
      BY DEF IInv, TypeOK, Records
    <3> QED
      BY <3>1, <3>2, IngressStep
  <2> QED
    BY <1>6, <2>1, <2>2
<1>7. CASE UNCHANGED vars
  <2>1. UNCHANGED <<ep, rec, local, sendq, recvq, call, life, misled>>
    BY <1>7 DEF vars
  <2>2. TypeOK' /\ Undisturbed
    BY <2>1 DEF IInv, TypeOK, Undisturbed
  <2> QED
    BY <2>1, <2>2, SleepersKept DEF IInv, QueueExact
<1> QED
  BY <1>1, <1>2, <1>3, <1>4, <1>5, <1>6, <1>7 DEF Next

\* The inductive invariant holds in every reachable state.
THEOREM IpcInvariant == Spec => []IInv
BY InitEstablishes, NextPreserves, PTL DEF Spec

\* Types; in particular no message queue outgrows IPC_QUEUE_DEPTH, no generation
\* its maximum, and peer_capability_count is zero or one.
THEOREM IpcTypes == Spec => []TypeOK
BY IpcInvariant, PTL DEF IInv

\* The process's own table, the global records and the endpoints agree after every
\* operation, for any number of processes and endpoints.
THEOREM AuthorityExact == Spec => []CapabilityExact
BY IpcInvariant, PTL DEF IInv

\* Who is linked on a queue holds a capability that resolves.
LEMMA LinkedServed == IInv => NoOrphanedWaiter
<1> SUFFICES ASSUME IInv, NEW s \in Slots, NEW p \in Elements(sendq[s]) \cup Elements(recvq[s])
             PROVE  /\ call[p].phase = "wait" /\ call[p].handle = Handle(s)
                    /\ Resolves(p, Handle(s), {}) /\ ~PeerGone(s)
  BY DEF NoOrphanedWaiter
<1>1. /\ call[p].phase = "wait" /\ call[p].handle = Handle(s) /\ ~PeerGone(s)
      /\ life[p] = "running" /\ Handle(s) \in local[p]
  BY DEF IInv, QueueExact, Linked
<1>2. p \in Procs
  BY ElementsSeq DEF IInv, TypeOK
<1>3. PICK r \in rec : r.handle = Handle(s) /\ r.holder = p
  BY <1>1, <1>2 DEF IInv, CapabilityExact
<1>4. Handle(s)[1] = s /\ Handle(s)[2] = ep[s].gen
  BY DEF Handle
<1>5. ep[s].active
  BY <1>3, <1>4 DEF IInv, CapabilityExact
<1> QED
  BY <1>1, <1>3, <1>4, <1>5 DEF Resolves, IsRunning

\* Nobody sleeps on an endpoint that was revoked, reused, or has lost its peer,
\* whatever combination of close, release, exit, kill and quarantine went before.
THEOREM NobodyOrphaned == Spec => []NoOrphanedWaiter
BY IpcInvariant, LinkedServed, PTL
==============================================================================
