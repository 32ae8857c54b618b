---------------------------- MODULE StorageProofs ----------------------------
(***************************************************************************)
(* Safety of the storage request pool, for any number of slots, buffers,   *)
(* generations, clients, services and media: no effect on a medium is      *)
(* forgotten, no buffer is reused under a copy or lost, and no request     *)
(* stays claimed by a service that is gone.                                *)
(***************************************************************************)
EXTENDS StorageRequestPool, FiniteSetTheorems, WellFoundedInduction, TLAPS

Waiting == {"QUEUED", "INPUT_PENDING"}
Served == {"CLAIMED", "CANCEL_PENDING"}
Answered == {"COMPLETE", "DELIVERING", "DELIVERY_CANCELLED", "DELIVERED"}
Effects == {"ATTEMPTED", "DURABLE", "UNKNOWN"}
BulkCalls == {"input_publish", "input_take", "bulk_publish", "bulk_collect"}

\* What a request has gone through agrees with its mutation record; a mutation
\* of unknown outcome has its medium fenced as long as the record exists.
SoundRecord(x, fenced) ==
    /\ x.state \in Served => x.service \in Services
    /\ x.state \in {"FREE", "RETIRED"} \cup Waiting => x.mutation = "UNBOUND"
    /\ x.state \in Answered => x.mutation \notin {"BOUND", "ATTEMPTED"}
    /\ x.kind = "bulk_read" => x.mutation = "UNBOUND"
    /\ x.mutation # "UNBOUND" => x.target \in Resources
    /\ x.mutation = "UNKNOWN" => x.target \in fenced
RequestsSound == \A s \in Slots : SoundRecord(slot[s], fences)

\* A buffer in use belongs to a request of this or an earlier generation of its
\* slot, and no two belong to the same one.
BuffersSound ==
    /\ \A b \in Bulks : IF bulk[b].state = "FREE" THEN bulk[b] = EmptyBulk
                        ELSE bulk[b].of \in Handles /\ bulk[b].of[2] <= slot[bulk[b].of[1]].gen
    /\ \A a, b \in Bulks : bulk[a].state # "FREE" /\ bulk[b].state # "FREE"
                              /\ bulk[a].of = bulk[b].of => a = b

\* A process is in one copy at most, and a buffer under one copier at most.
CopiersSound ==
    /\ \A p \in Processes :
          /\ copying[p].call = "none" => copying[p] = Idle
          /\ copying[p].call # "none" => copying[p].of \in Handles /\ Runs(p)
          /\ copying[p].call = "reply" => copying[p].bulk = None
          /\ copying[p].call \in BulkCalls => copying[p].bulk \in Bulks
    /\ \A p, q \in Processes : copying[p].bulk # None /\ copying[p].bulk = copying[q].bulk
                                  => p = q

\* The snapshot a bulk read is collected from is that of a read.
SnapshotIsRead ==
    \A c \in Clients :
        Runs(c) /\ copying[c].call = "bulk_collect"
                /\ bulk[copying[c].bulk].state = "READING"
            => slot[copying[c].of[1]].kind = "bulk_read"

\* The buffer of a read that is being collected is not one that is being filled.
CollectorReads ==
    \A c \in Clients : copying[c].call = "bulk_collect" =>
                           bulk[copying[c].bulk].state \in {"READING", "REVOKED"}

\* The inductive invariant: the buffers and their copiers, the requests.
BufferInv == /\ BuffersSound /\ BuffersOwned
             /\ CopiersSound /\ BufferHeldByCopier
             /\ CollectorReads /\ SnapshotIsRead /\ CollectSnapshotValid
RequestInv == RequestsSound /\ ClaimsServed /\ EffectsAccounted
IInv == TypeOK /\ BufferInv /\ RequestInv

------------------------------------------------------------------------------
(* Handles, records and buffers.                                            *)

\* A handle is its slot and its generation.
LEMMA HandleParts ==
    ASSUME NEW h \in Handles
    PROVE  h[1] \in Slots /\ h[2] \in 0..MaxGeneration /\ h = <<h[1], h[2]>>
BY DEF Handles

\* The handle of a slot.
LEMMA HandleOfSlot ==
    ASSUME TypeOK, NEW s \in Slots
    PROVE  /\ Handle(s) \in Handles /\ Handle(s)[1] = s /\ Handle(s)[2] = slot[s].gen
           /\ slot[s] \in RequestRecords /\ slot[s].gen \in 0..MaxGeneration
           /\ \A h \in Handles : h[1] = s /\ h[2] = slot[s].gen => h = Handle(s)
BY PoolAssumption DEF TypeOK, Handle, Handles, RequestRecords

\* What an empty slot holds.
LEMMA EmptySlotType ==
    ASSUME NEW state \in SlotStates, NEW g \in 0..MaxGeneration
    PROVE  /\ EmptySlot(state, g) \in RequestRecords
           /\ EmptySlot(state, g).state = state /\ EmptySlot(state, g).gen = g
           /\ EmptySlot(state, g).mutation = "UNBOUND"
           /\ EmptySlot(state, g).kind = None
           /\ EmptySlot(state, g).target = None
BY DEF EmptySlot, RequestRecords, MutationStates

\* A slot that has been vacated can no longer be named by the old handle.
LEMMA VacatedType ==
    ASSUME NEW g \in 0..MaxGeneration
    PROVE  /\ Vacated(g) \in RequestRecords
           /\ Vacated(g).state \in {"FREE", "RETIRED"} /\ Vacated(g).gen >= g
           /\ Vacated(g).mutation = "UNBOUND" /\ Vacated(g).kind = None
           /\ Vacated(g).target = None
<1>1. g # MaxGeneration => g + 1 \in 0..MaxGeneration /\ g + 1 >= g
  BY PoolAssumption
<1>2. "FREE" \in SlotStates /\ "RETIRED" \in SlotStates
  BY DEF SlotStates
<1> QED
  BY <1>1, <1>2, EmptySlotType DEF Vacated

\* A release gives a buffer back, or leaves that to its copier.
LEMMA BulkReleasedType ==
    ASSUME NEW x \in BulkRecords
    PROVE  /\ BulkReleased(x) \in BulkRecords
           /\ \/ BulkReleased(x) = EmptyBulk /\ x.state \notin {"WRITING", "READING", "REVOKED"}
              \/ BulkReleased(x).state = "REVOKED" /\ BulkReleased(x).of = x.of
                 /\ x.state \in {"WRITING", "READING", "REVOKED"}
BY DEF BulkReleased, EmptyBulk, BulkRecords, BulkStates

\* The first of some numbers is one of them.
LEMMA FirstIn ==
    ASSUME NEW S \in SUBSET Nat, S # {}
    PROVE  First(S) \in S /\ \A u \in S : First(S) <= u
<1>1. PICK s \in S : \A u \in S : s <= u
  <2>1. PICK s \in S : \A u \in S : <<u, s>> \notin OpToRel(<, Nat)
    BY NatLessThanWellFounded, WFMin
  <2>2. \A u \in S : u < s => <<u, s>> \in OpToRel(<, Nat)
    BY DEF OpToRel
  <2>3. s \in Nat /\ \A u \in S : u \in Nat /\ ~(u < s)
    BY <2>1, <2>2
  <2> QED
    BY <2>3
<1> QED
  BY <1>1 DEF First

------------------------------------------------------------------------------
(* What a step may do to buffers and copiers.                               *)

\* A buffer keeps its request and is not taken back from its copier, or is freed.
BufferStep ==
    \A b \in Bulks :
        \/ bulk'[b] = EmptyBulk
        \/ /\ bulk'[b].of = bulk[b].of
           /\ bulk[b].state # "FREE" /\ bulk'[b].state # "FREE"
           /\ bulk[b].state = "REVOKED" => bulk'[b].state = "REVOKED"
        \/ bulk'[b] = bulk[b]

GensGrow == \A s \in Slots : slot'[s].gen >= slot[s].gen

\* A buffer that is neither freed nor revoked keeps its request.
OwnersKept ==
    \A b \in Bulks :
        bulk'[b].state \notin {"FREE", "REVOKED"} =>
            LET s == bulk[b].of[1] IN
            Live(s) => slot'[s].gen = slot[s].gen /\ slot'[s].state \notin {"FREE", "RETIRED"}

\* The copy of a reply, which needs no buffer, begins.
ReplyCopied(p) ==
    copying'[p].call = "reply" /\ copying'[p].bulk = None /\ copying'[p].of \in Handles

\* Copies go on or end; those that go on keep their buffer.
CopierStep ==
    \A p \in Processes :
        /\ copying'[p] \in {copying[p], Idle} \/ ReplyCopied(p)
        /\ copying'[p].call # "none" => Runs(p)'
        /\ copying'[p].bulk # None =>
              LET b == copying[p].bulk IN
              /\ bulk'[b].of = bulk[b].of
              /\ bulk'[b].state \in {bulk[b].state, "REVOKED"}

\* A read that waits for its collection is left alone, or its buffer revoked.
SnapshotKept ==
    \A s \in Slots :
        slot[s].state = "COMPLETE" /\ slot[s].kind = "bulk_read" =>
            \/ /\ slot'[s].state = "COMPLETE" /\ slot'[s].kind = "bulk_read"
               /\ slot'[s].gen = slot[s].gen /\ slot'[s].client = slot[s].client
            \/ \A b \in Bulks : bulk[b].of = Handle(s) => bulk'[b].state # "READING"

\* Buffers stay with one request, and with a live one.
LEMMA BuffersStay ==
    ASSUME TypeOK, TypeOK', BuffersSound, BuffersOwned, BufferStep, GensGrow, OwnersKept
    PROVE  BuffersSound' /\ BuffersOwned'
<1>1. \A b \in Bulks : bulk[b] \in BulkRecords /\ bulk'[b] \in BulkRecords
  BY DEF TypeOK
<1>2. EmptyBulk.state = "FREE" /\ EmptyBulk.of = None
  BY DEF EmptyBulk
<1>3. \A b \in Bulks : bulk'[b].state # "FREE" =>
          /\ bulk[b].state # "FREE" /\ bulk'[b].of = bulk[b].of
          /\ bulk[b].state = "REVOKED" => bulk'[b].state = "REVOKED"
  BY <1>2 DEF BufferStep
<1>4. \A b \in Bulks : bulk'[b].state = "FREE" => bulk'[b] = EmptyBulk
  BY <1>2 DEF BufferStep, BuffersSound
<1>5. \A s \in Slots : slot[s].gen \in Nat /\ slot'[s].gen \in Nat
  BY PoolAssumption DEF TypeOK, RequestRecords
<1>6. ASSUME NEW b \in Bulks, bulk'[b].state # "FREE"
      PROVE  bulk'[b].of \in Handles /\ bulk'[b].of[2] <= slot'[bulk'[b].of[1]].gen
  <2>1. bulk[b].of \in Handles /\ bulk[b].of[2] <= slot[bulk[b].of[1]].gen
    BY <1>3, <1>6 DEF BuffersSound
  <2>2. bulk[b].of[1] \in Slots /\ bulk[b].of[2] \in Nat
    BY <2>1, HandleParts, PoolAssumption
  <2> QED
    BY <1>3, <1>5, <1>6, <2>1, <2>2 DEF GensGrow
<1>7. BuffersSound'
  BY <1>3, <1>4, <1>6 DEF BuffersSound
<1>8. ASSUME NEW b \in Bulks, bulk'[b].state \notin {"FREE", "REVOKED"}
      PROVE  Resolves(bulk[b].of)' /\ BulkOf(bulk[b].of)' = {b}
  <2>1. Resolves(bulk[b].of) /\ bulk[b].of = bulk'[b].of
    BY <1>3, <1>8 DEF BuffersOwned
  <2>2. Resolves(bulk[b].of)'
    BY <1>8, <2>1 DEF OwnersKept, Resolves, Live
  <2>3. BulkOf(bulk[b].of)' = {b}
    BY <1>7, <1>8 DEF BuffersSound, BulkOf
  <2> QED
    BY <2>2, <2>3
<1>9. BuffersOwned'
  BY <1>3, <1>8 DEF BuffersOwned, Resolves, Live
<1> QED
  BY <1>7, <1>9

\* Every process that copies runs.
LEMMA CopierRuns ==
    ASSUME TypeOK, CopiersSound, NEW p \in Processes
    PROVE  /\ copying[p].call # "none" \/ copying[p].bulk # None => Runs(p)
           /\ copying[p].bulk # None => copying[p].bulk \in Bulks
                                        /\ copying[p].call \in BulkCalls
           /\ copying[p].call = "none" => copying[p] = Idle
           /\ Idle.bulk = None /\ Idle.call = "none"
<1>1. Idle.bulk = None /\ Idle.call = "none"
  BY DEF Idle
<1>2. copying[p].call \in Calls /\ copying[p].bulk \in Bulks \cup {None}
  BY DEF TypeOK, CopyRecords
<1> QED
  BY <1>1, <1>2 DEF CopiersSound, Calls, BulkCalls

\* Copiers keep their buffers.
LEMMA CopiersStay ==
    ASSUME TypeOK, CopiersSound, BufferHeldByCopier, CopierStep
    PROVE  CopiersSound' /\ BufferHeldByCopier'
<1>1. Idle.bulk = None /\ Idle.call = "none"
  BY DEF Idle
<1>2. \A p \in Processes : copying'[p] = copying[p] \/ copying'[p] = Idle \/ ReplyCopied(p)
  BY DEF CopierStep
<1>3. CopiersSound'
  BY <1>1, <1>2 DEF CopiersSound, CopierStep, BulkCalls, ReplyCopied
<1>4. ASSUME NEW p \in Processes, copying'[p].bulk # None
      PROVE  LET b == copying'[p].bulk IN
             /\ bulk'[b].of = copying'[p].of
             /\ bulk'[b].state \in {"WRITING", "READING", "REVOKED"}
  <2>1. copying'[p] = copying[p]
    BY <1>1, <1>2, <1>4 DEF ReplyCopied
  <2>2. Runs(p)
    BY <1>4, <2>1, CopierRuns
  <2>3. bulk[copying[p].bulk].of = copying[p].of
        /\ bulk[copying[p].bulk].state \in {"WRITING", "READING", "REVOKED"}
    BY <1>4, <2>1, <2>2 DEF BufferHeldByCopier
  <2> QED
    BY <1>4, <2>1, <2>3 DEF CopierStep
<1>5. BufferHeldByCopier'
  BY <1>4 DEF BufferHeldByCopier
<1> QED
  BY <1>3, <1>5

\* The snapshot of a read that is being collected stays valid.
LEMMA SnapshotsStay ==
    ASSUME TypeOK, CopiersSound, BufferHeldByCopier, SnapshotIsRead, CollectSnapshotValid,
           CopierStep, SnapshotKept
    PROVE  SnapshotIsRead' /\ CollectSnapshotValid'
<1>1. ASSUME NEW c \in Clients, copying'[c].call = "bulk_collect",
             bulk'[copying'[c].bulk].state = "READING"
      PROVE  LET s == copying'[c].of[1] IN
             /\ slot'[s].kind = "bulk_read" /\ slot'[s].state = "COMPLETE"
             /\ slot'[s].client = c /\ <<s, slot'[s].gen>> = copying'[c].of
  <2>1. c \in Processes
    BY DEF Processes
  <2>2. copying'[c] = copying[c]
    BY <1>1, <2>1 DEF CopierStep, Idle, ReplyCopied
  <2> DEFINE b == copying[c].bulk
             s == copying[c].of[1]
  <2>3. b \in Bulks /\ Runs(c) /\ copying[c].of \in Handles
    BY <1>1, <2>1, <2>2 DEF CopiersSound, BulkCalls
  <2>4. b # None
    BY <2>3, PoolAssumption DEF Bulks
  <2>5. bulk[b].state = "READING" /\ bulk[b].of = copying[c].of
    <3>1. bulk'[b].state \in {bulk[b].state, "REVOKED"}
      BY <2>1, <2>2, <2>4 DEF CopierStep
    <3> QED
      BY <1>1, <2>1, <2>2, <2>3, <2>4, <3>1 DEF BufferHeldByCopier
  <2>6. /\ slot[s].kind = "bulk_read" /\ slot[s].state = "COMPLETE" /\ slot[s].client = c
        /\ Handle(s) = copying[c].of
    BY <1>1, <2>2, <2>3, <2>5 DEF SnapshotIsRead, CollectSnapshotValid
  <2>7. s \in Slots
    BY <2>3, HandleParts
  <2>8. slot'[s].state = "COMPLETE" /\ slot'[s].kind = "bulk_read"
        /\ slot'[s].gen = slot[s].gen /\ slot'[s].client = slot[s].client
    BY <1>1, <2>2, <2>3, <2>5, <2>6, <2>7 DEF SnapshotKept
  <2> QED
    BY <2>2, <2>6, <2>8 DEF Handle
<1> QED
  BY <1>1 DEF SnapshotIsRead, CollectSnapshotValid, Handle

\* A read that is being collected is not filled either.
LEMMA CollectorsStay ==
    ASSUME TypeOK, CopiersSound, CollectorReads, CopierStep
    PROVE  CollectorReads'
<1>1. ASSUME NEW c \in Clients, copying'[c].call = "bulk_collect"
      PROVE  bulk'[copying'[c].bulk].state \in {"READING", "REVOKED"}
  <2>1. c \in Processes
    BY DEF Processes
  <2>2. copying'[c] = copying[c]
    BY <1>1, <2>1 DEF CopierStep, Idle, ReplyCopied
  <2>3. copying[c].bulk \in Bulks /\ copying[c].bulk # None
    BY <1>1, <2>1, <2>2, PoolAssumption DEF CopiersSound, BulkCalls, Bulks
  <2>4. bulk'[copying[c].bulk].state \in {bulk[copying[c].bulk].state, "REVOKED"}
    BY <2>1, <2>2, <2>3 DEF CopierStep
  <2> QED
    BY <1>1, <2>2, <2>4 DEF CollectorReads
<1> QED
  BY <1>1 DEF CollectorReads

\* The four relations together keep the buffers in order.
LEMMA BufferInvStays ==
    ASSUME TypeOK, TypeOK', BufferInv, BufferStep, GensGrow, OwnersKept, CopierStep, SnapshotKept
    PROVE  BufferInv'
BY BuffersStay, CopiersStay, CollectorsStay, SnapshotsStay DEF BufferInv

\* No copy of a buffer begins.
CopiesEnd ==
    \A p \in Processes : /\ copying'[p] \in {copying[p], Idle} \/ ReplyCopied(p)
                         /\ copying'[p].call # "none" => Runs(p)'

\* A step that leaves the buffers and the identity of the requests alone.
LEMMA QuietStep ==
    ASSUME TypeOK, TypeOK', BufferInv, bulk' = bulk, CopiesEnd,
           \A s \in Slots : /\ slot'[s].gen = slot[s].gen
                            /\ Live(s) => slot'[s].state \notin {"FREE", "RETIRED"}
                            /\ slot[s].kind = "bulk_read" /\ slot[s].state = "COMPLETE" =>
                                  /\ slot'[s].state = slot[s].state
                                  /\ slot'[s].kind = slot[s].kind
                                  /\ slot'[s].client = slot[s].client
    PROVE  BufferInv'
<1>1. BufferStep
  BY DEF BufferStep
<1>2. GensGrow
  <2>1. \A s \in Slots : slot[s].gen \in Nat
    BY PoolAssumption DEF TypeOK, RequestRecords
  <2> QED
    BY <2>1 DEF GensGrow
<1>3. OwnersKept
  <2>1. ASSUME NEW b \in Bulks, bulk'[b].state \notin {"FREE", "REVOKED"}
        PROVE  bulk[b].of[1] \in Slots
    BY <2>1, HandleParts DEF BufferInv, BuffersSound
  <2> QED
    BY <2>1 DEF OwnersKept
<1>4. CopierStep
  BY DEF CopierStep, CopiesEnd
<1>5. SnapshotKept
  BY DEF SnapshotKept
<1> QED
  BY <1>1, <1>2, <1>3, <1>4, <1>5, BufferInvStays

\* A step that releases the buffers of the requests in R.
LEMMA ReleaseStep ==
    ASSUME TypeOK, TypeOK', BufferInv, CopiesEnd, NEW R \in SUBSET Slots,
           bulk' = BulksReleased(R),
           \A s \in R : slot'[s].gen >= slot[s].gen,
           \A s \in Slots \ R :
              /\ slot'[s].gen = slot[s].gen
              /\ Live(s) => slot'[s].state \notin {"FREE", "RETIRED"}
              /\ slot[s].state = "COMPLETE" => slot'[s] = slot[s]
    PROVE  BufferInv'
<1>1. \A b \in Bulks : /\ bulk[b] \in BulkRecords
                       /\ bulk'[b] = IF \E s \in R : b \in BulkOf(Handle(s))
                                     THEN BulkReleased(bulk[b]) ELSE bulk[b]
  BY DEF TypeOK, BulksReleased
<1>2. EmptyBulk.state = "FREE"
  BY DEF EmptyBulk
<1>3. ASSUME NEW b \in Bulks
      PROVE  /\ \/ bulk'[b] = bulk[b]
                \/ bulk'[b] = EmptyBulk /\ bulk[b].state \notin {"WRITING", "READING", "REVOKED"}
                \/ bulk'[b].of = bulk[b].of /\ bulk'[b].state = "REVOKED"
                   /\ bulk[b].state \in {"WRITING", "READING", "REVOKED"}
             /\ \A s \in R : bulk[b].of = Handle(s) => bulk'[b].state \in {"FREE", "REVOKED"}
  <2>1. CASE \E s \in R : b \in BulkOf(Handle(s))
    BY <1>1, <1>2, <2>1, BulkReleasedType
  <2>2. CASE ~\E s \in R : b \in BulkOf(Handle(s))
    <3>1. bulk'[b] = bulk[b]
      BY <1>1, <2>2
    <3>2. \A s \in R : bulk[b].of = Handle(s) => bulk[b].state = "FREE"
      BY <2>2 DEF BulkOf
    <3> QED
      BY <3>1, <3>2
  <2> QED
    BY <2>1, <2>2
<1>4. BufferStep
  BY <1>3 DEF BufferStep
<1>5. GensGrow
  <2>1. \A s \in Slots : slot[s].gen \in 0..MaxGeneration /\ slot[s].gen \in Nat
    BY PoolAssumption DEF TypeOK, RequestRecords
  <2> QED
    BY <2>1 DEF GensGrow
<1>6. OwnersKept
  <2>1. ASSUME NEW b \in Bulks, bulk'[b].state \notin {"FREE", "REVOKED"}
        PROVE  bulk[b].of[1] \in Slots \ R
    <3>1. bulk'[b] = bulk[b] /\ \A s \in R : bulk[b].of # Handle(s)
      BY <1>2, <1>3, <2>1
    <3>2. Resolves(bulk[b].of) /\ bulk[b].of \in Handles
      BY <2>1, <3>1 DEF BufferInv, BuffersOwned, BuffersSound
    <3>3. bulk[b].of = Handle(bulk[b].of[1]) /\ bulk[b].of[1] \in Slots
      BY <3>2, HandleParts DEF Resolves, Handle
    <3> QED
      BY <3>1, <3>3
  <2> QED
    BY <2>1 DEF OwnersKept
<1>7. CopierStep
  <2>1. ASSUME NEW p \in Processes, copying'[p].bulk # None
        PROVE  LET b == copying[p].bulk IN
               bulk'[b].of = bulk[b].of /\ bulk'[b].state \in {bulk[b].state, "REVOKED"}
    <3>1. copying'[p] = copying[p]
      BY <2>1 DEF CopiesEnd, Idle, ReplyCopied
    <3>2. copying[p].bulk \in Bulks /\ Runs(p)
      BY <2>1, <3>1, CopierRuns DEF BufferInv
    <3>3. bulk[copying[p].bulk].state \in {"WRITING", "READING", "REVOKED"}
      BY <2>1, <3>1, <3>2 DEF BufferInv, BufferHeldByCopier
    <3> QED
      BY <1>3, <3>2, <3>3
  <2> QED
    BY <2>1 DEF CopierStep, CopiesEnd
<1>8. SnapshotKept
  BY <1>3 DEF SnapshotKept
<1> QED
  BY <1>4, <1>5, <1>6, <1>7, <1>8, BufferInvStays

\* Processes that copy go on running, except one that stops.
LEMMA CopiesEndOne ==
    ASSUME TypeOK, CopiersSound, NEW p \in Processes, End(p),
           \A q \in Processes : q # p /\ Runs(q) => Runs(q)'
    PROVE  CopiesEnd
<1>1. ASSUME NEW q \in Processes
      PROVE  /\ copying'[q] = IF q = p THEN Idle ELSE copying[q]
  BY DEF End, TypeOK
<1> QED
  BY <1>1, CopierRuns DEF CopiesEnd

\* Copies go on.
LEMMA CopiesGoOn ==
    ASSUME TypeOK, CopiersSound, copying' = copying,
           \A q \in Processes : Runs(q) => Runs(q)'
    PROVE  CopiesEnd
BY CopierRuns DEF CopiesEnd

\* The end of p's copy: its buffer y is passed on, or given back together with the
\* requests V it belongs to.
LEMMA CopyEndStep ==
    ASSUME TypeOK, TypeOK', BufferInv, NEW p \in Processes, End(p), life' = life,
           copying[p].call \in BulkCalls, NEW y, NEW V \in SUBSET Slots,
           bulk' = [bulk EXCEPT ![copying[p].bulk] = y],
           \/ y = EmptyBulk
           \/ /\ y.of = bulk[copying[p].bulk].of /\ y.state \in {"PUBLISHED", "CONSUMED"}
              /\ bulk[copying[p].bulk].state # "REVOKED" /\ V = {},
           \A s \in V : /\ slot'[s] = Vacated(slot[s].gen)
                        /\ Handle(s) = bulk[copying[p].bulk].of,
           \A s \in Slots \ V :
              /\ slot'[s].gen = slot[s].gen
              /\ Live(s) => slot'[s].state \notin {"FREE", "RETIRED"}
              /\ slot[s].state = "COMPLETE" => slot'[s] = slot[s]
    PROVE  BufferInv'
<1> DEFINE b == copying[p].bulk
<1>1. b \in Bulks /\ b # None /\ Runs(p)
  BY CopierRuns, PoolAssumption DEF BufferInv, CopiersSound, Bulks, BulkCalls
<1>2. bulk[b].of = copying[p].of /\ bulk[b].state \in {"WRITING", "READING", "REVOKED"}
  BY <1>1 DEF BufferInv, BufferHeldByCopier
<1>3. \A a \in Bulks : bulk'[a] = IF a = b THEN y ELSE bulk[a]
  BY <1>1 DEF TypeOK
<1>4. EmptyBulk.state = "FREE"
  BY DEF EmptyBulk
<1>5. BufferStep
  BY <1>2, <1>3 DEF BufferStep
<1>6. GensGrow
  <2>1. \A s \in Slots : slot[s].gen \in 0..MaxGeneration /\ slot[s].gen \in Nat
    BY PoolAssumption DEF TypeOK, RequestRecords
  <2> QED
    BY <2>1, VacatedType DEF GensGrow
<1>7. \A a \in Bulks : \A s \in V : bulk[a].state # "FREE" /\ bulk[a].of = Handle(s)
                                       => a = b /\ bulk'[a].state = "FREE"
  BY <1>1, <1>2, <1>3, <1>4 DEF BufferInv, BuffersSound
<1>8. OwnersKept
  <2>1. ASSUME NEW a \in Bulks, bulk'[a].state \notin {"FREE", "REVOKED"}
        PROVE  bulk[a].of[1] \in Slots \ V
    <3>1. bulk[a].state \notin {"FREE", "REVOKED"}
      BY <1>2, <1>3, <1>4, <2>1
    <3>2. Resolves(bulk[a].of) /\ bulk[a].of \in Handles
      BY <3>1 DEF BufferInv, BuffersOwned, BuffersSound
    <3>3. bulk[a].of = Handle(bulk[a].of[1]) /\ bulk[a].of[1] \in Slots
      BY <3>2, HandleParts DEF Resolves, Handle
    <3> QED
      BY <1>7, <2>1, <3>1, <3>3
  <2> QED
    BY <2>1 DEF OwnersKept
<1>9. CopierStep
  <2>1. CopiesEnd
    BY CopiesEndOne DEF BufferInv, Runs
  <2>2. ASSUME NEW q \in Processes, copying'[q].bulk # None
        PROVE  bulk'[copying[q].bulk] = bulk[copying[q].bulk]
    <3>1. q # p /\ copying'[q] = copying[q]
      BY <2>2 DEF End, TypeOK, Idle
    <3>2. copying[q].bulk # b /\ copying[q].bulk \in Bulks
      BY <1>1, <2>2, <3>1, CopierRuns DEF BufferInv, CopiersSound
    <3> QED
      BY <1>3, <3>2
  <2> QED
    BY <2>1, <2>2 DEF CopierStep, CopiesEnd
<1>10. SnapshotKept
  <2>1. \A s \in V : \A a \in Bulks : bulk[a].of = Handle(s) => bulk'[a].state # "READING"
    BY <1>3, <1>4, <1>7
  <2> QED
    BY <2>1 DEF SnapshotKept
<1> QED
  BY <1>5, <1>6, <1>8, <1>9, <1>10, BufferInvStays

------------------------------------------------------------------------------
(* The beginning of a copy.                                                 *)

\* The buffer of a request is the only one, and nobody copies it before.
LEMMA BufferAvailable ==
    ASSUME IInv, NEW s \in Slots, NEW state \in {"RESERVED", "PUBLISHED"}, HasBulk(s, state)
    PROVE  LET b == First(BulkOf(Handle(s))) IN
           /\ b \in Bulks /\ b # None /\ BulkOf(Handle(s)) = {b}
           /\ bulk[b].state = state /\ bulk[b].of = Handle(s)
           /\ \A q \in Processes : copying[q].bulk # b
<1>1. PICK b \in BulkOf(Handle(s)) : bulk[b].state = state
  BY DEF HasBulk
<1>2. b \in Bulks /\ bulk[b].of = Handle(s) /\ b \in Nat /\ b # None
  BY <1>1, PoolAssumption DEF BulkOf, Bulks
<1>3. BulkOf(Handle(s)) = {b}
  BY <1>1, <1>2 DEF IInv, BufferInv, BuffersOwned
<1>4. First({b}) = b
  <2>1. b <= b
    BY <1>2
  <2> QED
    BY <2>1 DEF First
<1>5. \A q \in Processes : copying[q].bulk # b
  <2>1. ASSUME NEW q \in Processes, copying[q].bulk = b PROVE FALSE
    <3>1. Runs(q)
      BY <1>2, <2>1, CopierRuns DEF IInv, BufferInv
    <3>2. bulk[b].state \in {"WRITING", "READING", "REVOKED"}
      BY <1>2, <2>1, <3>1 DEF IInv, BufferInv, BufferHeldByCopier
    <3> QED
      BY <1>1, <3>2
  <2> QED
    BY <2>1
<1> QED
  BY <1>1, <1>2, <1>3, <1>4, <1>5

\* A copy by p of the buffer of request s begins.
LEMMA CopyBeginStep ==
    ASSUME IInv, NEW p \in Processes, NEW s \in Slots, NEW call \in BulkCalls,
           NEW old \in {"RESERVED", "PUBLISHED"}, NEW new \in {"WRITING", "READING"},
           Can(p), HasBulk(s, old), SetBulk(s, new),
           Begin(p, call, s, First(BulkOf(Handle(s)))),
           call = "bulk_collect" => /\ slot[s].kind = "bulk_read" /\ slot[s].state = "COMPLETE"
                                    /\ slot[s].client = p /\ new = "READING",
           UNCHANGED <<slot, fences, bound, life, tainted>>
    PROVE  TypeOK' /\ BufferInv'
<1> DEFINE b == First(BulkOf(Handle(s)))
<1>1. /\ b \in Bulks /\ b # None /\ BulkOf(Handle(s)) = {b}
      /\ bulk[b].state = old /\ bulk[b].of = Handle(s)
      /\ \A q \in Processes : copying[q].bulk # b
  BY BufferAvailable
<1> HIDE DEF b
<1>2. TypeOK
  BY DEF IInv
<1>3. Handle(s) \in Handles /\ Handle(s)[1] = s
  BY <1>2, HandleOfSlot
<1>4. bulk' = [bulk EXCEPT ![b].state = new]
  BY <1>1, <1>2 DEF SetBulk, TypeOK
<1>5. copying' = [copying EXCEPT ![p] = [call |-> call, of |-> Handle(s), bulk |-> b]]
  BY DEF Begin, b
<1>6. \A a \in Bulks : /\ a # b => bulk'[a] = bulk[a]
                       /\ bulk'[b].state = new /\ bulk'[b].of = bulk[b].of
  BY <1>1, <1>2, <1>4 DEF TypeOK, BulkRecords
<1>7. \A q \in Processes : /\ q # p => copying'[q] = copying[q]
                           /\ copying'[p].call = call /\ copying'[p].of = Handle(s)
                           /\ copying'[p].bulk = b
  BY <1>2, <1>5 DEF TypeOK
<1>8. TypeOK'
  <2>1. bulk' \in [Bulks -> BulkRecords]
    BY <1>1, <1>2, <1>4 DEF TypeOK, BulkRecords, BulkStates
  <2>2. [call |-> call, of |-> Handle(s), bulk |-> b] \in CopyRecords
    BY <1>1, <1>3 DEF CopyRecords, Calls, BulkCalls
  <2>3. copying' \in [Processes -> CopyRecords]
    BY <1>2, <1>5, <2>2 DEF TypeOK
  <2> QED
    BY <1>2, <2>1, <2>3 DEF TypeOK
<1>9. BufferStep /\ GensGrow /\ OwnersKept
  <2>1. BufferStep
    BY <1>1, <1>6 DEF BufferStep
  <2>2. \A u \in Slots : slot[u].gen \in Nat
    BY <1>2, PoolAssumption DEF TypeOK, RequestRecords
  <2> QED
    BY <2>1, <2>2 DEF GensGrow, OwnersKept, Live
<1>10. BuffersSound' /\ BuffersOwned'
  BY <1>2, <1>8, <1>9, BuffersStay DEF IInv, BufferInv
<1>11. CopiersSound'
  <2>1. CopiersSound /\ Runs(p)
    BY DEF IInv, BufferInv, Can
  <2>2. \A q \in Processes : Runs(q)' <=> Runs(q)
    BY DEF Runs
  <2>3. ASSUME NEW q \in Processes
        PROVE /\ copying'[q].call = "none" => copying'[q] = Idle
              /\ copying'[q].call # "none" => copying'[q].of \in Handles /\ Runs(q)'
              /\ copying'[q].call = "reply" => copying'[q].bulk = None
              /\ copying'[q].call \in BulkCalls => copying'[q].bulk \in Bulks
    BY <1>1, <1>3, <1>7, <2>1, <2>2 DEF CopiersSound, BulkCalls
  <2>4. ASSUME NEW q \in Processes, NEW r \in Processes,
               copying'[q].bulk # None, copying'[q].bulk = copying'[r].bulk
        PROVE  q = r
    BY <1>1, <1>7, <2>1, <2>4 DEF CopiersSound
  <2> QED
    BY <2>3, <2>4 DEF CopiersSound
<1>12. BufferHeldByCopier'
  <2>1. ASSUME NEW q \in Processes, Runs(q), copying'[q].bulk # None
        PROVE  LET x == bulk'[copying'[q].bulk] IN
               x.of = copying'[q].of /\ x.state \in {"WRITING", "READING", "REVOKED"}
    <3>1. CASE q = p
      BY <1>1, <1>6, <1>7, <3>1
    <3>2. CASE q # p
      <4>1. copying'[q] = copying[q] /\ copying[q].bulk \in Bulks /\ copying[q].bulk # b
        BY <1>1, <1>2, <1>7, <2>1, <3>2, CopierRuns DEF IInv, BufferInv
      <4> QED
        BY <1>6, <2>1, <4>1 DEF IInv, BufferInv, BufferHeldByCopier
    <3> QED
      BY <3>1, <3>2
  <2> QED
    BY <2>1 DEF BufferHeldByCopier, Runs
<1>13. SnapshotIsRead' /\ CollectSnapshotValid'
  <2>1. ASSUME NEW c \in Clients, Runs(c), copying'[c].call = "bulk_collect",
               bulk'[copying'[c].bulk].state = "READING"
        PROVE  LET u == copying'[c].of[1] IN
               /\ slot[u].kind = "bulk_read" /\ slot[u].state = "COMPLETE"
               /\ slot[u].client = c /\ Handle(u) = copying'[c].of
    <3>1. c \in Processes
      BY DEF Processes
    <3>2. CASE c = p
      BY <1>3, <1>7, <2>1, <3>2
    <3>3. CASE c # p
      <4>1. copying'[c] = copying[c]
        BY <1>7, <3>1, <3>3
      <4>2. copying[c].bulk \in Bulks /\ copying[c].bulk # b
        BY <1>1, <2>1, <3>1, <4>1 DEF IInv, BufferInv, CopiersSound, BulkCalls
      <4>3. bulk[copying[c].bulk].state = "READING"
        BY <1>6, <2>1, <4>1, <4>2
      <4> QED
        BY <2>1, <4>1, <4>3 DEF IInv, BufferInv, SnapshotIsRead, CollectSnapshotValid
    <3> QED
      BY <3>2, <3>3
  <2> QED
    BY <2>1 DEF SnapshotIsRead, CollectSnapshotValid, Runs, Handle
<1>14. CollectorReads'
  <2>1. ASSUME NEW c \in Clients, copying'[c].call = "bulk_collect"
        PROVE  bulk'[copying'[c].bulk].state \in {"READING", "REVOKED"}
    <3>1. c \in Processes
      BY DEF Processes
    <3>2. CASE c = p
      BY <1>1, <1>6, <1>7, <2>1, <3>2
    <3>3. CASE c # p
      <4>1. copying'[c] = copying[c] /\ copying[c].bulk \in Bulks /\ copying[c].bulk # b
        BY <1>1, <1>7, <2>1, <3>1, <3>3 DEF IInv, BufferInv, CopiersSound, BulkCalls
      <4> QED
        BY <1>6, <2>1, <4>1 DEF IInv, BufferInv, CollectorReads
    <3> QED
      BY <3>2, <3>3
  <2> QED
    BY <2>1 DEF CollectorReads
<1> QED
  BY <1>8, <1>10, <1>11, <1>12, <1>13, <1>14 DEF BufferInv

------------------------------------------------------------------------------
(* What a step may do to requests.                                          *)

\* An effect stays on record, or its medium is fenced.
EffectsKept ==
    /\ tainted' \subseteq tainted /\ fences \subseteq fences'
    /\ \A s \in Slots :
          Live(s) /\ slot[s].mutation \in Effects =>
              \/ slot[s].target \in fences'
              \/ /\ slot'[s].gen = slot[s].gen /\ slot'[s].state \notin {"FREE", "RETIRED"}
                 /\ slot'[s].target = slot[s].target /\ slot'[s].mutation \in Effects

\* No effect is forgotten.
LEMMA EffectsStay ==
    ASSUME TypeOK, EffectsAccounted, EffectsKept
    PROVE  EffectsAccounted'
<1>1. ASSUME NEW e \in tainted'
      PROVE  LET s == e[1][1] IN
             \/ e[2] \in fences'
             \/ /\ Resolves(e[1])' /\ slot'[s].target = e[2]
                /\ slot'[s].mutation \in {"ATTEMPTED", "DURABLE", "UNKNOWN"}
  <2> DEFINE s == e[1][1]
  <2>1. e \in tainted /\ e[1] \in Handles
    BY <1>1 DEF EffectsKept, TypeOK
  <2>2. s \in Slots
    BY <2>1, HandleParts
  <2>3. CASE e[2] \in fences
    BY <2>3 DEF EffectsKept
  <2>4. CASE /\ Resolves(e[1]) /\ slot[s].target = e[2]
             /\ slot[s].mutation \in {"ATTEMPTED", "DURABLE", "UNKNOWN"}
    BY <2>2, <2>4 DEF EffectsKept, Effects, Resolves, Live
  <2> QED
    BY <2>1, <2>3, <2>4 DEF EffectsAccounted
<1> QED
  BY <1>1 DEF EffectsAccounted

\* Nobody new is served, and the service that serves is the bound one.
LEMMA ClaimsStay ==
    ASSUME ClaimsServed, bound' = bound,
           life[bound] # "reaped" => life'[bound] # "reaped",
           \A s \in Slots : slot'[s].state \in Served =>
                               slot[s].state \in Served /\ slot'[s].service = slot[s].service
    PROVE  ClaimsServed'
BY DEF ClaimsServed, Served

\* The media fenced for lost requests are media.
LEMMA FencedType ==
    ASSUME RequestsSound, NEW S \in SUBSET Slots
    PROVE  FencedByLoss(S) \in SUBSET Resources
BY DEF FencedByLoss, RequestsSound, SoundRecord

\* Requests R are released and D lose their reply, with what they may have done
\* fenced.
LEMMA ReleaseKeeps ==
    ASSUME IInv, NEW R \in SUBSET Slots, NEW D \in SUBSET Slots, D \subseteq Delivering,
           slot' = [s \in Slots |->
                       IF s \in R THEN Vacated(slot[s].gen)
                       ELSE IF s \in D THEN [slot[s] EXCEPT !.state = "DELIVERY_CANCELLED"]
                       ELSE slot[s]],
           bulk' = BulksReleased(R), fences' = fences \cup FencedByLoss(R \cup D),
           bound' \in Services \cup {None},
           life' \in [Processes -> {"live", "retired", "doomed", "reaped"}],
           copying' \in [Processes -> CopyRecords], CopiesEnd, tainted' = tainted
    PROVE  /\ TypeOK' /\ BufferInv' /\ RequestsSound' /\ EffectsAccounted'
           /\ \A s \in Slots : slot'[s].state \in Served => s \notin R /\ slot'[s] = slot[s]
<1>1. TypeOK /\ RequestsSound /\ EffectsAccounted /\ BufferInv
  BY DEF IInv, RequestInv
<1>2. ASSUME NEW s \in R
      PROVE  /\ slot'[s] = Vacated(slot[s].gen) /\ slot'[s] \in RequestRecords
             /\ slot'[s].state \in {"FREE", "RETIRED"} /\ slot'[s].mutation = "UNBOUND"
             /\ slot'[s].kind = None /\ slot'[s].gen >= slot[s].gen
  BY <1>1, VacatedType, HandleOfSlot
<1>3. ASSUME NEW s \in Slots, s \notin R, s \in D
      PROVE  /\ slot'[s] = [slot[s] EXCEPT !.state = "DELIVERY_CANCELLED"]
             /\ slot'[s].state = "DELIVERY_CANCELLED"
             /\ slot'[s].gen = slot[s].gen /\ slot'[s].mutation = slot[s].mutation
             /\ slot'[s].target = slot[s].target /\ slot'[s].kind = slot[s].kind
             /\ slot[s].state \in {"DELIVERING", "DELIVERY_CANCELLED"}
             /\ slot'[s] \in RequestRecords
  <2>1. slot[s] \in RequestRecords /\ slot'[s] = [slot[s] EXCEPT !.state = "DELIVERY_CANCELLED"]
    BY <1>1, <1>3 DEF TypeOK
  <2>2. slot[s].state \in {"DELIVERING", "DELIVERY_CANCELLED"}
    BY <1>3 DEF Delivering
  <2> QED
    BY <2>1, <2>2 DEF RequestRecords, SlotStates
<1>4. ASSUME NEW s \in Slots, s \notin R, s \notin D
      PROVE  slot'[s] = slot[s] /\ slot'[s] \in RequestRecords
  BY <1>1, <1>4 DEF TypeOK
<1>5. TypeOK'
  <2>1. slot' \in [Slots -> RequestRecords]
    <3>1. \A s \in Slots : slot'[s] \in RequestRecords
      BY <1>2, <1>3, <1>4
    <3>2. slot' = [s \in Slots |-> slot'[s]]
      OBVIOUS
    <3> QED
      BY <3>1, <3>2
  <2>2. bulk' \in [Bulks -> BulkRecords]
    BY <1>1, BulkReleasedType DEF BulksReleased, TypeOK
  <2>3. fences' \subseteq Resources
    BY <1>1, FencedType DEF TypeOK
  <2> QED
    BY <1>1, <2>1, <2>2, <2>3 DEF TypeOK
<1>6. BufferInv'
  <2>1. \A s \in Slots \ R : /\ slot'[s].gen = slot[s].gen
                             /\ Live(s) => slot'[s].state \notin {"FREE", "RETIRED"}
                             /\ slot[s].state = "COMPLETE" => slot'[s] = slot[s]
    BY <1>3, <1>4 DEF Live
  <2> QED
    BY <1>1, <1>2, <1>5, <2>1, ReleaseStep
<1>7. RequestsSound'
  <2>1. ASSUME NEW s \in Slots PROVE SoundRecord(slot'[s], fences')
    <3>1. SoundRecord(slot[s], fences)
      BY <1>1 DEF RequestsSound
    <3>2. CASE s \in R
      BY <1>2, <3>2, PoolAssumption DEF SoundRecord, Served, Answered
    <3>3. CASE s \notin R /\ s \in D
      BY <1>3, <3>1, <3>3 DEF SoundRecord, Served, Answered, Waiting
    <3>4. CASE s \notin R /\ s \notin D
      BY <1>4, <3>1, <3>4 DEF SoundRecord
    <3> QED
      BY <3>2, <3>3, <3>4
  <2> QED
    BY <2>1 DEF RequestsSound
<1>8. EffectsAccounted'
  <2>1. \A s \in Slots : s \in R \cup D /\ slot[s].mutation \in Effects
                            => slot[s].target \in fences'
    BY DEF FencedByLoss, Effects
  <2> QED
    BY <1>1, <1>4, <2>1, EffectsStay DEF EffectsKept, Live
<1>9. \A s \in Slots : slot'[s].state \in Served => s \notin R /\ slot'[s] = slot[s]
  BY <1>2, <1>3, <1>4 DEF Served
<1> QED
  BY <1>5, <1>6, <1>7, <1>8, <1>9

\* Giving up requests whoever they belong to keeps the invariant.
LEMMA AbandonKeeps ==
    ASSUME IInv, NEW S \in SUBSET Slots, Abandon(S), bound' = bound, life' = life,
           tainted' = tainted,
           \/ copying' = copying
           \/ \E p \in Processes : End(p)
    PROVE  IInv'
<1>1. TypeOK /\ CopiersSound /\ ClaimsServed
  BY DEF IInv, BufferInv, RequestInv
<1>2. CopiesEnd
  BY <1>1, CopiesEndOne, CopiesGoOn DEF Runs
<1>3. copying' \in [Processes -> CopyRecords]
  <2>1. Idle \in CopyRecords
    BY DEF Idle, CopyRecords, Calls
  <2> QED
    BY <1>1, <2>1 DEF TypeOK, End
<1>4. slot' = [s \in Slots |->
                 IF s \in S THEN Vacated(slot[s].gen)
                 ELSE IF s \in {} THEN [slot[s] EXCEPT !.state = "DELIVERY_CANCELLED"]
                 ELSE slot[s]]
      /\ bulk' = BulksReleased(S) /\ fences' = fences \cup FencedByLoss(S \cup {})
  BY DEF Abandon
<1>5. /\ TypeOK' /\ BufferInv' /\ RequestsSound' /\ EffectsAccounted'
      /\ \A s \in Slots : slot'[s].state \in Served => s \notin S /\ slot'[s] = slot[s]
  <2>1. {} \in SUBSET Slots /\ {} \subseteq Delivering
    OBVIOUS
  <2>2. bound' \in Services \cup {None}
        /\ life' \in [Processes -> {"live", "retired", "doomed", "reaped"}]
    BY <1>1 DEF TypeOK
  <2> QED
    BY <1>2, <1>3, <1>4, <2>1, <2>2, ReleaseKeeps
<1>6. ClaimsServed'
  BY <1>1, <1>5, ClaimsStay
<1> QED
  BY <1>5, <1>6 DEF IInv, RequestInv

\* What the exit of a process takes away.
LEMMA CancelProcessKeeps ==
    ASSUME IInv, NEW p \in Processes, CancelProcess(p), copying' = copying,
           tainted' = tainted, bound' \in Services \cup {None},
           life' \in [Processes -> {"live", "retired", "doomed", "reaped"}],
           \A q \in Processes : Runs(q) => Runs(q)'
    PROVE  /\ TypeOK' /\ BufferInv' /\ RequestsSound' /\ EffectsAccounted'
           /\ \A s \in Slots : slot'[s].state \in Served =>
                                  slot'[s] = slot[s] /\ slot[s].service # p
<1> DEFINE R == Involving(p) \ Delivering
           D == Involving(p) \cap Delivering
<1>1. TypeOK /\ CopiersSound
  BY DEF IInv, BufferInv
<1>2. CopiesEnd
  BY <1>1, CopiesGoOn
<1>3. R \in SUBSET Slots /\ D \in SUBSET Slots /\ D \subseteq Delivering
  BY DEF Involving
<1>4. R \cup D = Involving(p)
  OBVIOUS
<1>5. slot' = [s \in Slots |->
                 IF s \in R THEN Vacated(slot[s].gen)
                 ELSE IF s \in D THEN [slot[s] EXCEPT !.state = "DELIVERY_CANCELLED"]
                 ELSE slot[s]]
  <2>1. \A s \in Slots : s \notin R => (s \in D <=> s \in Involving(p))
    OBVIOUS
  <2> HIDE DEF D
  <2> QED
    BY <2>1 DEF CancelProcess
<1>6. bulk' = BulksReleased(R) /\ fences' = fences \cup FencedByLoss(R \cup D)
  BY <1>4 DEF CancelProcess
<1>7. copying' \in [Processes -> CopyRecords]
  BY <1>1 DEF TypeOK
<1> HIDE DEF R, D
<1>8. /\ TypeOK' /\ BufferInv' /\ RequestsSound' /\ EffectsAccounted'
      /\ \A s \in Slots : slot'[s].state \in Served => s \notin R /\ slot'[s] = slot[s]
  BY <1>2, <1>3, <1>5, <1>6, <1>7, ReleaseKeeps
<1>9. \A s \in Slots : slot[s].state \in Served /\ s \notin R => slot[s].service # p
  BY DEF R, Involving, Live, Delivering, Served
<1> QED
  BY <1>8, <1>9

\* One request is updated, its handle and buffers are left alone.
LEMMA UpdateKeeps ==
    ASSUME IInv, NEW s \in Slots, NEW x \in RequestRecords, Live(s),
           slot' = [slot EXCEPT ![s] = x],
           x.gen = slot[s].gen, x.kind = slot[s].kind, x.client = slot[s].client,
           x.state \notin {"FREE", "RETIRED"},
           x.kind = "bulk_read" /\ slot[s].state = "COMPLETE" => x.state = "COMPLETE",
           x.state \in Served => x.service = bound /\ life[bound] # "reaped",
           fences \subseteq fences', fences' \subseteq Resources, SoundRecord(x, fences'),
           UNCHANGED <<bulk, bound, life>>, CopiesEnd,
           copying' \in [Processes -> CopyRecords], tainted' \subseteq Handles \X Resources
    PROVE  /\ TypeOK' /\ BufferInv' /\ RequestsSound' /\ ClaimsServed'
           /\ slot'[s] = x /\ \A u \in Slots : u # s => slot'[u] = slot[u]
<1>1. TypeOK /\ RequestsSound /\ ClaimsServed /\ BufferInv
  BY DEF IInv, RequestInv
<1>2. slot'[s] = x /\ \A u \in Slots : u # s => slot'[u] = slot[u]
  BY <1>1 DEF TypeOK
<1>3. TypeOK'
  BY <1>1 DEF TypeOK
<1>4. BufferInv'
  <2>1. \A u \in Slots : /\ slot'[u].gen = slot[u].gen
                         /\ Live(u) => slot'[u].state \notin {"FREE", "RETIRED"}
                         /\ slot[u].kind = "bulk_read" /\ slot[u].state = "COMPLETE" =>
                               /\ slot'[u].state = slot[u].state
                               /\ slot'[u].kind = slot[u].kind
                               /\ slot'[u].client = slot[u].client
    BY <1>2 DEF Live
  <2> QED
    BY <1>1, <1>3, <2>1, QuietStep
<1>5. RequestsSound'
  <2>1. ASSUME NEW u \in Slots, u # s PROVE SoundRecord(slot'[u], fences')
    BY <1>1, <1>2, <2>1 DEF RequestsSound, SoundRecord
  <2> QED
    BY <1>2, <2>1 DEF RequestsSound
<1>6. ClaimsServed'
  BY <1>1, <1>2 DEF ClaimsServed, Served
<1> QED
  BY <1>2, <1>3, <1>4, <1>5, <1>6

\* ... and its effects stay on record too.
LEMMA UpdateKeepsAll ==
    ASSUME IInv, NEW s \in Slots, NEW x \in RequestRecords, Live(s),
           slot' = [slot EXCEPT ![s] = x],
           x.gen = slot[s].gen, x.kind = slot[s].kind, x.client = slot[s].client,
           x.state \notin {"FREE", "RETIRED"},
           x.kind = "bulk_read" /\ slot[s].state = "COMPLETE" => x.state = "COMPLETE",
           x.state \in Served => x.service = bound /\ life[bound] # "reaped",
           fences \subseteq fences', fences' \subseteq Resources, SoundRecord(x, fences'),
           UNCHANGED <<bulk, bound, life, tainted>>, CopiesEnd,
           copying' \in [Processes -> CopyRecords],
           slot[s].mutation \in Effects =>
              x.mutation \in Effects /\ x.target = slot[s].target
    PROVE  IInv'
<1>1. TypeOK /\ EffectsAccounted
  BY DEF IInv, RequestInv
<1>2. tainted' \subseteq Handles \X Resources
  BY <1>1 DEF TypeOK
<1>3. /\ TypeOK' /\ BufferInv' /\ RequestsSound' /\ ClaimsServed'
      /\ slot'[s] = x /\ \A u \in Slots : u # s => slot'[u] = slot[u]
  BY <1>2, UpdateKeeps
<1>4. EffectsAccounted'
  BY <1>1, <1>3, EffectsStay DEF EffectsKept, Live
<1> QED
  BY <1>3, <1>4 DEF IInv, RequestInv

\* What stays when no process ends or begins a copy.
LEMMA CopiesUnchanged ==
    ASSUME IInv, copying' = copying, life' = life
    PROVE  CopiesEnd /\ copying' \in [Processes -> CopyRecords]
BY CopiesGoOn DEF IInv, BufferInv, TypeOK, Runs

------------------------------------------------------------------------------
(* Every step keeps the invariant: requests.                                *)

\* What a claimed request is known to be.
LEMMA ClaimedFacts ==
    ASSUME IInv, NEW s \in Slots, slot[s].state \in Served
    PROVE  /\ slot[s] \in RequestRecords /\ SoundRecord(slot[s], fences) /\ Live(s)
           /\ slot[s].service = bound /\ life[bound] # "reaped"
BY DEF IInv, TypeOK, RequestInv, RequestsSound, ClaimsServed, Served, Live

\* A request completes with success.
LEMMA CompleteOkKeeps ==
    ASSUME IInv, NEW v \in Services, NEW s \in Slots, CompleteOk(v, s)
    PROVE  IInv'
<1> DEFINE x == [slot[s] EXCEPT !.state = "COMPLETE", !.ok = TRUE]
<1>1. /\ slot[s] \in RequestRecords /\ SoundRecord(slot[s], fences) /\ Live(s)
      /\ slot[s].state = "CLAIMED" /\ slot[s].mutation \notin {"BOUND", "ATTEMPTED"}
  BY ClaimedFacts DEF CompleteOk, Served
<1>2. slot' = [slot EXCEPT ![s] = x] /\ UNCHANGED <<bulk, fences, bound, life, copying, tainted>>
  BY DEF CompleteOk
<1>3. /\ x \in RequestRecords /\ x.gen = slot[s].gen /\ x.kind = slot[s].kind
      /\ x.client = slot[s].client /\ x.state = "COMPLETE" /\ x.mutation = slot[s].mutation
      /\ x.target = slot[s].target
  BY <1>1 DEF RequestRecords, SlotStates
<1> HIDE DEF x
<1>4. SoundRecord(x, fences')
  BY <1>1, <1>2, <1>3 DEF SoundRecord, Served, Waiting, Answered
<1>5. CopiesEnd /\ copying' \in [Processes -> CopyRecords]
  BY <1>2, CopiesUnchanged
<1>6. fences' \subseteq Resources /\ fences \subseteq fences'
  BY <1>2 DEF IInv, TypeOK
<1> QED
  BY <1>1, <1>2, <1>3, <1>4, <1>5, <1>6, UpdateKeepsAll DEF Served

\* The clock passes a deadline.
LEMMA DeadlineKeeps ==
    ASSUME IInv, NEW s \in Slots, DeadlinePasses(s)
    PROVE  IInv'
<1> DEFINE x == [slot[s] EXCEPT !.expired = TRUE]
<1>1. /\ slot[s] \in RequestRecords /\ SoundRecord(slot[s], fences) /\ Live(s)
      /\ slot[s].state \notin {"FREE", "RETIRED"}
      /\ slot[s].state \in Served => slot[s].service = bound /\ life[bound] # "reaped"
  BY ClaimedFacts DEF DeadlinePasses, IInv, TypeOK, RequestInv, RequestsSound, Live
<1>2. slot' = [slot EXCEPT ![s] = x] /\ UNCHANGED <<bulk, fences, bound, life, copying, tainted>>
  BY DEF DeadlinePasses
<1>3. /\ x \in RequestRecords /\ x.gen = slot[s].gen /\ x.kind = slot[s].kind
      /\ x.client = slot[s].client /\ x.state = slot[s].state /\ x.mutation = slot[s].mutation
      /\ x.target = slot[s].target /\ x.service = slot[s].service
  BY <1>1 DEF RequestRecords
<1> HIDE DEF x
<1>4. SoundRecord(x, fences')
  BY <1>1, <1>2, <1>3 DEF SoundRecord
<1>5. CopiesEnd /\ copying' \in [Processes -> CopyRecords]
  BY <1>2, CopiesUnchanged
<1>6. fences' \subseteq Resources /\ fences \subseteq fences'
  BY <1>2 DEF IInv, TypeOK
<1> QED
  BY <1>1, <1>2, <1>3, <1>4, <1>5, <1>6, UpdateKeepsAll

\* A request is cancelled.
LEMMA CancelKeeps ==
    ASSUME IInv, NEW c \in Clients, NEW s \in Slots, Cancel(c, s)
    PROVE  IInv'
<1>1. Live(s) /\ UNCHANGED <<bound, life, copying, tainted>>
  BY DEF Cancel
<1>2. CASE slot[s].state \in CancelFrees
  BY <1>1, <1>2, AbandonKeeps DEF Cancel
<1>3. CASE slot[s].state \notin CancelFrees
  <2> DEFINE next == CASE slot[s].state = "CLAIMED" -> "CANCEL_PENDING"
                       [] slot[s].state = "DELIVERING" -> "DELIVERY_CANCELLED"
                       [] OTHER -> slot[s].state
             x == [slot[s] EXCEPT !.state = next]
  <2>1. /\ slot[s] \in RequestRecords /\ SoundRecord(slot[s], fences)
        /\ slot[s].state \in Served => slot[s].service = bound /\ life[bound] # "reaped"
    BY ClaimedFacts DEF IInv, TypeOK, RequestInv, RequestsSound
  <2>2. slot' = [slot EXCEPT ![s] = x] /\ bulk' = bulk /\ fences' = fences \cup FencedByLoss({s})
    BY <1>3 DEF Cancel
  <2>3. \/ slot[s].state = "CLAIMED" /\ next = "CANCEL_PENDING"
        \/ slot[s].state = "DELIVERING" /\ next = "DELIVERY_CANCELLED"
        \/ slot[s].state \in {"CANCEL_PENDING", "DELIVERY_CANCELLED"} /\ next = slot[s].state
    <3>1. slot[s].state \in {"CLAIMED", "DELIVERING", "CANCEL_PENDING", "DELIVERY_CANCELLED"}
      BY <1>1, <1>3, <2>1 DEF CancelFrees, Live, RequestRecords, SlotStates
    <3> QED
      BY <3>1
  <2> HIDE DEF next
  <2>4. next \in SlotStates
    BY <2>1, <2>3 DEF SlotStates
  <2>5. /\ x \in RequestRecords /\ x.gen = slot[s].gen /\ x.kind = slot[s].kind
        /\ x.client = slot[s].client /\ x.state = next /\ x.mutation = slot[s].mutation
        /\ x.target = slot[s].target /\ x.service = slot[s].service
    BY <2>1, <2>4 DEF RequestRecords
  <2> HIDE DEF x
  <2>6. SoundRecord(x, fences')
    BY <2>1, <2>2, <2>3, <2>5 DEF SoundRecord, Served, Waiting, Answered
  <2>7. CopiesEnd /\ copying' \in [Processes -> CopyRecords]
    BY <1>1, CopiesUnchanged
  <2>8. fences' \subseteq Resources /\ fences \subseteq fences'
    BY <2>2, FencedType DEF IInv, TypeOK, RequestInv
  <2>9. /\ x.state \notin {"FREE", "RETIRED"}
        /\ x.state \in Served => x.service = bound /\ life[bound] # "reaped"
        /\ slot[s].state # "COMPLETE"
    BY <2>1, <2>3, <2>5 DEF Served
  <2> QED
    BY <1>1, <2>1, <2>2, <2>5, <2>6, <2>7, <2>8, <2>9, UpdateKeepsAll
<1> QED
  BY <1>2, <1>3

\* A mutation is bound to its medium.
LEMMA MutationBindKeeps ==
    ASSUME IInv, NEW v \in Services, NEW s \in Slots, NEW r \in Resources,
           MutationBind(v, s, r)
    PROVE  IInv'
<1> DEFINE x == [slot[s] EXCEPT !.mutation = "BOUND", !.target = r]
<1>1. /\ slot[s] \in RequestRecords /\ SoundRecord(slot[s], fences) /\ Live(s)
      /\ slot[s].state = "CLAIMED" /\ slot[s].mutation = "UNBOUND"
      /\ slot[s].kind \in Mutating /\ slot[s].service = bound /\ life[bound] # "reaped"
  BY ClaimedFacts DEF MutationBind, MutationClaimed, MutationHeld, Served
<1>2. slot' = [slot EXCEPT ![s] = x] /\ UNCHANGED <<bulk, fences, bound, life, copying, tainted>>
  BY DEF MutationBind
<1>3. /\ x \in RequestRecords /\ x.gen = slot[s].gen /\ x.kind = slot[s].kind
      /\ x.client = slot[s].client /\ x.state = "CLAIMED" /\ x.mutation = "BOUND"
      /\ x.target = r /\ x.service = slot[s].service
  BY <1>1 DEF RequestRecords, MutationStates
<1> HIDE DEF x
<1>4. SoundRecord(x, fences')
  BY <1>1, <1>2, <1>3 DEF SoundRecord, Served, Waiting, Answered, Mutating
<1>5. CopiesEnd /\ copying' \in [Processes -> CopyRecords]
  BY <1>2, CopiesUnchanged
<1>6. fences' \subseteq Resources /\ fences \subseteq fences'
  BY <1>2 DEF IInv, TypeOK
<1> QED
  BY <1>1, <1>2, <1>3, <1>4, <1>5, <1>6, UpdateKeepsAll DEF Effects

\* A mutation may have written.
LEMMA MutationEffectKeeps ==
    ASSUME IInv, NEW v \in Services, NEW s \in Slots, MutationEffect(v, s)
    PROVE  IInv'
<1> DEFINE x == [slot[s] EXCEPT !.mutation = "ATTEMPTED"]
           e == <<Handle(s), slot[s].target>>
<1>1. /\ slot[s] \in RequestRecords /\ SoundRecord(slot[s], fences) /\ Live(s)
      /\ slot[s].state = "CLAIMED" /\ slot[s].mutation \in {"BOUND", "ATTEMPTED"}
      /\ slot[s].kind \in Mutating /\ slot[s].service = bound /\ life[bound] # "reaped"
  BY ClaimedFacts DEF MutationEffect, MutationClaimed, MutationHeld, Served
<1>2. slot' = [slot EXCEPT ![s] = x] /\ UNCHANGED <<bulk, fences, bound, life, copying>>
      /\ tainted' = tainted \cup {e}
  BY DEF MutationEffect
<1>3. /\ x \in RequestRecords /\ x.gen = slot[s].gen /\ x.kind = slot[s].kind
      /\ x.client = slot[s].client /\ x.state = "CLAIMED" /\ x.mutation = "ATTEMPTED"
      /\ x.target = slot[s].target /\ x.service = slot[s].service
  BY <1>1 DEF RequestRecords, MutationStates
<1> HIDE DEF x
<1>4. SoundRecord(x, fences')
  BY <1>1, <1>2, <1>3 DEF SoundRecord, Served, Waiting, Answered, Mutating
<1>5. CopiesEnd /\ copying' \in [Processes -> CopyRecords]
  BY <1>2, CopiesUnchanged
<1>6. TypeOK /\ EffectsAccounted
  BY DEF IInv, RequestInv
<1>7. fences' \subseteq Resources /\ fences \subseteq fences'
  BY <1>2, <1>6 DEF TypeOK
<1>8. slot[s].target \in Resources /\ Handle(s) \in Handles
  BY <1>1, <1>6, HandleOfSlot DEF SoundRecord
<1>9. tainted' \subseteq Handles \X Resources
  BY <1>2, <1>6, <1>8 DEF TypeOK
<1>10. /\ TypeOK' /\ BufferInv' /\ RequestsSound' /\ ClaimsServed'
       /\ slot'[s] = x /\ \A u \in Slots : u # s => slot'[u] = slot[u]
  BY <1>1, <1>2, <1>3, <1>4, <1>5, <1>7, <1>9, UpdateKeeps
<1>11. EffectsAccounted'
  <2>1. ASSUME NEW f \in tainted
        PROVE  LET u == f[1][1] IN
               \/ f[2] \in fences
               \/ /\ slot'[u].state \notin {"FREE", "RETIRED"} /\ slot'[u].gen = f[1][2]
                  /\ slot'[u].target = f[2]
                  /\ slot'[u].mutation \in {"ATTEMPTED", "DURABLE", "UNKNOWN"}
    <3>1. f[1][1] \in Slots
      BY <1>6, HandleParts DEF TypeOK
    <3>2. \A u \in Slots : slot'[u].gen = slot[u].gen /\ slot'[u].target = slot[u].target
              /\ (slot[u].mutation \in Effects => slot'[u].mutation \in Effects)
              /\ (Live(u) => slot'[u].state \notin {"FREE", "RETIRED"})
      BY <1>3, <1>10 DEF Effects, Live
    <3> QED
      BY <1>6, <3>1, <3>2 DEF EffectsAccounted, Resolves, Effects
  <2>2. /\ slot'[e[1][1]].state \notin {"FREE", "RETIRED"} /\ slot'[e[1][1]].gen = e[1][2]
        /\ slot'[e[1][1]].target = e[2] /\ slot'[e[1][1]].mutation = "ATTEMPTED"
    BY <1>3, <1>10 DEF Handle
  <2> HIDE DEF e
  <2> QED
    BY <1>2, <2>1, <2>2 DEF EffectsAccounted, Resolves, Live
<1> QED
  BY <1>10, <1>11 DEF IInv, RequestInv

\* A mutation is finished.
LEMMA MutationFinishKeeps ==
    ASSUME IInv, NEW v \in Services, NEW s \in Slots,
           NEW outcome \in {"NO_EFFECT", "DURABLE", "UNKNOWN"}, MutationFinish(v, s, outcome)
    PROVE  IInv'
<1> DEFINE x == [slot[s] EXCEPT !.mutation = outcome]
<1>1. /\ slot[s] \in RequestRecords /\ SoundRecord(slot[s], fences) /\ Live(s)
      /\ slot[s].state = "CLAIMED" /\ slot[s].mutation \in {"BOUND", "ATTEMPTED"}
      /\ slot[s].kind \in Mutating /\ slot[s].service = bound /\ life[bound] # "reaped"
  BY ClaimedFacts DEF MutationFinish, MutationClaimed, MutationHeld, Served
<1>2. slot' = [slot EXCEPT ![s] = x] /\ UNCHANGED <<bulk, bound, life, copying, tainted>>
      /\ fences' = (IF outcome = "UNKNOWN" THEN fences \cup {slot[s].target} ELSE fences)
  BY DEF MutationFinish, FencedByOutcome
<1>3. /\ x \in RequestRecords /\ x.gen = slot[s].gen /\ x.kind = slot[s].kind
      /\ x.client = slot[s].client /\ x.state = "CLAIMED" /\ x.mutation = outcome
      /\ x.target = slot[s].target /\ x.service = slot[s].service
  BY <1>1 DEF RequestRecords, MutationStates
<1> HIDE DEF x
<1>4. SoundRecord(x, fences')
  BY <1>1, <1>2, <1>3 DEF SoundRecord, Served, Waiting, Answered, Mutating
<1>5. CopiesEnd /\ copying' \in [Processes -> CopyRecords]
  BY <1>2, CopiesUnchanged
<1>6. fences' \subseteq Resources /\ fences \subseteq fences'
  BY <1>1, <1>2 DEF IInv, TypeOK, SoundRecord
<1>7. slot[s].mutation \in Effects => x.mutation \in Effects
  BY <1>1, <1>3 DEF Effects, MutationFinish
<1> QED
  BY <1>1, <1>2, <1>3, <1>4, <1>5, <1>6, <1>7, UpdateKeepsAll

\* A request completes with an error.
LEMMA CompleteErrorKeeps ==
    ASSUME IInv, NEW v \in Services, NEW s \in Slots, CompleteError(v, s)
    PROVE  IInv'
<1> DEFINE x == [slot[s] EXCEPT !.state = "COMPLETE", !.ok = FALSE,
                                !.mutation = Concluded(slot[s].mutation)]
           R == IF slot[s].kind = "bulk_read" THEN {s} ELSE {}
<1>1. /\ slot[s] \in RequestRecords /\ SoundRecord(slot[s], fences) /\ Live(s)
      /\ slot[s].state = "CLAIMED"
  BY ClaimedFacts DEF CompleteError, Served
<1>2. /\ slot' = [slot EXCEPT ![s] = x] /\ UNCHANGED <<bound, life, copying, tainted>>
      /\ fences' = fences \cup FencedByLoss({s})
      /\ bulk' = IF slot[s].kind = "bulk_read" THEN BulksReleased({s}) ELSE bulk
  BY DEF CompleteError
<1>3. /\ Concluded(slot[s].mutation) \in MutationStates \ {"BOUND", "ATTEMPTED"}
      /\ slot[s].mutation = "UNBOUND" => Concluded(slot[s].mutation) = "UNBOUND"
      /\ slot[s].mutation \in Effects <=> Concluded(slot[s].mutation) \in Effects
      /\ Concluded(slot[s].mutation) = "UNKNOWN" => slot[s].mutation \in {"ATTEMPTED", "UNKNOWN"}
      /\ Concluded(slot[s].mutation) # "UNBOUND" => slot[s].mutation # "UNBOUND"
  <2>1. slot[s].mutation \in MutationStates
    BY <1>1 DEF RequestRecords
  <2> QED
    BY <2>1 DEF Concluded, MutationStates, Effects
<1>4. /\ x \in RequestRecords /\ x.gen = slot[s].gen /\ x.kind = slot[s].kind
      /\ x.client = slot[s].client /\ x.state = "COMPLETE"
      /\ x.mutation = Concluded(slot[s].mutation)
      /\ x.target = slot[s].target /\ x.service = slot[s].service
  BY <1>1, <1>3 DEF RequestRecords, SlotStates
<1> HIDE DEF x
<1>5. TypeOK /\ BufferInv /\ RequestsSound /\ ClaimsServed /\ EffectsAccounted
  BY DEF IInv, RequestInv
<1>6. slot'[s] = x /\ \A u \in Slots : u # s => slot'[u] = slot[u]
  BY <1>2, <1>5 DEF TypeOK
<1>7. fences \subseteq fences' /\ fences' \subseteq Resources
      /\ (slot[s].mutation \in Effects => slot[s].target \in fences')
  <2>1. FencedByLoss({s}) \in SUBSET Resources
    BY <1>5, FencedType
  <2>2. slot[s].mutation \in Effects => slot[s].target \in FencedByLoss({s})
    BY DEF FencedByLoss, Effects
  <2> QED
    BY <1>2, <1>5, <2>1, <2>2 DEF TypeOK
<1>8. bulk' = BulksReleased(R)
  <2>1. BulksReleased({}) = bulk
    BY <1>5 DEF BulksReleased, TypeOK
  <2> QED
    BY <1>2, <2>1
<1>9. TypeOK'
  <2>1. bulk' \in [Bulks -> BulkRecords]
    BY <1>5, <1>8, BulkReleasedType DEF BulksReleased, TypeOK
  <2>2. slot' \in [Slots -> RequestRecords]
    BY <1>2, <1>4, <1>5 DEF TypeOK
  <2> QED
    BY <1>2, <1>5, <1>7, <2>1, <2>2 DEF TypeOK
<1>10. BufferInv'
  <2>1. CopiesEnd
    BY <1>2, CopiesUnchanged
  <2>2. R \in SUBSET Slots /\ \A u \in R : u = s
    OBVIOUS
  <2>3. slot[s].gen \in Nat
    BY <1>1, PoolAssumption DEF RequestRecords
  <2>4. \A u \in R : slot'[u].gen >= slot[u].gen
    BY <1>4, <1>6, <2>2, <2>3
  <2>5. \A u \in Slots \ R : /\ slot'[u].gen = slot[u].gen
                             /\ Live(u) => slot'[u].state \notin {"FREE", "RETIRED"}
                             /\ slot[u].state = "COMPLETE" => slot'[u] = slot[u]
    BY <1>1, <1>4, <1>6 DEF Live
  <2> HIDE DEF R
  <2> QED
    BY <1>5, <1>8, <1>9, <2>1, <2>2, <2>4, <2>5, ReleaseStep
<1>11. RequestsSound'
  <2>1. SoundRecord(x, fences')
    BY <1>1, <1>3, <1>4, <1>7 DEF SoundRecord, Served, Waiting, Answered, Effects
  <2>2. ASSUME NEW u \in Slots, u # s PROVE SoundRecord(slot'[u], fences')
    BY <1>5, <1>6, <1>7, <2>2 DEF RequestsSound, SoundRecord
  <2> QED
    BY <1>6, <2>1, <2>2 DEF RequestsSound
<1>12. ClaimsServed'
  BY <1>2, <1>4, <1>5, <1>6, ClaimsStay DEF Served
<1>13. EffectsAccounted'
  BY <1>2, <1>5, <1>6, <1>7, EffectsStay DEF EffectsKept, Live
<1> QED
  BY <1>9, <1>10, <1>11, <1>12, <1>13 DEF IInv, RequestInv

\* The service claims a request, and times out the ones it passes.
LEMMA ClaimKeeps ==
    ASSUME IInv, NEW v \in Services, NEW v3 \in BOOLEAN, Claim(v, v3)
    PROVE  IInv'
<1> DEFINE found == Claimable(v3)
           late == {s \in Overdue : \A x \in found : s < x}
<1>1. TypeOK /\ BufferInv /\ RequestsSound /\ ClaimsServed /\ EffectsAccounted
  BY DEF IInv, RequestInv
<1>2. UNCHANGED <<bulk, fences, bound, life, copying, tainted>> /\ bound = v
      /\ life[v] # "reaped"
  BY DEF Claim, Can, Runs
<1>3. ASSUME NEW s \in Slots
      PROVE  /\ slot'[s] \in RequestRecords
             /\ slot'[s].gen = slot[s].gen /\ slot'[s].mutation = slot[s].mutation
             /\ slot'[s].target = slot[s].target /\ slot'[s].kind = slot[s].kind
             /\ slot'[s].client = slot[s].client
             /\ \/ slot'[s] = slot[s]
                \/ slot[s].state \in Waiting /\ slot'[s].state = "COMPLETE"
                \/ slot[s].state \in Waiting /\ slot'[s].state = "CLAIMED"
                   /\ slot'[s].service = v
  <2>1. slot[s] \in RequestRecords
    BY <1>1 DEF TypeOK
  <2>2. CASE s \in late
    <3>1. slot'[s] = [slot[s] EXCEPT !.state = "COMPLETE", !.ok = FALSE]
      BY <2>2 DEF Claim
    <3>2. slot[s].state \in Waiting
      BY <2>2 DEF Overdue, Waiting
    <3> QED
      BY <2>1, <3>1, <3>2 DEF RequestRecords, SlotStates
  <2>3. CASE s \notin late /\ s \in found /\ s = First(found)
    <3>1. slot'[s] = [slot[s] EXCEPT !.state = "CLAIMED", !.service = v]
      BY <2>3 DEF Claim
    <3>2. slot[s].state \in Waiting
      BY <2>3 DEF Claimable, Waiting
    <3> QED
      BY <2>1, <3>1, <3>2 DEF RequestRecords, SlotStates
  <2>4. CASE s \notin late /\ ~(s \in found /\ s = First(found))
    <3>1. slot'[s] = slot[s]
      BY <2>4 DEF Claim
    <3> QED
      BY <2>1, <3>1
  <2> QED
    BY <2>2, <2>3, <2>4
<1>4. TypeOK'
  <2>1. slot' = [s \in Slots |-> slot'[s]]
    BY DEF Claim
  <2>2. slot' \in [Slots -> RequestRecords]
    BY <1>3, <2>1
  <2> QED
    BY <1>1, <1>2, <2>2 DEF TypeOK
<1>5. BufferInv'
  <2>1. CopiesEnd
    BY <1>2, CopiesUnchanged
  <2>2. \A u \in Slots : /\ slot'[u].gen = slot[u].gen
                         /\ Live(u) => slot'[u].state \notin {"FREE", "RETIRED"}
                         /\ slot[u].kind = "bulk_read" /\ slot[u].state = "COMPLETE" =>
                               /\ slot'[u].state = slot[u].state
                               /\ slot'[u].kind = slot[u].kind
                               /\ slot'[u].client = slot[u].client
    BY <1>3 DEF Live, Waiting
  <2> QED
    BY <1>1, <1>2, <1>4, <2>1, <2>2, QuietStep
<1>6. RequestsSound'
  <2>1. ASSUME NEW s \in Slots PROVE SoundRecord(slot'[s], fences')
    <3>1. SoundRecord(slot[s], fences)
      BY <1>1 DEF RequestsSound
    <3> QED
      BY <1>2, <1>3, <3>1 DEF SoundRecord, Served, Waiting, Answered
  <2> QED
    BY <2>1 DEF RequestsSound
<1>7. ClaimsServed'
  BY <1>1, <1>2, <1>3 DEF ClaimsServed
<1>8. EffectsAccounted'
  BY <1>1, <1>2, <1>3, EffectsStay DEF EffectsKept, Live
<1> QED
  BY <1>4, <1>5, <1>6, <1>7, <1>8 DEF IInv, RequestInv

\* A request is submitted into slot s with the handle of its next generation, and
\* given a buffer b that was free.
LEMMA NewBuffer ==
    ASSUME IInv, NEW s \in Slots, slot[s].state = "FREE",
           slot'[s].gen = slot[s].gen + 1, slot'[s].state \notin {"FREE", "RETIRED"},
           \A u \in Slots : u # s => slot'[u].gen = slot[u].gen,
           \A u \in Slots : Live(u) => slot'[u] = slot[u], TypeOK',
           \/ bulk' = bulk
           \/ \E b \in Bulks : /\ bulk[b].state = "FREE"
                               /\ bulk' = [bulk EXCEPT ![b] = [state |-> "RESERVED",
                                                               of |-> <<s, slot[s].gen + 1>>]],
           UNCHANGED <<life, copying>>
    PROVE  BufferInv'
<1> DEFINE h == <<s, slot[s].gen + 1>>
<1>1. TypeOK /\ BufferInv
  BY DEF IInv
<1>2. \A u \in Slots : slot[u].gen \in Nat /\ slot'[u].gen >= slot[u].gen
  BY <1>1, PoolAssumption DEF TypeOK, RequestRecords
<1>3. h \in Handles
  <2>1. slot'[s].gen \in 0..MaxGeneration
    BY DEF TypeOK, RequestRecords
  <2> QED
    BY <2>1 DEF Handles
<1>4. ASSUME NEW a \in Bulks, bulk[a].state # "FREE"
      PROVE  bulk'[a] = bulk[a] /\ bulk[a].of # h /\ bulk[a].of \in Handles
             /\ bulk[a].of[2] <= slot'[bulk[a].of[1]].gen
  <2>1. bulk[a].of \in Handles /\ bulk[a].of[2] <= slot[bulk[a].of[1]].gen
    BY <1>1, <1>4 DEF BufferInv, BuffersSound
  <2>2. bulk[a].of[1] \in Slots /\ bulk[a].of[2] \in Nat
    BY <2>1, HandleParts, PoolAssumption
  <2>3. bulk[a].of # h
    BY <1>2, <2>1, <2>2
  <2>4. bulk'[a] = bulk[a]
    BY <1>1, <1>4 DEF TypeOK
  <2> QED
    BY <1>2, <2>1, <2>2, <2>3, <2>4
<1>5. ASSUME NEW a \in Bulks, bulk[a].state = "FREE"
      PROVE  \/ bulk'[a] = EmptyBulk
             \/ /\ bulk'[a].of = h /\ bulk'[a].state = "RESERVED"
                /\ bulk' = [bulk EXCEPT ![a] = [state |-> "RESERVED", of |-> h]]
  <2>1. bulk[a] = EmptyBulk
    BY <1>1, <1>5 DEF BufferInv, BuffersSound
  <2> QED
    BY <1>1, <2>1 DEF TypeOK
<1>6. EmptyBulk.state = "FREE"
  BY DEF EmptyBulk
<1> HIDE DEF h
<1>7. h[1] = s /\ h[2] = slot'[s].gen /\ slot'[s].gen \in Nat
  BY <1>2 DEF h
<1>8. ASSUME NEW a \in Bulks
      PROVE  IF bulk'[a].state = "FREE" THEN bulk'[a] = EmptyBulk
             ELSE bulk'[a].of \in Handles /\ bulk'[a].of[2] <= slot'[bulk'[a].of[1]].gen
  <2>1. CASE bulk[a].state # "FREE"
    BY <1>4, <2>1
  <2>2. CASE bulk[a].state = "FREE"
    BY <1>3, <1>5, <1>6, <1>7, <2>2
  <2> QED
    BY <2>1, <2>2
<1>9. ASSUME NEW a \in Bulks, NEW b \in Bulks, bulk'[a].state # "FREE",
             bulk'[b].state # "FREE", bulk'[a].of = bulk'[b].of
      PROVE  a = b
  <2>1. CASE bulk[a].state # "FREE" /\ bulk[b].state # "FREE"
    BY <1>1, <1>4, <1>9, <2>1 DEF BufferInv, BuffersSound
  <2>2. CASE bulk[a].state = "FREE" /\ bulk[b].state # "FREE"
    BY <1>4, <1>5, <1>6, <1>9, <2>2
  <2>3. CASE bulk[a].state # "FREE" /\ bulk[b].state = "FREE"
    BY <1>4, <1>5, <1>6, <1>9, <2>3
  <2>4. CASE bulk[a].state = "FREE" /\ bulk[b].state = "FREE"
    <3>1. bulk' = [bulk EXCEPT ![a] = [state |-> "RESERVED", of |-> h]]
      BY <1>5, <1>6, <1>9, <2>4
    <3> QED
      BY <1>1, <1>9, <2>4, <3>1 DEF TypeOK
  <2> QED
    BY <2>1, <2>2, <2>3, <2>4
<1>10. BuffersSound'
  BY <1>8, <1>9 DEF BuffersSound
<1>11. BuffersOwned'
  <2>1. ASSUME NEW a \in Bulks, bulk'[a].state \notin {"FREE", "REVOKED"}
        PROVE  /\ slot'[bulk'[a].of[1]].state \notin {"FREE", "RETIRED"}
               /\ slot'[bulk'[a].of[1]].gen = bulk'[a].of[2]
    <3>1. CASE bulk[a].state # "FREE"
      <4>1. bulk'[a] = bulk[a] /\ bulk[a].of[1] \in Slots
        BY <1>4, <3>1, HandleParts
      <4>2. Resolves(bulk[a].of)
        BY <1>1, <2>1, <4>1 DEF BufferInv, BuffersOwned
      <4>3. slot'[bulk[a].of[1]] = slot[bulk[a].of[1]]
        BY <4>1, <4>2 DEF Resolves
      <4> QED
        BY <4>1, <4>2, <4>3 DEF Resolves, Live
    <3>2. CASE bulk[a].state = "FREE"
      BY <1>5, <1>6, <1>7, <2>1, <3>2
    <3> QED
      BY <3>1, <3>2
  <2>2. ASSUME NEW a \in Bulks, bulk'[a].state \notin {"FREE", "REVOKED"}
        PROVE  BulkOf(bulk[a].of)' = {a}
    BY <1>9, <2>2 DEF BulkOf
  <2> QED
    BY <2>1, <2>2 DEF BuffersOwned, Resolves, Live
<1>12. CopierStep
  <2>1. CopiesEnd
    BY CopiesUnchanged
  <2>2. ASSUME NEW p \in Processes, copying'[p].bulk # None
        PROVE  bulk'[copying[p].bulk] = bulk[copying[p].bulk]
    <3>1. copying[p].bulk \in Bulks /\ Runs(p)
      BY <1>1, <2>2, CopierRuns DEF BufferInv
    <3>2. bulk[copying[p].bulk].state # "FREE"
      BY <1>1, <2>2, <3>1 DEF BufferInv, BufferHeldByCopier
    <3> QED
      BY <1>4, <3>1, <3>2
  <2> QED
    BY <2>1, <2>2 DEF CopierStep, CopiesEnd
<1>13. SnapshotKept
  BY DEF SnapshotKept, Live
<1> QED
  BY <1>1, <1>10, <1>11, <1>12, <1>13, CopiersStay, CollectorsStay, SnapshotsStay
  DEF BufferInv

\* A request is submitted.
LEMMA SubmitKeeps ==
    ASSUME IInv, NEW c \in Clients, NEW k \in Kinds, Submit(c, k)
    PROVE  IInv'
<1> DEFINE usable == {s \in Slots : slot[s].state = "FREE" /\ slot[s].gen < MaxGeneration}
           s == First(usable)
           spent == {x \in Slots : x < s /\ slot[x].state = "FREE"}
           g == slot[s].gen + 1
           free == {b \in Bulks : bulk[b].state = "FREE"}
           start == IF k = "mutate_input" THEN "INPUT_PENDING" ELSE "QUEUED"
           new == [EmptySlot(start, g) EXCEPT !.kind = k, !.client = c]
<1>1. TypeOK /\ BufferInv /\ RequestsSound /\ ClaimsServed /\ EffectsAccounted
  BY DEF IInv, RequestInv
<1>2. UNCHANGED <<fences, bound, life, copying, tainted>> /\ usable # {}
      /\ (k \in NeedsBulk => free # {})
  BY DEF Submit
<1>3. s \in usable
  BY <1>2, FirstIn DEF Slots
<1>4. slot' = [x \in Slots |-> IF x = s THEN new
                               ELSE IF x \in spent THEN EmptySlot("RETIRED", slot[x].gen)
                               ELSE slot[x]]
  BY DEF Submit
<1>5. bulk' = IF k \in NeedsBulk
              THEN [bulk EXCEPT ![First(free)] = [state |-> "RESERVED", of |-> <<s, g>>]]
              ELSE bulk
  BY DEF Submit
<1>6. k \in NeedsBulk => First(free) \in Bulks /\ bulk[First(free)].state = "FREE"
  BY <1>2, FirstIn DEF Bulks
<1> HIDE DEF s, free
<1>7. /\ s \in Slots /\ slot[s].state = "FREE" /\ g \in 0..MaxGeneration /\ g = slot[s].gen + 1
  BY <1>1, <1>3, PoolAssumption DEF TypeOK, RequestRecords
<1> HIDE DEF g
<1>8. start \in {"INPUT_PENDING", "QUEUED"} /\ start \in SlotStates
  BY DEF SlotStates
<1> HIDE DEF start
<1>9. /\ new \in RequestRecords /\ new.gen = g /\ new.state = start
      /\ new.mutation = "UNBOUND"
  BY <1>7, <1>8 DEF EmptySlot, RequestRecords, MutationStates
<1> HIDE DEF new
<1>10. "RETIRED" \in SlotStates
  BY DEF SlotStates
<1>11. slot'[s] = new
  BY <1>4, <1>7
<1>12. ASSUME NEW u \in Slots, u # s
       PROVE  /\ slot'[u].gen = slot[u].gen /\ slot'[u] \in RequestRecords
              /\ \/ slot'[u] = slot[u]
                 \/ slot[u].state = "FREE" /\ slot'[u].state = "RETIRED"
                    /\ slot'[u].mutation = "UNBOUND"
  <2>1. slot[u] \in RequestRecords /\ slot[u].gen \in 0..MaxGeneration
    BY <1>1, HandleOfSlot
  <2>2. CASE u \in spent
    <3>1. slot'[u] = EmptySlot("RETIRED", slot[u].gen)
      BY <1>4, <1>12, <2>2
    <3> QED
      BY <1>10, <2>1, <2>2, <3>1, EmptySlotType
  <2>3. CASE u \notin spent
    BY <1>4, <1>12, <2>1, <2>3
  <2> QED
    BY <2>2, <2>3
<1>13. \A u \in Slots : Live(u) => u # s /\ slot'[u] = slot[u]
  BY <1>7, <1>12 DEF Live
<1>14. TypeOK'
  <2>1. \A u \in Slots : slot'[u] \in RequestRecords
    BY <1>9, <1>11, <1>12
  <2>2. slot' \in [Slots -> RequestRecords]
    <3>1. slot' = [u \in Slots |-> slot'[u]]
      BY <1>4
    <3> QED
      BY <2>1, <3>1
  <2>3. <<s, g>> \in Handles
    BY <1>7 DEF Handles
  <2>4. [state |-> "RESERVED", of |-> <<s, g>>] \in BulkRecords
    BY <2>3 DEF BulkRecords, BulkStates
  <2>5. bulk' \in [Bulks -> BulkRecords]
    BY <1>1, <1>5, <1>6, <2>4 DEF TypeOK
  <2> QED
    BY <1>1, <1>2, <2>2, <2>5 DEF TypeOK
<1>15. BufferInv'
  <2>1. slot'[s].gen = slot[s].gen + 1 /\ slot'[s].state \notin {"FREE", "RETIRED"}
    BY <1>7, <1>8, <1>9, <1>11
  <2>2. \/ bulk' = bulk
        \/ \E b \in Bulks : /\ bulk[b].state = "FREE"
                            /\ bulk' = [bulk EXCEPT ![b] = [state |-> "RESERVED",
                                                            of |-> <<s, slot[s].gen + 1>>]]
    BY <1>5, <1>6, <1>7
  <2> QED
    BY <1>2, <1>7, <1>12, <1>13, <1>14, <2>1, <2>2, NewBuffer
<1>16. RequestsSound'
  <2>1. ASSUME NEW u \in Slots PROVE SoundRecord(slot'[u], fences')
    <3>1. CASE u = s
      BY <1>8, <1>9, <1>11, <3>1 DEF SoundRecord, Served, Answered
    <3>2. CASE u # s
      <4>1. SoundRecord(slot[u], fences)
        BY <1>1 DEF RequestsSound
      <4> QED
        BY <1>2, <1>12, <3>2, <4>1 DEF SoundRecord, Served, Answered
    <3> QED
      BY <3>1, <3>2
  <2> QED
    BY <2>1 DEF RequestsSound
<1>17. ClaimsServed'
  <2>1. \A u \in Slots : slot'[u].state \in Served => slot'[u] = slot[u]
    BY <1>8, <1>9, <1>11, <1>12 DEF Served
  <2> QED
    BY <1>1, <1>2, <2>1, ClaimsStay
<1>18. EffectsAccounted'
  BY <1>1, <1>2, <1>13, EffectsStay DEF EffectsKept, Live
<1> QED
  BY <1>14, <1>15, <1>16, <1>17, <1>18 DEF IInv, RequestInv

\* Nothing changes for requests and buffers.
LEMMA QuietKeeps ==
    ASSUME IInv, UNCHANGED <<slot, bulk, tainted>>,
           fences \subseteq fences', fences' \subseteq Resources,
           bound' \in Services \cup {None},
           life' \in [Processes -> {"live", "retired", "doomed", "reaped"}],
           copying' \in [Processes -> CopyRecords], CopiesEnd, ClaimsServed'
    PROVE  IInv'
<1>1. TypeOK /\ BufferInv /\ RequestsSound /\ EffectsAccounted
  BY DEF IInv, RequestInv
<1>2. TypeOK'
  BY <1>1 DEF TypeOK
<1>3. BufferInv'
  BY <1>1, <1>2, QuietStep DEF Live
<1>4. RequestsSound'
  BY <1>1 DEF RequestsSound, SoundRecord
<1>5. EffectsAccounted'
  BY <1>1, EffectsStay DEF EffectsKept, Live
<1> QED
  BY <1>2, <1>3, <1>4, <1>5 DEF IInv, RequestInv

\* The end of a copy, for the copiers.
LEMMA CopyEndFacts ==
    ASSUME IInv, NEW p \in Processes, End(p), life' = life
    PROVE  CopiesEnd /\ copying' \in [Processes -> CopyRecords]
<1>1. Idle \in CopyRecords
  BY DEF Idle, CopyRecords, Calls
<1>2. TypeOK /\ CopiersSound
  BY DEF IInv, BufferInv
<1> QED
  BY <1>1, <1>2, CopiesEndOne DEF TypeOK, End, Runs

\* The copy of a reply begins.
LEMMA ReplyBeginKeeps ==
    ASSUME IInv, NEW c \in Clients, NEW s \in Slots, ReplyBegin(c, s)
    PROVE  IInv'
<1> DEFINE x == [slot[s] EXCEPT !.state = "DELIVERING"]
           y == [call |-> "reply", of |-> Handle(s), bulk |-> None]
<1>1. TypeOK /\ CopiersSound /\ c \in Processes /\ Runs(c)
  BY DEF IInv, BufferInv, Processes, ReplyBegin, Can
<1>2. /\ slot[s] \in RequestRecords /\ SoundRecord(slot[s], fences) /\ Live(s)
      /\ slot[s].kind \in Mutating /\ slot[s].state = "COMPLETE"
  BY DEF ReplyBegin, IInv, TypeOK, RequestInv, RequestsSound, Live
<1>3. slot' = [slot EXCEPT ![s] = x] /\ UNCHANGED <<bulk, fences, bound, life, tainted>>
  BY DEF ReplyBegin
<1>4. copying' = [copying EXCEPT ![c] = y]
  BY DEF ReplyBegin, Begin
<1>5. /\ x \in RequestRecords /\ x.gen = slot[s].gen /\ x.kind = slot[s].kind
      /\ x.client = slot[s].client /\ x.state = "DELIVERING" /\ x.mutation = slot[s].mutation
      /\ x.target = slot[s].target
  BY <1>2 DEF RequestRecords, SlotStates
<1> HIDE DEF x
<1>6. SoundRecord(x, fences')
  BY <1>2, <1>3, <1>5 DEF SoundRecord, Served, Waiting, Answered
<1>7. Handle(s) \in Handles
  BY <1>1, HandleOfSlot
<1>8. copying' \in [Processes -> CopyRecords]
  <2>1. y \in CopyRecords
    BY <1>7 DEF CopyRecords, Calls
  <2> QED
    BY <1>1, <1>4, <2>1 DEF TypeOK
<1>9. CopiesEnd
  <2>1. ASSUME NEW q \in Processes, q # c
        PROVE  copying'[q] = copying[q] /\ (copying'[q].call # "none" => Runs(q)')
    <3>1. copying'[q] = copying[q]
      BY <1>1, <1>4, <2>1 DEF TypeOK
    <3>2. Runs(q)' <=> Runs(q)
      BY <1>3 DEF Runs
    <3> QED
      BY <1>1, <3>1, <3>2, CopierRuns
  <2>2. ReplyCopied(c)
    BY <1>1, <1>4, <1>7 DEF ReplyCopied, TypeOK
  <2>3. Runs(c)'
    BY <1>1, <1>3 DEF Runs
  <2> QED
    BY <2>1, <2>2, <2>3 DEF CopiesEnd
<1>10. fences' \subseteq Resources /\ fences \subseteq fences'
  BY <1>1, <1>3 DEF TypeOK
<1> QED
  BY <1>2, <1>3, <1>5, <1>6, <1>8, <1>9, <1>10, UpdateKeepsAll DEF Served, Mutating

\* The copy of a reply ends.
LEMMA ReplyEndKeeps ==
    ASSUME IInv, NEW c \in Clients, NEW copied \in BOOLEAN, ReplyEnd(c, copied)
    PROVE  IInv'
<1> DEFINE h == copying[c].of
           s == h[1]
           mine == /\ Resolves(h) /\ slot[s].client = c
                   /\ slot[s].state \in {"DELIVERING", "DELIVERY_CANCELLED"}
           delivered == copied /\ slot[s].state = "DELIVERING" /\ ~slot[s].expired
<1>1. TypeOK /\ CopiersSound /\ ClaimsServed /\ c \in Processes
  BY DEF IInv, BufferInv, RequestInv, Processes
<1>2. End(c) /\ UNCHANGED <<bound, life, tainted>> /\ copying[c].call = "reply"
  BY DEF ReplyEnd
<1>3. CopiesEnd /\ copying' \in [Processes -> CopyRecords]
  BY <1>1, <1>2, CopyEndFacts
<1>4. s \in Slots
  BY <1>1, <1>2, HandleParts DEF CopiersSound
<1>5. CASE ~mine
  <2>1. UNCHANGED <<slot, bulk, fences>>
    BY <1>5 DEF ReplyEnd
  <2>2. ClaimsServed'
    BY <1>1, <1>2, <2>1, ClaimsStay
  <2>3. fences \subseteq fences' /\ fences' \subseteq Resources /\ bound' \in Services \cup {None}
        /\ life' \in [Processes -> {"live", "retired", "doomed", "reaped"}]
    BY <1>1, <1>2, <2>1 DEF TypeOK
  <2> QED
    BY <1>2, <1>3, <2>1, <2>2, <2>3, QuietKeeps
<1>6. CASE mine /\ delivered
  <2> DEFINE x == [slot[s] EXCEPT !.state = "DELIVERED"]
  <2>1. /\ slot' = [slot EXCEPT ![s] = x] /\ UNCHANGED <<bulk, fences>>
        /\ slot[s].state = "DELIVERING"
    BY <1>6 DEF ReplyEnd
  <2>2. slot[s] \in RequestRecords /\ SoundRecord(slot[s], fences) /\ Live(s)
    BY <1>4, <2>1 DEF IInv, TypeOK, RequestInv, RequestsSound, Live
  <2>3. /\ x \in RequestRecords /\ x.gen = slot[s].gen /\ x.kind = slot[s].kind
        /\ x.client = slot[s].client /\ x.state = "DELIVERED" /\ x.mutation = slot[s].mutation
        /\ x.target = slot[s].target
    BY <2>2 DEF RequestRecords, SlotStates
  <2> HIDE DEF x
  <2>4. SoundRecord(x, fences')
    BY <2>1, <2>2, <2>3 DEF SoundRecord, Served, Waiting, Answered
  <2>5. fences' \subseteq Resources /\ fences \subseteq fences'
    BY <1>1, <2>1 DEF TypeOK
  <2> HIDE DEF s
  <2> QED
    BY <1>2, <1>3, <1>4, <2>1, <2>2, <2>3, <2>4, <2>5, UpdateKeepsAll DEF Served
<1>7. CASE mine /\ ~delivered
  <2>1. Abandon({s})
    BY <1>7 DEF ReplyEnd
  <2> QED
    BY <1>1, <1>2, <1>4, <2>1, AbandonKeeps
<1> QED
  BY <1>5, <1>6, <1>7

\* A reply is acknowledged: what it did is durable or fenced.
LEMMA ReplyAckKeeps ==
    ASSUME IInv, NEW c \in Clients, NEW s \in Slots, ReplyAck(c, s)
    PROVE  IInv'
<1>1. TypeOK /\ BufferInv /\ RequestsSound /\ ClaimsServed /\ EffectsAccounted
  BY DEF IInv, RequestInv
<1>2. /\ slot[s].state = "DELIVERED" /\ slot' = [slot EXCEPT ![s] = Vacated(slot[s].gen)]
      /\ bulk' = BulksReleased({s}) /\ UNCHANGED <<fences, bound, life, copying>>
      /\ tainted' = IF slot[s].mutation = "DURABLE"
                    THEN {e \in tainted : e[1] # Handle(s)} ELSE tainted
  BY DEF ReplyAck
<1>3. slot'[s] = Vacated(slot[s].gen) /\ \A u \in Slots : u # s => slot'[u] = slot[u]
  BY <1>1, <1>2 DEF TypeOK
<1>4. /\ slot'[s] \in RequestRecords /\ slot'[s].state \in {"FREE", "RETIRED"}
      /\ slot'[s].mutation = "UNBOUND" /\ slot'[s].kind = None /\ slot'[s].gen >= slot[s].gen
  BY <1>1, <1>3, VacatedType, HandleOfSlot
<1>5. TypeOK'
  <2>1. slot' \in [Slots -> RequestRecords]
    BY <1>1, <1>2, <1>3, <1>4 DEF TypeOK
  <2>2. bulk' \in [Bulks -> BulkRecords]
    BY <1>1, <1>2, BulkReleasedType DEF BulksReleased, TypeOK
  <2>3. tainted' \subseteq tainted
    BY <1>2
  <2> QED
    BY <1>1, <1>2, <2>1, <2>2, <2>3 DEF TypeOK
<1>6. BufferInv'
  <2>1. CopiesEnd
    BY <1>2, CopiesUnchanged
  <2>2. \A u \in Slots \ {s} : /\ slot'[u].gen = slot[u].gen
                               /\ Live(u) => slot'[u].state \notin {"FREE", "RETIRED"}
                               /\ slot[u].state = "COMPLETE" => slot'[u] = slot[u]
    BY <1>3 DEF Live
  <2>3. {s} \in SUBSET Slots /\ \A u \in {s} : slot'[u].gen >= slot[u].gen
    BY <1>4
  <2> QED
    BY <1>1, <1>2, <1>5, <2>1, <2>2, <2>3, ReleaseStep
<1>7. RequestsSound'
  <2>1. SoundRecord(slot'[s], fences')
    BY <1>4, PoolAssumption DEF SoundRecord, Served, Answered
  <2>2. ASSUME NEW u \in Slots, u # s PROVE SoundRecord(slot'[u], fences')
    BY <1>1, <1>2, <1>3, <2>2 DEF RequestsSound
  <2> QED
    BY <2>1, <2>2 DEF RequestsSound
<1>8. ClaimsServed'
  BY <1>1, <1>2, <1>3, <1>4, ClaimsStay DEF Served
<1>9. EffectsAccounted'
  <2>1. ASSUME NEW e \in tainted'
        PROVE  LET u == e[1][1] IN
               \/ e[2] \in fences'
               \/ /\ slot'[u].state \notin {"FREE", "RETIRED"} /\ slot'[u].gen = e[1][2]
                  /\ slot'[u].target = e[2]
                  /\ slot'[u].mutation \in {"ATTEMPTED", "DURABLE", "UNKNOWN"}
    <3> DEFINE u == e[1][1]
    <3>1. e \in tainted /\ e[1] \in Handles /\ u \in Slots
      BY <1>1, <1>2, HandleParts DEF TypeOK
    <3>2. SoundRecord(slot[s], fences)
      BY <1>1 DEF RequestsSound
    <3>3. CASE e[2] \in fences
      BY <1>2, <3>3
    <3>4. CASE /\ Resolves(e[1]) /\ slot[u].target = e[2]
               /\ slot[u].mutation \in {"ATTEMPTED", "DURABLE", "UNKNOWN"}
      <4>1. CASE u # s
        BY <1>3, <3>1, <3>4, <4>1 DEF Resolves, Live
      <4>2. CASE u = s
        <5>1. e[1] = Handle(s)
          BY <1>1, <3>1, <3>4, <4>2, HandleOfSlot DEF Resolves
        <5>2. slot[s].mutation # "DURABLE"
          BY <1>2, <2>1, <5>1
        <5>3. slot[s].mutation = "UNKNOWN"
          BY <1>2, <3>2, <3>4, <4>2, <5>2 DEF SoundRecord, Answered
        <5> QED
          BY <1>2, <3>2, <3>4, <4>2, <5>3 DEF SoundRecord
      <4> QED
        BY <4>1, <4>2
    <3> QED
      BY <1>1, <3>1, <3>3, <3>4 DEF EffectsAccounted
  <2> QED
    BY <2>1 DEF EffectsAccounted, Resolves, Live
<1> QED
  BY <1>5, <1>6, <1>7, <1>8, <1>9 DEF IInv, RequestInv

------------------------------------------------------------------------------
(* Every step keeps the invariant: copies.                                  *)

\* Copies that leave the requests alone.
LEMMA RequestsUnchanged ==
    ASSUME IInv, UNCHANGED <<slot, fences, bound, life, tainted>>
    PROVE  RequestInv'
<1>1. TypeOK /\ RequestsSound /\ ClaimsServed /\ EffectsAccounted
  BY DEF IInv, RequestInv
<1>2. RequestsSound'
  BY <1>1 DEF RequestsSound
<1>3. ClaimsServed'
  BY <1>1 DEF ClaimsServed
<1>4. EffectsAccounted'
  BY <1>1, EffectsStay DEF EffectsKept, Live
<1> QED
  BY <1>2, <1>3, <1>4 DEF RequestInv

\* A copy of a payload begins.
LEMMA CopyBeginKeeps ==
    ASSUME IInv, NEW s \in Slots,
           \/ \E c \in Clients : InputPublishBegin(c, s) \/ BulkCollectBegin(c, s)
           \/ \E v \in Services : InputTakeBegin(v, s) \/ BulkPublishBegin(v, s)
    PROVE  IInv'
<1>1. ASSUME NEW c \in Clients, InputPublishBegin(c, s)
      PROVE  TypeOK' /\ BufferInv' /\ RequestInv'
  <2>1. c \in Processes /\ "input_publish" \in BulkCalls
    BY DEF Processes, BulkCalls
  <2> QED
    BY <1>1, <2>1, CopyBeginStep, RequestsUnchanged DEF InputPublishBegin
<1>2. ASSUME NEW c \in Clients, BulkCollectBegin(c, s)
      PROVE  TypeOK' /\ BufferInv' /\ RequestInv'
  <2>1. c \in Processes /\ "bulk_collect" \in BulkCalls
    BY DEF Processes, BulkCalls
  <2> QED
    BY <1>2, <2>1, CopyBeginStep, RequestsUnchanged DEF BulkCollectBegin
<1>3. ASSUME NEW v \in Services, InputTakeBegin(v, s)
      PROVE  TypeOK' /\ BufferInv' /\ RequestInv'
  <2>1. v \in Processes /\ "input_take" \in BulkCalls
    BY DEF Processes, BulkCalls
  <2> QED
    BY <1>3, <2>1, CopyBeginStep, RequestsUnchanged DEF InputTakeBegin
<1>4. ASSUME NEW v \in Services, BulkPublishBegin(v, s)
      PROVE  TypeOK' /\ BufferInv' /\ RequestInv'
  <2>1. v \in Processes /\ "bulk_publish" \in BulkCalls
    BY DEF Processes, BulkCalls
  <2> QED
    BY <1>4, <2>1, CopyBeginStep, RequestsUnchanged DEF BulkPublishBegin
<1> QED
  BY <1>1, <1>2, <1>3, <1>4 DEF IInv

\* The buffer of a process in a copy.
LEMMA CopiedBuffer ==
    ASSUME IInv, NEW p \in Processes, copying[p].call \in BulkCalls
    PROVE  LET b == copying[p].bulk IN
           /\ b \in Bulks /\ Runs(p) /\ bulk[b] \in BulkRecords
           /\ copying[p].of \in Handles /\ copying[p].of[1] \in Slots
           /\ bulk[b].of = copying[p].of
           /\ bulk[b].state \in {"WRITING", "READING", "REVOKED"}
<1>1. TypeOK /\ CopiersSound /\ BufferHeldByCopier
  BY DEF IInv, BufferInv
<1>2. copying[p].bulk \in Bulks /\ copying[p].bulk # None /\ Runs(p)
      /\ copying[p].of \in Handles
  BY <1>1, PoolAssumption DEF CopiersSound, BulkCalls, Bulks
<1> QED
  BY <1>1, <1>2, HandleParts DEF BufferHeldByCopier, TypeOK

\* A copy ends, its buffer y passed on or given back, and the requests stay.
LEMMA PlainCopyEnd ==
    ASSUME IInv, NEW p \in Processes, copying[p].call \in BulkCalls, End(p),
           UNCHANGED <<slot, fences, bound, life, tainted>>,
           \/ GiveBack(copying[p].bulk)
           \/ /\ bulk[copying[p].bulk].state # "REVOKED"
              /\ \E state \in {"PUBLISHED", "CONSUMED"} : Finish(copying[p].bulk, state)
    PROVE  IInv'
<1> DEFINE b == copying[p].bulk
<1>1. /\ b \in Bulks /\ bulk[b] \in BulkRecords
      /\ bulk[b].state \in {"WRITING", "READING", "REVOKED"}
  BY CopiedBuffer
<1>2. PICK y \in BulkRecords :
        /\ bulk' = [bulk EXCEPT ![b] = y]
        /\ \/ y = EmptyBulk
           \/ /\ y.of = bulk[b].of /\ y.state \in {"PUBLISHED", "CONSUMED"}
              /\ bulk[b].state # "REVOKED"
  <2>1. CASE GiveBack(b)
    <3>1. EmptyBulk \in BulkRecords
      BY DEF EmptyBulk, BulkRecords, BulkStates
    <3> QED
      BY <2>1, <3>1 DEF GiveBack
  <2>2. ASSUME NEW state \in {"PUBLISHED", "CONSUMED"}, Finish(b, state),
               bulk[b].state # "REVOKED"
        PROVE  \E y \in BulkRecords :
                  /\ bulk' = [bulk EXCEPT ![b] = y]
                  /\ y.of = bulk[b].of /\ y.state \in {"PUBLISHED", "CONSUMED"}
    <3> DEFINE y == [bulk[b] EXCEPT !.state = state]
    <3>1. y \in BulkRecords /\ y.of = bulk[b].of /\ y.state = state
      BY <1>1 DEF BulkRecords, BulkStates
    <3>2. bulk' = [bulk EXCEPT ![b] = y]
      BY <2>2 DEF Finish
    <3> QED
      BY <3>1, <3>2
  <2> QED
    BY <2>1, <2>2
<1>3. TypeOK'
  <2>1. copying' \in [Processes -> CopyRecords]
    BY CopyEndFacts
  <2>2. bulk' \in [Bulks -> BulkRecords]
    BY <1>1, <1>2 DEF IInv, TypeOK
  <2> QED
    BY <2>1, <2>2 DEF IInv, TypeOK
<1>4. BufferInv'
  <2>1. TypeOK /\ BufferInv /\ {} \in SUBSET Slots
    BY DEF IInv
  <2> HIDE DEF b
  <2>2. \A s \in Slots \ {} : /\ slot'[s].gen = slot[s].gen
                              /\ Live(s) => slot'[s].state \notin {"FREE", "RETIRED"}
                              /\ slot[s].state = "COMPLETE" => slot'[s] = slot[s]
    BY DEF Live
  <2> QED
    BY <1>2, <1>3, <2>1, <2>2, CopyEndStep DEF b
<1> QED
  BY <1>3, <1>4, RequestsUnchanged DEF IInv

\* The service ends a copy.
LEMMA ServiceCopyEndKeeps ==
    ASSUME IInv, NEW v \in Services, InputTakeEnd(v) \/ BulkPublishEnd(v)
    PROVE  IInv'
<1>1. v \in Processes
  BY DEF Processes
<1>2. copying[v].call \in BulkCalls /\ End(v) /\ UNCHANGED <<slot, fences, bound, life, tainted>>
  BY DEF InputTakeEnd, BulkPublishEnd, BulkCalls
<1>3. bulk[copying[v].bulk].of = copying[v].of
  BY <1>1, <1>2, CopiedBuffer
<1>4. \/ GiveBack(copying[v].bulk)
      \/ /\ bulk[copying[v].bulk].state # "REVOKED"
         /\ \E state \in {"PUBLISHED", "CONSUMED"} : Finish(copying[v].bulk, state)
  <2>1. CASE InputTakeEnd(v)
    BY <1>3, <2>1 DEF InputTakeEnd
  <2>2. CASE BulkPublishEnd(v)
    BY <1>3, <2>2 DEF BulkPublishEnd
  <2> QED
    BY <2>1, <2>2
<1> QED
  BY <1>1, <1>2, <1>4, PlainCopyEnd

\* The client ends the copy of its input.
LEMMA InputPublishEndKeeps ==
    ASSUME IInv, NEW c \in Clients, InputPublishEnd(c)
    PROVE  IInv'
<1> DEFINE b == copying[c].bulk
           h == copying[c].of
           s == h[1]
           intact == /\ Resolves(h) /\ bulk[b].state = "WRITING"
                     /\ slot[s].state = "INPUT_PENDING" /\ slot[s].client = c
<1>1. c \in Processes
  BY DEF Processes
<1>2. copying[c].call \in BulkCalls /\ End(c) /\ UNCHANGED <<fences, bound, life, tainted>>
  BY DEF InputPublishEnd, BulkCalls
<1>3. /\ b \in Bulks /\ bulk[b] \in BulkRecords /\ h \in Handles /\ s \in Slots
      /\ bulk[b].of = h
  BY <1>1, <1>2, CopiedBuffer
<1>4. CASE ~intact
  <2>1. GiveBack(b) /\ UNCHANGED slot
    BY <1>3, <1>4 DEF InputPublishEnd
  <2> QED
    BY <1>1, <1>2, <2>1, PlainCopyEnd
<1>5. CASE intact
  <2> DEFINE x == [slot[s] EXCEPT !.state = "QUEUED"]
             y == [bulk[b] EXCEPT !.state = "PUBLISHED"]
  <2>1. bulk' = [bulk EXCEPT ![b] = y] /\ slot' = [slot EXCEPT ![s] = x]
    BY <1>3, <1>5 DEF InputPublishEnd, Finish
  <2>2. /\ slot[s] \in RequestRecords /\ SoundRecord(slot[s], fences) /\ Live(s)
        /\ slot[s].state = "INPUT_PENDING"
    BY <1>3, <1>5 DEF IInv, TypeOK, RequestInv, RequestsSound, Live
  <2>3. /\ x \in RequestRecords /\ x.gen = slot[s].gen /\ x.state = "QUEUED"
        /\ x.mutation = slot[s].mutation /\ x.target = slot[s].target /\ x.kind = slot[s].kind
    BY <2>2 DEF RequestRecords, SlotStates
  <2>4. y \in BulkRecords /\ y.of = bulk[b].of /\ y.state = "PUBLISHED"
    BY <1>3 DEF BulkRecords, BulkStates
  <2> HIDE DEF x, y, h
  <2>5. TypeOK /\ BufferInv /\ RequestsSound /\ ClaimsServed /\ EffectsAccounted
    BY DEF IInv, RequestInv
  <2>6. slot'[s] = x /\ \A u \in Slots : u # s => slot'[u] = slot[u]
    BY <1>3, <2>1, <2>5 DEF TypeOK
  <2>7. TypeOK'
    <3>1. copying' \in [Processes -> CopyRecords]
      BY <1>1, <1>2, CopyEndFacts
    <3>2. bulk' \in [Bulks -> BulkRecords] /\ slot' \in [Slots -> RequestRecords]
      BY <1>3, <2>1, <2>3, <2>4, <2>5 DEF TypeOK
    <3> QED
      BY <1>2, <2>5, <3>1, <3>2 DEF TypeOK
  <2>8. BufferInv'
    <3>1. \A u \in Slots \ {} : /\ slot'[u].gen = slot[u].gen
                                /\ Live(u) => slot'[u].state \notin {"FREE", "RETIRED"}
                                /\ slot[u].state = "COMPLETE" => slot'[u] = slot[u]
      BY <2>2, <2>3, <2>6 DEF Live
    <3>2. {} \in SUBSET Slots /\ bulk[b].state # "REVOKED"
      BY <1>5
    <3> QED
      BY <1>1, <1>2, <2>1, <2>4, <2>5, <2>7, <3>1, <3>2, CopyEndStep
  <2>9. RequestsSound'
    <3>1. SoundRecord(x, fences')
      BY <1>2, <2>2, <2>3 DEF SoundRecord, Served, Waiting, Answered
    <3>2. ASSUME NEW u \in Slots, u # s PROVE SoundRecord(slot'[u], fences')
      BY <1>2, <2>5, <2>6, <3>2 DEF RequestsSound
    <3> QED
      BY <2>6, <3>1, <3>2 DEF RequestsSound
  <2>10. ClaimsServed'
    BY <1>2, <2>3, <2>5, <2>6, ClaimsStay DEF Served
  <2>11. EffectsAccounted'
    BY <1>2, <2>3, <2>5, <2>6, EffectsStay DEF EffectsKept, Live
  <2> QED
    BY <2>7, <2>8, <2>9, <2>10, <2>11 DEF IInv, RequestInv
<1> QED
  BY <1>4, <1>5

\* The client has collected a read: the slot is released from the snapshot.
LEMMA BulkCollectEndKeeps ==
    ASSUME IInv, NEW c \in Clients, BulkCollectEnd(c)
    PROVE  IInv'
<1> DEFINE b == copying[c].bulk
           h == copying[c].of
           s == h[1]
           intact == bulk[b].of = h /\ bulk[b].state = "READING"
<1>1. c \in Processes
  BY DEF Processes
<1>2. /\ copying[c].call = "bulk_collect" /\ copying[c].call \in BulkCalls /\ End(c)
      /\ UNCHANGED <<fences, bound, life, tainted>> /\ GiveBack(b)
      /\ bulk[b].state \in {"READING", "REVOKED"}
      /\ slot' = IF intact THEN [slot EXCEPT ![h[1]] = Vacated(h[2])] ELSE slot
  BY DEF BulkCollectEnd, BulkCalls, IInv, BufferInv, CollectorReads
<1>3. /\ b \in Bulks /\ Runs(c) /\ h \in Handles /\ s \in Slots /\ bulk[b].of = h
  BY <1>1, <1>2, CopiedBuffer
<1>4. CASE ~intact
  BY <1>1, <1>2, <1>4, PlainCopyEnd
<1>5. CASE intact
  <2>1. TypeOK /\ BufferInv /\ RequestsSound /\ ClaimsServed /\ EffectsAccounted
    BY DEF IInv, RequestInv
  <2>2. /\ Handle(s) = h /\ slot[s].state = "COMPLETE" /\ slot[s].kind = "bulk_read"
    BY <1>2, <1>3, <1>5, <2>1 DEF BufferInv, CollectSnapshotValid, SnapshotIsRead
  <2>3. h[2] = slot[s].gen
    BY <2>1, <2>2, <1>3, HandleOfSlot
  <2>4. slot' = [slot EXCEPT ![s] = Vacated(slot[s].gen)]
    BY <1>2, <1>5, <2>3
  <2>5. slot'[s] = Vacated(slot[s].gen) /\ \A u \in Slots : u # s => slot'[u] = slot[u]
    BY <1>3, <2>1, <2>4 DEF TypeOK
  <2>6. /\ slot'[s] \in RequestRecords /\ slot'[s].state \in {"FREE", "RETIRED"}
        /\ slot'[s].mutation = "UNBOUND" /\ slot'[s].kind = None
    BY <1>3, <2>1, <2>5, VacatedType, HandleOfSlot
  <2>7. bulk' = [bulk EXCEPT ![b] = EmptyBulk]
    BY <1>2 DEF GiveBack
  <2> HIDE DEF h
  <2>8. TypeOK'
    <3>1. copying' \in [Processes -> CopyRecords]
      BY <1>1, <1>2, CopyEndFacts
    <3>2. EmptyBulk \in BulkRecords
      BY DEF EmptyBulk, BulkRecords, BulkStates
    <3>3. bulk' \in [Bulks -> BulkRecords] /\ slot' \in [Slots -> RequestRecords]
      BY <1>3, <2>1, <2>4, <2>5, <2>6, <2>7, <3>2 DEF TypeOK
    <3> QED
      BY <1>2, <2>1, <3>1, <3>3 DEF TypeOK
  <2>9. BufferInv'
    <3>1. \A u \in Slots \ {s} : /\ slot'[u].gen = slot[u].gen
                                 /\ Live(u) => slot'[u].state \notin {"FREE", "RETIRED"}
                                 /\ slot[u].state = "COMPLETE" => slot'[u] = slot[u]
      BY <2>5 DEF Live
    <3>2. {s} \in SUBSET Slots /\ \A u \in {s} : slot'[u] = Vacated(slot[u].gen)
                                                /\ Handle(u) = bulk[b].of
      BY <1>3, <2>2, <2>5
    <3> QED
      BY <1>1, <1>2, <2>1, <2>7, <2>8, <3>1, <3>2, CopyEndStep
  <2>10. RequestsSound'
    <3>1. SoundRecord(slot'[s], fences')
      BY <2>6, PoolAssumption DEF SoundRecord, Served, Answered
    <3>2. ASSUME NEW u \in Slots, u # s PROVE SoundRecord(slot'[u], fences')
      BY <1>2, <2>1, <2>5, <3>2 DEF RequestsSound
    <3> QED
      BY <3>1, <3>2 DEF RequestsSound
  <2>11. ClaimsServed'
    BY <1>2, <2>1, <2>5, <2>6, ClaimsStay DEF Served
  <2>12. EffectsAccounted'
    <3>1. slot[s].mutation = "UNBOUND"
      BY <1>3, <2>1, <2>2 DEF RequestsSound, SoundRecord
    <3> QED
      BY <1>2, <2>1, <2>5, <3>1, EffectsStay DEF EffectsKept, Live, Effects
  <2> QED
    BY <2>8, <2>9, <2>10, <2>11, <2>12 DEF IInv, RequestInv
<1> QED
  BY <1>4, <1>5

------------------------------------------------------------------------------
(* Every step keeps the invariant: processes and recovery.                  *)

\* A service is bound: nothing was claimed while none was.
LEMMA BindKeeps ==
    ASSUME IInv, NEW v \in Services, Bind(v)
    PROVE  IInv'
<1>1. TypeOK /\ RequestsSound /\ ClaimsServed
  BY DEF IInv, RequestInv
<1>2. bound = None /\ bound' = v /\ UNCHANGED <<slot, bulk, fences, life, copying, tainted>>
  BY DEF Bind
<1>3. ASSUME NEW s \in Slots, slot[s].state \in Served PROVE FALSE
  <2>1. slot[s].service = None /\ slot[s].service \in Services
    BY <1>1, <1>2, <1>3 DEF ClaimsServed, RequestsSound, SoundRecord, Served
  <2> QED
    BY <2>1, PoolAssumption
<1>4. ClaimsServed'
  BY <1>2, <1>3 DEF ClaimsServed, Served
<1>5. CopiesEnd /\ copying' \in [Processes -> CopyRecords]
  BY <1>2, CopiesUnchanged
<1>6. fences \subseteq fences' /\ fences' \subseteq Resources /\ bound' \in Services \cup {None}
      /\ life' \in [Processes -> {"live", "retired", "doomed", "reaped"}]
  BY <1>1, <1>2 DEF TypeOK
<1> QED
  BY <1>2, <1>4, <1>5, <1>6, QuietKeeps

\* A service is unbound: nothing stays claimed.
LEMMA UnbindKeeps ==
    ASSUME IInv, NEW v \in Services, Unbind(v)
    PROVE  IInv'
<1>1. TypeOK /\ ClaimsServed /\ v \in Processes
  BY DEF IInv, RequestInv, Processes
<1>2. /\ bound = v /\ bound' = None /\ CancelProcess(v) /\ UNCHANGED <<copying, tainted>>
      /\ life' = [life EXCEPT ![v] = IF @ = "live" THEN "retired" ELSE @]
  BY DEF Unbind
<1>3. life' \in [Processes -> {"live", "retired", "doomed", "reaped"}]
      /\ \A q \in Processes : Runs(q) => Runs(q)'
  BY <1>1, <1>2 DEF TypeOK, Runs
<1>4. /\ TypeOK' /\ BufferInv' /\ RequestsSound' /\ EffectsAccounted'
      /\ \A s \in Slots : slot'[s].state \in Served =>
                             slot'[s] = slot[s] /\ slot[s].service # v
  BY <1>1, <1>2, <1>3, CancelProcessKeeps
<1>5. ClaimsServed'
  BY <1>1, <1>2, <1>4 DEF ClaimsServed, Served
<1> QED
  BY <1>4, <1>5 DEF IInv, RequestInv

\* A process stops.
LEMMA DoomKeeps ==
    ASSUME IInv, NEW p \in Processes, Doom(p)
    PROVE  IInv'
<1>1. TypeOK /\ CopiersSound /\ ClaimsServed
  BY DEF IInv, BufferInv, RequestInv
<1>2. /\ life' = [life EXCEPT ![p] = "doomed"] /\ End(p)
      /\ UNCHANGED <<slot, bulk, fences, bound, tainted>>
  BY DEF Doom
<1>3. \A q \in Processes : q # p /\ Runs(q) => Runs(q)'
  BY <1>1, <1>2 DEF TypeOK, Runs
<1>4. CopiesEnd
  BY <1>1, <1>2, <1>3, CopiesEndOne
<1>5. copying' \in [Processes -> CopyRecords]
  <2>1. Idle \in CopyRecords
    BY DEF Idle, CopyRecords, Calls
  <2> QED
    BY <1>1, <1>2, <2>1 DEF TypeOK, End
<1>6. life[bound] # "reaped" => life'[bound] # "reaped"
  BY <1>1, <1>2 DEF TypeOK
<1>7. ClaimsServed'
  BY <1>1, <1>2, <1>6, ClaimsStay
<1>8. fences \subseteq fences' /\ fences' \subseteq Resources /\ bound' \in Services \cup {None}
      /\ life' \in [Processes -> {"live", "retired", "doomed", "reaped"}]
  BY <1>1, <1>2 DEF TypeOK
<1> QED
  BY <1>2, <1>4, <1>5, <1>7, <1>8, QuietKeeps

\* A process is cleaned up.
LEMMA CleanUpKeeps ==
    ASSUME IInv, NEW p \in Processes, CleanUp(p)
    PROVE  IInv'
<1>1. TypeOK /\ ClaimsServed /\ RequestsSound
  BY DEF IInv, RequestInv
<1>2. /\ life[p] = "doomed" /\ life' = [life EXCEPT ![p] = "reaped"] /\ CancelProcess(p)
      /\ UNCHANGED <<bound, copying, tainted>>
  BY DEF CleanUp
<1>3. life' \in [Processes -> {"live", "retired", "doomed", "reaped"}]
      /\ \A q \in Processes : Runs(q) => Runs(q)'
  BY <1>1, <1>2 DEF TypeOK, Runs
<1>4. bound' \in Services \cup {None}
  BY <1>1, <1>2 DEF TypeOK
<1>5. /\ TypeOK' /\ BufferInv' /\ RequestsSound' /\ EffectsAccounted'
      /\ \A s \in Slots : slot'[s].state \in Served =>
                             slot'[s] = slot[s] /\ slot[s].service # p
  BY <1>2, <1>3, <1>4, CancelProcessKeeps
<1>6. ASSUME NEW s \in Slots, slot'[s].state \in Served
      PROVE  slot'[s].service = bound' /\ life'[bound'] # "reaped"
  <2>1. slot'[s] = slot[s] /\ slot[s].service # p /\ slot[s].state \in Served
    BY <1>5, <1>6
  <2>2. slot[s].service = bound /\ life[bound] # "reaped" /\ bound \in Services
    BY <1>1, <2>1 DEF ClaimsServed, RequestsSound, SoundRecord, Served
  <2>3. life'[bound] = life[bound]
    BY <1>1, <1>2, <2>1, <2>2 DEF TypeOK, Processes
  <2> QED
    BY <1>2, <2>1, <2>2, <2>3
<1>7. ClaimsServed'
  BY <1>6 DEF ClaimsServed, Served
<1> QED
  BY <1>5, <1>7 DEF IInv, RequestInv

\* A process loses its requests and goes on.
LEMMA SubmitUndeliveredKeeps ==
    ASSUME IInv, NEW c \in Clients, SubmitUndelivered(c)
    PROVE  IInv'
<1>1. TypeOK /\ ClaimsServed /\ c \in Processes
  BY DEF IInv, RequestInv, Processes
<1>2. CancelProcess(c) /\ UNCHANGED <<bound, life, copying, tainted>>
  BY DEF SubmitUndelivered
<1>3. life' \in [Processes -> {"live", "retired", "doomed", "reaped"}]
      /\ (\A q \in Processes : Runs(q) => Runs(q)') /\ bound' \in Services \cup {None}
  BY <1>1, <1>2 DEF TypeOK, Runs
<1>4. /\ TypeOK' /\ BufferInv' /\ RequestsSound' /\ EffectsAccounted'
      /\ \A s \in Slots : slot'[s].state \in Served =>
                             slot'[s] = slot[s] /\ slot[s].service # c
  BY <1>1, <1>2, <1>3, CancelProcessKeeps
<1>5. ClaimsServed'
  BY <1>1, <1>2, <1>4, ClaimsStay
<1> QED
  BY <1>4, <1>5 DEF IInv, RequestInv

\* Media are fenced.
LEMMA FencingKeeps ==
    ASSUME IInv, SweepDeadlines \/ \E r \in Resources : RecoveryRefence(r)
    PROVE  IInv'
<1>1. TypeOK /\ RequestsSound /\ ClaimsServed
  BY DEF IInv, RequestInv
<1>2. UNCHANGED <<slot, bulk, bound, life, copying, tainted>>
  BY DEF SweepDeadlines, RecoveryRefence
<1>3. fences \subseteq fences' /\ fences' \subseteq Resources
  <2>1. CASE SweepDeadlines
    <3>1. {s \in Slots : slot[s].expired} \in SUBSET Slots
      OBVIOUS
    <3>2. FencedByLoss({s \in Slots : slot[s].expired}) \in SUBSET Resources
      BY <1>1, <3>1, FencedType
    <3> QED
      BY <1>1, <2>1, <3>2 DEF SweepDeadlines, TypeOK
  <2>2. CASE \E r \in Resources : RecoveryRefence(r)
    BY <1>1, <2>2 DEF RecoveryRefence, TypeOK
  <2> QED
    BY <2>1, <2>2
<1>4. CopiesEnd /\ copying' \in [Processes -> CopyRecords]
  BY <1>2, CopiesUnchanged
<1>5. ClaimsServed'
  BY <1>1, <1>2, ClaimsStay
<1>6. bound' \in Services \cup {None}
      /\ life' \in [Processes -> {"live", "retired", "doomed", "reaped"}]
  BY <1>1, <1>2 DEF TypeOK
<1> QED
  BY <1>2, <1>3, <1>4, <1>5, <1>6, QuietKeeps

\* A repaired medium loses its fence: no request is left that could need it.
LEMMA RecoveryClearKeeps ==
    ASSUME IInv, NEW v \in Services, NEW r \in Resources, RecoveryClear(v, r)
    PROVE  IInv'
<1>1. TypeOK /\ BufferInv /\ RequestsSound /\ ClaimsServed /\ EffectsAccounted
  BY DEF IInv, RequestInv
<1>2. /\ fences' = fences \ {r} /\ tainted' = {e \in tainted : e[2] # r}
      /\ UNCHANGED <<slot, bulk, bound, life, copying>>
      /\ \A s \in Slots : slot[s].target # r
  BY DEF RecoveryClear, RecoveryReady
<1>3. TypeOK'
  BY <1>1, <1>2 DEF TypeOK
<1>4. BufferInv'
  <2>1. CopiesEnd
    BY <1>2, CopiesUnchanged
  <2> QED
    BY <1>1, <1>2, <1>3, <2>1, QuietStep DEF Live
<1>5. RequestsSound'
  BY <1>1, <1>2 DEF RequestsSound, SoundRecord
<1>6. ClaimsServed'
  BY <1>1, <1>2, ClaimsStay
<1>7. EffectsAccounted'
  BY <1>1, <1>2 DEF EffectsAccounted, Resolves, Live
<1> QED
  BY <1>3, <1>4, <1>5, <1>6, <1>7 DEF IInv, RequestInv

------------------------------------------------------------------------------
(* The invariant.                                                           *)

\* An empty pool is in order.
LEMMA InitKeeps ==
    ASSUME Init PROVE IInv
<1>1. \A s \in Slots : slot[s] = EmptySlot("FREE", 0)
  BY DEF Init
<1>2. 0 \in 0..MaxGeneration /\ "FREE" \in SlotStates
  BY PoolAssumption DEF SlotStates
<1>3. \A s \in Slots : /\ slot[s] \in RequestRecords /\ slot[s].state = "FREE"
                       /\ slot[s].mutation = "UNBOUND" /\ slot[s].kind = None
  BY <1>1, <1>2, EmptySlotType
<1>4. EmptyBulk \in BulkRecords /\ EmptyBulk.state = "FREE"
  BY DEF EmptyBulk, BulkRecords, BulkStates
<1>5. Idle \in CopyRecords /\ Idle.call = "none" /\ Idle.bulk = None
  BY DEF Idle, CopyRecords, Calls
<1>6. TypeOK
  <2>1. slot = [s \in Slots |-> slot[s]]
    BY DEF Init
  <2>2. slot \in [Slots -> RequestRecords]
    BY <1>3, <2>1
  <2> QED
    BY <1>4, <1>5, <2>2 DEF Init, TypeOK
<1>7. \A b \in Bulks : bulk[b] = EmptyBulk
  BY DEF Init
<1>8. \A p \in Processes : copying[p] = Idle
  BY DEF Init
<1>9. BuffersSound /\ BuffersOwned
  BY <1>4, <1>7 DEF BuffersSound, BuffersOwned
<1>10. CopiersSound /\ BufferHeldByCopier
  BY <1>5, <1>8 DEF CopiersSound, BufferHeldByCopier, BulkCalls
<1>11. CollectorReads /\ SnapshotIsRead /\ CollectSnapshotValid
  BY <1>5, <1>8 DEF CollectorReads, SnapshotIsRead, CollectSnapshotValid, Processes
<1>12. RequestsSound /\ ClaimsServed
  BY <1>3, PoolAssumption DEF RequestsSound, ClaimsServed, SoundRecord, Served, Answered
<1>13. EffectsAccounted
  BY DEF EffectsAccounted, Init
<1> QED
  BY <1>6, <1>9, <1>10, <1>11, <1>12, <1>13 DEF IInv, BufferInv, RequestInv

\* A step of a client.
LEMMA ClientKeeps ==
    ASSUME IInv, NEW c \in Clients, ClientStep(c)
    PROVE  IInv'
<1>1. CASE \E k \in Kinds : Submit(c, k)
  BY <1>1, SubmitKeeps
<1>2. CASE SubmitUndelivered(c)
  BY <1>2, SubmitUndeliveredKeeps
<1>3. CASE InputPublishEnd(c) \/ BulkCollectEnd(c)
  BY <1>3, InputPublishEndKeeps, BulkCollectEndKeeps
<1>4. CASE \E copied \in BOOLEAN : ReplyEnd(c, copied)
  BY <1>4, ReplyEndKeeps
<1>5. ASSUME NEW s \in Slots,
             Collect(c, s) \/ ReplyOverdue(c, s) \/ ReplyAckOverdue(c, s)
      PROVE  IInv'
  <2>1. Abandon({s}) /\ UNCHANGED <<bound, life, copying, tainted>>
    BY <1>5 DEF Collect, ReplyOverdue, ReplyAckOverdue
  <2> QED
    BY <2>1, AbandonKeeps
<1>6. ASSUME NEW s \in Slots, InputPublishBegin(c, s) \/ BulkCollectBegin(c, s)
      PROVE  IInv'
  BY <1>6, CopyBeginKeeps
<1>7. ASSUME NEW s \in Slots, Cancel(c, s) \/ ReplyBegin(c, s) \/ ReplyAck(c, s)
      PROVE  IInv'
  BY <1>7, CancelKeeps, ReplyBeginKeeps, ReplyAckKeeps
<1> QED
  BY <1>1, <1>2, <1>3, <1>4, <1>5, <1>6, <1>7 DEF ClientStep

\* A step of a service.
LEMMA ServiceKeeps ==
    ASSUME IInv, NEW v \in Services, ServiceStep(v)
    PROVE  IInv'
<1>1. CASE Bind(v)
  BY <1>1, BindKeeps
<1>2. CASE \E v3 \in BOOLEAN : Claim(v, v3)
  BY <1>2, ClaimKeeps
<1>3. CASE InputTakeEnd(v) \/ BulkPublishEnd(v)
  BY <1>3, ServiceCopyEndKeeps
<1>4. ASSUME NEW s \in Slots, CompleteCancelled(v, s) PROVE IInv'
  <2>1. Abandon({s}) /\ UNCHANGED <<bound, life, copying, tainted>>
    BY <1>4 DEF CompleteCancelled
  <2> QED
    BY <2>1, AbandonKeeps
<1>5. ASSUME NEW s \in Slots, CompleteOk(v, s) \/ CompleteError(v, s) PROVE IInv'
  BY <1>5, CompleteOkKeeps, CompleteErrorKeeps
<1>6. ASSUME NEW s \in Slots, InputTakeBegin(v, s) \/ BulkPublishBegin(v, s) PROVE IInv'
  BY <1>6, CopyBeginKeeps
<1>7. ASSUME NEW s \in Slots, \E r \in Resources : MutationBind(v, s, r) PROVE IInv'
  BY <1>7, MutationBindKeeps
<1>8. ASSUME NEW s \in Slots, MutationEffect(v, s) PROVE IInv'
  BY <1>8, MutationEffectKeeps
<1>9. ASSUME NEW s \in Slots, \E outcome \in {"NO_EFFECT", "DURABLE", "UNKNOWN"} :
                                 MutationFinish(v, s, outcome)
      PROVE  IInv'
  BY <1>9, MutationFinishKeeps
<1>10. CASE \E r \in Resources : RecoveryClear(v, r)
  BY <1>10, RecoveryClearKeeps
<1> QED
  BY <1>1, <1>2, <1>3, <1>4, <1>5, <1>6, <1>7, <1>8, <1>9, <1>10 DEF ServiceStep

\* Every step of the pool, its clients and its service keeps the invariant.
LEMMA NextKeeps ==
    ASSUME IInv, [Next]_vars
    PROVE  IInv'
<1>1. CASE UNCHANGED vars
  <2>1. UNCHANGED <<slot, bulk, fences, bound, life, copying, tainted>>
    BY <1>1 DEF vars
  <2>2. CopiesEnd /\ copying' \in [Processes -> CopyRecords]
    BY <2>1, CopiesUnchanged
  <2>3. ClaimsServed'
    BY <2>1, ClaimsStay DEF IInv, RequestInv
  <2> QED
    BY <2>1, <2>2, <2>3, QuietKeeps DEF IInv, TypeOK
<1>2. CASE \E c \in Clients : ClientStep(c)
  BY <1>2, ClientKeeps
<1>3. CASE \E v \in Services : ServiceStep(v)
  BY <1>3, ServiceKeeps
<1>4. CASE KernelStep
  BY <1>4, UnbindKeeps, DoomKeeps, CleanUpKeeps, DeadlineKeeps, FencingKeeps DEF KernelStep
<1> QED
  BY <1>1, <1>2, <1>3, <1>4 DEF Next

\* The inductive invariant holds, for any pool, clients, services and media.
THEOREM StorageInvariant == Spec => []IInv
BY InitKeeps, NextKeeps, PTL DEF Spec

\* Types, for any sizes of the pool.
THEOREM StorageTypes == Spec => []TypeOK
<1>1. IInv => TypeOK
  BY DEF IInv
<1> QED
  BY <1>1, StorageInvariant, PTL

\* mutation_fence_lost, reply_ack and recovery_clear together: an effect on a
\* medium is on record or fenced until it is acknowledged or repaired.
THEOREM EffectsNeverForgotten == Spec => []EffectsAccounted
<1>1. IInv => EffectsAccounted
  BY DEF IInv, RequestInv
<1> QED
  BY <1>1, StorageInvariant, PTL

\* bulk_release and the copy calls: the buffer of a running copy is never reused.
THEOREM BufferNeverReused == Spec => []BufferHeldByCopier
<1>1. IInv => BufferHeldByCopier
  BY DEF IInv, BufferInv
<1> QED
  BY <1>1, StorageInvariant, PTL

\* storage_request_bulk_collect: the slot it releases without resolving the handle
\* again is still the one it saw before the copy.
THEOREM SnapshotSafe == Spec => []CollectSnapshotValid
<1>1. IInv => CollectSnapshotValid
  BY DEF IInv, BufferInv
<1> QED
  BY <1>1, StorageInvariant, PTL

\* bulk_find: every buffer in use belongs to exactly one live request.
THEOREM NoBufferLost == Spec => []BuffersOwned
<1>1. IInv => BuffersOwned
  BY DEF IInv, BufferInv
<1> QED
  BY <1>1, StorageInvariant, PTL

\* cancel_process_locked and bind_service_locked: no request stays claimed by a
\* service that is unbound or cleaned up.
THEOREM ClaimsAlwaysServed == Spec => []ClaimsServed
<1>1. IInv => ClaimsServed
  BY DEF IInv, RequestInv
<1> QED
  BY <1>1, StorageInvariant, PTL

------------------------------------------------------------------------------
(* Handles.                                                                 *)

\* A slot's generation never goes back, and a slot that comes to life does so with
\* a generation it never had.
HandlesFresh ==
    \A s \in Slots :
        /\ slot'[s].gen >= slot[s].gen
        /\ slot'[s].state \notin {"FREE", "RETIRED"} /\ ~Live(s) => slot'[s].gen > slot[s].gen

\* Requests that are vacated, or go on in their slot, issue no handle.
LEMMA NoNewHandle ==
    ASSUME TypeOK,
           \A s \in Slots : \/ slot'[s] = Vacated(slot[s].gen)
                            \/ /\ slot'[s].gen = slot[s].gen
                               /\ slot'[s].state \notin {"FREE", "RETIRED"} => Live(s)
    PROVE  HandlesFresh
<1>1. \A s \in Slots : slot[s].gen \in 0..MaxGeneration /\ slot[s].gen \in Nat
  BY PoolAssumption DEF TypeOK, RequestRecords
<1> QED
  BY <1>1, VacatedType DEF HandlesFresh

\* An update of one request in use issues no handle.
LEMMA UpdateFresh ==
    ASSUME TypeOK, NEW s \in Slots, Live(s), NEW x \in RequestRecords,
           x.gen = slot[s].gen, slot' = [slot EXCEPT ![s] = x]
    PROVE  HandlesFresh
<1>1. slot'[s] = x /\ \A u \in Slots : u # s => slot'[u] = slot[u]
  BY DEF TypeOK
<1> QED
  BY <1>1, NoNewHandle DEF Live

\* A submitted request gets a fresh handle.
LEMMA SubmitFresh ==
    ASSUME TypeOK, NEW c, NEW k \in Kinds, Submit(c, k)
    PROVE  HandlesFresh
<1> DEFINE usable == {s \in Slots : slot[s].state = "FREE" /\ slot[s].gen < MaxGeneration}
           s == First(usable)
           spent == {x \in Slots : x < s /\ slot[x].state = "FREE"}
           start == IF k = "mutate_input" THEN "INPUT_PENDING" ELSE "QUEUED"
<1>1. s \in usable
  <2>1. usable # {}
    BY DEF Submit
  <2> QED
    BY <2>1, FirstIn DEF Slots
<1>2. slot' = [x \in Slots |->
          IF x = s THEN [EmptySlot(start, slot[s].gen + 1) EXCEPT !.kind = k, !.client = c]
          ELSE IF x \in spent THEN EmptySlot("RETIRED", slot[x].gen) ELSE slot[x]]
  BY DEF Submit
<1> HIDE DEF s, start
<1>3. slot'[s].gen = slot[s].gen + 1 /\ s \in Slots
  BY <1>1, <1>2 DEF EmptySlot
<1>4. \A u \in Slots : slot[u].gen \in Nat
  BY PoolAssumption DEF TypeOK, RequestRecords
<1>5. ASSUME NEW u \in Slots, u # s
      PROVE  /\ slot'[u].gen = slot[u].gen
             /\ slot'[u].state \notin {"FREE", "RETIRED"} => Live(u)
  BY <1>2, <1>5 DEF EmptySlot, Live
<1> QED
  BY <1>3, <1>4, <1>5 DEF HandlesFresh

\* Every step issues fresh handles only.
LEMMA NextFresh ==
    ASSUME IInv, [Next]_vars
    PROVE  HandlesFresh
<1>1. TypeOK
  BY DEF IInv
<1>2. \A s \in Slots : slot[s] \in RequestRecords
  BY <1>1 DEF TypeOK
<1>3. ASSUME slot' = slot PROVE HandlesFresh
  BY <1>1, <1>3, NoNewHandle DEF Live
<1>4. ASSUME NEW S \in SUBSET Slots, Abandon(S) PROVE HandlesFresh
  BY <1>1, <1>4, NoNewHandle DEF Abandon, Live
<1>5. ASSUME NEW p, CancelProcess(p) PROVE HandlesFresh
  <2>1. ASSUME NEW s \in Slots
        PROVE  \/ slot'[s] = Vacated(slot[s].gen)
               \/ /\ slot'[s].gen = slot[s].gen
                  /\ slot'[s].state \notin {"FREE", "RETIRED"} => Live(s)
    <3>1. CASE s \in Involving(p) \ Delivering
      BY <1>5, <3>1 DEF CancelProcess
    <3>2. CASE s \in Involving(p) /\ s \in Delivering
      <4>1. slot'[s] = [slot[s] EXCEPT !.state = "DELIVERY_CANCELLED"] /\ Live(s)
        BY <1>5, <3>2 DEF CancelProcess, Involving
      <4> QED
        BY <1>2, <4>1 DEF RequestRecords
    <3>3. CASE s \notin Involving(p)
      BY <1>5, <3>3 DEF CancelProcess, Live
    <3> QED
      BY <3>1, <3>2, <3>3
  <2> QED
    BY <1>1, <2>1, NoNewHandle
<1>6. ASSUME NEW c \in Clients, ClientStep(c) PROVE HandlesFresh
  <2>1. ASSUME NEW k \in Kinds, Submit(c, k) PROVE HandlesFresh
    BY <1>1, <2>1, SubmitFresh
  <2>2. CASE SubmitUndelivered(c)
    BY <1>5, <2>2 DEF SubmitUndelivered
  <2>3. CASE InputPublishEnd(c)
    <3> DEFINE s == copying[c].of[1]
    <3>1. c \in Processes /\ copying[c].call \in BulkCalls
      BY <2>3 DEF InputPublishEnd, BulkCalls, Processes
    <3>2. s \in Slots /\ bulk[copying[c].bulk].of = copying[c].of
      BY <3>1, CopiedBuffer
    <3>3. \/ slot' = slot
          \/ slot[s].state = "INPUT_PENDING" /\ slot' = [slot EXCEPT ![s].state = "QUEUED"]
      BY <2>3, <3>2 DEF InputPublishEnd
    <3> DEFINE x == [slot[s] EXCEPT !.state = "QUEUED"]
    <3>4. x \in RequestRecords /\ x.gen = slot[s].gen
      BY <1>2, <3>2 DEF RequestRecords, SlotStates
    <3> QED
      BY <1>1, <1>3, <3>2, <3>3, <3>4, UpdateFresh DEF Live
  <2>4. CASE BulkCollectEnd(c)
    <3> DEFINE h == copying[c].of
               b == copying[c].bulk
               s == h[1]
    <3>1. c \in Processes /\ copying[c].call = "bulk_collect" /\ copying[c].call \in BulkCalls
      BY <2>4 DEF BulkCollectEnd, BulkCalls, Processes
    <3>2. s \in Slots /\ h \in Handles /\ bulk[b].of = h /\ Runs(c)
      BY <3>1, CopiedBuffer
    <3>3. \/ slot' = slot
          \/ bulk[b].state = "READING" /\ slot' = [slot EXCEPT ![s] = Vacated(h[2])]
      BY <2>4 DEF BulkCollectEnd, IInv, BufferInv, CollectorReads
    <3>4. bulk[b].state = "READING" => h[2] = slot[s].gen
      <4>1. bulk[b].state = "READING" => h = Handle(s)
        BY <3>1, <3>2 DEF IInv, BufferInv, CollectSnapshotValid
      <4> QED
        BY <1>1, <3>2, <4>1, HandleOfSlot
    <3> HIDE DEF h, b
    <3>5. \A u \in Slots : slot'[u] = slot[u] \/ slot'[u] = Vacated(slot[u].gen)
      BY <1>1, <3>2, <3>3, <3>4 DEF TypeOK
    <3> QED
      BY <1>1, <3>5, NoNewHandle DEF Live
  <2>5. ASSUME NEW copied \in BOOLEAN, ReplyEnd(c, copied) PROVE HandlesFresh
    <3> DEFINE s == copying[c].of[1]
               x == [slot[s] EXCEPT !.state = "DELIVERED"]
    <3>1. c \in Processes /\ copying[c].call = "reply"
      BY <2>5 DEF ReplyEnd, Processes
    <3>2. s \in Slots
      BY <3>1, HandleParts DEF IInv, BufferInv, CopiersSound
    <3>3. \/ slot' = slot
          \/ slot[s].state = "DELIVERING" /\ slot' = [slot EXCEPT ![s] = x]
          \/ Abandon({s})
      BY <2>5 DEF ReplyEnd
    <3>4. x \in RequestRecords /\ x.gen = slot[s].gen
      BY <1>2, <3>2 DEF RequestRecords, SlotStates
    <3> HIDE DEF x
    <3> QED
      BY <1>1, <1>3, <1>4, <3>2, <3>3, <3>4, UpdateFresh DEF Live
  <2>6. ASSUME NEW s \in Slots, Cancel(c, s) PROVE HandlesFresh
    <3>1. CASE Abandon({s})
      BY <1>4, <3>1
    <3>2. ASSUME NEW state \in SlotStates, slot' = [slot EXCEPT ![s].state = state]
          PROVE  HandlesFresh
      <4> DEFINE x == [slot[s] EXCEPT !.state = state]
      <4>1. x \in RequestRecords /\ x.gen = slot[s].gen /\ slot' = [slot EXCEPT ![s] = x]
        BY <1>2, <3>2 DEF RequestRecords
      <4> QED
        BY <1>1, <2>6, <4>1, UpdateFresh DEF Cancel
    <3>3. slot[s].state \in SlotStates /\ "CANCEL_PENDING" \in SlotStates
          /\ "DELIVERY_CANCELLED" \in SlotStates
      BY <1>2 DEF RequestRecords, SlotStates
    <3> QED
      BY <2>6, <3>1, <3>2, <3>3 DEF Cancel
  <2>7. ASSUME NEW s \in Slots,
               Collect(c, s) \/ ReplyOverdue(c, s) \/ ReplyAckOverdue(c, s)
        PROVE  HandlesFresh
    BY <1>4, <2>7 DEF Collect, ReplyOverdue, ReplyAckOverdue
  <2>8. ASSUME NEW s \in Slots, InputPublishBegin(c, s) \/ BulkCollectBegin(c, s)
        PROVE  HandlesFresh
    BY <1>3, <2>8 DEF InputPublishBegin, BulkCollectBegin
  <2>9. ASSUME NEW s \in Slots, ReplyBegin(c, s) PROVE HandlesFresh
    <3> DEFINE x == [slot[s] EXCEPT !.state = "DELIVERING"]
    <3>1. x \in RequestRecords /\ x.gen = slot[s].gen /\ slot' = [slot EXCEPT ![s] = x]
      BY <1>2, <2>9 DEF ReplyBegin, RequestRecords, SlotStates
    <3> QED
      BY <1>1, <2>9, <3>1, UpdateFresh DEF ReplyBegin, Live
  <2>10. ASSUME NEW s \in Slots, ReplyAck(c, s) PROVE HandlesFresh
    <3>1. \A u \in Slots : slot'[u] = slot[u] \/ slot'[u] = Vacated(slot[u].gen)
      BY <1>1, <2>10 DEF ReplyAck, TypeOK
    <3> QED
      BY <1>1, <3>1, NoNewHandle DEF Live
  <2> QED
    BY <1>6, <2>1, <2>2, <2>3, <2>4, <2>5, <2>6, <2>7, <2>8, <2>9, <2>10 DEF ClientStep
<1>7. ASSUME NEW v \in Services, ServiceStep(v) PROVE HandlesFresh
  <2>1. CASE Bind(v) \/ InputTakeEnd(v) \/ BulkPublishEnd(v)
             \/ \E r \in Resources : RecoveryClear(v, r)
    BY <1>3, <2>1 DEF Bind, InputTakeEnd, BulkPublishEnd, RecoveryClear
  <2>2. ASSUME NEW v3 \in BOOLEAN, Claim(v, v3) PROVE HandlesFresh
    <3>1. ASSUME NEW s \in Slots
          PROVE  /\ slot'[s].gen = slot[s].gen
                 /\ slot'[s].state \notin {"FREE", "RETIRED"} => Live(s)
      <4>1. CASE slot'[s] = slot[s]
        BY <4>1 DEF Live
      <4>2. CASE slot[s].state \in Waiting /\ slot'[s].gen = slot[s].gen
        BY <4>2 DEF Live, Waiting
      <4> QED
        BY <1>2, <2>2, <4>1, <4>2 DEF Claim, Overdue, Claimable, Waiting, RequestRecords
    <3> QED
      BY <1>1, <3>1, NoNewHandle
  <2>3. ASSUME NEW s \in Slots, InputTakeBegin(v, s) \/ BulkPublishBegin(v, s)
        PROVE  HandlesFresh
    BY <1>3, <2>3 DEF InputTakeBegin, BulkPublishBegin
  <2>4. ASSUME NEW s \in Slots, CompleteCancelled(v, s) PROVE HandlesFresh
    BY <1>4, <2>4 DEF CompleteCancelled
  <2>5. ASSUME NEW s \in Slots, slot[s].state = "CLAIMED", NEW x,
               slot' = [slot EXCEPT ![s] = x], x.gen = slot[s].gen
        PROVE  HandlesFresh
    <3>1. slot'[s] = x /\ \A u \in Slots : u # s => slot'[u] = slot[u]
      BY <1>1, <2>5 DEF TypeOK
    <3> QED
      BY <1>1, <2>5, <3>1, NoNewHandle DEF Live
  <2>6. ASSUME NEW s \in Slots, CompleteOk(v, s) PROVE HandlesFresh
    <3> DEFINE x == [slot[s] EXCEPT !.state = "COMPLETE", !.ok = TRUE]
    <3>1. slot' = [slot EXCEPT ![s] = x] /\ x.gen = slot[s].gen /\ slot[s].state = "CLAIMED"
      BY <1>2, <2>6 DEF CompleteOk, RequestRecords
    <3> QED
      BY <2>5, <3>1
  <2>7. ASSUME NEW s \in Slots, CompleteError(v, s) PROVE HandlesFresh
    <3> DEFINE x == [slot[s] EXCEPT !.state = "COMPLETE", !.ok = FALSE,
                                    !.mutation = Concluded(slot[s].mutation)]
    <3>1. slot' = [slot EXCEPT ![s] = x] /\ x.gen = slot[s].gen /\ slot[s].state = "CLAIMED"
      BY <1>2, <2>7 DEF CompleteError, RequestRecords
    <3> QED
      BY <2>5, <3>1
  <2>8. ASSUME NEW s \in Slots, NEW r \in Resources, MutationBind(v, s, r) PROVE HandlesFresh
    <3> DEFINE x == [slot[s] EXCEPT !.mutation = "BOUND", !.target = r]
    <3>1. slot' = [slot EXCEPT ![s] = x] /\ x.gen = slot[s].gen /\ slot[s].state = "CLAIMED"
      BY <1>2, <2>8 DEF MutationBind, MutationClaimed, MutationHeld, RequestRecords
    <3> QED
      BY <2>5, <3>1
  <2>9. ASSUME NEW s \in Slots, NEW m,
               (MutationEffect(v, s) /\ m = "ATTEMPTED") \/ MutationFinish(v, s, m)
        PROVE  HandlesFresh
    <3> DEFINE x == [slot[s] EXCEPT !.mutation = m]
    <3>1. slot' = [slot EXCEPT ![s] = x] /\ x.gen = slot[s].gen /\ slot[s].state = "CLAIMED"
      BY <1>2, <2>9 DEF MutationEffect, MutationFinish, MutationClaimed, MutationHeld,
                        RequestRecords
    <3> QED
      BY <2>5, <3>1
  <2> QED
    BY <1>7, <2>1, <2>2, <2>3, <2>4, <2>6, <2>7, <2>8, <2>9 DEF ServiceStep
<1>8. CASE KernelStep
  <2>1. ASSUME NEW s \in Slots, DeadlinePasses(s) PROVE HandlesFresh
    <3> DEFINE x == [slot[s] EXCEPT !.expired = TRUE]
    <3>1. x \in RequestRecords /\ x.gen = slot[s].gen /\ slot' = [slot EXCEPT ![s] = x]
      BY <1>2, <2>1 DEF DeadlinePasses, RequestRecords
    <3> QED
      BY <1>1, <2>1, <3>1, UpdateFresh DEF DeadlinePasses
  <2> QED
    BY <1>3, <1>5, <1>8, <2>1 DEF KernelStep, Unbind, Doom, CleanUp, SweepDeadlines,
                                  RecoveryRefence
<1> QED
  BY <1>3, <1>6, <1>7, <1>8 DEF Next, vars

\* release_slot and submit_locked: a handle that has named a request never names
\* another one, for any number of generations: late calls with it are refused.
THEOREM HandlesNeverReissued == Spec => [][HandlesFresh]_vars
<1>1. IInv /\ [Next]_vars => [HandlesFresh]_vars
  BY NextFresh
<1> QED
  BY <1>1, StorageInvariant, PTL DEF Spec
=============================================================================
