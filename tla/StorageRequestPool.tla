-------------------------- MODULE StorageRequestPool --------------------------
(***************************************************************************)
(* The storage request pool (kernel/init/storage_request_pool.c): clients  *)
(* submit requests into fixed slots, one bound storage service claims and  *)
(* completes them.  Large payloads go through a few bulk slots; they are   *)
(* copied without the pool lock, between a begin and an end step.          *)
(* Requests that change a medium carry a mutation record, and a resource   *)
(* whose state a lost reply leaves in doubt is fenced until recovery.      *)
(*                                                                         *)
(* One action is one critical section of storage_state_lock.  A client or  *)
(* service is one process generation; a process runs one system call at a  *)
(* time, may be killed anywhere in it, also in the middle of a copy, and   *)
(* is cleaned up later by its terminator.  Calls that the pool refuses     *)
(* change nothing and are not actions.  The checksummed storage of the     *)
(* records (critical_object.c) and its EINTEGRITY failures are left out.   *)
(***************************************************************************)
EXTENDS Naturals, FiniteSets

CONSTANTS
    Capacity,       \* STORAGE_REQUEST_POOL_CAPACITY
    BulkCapacity,   \* STORAGE_REQUEST_BULK_CAPACITY
    MaxPerClient,   \* STORAGE_REQUEST_MAX_PER_CLIENT
    MaxGeneration,  \* STORAGE_HANDLE_GENERATION_MAX
    Clients, Services, Resources,
    MaxKills,       \* bound: how many processes exit or are killed
    Kinds,          \* the kinds of requests submitted
    None

ASSUME PoolAssumption ==
    /\ Capacity \in Nat \ {0} /\ BulkCapacity \in Nat
    /\ MaxPerClient \in Nat /\ MaxGeneration \in Nat \ {0}
    /\ MaxKills \in Nat
    /\ Clients \cap Services = {}
    /\ None \notin Clients \cup Services \cup Resources \cup Nat
    /\ Kinds \subseteq {"plain", "bulk_read", "mutate", "mutate_input"}

Slots == 1..Capacity
Bulks == 1..BulkCapacity
Processes == Clients \cup Services

VARIABLES
    slot,      \* the request records
    bulk,      \* the bulk buffers: state and request_handle
    fences,    \* protected_mutation_fences, as the set of fenced resources
    bound,     \* protected_service_identity
    life,      \* of a process: live, retired (service), doomed, reaped
    copying,   \* the copy a process is in the middle of
    tainted    \* history: effects on a resource that nobody has accounted for

vars == <<slot, bulk, fences, bound, life, copying, tainted>>

SlotStates == {"FREE", "QUEUED", "CLAIMED", "COMPLETE", "RETIRED",
               "CANCEL_PENDING", "INPUT_PENDING", "DELIVERING",
               "DELIVERY_CANCELLED", "DELIVERED"}
MutationStates == {"UNBOUND", "BOUND", "ATTEMPTED", "NO_EFFECT", "DURABLE", "UNKNOWN"}
BulkStates == {"FREE", "RESERVED", "WRITING", "PUBLISHED", "READING", "REVOKED",
               "CONSUMED"}
Mutating == {"mutate", "mutate_input"}
NeedsBulk == {"bulk_read", "mutate_input"}

Handles == Slots \X (0..MaxGeneration)
Calls == {"none", "input_publish", "input_take", "bulk_publish", "bulk_collect",
          "reply"}

RequestRecords ==
    [state : SlotStates, gen : 0..MaxGeneration, kind : Kinds \cup {None},
     client : Clients \cup {None}, service : Services \cup {None}, expired : BOOLEAN,
     ok : BOOLEAN, mutation : MutationStates, target : Resources \cup {None}]
BulkRecords == [state : BulkStates, of : Handles \cup {None}]
CopyRecords == [call : Calls, of : Handles \cup {None}, bulk : Bulks \cup {None}]

TypeOK ==
    /\ slot \in [Slots -> RequestRecords]
    /\ bulk \in [Bulks -> BulkRecords]
    /\ fences \subseteq Resources
    /\ bound \in Services \cup {None}
    /\ life \in [Processes -> {"live", "retired", "doomed", "reaped"}]
    /\ copying \in [Processes -> CopyRecords]
    /\ tainted \subseteq Handles \X Resources

------------------------------------------------------------------------------
(* Slots and buffers.                                                       *)

EmptySlot(state, g) ==
    [state |-> state, gen |-> g, kind |-> None, client |-> None, service |-> None,
     expired |-> FALSE, ok |-> FALSE, mutation |-> "UNBOUND", target |-> None]

EmptyBulk == [state |-> "FREE", of |-> None]
Idle == [call |-> "none", of |-> None, bulk |-> None]

\* storage_request_pool_init; the processes are there, no service is bound.
Init ==
    /\ slot = [s \in Slots |-> EmptySlot("FREE", 0)]
    /\ bulk = [b \in Bulks |-> EmptyBulk]
    /\ fences = {}
    /\ bound = None
    /\ life = [p \in Processes |-> "live"]
    /\ copying = [p \in Processes |-> Idle]
    /\ tainted = {}

Runs(p) == life[p] \in {"live", "retired"}
\* p runs and is not inside one of the two-step calls.
Can(p) == Runs(p) /\ copying[p] = Idle

Handle(s) == <<s, slot[s].gen>>
Live(s) == slot[s].state \notin {"FREE", "RETIRED"}

\* resolve_handle.
Resolves(h) == Live(h[1]) /\ slot[h[1]].gen = h[2]

\* bulk_find.
BulkOf(h) == {b \in Bulks : bulk[b].state # "FREE" /\ bulk[b].of = h}
HasBulk(s, state) == \E b \in BulkOf(Handle(s)) : bulk[b].state = state

\* bulk_release: a buffer that is being copied is only revoked, its copier gives
\* it back.
BulkFreedAtOnce(x) == EmptyBulk
BulkReadersKept(x) ==
    IF x.state = "READING" THEN x
    ELSE IF x.state \in {"WRITING", "REVOKED"} THEN [x EXCEPT !.state = "REVOKED"]
    ELSE EmptyBulk
BulkReleased(x) ==
    IF x.state \in {"WRITING", "READING", "REVOKED"}
    THEN [x EXCEPT !.state = "REVOKED"] ELSE EmptyBulk
BulksKept(S) == bulk
BulksReleased(S) ==
    [b \in Bulks |-> IF \E s \in S : b \in BulkOf(Handle(s))
                     THEN BulkReleased(bulk[b]) ELSE bulk[b]]

SetBulk(s, state) ==
    bulk' = [b \in Bulks |-> IF b \in BulkOf(Handle(s))
                             THEN [bulk[b] EXCEPT !.state = state] ELSE bulk[b]]

\* release_slot: the next generation, or none when there is no other.
VacatedForever(g) == EmptySlot("FREE", g + 1)
Vacated(g) ==
    IF g = MaxGeneration THEN EmptySlot("RETIRED", g) ELSE EmptySlot("FREE", g + 1)

\* mutation_fence_lost: what may have happened to a medium must not be forgotten.
FenceUnfinishedOnly(S) == {slot[s].target : s \in {x \in S : slot[x].mutation = "ATTEMPTED"}}
FencedByLoss(S) ==
    {slot[s].target :
        s \in {x \in S : slot[x].mutation \in {"ATTEMPTED", "DURABLE", "UNKNOWN"}}}

\* release_slot by abandonment, for all requests in S.
Abandon(S) ==
    /\ slot' = [s \in Slots |-> IF s \in S THEN Vacated(slot[s].gen) ELSE slot[s]]
    /\ bulk' = BulksReleased(S)
    /\ fences' = fences \cup FencedByLoss(S)

Begin(p, call, s, b) ==
    copying' = [copying EXCEPT ![p] = [call |-> call, of |-> Handle(s), bulk |-> b]]
End(p) == copying' = [copying EXCEPT ![p] = Idle]

------------------------------------------------------------------------------
(* Submit, claim, complete, collect, cancel.                                *)

Requests(c) == {s \in Slots : Live(s) /\ slot[s].client = c}

First(S) == CHOOSE s \in S : \A u \in S : s <= u

\* submit_locked: the first usable slot and the first free buffer; free slots
\* passed on the way that have no generation left are retired.
Submit(c, k) ==
    LET usable == {s \in Slots : slot[s].state = "FREE" /\ slot[s].gen < MaxGeneration}
        s == First(usable)
        spent == {x \in Slots : x < s /\ slot[x].state = "FREE"}
        g == slot[s].gen + 1
        free == {b \in Bulks : bulk[b].state = "FREE"}
    IN
    /\ Can(c)
    /\ Cardinality(Requests(c)) < MaxPerClient
    /\ k \in NeedsBulk => free # {}
    /\ usable # {}
    /\ slot' = [x \in Slots |->
          IF x = s THEN [EmptySlot(IF k = "mutate_input" THEN "INPUT_PENDING"
                                   ELSE "QUEUED", g) EXCEPT !.kind = k, !.client = c]
          ELSE IF x \in spent THEN EmptySlot("RETIRED", slot[x].gen) ELSE slot[x]]
    /\ bulk' = IF k \in NeedsBulk
               THEN [bulk EXCEPT ![First(free)] = [state |-> "RESERVED", of |-> <<s, g>>]]
               ELSE bulk
    /\ UNCHANGED <<fences, bound, life, copying, tainted>>

\* claim_locked: from the first slot on, overdue requests are completed with a
\* timeout until one can be claimed; only claim_v3 takes mutations.
Overdue == {s \in Slots : slot[s].state \in {"QUEUED", "INPUT_PENDING"} /\ slot[s].expired}
Claimable(v3) ==
    {s \in Slots : /\ slot[s].state = "QUEUED" /\ ~slot[s].expired
                   /\ slot[s].kind \in Mutating => v3}
Claim(v, v3) ==
    LET found == Claimable(v3)
        late == {s \in Overdue : \A x \in found : s < x}
    IN
    /\ Can(v) /\ bound = v
    /\ found \cup late # {}
    /\ slot' = [s \in Slots |->
          IF s \in late THEN [slot[s] EXCEPT !.state = "COMPLETE", !.ok = FALSE]
          ELSE IF s \in found /\ s = First(found)
          THEN [slot[s] EXCEPT !.state = "CLAIMED", !.service = v]
          ELSE slot[s]]
    /\ UNCHANGED <<bulk, fences, bound, life, copying, tainted>>

\* complete_locked for a request its client has cancelled.
CompleteCancelled(v, s) ==
    /\ Can(v)
    /\ slot[s].state = "CANCEL_PENDING" /\ slot[s].service = v
    /\ Abandon({s})
    /\ UNCHANGED <<bound, life, copying, tainted>>

\* complete_locked with success: a mutation must be finished first, the payload
\* of a bulk read published.
CompleteOk(v, s) ==
    /\ Can(v)
    /\ slot[s].state = "CLAIMED" /\ slot[s].service = v
    /\ slot[s].mutation \notin {"BOUND", "ATTEMPTED"}
    /\ slot[s].kind = "bulk_read" => HasBulk(s, "PUBLISHED")
    /\ slot' = [slot EXCEPT ![s].state = "COMPLETE", ![s].ok = TRUE]
    /\ UNCHANGED <<bulk, fences, bound, life, copying, tainted>>

\* complete_locked with an error: possible effects are fenced.
Concluded(mutation) ==
    CASE mutation = "BOUND" -> "NO_EFFECT"
      [] mutation = "ATTEMPTED" -> "UNKNOWN"
      [] OTHER -> mutation
CompleteError(v, s) ==
    /\ Can(v)
    /\ slot[s].state = "CLAIMED" /\ slot[s].service = v
    /\ fences' = fences \cup FencedByLoss({s})
    /\ bulk' = IF slot[s].kind = "bulk_read" THEN BulksReleased({s}) ELSE bulk
    /\ slot' = [slot EXCEPT ![s].state = "COMPLETE", ![s].ok = FALSE,
                            ![s].mutation = Concluded(@)]
    /\ UNCHANGED <<bound, life, copying, tainted>>

\* collect_locked, and storage_request_bulk_collect of a failed read: the reply
\* is copied under the lock and the slot released.
Collect(c, s) ==
    /\ Can(c)
    /\ slot[s].client = c /\ slot[s].state = "COMPLETE"
    /\ slot[s].kind = "plain" \/ (slot[s].kind = "bulk_read" /\ ~slot[s].ok)
    /\ Abandon({s})
    /\ UNCHANGED <<bound, life, copying, tainted>>

\* cancel_locked: a claimed request is left to its service to complete.
CancelFrees == {"QUEUED", "INPUT_PENDING", "COMPLETE", "DELIVERED"}
Cancel(c, s) ==
    /\ Can(c)
    /\ Live(s) /\ slot[s].client = c
    /\ IF slot[s].state \in CancelFrees
       THEN Abandon({s})
       ELSE /\ slot' = [slot EXCEPT ![s].state =
                            CASE @ = "CLAIMED" -> "CANCEL_PENDING"
                              [] @ = "DELIVERING" -> "DELIVERY_CANCELLED"
                              [] OTHER -> @]
            /\ fences' = fences \cup FencedByLoss({s})
            /\ UNCHANGED bulk
    /\ UNCHANGED <<bound, life, copying, tainted>>

\* cancel_process_locked: everything p asked for or was serving is released,
\* except a reply that is being copied out.
InvolvingClient(p) == {s \in Slots : Live(s) /\ p = slot[s].client}
Involving(p) == {s \in Slots : Live(s) /\ p \in {slot[s].client, slot[s].service}}
Delivering == {s \in Slots : slot[s].state \in {"DELIVERING", "DELIVERY_CANCELLED"}}
CancelProcess(p) ==
    LET all == Involving(p)
        released == all \ Delivering
    IN
    /\ slot' = [s \in Slots |->
          IF s \in released THEN Vacated(slot[s].gen)
          ELSE IF s \in all THEN [slot[s] EXCEPT !.state = "DELIVERY_CANCELLED"]
          ELSE slot[s]]
    /\ bulk' = BulksReleased(released)
    /\ fences' = fences \cup FencedByLoss(all)

\* syscall_storage_submit cannot deliver the handle: the client loses all of its
\* requests.
SubmitUndelivered(c) ==
    /\ Can(c) /\ Requests(c) # {}
    /\ CancelProcess(c)
    /\ UNCHANGED <<bound, life, copying, tainted>>

\* The clock passes the deadline of a request.
DeadlinePasses(s) ==
    /\ Live(s) /\ ~slot[s].expired
    /\ slot' = [slot EXCEPT ![s].expired = TRUE]
    /\ UNCHANGED <<bulk, fences, bound, life, copying, tainted>>

------------------------------------------------------------------------------
(* Life of the processes.                                                   *)

\* bind_service_locked: storage_service_bind admits the current service only.
Bind(v) ==
    /\ Can(v) /\ life[v] = "live" /\ bound = None
    /\ bound' = v
    /\ UNCHANGED <<slot, bulk, fences, life, copying, tainted>>

\* unbind_service_locked, when the service is retired or found dead.
Unbind(v) ==
    /\ bound = v
    /\ bound' = None
    /\ life' = [life EXCEPT ![v] = IF @ = "live" THEN "retired" ELSE @]
    /\ CancelProcess(v)
    /\ UNCHANGED <<copying, tainted>>

\* scheduler_reserve_termination_locked: p stops wherever it is and never ends its
\* call.  An exit is the case of a process that is not copying.
Doom(p) ==
    /\ Runs(p)
    /\ Cardinality({q \in Processes : ~Runs(q)}) < MaxKills
    /\ life' = [life EXCEPT ![p] = "doomed"]
    /\ End(p)
    /\ UNCHANGED <<slot, bulk, fences, bound, tainted>>

\* storage_request_cancel_process, called by p's terminator.
CleanUp(p) ==
    /\ life[p] = "doomed"
    /\ life' = [life EXCEPT ![p] = "reaped"]
    /\ CancelProcess(p)
    /\ UNCHANGED <<bound, copying, tainted>>

------------------------------------------------------------------------------
(* Payloads.                                                                *)

\* The end of a copy finds its buffer revoked or otherwise unusable.
GiveBack(b) == bulk' = [bulk EXCEPT ![b] = EmptyBulk]
Finish(b, state) == bulk' = [bulk EXCEPT ![b].state = state]

\* storage_request_input_publish, up to the copy.
InputPublishBegin(c, s) ==
    /\ Can(c)
    /\ slot[s].client = c /\ slot[s].state = "INPUT_PENDING" /\ ~slot[s].expired
    /\ HasBulk(s, "RESERVED")
    /\ SetBulk(s, "WRITING")
    /\ Begin(c, "input_publish", s, First(BulkOf(Handle(s))))
    /\ UNCHANGED <<slot, fences, bound, life, tainted>>

\* ... and after it: the request is queued, unless it timed out meanwhile.
InputPublishEnd(c) ==
    LET b == copying[c].bulk
        h == copying[c].of
        intact == /\ Resolves(h) /\ bulk[b].state = "WRITING"
                  /\ slot[h[1]].state = "INPUT_PENDING" /\ slot[h[1]].client = c
    IN
    /\ Runs(c) /\ copying[c].call = "input_publish"
    /\ CASE bulk[b].of # h -> UNCHANGED <<slot, bulk>>
         [] bulk[b].of = h /\ ~intact -> GiveBack(b) /\ UNCHANGED slot
         [] OTHER -> Finish(b, "PUBLISHED") /\ slot' = [slot EXCEPT ![h[1]].state = "QUEUED"]
    /\ End(c)
    /\ UNCHANGED <<fences, bound, life, tainted>>

\* mutation_claimed_locked, without its deadline.
MutationHeld(v, s) ==
    /\ bound = v
    /\ slot[s].state = "CLAIMED" /\ slot[s].service = v /\ slot[s].kind \in Mutating
MutationClaimed(v, s) == MutationHeld(v, s) /\ ~slot[s].expired

\* storage_request_input_take, up to the copy.
InputTakeBegin(v, s) ==
    /\ Can(v)
    /\ MutationClaimed(v, s)
    /\ HasBulk(s, "PUBLISHED")
    /\ SetBulk(s, "READING")
    /\ Begin(v, "input_take", s, First(BulkOf(Handle(s))))
    /\ UNCHANGED <<slot, fences, bound, life, tainted>>

\* ... and after it, with the time read before the copy.
InputTakeEnd(v) ==
    LET b == copying[v].bulk
        h == copying[v].of
        intact == Resolves(h) /\ MutationHeld(v, h[1]) /\ bulk[b].state = "READING"
    IN
    /\ Runs(v) /\ copying[v].call = "input_take"
    /\ CASE bulk[b].of # h -> UNCHANGED bulk
         [] bulk[b].of = h /\ ~intact -> GiveBack(b)
         [] OTHER -> Finish(b, "CONSUMED")
    /\ End(v)
    /\ UNCHANGED <<slot, fences, bound, life, tainted>>

\* storage_request_bulk_publish.
BulkPublishBegin(v, s) ==
    /\ Can(v)
    /\ slot[s].kind = "bulk_read" /\ slot[s].state = "CLAIMED" /\ slot[s].service = v
    /\ HasBulk(s, "RESERVED")
    /\ SetBulk(s, "WRITING")
    /\ Begin(v, "bulk_publish", s, First(BulkOf(Handle(s))))
    /\ UNCHANGED <<slot, fences, bound, life, tainted>>

BulkPublishEnd(v) ==
    LET b == copying[v].bulk
        intact == bulk[b].of = copying[v].of /\ bulk[b].state = "WRITING"
    IN
    /\ Runs(v) /\ copying[v].call = "bulk_publish"
    /\ IF intact THEN Finish(b, "PUBLISHED") ELSE GiveBack(b)
    /\ End(v)
    /\ UNCHANGED <<slot, fences, bound, life, tainted>>

\* storage_request_bulk_collect of a successful read.
BulkCollectBegin(c, s) ==
    /\ Can(c)
    /\ slot[s].kind = "bulk_read" /\ slot[s].client = c
    /\ slot[s].state = "COMPLETE" /\ slot[s].ok
    /\ HasBulk(s, "PUBLISHED")
    /\ SetBulk(s, "READING")
    /\ Begin(c, "bulk_collect", s, First(BulkOf(Handle(s))))
    /\ UNCHANGED <<slot, fences, bound, life, tainted>>

\* The slot is released as it was seen before the copy, without resolving the
\* handle again, unless the buffer was revoked meanwhile.  (A buffer in another state
\* than READING, or with a wrong checksum, fails the call, but its slot is released too.)
BulkCollectEnd(c) ==
    LET b == copying[c].bulk
        h == copying[c].of
        revoked == bulk[b].of # h \/ bulk[b].state = "REVOKED"
    IN
    /\ Runs(c) /\ copying[c].call = "bulk_collect"
    /\ GiveBack(b)
    /\ slot' = IF revoked THEN slot ELSE [slot EXCEPT ![h[1]] = Vacated(h[2])]
    /\ End(c)
    /\ UNCHANGED <<fences, bound, life, tainted>>

------------------------------------------------------------------------------
(* Mutations, their replies and recovery.                                   *)

\* storage_request_mutation_bind: the input has been taken, the medium is sound.
MutationBind(v, s, r) ==
    /\ Can(v)
    /\ MutationClaimed(v, s)
    /\ r \notin fences
    /\ slot[s].mutation = "UNBOUND"
    /\ slot[s].kind = "mutate_input" => HasBulk(s, "CONSUMED")
    /\ slot' = [slot EXCEPT ![s].mutation = "BOUND", ![s].target = r]
    /\ UNCHANGED <<bulk, fences, bound, life, copying, tainted>>

\* mutation_io with effect: from here on the medium may be written.
MutationEffect(v, s) ==
    /\ Can(v)
    /\ MutationClaimed(v, s)
    /\ slot[s].mutation \in {"BOUND", "ATTEMPTED"}
    /\ slot[s].target \notin fences
    /\ slot' = [slot EXCEPT ![s].mutation = "ATTEMPTED"]
    /\ tainted' = tainted \cup {<<Handle(s), slot[s].target>>}
    /\ UNCHANGED <<bulk, fences, bound, life, copying>>

\* storage_request_mutation_finish.
FencedByOutcome(outcome, r) == IF outcome = "UNKNOWN" THEN fences \cup {r} ELSE fences
MutationFinish(v, s, outcome) ==
    /\ Can(v)
    /\ MutationClaimed(v, s)
    /\ slot[s].mutation \in {"BOUND", "ATTEMPTED"}
    /\ outcome = "NO_EFFECT" => slot[s].mutation # "ATTEMPTED"
    /\ slot' = [slot EXCEPT ![s].mutation = outcome]
    /\ fences' = FencedByOutcome(outcome, slot[s].target)
    /\ UNCHANGED <<bulk, bound, life, copying, tainted>>

\* storage_request_mutation_fences, the deadline sweep of the VFS poll.
SweepDeadlines ==
    /\ fences' = fences \cup FencedByLoss({s \in Slots : slot[s].expired})
    /\ UNCHANGED <<slot, bulk, bound, life, copying, tainted>>

\* mutation_recovery: nothing that could raise the old fence again is left.
RecoveryReady(r) == \A s \in Slots : slot[s].target # r

\* storage_request_recovery_clear, after a verified repair of the medium.
RecoveryClear(v, r) ==
    /\ Can(v) /\ bound = v
    /\ r \in fences
    /\ RecoveryReady(r)
    /\ fences' = fences \ {r}
    /\ tainted' = {e \in tainted : e[2] # r}
    /\ UNCHANGED <<slot, bulk, bound, life, copying>>

\* storage_request_recovery_refence.
RecoveryRefence(r) ==
    /\ fences' = fences \cup {r}
    /\ UNCHANGED <<slot, bulk, bound, life, copying, tainted>>

\* storage_request_mutation_reply_begin, too late ...
ReplyOverdue(c, s) ==
    /\ Can(c)
    /\ slot[s].client = c /\ slot[s].kind \in Mutating
    /\ slot[s].state = "COMPLETE" /\ slot[s].expired
    /\ Abandon({s})
    /\ UNCHANGED <<bound, life, copying, tainted>>

\* ... and in time: the reply is copied out while the slot waits.
ReplyBegin(c, s) ==
    /\ Can(c)
    /\ slot[s].client = c /\ slot[s].kind \in Mutating
    /\ slot[s].state = "COMPLETE" /\ ~slot[s].expired
    /\ slot' = [slot EXCEPT ![s].state = "DELIVERING"]
    /\ Begin(c, "reply", s, None)
    /\ UNCHANGED <<bulk, fences, bound, life, tainted>>

\* storage_request_mutation_reply_end.
ReplyEnd(c, copied) ==
    LET h == copying[c].of
        s == h[1]
        mine == /\ Resolves(h) /\ slot[s].client = c
                /\ slot[s].state \in {"DELIVERING", "DELIVERY_CANCELLED"}
        delivered == copied /\ slot[s].state = "DELIVERING" /\ ~slot[s].expired
    IN
    /\ Runs(c) /\ copying[c].call = "reply"
    /\ CASE ~mine -> UNCHANGED <<slot, bulk, fences>>
         [] mine /\ delivered -> /\ slot' = [slot EXCEPT ![s].state = "DELIVERED"]
                                 /\ UNCHANGED <<bulk, fences>>
         [] OTHER -> Abandon({s})
    /\ End(c)
    /\ UNCHANGED <<bound, life, tainted>>

\* storage_request_mutation_reply_ack, too late ...
ReplyAckOverdue(c, s) ==
    /\ Can(c)
    /\ slot[s].client = c /\ slot[s].state = "DELIVERED" /\ slot[s].expired
    /\ Abandon({s})
    /\ UNCHANGED <<bound, life, copying, tainted>>

\* ... and in time: the only release that leaves no fence behind.
ReplyAck(c, s) ==
    /\ Can(c)
    /\ slot[s].client = c /\ slot[s].state = "DELIVERED" /\ ~slot[s].expired
    /\ slot' = [slot EXCEPT ![s] = Vacated(@.gen)]
    /\ bulk' = BulksReleased({s})
    /\ tainted' = IF slot[s].mutation = "DURABLE"
                  THEN {e \in tainted : e[1] # Handle(s)} ELSE tainted
    /\ UNCHANGED <<fences, bound, life, copying>>

------------------------------------------------------------------------------
ClientStep(c) ==
    \/ \E k \in Kinds : Submit(c, k)
    \/ SubmitUndelivered(c)
    \/ InputPublishEnd(c) \/ BulkCollectEnd(c)
    \/ \E copied \in BOOLEAN : ReplyEnd(c, copied)
    \/ \E s \in Slots :
          \/ Collect(c, s) \/ Cancel(c, s)
          \/ InputPublishBegin(c, s) \/ BulkCollectBegin(c, s)
          \/ ReplyOverdue(c, s) \/ ReplyBegin(c, s)
          \/ ReplyAckOverdue(c, s) \/ ReplyAck(c, s)

ServiceStep(v) ==
    \/ Bind(v)
    \/ \E v3 \in BOOLEAN : Claim(v, v3)
    \/ InputTakeEnd(v) \/ BulkPublishEnd(v)
    \/ \E s \in Slots :
          \/ CompleteCancelled(v, s) \/ CompleteOk(v, s) \/ CompleteError(v, s)
          \/ InputTakeBegin(v, s) \/ BulkPublishBegin(v, s)
          \/ \E r \in Resources : MutationBind(v, s, r)
          \/ MutationEffect(v, s)
          \/ \E outcome \in {"NO_EFFECT", "DURABLE", "UNKNOWN"} :
                MutationFinish(v, s, outcome)
    \/ \E r \in Resources : RecoveryClear(v, r)

KernelStep ==
    \/ \E v \in Services : Unbind(v)
    \/ \E p \in Processes : Doom(p) \/ CleanUp(p)
    \/ \E s \in Slots : DeadlinePasses(s)
    \/ SweepDeadlines
    \/ \E r \in Resources : RecoveryRefence(r)

Next ==
    \/ \E c \in Clients : ClientStep(c)
    \/ \E v \in Services : ServiceStep(v)
    \/ KernelStep

Spec == Init /\ [][Next]_vars

------------------------------------------------------------------------------
(* Properties.                                                              *)

\* No effect on a medium is forgotten: from the moment a mutation may have
\* written, until its durable outcome has been acknowledged by the client or the
\* medium has been recovered, the request is still in its slot or the resource
\* is fenced, through cancels, timeouts, lost copies, and deaths of either side.
EffectsAccounted ==
    \A e \in tainted :
        LET s == e[1][1] IN
        \/ e[2] \in fences
        \/ /\ Resolves(e[1]) /\ slot[s].target = e[2]
           /\ slot[s].mutation \in {"ATTEMPTED", "DURABLE", "UNKNOWN"}

\* A buffer under a running copy is never given to another request.
BufferHeldByCopier ==
    \A p \in Processes :
        Runs(p) /\ copying[p].bulk # None =>
            LET x == bulk[copying[p].bulk] IN
            /\ x.of = copying[p].of
            /\ x.state \in {"WRITING", "READING", "REVOKED"}

\* Releasing a bulk read from what was seen before the copy is safe: as long as
\* the buffer has not been revoked, the request is still the same and complete.
CollectSnapshotValid ==
    \A c \in Clients :
        Runs(c) /\ copying[c].call = "bulk_collect"
                /\ bulk[copying[c].bulk].state = "READING" =>
            LET s == copying[c].of[1] IN
            /\ Handle(s) = copying[c].of
            /\ slot[s].state = "COMPLETE" /\ slot[s].client = c

\* No buffer is lost to a request that is gone: one that is neither free nor
\* waiting for its copier belongs to exactly one live request.
BuffersOwned ==
    \A b \in Bulks :
        bulk[b].state \notin {"FREE", "REVOKED"} =>
            /\ Resolves(bulk[b].of)
            /\ BulkOf(bulk[b].of) = {b}

\* After a service is retired or dies nobody is left waiting on it: what is
\* claimed is claimed by the bound service, which has not been cleaned up.
ClaimsServed ==
    \A s \in Slots :
        slot[s].state \in {"CLAIMED", "CANCEL_PENDING"} =>
            slot[s].service = bound /\ life[bound] # "reaped"

\* "The kernel copy owner must quiesce before slot reuse": a buffer or a slot that
\* is held back for its copier has a copier that can still give it back.
HeldBackForCopier ==
    /\ \A b \in Bulks : bulk[b].state = "REVOKED" =>
          \E p \in Processes : Runs(p) /\ copying[p].bulk = b
    /\ \A s \in Slots : slot[s].state = "DELIVERY_CANCELLED" =>
          \E p \in Processes : Runs(p) /\ copying[p].of = Handle(s)
==============================================================================
