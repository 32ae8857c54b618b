----------------------------- MODULE AtaJournal ------------------------------
(***************************************************************************)
(* The undo journal of a REIST volume (drivers/block/ata_journal.c), the   *)
(* drive it writes to, and the two fences around it: the file system's,    *)
(* which stops mutations, and storage's, which also quarantines the medium *)
(* until poll_media_reintegration attaches the journal again.              *)
(*                                                                         *)
(* A transaction writes four batches, each followed by a cache flush: the  *)
(* old content of its sectors, an ACTIVE record in both headers, the new   *)
(* content, a CLEAN record in both headers.  The drive may write back what *)
(* it has cached in any order, and power may fail at any point.            *)
(***************************************************************************)
EXTENDS Naturals, Sequences, FiniteSets, Functions

CONSTANTS
    Sectors,          \* target LBAs of the volume
    Data,             \* contents of a sector
    MaxEntries,       \* ATA_JOURNAL_MAX_ENTRIES
    SequenceSpace,    \* number of values of the 32-bit sequence
    Primary, Mirror,  \* the header sectors
    Torn,             \* a sector without valid content
    MaxTorn,          \* sectors power cuts may tear between two attaches
    Environments      \* what else happens: sets of "maintenance", "faults"

ASSUME JournalAssumption ==
    /\ IsFiniteSet(Sectors)
    /\ MaxEntries \in Nat \ {0}
    /\ SequenceSpace \in Nat \ {0, 1}
    /\ Primary # Mirror
    /\ {Primary, Mirror} \cap (1..MaxEntries \cup Sectors) = {}
    /\ Sectors \cap 1..MaxEntries = {}
    /\ MaxTorn \in 0..1
    /\ Environments \subseteq SUBSET {"maintenance", "faults"}

VARIABLES
    disk,         \* what the medium holds
    cache,        \* writes the drive has accepted since, by sector
    phase,        \* where the journal is; "off" after power-up, "detached" when
                  \* attach refused the volume
    issued,       \* the batch of this phase has been written, its flush is next
    entries,      \* journal->entries with undo_data and pending_data
    sequence,
    automatic,    \* a transaction of one raw sector write
    ioError,      \* a write of the open mutation has failed
    fsFenced,     \* filesystem_force_read_only
    quarantined,  \* the storage fence, with the medium reported as uncertain
    attempt,      \* the update that is being, or was last, written to the volume
    tornLeft,     \* sectors a power cut may still tear before the next attach
    environment

memory == <<phase, issued, entries, sequence, automatic, ioError, fsFenced, quarantined>>
vars == <<disk, cache, memory, attempt, tornLeft, environment>>

Copies == {Primary, Mirror}
Slots == 1..MaxEntries
Locations == Copies \cup Slots \cup Sectors

\* An entry of the header: the CRC of the old content stands for that content.
Entries == [target : Sectors, undo : Data]
Records == [version : 1..2, state : {"CLEAN", "ACTIVE"},
            sequence : 0..(SequenceSpace - 1), entries : Seq(Entries)]
Content(l) == IF l \in Copies THEN Records ELSE Data

ASSUME TornAssumption == Torn \notin Data /\ Torn \notin Records

------------------------------------------------------------------------------
(* The drive.                                                               *)

Empty == [l \in {} |-> l]
Merge(old, new) ==
    [l \in DOMAIN old \cup DOMAIN new |-> IF l \in DOMAIN new THEN new[l] ELSE old[l]]
Without(f, l) == [k \in DOMAIN f \ {l} |-> f[k]]

\* What a read returns.
View == Merge(disk, cache)

\* The drive writes a cached sector back in its own time.
Destage(l) ==
    /\ l \in DOMAIN cache
    /\ disk' = [disk EXCEPT ![l] = cache[l]]
    /\ cache' = Without(cache, l)
    /\ UNCHANGED <<memory, attempt, tornLeft, environment>>

\* Power fails: what was only cached is lost, and the sector the drive was just
\* writing may be torn.
PowerLoss(torn) ==
    /\ torn \subseteq DOMAIN cache
    /\ Cardinality(torn) <= tornLeft
    /\ disk' = [l \in Locations |-> IF l \in torn THEN Torn ELSE disk[l]]
    /\ tornLeft' = tornLeft - Cardinality(torn)
    /\ cache' = Empty
    /\ phase' = "off"
    /\ issued' = FALSE
    /\ entries' = <<>>
    /\ sequence' = 0
    /\ automatic' = FALSE
    /\ ioError' = FALSE
    /\ fsFenced' = FALSE
    /\ quarantined' = FALSE
    /\ attempt' = Empty
    /\ UNCHANGED environment

------------------------------------------------------------------------------
(* Collecting a transaction in memory.                                      *)

Targets == {entries[i].target : i \in DOMAIN entries}

\* filesystem_mutation_begin and ata_undo_journal_transaction_begin.
MutationBegin ==
    /\ phase = "idle" /\ ~fsFenced
    /\ phase' = "open"
    /\ entries' = <<>>
    /\ automatic' = FALSE
    /\ ioError' = FALSE
    /\ UNCHANGED <<disk, cache, issued, sequence, fsFenced, quarantined, attempt,
                   tornLeft, environment>>

\* ata_undo_journal_write_sector: the first write of a sector reads its old
\* content, later ones only replace the new content.
NewEntry(s, d) == [target |-> s, undo |-> View[s], pending |-> d]
NextSequence == IF entries = <<>> THEN (sequence + 1) % SequenceSpace ELSE sequence
Wraps == entries = <<>> /\ NextSequence = 0
HasRoomAndOne == Len(entries) <= MaxEntries
HasRoom == Len(entries) < MaxEntries

WriteSector(s, d) ==
    /\ phase = "open" /\ ~ioError
    /\ \/ /\ s \in Targets
          /\ entries' = [i \in DOMAIN entries |->
                IF entries[i].target = s THEN [entries[i] EXCEPT !.pending = d]
                                         ELSE entries[i]]
          /\ UNCHANGED sequence
       \/ /\ s \notin Targets /\ HasRoom /\ ~Wraps
          /\ entries' = Append(entries, NewEntry(s, d))
          /\ sequence' = NextSequence
    /\ UNCHANGED <<disk, cache, phase, issued, automatic, ioError, fsFenced,
                   quarantined, attempt, tornLeft, environment>>

\* ... which fails without an entry to spare, when the old content cannot be read
\* and when the sequence is exhausted.  ata_write_sector then reports the write as
\* not durable: storage_write_end fences both and quarantines the medium.
WriteSectorFails(s, d) ==
    /\ phase = "open" /\ ~ioError
    /\ s \notin Targets
    /\ \/ ~HasRoom /\ UNCHANGED <<entries, sequence>>
       \/ "faults" \in environment /\ UNCHANGED <<entries, sequence>>
       \/ HasRoom /\ Wraps /\ entries' = Append(entries, NewEntry(s, d))
                           /\ sequence' = NextSequence
    /\ ioError' = TRUE
    /\ fsFenced' = TRUE
    /\ quarantined' = TRUE
    /\ UNCHANGED <<disk, cache, phase, issued, automatic, attempt, tornLeft, environment>>

\* vfs_mutation_finish after VFS_ERR_IO: nothing is written, no further mutation.
MutationAbort ==
    /\ phase = "open" /\ ioError
    /\ phase' = "idle"
    /\ entries' = <<>>
    /\ fsFenced' = TRUE
    /\ UNCHANGED <<disk, cache, issued, sequence, automatic, ioError, quarantined,
                   attempt, tornLeft, environment>>

NewContent(es) == [s \in {es[i].target : i \in DOMAIN es} |->
                      (CHOOSE e \in {es[i] : i \in DOMAIN es} : e.target = s).pending]

\* vfs_mutation_finish otherwise: transaction_end(commit) starts to write.
MutationCommit ==
    /\ phase = "open" /\ ~ioError
    /\ IF entries = <<>>
       THEN phase' = "idle" /\ UNCHANGED attempt
       ELSE phase' = "undo" /\ attempt' = NewContent(entries)
    /\ UNCHANGED <<disk, cache, issued, entries, sequence, automatic, ioError, fsFenced,
                   quarantined, tornLeft, environment>>

\* A raw sector write of the storage service under a maintenance lease is a
\* transaction of its own (ata_write_sector); it passes the storage fence only.
RawWrite(s, d) ==
    /\ "maintenance" \in environment
    /\ phase = "idle" /\ ~quarantined
    /\ ~Wraps
    /\ sequence' = NextSequence
    /\ entries' = <<NewEntry(s, d)>>
    /\ phase' = "undo" /\ automatic' = TRUE
    /\ attempt' = NewContent(entries')
    /\ UNCHANGED <<disk, cache, issued, ioError, fsFenced, quarantined, tornLeft,
                   environment>>

\* ... which fails before it writes when the sequence is exhausted or the old
\* content cannot be read, with the consequences of any failed write.
RawWriteFails ==
    /\ "maintenance" \in environment
    /\ phase = "idle" /\ ~quarantined
    /\ sequence' \in (IF Wraps THEN {NextSequence} ELSE {})
                    \cup (IF "faults" \in environment THEN {sequence} ELSE {})
    /\ fsFenced' = TRUE
    /\ quarantined' = TRUE
    /\ UNCHANGED <<disk, cache, phase, issued, entries, automatic, ioError, attempt,
                   tornLeft, environment>>

------------------------------------------------------------------------------
(* transaction_end, and attach once it has admitted the volume: every phase *)
(* writes a batch and flushes it.                                           *)

Last(seq) == seq[Len(seq)]
Front(seq) == SubSeq(seq, 1, Len(seq) - 1)

CleanRecord ==
    [version |-> 2, state |-> "CLEAN", sequence |-> sequence, entries |-> <<>>]
ActiveRecord ==
    [version |-> 2, state |-> "ACTIVE", sequence |-> sequence,
     entries |-> [i \in DOMAIN entries |->
                     [target |-> entries[i].target, undo |-> entries[i].undo]]]

Committing == phase \in {"undo", "active", "targets", "clean"}
Attaching == phase \in {"restore", "clear_primary", "clear_mirror"}

Batch ==
    CASE phase = "undo" -> [i \in DOMAIN entries |-> entries[i].undo]
      [] phase = "active" -> [c \in Copies |-> ActiveRecord]
      [] phase = "targets" -> NewContent(entries)
      [] phase = "clean" -> [c \in Copies |-> CleanRecord]
      [] phase = "restore" -> [s \in {Last(entries).target} |-> Last(entries).undo]
      [] phase = "clear_primary" -> [c \in {Primary} |-> CleanRecord]
      [] phase = "clear_mirror" -> [c \in {Mirror} |-> CleanRecord]

WriteBatch ==
    /\ Committing \/ Attaching
    /\ ~issued
    /\ cache' = Merge(cache, Batch)
    /\ issued' = TRUE
    /\ UNCHANGED <<disk, phase, entries, sequence, automatic, ioError, fsFenced,
                   quarantined, attempt, tornLeft, environment>>

NoFlush == UNCHANGED <<disk, cache>>

\* The flush command: everything accepted is on the medium.
FlushCache ==
    /\ disk' = View
    /\ cache' = Empty

Flush ==
    /\ issued
    /\ FlushCache
    /\ issued' = FALSE

NextPhase(p) ==
    CASE p = "undo" -> "active" [] p = "active" -> "targets" [] p = "targets" -> "clean"
      [] p = "clear_primary" -> "clear_mirror"

Barrier ==
    /\ phase \in {"undo", "active", "targets", "clear_primary"}
    /\ Flush
    /\ phase' = NextPhase(phase)
    /\ UNCHANGED <<entries, sequence, automatic, ioError, fsFenced, quarantined,
                   attempt, tornLeft, environment>>

\* The last barrier of a transaction: it is reported as committed.
Committed ==
    /\ phase = "clean"
    /\ Flush
    /\ phase' = "idle"
    /\ entries' = <<>>
    /\ attempt' = Empty
    /\ UNCHANGED <<sequence, automatic, ioError, fsFenced, quarantined, tornLeft,
                   environment>>

\* One sector restored; the entries are taken from the last to the first.
Restored ==
    /\ phase = "restore"
    /\ Flush
    /\ entries' = Front(entries)
    /\ phase' = IF Len(entries) = 1 THEN "clear_primary" ELSE "restore"
    /\ UNCHANGED <<sequence, automatic, ioError, fsFenced, quarantined, attempt,
                   tornLeft, environment>>

\* A write or a flush of a transaction reports failure: part of the batch may be
\* in the drive.  The file system is fenced; a failure between commit_begin and
\* commit_end, or of a raw write, also quarantines the medium.
FenceNothing == UNCHANGED fsFenced
FenceFilesystem == fsFenced' = TRUE

TransactionFails(part) ==
    /\ "faults" \in environment
    /\ Committing
    /\ part \subseteq DOMAIN Batch
    /\ Mirror \in part => Primary \in part
    /\ cache' = IF issued THEN cache ELSE Merge(cache, Restrict(Batch, part))
    /\ phase' = "idle"
    /\ issued' = FALSE
    /\ entries' = <<>>
    /\ FenceFilesystem
    /\ quarantined' = (automatic \/ phase = "targets")
    /\ UNCHANGED <<disk, sequence, automatic, ioError, attempt, tornLeft, environment>>

------------------------------------------------------------------------------
(* ata_undo_journal_attach.                                                 *)

Valid(d, c) == d[c] # Torn
BothCurrent(d) == Valid(d, Primary) /\ Valid(d, Mirror) /\ d[Primary].version = 2

\* Which of two valid headers counts: the later sequence, then the ACTIVE one.
PreferActive(d) ==
    CASE d[Primary].sequence > d[Mirror].sequence -> Primary
      [] d[Mirror].sequence > d[Primary].sequence -> Mirror
      [] OTHER -> IF d[Primary].state = d[Mirror].state
                      \/ d[Primary].state = "ACTIVE" THEN Primary ELSE Mirror
PreferClean(d) ==
    CASE d[Primary].sequence > d[Mirror].sequence -> Primary
      [] d[Mirror].sequence > d[Primary].sequence -> Mirror
      [] OTHER -> IF d[Primary].state = d[Mirror].state
                      \/ d[Primary].state = "CLEAN" THEN Primary ELSE Mirror
Preferred(d) == PreferActive(d)

Selected(d) ==
    IF BothCurrent(d) THEN d[Preferred(d)]
    ELSE IF Valid(d, Mirror) THEN d[Mirror] ELSE d[Primary]

Contradictory(d) ==
    /\ BothCurrent(d)
    /\ d[Primary].sequence = d[Mirror].sequence
    /\ d[Primary].state = d[Mirror].state
    /\ d[Primary] # d[Mirror]

\* All is validated before the first write: a header, and every undo sector.
BothHeadersFound(d) == Valid(d, Primary) /\ Valid(d, Mirror)
HeaderFound(d) == Valid(d, Primary) \/ Valid(d, Mirror)
UndoValid(d) ==
    LET es == Selected(d).entries IN
    \A i \in DOMAIN es :
        /\ d[i] = es[i].undo
        /\ \A j \in 1..(i - 1) : es[j].target # es[i].target

Admissible(d) == HeaderFound(d) /\ ~Contradictory(d) /\ UndoValid(d)

\* A header differs from the one selected, or is of version 1.
NeedsClear(d) ==
    \/ Selected(d).state = "ACTIVE"
    \/ Selected(d).version = 1
    \/ ~BothCurrent(d)
    \/ d[Primary] # d[Mirror]

Attached ==
    /\ phase' = "idle"
    /\ fsFenced' = FALSE
    /\ quarantined' = FALSE
    /\ attempt' = Empty
    /\ tornLeft' = MaxTorn

\* At the mount after power-up, and for a quarantined medium when
\* poll_media_reintegration calls ata_journal_recover_resource.
AttachDue == phase = "off" \/ (phase = "idle" /\ quarantined)

AttachRefused ==
    /\ AttachDue
    /\ Admissible(View) => "faults" \in environment
    /\ phase' = "detached"
    /\ UNCHANGED <<disk, cache, issued, entries, sequence, automatic, ioError, fsFenced,
                   quarantined, attempt, tornLeft, environment>>

AttachClean ==
    /\ AttachDue
    /\ Admissible(View) /\ ~NeedsClear(View)
    /\ Attached
    /\ sequence' = Selected(View).sequence
    /\ UNCHANGED <<disk, cache, issued, entries, automatic, ioError, environment>>

AttachRecover ==
    /\ AttachDue
    /\ Admissible(View) /\ NeedsClear(View)
    /\ sequence' = Selected(View).sequence
    /\ entries' = Selected(View).entries
    /\ phase' = IF Selected(View).entries = <<>> THEN "clear_primary" ELSE "restore"
    /\ UNCHANGED <<disk, cache, issued, automatic, ioError, fsFenced, quarantined,
                   attempt, tornLeft, environment>>

\* Both headers are CLEAN again.
Recovered ==
    /\ phase = "clear_mirror"
    /\ Flush
    /\ Attached
    /\ UNCHANGED <<entries, sequence, automatic, ioError, environment>>

\* A write or a flush of the recovery fails: the volume stays detached.
RecoveryFails(part) ==
    /\ "faults" \in environment
    /\ Attaching
    /\ part \subseteq DOMAIN Batch
    /\ cache' = IF issued THEN cache ELSE Merge(cache, Restrict(Batch, part))
    /\ phase' = "detached"
    /\ issued' = FALSE
    /\ entries' = <<>>
    /\ UNCHANGED <<disk, sequence, automatic, ioError, fsFenced, quarantined, attempt,
                   tornLeft, environment>>

------------------------------------------------------------------------------
\* A volume of the image builder, or one with a version 1 journal: a primary
\* header with at most one entry and no mirror.
Clean(v) == [version |-> v, state |-> "CLEAN", sequence |-> 0, entries |-> <<>>]
LegacyActive(s, d) ==
    [version |-> 1, state |-> "ACTIVE", sequence |-> 0,
     entries |-> <<[target |-> s, undo |-> d]>>]

Image(content, first, primary, mirror) ==
    [l \in Locations |-> IF l = Primary THEN primary
                         ELSE IF l = Mirror THEN mirror
                         ELSE IF l \in Sectors THEN content
                         ELSE IF l = 1 THEN first ELSE content]

Init ==
    /\ \E content, old \in Data, s \in Sectors :
          \/ /\ disk = Image(content, content, Clean(2), Clean(2)) /\ tornLeft = MaxTorn
          \/ /\ disk = Image(content, content, Clean(1), Torn) /\ tornLeft = 0
          \/ /\ disk = Image(content, old, LegacyActive(s, old), Torn) /\ tornLeft = 0
    /\ cache = Empty
    /\ phase = "off" /\ issued = FALSE
    /\ entries = <<>> /\ sequence = 0
    /\ automatic = FALSE /\ ioError = FALSE
    /\ fsFenced = FALSE /\ quarantined = FALSE
    /\ attempt = Empty
    /\ environment \in Environments

\* What the journal does by itself once it has been called.
Progress ==
    \/ AttachClean \/ AttachRecover
    \/ WriteBatch \/ Barrier \/ Committed \/ Restored \/ Recovered

PowerCut == \E torn \in SUBSET DOMAIN cache : PowerLoss(torn)

Next ==
    \/ Progress
    \/ MutationBegin \/ MutationAbort \/ MutationCommit
    \/ \E s \in Sectors, d \in Data :
          WriteSector(s, d) \/ WriteSectorFails(s, d) \/ RawWrite(s, d)
    \/ RawWriteFails
    \/ AttachRefused
    \/ \E part \in SUBSET Locations : TransactionFails(part) \/ RecoveryFails(part)
    \/ \E l \in Locations : Destage(l)
    \/ PowerCut

Spec == Init /\ [][Next]_vars

FairSpec == Spec /\ WF_vars(Progress)

------------------------------------------------------------------------------
TypeOK ==
    /\ DOMAIN disk = Locations
    /\ \A l \in Locations : disk[l] \in Content(l) \cup {Torn}
    /\ DOMAIN cache \subseteq Locations
    /\ \A l \in DOMAIN cache : cache[l] \in Content(l)
    /\ phase \in {"off", "detached", "idle", "open", "undo", "active", "targets", "clean",
                  "restore", "clear_primary", "clear_mirror"}
    /\ issued \in BOOLEAN
    /\ Len(entries) <= MaxEntries
    /\ Targets \subseteq Sectors
    /\ sequence \in 0..(SequenceSpace - 1)
    /\ {automatic, ioError, fsFenced, quarantined} \subseteq BOOLEAN
    /\ attempt \in UNION {[S -> Data] : S \in SUBSET Sectors}
    /\ tornLeft \in 0..MaxTorn
    /\ environment \in Environments

\* The content of the volume that a mount would find if power failed now.
Durable ==
    LET es == Selected(disk).entries IN
    [s \in Sectors |->
        IF \E i \in DOMAIN es : es[i].target = s
        THEN es[CHOOSE i \in DOMAIN es : es[i].target = s].undo
        ELSE disk[s]]

\* Whatever the drive has written back so far, the next attach finds a header and
\* intact undo sectors: ata_undo_journal_attach never has to refuse the volume.
AlwaysRecoverable == Admissible(disk)

\* A file system that may write reads, outside of its open transaction, exactly the
\* content a mount would find: no failed or interrupted transaction shows through.
ServesDurable ==
    phase \in {"idle", "open"} /\ ~fsFenced => [s \in Sectors |-> View[s]] = Durable

\* Transactions are atomic and durable when reported: the journal implements a
\* volume that applies a transaction's sectors in one step.
Status ==
    IF phase = "off" THEN "down"
    ELSE IF attempt = Empty THEN "idle"
    ELSE IF Committing THEN "committing" ELSE "uncertain"
Atomic == INSTANCE AtomicVolume WITH volume <- Durable, update <- attempt,
                                     status <- Status
AtomicTransactions == Atomic!Spec

\* Unless power keeps failing, an attach that no I/O error disturbs completes and
\* the volume can be used, from whatever the last power cut has left.
RecoveryCompletes ==
    <>[][~PowerCut]_vars /\ "faults" \notin environment
        => (phase = "off" ~> phase = "idle")

\* "... oder ein I/O-Fehler lassen den Undo-Satz fuer Boot-Recovery stehen": the undo
\* set of a transaction that failed stays on the medium for the recovery, so the
\* undo sectors of a record that is ACTIVE on the medium are intact.
UndoSetKept == HeaderFound(disk) => UndoValid(disk)
==============================================================================
