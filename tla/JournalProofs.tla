---------------------------- MODULE JournalProofs ----------------------------
(***************************************************************************)
(* Proofs about AtaJournal: whatever the drive has written back and        *)
(* wherever power fails, the volume can be recovered; the file system      *)
(* builds on durable content only; and the journal implements an atomic    *)
(* volume.  For any number of sectors, undo slots and contents.            *)
(*                                                                         *)
(* Raw writes of a maintenance lease together with I/O errors break all of *)
(* this (UndoSetKept is violated), so the theorems are about behaviours in *)
(* which one of the two does not happen.                                   *)
(***************************************************************************)
EXTENDS AtaJournal, SequenceTheorems, FiniteSetTheorems, TLAPS

Separate == ~({"maintenance", "faults"} \subseteq environment)

------------------------------------------------------------------------------
(* What is on the medium and on its way to it.                              *)

OnDisk == {disk[c] : c \in {c \in Copies : disk[c] # Torn}}
InCache == {cache[c] : c \in Copies \cap DOMAIN cache}
Headers == OnDisk \cup InCache

TargetsOf(es) == {es[i].target : i \in DOMAIN es}
Distinct(es) == \A i, j \in DOMAIN es : es[i].target = es[j].target => i = j

\* The undo sectors of a record are on the medium and nobody is writing them.
Intact(h) ==
    /\ \A i \in DOMAIN h.entries : i \in Slots /\ i \notin DOMAIN cache
                                   /\ disk[i] = h.entries[i].undo
    /\ Distinct(h.entries)

\* A recovery from this record would change nothing.
Undone(h) == \A i \in DOMAIN h.entries : disk[h.entries[i].target] = h.entries[i].undo

\* The headers describe at most one transaction, and it is the latest.
HeaderInv ==
    /\ \A h \in Headers : Intact(h) /\ (h.state = "CLEAN" => h.entries = <<>>)
    /\ \A g, h \in Headers : g.state = "ACTIVE" /\ h.state = "ACTIVE" => g = h
    /\ \A g, h \in Headers : g.state = "ACTIVE" /\ h.state = "CLEAN"
                                => h.sequence <= g.sequence

\* A version 1 header is alone.
VersionInv ==
    /\ \A h \in InCache : h.version = 2
    /\ disk[Mirror] # Torn => disk[Mirror].version = 2
    /\ (disk[Mirror] # Torn \/ Mirror \in DOMAIN cache) /\ disk[Primary] # Torn
          => disk[Primary].version = 2

\* One header is always good, and both are while power can still tear a sector.
SpareInv ==
    /\ disk[Primary] # Torn \/ disk[Mirror] # Torn
    /\ disk[Primary] = Torn \/ disk[Mirror] = Torn => tornLeft = 0

\* A sector that is torn or being written is one the next recovery restores.
SectorInv ==
    \A s \in Sectors : disk[s] = Torn \/ s \in DOMAIN cache =>
        /\ Copies \cap DOMAIN cache = {}
        /\ s \in TargetsOf(Selected(disk).entries)

\* The last batch of a transaction: the sectors have their new content.
Finishing ==
    /\ \A h \in InCache : h.state = "CLEAN"
    /\ \A s \in DOMAIN attempt : disk[s] = attempt[s]
    /\ \A h \in Headers : TargetsOf(h.entries) \subseteq DOMAIN attempt

\* While a header is being written it does not matter which one a mount finds,
\* except that it decides whether the transaction under way has happened.
HeaderWriteInv ==
    Copies \cap DOMAIN cache # {} => (\A h \in Headers : Undone(h)) \/ Finishing

------------------------------------------------------------------------------
(* What the journal in memory knows of it.                                  *)

Writes == [target : Sectors, undo : Data, pending : Data]

BothValid == disk[Primary] # Torn /\ disk[Mirror] # Torn
BothClean == BothValid /\ \A h \in OnDisk : h.state = "CLEAN"
Quiet == BothClean /\ DOMAIN cache = {} /\ attempt = Empty

EntryInv ==
    /\ phase \in {"off", "detached", "idle", "clear_primary", "clear_mirror"} => entries = <<>>
    /\ phase = "open" \/ Committing => entries \in Seq(Writes) /\ Distinct(entries)
    /\ phase \in {"open", "undo", "active"} =>
          \A i \in DOMAIN entries : disk[entries[i].target] = entries[i].undo

IdleInv ==
    /\ ~(Committing \/ Attaching) => ~issued
    /\ phase = "off" => DOMAIN cache = {} /\ attempt = Empty
    /\ phase = "idle" /\ ~fsFenced => Quiet /\ \A h \in OnDisk : h.sequence <= sequence
    /\ phase = "idle" /\ quarantined => DOMAIN cache \subseteq Sectors
    /\ quarantined => fsFenced
    /\ fsFenced /\ ~quarantined => "faults" \in environment
    /\ automatic => "maintenance" \in environment
    /\ phase = "open" => Quiet /\ (ioError => quarantined)
    /\ phase = "open" /\ ~ioError => ~fsFenced /\ \A h \in OnDisk : h.sequence <= sequence

CommitInv ==
    /\ Committing => /\ ~fsFenced /\ entries # <<>> /\ attempt = NewContent(entries)
                     /\ BothValid /\ (~issued => DOMAIN cache = {})
    /\ phase = "undo" =>
          /\ BothClean /\ DOMAIN cache \subseteq DOMAIN entries
          /\ \A h \in OnDisk : h.sequence <= sequence
          /\ issued => \A i \in DOMAIN entries : View[i] = entries[i].undo
    /\ phase = "active" =>
          /\ DOMAIN cache \subseteq Copies
          /\ \A i \in DOMAIN entries : disk[i] = entries[i].undo
          /\ \A h \in OnDisk : h = ActiveRecord \/ (h.state = "CLEAN" /\ h.sequence <= sequence)
          /\ \A h \in InCache : h = ActiveRecord
          /\ issued => \A c \in Copies : View[c] = ActiveRecord
    /\ phase = "targets" =>
          /\ DOMAIN cache \subseteq Sectors
          /\ \A h \in OnDisk : h = ActiveRecord
          /\ issued => \A s \in DOMAIN attempt : View[s] = attempt[s]
    /\ phase = "clean" =>
          /\ DOMAIN cache \subseteq Copies
          /\ \A h \in OnDisk : h = ActiveRecord \/ h = CleanRecord
          /\ \A h \in InCache : h = CleanRecord
          /\ \A s \in DOMAIN attempt : disk[s] = attempt[s]
          /\ issued => \A c \in Copies : View[c] = CleanRecord

\* The entries that remain to be restored, and those that have been.
RestoreInv ==
    LET es == Selected(disk).entries IN
    phase = "restore" =>
        /\ entries \in Seq(Entries) /\ entries # <<>>
        /\ DOMAIN entries \subseteq DOMAIN es
        /\ \A i \in DOMAIN entries : entries[i] = es[i]
        /\ \A i \in DOMAIN es \ DOMAIN entries :
              disk[es[i].target] = es[i].undo /\ es[i].target \notin DOMAIN cache
        /\ DOMAIN cache \subseteq Sectors
        /\ issued => View[Last(entries).target] = Last(entries).undo

ClearInv ==
    /\ Attaching => \A h \in OnDisk : h.state = "ACTIVE" => sequence <= h.sequence
    /\ phase \in {"clear_primary", "clear_mirror"} =>
          /\ \A h \in OnDisk : Undone(h)
          /\ \A h \in InCache : h = CleanRecord
          /\ ~issued => DOMAIN cache = {}
    /\ phase = "clear_primary" => /\ DOMAIN cache \subseteq {Primary}
                                  /\ issued => View[Primary] = CleanRecord
    /\ phase = "clear_mirror" => /\ disk[Primary] = CleanRecord
                                 /\ DOMAIN cache \subseteq {Mirror}
                                 /\ issued => View[Mirror] = CleanRecord

MediumInv == HeaderInv /\ VersionInv /\ SpareInv /\ SectorInv /\ HeaderWriteInv
MemoryInv == EntryInv /\ IdleInv /\ CommitInv /\ RestoreInv /\ ClearInv
IInv == Separate /\ TypeOK /\ MediumInv /\ MemoryInv

------------------------------------------------------------------------------
(* Functions and sequences.                                                 *)

\* The kinds of locations do not overlap.
LEMMA Kinds ==
    /\ Primary \in Copies /\ Mirror \in Copies /\ Primary # Mirror
    /\ \A c \in Copies : c \notin Slots /\ c \notin Sectors /\ c \in Locations
    /\ \A i \in Slots : i \notin Copies /\ i \notin Sectors /\ i \in Locations
    /\ \A s \in Sectors : s \notin Copies /\ s \notin Slots /\ s \in Locations
BY JournalAssumption DEF Copies, Slots, Locations

\* A read returns what the drive accepted last.
LEMMA ViewApply ==
    ASSUME TypeOK
    PROVE  /\ DOMAIN View = Locations
           /\ \A l \in Locations : /\ l \in DOMAIN cache => View[l] = cache[l]
                                   /\ l \notin DOMAIN cache => View[l] = disk[l]
<1>1. DOMAIN disk = Locations /\ DOMAIN cache \subseteq Locations
  BY DEF TypeOK
<1> QED
  BY <1>1 DEF View, Merge

\* What a location holds.
LEMMA Contents ==
    ASSUME TypeOK
    PROVE  /\ \A c \in Copies : /\ disk[c] # Torn => disk[c] \in Records
                                /\ c \in DOMAIN cache => cache[c] \in Records /\ cache[c] # Torn
           /\ \A l \in Slots \cup Sectors : /\ disk[l] # Torn => disk[l] \in Data
                                            /\ l \in DOMAIN cache => cache[l] \in Data /\ cache[l] # Torn
<1>1. \A l \in Locations : disk[l] \in Content(l) \cup {Torn}
  BY DEF TypeOK
<1>2. \A l \in DOMAIN cache : l \in Locations /\ cache[l] \in Content(l)
  BY DEF TypeOK
<1>3. \A c \in Copies : c \in Locations /\ Content(c) = Records
  BY Kinds DEF Content
<1>4. \A l \in Slots \cup Sectors : l \in Locations /\ Content(l) = Data
  BY Kinds DEF Content
<1> QED
  BY <1>1, <1>2, <1>3, <1>4, TornAssumption

\* A record is a record.
LEMMA RecordFields ==
    ASSUME NEW h \in Records
    PROVE  /\ h.state \in {"CLEAN", "ACTIVE"} /\ h.version \in 1..2
           /\ h.sequence \in 0..(SequenceSpace - 1) /\ h.sequence \in Nat
           /\ h.entries \in Seq(Entries) /\ DOMAIN h.entries = 1..Len(h.entries)
           /\ Len(h.entries) \in Nat
           /\ \A i \in DOMAIN h.entries : /\ h.entries[i] \in Entries
                                          /\ h.entries[i].target \in Sectors
                                          /\ h.entries[i].undo \in Data
<1>1. /\ h.state \in {"CLEAN", "ACTIVE"} /\ h.version \in 1..2
      /\ h.sequence \in 0..(SequenceSpace - 1) /\ h.entries \in Seq(Entries)
  BY DEF Records
<1>2. h.sequence \in Nat
  BY <1>1, JournalAssumption
<1>3. \A i \in DOMAIN h.entries : h.entries[i] \in Entries
  BY <1>1
<1>4. /\ DOMAIN h.entries = 1..Len(h.entries) /\ Len(h.entries) \in Nat
  BY <1>1
<1>5. \A i \in DOMAIN h.entries : h.entries[i].target \in Sectors /\ h.entries[i].undo \in Data
  BY <1>3 DEF Entries
<1> QED
  BY <1>1, <1>2, <1>3, <1>4, <1>5

\* Every header is a record.
LEMMA HeaderRecords ==
    ASSUME TypeOK
    PROVE  /\ \A h \in Headers : h \in Records
           /\ \A h \in OnDisk : \E c \in Copies : h = disk[c] /\ disk[c] # Torn
           /\ \A h \in InCache : \E c \in Copies : c \in DOMAIN cache /\ h = cache[c]
           /\ \A c \in Copies : disk[c] # Torn => disk[c] \in OnDisk /\ disk[c] \in Headers
           /\ \A c \in Copies : c \in DOMAIN cache => cache[c] \in InCache /\ cache[c] \in Headers
BY Contents DEF Headers, OnDisk, InCache

------------------------------------------------------------------------------
(* Which header counts.                                                     *)

\* One of the valid headers is selected.
LEMMA SelectedFound ==
    ASSUME TypeOK, SpareInv
    PROVE  /\ Selected(disk) \in OnDisk /\ Selected(disk) \in Headers
           /\ Selected(disk) \in Records
<1>1. Preferred(disk) \in {Primary, Mirror}
  BY DEF Preferred, PreferActive
<1>2. CASE BothCurrent(disk)
  <2>1. Selected(disk) = disk[Preferred(disk)]
    BY <1>2 DEF Selected
  <2>2. disk[Primary] # Torn /\ disk[Mirror] # Torn
    BY <1>2 DEF BothCurrent, Valid
  <2> QED
    BY <1>1, <2>1, <2>2, Kinds, HeaderRecords
<1>3. CASE ~BothCurrent(disk)
  <2>1. \E c \in Copies : Selected(disk) = disk[c] /\ disk[c] # Torn
    BY <1>3, Kinds DEF Selected, SpareInv, Valid
  <2> QED
    BY <2>1, HeaderRecords
<1> QED
  BY <1>2, <1>3

\* An ACTIVE record on the medium is selected.
LEMMA ActiveSelected ==
    ASSUME TypeOK, HeaderInv, VersionInv, SpareInv, NEW h \in OnDisk, h.state = "ACTIVE"
    PROVE  Selected(disk) = h
<1> DEFINE p == disk[Primary]
           m == disk[Mirror]
<1>1. PICK c \in Copies : h = disk[c] /\ disk[c] # Torn
  BY HeaderRecords
<1>2. c = Primary \/ c = Mirror
  BY DEF Copies
<1>3. CASE p # Torn /\ m # Torn
  <2>1. p.version = 2
    BY <1>3 DEF VersionInv
  <2>2. p \in Headers /\ m \in Headers /\ p \in Records /\ m \in Records
    BY <1>3, Kinds, HeaderRecords
  <2>3. Selected(disk) = disk[PreferActive(disk)]
    BY <1>3, <2>1 DEF Selected, BothCurrent, Valid, Preferred
  <2>4. /\ p.sequence \in Nat /\ m.sequence \in Nat
        /\ p.state \in {"CLEAN", "ACTIVE"} /\ m.state \in {"CLEAN", "ACTIVE"}
    BY <2>2, RecordFields
  <2>5. CASE p.state = "ACTIVE" /\ m.state = "ACTIVE"
    <3>1. p = m
      BY <2>2, <2>5 DEF HeaderInv
    <3> QED
      BY <1>1, <1>2, <2>3, <3>1 DEF PreferActive
  <2>6. CASE p.state = "ACTIVE" /\ m.state = "CLEAN"
    <3>1. m.sequence <= p.sequence
      BY <2>2, <2>6 DEF HeaderInv
    <3>2. c = Primary
      BY <1>1, <1>2, <2>6
    <3>3. ~(m.sequence > p.sequence)
      BY <2>4, <3>1
    <3> QED
      BY <1>1, <2>3, <2>6, <3>2, <3>3 DEF PreferActive
  <2>7. CASE p.state = "CLEAN" /\ m.state = "ACTIVE"
    <3>1. p.sequence <= m.sequence
      BY <2>2, <2>7 DEF HeaderInv
    <3>2. c = Mirror
      BY <1>1, <1>2, <2>7
    <3>3. ~(p.sequence > m.sequence)
      BY <2>4, <3>1
    <3> QED
      BY <1>1, <2>3, <2>7, <3>2, <3>3 DEF PreferActive
  <2>8. p.state = "ACTIVE" \/ m.state = "ACTIVE"
    BY <1>1, <1>2
  <2> QED
    BY <2>4, <2>5, <2>6, <2>7, <2>8
<1>4. CASE p = Torn
  BY <1>1, <1>2, <1>4 DEF Selected, BothCurrent, Valid
<1>5. CASE m = Torn
  BY <1>1, <1>2, <1>5 DEF Selected, BothCurrent, Valid
<1> QED
  BY <1>3, <1>4, <1>5

\* Selection looks at the headers only.
LEMMA SelectedKept ==
    ASSUME NEW d, NEW e, d[Primary] = e[Primary], d[Mirror] = e[Mirror]
    PROVE  Selected(d) = Selected(e)
<1>1. BothCurrent(d) <=> BothCurrent(e)
  BY DEF BothCurrent, Valid
<1>2. CASE PreferActive(d) = Primary /\ PreferActive(e) = Primary
  BY <1>1, <1>2 DEF Selected, Preferred, Valid
<1>3. CASE PreferActive(d) = Mirror /\ PreferActive(e) = Mirror
  BY <1>1, <1>3 DEF Selected, Preferred, Valid
<1>4. PreferActive(d) = PreferActive(e) /\ PreferActive(d) \in {Primary, Mirror}
  BY DEF PreferActive
<1> QED
  BY <1>2, <1>3, <1>4

\* The selected header has no entries unless it is ACTIVE.
LEMMA CleanSelected ==
    ASSUME TypeOK, HeaderInv, SpareInv, \A h \in OnDisk : h.state = "CLEAN"
    PROVE  Selected(disk).entries = <<>>
BY SelectedFound DEF HeaderInv

\* The volume of an invariant state can be recovered.
LEMMA Recoverable ==
    ASSUME TypeOK, MediumInv
    PROVE  AlwaysRecoverable
<1> DEFINE S == Selected(disk)
<1>1. HeaderFound(disk)
  BY DEF MediumInv, SpareInv, HeaderFound, Valid
<1>2. ~Contradictory(disk)
  <2> SUFFICES ASSUME Contradictory(disk) PROVE FALSE
    OBVIOUS
  <2>1. PICK p \in Headers : p = disk[Primary]
    BY Kinds, HeaderRecords DEF Contradictory, BothCurrent, Valid
  <2>2. PICK m \in Headers : m = disk[Mirror]
    BY Kinds, HeaderRecords DEF Contradictory, BothCurrent, Valid
  <2>3. /\ p.sequence = m.sequence /\ p.state = m.state /\ p # m
        /\ p.version = 2 /\ m.version = 2
    BY <2>1, <2>2 DEF Contradictory, BothCurrent, Valid, MediumInv, VersionInv
  <2>4. p \in Records /\ m \in Records
    BY HeaderRecords
  <2>5. CASE p.state = "ACTIVE"
    BY <2>3, <2>5 DEF MediumInv, HeaderInv
  <2>6. CASE p.state = "CLEAN"
    <3>1. p.entries = <<>> /\ m.entries = <<>>
      BY <2>3, <2>6 DEF MediumInv, HeaderInv
    <3>2. p = m
      BY <2>3, <2>4, <3>1 DEF Records
    <3> QED
      BY <2>3, <3>2
  <2> QED
    BY <2>4, <2>5, <2>6, RecordFields
<1>3. UndoValid(disk)
  <2>1. S \in Records /\ Intact(S)
    BY SelectedFound DEF MediumInv, HeaderInv
  <2>2. S.entries \in Seq(Entries) /\ DOMAIN S.entries = 1..Len(S.entries) /\ Len(S.entries) \in Nat
    BY <2>1, RecordFields
  <2>3. ASSUME NEW i \in DOMAIN S.entries
        PROVE  /\ disk[i] = S.entries[i].undo
               /\ \A j \in 1..(i - 1) : S.entries[j].target # S.entries[i].target
    <3>1. \A j \in 1..(i - 1) : j \in DOMAIN S.entries /\ j # i
      BY <2>2
    <3> QED
      BY <2>1, <3>1 DEF Intact, Distinct
  <2> QED
    BY <2>3 DEF UndoValid
<1> QED
  BY <1>1, <1>2, <1>3 DEF AlwaysRecoverable, Admissible

------------------------------------------------------------------------------
(* What the drive does to the medium.                                       *)

\* Fewer headers, and undo sectors that nobody writes, are no less in order.
LEMMA HeadersShrink ==
    ASSUME HeaderInv, Headers' \subseteq Headers,
           \A i \in Slots : i \notin DOMAIN cache => i \notin DOMAIN cache' /\ disk'[i] = disk[i]
    PROVE  HeaderInv'
<1>1. ASSUME NEW h \in Headers
      PROVE  Intact(h)'
  <2>1. Intact(h)
    BY DEF HeaderInv
  <2> QED
    BY <2>1 DEF Intact
<1> QED
  BY <1>1 DEF HeaderInv

\* A step of the journal in memory leaves the medium in order.
LEMMA MediumUnchanged ==
    ASSUME MediumInv, UNCHANGED <<disk, cache>>,
           attempt' = attempt \/ Copies \cap DOMAIN cache = {},
           tornLeft' = tornLeft \/ BothValid
    PROVE  MediumInv'
<1>1. Headers' = Headers /\ InCache' = InCache
  BY DEF Headers, OnDisk, InCache
<1>2. HeaderInv'
  BY <1>1, HeadersShrink DEF MediumInv
<1>3. VersionInv'
  BY <1>1 DEF MediumInv, VersionInv
<1>4. SpareInv'
  BY DEF MediumInv, SpareInv, BothValid
<1>5. SectorInv'
  BY DEF MediumInv, SectorInv
<1>6. HeaderWriteInv'
  <2>1. \A h : Undone(h)' <=> Undone(h)
    BY DEF Undone
  <2>2. attempt' = attempt => (Finishing' <=> Finishing)
    BY <1>1 DEF Finishing
  <2> QED
    BY <1>1, <2>1, <2>2 DEF MediumInv, HeaderWriteInv
<1> QED
  BY <1>2, <1>3, <1>4, <1>5, <1>6 DEF MediumInv

\* A flush completes what was begun.
LEMMA FlushMedium ==
    ASSUME TypeOK, MediumInv, FlushCache,
           tornLeft' = tornLeft \/ (View[Primary] # Torn /\ View[Mirror] # Torn)
    PROVE  MediumInv' /\ OnDisk' \subseteq Headers
<1>1. disk' = View /\ DOMAIN cache' = {} /\ cache' = Empty
  BY DEF FlushCache, Empty
<1>2. \A l \in Locations : /\ l \in DOMAIN cache => disk'[l] = cache[l]
                           /\ l \notin DOMAIN cache => disk'[l] = disk[l]
  BY <1>1, ViewApply
<1>3. OnDisk' \subseteq Headers /\ InCache' = {}
  <2>1. ASSUME NEW c \in Copies, disk'[c] # Torn
        PROVE  disk'[c] \in Headers
    BY <1>2, <2>1, Kinds, HeaderRecords
  <2> QED
    BY <1>1, <2>1 DEF OnDisk, InCache
<1>4. Headers' \subseteq Headers
  BY <1>3 DEF Headers
<1>5. HeaderInv'
  BY <1>1, <1>2, <1>4, Kinds, HeadersShrink DEF MediumInv
<1>6. VersionInv'
  <2>1. \A c \in Copies : c \in DOMAIN cache => cache[c].version = 2
    BY HeaderRecords DEF MediumInv, VersionInv
  <2> QED
    BY <1>1, <1>2, <1>3, <2>1, Kinds DEF MediumInv, VersionInv
<1>7. SpareInv'
  BY <1>1, <1>2, Kinds, Contents DEF MediumInv, SpareInv
<1>8. SectorInv'
  <2> SUFFICES ASSUME NEW s \in Sectors, disk'[s] = Torn
               PROVE  s \in TargetsOf(Selected(disk').entries)
    BY <1>1 DEF SectorInv
  <2>1. s \notin DOMAIN cache /\ disk[s] = Torn
    BY <1>2, Kinds, Contents
  <2>2. Copies \cap DOMAIN cache = {} /\ s \in TargetsOf(Selected(disk).entries)
    BY <2>1 DEF MediumInv, SectorInv
  <2>3. Selected(disk') = Selected(disk)
    BY <1>2, <2>2, Kinds, SelectedKept
  <2> QED
    BY <2>2, <2>3
<1>9. HeaderWriteInv'
  BY <1>1 DEF HeaderWriteInv
<1> QED
  BY <1>3, <1>5, <1>6, <1>7, <1>8, <1>9 DEF MediumInv

\* The drive writes a sector back: a header, an undo sector or a target.
LEMMA DestageMedium ==
    ASSUME TypeOK, MediumInv, NEW l \in Locations, Destage(l)
    PROVE  MediumInv' /\ Headers' \subseteq Headers /\ InCache' \subseteq InCache
<1>1. /\ l \in DOMAIN cache /\ UNCHANGED <<attempt, tornLeft>>
      /\ disk'[l] = cache[l] /\ \A k \in Locations : k # l => disk'[k] = disk[k]
      /\ DOMAIN cache' = DOMAIN cache \ {l}
      /\ \A k \in DOMAIN cache' : cache'[k] = cache[k]
  BY DEF Destage, Without, TypeOK
<1>2. InCache' \subseteq InCache
  BY <1>1 DEF InCache
<1>3. OnDisk' \subseteq Headers
  <2>1. ASSUME NEW c \in Copies, disk'[c] # Torn
        PROVE  disk'[c] \in Headers
    <3>1. CASE c = l
      BY <1>1, <3>1, HeaderRecords
    <3>2. CASE c # l
      BY <1>1, <2>1, <3>2, Kinds, HeaderRecords
    <3> QED
      BY <3>1, <3>2
  <2> QED
    BY <2>1 DEF OnDisk
<1>4. Headers' \subseteq Headers
  BY <1>2, <1>3 DEF Headers
<1>5. HeaderInv'
  BY <1>1, <1>4, Kinds, HeadersShrink DEF MediumInv
<1>6. VersionInv'
  <2>1. \A c \in Copies : c \in DOMAIN cache => cache[c].version = 2
    BY HeaderRecords DEF MediumInv, VersionInv
  <2> QED
    BY <1>1, <1>2, <2>1, Kinds DEF MediumInv, VersionInv
<1>7. SpareInv'
  BY <1>1, Kinds, Contents DEF MediumInv, SpareInv
<1>8. SectorInv'
  <2> SUFFICES ASSUME NEW s \in Sectors, disk'[s] = Torn \/ s \in DOMAIN cache'
               PROVE  Copies \cap DOMAIN cache' = {} /\ s \in TargetsOf(Selected(disk').entries)
    BY DEF SectorInv
  <2>1. disk[s] = Torn \/ s \in DOMAIN cache
    BY <1>1, Kinds, Contents
  <2>2. Copies \cap DOMAIN cache = {} /\ s \in TargetsOf(Selected(disk).entries)
    BY <2>1 DEF MediumInv, SectorInv
  <2>3. Selected(disk') = Selected(disk)
    BY <1>1, <2>2, Kinds, SelectedKept
  <2> QED
    BY <1>1, <2>2, <2>3
<1>9. HeaderWriteInv'
  <2> SUFFICES ASSUME Copies \cap DOMAIN cache' # {}
               PROVE  (\A h \in Headers' : Undone(h)') \/ Finishing'
    BY DEF HeaderWriteInv
  <2>1. Copies \cap DOMAIN cache # {}
    BY <1>1
  <2>2. l \notin Sectors
    BY <1>1, <2>1 DEF MediumInv, SectorInv
  <2>3. \A s \in Sectors : disk'[s] = disk[s]
    BY <1>1, <2>2, Kinds
  <2>4. CASE \A h \in Headers : Undone(h)
    <3>1. ASSUME NEW h \in Headers PROVE Undone(h)'
      <4>1. \A i \in DOMAIN h.entries : h.entries[i].target \in Sectors
        BY HeaderRecords, RecordFields
      <4> QED
        BY <2>3, <2>4, <4>1 DEF Undone
    <3> QED
      BY <1>4, <3>1
  <2>5. CASE Finishing
    <3>1. DOMAIN attempt \subseteq Sectors
      BY DEF TypeOK
    <3> QED
      BY <1>1, <1>2, <1>4, <2>3, <2>5, <3>1 DEF Finishing
  <2> QED
    BY <2>1, <2>4, <2>5 DEF MediumInv, HeaderWriteInv
<1> QED
  BY <1>2, <1>4, <1>5, <1>6, <1>7, <1>8, <1>9 DEF MediumInv

\* There are finitely many sectors, so at most one is torn by one power cut, and
\* none after one has been.
LEMMA OneTorn ==
    ASSUME TypeOK, NEW torn \in SUBSET DOMAIN cache, Cardinality(torn) <= tornLeft
    PROVE  /\ \A a, b \in torn : a = b
           /\ tornLeft = 0 => torn = {}
           /\ tornLeft - Cardinality(torn) \in 0..MaxTorn
           /\ torn # {} => tornLeft - Cardinality(torn) = 0
<1>1. IsFiniteSet(Copies)
  <2>1. Copies = ({} \cup {Primary}) \cup {Mirror}
    BY DEF Copies
  <2> QED
    BY <2>1, FS_EmptySet, FS_AddElement
<1>2. IsFiniteSet(Slots)
  <2>1. 1 \in Int /\ MaxEntries \in Int
    BY JournalAssumption
  <2> QED
    BY <2>1, FS_Interval DEF Slots
<1>3. IsFiniteSet(Locations)
  <2>1. IsFiniteSet(Copies \cup Slots)
    BY <1>1, <1>2, FS_Union
  <2> QED
    BY <2>1, FS_Union, JournalAssumption DEF Locations
<1>4. torn \in SUBSET Locations
  BY DEF TypeOK
<1>5. IsFiniteSet(torn) /\ Cardinality(torn) \in Nat
  BY <1>3, <1>4, FS_Subset, FS_CardinalityType
<1>6. tornLeft \in Nat /\ tornLeft <= MaxTorn /\ MaxTorn \in {0, 1}
  BY JournalAssumption DEF TypeOK
<1>7. Cardinality(torn) = 0 \/ Cardinality(torn) = 1
  BY <1>5, <1>6
<1>8. CASE Cardinality(torn) = 0
  <2>1. torn = {}
    BY <1>5, <1>8, FS_EmptySet
  <2>2. tornLeft - 0 = tornLeft /\ tornLeft \in 0..MaxTorn
    BY <1>6
  <2> QED
    BY <1>8, <2>1, <2>2
<1>9. CASE Cardinality(torn) = 1
  <2>1. PICK x : torn = {x}
    BY <1>5, <1>9, FS_Singleton
  <2>2. tornLeft = 1 /\ MaxTorn = 1
    BY <1>6, <1>9
  <2>3. tornLeft - Cardinality(torn) = 0 /\ 0 \in 0..MaxTorn
    BY <1>9, <2>2
  <2> QED
    BY <2>1, <2>2, <2>3
<1> QED
  BY <1>7, <1>8, <1>9

\* A power cut leaves a medium in order, whatever sector it tears.
LEMMA PowerMedium ==
    ASSUME TypeOK, MediumInv, NEW torn \in SUBSET DOMAIN cache, PowerLoss(torn)
    PROVE  MediumInv'
<1>1. /\ \A k \in Locations : disk'[k] = IF k \in torn THEN Torn ELSE disk[k]
      /\ DOMAIN cache' = {}
      /\ Cardinality(torn) <= tornLeft /\ tornLeft' = tornLeft - Cardinality(torn)
  BY DEF PowerLoss, Empty
<1>2. /\ \A a, b \in torn : a = b
      /\ tornLeft = 0 => torn = {} /\ tornLeft' = 0
      /\ torn # {} => tornLeft' = 0
  <2>1. tornLeft = 0 => tornLeft' = 0
    <3>1. CASE tornLeft = 0
      <4>1. torn = {}
        BY <1>1, <3>1, OneTorn
      <4>2. tornLeft' = 0 - 0
        BY <1>1, <3>1, <4>1, FS_EmptySet
      <4> QED
        BY <4>2
    <3> QED
      BY <3>1
  <2> QED
    BY <1>1, <2>1, OneTorn
<1>3. OnDisk' \subseteq OnDisk /\ InCache' = {}
  BY <1>1, Kinds DEF OnDisk, InCache
<1>4. Headers' \subseteq Headers
  BY <1>3 DEF Headers
<1>5. HeaderInv'
  BY <1>1, <1>4, Kinds, HeadersShrink DEF MediumInv
<1>6. VersionInv'
  <2>1. \A c \in Copies : disk'[c] # Torn => disk'[c] = disk[c] /\ disk[c] # Torn
    BY <1>1, Kinds
  <2> QED
    BY <1>1, <1>3, <2>1, Kinds DEF MediumInv, VersionInv
<1>7. SpareInv'
  <2>1. \A c \in Copies : disk'[c] = Torn => disk[c] = Torn \/ c \in torn
    BY <1>1, Kinds
  <2>2. \A c \in Copies : disk'[c] = Torn => tornLeft' = 0
    BY <1>2, <2>1, Kinds DEF MediumInv, SpareInv, Copies
  <2>3. ~(disk'[Primary] = Torn /\ disk'[Mirror] = Torn)
    <3> SUFFICES ASSUME disk'[Primary] = Torn, disk'[Mirror] = Torn PROVE FALSE
      OBVIOUS
    <3>1. disk[Primary] = Torn \/ disk[Mirror] = Torn => torn = {}
      BY <1>2 DEF MediumInv, SpareInv
    <3>2. disk[Primary] = Torn \/ Primary \in torn
      BY <2>1, Kinds
    <3>3. disk[Mirror] = Torn \/ Mirror \in torn
      BY <2>1, Kinds
    <3>4. Primary \in torn /\ Mirror \in torn
      BY <3>1, <3>2, <3>3 DEF MediumInv, SpareInv
    <3> QED
      BY <1>2, <3>4, Kinds
  <2> QED
    BY <2>2, <2>3, Kinds DEF SpareInv
<1>8. SectorInv'
  <2> SUFFICES ASSUME NEW s \in Sectors, disk'[s] = Torn
               PROVE  s \in TargetsOf(Selected(disk').entries)
    BY <1>1 DEF SectorInv
  <2>1. disk[s] = Torn \/ s \in DOMAIN cache
    BY <1>1, Kinds
  <2>2. Copies \cap DOMAIN cache = {} /\ s \in TargetsOf(Selected(disk).entries)
    BY <2>1 DEF MediumInv, SectorInv
  <2>3. Selected(disk') = Selected(disk)
    BY <1>1, <2>2, Kinds, SelectedKept
  <2> QED
    BY <2>2, <2>3
<1>9. HeaderWriteInv'
  BY <1>1 DEF HeaderWriteInv
<1> QED
  BY <1>5, <1>6, <1>7, <1>8, <1>9 DEF MediumInv

------------------------------------------------------------------------------
(* What the journal writes.                                                 *)

\* The CLEAN record.
LEMMA CleanFields ==
    ASSUME TypeOK
    PROVE  /\ CleanRecord \in Records /\ CleanRecord # Torn
           /\ CleanRecord.version = 2 /\ CleanRecord.state = "CLEAN"
           /\ CleanRecord.sequence = sequence /\ CleanRecord.entries = <<>>
<1>1. /\ CleanRecord.version = 2 /\ CleanRecord.state = "CLEAN"
      /\ CleanRecord.sequence = sequence /\ CleanRecord.entries = <<>>
  BY DEF CleanRecord
<1>2. <<>> \in Seq(Entries) /\ sequence \in 0..(SequenceSpace - 1) /\ 2 \in 1..2
  BY DEF TypeOK
<1>3. CleanRecord \in Records
  BY <1>2 DEF CleanRecord, Records
<1> QED
  BY <1>1, <1>3, TornAssumption

\* The sequence of entries of a transaction.
LEMMA WriteEntries ==
    ASSUME TypeOK, entries \in Seq(Writes)
    PROVE  /\ DOMAIN entries = 1..Len(entries) /\ Len(entries) \in Nat
           /\ DOMAIN entries \subseteq Slots
           /\ \A i \in DOMAIN entries : /\ entries[i] \in Writes
                                        /\ entries[i].target \in Sectors
                                        /\ entries[i].undo \in Data /\ entries[i].pending \in Data
           /\ entries # <<>> => 1 \in DOMAIN entries
<1>1. DOMAIN entries = 1..Len(entries) /\ Len(entries) \in Nat
  OBVIOUS
<1>2. Len(entries) <= MaxEntries
  BY DEF TypeOK
<1>3. DOMAIN entries \subseteq Slots
  BY <1>1, <1>2, JournalAssumption DEF Slots
<1>4. \A i \in DOMAIN entries : entries[i] \in Writes
  OBVIOUS
<1>5. entries # <<>> => 1 \in DOMAIN entries
  BY <1>1
<1> QED
  BY <1>1, <1>3, <1>4, <1>5 DEF Writes

\* The ACTIVE record of a transaction.
LEMMA ActiveFields ==
    ASSUME TypeOK, entries \in Seq(Writes)
    PROVE  /\ ActiveRecord \in Records /\ ActiveRecord # Torn
           /\ ActiveRecord.version = 2 /\ ActiveRecord.state = "ACTIVE"
           /\ ActiveRecord.sequence = sequence
           /\ DOMAIN ActiveRecord.entries = DOMAIN entries
           /\ \A i \in DOMAIN entries :
                 /\ ActiveRecord.entries[i].target = entries[i].target
                 /\ ActiveRecord.entries[i].undo = entries[i].undo
<1> DEFINE es == [i \in DOMAIN entries |->
                     [target |-> entries[i].target, undo |-> entries[i].undo]]
<1>1. /\ ActiveRecord.version = 2 /\ ActiveRecord.state = "ACTIVE"
      /\ ActiveRecord.sequence = sequence /\ ActiveRecord.entries = es
  BY DEF ActiveRecord
<1>2. /\ DOMAIN entries = 1..Len(entries) /\ Len(entries) \in Nat
      /\ \A i \in DOMAIN entries : entries[i].target \in Sectors /\ entries[i].undo \in Data
  BY WriteEntries
<1>3. DOMAIN es = DOMAIN entries /\ \A i \in DOMAIN entries :
         es[i].target = entries[i].target /\ es[i].undo = entries[i].undo
  OBVIOUS
<1>4. es \in Seq(Entries)
  <2>1. \A i \in 1..Len(entries) :
           [target |-> entries[i].target, undo |-> entries[i].undo] \in Entries
    BY <1>2 DEF Entries
  <2>2. es \in [1..Len(entries) -> Entries]
    BY <1>2, <2>1
  <2> QED
    BY <1>2, <2>2
<1>5. sequence \in 0..(SequenceSpace - 1) /\ 2 \in 1..2
  BY DEF TypeOK
<1>6. ActiveRecord = [version |-> 2, state |-> "ACTIVE", sequence |-> sequence, entries |-> es]
  BY DEF ActiveRecord
<1> HIDE DEF es
<1>7. ActiveRecord \in Records
  BY <1>4, <1>5, <1>6 DEF Records
<1> QED
  BY <1>1, <1>3, <1>7, TornAssumption

\* The new contents of a transaction.
LEMMA NewContents ==
    ASSUME NEW es \in Seq(Writes)
    PROVE  /\ NewContent(es) \in [TargetsOf(es) -> Data]
           /\ NewContent(es) \in UNION {[S -> Data] : S \in SUBSET Sectors}
           /\ DOMAIN NewContent(es) = TargetsOf(es)
           /\ es # <<>> => NewContent(es) # Empty
<1>1. ASSUME NEW s \in TargetsOf(es)
      PROVE  (CHOOSE e \in {es[i] : i \in DOMAIN es} : e.target = s).pending \in Data
  <2>1. \E e \in {es[i] : i \in DOMAIN es} : e.target = s
    BY <1>1 DEF TargetsOf
  <2>2. \A e \in {es[i] : i \in DOMAIN es} : e \in Writes
    OBVIOUS
  <2>3. (CHOOSE e \in {es[i] : i \in DOMAIN es} : e.target = s) \in Writes
    BY <2>1, <2>2
  <2> QED
    BY <2>3 DEF Writes
<1>2. NewContent(es) \in [TargetsOf(es) -> Data]
  BY <1>1 DEF NewContent, TargetsOf
<1>3. TargetsOf(es) \subseteq Sectors
  <2>1. \A i \in DOMAIN es : es[i] \in Writes
    OBVIOUS
  <2> QED
    BY <2>1 DEF TargetsOf, Writes
<1>4. es # <<>> => TargetsOf(es) # {}
  <2>1. es # <<>> => 1 \in DOMAIN es
    OBVIOUS
  <2> QED
    BY <2>1 DEF TargetsOf
<1>5. DOMAIN NewContent(es) = TargetsOf(es) /\ DOMAIN Empty = {}
  BY <1>2 DEF Empty
<1> QED
  BY <1>2, <1>3, <1>4, <1>5

\* Where the medium agrees with the undo data, or with the new content of the only
\* transaction there is, no sector is torn.
LEMMA NoneTorn ==
    ASSUME TypeOK, MediumInv,
           \/ \A h \in OnDisk : Undone(h)
           \/ /\ \A s \in DOMAIN attempt : disk[s] = attempt[s]
              /\ \A h \in OnDisk : TargetsOf(h.entries) \subseteq DOMAIN attempt
    PROVE  \A s \in Sectors : disk[s] # Torn
<1> SUFFICES ASSUME NEW s \in Sectors, disk[s] = Torn PROVE FALSE
  OBVIOUS
<1> DEFINE h == Selected(disk)
<1>1. h \in OnDisk /\ h \in Records
  BY SelectedFound DEF MediumInv
<1>2. s \in TargetsOf(h.entries)
  BY DEF MediumInv, SectorInv
<1>3. CASE Undone(h)
  <2>1. PICK i \in DOMAIN h.entries : s = h.entries[i].target
    BY <1>2 DEF TargetsOf
  <2>2. disk[s] = h.entries[i].undo
    BY <1>3, <2>1 DEF Undone
  <2> QED
    BY <1>1, <2>2, RecordFields, TornAssumption
<1>4. CASE (\A t \in DOMAIN attempt : disk[t] = attempt[t]) /\ TargetsOf(h.entries) \subseteq DOMAIN attempt
  <2>1. disk[s] = attempt[s] /\ s \in DOMAIN attempt
    BY <1>2, <1>4
  <2>2. attempt[s] \in Data
    BY <2>1 DEF TypeOK
  <2> QED
    BY <2>1, <2>2, TornAssumption
<1> QED
  BY <1>1, <1>3, <1>4

\* A record that is written to a copy and agrees with those on the medium.
LEMMA HeaderWritten ==
    ASSUME TypeOK, MediumInv, DOMAIN cache = {}, NEW R \in Records, NEW part \in SUBSET Copies,
           disk' = disk, DOMAIN cache' = part, \A c \in part : cache'[c] = R,
           attempt' = attempt, tornLeft' = tornLeft,
           R.version = 2, R.state = "CLEAN" => R.entries = <<>>, Intact(R),
           \A h \in OnDisk : /\ h.state = "ACTIVE" /\ R.state = "ACTIVE" => h = R
                             /\ h.state = "ACTIVE" /\ R.state = "CLEAN" => R.sequence <= h.sequence
                             /\ h.state = "CLEAN" /\ R.state = "ACTIVE" => h.sequence <= R.sequence,
           Mirror \in part => disk[Primary] # Torn /\ disk[Primary].version = 2,
           \/ (\A h \in OnDisk : Undone(h)) /\ Undone(R)
           \/ /\ R.state = "CLEAN"
              /\ \A s \in DOMAIN attempt : disk[s] = attempt[s]
              /\ \A h \in OnDisk : TargetsOf(h.entries) \subseteq DOMAIN attempt
    PROVE  MediumInv'
<1>1. OnDisk' = OnDisk /\ InCache' \subseteq {R}
  BY DEF OnDisk, InCache
<1>2. \A h \in Headers' : h \in OnDisk \/ h = R
  BY <1>1 DEF Headers
<1>3. \A h \in OnDisk : h \in Headers
  BY DEF Headers
<1>4. HeaderInv'
  <2>1. ASSUME NEW h, Intact(h)
        PROVE  Intact(h)'
    <3>1. \A i \in Slots : i \notin DOMAIN cache'
      BY Kinds
    <3> QED
      BY <2>1, <3>1 DEF Intact
  <2>2. \A h \in Headers' : Intact(h)' /\ (h.state = "CLEAN" => h.entries = <<>>)
    BY <1>2, <1>3, <2>1 DEF MediumInv, HeaderInv
  <2>3. \A g, h \in OnDisk : g.state = "ACTIVE" /\ h.state = "ACTIVE" => g = h
    BY <1>3 DEF MediumInv, HeaderInv
  <2>4. \A g, h \in OnDisk : g.state = "ACTIVE" /\ h.state = "CLEAN" => h.sequence <= g.sequence
    BY <1>3 DEF MediumInv, HeaderInv
  <2>5. \A g, h \in Headers' : g.state = "ACTIVE" /\ h.state = "ACTIVE" => g = h
    BY <1>2, <2>3
  <2>6. \A g, h \in Headers' : g.state = "ACTIVE" /\ h.state = "CLEAN" => h.sequence <= g.sequence
    BY <1>2, <2>4
  <2> QED
    BY <2>2, <2>5, <2>6 DEF HeaderInv
<1>5. VersionInv'
  BY <1>1 DEF MediumInv, VersionInv
<1>6. SpareInv'
  BY DEF MediumInv, SpareInv
<1>7. SectorInv'
  <2>1. \A s \in Sectors : disk[s] # Torn
    BY NoneTorn
  <2>2. \A s \in Sectors : s \notin DOMAIN cache'
    BY Kinds
  <2> QED
    BY <2>1, <2>2 DEF SectorInv
<1>8. HeaderWriteInv'
  <2>1. CASE (\A h \in OnDisk : Undone(h)) /\ Undone(R)
    <3>1. \A h : Undone(h)' <=> Undone(h)
      BY DEF Undone
    <3> QED
      BY <1>2, <2>1, <3>1 DEF HeaderWriteInv
  <2>2. CASE /\ R.state = "CLEAN"
             /\ \A s \in DOMAIN attempt : disk[s] = attempt[s]
             /\ \A h \in OnDisk : TargetsOf(h.entries) \subseteq DOMAIN attempt
    <3>1. TargetsOf(R.entries) = {}
      BY <2>2 DEF TargetsOf
    <3> QED
      BY <1>1, <1>2, <2>2, <3>1 DEF HeaderWriteInv, Finishing
  <2> QED
    BY <2>1, <2>2
<1> QED
  BY <1>4, <1>5, <1>6, <1>7, <1>8 DEF MediumInv

\* Sectors or undo sectors are written and no header is.
LEMMA DataWritten ==
    ASSUME TypeOK, MediumInv, Copies \cap DOMAIN cache = {}, disk' = disk,
           attempt' = attempt, tornLeft' = tornLeft, Copies \cap DOMAIN cache' = {},
           \A s \in Sectors : s \in DOMAIN cache' =>
               s \in DOMAIN cache \/ s \in TargetsOf(Selected(disk).entries),
           \A i \in Slots : i \in DOMAIN cache' =>
               i \in DOMAIN cache \/ \A h \in OnDisk : h.state = "CLEAN"
    PROVE  MediumInv'
<1>1. OnDisk' = OnDisk /\ InCache' = {} /\ Headers' \subseteq Headers
  BY DEF OnDisk, InCache, Headers
<1>2. \A h \in Headers' : h \in OnDisk /\ h \in Headers
  BY <1>1 DEF Headers
<1>3. HeaderInv'
  <2>1. ASSUME NEW h \in Headers'
        PROVE  Intact(h)' /\ (h.state = "CLEAN" => h.entries = <<>>)
    <3>1. Intact(h) /\ (h.state = "CLEAN" => h.entries = <<>>) /\ h \in OnDisk
      BY <1>2 DEF MediumInv, HeaderInv
    <3>2. CASE h.state = "CLEAN"
      BY <3>1, <3>2 DEF Intact
    <3>3. CASE h.state # "CLEAN"
      BY <3>1, <3>3 DEF Intact
    <3> QED
      BY <3>2, <3>3
  <2> QED
    BY <1>2, <2>1 DEF MediumInv, HeaderInv
<1>4. VersionInv'
  BY <1>1, Kinds DEF MediumInv, VersionInv
<1>5. SpareInv'
  BY DEF MediumInv, SpareInv
<1>6. SectorInv'
  BY DEF MediumInv, SectorInv
<1>7. HeaderWriteInv'
  BY DEF HeaderWriteInv
<1> QED
  BY <1>3, <1>4, <1>5, <1>6, <1>7 DEF MediumInv

\* What the phases write.
LEMMA BatchIs ==
    /\ phase = "undo" => Batch = [i \in DOMAIN entries |-> entries[i].undo]
    /\ phase = "active" => Batch = [c \in Copies |-> ActiveRecord]
    /\ phase = "targets" => Batch = NewContent(entries)
    /\ phase = "clean" => Batch = [c \in Copies |-> CleanRecord]
    /\ phase = "restore" => Batch = [s \in {Last(entries).target} |-> Last(entries).undo]
    /\ phase = "clear_primary" => Batch = [c \in {Primary} |-> CleanRecord]
    /\ phase = "clear_mirror" => Batch = [c \in {Mirror} |-> CleanRecord]
BY DEF Batch

\* The entry that is restored next.
LEMMA LastEntry ==
    ASSUME NEW S, NEW es \in Seq(S), es # <<>>
    PROVE  /\ Len(es) \in DOMAIN es /\ Last(es) = es[Len(es)] /\ Last(es) \in S
           /\ Front(es) \in Seq(S) /\ Len(Front(es)) = Len(es) - 1
           /\ DOMAIN Front(es) = DOMAIN es \ {Len(es)}
           /\ \A i \in DOMAIN Front(es) : Front(es)[i] = es[i]
           /\ Len(es) = 1 => Front(es) = <<>>
           /\ Len(es) # 1 => Front(es) # <<>>
<1>1. Len(es) \in Nat /\ Len(es) >= 1 /\ DOMAIN es = 1..Len(es)
  OBVIOUS
<1>2. PICK n \in Nat : n = Len(es) - 1
  <2>1. Len(es) - 1 \in Nat
    BY <1>1
  <2> QED
    BY <2>1, Zenon
<1>3. \A i \in 1..n : es[i] \in S
  BY <1>1, <1>2
<1>4. Front(es) = SubSeq(es, 1, n)
  BY <1>2 DEF Front
<1>5. /\ Front(es) \in Seq(S) /\ Len(Front(es)) = n
      /\ \A i \in 1..n : Front(es)[i] = es[i]
  <2>1. 1 \in Int /\ n \in Int /\ n - 1 + 1 = n
    BY <1>2
  <2>2. /\ SubSeq(es, 1, n) \in Seq(S) /\ Len(SubSeq(es, 1, n)) = IF 1 <= n THEN n - 1 + 1 ELSE 0
        /\ \A i \in 1..(n - 1 + 1) : SubSeq(es, 1, n)[i] = es[1 + i - 1]
    BY <1>3, <2>1, SubSeqProperties
  <2>3. (IF 1 <= n THEN n - 1 + 1 ELSE 0) = n /\ \A i \in 1..n : 1 + i - 1 = i
    BY <1>2
  <2> QED
    BY <1>4, <2>1, <2>2, <2>3
<1>6. DOMAIN Front(es) = 1..n /\ 1..n = DOMAIN es \ {Len(es)}
  BY <1>1, <1>2, <1>5
<1>7. Len(es) \in DOMAIN es /\ Last(es) = es[Len(es)] /\ Last(es) \in S
  BY <1>1 DEF Last
<1>8. Len(es) = 1 => Front(es) = <<>>
  <2>1. Len(es) = 1 => Len(Front(es)) = 0
    BY <1>2, <1>5
  <2> QED
    BY <1>5, <2>1
<1>9. Len(es) # 1 => Front(es) # <<>>
  <2>1. Len(es) # 1 => Len(Front(es)) # 0
    BY <1>1, <1>2, <1>5
  <2> QED
    BY <2>1
<1> QED
  BY <1>2, <1>5, <1>6, <1>7, <1>8, <1>9

\* A batch, or the part of it that got through, leaves the medium in order.
LEMMA WriteMedium ==
    ASSUME IInv, Committing \/ Attaching, ~issued, NEW part \in SUBSET DOMAIN Batch,
           disk' = disk, attempt' = attempt, tornLeft' = tornLeft,
           DOMAIN cache' = DOMAIN cache \cup part, \A l \in part : cache'[l] = Batch[l]
    PROVE  MediumInv'
<1> USE DEF IInv
<1>0. /\ phase = "undo" => DOMAIN Batch = DOMAIN entries
      /\ phase \in {"active", "clean"} => DOMAIN Batch = Copies
      /\ phase = "targets" => DOMAIN Batch = DOMAIN NewContent(entries)
      /\ phase = "restore" => DOMAIN Batch = {Last(entries).target}
      /\ phase = "clear_primary" => DOMAIN Batch = {Primary}
      /\ phase = "clear_mirror" => DOMAIN Batch = {Mirror}
  BY BatchIs
<1>1. CASE phase = "undo"
  <2>1. /\ DOMAIN cache = {} /\ entries \in Seq(Writes)
        /\ \A h \in OnDisk : h.state = "CLEAN"
    BY <1>1 DEF MemoryInv, CommitInv, EntryInv, Committing, BothClean
  <2>2. DOMAIN cache' \subseteq Slots
    BY <1>0, <1>1, <2>1, WriteEntries
  <2> QED
    BY <2>1, <2>2, Kinds, DataWritten
<1>2. CASE phase = "active"
  <2>1. /\ DOMAIN cache = {} /\ entries \in Seq(Writes) /\ Distinct(entries) /\ BothValid
        /\ \A h \in OnDisk : h = ActiveRecord \/ (h.state = "CLEAN" /\ h.sequence <= sequence)
        /\ \A i \in DOMAIN entries : disk[i] = entries[i].undo
        /\ \A i \in DOMAIN entries : disk[entries[i].target] = entries[i].undo
    BY <1>2 DEF MemoryInv, CommitInv, EntryInv, Committing
  <2>2. DOMAIN cache' = part /\ part \in SUBSET Copies /\ \A c \in part : cache'[c] = ActiveRecord
    BY <1>0, <1>2, <2>1, BatchIs
  <2>3. PICK R \in Records : R = ActiveRecord
    BY <2>1, ActiveFields
  <2>4. /\ R.version = 2 /\ R.state = "ACTIVE" /\ R.sequence = sequence
        /\ DOMAIN R.entries = DOMAIN entries
        /\ \A i \in DOMAIN entries : /\ R.entries[i].target = entries[i].target
                                     /\ R.entries[i].undo = entries[i].undo
    BY <2>1, <2>3, ActiveFields
  <2>5. Intact(R)
    <3>1. DOMAIN entries \subseteq Slots
      BY <2>1, WriteEntries
    <3> QED
      BY <2>1, <2>4, <3>1 DEF Intact, Distinct
  <2>6. Undone(R)
    BY <2>1, <2>4 DEF Undone
  <2>7. \A h \in OnDisk : Undone(h)
    <3>1. ASSUME NEW h \in OnDisk, h.state = "CLEAN" PROVE Undone(h)
      <4>1. h.entries = <<>>
        BY <3>1 DEF MediumInv, HeaderInv, Headers
      <4> QED
        BY <4>1 DEF Undone
    <3> QED
      BY <2>1, <2>3, <2>6, <3>1
  <2>8. disk[Primary] # Torn /\ disk[Primary].version = 2
    BY <2>1 DEF BothValid, MediumInv, VersionInv
  <2>9. \A h \in OnDisk : /\ h.state = "ACTIVE" => h = R
                          /\ h.state = "CLEAN" => h.sequence <= R.sequence
    BY <2>1, <2>3, <2>4
  <2>10. \A c \in part : cache'[c] = R
    BY <2>2, <2>3
  <2> QED
    BY <2>1, <2>2, <2>4, <2>5, <2>6, <2>7, <2>8, <2>9, <2>10, HeaderWritten
<1>3. CASE phase = "targets"
  <2>1. /\ DOMAIN cache = {} /\ entries \in Seq(Writes) /\ BothValid
        /\ \A h \in OnDisk : h = ActiveRecord
    BY <1>3 DEF MemoryInv, CommitInv, EntryInv, Committing
  <2>2. Selected(disk) = ActiveRecord
    BY <2>1, SelectedFound DEF MediumInv
  <2>3. TargetsOf(ActiveRecord.entries) = TargetsOf(entries)
    BY <2>1, ActiveFields DEF TargetsOf
  <2>4. DOMAIN cache' \subseteq TargetsOf(Selected(disk).entries)
    BY <1>0, <1>3, <2>1, <2>2, <2>3, NewContents
  <2>5. DOMAIN cache' \subseteq Sectors
    <3>1. \A i \in DOMAIN entries : entries[i].target \in Sectors
      BY <2>1, WriteEntries
    <3> QED
      BY <2>2, <2>3, <2>4, <3>1 DEF TargetsOf
  <2> QED
    BY <2>1, <2>4, <2>5, Kinds, DataWritten
<1>4. CASE phase = "clean"
  <2>1. /\ DOMAIN cache = {} /\ entries \in Seq(Writes) /\ BothValid
        /\ attempt = NewContent(entries)
        /\ \A h \in OnDisk : h = ActiveRecord \/ h = CleanRecord
        /\ \A s \in DOMAIN attempt : disk[s] = attempt[s]
    BY <1>4 DEF MemoryInv, CommitInv, EntryInv, Committing
  <2>2. DOMAIN cache' = part /\ part \in SUBSET Copies /\ \A c \in part : cache'[c] = CleanRecord
    BY <1>0, <1>4, <2>1, BatchIs
  <2>3. PICK R \in Records : R = CleanRecord
    BY CleanFields
  <2>4. /\ R.version = 2 /\ R.state = "CLEAN" /\ R.sequence = sequence /\ R.entries = <<>>
    BY <2>3, CleanFields
  <2>5. Intact(R)
    BY <2>4 DEF Intact, Distinct
  <2>6. disk[Primary] # Torn /\ disk[Primary].version = 2
    BY <2>1 DEF BothValid, MediumInv, VersionInv
  <2>7. \A h \in OnDisk : h.sequence = sequence /\ sequence \in Nat
    <3>1. sequence \in Nat
      BY JournalAssumption DEF TypeOK
    <3> QED
      BY <2>1, <3>1, ActiveFields, CleanFields
  <2>8. \A h \in OnDisk : h.state = "ACTIVE" => R.sequence <= h.sequence
    BY <2>4, <2>7
  <2>9. \A h \in OnDisk : TargetsOf(h.entries) \subseteq DOMAIN attempt
    <3>1. TargetsOf(ActiveRecord.entries) = TargetsOf(entries)
      BY <2>1, ActiveFields DEF TargetsOf
    <3>2. TargetsOf(CleanRecord.entries) = {}
      BY <2>3, <2>4 DEF TargetsOf
    <3> QED
      BY <2>1, <3>1, <3>2, NewContents
  <2>10. \A c \in part : cache'[c] = R
    BY <2>2, <2>3
  <2> QED
    BY <2>1, <2>2, <2>4, <2>5, <2>6, <2>8, <2>9, <2>10, HeaderWritten
<1>5. CASE phase = "restore"
  <2>1. /\ entries \in Seq(Entries) /\ entries # <<>>
        /\ DOMAIN entries \subseteq DOMAIN Selected(disk).entries
        /\ \A i \in DOMAIN entries : entries[i] = Selected(disk).entries[i]
        /\ DOMAIN cache \subseteq Sectors
    BY <1>5 DEF MemoryInv, RestoreInv
  <2>2. Len(entries) \in DOMAIN entries /\ Last(entries) = entries[Len(entries)]
        /\ Last(entries) \in Entries
    BY <2>1, LastEntry
  <2>3. /\ Last(entries).target \in TargetsOf(Selected(disk).entries)
        /\ Last(entries).target \in Sectors
    BY <2>1, <2>2 DEF TargetsOf, Entries
  <2>4. DOMAIN cache' \subseteq Sectors /\ \A s \in DOMAIN cache' :
           s \in DOMAIN cache \/ s \in TargetsOf(Selected(disk).entries)
    BY <1>0, <1>5, <2>1, <2>3
  <2> QED
    BY <2>1, <2>4, Kinds, DataWritten
<1>6. CASE phase \in {"clear_primary", "clear_mirror"}
  <2>1. /\ DOMAIN cache = {} /\ \A h \in OnDisk : Undone(h)
        /\ \A h \in OnDisk : h.state = "ACTIVE" => sequence <= h.sequence
        /\ phase = "clear_mirror" => disk[Primary] = CleanRecord
    BY <1>6 DEF MemoryInv, ClearInv, Attaching
  <2>2. /\ DOMAIN cache' = part /\ part \in SUBSET Copies
        /\ \A c \in part : cache'[c] = CleanRecord
        /\ Mirror \in part => phase = "clear_mirror"
    BY <1>0, <1>6, <2>1, BatchIs, Kinds
  <2>3. PICK R \in Records : R = CleanRecord
    BY CleanFields
  <2>4. /\ R.version = 2 /\ R.state = "CLEAN" /\ R.sequence = sequence /\ R.entries = <<>>
    BY <2>3, CleanFields
  <2>5. Intact(R) /\ Undone(R)
    BY <2>4 DEF Intact, Distinct, Undone
  <2>6. Mirror \in part => disk[Primary] # Torn /\ disk[Primary].version = 2
    BY <2>1, <2>2, CleanFields
  <2>7. \A c \in part : cache'[c] = R
    BY <2>2, <2>3
  <2> QED
    BY <2>1, <2>2, <2>4, <2>5, <2>6, <2>7, HeaderWritten
<1> QED
  BY <1>1, <1>2, <1>3, <1>4, <1>5, <1>6 DEF Committing, Attaching

------------------------------------------------------------------------------
(* Steps of the journal in memory.                                          *)

\* What follows from a medium nobody touches.
LEMMA FrameMedium ==
    ASSUME UNCHANGED <<disk, cache>>
    PROVE  /\ OnDisk' = OnDisk /\ InCache' = InCache /\ View' = View
           /\ BothValid' <=> BothValid
           /\ BothClean' <=> BothClean
           /\ \A h : Undone(h)' <=> Undone(h)
           /\ Selected(disk)' = Selected(disk)
<1>1. OnDisk' = OnDisk /\ InCache' = InCache /\ View' = View
  BY DEF OnDisk, InCache, View, Merge
<1>2. BothValid' <=> BothValid
  BY DEF BothValid
<1>3. \A h : Undone(h)' <=> Undone(h)
  BY DEF Undone
<1>4. Selected(disk)' = Selected(disk)
  OBVIOUS
<1> QED
  BY <1>1, <1>2, <1>3, <1>4 DEF BothClean

\* The records depend on the entries and the sequence.
LEMMA FrameRecords ==
    ASSUME UNCHANGED <<entries, sequence>>
    PROVE  ActiveRecord' = ActiveRecord /\ CleanRecord' = CleanRecord
BY DEF ActiveRecord, CleanRecord

\* The sequence of the next transaction is a later one unless it is exhausted.
LEMMA NextSequences ==
    ASSUME TypeOK
    PROVE  /\ NextSequence \in 0..(SequenceSpace - 1) /\ sequence \in Nat
           /\ ~Wraps => NextSequence \in Nat /\ NextSequence >= sequence
<1>1. /\ sequence \in Nat /\ SequenceSpace \in Nat /\ SequenceSpace > 1
      /\ sequence <= SequenceSpace - 1
  BY JournalAssumption DEF TypeOK
<1>2. ASSUME NEW n \in Nat, NEW q \in Nat, n > 1, q <= n - 1
      PROVE  (q + 1) % n = IF q = n - 1 THEN 0 ELSE q + 1
  <2>1. CASE q = n - 1
    <3>1. q + 1 = n
      BY <2>1
    <3>2. n % n = 0
      BY <1>2
    <3> QED
      BY <2>1, <3>1, <3>2
  <2>2. CASE q # n - 1
    <3>1. q + 1 \in 0..(n - 1)
      BY <1>2, <2>2
    <3>2. \A k \in 0..(n - 1) : k % n = k
      BY <1>2
    <3> QED
      BY <2>2, <3>1, <3>2
  <2> QED
    BY <2>1, <2>2
<1>3. (sequence + 1) % SequenceSpace =
          IF sequence = SequenceSpace - 1 THEN 0 ELSE sequence + 1
  BY <1>1, <1>2
<1>4. CASE entries = <<>>
  <2>1. NextSequence = IF sequence = SequenceSpace - 1 THEN 0 ELSE sequence + 1
    BY <1>3, <1>4 DEF NextSequence
  <2>2. Wraps <=> NextSequence = 0
    BY <1>4 DEF Wraps
  <2> HIDE DEF NextSequence, Wraps
  <2> QED
    BY <1>1, <2>1, <2>2
<1>5. CASE entries # <<>>
  <2>1. NextSequence = sequence
    BY <1>5 DEF NextSequence
  <2> QED
    BY <1>1, <2>1
<1> QED
  BY <1>4, <1>5

\* With both headers CLEAN and nothing on its way, a read returns what is durable.
LEMMA QuietReads ==
    ASSUME TypeOK, MediumInv, Quiet
    PROVE  /\ \A s \in Sectors : View[s] = disk[s] /\ disk[s] \in Data
           /\ Copies \cap DOMAIN cache = {} /\ Selected(disk).entries = <<>>
<1>1. /\ BothClean /\ DOMAIN cache = {} /\ \A h \in OnDisk : h.state = "CLEAN"
  BY DEF Quiet, BothClean
<1>2. Selected(disk).entries = <<>>
  BY <1>1, CleanSelected DEF MediumInv
<1>3. \A h \in OnDisk : Undone(h)
  <2>1. \A h \in OnDisk : h.entries = <<>>
    BY <1>1 DEF MediumInv, HeaderInv, Headers
  <2> QED
    BY <2>1 DEF Undone
<1>4. \A s \in Sectors : disk[s] # Torn
  BY <1>3, NoneTorn
<1> QED
  BY <1>1, <1>2, <1>4, Kinds, Contents, ViewApply

\* A transaction is opened.
LEMMA BeginStep ==
    ASSUME IInv, MutationBegin
    PROVE  IInv'
<1> USE DEF IInv
<1>1. /\ phase = "idle" /\ ~fsFenced /\ phase' = "open" /\ entries' = <<>>
      /\ automatic' = FALSE /\ ioError' = FALSE
      /\ UNCHANGED <<disk, cache, issued, sequence, fsFenced, quarantined, attempt,
                     tornLeft, environment>>
  BY DEF MutationBegin
<1>2. Separate'
  BY <1>1 DEF Separate
<1>3. TypeOK'
  <2>1. Len(entries') <= MaxEntries /\ Targets' \subseteq Sectors
    BY <1>1, JournalAssumption DEF Targets
  <2> QED
    BY <1>1, <2>1 DEF TypeOK
<1>4. MediumInv'
  BY <1>1, MediumUnchanged
<1>5. EntryInv'
  BY <1>1 DEF EntryInv, Committing, Distinct
<1>6. IdleInv'
  <2>1. Quiet /\ ~issued /\ \A h \in OnDisk : h.sequence <= sequence
    BY <1>1 DEF MemoryInv, IdleInv, Committing, Attaching
  <2>2. Quiet'
    BY <1>1, <2>1, FrameMedium DEF Quiet, Empty
  <2> QED
    BY <1>1, <2>1, <2>2, FrameMedium DEF MemoryInv, IdleInv, Committing, Attaching
<1>7. CommitInv' /\ RestoreInv' /\ ClearInv'
  BY <1>1 DEF CommitInv, RestoreInv, ClearInv, Committing, Attaching
<1> QED
  BY <1>2, <1>3, <1>4, <1>5, <1>6, <1>7 DEF MemoryInv

\* An entry for a sector that has none yet.
LEMMA EntryAppended ==
    ASSUME IInv, NEW s \in Sectors, NEW d \in Data, phase \in {"open", "idle"}, Quiet,
           entries \in Seq(Writes), Distinct(entries), s \notin Targets, HasRoom,
           \A i \in DOMAIN entries : disk[entries[i].target] = entries[i].undo,
           entries' = Append(entries, NewEntry(s, d)), disk' = disk
    PROVE  /\ entries' \in Seq(Writes) /\ Distinct(entries')
           /\ \A i \in DOMAIN entries' : disk'[entries'[i].target] = entries'[i].undo
           /\ Len(entries') <= MaxEntries /\ Targets' \subseteq Sectors /\ entries' # <<>>
<1> USE DEF IInv
<1>1. View[s] = disk[s] /\ disk[s] \in Data
  BY QuietReads
<1>2. PICK e \in Writes : e = NewEntry(s, d) /\ e.target = s /\ e.undo = disk[s]
  <2>1. NewEntry(s, d) \in Writes
    BY <1>1 DEF NewEntry, Writes
  <2>2. NewEntry(s, d).target = s /\ NewEntry(s, d).undo = disk[s]
    BY <1>1 DEF NewEntry
  <2> QED
    BY <2>1, <2>2
<1>3. PICK n \in Nat : n = Len(entries) /\ DOMAIN entries = 1..n
  OBVIOUS
<1>4. /\ entries' \in Seq(Writes) /\ Len(entries') = n + 1 /\ DOMAIN entries' = 1..(n + 1)
      /\ entries'[n + 1] = e /\ \A i \in 1..n : entries'[i] = entries[i]
  BY <1>2, <1>3
<1>5. \A i \in DOMAIN entries' : (i \in DOMAIN entries /\ entries'[i] = entries[i])
                                 \/ (i = n + 1 /\ entries'[i] = e)
  BY <1>3, <1>4
<1>6. \A i \in DOMAIN entries : entries[i].target # s
  BY DEF Targets
<1>7. Distinct(entries')
  BY <1>2, <1>5, <1>6 DEF Distinct
<1>8. \A i \in DOMAIN entries' : disk'[entries'[i].target] = entries'[i].undo
  BY <1>2, <1>5
<1>9. Len(entries') <= MaxEntries
  BY <1>3, <1>4, JournalAssumption DEF HasRoom
<1>10. Targets' \subseteq Sectors
  <2>1. \A i \in DOMAIN entries' : entries'[i] \in Writes
    BY <1>4
  <2> QED
    BY <2>1 DEF Targets, Writes
<1>11. entries' # <<>>
  BY <1>3, <1>4
<1> QED
  BY <1>4, <1>7, <1>8, <1>9, <1>10, <1>11

\* A sector that has an entry gets other new content.
LEMMA EntryReplaced ==
    ASSUME IInv, NEW s \in Sectors, NEW d \in Data, entries \in Seq(Writes), Distinct(entries),
           \A i \in DOMAIN entries : disk[entries[i].target] = entries[i].undo,
           entries' = [i \in DOMAIN entries |->
                IF entries[i].target = s THEN [entries[i] EXCEPT !.pending = d]
                                         ELSE entries[i]],
           disk' = disk
    PROVE  /\ entries' \in Seq(Writes) /\ Distinct(entries')
           /\ \A i \in DOMAIN entries' : disk'[entries'[i].target] = entries'[i].undo
           /\ Len(entries') <= MaxEntries /\ Targets' \subseteq Sectors
<1> USE DEF IInv
<1>1. PICK n \in Nat : n = Len(entries) /\ DOMAIN entries = 1..n
  OBVIOUS
<1>2. ASSUME NEW i \in DOMAIN entries
      PROVE  /\ entries'[i] \in Writes /\ entries'[i].target = entries[i].target
             /\ entries'[i].undo = entries[i].undo
  <2>1. entries[i] \in Writes
    OBVIOUS
  <2>2. CASE entries[i].target = s
    <3>1. entries'[i] = [entries[i] EXCEPT !.pending = d]
      BY <2>2
    <3> QED
      BY <2>1, <3>1 DEF Writes
  <2>3. CASE entries[i].target # s
    BY <2>1, <2>3
  <2> QED
    BY <2>2, <2>3
<1>3. DOMAIN entries' = 1..n
  BY <1>1
<1>4. entries' \in [1..n -> Writes]
  BY <1>1, <1>2
<1>5. entries' \in Seq(Writes) /\ Len(entries') = n
  BY <1>1, <1>4
<1>6. Len(entries') <= MaxEntries
  BY <1>1, <1>5 DEF TypeOK
<1>7. Targets' \subseteq Sectors
  BY <1>1, <1>2, <1>3 DEF Targets, Writes
<1> QED
  BY <1>1, <1>2, <1>3, <1>5, <1>6, <1>7 DEF Distinct

\* A sector of the open transaction is written, or refused.
LEMMA WriteStep ==
    ASSUME IInv, NEW s \in Sectors, NEW d \in Data, WriteSector(s, d) \/ WriteSectorFails(s, d)
    PROVE  IInv'
<1> USE DEF IInv
<1>1. /\ phase = "open" /\ phase' = "open" /\ ~ioError
      /\ UNCHANGED <<disk, cache, issued, automatic, attempt, tornLeft, environment>>
  BY DEF WriteSector, WriteSectorFails
<1>2. \/ ioError' = FALSE /\ UNCHANGED <<fsFenced, quarantined>>
      \/ ioError' = TRUE /\ fsFenced' = TRUE /\ quarantined' = TRUE
  BY DEF WriteSector, WriteSectorFails, TypeOK
<1>3. /\ entries \in Seq(Writes) /\ Distinct(entries)
      /\ \A i \in DOMAIN entries : disk[entries[i].target] = entries[i].undo
  BY <1>1 DEF MemoryInv, EntryInv
<1>4. /\ Quiet /\ ~fsFenced /\ ~issued /\ \A h \in OnDisk : h.sequence <= sequence
  BY <1>1 DEF MemoryInv, IdleInv, Committing, Attaching
<1>5. /\ entries' \in Seq(Writes) /\ Distinct(entries')
      /\ \A i \in DOMAIN entries' : disk'[entries'[i].target] = entries'[i].undo
      /\ Len(entries') <= MaxEntries /\ Targets' \subseteq Sectors
  <2>1. CASE UNCHANGED entries
    BY <1>1, <1>3, <2>1 DEF TypeOK, Targets
  <2>2. CASE s \notin Targets /\ HasRoom /\ entries' = Append(entries, NewEntry(s, d))
    BY <1>1, <1>3, <1>4, <2>2, EntryAppended
  <2>3. CASE entries' = [i \in DOMAIN entries |->
                IF entries[i].target = s THEN [entries[i] EXCEPT !.pending = d]
                                         ELSE entries[i]]
    BY <1>1, <1>3, <2>3, EntryReplaced
  <2> QED
    BY <2>1, <2>2, <2>3 DEF WriteSector, WriteSectorFails
<1>6. /\ sequence' \in 0..(SequenceSpace - 1)
      /\ ioError' = FALSE => sequence' \in Nat /\ sequence' >= sequence
  <2>1. \/ sequence' = sequence
        \/ sequence' = NextSequence /\ (ioError' = FALSE => ~Wraps)
    BY <1>1 DEF WriteSector, WriteSectorFails
  <2>2. sequence \in 0..(SequenceSpace - 1)
    BY DEF TypeOK
  <2>3. CASE sequence' = sequence
    BY <2>2, <2>3, NextSequences
  <2>4. CASE sequence' = NextSequence /\ (ioError' = FALSE => ~Wraps)
    BY <2>4, NextSequences
  <2> QED
    BY <2>1, <2>3, <2>4
<1>7. Separate'
  BY <1>1 DEF Separate
<1>8. TypeOK'
  BY <1>1, <1>2, <1>5, <1>6 DEF TypeOK
<1>9. MediumInv'
  BY <1>1, MediumUnchanged
<1>10. EntryInv'
  BY <1>1, <1>5 DEF EntryInv, Committing
<1>11. IdleInv'
  <2>1. Quiet'
    BY <1>1, <1>4, FrameMedium DEF Quiet, Empty
  <2>2. ioError' = FALSE => \A h \in OnDisk : h.sequence <= sequence'
    <3>1. \A h \in OnDisk : h.sequence \in Nat
      BY HeaderRecords, RecordFields DEF Headers
    <3> QED
      BY <1>4, <1>6, <3>1, NextSequences
  <2>3. OnDisk' = OnDisk
    BY <1>1, FrameMedium
  <2> QED
    BY <1>1, <1>2, <1>4, <2>1, <2>2, <2>3 DEF MemoryInv, IdleInv, Committing, Attaching
<1>12. CommitInv' /\ RestoreInv' /\ ClearInv'
  BY <1>1 DEF CommitInv, RestoreInv, ClearInv, Committing, Attaching
<1> QED
  BY <1>7, <1>8, <1>9, <1>10, <1>11, <1>12 DEF MemoryInv

\* The transaction is dropped after a failed write.
LEMMA AbortStep ==
    ASSUME IInv, MutationAbort
    PROVE  IInv'
<1> USE DEF IInv
<1>1. /\ phase = "open" /\ ioError /\ phase' = "idle" /\ entries' = <<>> /\ fsFenced' = TRUE
      /\ UNCHANGED <<disk, cache, issued, sequence, automatic, ioError, quarantined,
                     attempt, tornLeft, environment>>
  BY DEF MutationAbort
<1>2. Separate'
  BY <1>1 DEF Separate
<1>3. TypeOK'
  <2>1. Len(entries') <= MaxEntries /\ Targets' \subseteq Sectors
    BY <1>1, JournalAssumption DEF Targets
  <2> QED
    BY <1>1, <2>1 DEF TypeOK
<1>4. MediumInv'
  BY <1>1, MediumUnchanged
<1>5. EntryInv'
  BY <1>1 DEF EntryInv, Committing
<1>6. IdleInv'
  <2>1. Quiet /\ quarantined /\ ~issued
    BY <1>1 DEF MemoryInv, IdleInv, Committing, Attaching
  <2> QED
    BY <1>1, <2>1 DEF MemoryInv, IdleInv, Quiet, Committing, Attaching
<1>7. CommitInv' /\ RestoreInv' /\ ClearInv'
  BY <1>1 DEF CommitInv, RestoreInv, ClearInv, Committing, Attaching
<1> QED
  BY <1>2, <1>3, <1>4, <1>5, <1>6, <1>7 DEF MemoryInv

\* A transaction of one entry or more begins to write.
LEMMA UndoBegins ==
    ASSUME IInv, phase' = "undo", ~issued', ~fsFenced', quarantined' = quarantined, ~quarantined,
           UNCHANGED <<disk, cache>>, Quiet,
           entries' \in Seq(Writes), Distinct(entries'), entries' # <<>>,
           \A i \in DOMAIN entries' : disk'[entries'[i].target] = entries'[i].undo,
           attempt' = NewContent(entries'), automatic' => "maintenance" \in environment',
           \A h \in OnDisk : h.sequence <= sequence'
    PROVE  MemoryInv'
<1> USE DEF IInv
<1>1. EntryInv'
  BY DEF EntryInv, Committing
<1>2. IdleInv'
  BY DEF IdleInv, Committing, Attaching
<1>3. CommitInv'
  <2>1. BothClean' /\ BothValid' /\ DOMAIN cache' = {} /\ OnDisk' = OnDisk
    BY FrameMedium DEF Quiet, BothClean
  <2> QED
    BY <2>1 DEF CommitInv, Committing
<1>4. RestoreInv' /\ ClearInv'
  BY DEF RestoreInv, ClearInv, Attaching
<1> QED
  BY <1>1, <1>2, <1>3, <1>4 DEF MemoryInv

\* The transaction ends; if it wrote anything, its batches follow.
LEMMA CommitStep ==
    ASSUME IInv, MutationCommit
    PROVE  IInv'
<1> USE DEF IInv
<1>1. /\ phase = "open" /\ ~ioError
      /\ UNCHANGED <<disk, cache, issued, entries, sequence, automatic, ioError, fsFenced,
                     quarantined, tornLeft, environment>>
  BY DEF MutationCommit
<1>2. /\ entries = <<>> => phase' = "idle" /\ attempt' = attempt
      /\ entries # <<>> => phase' = "undo" /\ attempt' = NewContent(entries)
  BY DEF MutationCommit
<1>3. /\ entries \in Seq(Writes) /\ Distinct(entries)
      /\ \A i \in DOMAIN entries : disk[entries[i].target] = entries[i].undo
  BY <1>1 DEF MemoryInv, EntryInv
<1>4. /\ Quiet /\ ~fsFenced /\ ~quarantined /\ ~issued
      /\ \A h \in OnDisk : h.sequence <= sequence
  BY <1>1 DEF MemoryInv, IdleInv, Committing, Attaching
<1>5. Separate'
  BY <1>1 DEF Separate
<1>6. TypeOK'
  <2>1. attempt' \in UNION {[S -> Data] : S \in SUBSET Sectors}
    BY <1>2, <1>3, NewContents DEF TypeOK
  <2>2. phase' \in {"idle", "undo"}
    BY <1>2
  <2>3. Len(entries') <= MaxEntries /\ Targets' \subseteq Sectors
    BY <1>1 DEF TypeOK, Targets
  <2> QED
    BY <1>1, <2>1, <2>2, <2>3 DEF TypeOK
<1>7. MediumInv'
  BY <1>1, <1>4, QuietReads, MediumUnchanged
<1>8. CASE entries = <<>>
  <2>1. EntryInv'
    BY <1>1, <1>2, <1>8 DEF EntryInv, Committing
  <2>2. Quiet'
    BY <1>1, <1>2, <1>4, <1>8, FrameMedium DEF Quiet, Empty
  <2>3. IdleInv'
    BY <1>1, <1>2, <1>4, <1>8, <2>2, FrameMedium DEF MemoryInv, IdleInv, Committing, Attaching
  <2>4. CommitInv' /\ RestoreInv' /\ ClearInv'
    BY <1>2, <1>8 DEF CommitInv, RestoreInv, ClearInv, Committing, Attaching
  <2> QED
    BY <1>5, <1>6, <1>7, <2>1, <2>3, <2>4 DEF MemoryInv
<1>9. CASE entries # <<>>
  <2>1. MemoryInv'
    BY <1>1, <1>2, <1>3, <1>4, <1>9, UndoBegins DEF MemoryInv, IdleInv
  <2> QED
    BY <1>5, <1>6, <1>7, <2>1
<1> QED
  BY <1>8, <1>9

\* A raw write becomes a transaction of one sector.
LEMMA RawStep ==
    ASSUME IInv, NEW s \in Sectors, NEW d \in Data, RawWrite(s, d)
    PROVE  IInv'
<1> USE DEF IInv
<1>1. /\ phase = "idle" /\ ~quarantined /\ "maintenance" \in environment /\ ~Wraps
      /\ sequence' = NextSequence /\ entries' = <<NewEntry(s, d)>>
      /\ phase' = "undo" /\ automatic' = TRUE /\ attempt' = NewContent(entries')
      /\ UNCHANGED <<disk, cache, issued, ioError, fsFenced, quarantined, tornLeft,
                     environment>>
  BY DEF RawWrite
<1>2. ~fsFenced
  BY <1>1 DEF MemoryInv, IdleInv, Separate
<1>3. Quiet /\ ~issued /\ \A h \in OnDisk : h.sequence <= sequence
  BY <1>1, <1>2 DEF MemoryInv, IdleInv, Committing, Attaching
<1>4. entries = <<>>
  BY <1>1 DEF MemoryInv, EntryInv
<1>5. /\ entries' \in Seq(Writes) /\ Distinct(entries')
      /\ \A i \in DOMAIN entries' : disk'[entries'[i].target] = entries'[i].undo
      /\ Len(entries') <= MaxEntries /\ Targets' \subseteq Sectors /\ entries' # <<>>
  <2>1. entries' = Append(entries, NewEntry(s, d))
    BY <1>1, <1>4
  <2>2. entries \in Seq(Writes) /\ Distinct(entries) /\ s \notin Targets /\ HasRoom
    BY <1>4, JournalAssumption DEF Distinct, Targets, HasRoom
  <2>3. \A i \in DOMAIN entries : disk[entries[i].target] = entries[i].undo
    BY <1>4
  <2> QED
    BY <1>1, <1>3, <2>1, <2>2, <2>3, EntryAppended
<1>6. /\ sequence' \in 0..(SequenceSpace - 1)
      /\ \A h \in OnDisk : h.sequence <= sequence'
  <2>1. /\ sequence' \in 0..(SequenceSpace - 1) /\ sequence \in Nat
        /\ sequence' \in Nat /\ sequence' >= sequence
    BY <1>1, NextSequences
  <2>2. \A h \in OnDisk : h.sequence \in Nat
    BY HeaderRecords, RecordFields DEF Headers
  <2> QED
    BY <1>3, <2>1, <2>2
<1>7. Separate'
  BY <1>1 DEF Separate
<1>8. TypeOK'
  <2>1. attempt' \in UNION {[S -> Data] : S \in SUBSET Sectors}
    BY <1>1, <1>5, NewContents
  <2> QED
    BY <1>1, <1>5, <1>6, <2>1 DEF TypeOK
<1>9. MediumInv'
  BY <1>1, <1>3, QuietReads, MediumUnchanged
<1>10. MemoryInv'
  BY <1>1, <1>2, <1>3, <1>5, <1>6, UndoBegins
<1> QED
  BY <1>7, <1>8, <1>9, <1>10

\* A raw write is refused.
LEMMA RawFailsStep ==
    ASSUME IInv, RawWriteFails
    PROVE  IInv'
<1> USE DEF IInv
<1>1. /\ phase = "idle" /\ ~quarantined /\ "maintenance" \in environment
      /\ fsFenced' = TRUE /\ quarantined' = TRUE
      /\ sequence' = NextSequence \/ sequence' = sequence
      /\ UNCHANGED <<disk, cache, phase, issued, entries, automatic, ioError, attempt,
                     tornLeft, environment>>
  BY DEF RawWriteFails
<1>2. Quiet /\ ~issued
  BY <1>1 DEF MemoryInv, IdleInv, Committing, Attaching, Separate
<1>3. Separate'
  BY <1>1 DEF Separate
<1>4. TypeOK'
  <2>1. sequence' \in 0..(SequenceSpace - 1)
    BY <1>1, NextSequences DEF TypeOK
  <2>2. Len(entries') <= MaxEntries /\ Targets' \subseteq Sectors
    BY <1>1 DEF TypeOK, Targets
  <2> QED
    BY <1>1, <2>1, <2>2 DEF TypeOK
<1>5. MediumInv'
  BY <1>1, MediumUnchanged
<1>6. EntryInv'
  BY <1>1 DEF MemoryInv, EntryInv, Committing
<1>7. IdleInv'
  BY <1>1, <1>2 DEF IdleInv, Quiet, Committing, Attaching
<1>8. CommitInv' /\ RestoreInv' /\ ClearInv'
  BY <1>1 DEF CommitInv, RestoreInv, ClearInv, Committing, Attaching
<1> QED
  BY <1>3, <1>4, <1>5, <1>6, <1>7, <1>8 DEF MemoryInv

\* Before an attach nothing but targets of the selected record is on its way.
LEMMA AttachReads ==
    ASSUME IInv, AttachDue
    PROVE  /\ DOMAIN cache \subseteq Sectors
           /\ DOMAIN cache \subseteq TargetsOf(Selected(disk).entries)
           /\ View[Primary] = disk[Primary] /\ View[Mirror] = disk[Mirror]
           /\ Selected(View) = Selected(disk) /\ entries = <<>> /\ ~issued
<1> USE DEF IInv
<1>1. DOMAIN cache \subseteq Sectors /\ ~issued
  BY DEF AttachDue, MemoryInv, IdleInv, Committing, Attaching
<1>2. DOMAIN cache \subseteq TargetsOf(Selected(disk).entries)
  BY <1>1 DEF MediumInv, SectorInv
<1>3. View[Primary] = disk[Primary] /\ View[Mirror] = disk[Mirror]
  BY <1>1, ViewApply, Kinds
<1>4. Selected(View) = Selected(disk)
  BY <1>3, SelectedKept
<1>5. entries = <<>>
  BY DEF AttachDue, MemoryInv, EntryInv
<1> QED
  BY <1>1, <1>2, <1>3, <1>4, <1>5

\* The volume stays detached.
LEMMA RefusedStep ==
    ASSUME IInv, AttachRefused
    PROVE  IInv'
<1> USE DEF IInv
<1>1. /\ AttachDue /\ phase' = "detached"
      /\ UNCHANGED <<disk, cache, issued, entries, sequence, automatic, ioError, fsFenced,
                     quarantined, attempt, tornLeft, environment>>
  BY DEF AttachRefused
<1>2. entries = <<>> /\ ~issued
  BY <1>1, AttachReads
<1>3. Separate'
  BY <1>1 DEF Separate
<1>4. TypeOK'
  <2>1. Len(entries') <= MaxEntries /\ Targets' \subseteq Sectors
    BY <1>1 DEF TypeOK, Targets
  <2> QED
    BY <1>1, <2>1 DEF TypeOK
<1>5. MediumInv'
  BY <1>1, MediumUnchanged
<1>6. EntryInv'
  BY <1>1, <1>2 DEF EntryInv, Committing
<1>7. IdleInv'
  BY <1>1, <1>2 DEF MemoryInv, IdleInv, Committing, Attaching
<1>8. CommitInv' /\ RestoreInv' /\ ClearInv'
  BY <1>1 DEF CommitInv, RestoreInv, ClearInv, Committing, Attaching
<1> QED
  BY <1>3, <1>4, <1>5, <1>6, <1>7, <1>8 DEF MemoryInv

\* A clean volume is attached.
LEMMA AttachCleanStep ==
    ASSUME IInv, AttachClean
    PROVE  IInv'
<1> USE DEF IInv
<1>1. /\ AttachDue /\ ~NeedsClear(View) /\ sequence' = Selected(View).sequence
      /\ phase' = "idle" /\ fsFenced' = FALSE /\ quarantined' = FALSE /\ attempt' = Empty
      /\ tornLeft' = MaxTorn
      /\ UNCHANGED <<disk, cache, issued, entries, automatic, ioError, environment>>
  BY DEF AttachClean, Attached
<1>2. /\ Selected(View) = Selected(disk) /\ entries = <<>> /\ ~issued
      /\ DOMAIN cache \subseteq TargetsOf(Selected(disk).entries)
      /\ View[Primary] = disk[Primary] /\ View[Mirror] = disk[Mirror]
  BY <1>1, AttachReads
<1>3. /\ BothValid /\ disk[Primary] = disk[Mirror] /\ Selected(disk).state # "ACTIVE"
  BY <1>1, <1>2 DEF NeedsClear, BothCurrent, Valid, BothValid
<1>4. PICK h \in Records : h = Selected(disk) /\ h \in OnDisk /\ h \in Headers
  BY SelectedFound DEF MediumInv
<1>5. \A g \in OnDisk : g = h
  <2>1. disk[Primary] = h
    BY <1>3, <1>4 DEF OnDisk, Copies
  <2> QED
    BY <1>3, <2>1 DEF OnDisk, Copies
<1>6. h.state = "CLEAN" /\ h.entries = <<>>
  BY <1>3, <1>4, RecordFields DEF MediumInv, HeaderInv
<1>7. DOMAIN cache = {}
  <2>1. TargetsOf(h.entries) = {}
    BY <1>6 DEF TargetsOf
  <2> QED
    BY <1>2, <1>4, <2>1
<1>8. Separate'
  BY <1>1 DEF Separate
<1>9. TypeOK'
  <2>1. sequence' \in 0..(SequenceSpace - 1)
    BY <1>1, <1>2, <1>4, RecordFields
  <2>2. Len(entries') <= MaxEntries /\ Targets' \subseteq Sectors
    BY <1>1 DEF TypeOK, Targets
  <2>3. Empty \in UNION {[S -> Data] : S \in SUBSET Sectors}
    <3>1. Empty \in [{} -> Data] /\ {} \in SUBSET Sectors
      BY DEF Empty
    <3> QED
      BY <3>1
  <2>4. MaxTorn \in 0..MaxTorn
    BY JournalAssumption
  <2> QED
    BY <1>1, <2>1, <2>2, <2>3, <2>4 DEF TypeOK
<1>10. MediumInv'
  BY <1>1, <1>3, <1>7, MediumUnchanged
<1>11. EntryInv'
  BY <1>1, <1>2 DEF EntryInv, Committing
<1>12. IdleInv'
  <2>1. Quiet'
    <3>1. BothClean
      BY <1>3, <1>5, <1>6 DEF BothClean
    <3> QED
      BY <1>1, <1>7, <3>1, FrameMedium DEF Quiet, Empty
  <2>2. \A g \in OnDisk' : g.sequence <= sequence'
    <3>1. h.sequence \in Nat /\ sequence' = h.sequence
      BY <1>1, <1>2, <1>4, RecordFields
    <3> QED
      BY <1>1, <1>5, <3>1, FrameMedium
  <2> QED
    BY <1>1, <1>2, <2>1, <2>2 DEF MemoryInv, IdleInv, Committing, Attaching
<1>13. CommitInv' /\ RestoreInv' /\ ClearInv'
  BY <1>1 DEF CommitInv, RestoreInv, ClearInv, Committing, Attaching
<1> QED
  BY <1>8, <1>9, <1>10, <1>11, <1>12, <1>13 DEF MemoryInv

\* Recovery begins: the selected record names what is to be restored.
LEMMA AttachRecoverStep ==
    ASSUME IInv, AttachRecover
    PROVE  IInv'
<1> USE DEF IInv
<1>1. /\ AttachDue /\ sequence' = Selected(View).sequence /\ entries' = Selected(View).entries
      /\ phase' = IF Selected(View).entries = <<>> THEN "clear_primary" ELSE "restore"
      /\ UNCHANGED <<disk, cache, issued, automatic, ioError, fsFenced, quarantined,
                     attempt, tornLeft, environment>>
  BY DEF AttachRecover
<1>2. /\ Selected(View) = Selected(disk) /\ ~issued
      /\ DOMAIN cache \subseteq Sectors
      /\ DOMAIN cache \subseteq TargetsOf(Selected(disk).entries)
  BY <1>1, AttachReads
<1>3. PICK h \in Records : h = Selected(disk) /\ h \in OnDisk /\ h \in Headers
  BY SelectedFound DEF MediumInv
<1>4. /\ sequence' = h.sequence /\ entries' = h.entries
      /\ h.entries = <<>> => phase' = "clear_primary"
      /\ h.entries # <<>> => phase' = "restore"
  BY <1>1, <1>2, <1>3
<1>5. /\ h.sequence \in 0..(SequenceSpace - 1) /\ h.sequence \in Nat /\ h.entries \in Seq(Entries)
      /\ DOMAIN h.entries = 1..Len(h.entries) /\ Len(h.entries) \in Nat
      /\ \A i \in DOMAIN h.entries : h.entries[i].target \in Sectors
  BY RecordFields
<1>6. \A g \in OnDisk : g.state = "ACTIVE" => g = h
  BY <1>3, ActiveSelected DEF MediumInv
<1>7. Separate'
  BY <1>1 DEF Separate
<1>8. TypeOK'
  <2>1. Len(entries') <= MaxEntries
    <3>1. \A i \in DOMAIN h.entries : i \in Slots
      BY <1>3 DEF MediumInv, HeaderInv, Intact
    <3> QED
      BY <1>4, <1>5, <3>1, JournalAssumption DEF Slots
  <2>2. Targets' \subseteq Sectors
    BY <1>4, <1>5 DEF Targets
  <2>3. phase' \in {"clear_primary", "restore"}
    BY <1>4
  <2> QED
    BY <1>1, <1>4, <1>5, <2>1, <2>2, <2>3 DEF TypeOK
<1>9. MediumInv'
  BY <1>1, MediumUnchanged
<1>10. EntryInv'
  BY <1>4 DEF EntryInv, Committing
<1>11. IdleInv'
  BY <1>1, <1>4 DEF MemoryInv, IdleInv, Committing, Attaching
<1>12. CommitInv'
  BY <1>4 DEF CommitInv, Committing
<1>13. RestoreInv'
  BY <1>1, <1>2, <1>3, <1>4, <1>5 DEF RestoreInv
<1>14. ClearInv'
  <2>1. OnDisk' = OnDisk /\ InCache' = InCache /\ \A g : Undone(g)' <=> Undone(g)
    BY <1>1, FrameMedium
  <2>2. \A g \in OnDisk : g.state = "ACTIVE" => sequence' <= g.sequence
    BY <1>4, <1>5, <1>6
  <2>3. CASE h.entries = <<>>
    <3>1. TargetsOf(h.entries) = {}
      BY <2>3 DEF TargetsOf
    <3>2. DOMAIN cache = {} /\ InCache = {}
      BY <1>2, <1>3, <3>1 DEF InCache
    <3>3. \A g \in OnDisk : g.entries = <<>>
      <4>1. \A g \in OnDisk : g.state = "CLEAN" => g.entries = <<>>
        BY DEF MediumInv, HeaderInv, Headers
      <4>2. \A g \in OnDisk : g.state \in {"CLEAN", "ACTIVE"}
        BY HeaderRecords, RecordFields DEF Headers
      <4> QED
        BY <1>6, <2>3, <4>1, <4>2
    <3>4. \A g \in OnDisk : Undone(g)
      BY <3>3 DEF Undone
    <3> QED
      BY <1>1, <1>2, <1>4, <2>1, <2>2, <2>3, <3>2, <3>4 DEF ClearInv
  <2>4. CASE h.entries # <<>>
    BY <1>4, <2>1, <2>2, <2>4 DEF ClearInv
  <2> QED
    BY <2>3, <2>4
<1> QED
  BY <1>7, <1>8, <1>9, <1>10, <1>11, <1>12, <1>13, <1>14 DEF MemoryInv

------------------------------------------------------------------------------
(* Steps of the drive.                                                      *)

\* A read does not see when the drive writes back.
LEMMA DestageReads ==
    ASSUME TypeOK, TypeOK', NEW l \in Locations, Destage(l)
    PROVE  \A k \in Locations : View'[k] = View[k]
<1>1. /\ l \in DOMAIN cache
      /\ disk'[l] = cache[l] /\ \A k \in Locations : k # l => disk'[k] = disk[k]
      /\ DOMAIN cache' = DOMAIN cache \ {l}
      /\ \A k \in DOMAIN cache' : cache'[k] = cache[k]
  BY DEF Destage, Without, TypeOK
<1>2. \A k \in Locations : /\ k \in DOMAIN cache' => View'[k] = cache'[k]
                           /\ k \notin DOMAIN cache' => View'[k] = disk'[k]
  <2>1. DOMAIN disk' = Locations /\ DOMAIN cache' \subseteq Locations
    BY DEF TypeOK
  <2> QED
    BY <2>1 DEF View, Merge
<1> QED
  BY <1>1, <1>2, ViewApply

\* What the drive writes back is what the phase of the journal accounts for.
LEMMA DestageStep ==
    ASSUME IInv, NEW l \in Locations, Destage(l)
    PROVE  IInv'
<1> USE DEF IInv
<1>1. /\ l \in DOMAIN cache
      /\ disk'[l] = cache[l] /\ \A k \in Locations : k # l => disk'[k] = disk[k]
      /\ DOMAIN disk' = Locations /\ DOMAIN cache' = DOMAIN cache \ {l}
      /\ \A k \in DOMAIN cache' : cache'[k] = cache[k]
  BY DEF Destage, Without, TypeOK
<1>2. UNCHANGED <<phase, issued, entries, sequence, automatic, ioError, fsFenced, quarantined,
                  attempt, tornLeft, environment>>
  BY DEF Destage, memory
<1>3. Separate'
  BY <1>2 DEF Separate
<1>4. TypeOK'
  <2>1. \A k \in Locations : disk'[k] \in Content(k) \cup {Torn}
    BY <1>1 DEF TypeOK
  <2>2. \A k \in DOMAIN cache' : cache'[k] \in Content(k)
    BY <1>1 DEF TypeOK
  <2>3. Len(entries') <= MaxEntries /\ Targets' \subseteq Sectors
    BY <1>2 DEF TypeOK, Targets
  <2> QED
    BY <1>1, <1>2, <2>1, <2>2, <2>3 DEF TypeOK
<1>5. MediumInv' /\ InCache' \subseteq InCache
  BY DestageMedium
<1>6. /\ ActiveRecord' = ActiveRecord /\ CleanRecord' = CleanRecord
      /\ \A k \in Locations : View'[k] = View[k]
  BY <1>2, <1>4, FrameRecords, DestageReads
<1>7. l \notin Copies => OnDisk' = OnDisk /\ Selected(disk') = Selected(disk)
                         /\ (BothValid' <=> BothValid)
  <2>1. ASSUME l \notin Copies
        PROVE  \A c \in Copies : disk'[c] = disk[c]
    BY <1>1, <2>1, Kinds
  <2> QED
    BY <2>1, Kinds, SelectedKept DEF OnDisk, BothValid
<1>8. l \notin Sectors => \A s \in Sectors : disk'[s] = disk[s]
  BY <1>1, Kinds
<1>9. l \in Copies => /\ disk'[l] # Torn /\ (BothValid => BothValid')
                      /\ \A h \in OnDisk' : h \in OnDisk \/ h \in InCache
  <2>1. ASSUME l \in Copies
        PROVE  disk'[l] # Torn /\ disk'[l] \in InCache
    BY <1>1, <2>1, Contents, HeaderRecords
  <2>2. \A c \in Copies : c # l => disk'[c] = disk[c]
    BY <1>1, Kinds
  <2>3. BothValid /\ l \in Copies => BothValid'
    BY <2>1, <2>2, Kinds DEF BothValid
  <2>4. l \in Copies => \A h \in OnDisk' : h \in OnDisk \/ h \in InCache
    BY <2>1, <2>2 DEF OnDisk
  <2> QED
    BY <2>1, <2>3, <2>4
<1>10. /\ phase = "open" \/ Committing => entries \in Seq(Writes) /\ DOMAIN entries \subseteq Slots
       /\ \A i \in DOMAIN entries : entries[i].target \in Sectors
  <2>1. phase = "open" \/ Committing => entries \in Seq(Writes)
    BY DEF MemoryInv, EntryInv
  <2>2. \A i \in DOMAIN entries : entries[i].target \in Sectors
    BY DEF TypeOK, Targets
  <2> QED
    BY <2>1, <2>2, WriteEntries
<1>11. phase \notin {"off", "open"} /\ ~(phase = "idle" /\ ~fsFenced)
  BY <1>1 DEF MemoryInv, IdleInv, Quiet
<1>12. /\ phase = "undo" => l \in Slots
       /\ phase \in {"active", "clean", "clear_primary", "clear_mirror"} => l \in Copies
       /\ phase \in {"targets", "restore"} => l \in Sectors
  <2>1. phase = "undo" => DOMAIN cache \subseteq DOMAIN entries
    BY DEF MemoryInv, CommitInv
  <2>2. phase \in {"active", "clean"} => DOMAIN cache \subseteq Copies
    BY DEF MemoryInv, CommitInv
  <2>3. phase \in {"targets", "restore"} => DOMAIN cache \subseteq Sectors
    BY DEF MemoryInv, CommitInv, RestoreInv
  <2>4. phase \in {"clear_primary", "clear_mirror"} => DOMAIN cache \subseteq Copies
    BY DEF MemoryInv, ClearInv, Copies
  <2> QED
    BY <1>1, <1>10, <2>1, <2>2, <2>3, <2>4 DEF Committing
<1>13. EntryInv'
  <2>1. phase \in {"undo", "active"} => \A i \in DOMAIN entries :
           disk'[entries[i].target] = disk[entries[i].target]
    BY <1>8, <1>10, <1>12, Kinds
  <2> QED
    BY <1>2, <1>11, <2>1 DEF MemoryInv, EntryInv, Committing
<1>14. IdleInv'
  BY <1>1, <1>2, <1>11 DEF MemoryInv, IdleInv, Committing, Attaching
<1>15. CommitInv'
  <2>1. Committing => issued /\ ~fsFenced /\ entries # <<>> /\ attempt = NewContent(entries) /\ BothValid
    BY <1>1 DEF MemoryInv, CommitInv
  <2>2. BothValid => BothValid'
    BY <1>7, <1>9
  <2>3. CASE phase = "undo"
    <3>1. OnDisk' = OnDisk
      BY <1>7, <1>12, <2>3, Kinds
    <3>2. \A i \in DOMAIN entries : View'[i] = View[i]
      BY <1>6, <1>10, <2>3, Kinds DEF Committing
    <3>3. /\ BothClean /\ DOMAIN cache \subseteq DOMAIN entries
          /\ \A h \in OnDisk : h.sequence <= sequence
          /\ \A i \in DOMAIN entries : View[i] = entries[i].undo
      BY <2>1, <2>3 DEF MemoryInv, CommitInv, Committing
    <3>4. BothClean'
      BY <2>2, <3>1, <3>3 DEF BothClean
    <3> QED
      BY <1>1, <1>2, <2>1, <2>2, <2>3, <3>1, <3>2, <3>3, <3>4 DEF CommitInv, Committing
  <2>4. CASE phase = "active"
    <3>1. /\ DOMAIN cache \subseteq Copies
          /\ \A i \in DOMAIN entries : disk[i] = entries[i].undo
          /\ \A h \in OnDisk : h = ActiveRecord \/ (h.state = "CLEAN" /\ h.sequence <= sequence)
          /\ \A h \in InCache : h = ActiveRecord
          /\ \A c \in Copies : View[c] = ActiveRecord
      BY <2>1, <2>4 DEF MemoryInv, CommitInv, Committing
    <3>2. \A i \in DOMAIN entries : disk'[i] = entries[i].undo
      BY <1>1, <1>10, <1>12, <2>4, <3>1, Kinds DEF Committing
    <3>3. \A h \in OnDisk' : h = ActiveRecord \/ (h.state = "CLEAN" /\ h.sequence <= sequence)
      BY <1>9, <1>12, <2>4, <3>1
    <3>4. \A c \in Copies : View'[c] = ActiveRecord
      BY <1>6, <3>1, Kinds
    <3>5. \A h \in InCache' : h = ActiveRecord
      BY <1>5, <3>1
    <3> QED
      BY <1>1, <1>2, <1>6, <2>1, <2>2, <2>4, <3>1, <3>2, <3>3, <3>4, <3>5
         DEF CommitInv, Committing
  <2>5. CASE phase = "targets"
    <3>1. /\ DOMAIN cache \subseteq Sectors
          /\ \A h \in OnDisk : h = ActiveRecord
          /\ \A s \in DOMAIN attempt : View[s] = attempt[s]
      BY <2>1, <2>5 DEF MemoryInv, CommitInv, Committing
    <3>2. OnDisk' = OnDisk
      BY <1>7, <1>12, <2>5, Kinds
    <3>3. \A s \in DOMAIN attempt : View'[s] = attempt[s]
      <4>1. DOMAIN attempt \subseteq Sectors
        BY DEF TypeOK
      <4> QED
        BY <1>6, <3>1, <4>1, Kinds
    <3> QED
      BY <1>1, <1>2, <1>6, <2>1, <2>2, <2>5, <3>1, <3>2, <3>3 DEF CommitInv, Committing
  <2>6. CASE phase = "clean"
    <3>1. /\ DOMAIN cache \subseteq Copies
          /\ \A h \in OnDisk : h = ActiveRecord \/ h = CleanRecord
          /\ \A h \in InCache : h = CleanRecord
          /\ \A s \in DOMAIN attempt : disk[s] = attempt[s]
          /\ \A c \in Copies : View[c] = CleanRecord
      BY <2>1, <2>6 DEF MemoryInv, CommitInv, Committing
    <3>2. \A h \in OnDisk' : h = ActiveRecord \/ h = CleanRecord
      BY <1>9, <1>12, <2>6, <3>1
    <3>3. \A s \in DOMAIN attempt : disk'[s] = attempt[s]
      <4>1. DOMAIN attempt \subseteq Sectors
        BY DEF TypeOK
      <4> QED
        BY <1>8, <1>12, <2>6, <3>1, <4>1, Kinds
    <3>4. \A c \in Copies : View'[c] = CleanRecord
      BY <1>6, <3>1, Kinds
    <3>5. \A h \in InCache' : h = CleanRecord
      BY <1>5, <3>1
    <3> QED
      BY <1>1, <1>2, <1>6, <2>1, <2>2, <2>6, <3>1, <3>2, <3>3, <3>4, <3>5
         DEF CommitInv, Committing
  <2>7. CASE ~Committing
    BY <1>2, <2>7 DEF CommitInv, Committing
  <2> QED
    BY <2>3, <2>4, <2>5, <2>6, <2>7 DEF Committing
<1>16. RestoreInv'
  <2> SUFFICES ASSUME phase = "restore" PROVE RestoreInv'
    BY <1>2 DEF RestoreInv
  <2>1. PICK es : es = Selected(disk).entries
    OBVIOUS
  <2>2. /\ entries \in Seq(Entries) /\ entries # <<>>
        /\ DOMAIN entries \subseteq DOMAIN es
        /\ \A i \in DOMAIN entries : entries[i] = es[i]
        /\ \A i \in DOMAIN es \ DOMAIN entries :
              disk[es[i].target] = es[i].undo /\ es[i].target \notin DOMAIN cache
        /\ DOMAIN cache \subseteq Sectors
        /\ issued => View[Last(entries).target] = Last(entries).undo
    BY <2>1 DEF MemoryInv, RestoreInv
  <2>3. Selected(disk').entries = es
    BY <1>7, <1>12, <2>1, Kinds
  <2>4. \A i \in DOMAIN es : es[i].target \in Sectors
    BY <2>1, SelectedFound, RecordFields DEF MediumInv
  <2>5. \A i \in DOMAIN es \ DOMAIN entries :
              disk'[es[i].target] = es[i].undo /\ es[i].target \notin DOMAIN cache'
    BY <1>1, <2>2, <2>4, Kinds
  <2>6. issued => View'[Last(entries).target] = Last(entries).undo
    <3>1. Last(entries).target \in Sectors
      <4>1. Last(entries) \in Entries
        BY <2>2, LastEntry
      <4> QED
        BY <4>1 DEF Entries
    <3> QED
      BY <1>6, <2>2, <3>1, Kinds
  <2> QED
    BY <1>1, <1>2, <2>2, <2>3, <2>5, <2>6 DEF RestoreInv
<1>17. ClearInv'
  <2>1. CASE phase \in {"clear_primary", "clear_mirror"}
    <3>1. /\ \A h \in OnDisk : Undone(h) /\ (h.state = "ACTIVE" => sequence <= h.sequence)
          /\ \A h \in InCache : h = CleanRecord
          /\ issued
      BY <1>1, <2>1 DEF MemoryInv, ClearInv, Attaching
    <3>2. CleanRecord.state = "CLEAN" /\ CleanRecord.entries = <<>> /\ Undone(CleanRecord)
      BY CleanFields DEF Undone
    <3>3. \A h \in OnDisk' : /\ h \in Records /\ Undone(h)
                             /\ h.state = "ACTIVE" => sequence <= h.sequence
      BY <1>9, <1>12, <2>1, <3>1, <3>2, HeaderRecords DEF Headers
    <3>4. \A h \in OnDisk' : Undone(h)'
      BY <1>8, <1>12, <2>1, <3>3, Kinds, RecordFields DEF Undone
    <3>5. phase = "clear_primary" => /\ DOMAIN cache' \subseteq {Primary}
                                     /\ View'[Primary] = CleanRecord
      BY <1>1, <1>6, <3>1, Kinds DEF MemoryInv, ClearInv
    <3>6. phase = "clear_mirror" => /\ DOMAIN cache' \subseteq {Mirror}
                                    /\ View'[Mirror] = CleanRecord
                                    /\ disk'[Primary] = CleanRecord
      BY <1>1, <1>6, <3>1, Kinds DEF MemoryInv, ClearInv
    <3>7. \A h \in InCache' : h = CleanRecord
      BY <1>5, <3>1
    <3> QED
      BY <1>2, <1>6, <2>1, <3>1, <3>3, <3>4, <3>5, <3>6, <3>7 DEF ClearInv
  <2>2. CASE phase = "restore"
    BY <1>2, <1>7, <1>12, <2>2, Kinds DEF MemoryInv, ClearInv, Attaching
  <2>3. CASE ~Attaching
    BY <1>2, <2>3 DEF ClearInv, Attaching
  <2> QED
    BY <2>1, <2>2, <2>3 DEF Attaching
<1> QED
  BY <1>3, <1>4, <1>5, <1>13, <1>14, <1>15, <1>16, <1>17 DEF MemoryInv

\* Power fails: the journal in memory is gone.
LEMMA PowerStep ==
    ASSUME IInv, NEW torn \in SUBSET DOMAIN cache, PowerLoss(torn)
    PROVE  IInv'
<1> USE DEF IInv
<1>1. /\ disk' = [k \in Locations |-> IF k \in torn THEN Torn ELSE disk[k]]
      /\ Cardinality(torn) <= tornLeft /\ tornLeft' = tornLeft - Cardinality(torn)
      /\ cache' = Empty /\ phase' = "off" /\ issued' = FALSE /\ entries' = <<>>
      /\ sequence' = 0 /\ automatic' = FALSE /\ ioError' = FALSE /\ fsFenced' = FALSE
      /\ quarantined' = FALSE /\ attempt' = Empty /\ UNCHANGED environment
  BY DEF PowerLoss
<1>2. DOMAIN Empty = {} /\ Empty \in [{} -> Data]
  BY DEF Empty
<1>3. Separate'
  BY <1>1 DEF Separate
<1>4. TypeOK'
  <2>1. DOMAIN disk' = Locations /\ \A k \in Locations : disk'[k] \in Content(k) \cup {Torn}
    BY <1>1 DEF TypeOK
  <2>2. DOMAIN cache' \subseteq Locations /\ \A k \in DOMAIN cache' : cache'[k] \in Content(k)
    BY <1>1, <1>2
  <2>3. Len(entries') <= MaxEntries /\ Targets' \subseteq Sectors
    BY <1>1, JournalAssumption DEF Targets
  <2>4. sequence' \in 0..(SequenceSpace - 1)
    BY <1>1, JournalAssumption
  <2>5. attempt' \in UNION {[S -> Data] : S \in SUBSET Sectors}
    <3>1. {} \in SUBSET Sectors
      OBVIOUS
    <3> QED
      BY <1>1, <1>2, <3>1
  <2>6. tornLeft' \in 0..MaxTorn
    BY <1>1, OneTorn
  <2> QED
    BY <1>1, <2>1, <2>2, <2>3, <2>4, <2>5, <2>6 DEF TypeOK
<1>5. MediumInv'
  BY PowerMedium
<1>6. EntryInv' /\ IdleInv'
  BY <1>1, <1>2 DEF EntryInv, IdleInv, Committing, Attaching
<1>7. CommitInv' /\ RestoreInv' /\ ClearInv'
  BY <1>1 DEF CommitInv, RestoreInv, ClearInv, Committing, Attaching
<1> QED
  BY <1>3, <1>4, <1>5, <1>6, <1>7 DEF MemoryInv

------------------------------------------------------------------------------
(* Steps that write and flush.                                              *)

\* Every batch is of valid contents.
LEMMA BatchContents ==
    ASSUME IInv, Committing \/ Attaching
    PROVE  DOMAIN Batch \subseteq Locations /\ \A l \in DOMAIN Batch : Batch[l] \in Content(l)
<1> USE DEF IInv
<1>1. \A c \in Copies : Content(c) = Records /\ c \in Locations
  BY Kinds DEF Content
<1>2. \A l \in Slots \cup Sectors : Content(l) = Data /\ l \in Locations
  BY Kinds DEF Content
<1>3. CASE phase = "undo"
  <2>1. DOMAIN entries \subseteq Slots /\ \A i \in DOMAIN entries : entries[i].undo \in Data
    BY <1>3, WriteEntries DEF MemoryInv, EntryInv, Committing
  <2> QED
    BY <1>2, <1>3, <2>1, BatchIs
<1>4. CASE phase = "active"
  <2>1. ActiveRecord \in Records
    BY <1>4, ActiveFields DEF MemoryInv, EntryInv, Committing
  <2> QED
    BY <1>1, <1>4, <2>1, BatchIs
<1>5. CASE phase = "targets"
  <2>1. entries \in Seq(Writes)
    BY <1>5 DEF MemoryInv, EntryInv, Committing
  <2>2. NewContent(entries) \in UNION {[S -> Data] : S \in SUBSET Sectors}
    BY <2>1, NewContents
  <2> QED
    BY <1>2, <1>5, <2>2, BatchIs
<1>6. CASE phase \in {"clean", "clear_primary", "clear_mirror"}
  <2>1. CleanRecord \in Records
    BY CleanFields
  <2> QED
    BY <1>1, <1>6, <2>1, BatchIs, Kinds
<1>7. CASE phase = "restore"
  <2>1. Last(entries) \in Entries
    BY <1>7, LastEntry DEF MemoryInv, RestoreInv
  <2>2. Last(entries).target \in Sectors /\ Last(entries).undo \in Data
    BY <2>1 DEF Entries
  <2> QED
    BY <1>2, <1>7, <2>2, BatchIs
<1> QED
  BY <1>3, <1>4, <1>5, <1>6, <1>7 DEF Committing, Attaching

\* The rest of TypeOK after a write.
LEMMA WriteTypes ==
    ASSUME IInv, Committing \/ Attaching, NEW part \in SUBSET DOMAIN Batch, disk' = disk,
           cache' = Merge(cache, Restrict(Batch, part)) \/ cache' = Merge(cache, Batch)
    PROVE  /\ DOMAIN disk' = Locations /\ \A l \in Locations : disk'[l] \in Content(l) \cup {Torn}
           /\ DOMAIN cache' \subseteq Locations /\ \A l \in DOMAIN cache' : cache'[l] \in Content(l)
<1> USE DEF IInv
<1>1. DOMAIN Batch \subseteq Locations /\ \A l \in DOMAIN Batch : Batch[l] \in Content(l)
  BY BatchContents
<1>2. DOMAIN cache \subseteq Locations /\ \A l \in DOMAIN cache : cache[l] \in Content(l)
  BY DEF TypeOK
<1>3. /\ DOMAIN Restrict(Batch, part) = part
      /\ \A l \in part : Restrict(Batch, part)[l] = Batch[l]
  BY DEF Restrict
<1>4. PICK B : /\ DOMAIN B \subseteq Locations /\ \A l \in DOMAIN B : B[l] \in Content(l)
               /\ cache' = Merge(cache, B)
  BY <1>1, <1>3
<1>5. /\ DOMAIN cache' = DOMAIN cache \cup DOMAIN B
      /\ \A l \in DOMAIN cache' : cache'[l] = IF l \in DOMAIN B THEN B[l] ELSE cache[l]
  BY <1>4 DEF Merge
<1>6. DOMAIN cache' \subseteq Locations /\ \A l \in DOMAIN cache' : cache'[l] \in Content(l)
  BY <1>2, <1>4, <1>5
<1>7. DOMAIN disk' = Locations /\ \A l \in Locations : disk'[l] \in Content(l) \cup {Torn}
  BY DEF TypeOK
<1> QED
  BY <1>6, <1>7

\* The batch of a phase is written.
LEMMA BatchStep ==
    ASSUME IInv, WriteBatch
    PROVE  IInv'
<1> USE DEF IInv
<1>1. /\ (Committing \/ Attaching) /\ ~issued /\ cache' = Merge(cache, Batch) /\ issued' = TRUE
      /\ UNCHANGED <<disk, phase, entries, sequence, automatic, ioError, fsFenced,
                     quarantined, attempt, tornLeft, environment>>
  BY DEF WriteBatch
<1>2. /\ DOMAIN cache' = DOMAIN cache \cup DOMAIN Batch
      /\ \A l \in DOMAIN Batch : cache'[l] = Batch[l]
      /\ \A l \in DOMAIN cache : l \notin DOMAIN Batch => cache'[l] = cache[l]
  BY <1>1 DEF Merge
<1>3. Separate'
  BY <1>1 DEF Separate
<1>4. TypeOK'
  <2>1. /\ DOMAIN disk' = Locations /\ \A l \in Locations : disk'[l] \in Content(l) \cup {Torn}
        /\ DOMAIN cache' \subseteq Locations /\ \A l \in DOMAIN cache' : cache'[l] \in Content(l)
    BY <1>1, WriteTypes
  <2>2. Len(entries') <= MaxEntries /\ Targets' \subseteq Sectors
    BY <1>1 DEF TypeOK, Targets
  <2> QED
    BY <1>1, <2>1, <2>2 DEF TypeOK
<1>5. MediumInv'
  <2>1. DOMAIN Batch \in SUBSET DOMAIN Batch
    OBVIOUS
  <2> QED
    BY <1>1, <1>2, <2>1, WriteMedium
<1>6. /\ ActiveRecord' = ActiveRecord /\ CleanRecord' = CleanRecord
      /\ OnDisk' = OnDisk /\ (BothValid' <=> BothValid) /\ (BothClean' <=> BothClean)
  BY <1>1, FrameRecords DEF OnDisk, BothValid, BothClean
<1>7. DOMAIN Batch \subseteq Locations /\ \A l \in DOMAIN Batch : View'[l] = Batch[l]
  <2>1. DOMAIN Batch \subseteq Locations
    BY <1>1, BatchContents
  <2>2. DOMAIN disk' = Locations
    BY <1>4 DEF TypeOK
  <2> QED
    BY <1>2, <2>1, <2>2 DEF View, Merge
<1>8. EntryInv'
  BY <1>1 DEF MemoryInv, EntryInv, Committing
<1>9. IdleInv'
  BY <1>1 DEF MemoryInv, IdleInv, Committing, Attaching
<1>10. CASE Committing
  <2>1. /\ ~fsFenced /\ entries # <<>> /\ attempt = NewContent(entries) /\ BothValid
        /\ DOMAIN cache = {} /\ DOMAIN cache' = DOMAIN Batch
    BY <1>1, <1>2, <1>10 DEF MemoryInv, CommitInv
  <2>2. entries \in Seq(Writes)
    BY <1>10 DEF MemoryInv, EntryInv
  <2>3. CommitInv'
    <3>1. CASE phase = "undo"
      <4>1. /\ DOMAIN cache' = DOMAIN entries
            /\ \A i \in DOMAIN entries : View'[i] = entries[i].undo
        BY <1>7, <2>1, <3>1, BatchIs
      <4>2. BothClean /\ \A h \in OnDisk : h.sequence <= sequence
        BY <3>1 DEF MemoryInv, CommitInv
      <4> QED
        BY <1>1, <1>6, <2>1, <3>1, <4>1, <4>2 DEF CommitInv
    <3>2. CASE phase = "active"
      <4>1. /\ DOMAIN cache' = Copies
            /\ \A c \in Copies : View'[c] = ActiveRecord /\ cache'[c] = ActiveRecord
        BY <1>2, <1>7, <2>1, <3>2, BatchIs
      <4>2. \A h \in InCache' : h = ActiveRecord
        BY <4>1 DEF InCache
      <4>3. /\ \A i \in DOMAIN entries : disk[i] = entries[i].undo
            /\ \A h \in OnDisk : h = ActiveRecord \/ (h.state = "CLEAN" /\ h.sequence <= sequence)
        BY <3>2 DEF MemoryInv, CommitInv
      <4> QED
        BY <1>1, <1>6, <2>1, <3>2, <4>1, <4>2, <4>3 DEF CommitInv
    <3>3. CASE phase = "targets"
      <4>1. Batch = attempt
        BY <2>1, <3>3, BatchIs
      <4>2. DOMAIN attempt \subseteq Sectors
        BY DEF TypeOK
      <4>3. \A s \in DOMAIN attempt : View'[s] = attempt[s]
        BY <1>7, <4>1
      <4>4. \A h \in OnDisk : h = ActiveRecord
        BY <3>3 DEF MemoryInv, CommitInv
      <4> QED
        BY <1>1, <1>6, <2>1, <3>3, <4>1, <4>2, <4>3, <4>4 DEF CommitInv
    <3>4. CASE phase = "clean"
      <4>1. /\ DOMAIN cache' = Copies
            /\ \A c \in Copies : View'[c] = CleanRecord /\ cache'[c] = CleanRecord
        BY <1>2, <1>7, <2>1, <3>4, BatchIs
      <4>2. \A h \in InCache' : h = CleanRecord
        BY <4>1 DEF InCache
      <4>3. /\ \A s \in DOMAIN attempt : disk[s] = attempt[s]
            /\ \A h \in OnDisk : h = ActiveRecord \/ h = CleanRecord
        BY <3>4 DEF MemoryInv, CommitInv
      <4> QED
        BY <1>1, <1>6, <2>1, <3>4, <4>1, <4>2, <4>3 DEF CommitInv
    <3> QED
      BY <1>10, <3>1, <3>2, <3>3, <3>4 DEF Committing
  <2>4. RestoreInv' /\ ClearInv'
    BY <1>1, <1>10 DEF RestoreInv, ClearInv, Committing, Attaching
  <2> QED
    BY <1>3, <1>4, <1>5, <1>8, <1>9, <2>3, <2>4 DEF MemoryInv
<1>11. CASE Attaching
  <2>1. CommitInv'
    BY <1>1, <1>11 DEF CommitInv, Committing, Attaching
  <2>2. RestoreInv'
    <3> SUFFICES ASSUME phase = "restore" PROVE RestoreInv'
      BY <1>1 DEF RestoreInv
    <3>1. PICK h \in Records : h = Selected(disk) /\ h \in Headers
      BY SelectedFound DEF MediumInv
    <3>2. PICK es : es = h.entries
      OBVIOUS
    <3>3. /\ entries \in Seq(Entries) /\ entries # <<>>
          /\ DOMAIN entries \subseteq DOMAIN es
          /\ \A i \in DOMAIN entries : entries[i] = es[i]
          /\ \A i \in DOMAIN es \ DOMAIN entries :
                disk[es[i].target] = es[i].undo /\ es[i].target \notin DOMAIN cache
          /\ DOMAIN cache \subseteq Sectors
      BY <3>1, <3>2 DEF MemoryInv, RestoreInv
    <3>4. PICK n \in DOMAIN entries : Last(entries) = entries[n] /\ Last(entries) \in Entries
      BY <3>3, LastEntry
    <3>5. /\ Last(entries).target = es[n].target /\ n \in DOMAIN es
          /\ Last(entries).target \in Sectors
      BY <3>3, <3>4 DEF Entries
    <3>6. DOMAIN cache' = DOMAIN cache \cup {Last(entries).target}
      BY <1>2, BatchIs
    <3>7. View'[Last(entries).target] = Last(entries).undo
      BY <1>7, BatchIs
    <3>8. Distinct(es)
      BY <3>1, <3>2 DEF MediumInv, HeaderInv, Intact
    <3>9. \A i \in DOMAIN es \ DOMAIN entries : es[i].target \notin DOMAIN cache'
      BY <3>3, <3>5, <3>6, <3>8 DEF Distinct
    <3>10. Selected(disk)' = h
      BY <1>1, <3>1
    <3>11. DOMAIN cache' \subseteq Sectors
      BY <3>3, <3>5, <3>6
    <3> QED
      BY <1>1, <3>2, <3>3, <3>7, <3>9, <3>10, <3>11 DEF RestoreInv
  <2>3. ClearInv'
    <3>1. \A h \in OnDisk : h.state = "ACTIVE" => sequence <= h.sequence
      BY <1>11 DEF MemoryInv, ClearInv
    <3>2. CASE phase = "restore"
      BY <1>1, <1>6, <3>1, <3>2 DEF ClearInv
    <3>3. CASE phase \in {"clear_primary", "clear_mirror"}
      <4>1. /\ \A h \in OnDisk : Undone(h)
            /\ DOMAIN cache = {}
            /\ phase = "clear_mirror" => disk[Primary] = CleanRecord
        BY <1>1, <3>3 DEF MemoryInv, ClearInv
      <4>2. /\ phase = "clear_primary" => DOMAIN cache' = {Primary}
            /\ phase = "clear_mirror" => DOMAIN cache' = {Mirror}
            /\ \A l \in DOMAIN cache' : cache'[l] = CleanRecord /\ View'[l] = CleanRecord
        BY <1>2, <1>7, <3>3, <4>1, BatchIs
      <4>3. \A h \in InCache' : h = CleanRecord
        BY <4>2 DEF InCache
      <4>4. \A h \in OnDisk : Undone(h)'
        BY <1>1, <4>1 DEF Undone
      <4> QED
        BY <1>1, <1>6, <3>1, <3>3, <4>1, <4>2, <4>3, <4>4 DEF ClearInv
    <3> QED
      BY <1>11, <3>2, <3>3 DEF Attaching
  <2> QED
    BY <1>3, <1>4, <1>5, <1>8, <1>9, <2>1, <2>2, <2>3 DEF MemoryInv
<1> QED
  BY <1>1, <1>10, <1>11

\* A batch fails, of a transaction or of a recovery, after part of it.
LEMMA FailStep ==
    ASSUME IInv, NEW part \in SUBSET Locations, TransactionFails(part) \/ RecoveryFails(part)
    PROVE  IInv'
<1> USE DEF IInv
<1>1. /\ "faults" \in environment /\ (Committing \/ Attaching) /\ part \in SUBSET DOMAIN Batch
      /\ cache' = (IF issued THEN cache ELSE Merge(cache, Restrict(Batch, part)))
      /\ issued' = FALSE /\ entries' = <<>>
      /\ UNCHANGED <<disk, sequence, automatic, ioError, attempt, tornLeft, environment>>
  BY DEF TransactionFails, RecoveryFails
<1>2. \/ /\ Committing /\ phase' = "idle" /\ fsFenced' = TRUE
         /\ quarantined' = (automatic \/ phase = "targets")
      \/ Attaching /\ phase' = "detached" /\ UNCHANGED <<fsFenced, quarantined>>
  BY DEF TransactionFails, RecoveryFails, FenceFilesystem
<1>3. ~issued => /\ DOMAIN cache' = DOMAIN cache \cup part
                 /\ \A l \in part : cache'[l] = Batch[l]
  BY <1>1 DEF Merge, Restrict
<1>4. ~automatic
  BY <1>1 DEF MemoryInv, IdleInv, Separate
<1>5. Separate'
  BY <1>1 DEF Separate
<1>6. TypeOK'
  <2>1. /\ DOMAIN disk' = Locations /\ \A l \in Locations : disk'[l] \in Content(l) \cup {Torn}
        /\ DOMAIN cache' \subseteq Locations /\ \A l \in DOMAIN cache' : cache'[l] \in Content(l)
    <3>1. CASE issued
      BY <1>1, <3>1 DEF TypeOK
    <3>2. CASE ~issued
      BY <1>1, <3>2, WriteTypes
    <3> QED
      BY <3>1, <3>2
  <2>2. Len(entries') <= MaxEntries /\ Targets' \subseteq Sectors
    BY <1>1, JournalAssumption DEF Targets
  <2>3. quarantined' \in BOOLEAN /\ fsFenced' \in BOOLEAN /\ phase' \in {"idle", "detached"}
    BY <1>2 DEF TypeOK
  <2> QED
    BY <1>1, <2>1, <2>2, <2>3 DEF TypeOK
<1>7. MediumInv'
  <2>1. CASE issued
    BY <1>1, <2>1, MediumUnchanged
  <2>2. CASE ~issued
    BY <1>1, <1>3, <2>2, WriteMedium
  <2> QED
    BY <2>1, <2>2
<1>8. EntryInv'
  BY <1>1, <1>2 DEF EntryInv, Committing
<1>9. IdleInv'
  <2>1. CASE Attaching /\ phase' = "detached" /\ UNCHANGED <<fsFenced, quarantined>>
    BY <1>1, <2>1 DEF MemoryInv, IdleInv, Committing, Attaching
  <2>2. CASE /\ Committing /\ phase' = "idle" /\ fsFenced' = TRUE
             /\ quarantined' = (automatic \/ phase = "targets")
    <3>1. quarantined' => DOMAIN cache' \subseteq Sectors
      <4> SUFFICES ASSUME phase = "targets" PROVE DOMAIN cache' \subseteq Sectors
        BY <1>4, <2>2
      <4>1. /\ DOMAIN cache \subseteq Sectors /\ attempt = NewContent(entries)
            /\ DOMAIN attempt \subseteq Sectors
        BY <2>2 DEF MemoryInv, CommitInv, TypeOK
      <4>2. DOMAIN Batch \subseteq Sectors
        BY <4>1, BatchIs
      <4>3. DOMAIN cache' \subseteq DOMAIN cache \cup part
        BY <1>1, <1>3
      <4> QED
        BY <1>1, <4>1, <4>2, <4>3
    <3> QED
      BY <1>1, <1>4, <2>2, <3>1 DEF IdleInv, Committing, Attaching
  <2> QED
    BY <1>2, <2>1, <2>2
<1>10. CommitInv' /\ RestoreInv' /\ ClearInv'
  BY <1>2 DEF CommitInv, RestoreInv, ClearInv, Committing, Attaching
<1> QED
  BY <1>5, <1>6, <1>7, <1>8, <1>9, <1>10 DEF MemoryInv

\* After a flush the medium holds what a read returned before it.
LEMMA FlushReads ==
    ASSUME IInv, Flush
    PROVE  /\ issued /\ issued' = FALSE /\ DOMAIN cache' = {} /\ InCache' = {}
           /\ \A l \in Locations : disk'[l] = View[l]
           /\ \A l \in Locations : l \notin DOMAIN cache => disk'[l] = disk[l]
           /\ DOMAIN disk' = Locations /\ \A l \in Locations : disk'[l] \in Content(l) \cup {Torn}
           /\ DOMAIN cache' \subseteq Locations /\ \A l \in DOMAIN cache' : cache'[l] \in Content(l)
           /\ \A h \in OnDisk' : h = disk'[Primary] \/ h = disk'[Mirror]
           /\ Copies \cap DOMAIN cache = {} =>
                 /\ OnDisk' = OnDisk /\ Selected(disk)' = Selected(disk)
                 /\ BothValid' <=> BothValid
<1> USE DEF IInv
<1>1. issued /\ issued' = FALSE /\ disk' = View /\ DOMAIN cache' = {}
  BY DEF Flush, FlushCache, Empty
<1>2. DOMAIN View = Locations /\ \A l \in Locations : /\ l \in DOMAIN cache => View[l] = cache[l]
                                                      /\ l \notin DOMAIN cache => View[l] = disk[l]
  BY ViewApply
<1>3. \A l \in Locations : disk'[l] \in Content(l) \cup {Torn}
  BY <1>1, <1>2 DEF TypeOK
<1>4. InCache' = {} /\ \A h \in OnDisk' : h = disk'[Primary] \/ h = disk'[Mirror]
  BY <1>1 DEF InCache, OnDisk, Copies
<1>5. ASSUME Copies \cap DOMAIN cache = {}
      PROVE  /\ OnDisk' = OnDisk /\ Selected(disk)' = Selected(disk)
             /\ BothValid' <=> BothValid
  <2>1. \A c \in Copies : disk'[c] = disk[c]
    BY <1>1, <1>2, <1>5, Kinds
  <2> QED
    BY <2>1, Kinds, SelectedKept DEF OnDisk, BothValid
<1> QED
  BY <1>1, <1>2, <1>3, <1>4, <1>5

\* A flush completes a phase and the next one begins.
LEMMA BarrierStep ==
    ASSUME IInv, Barrier
    PROVE  IInv'
<1> USE DEF IInv
<1>1. /\ phase \in {"undo", "active", "targets", "clear_primary"} /\ Flush
      /\ UNCHANGED <<entries, sequence, automatic, ioError, fsFenced, quarantined,
                     attempt, tornLeft, environment>>
  BY DEF Barrier
<1>2. /\ phase = "undo" => phase' = "active"
      /\ phase = "active" => phase' = "targets"
      /\ phase = "targets" => phase' = "clean"
      /\ phase = "clear_primary" => phase' = "clear_mirror"
  BY DEF Barrier, NextPhase
<1>3. /\ issued /\ issued' = FALSE /\ DOMAIN cache' = {} /\ InCache' = {}
      /\ \A l \in Locations : disk'[l] = View[l]
      /\ \A l \in Locations : l \notin DOMAIN cache => disk'[l] = disk[l]
      /\ DOMAIN disk' = Locations /\ \A l \in Locations : disk'[l] \in Content(l) \cup {Torn}
      /\ DOMAIN cache' \subseteq Locations /\ \A l \in DOMAIN cache' : cache'[l] \in Content(l)
      /\ \A h \in OnDisk' : h = disk'[Primary] \/ h = disk'[Mirror]
      /\ Copies \cap DOMAIN cache = {} => OnDisk' = OnDisk /\ (BothValid' <=> BothValid)
  BY <1>1, FlushReads
<1>4. Separate'
  BY <1>1 DEF Separate
<1>5. TypeOK'
  <2>1. Len(entries') <= MaxEntries /\ Targets' \subseteq Sectors
    BY <1>1 DEF TypeOK, Targets
  <2>2. phase' \in {"active", "targets", "clean", "clear_mirror"}
    BY <1>1, <1>2
  <2> QED
    BY <1>1, <1>3, <2>1, <2>2 DEF TypeOK
<1>6. MediumInv'
  BY <1>1, FlushMedium DEF Flush
<1>7. ActiveRecord' = ActiveRecord /\ CleanRecord' = CleanRecord
  BY <1>1, FrameRecords
<1>8. IdleInv'
  BY <1>1, <1>2, <1>3 DEF MemoryInv, IdleInv, Committing, Attaching
<1>9. RestoreInv'
  BY <1>1, <1>2 DEF RestoreInv
<1>10. Committing => /\ ~fsFenced /\ entries # <<>> /\ attempt = NewContent(entries) /\ BothValid
                     /\ entries \in Seq(Writes) /\ Distinct(entries)
                     /\ DOMAIN entries \subseteq Slots
                     /\ \A i \in DOMAIN entries : entries[i].target \in Sectors
  BY WriteEntries DEF MemoryInv, CommitInv, EntryInv
<1>11. CASE phase = "undo"
  <2>1. /\ BothClean /\ DOMAIN cache \subseteq DOMAIN entries
        /\ \A h \in OnDisk : h.sequence <= sequence
        /\ \A i \in DOMAIN entries : View[i] = entries[i].undo
        /\ \A i \in DOMAIN entries : disk[entries[i].target] = entries[i].undo
    BY <1>3, <1>11 DEF MemoryInv, CommitInv, EntryInv
  <2>2. DOMAIN cache \subseteq Slots
    BY <1>10, <1>11, <2>1 DEF Committing
  <2>3. OnDisk' = OnDisk /\ BothValid' /\ \A s \in Sectors : disk'[s] = disk[s]
    BY <1>3, <1>10, <1>11, <2>2, Kinds DEF Committing
  <2>4. EntryInv'
    BY <1>1, <1>2, <1>10, <1>11, <2>1, <2>3 DEF EntryInv, Committing
  <2>5. \A i \in DOMAIN entries : disk'[i] = entries[i].undo
    BY <1>3, <1>10, <1>11, <2>1, Kinds DEF Committing
  <2>6. CommitInv'
    BY <1>1, <1>2, <1>3, <1>10, <1>11, <2>1, <2>3, <2>5 DEF CommitInv, Committing, BothClean
  <2>7. ClearInv'
    BY <1>2, <1>11 DEF ClearInv, Attaching
  <2> QED
    BY <1>4, <1>5, <1>6, <1>8, <1>9, <2>4, <2>6, <2>7 DEF MemoryInv
<1>12. CASE phase = "active"
  <2>1. \A c \in Copies : disk'[c] = ActiveRecord
    BY <1>3, <1>12, Kinds DEF MemoryInv, CommitInv
  <2>2. \A h \in OnDisk' : h = ActiveRecord
    BY <1>3, <2>1, Kinds
  <2>3. BothValid'
    BY <1>10, <1>12, <2>1, Kinds, ActiveFields DEF BothValid, Committing
  <2>4. EntryInv'
    BY <1>1, <1>2, <1>10, <1>12 DEF EntryInv, Committing
  <2>5. CommitInv'
    BY <1>1, <1>2, <1>3, <1>7, <1>10, <1>12, <2>2, <2>3 DEF CommitInv, Committing
  <2>6. ClearInv'
    BY <1>2, <1>12 DEF ClearInv, Attaching
  <2> QED
    BY <1>4, <1>5, <1>6, <1>8, <1>9, <2>4, <2>5, <2>6 DEF MemoryInv
<1>13. CASE phase = "targets"
  <2>1. /\ DOMAIN cache \subseteq Sectors /\ \A h \in OnDisk : h = ActiveRecord
        /\ \A s \in DOMAIN attempt : View[s] = attempt[s]
    BY <1>3, <1>13 DEF MemoryInv, CommitInv
  <2>2. OnDisk' = OnDisk /\ BothValid'
    BY <1>3, <1>10, <1>13, <2>1, Kinds DEF Committing
  <2>3. \A s \in DOMAIN attempt : disk'[s] = attempt[s]
    <3>1. DOMAIN attempt \subseteq Sectors
      BY DEF TypeOK
    <3> QED
      BY <1>3, <2>1, <3>1, Kinds
  <2>4. EntryInv'
    BY <1>1, <1>2, <1>10, <1>13 DEF EntryInv, Committing
  <2>5. CommitInv'
    BY <1>1, <1>2, <1>3, <1>7, <1>10, <1>13, <2>1, <2>2, <2>3 DEF CommitInv, Committing
  <2>6. ClearInv'
    BY <1>2, <1>13 DEF ClearInv, Attaching
  <2> QED
    BY <1>4, <1>5, <1>6, <1>8, <1>9, <2>4, <2>5, <2>6 DEF MemoryInv
<1>14. CASE phase = "clear_primary"
  <2>1. /\ \A h \in OnDisk : Undone(h) /\ (h.state = "ACTIVE" => sequence <= h.sequence)
        /\ DOMAIN cache \subseteq {Primary} /\ View[Primary] = CleanRecord
    BY <1>3, <1>14 DEF MemoryInv, ClearInv, Attaching
  <2>2. entries = <<>>
    BY <1>14 DEF MemoryInv, EntryInv
  <2>3. /\ disk'[Primary] = CleanRecord /\ disk'[Mirror] = disk[Mirror]
        /\ \A s \in Sectors : disk'[s] = disk[s]
    BY <1>3, <2>1, Kinds
  <2>4. CleanRecord.state = "CLEAN" /\ CleanRecord.entries = <<>> /\ Undone(CleanRecord)
        /\ CleanRecord \in Records
    BY CleanFields DEF Undone
  <2>5. \A h \in OnDisk' : h = CleanRecord \/ h \in OnDisk
    BY <2>3 DEF OnDisk, Copies
  <2>6. \A h \in OnDisk' : /\ h \in Records /\ Undone(h)
                           /\ h.state = "ACTIVE" => sequence <= h.sequence
    BY <2>1, <2>4, <2>5, HeaderRecords DEF Headers
  <2>7. \A h \in OnDisk' : Undone(h)'
    BY <2>3, <2>6, RecordFields DEF Undone
  <2>8. ClearInv'
    BY <1>1, <1>2, <1>3, <1>7, <1>14, <2>3, <2>6, <2>7 DEF ClearInv
  <2>9. EntryInv' /\ CommitInv'
    BY <1>1, <1>2, <1>14, <2>2 DEF EntryInv, CommitInv, Committing
  <2> QED
    BY <1>4, <1>5, <1>6, <1>8, <1>9, <2>8, <2>9 DEF MemoryInv
<1> QED
  BY <1>1, <1>11, <1>12, <1>13, <1>14

\* The update of no transaction.
LEMMA EmptyUpdate == Empty \in UNION {[S -> Data] : S \in SUBSET Sectors}
<1>1. Empty \in [{} -> Data] /\ {} \in SUBSET Sectors
  BY DEF Empty
<1> QED
  BY <1>1

\* The CLEAN record is in both headers: the transaction is over.
LEMMA CommittedStep ==
    ASSUME IInv, Committed
    PROVE  IInv'
<1> USE DEF IInv
<1>1. /\ phase = "clean" /\ Flush /\ phase' = "idle" /\ entries' = <<>> /\ attempt' = Empty
      /\ UNCHANGED <<sequence, automatic, ioError, fsFenced, quarantined, tornLeft,
                     environment>>
  BY DEF Committed
<1>2. /\ issued /\ issued' = FALSE /\ DOMAIN cache' = {}
      /\ \A l \in Locations : disk'[l] = View[l]
      /\ DOMAIN disk' = Locations /\ \A l \in Locations : disk'[l] \in Content(l) \cup {Torn}
      /\ DOMAIN cache' \subseteq Locations /\ \A l \in DOMAIN cache' : cache'[l] \in Content(l)
      /\ \A h \in OnDisk' : h = disk'[Primary] \/ h = disk'[Mirror]
  BY <1>1, FlushReads
<1>3. ~fsFenced /\ \A c \in Copies : View[c] = CleanRecord
  BY <1>1, <1>2 DEF MemoryInv, CommitInv, Committing
<1>4. disk'[Primary] = CleanRecord /\ disk'[Mirror] = CleanRecord
  BY <1>2, <1>3, Kinds
<1>5. /\ CleanRecord # Torn /\ CleanRecord.state = "CLEAN"
      /\ CleanRecord.sequence = sequence /\ sequence \in Nat
  BY CleanFields, NextSequences
<1>6. Separate'
  BY <1>1 DEF Separate
<1>7. TypeOK'
  <2>1. Len(entries') <= MaxEntries /\ Targets' \subseteq Sectors
    BY <1>1, JournalAssumption DEF Targets
  <2> QED
    BY <1>1, <1>2, <2>1, EmptyUpdate DEF TypeOK
<1>8. MediumInv'
  BY <1>1, FlushMedium DEF Flush
<1>9. EntryInv'
  BY <1>1 DEF EntryInv, Committing
<1>10. IdleInv'
  <2>1. Quiet'
    BY <1>1, <1>2, <1>4, <1>5 DEF Quiet, BothClean, BothValid
  <2>2. \A h \in OnDisk' : h.sequence <= sequence'
    BY <1>1, <1>2, <1>4, <1>5
  <2> QED
    BY <1>1, <1>2, <1>3, <2>1, <2>2 DEF MemoryInv, IdleInv, Committing, Attaching
<1>11. CommitInv' /\ RestoreInv' /\ ClearInv'
  BY <1>1 DEF CommitInv, RestoreInv, ClearInv, Committing, Attaching
<1> QED
  BY <1>6, <1>7, <1>8, <1>9, <1>10, <1>11 DEF MemoryInv

\* Both headers are CLEAN again: the recovered volume is attached.
LEMMA RecoveredStep ==
    ASSUME IInv, Recovered
    PROVE  IInv'
<1> USE DEF IInv
<1>1. /\ phase = "clear_mirror" /\ Flush /\ phase' = "idle" /\ fsFenced' = FALSE
      /\ quarantined' = FALSE /\ attempt' = Empty /\ tornLeft' = MaxTorn
      /\ UNCHANGED <<entries, sequence, automatic, ioError, environment>>
  BY DEF Recovered, Attached
<1>2. /\ issued /\ issued' = FALSE /\ DOMAIN cache' = {}
      /\ \A l \in Locations : disk'[l] = View[l]
      /\ \A l \in Locations : l \notin DOMAIN cache => disk'[l] = disk[l]
      /\ DOMAIN disk' = Locations /\ \A l \in Locations : disk'[l] \in Content(l) \cup {Torn}
      /\ DOMAIN cache' \subseteq Locations /\ \A l \in DOMAIN cache' : cache'[l] \in Content(l)
      /\ \A h \in OnDisk' : h = disk'[Primary] \/ h = disk'[Mirror]
  BY <1>1, FlushReads
<1>3. /\ disk[Primary] = CleanRecord /\ DOMAIN cache \subseteq {Mirror}
      /\ View[Mirror] = CleanRecord
  BY <1>1, <1>2 DEF MemoryInv, ClearInv
<1>4. disk'[Primary] = CleanRecord /\ disk'[Mirror] = CleanRecord
  BY <1>2, <1>3, Kinds
<1>5. /\ CleanRecord # Torn /\ CleanRecord.state = "CLEAN"
      /\ CleanRecord.sequence = sequence /\ sequence \in Nat
  BY CleanFields, NextSequences
<1>6. entries = <<>>
  BY <1>1 DEF MemoryInv, EntryInv
<1>7. Separate'
  BY <1>1 DEF Separate
<1>8. TypeOK'
  <2>1. Len(entries') <= MaxEntries /\ Targets' \subseteq Sectors
    BY <1>1 DEF TypeOK, Targets
  <2>2. MaxTorn \in 0..MaxTorn
    BY JournalAssumption
  <2> QED
    BY <1>1, <1>2, <2>1, <2>2, EmptyUpdate DEF TypeOK
<1>9. MediumInv'
  <2>1. View[Primary] # Torn /\ View[Mirror] # Torn
    BY <1>2, <1>4, <1>5, Kinds
  <2> QED
    BY <1>1, <2>1, FlushMedium DEF Flush
<1>10. EntryInv'
  BY <1>1, <1>6 DEF EntryInv, Committing
<1>11. IdleInv'
  <2>1. Quiet'
    BY <1>1, <1>2, <1>4, <1>5 DEF Quiet, BothClean, BothValid
  <2>2. \A h \in OnDisk' : h.sequence <= sequence'
    BY <1>1, <1>2, <1>4, <1>5
  <2> QED
    BY <1>1, <1>2, <2>1, <2>2 DEF MemoryInv, IdleInv, Committing, Attaching
<1>12. CommitInv' /\ RestoreInv' /\ ClearInv'
  BY <1>1 DEF CommitInv, RestoreInv, ClearInv, Committing, Attaching
<1> QED
  BY <1>7, <1>8, <1>9, <1>10, <1>11, <1>12 DEF MemoryInv

\* One more sector has its old content back.
LEMMA RestoredStep ==
    ASSUME IInv, Restored
    PROVE  IInv'
<1> USE DEF IInv
<1>1. /\ phase = "restore" /\ Flush /\ entries' = Front(entries)
      /\ Len(entries) = 1 => phase' = "clear_primary"
      /\ Len(entries) # 1 => phase' = "restore"
      /\ UNCHANGED <<sequence, automatic, ioError, fsFenced, quarantined, attempt,
                     tornLeft, environment>>
  BY DEF Restored
<1>2. phase' \in {"clear_primary", "restore"}
  BY <1>1
<1>3. PICK h \in Records : h = Selected(disk) /\ h \in OnDisk /\ h \in Headers
  BY SelectedFound DEF MediumInv
<1>4. /\ entries \in Seq(Entries) /\ entries # <<>> /\ DOMAIN entries \subseteq DOMAIN h.entries
      /\ \A i \in DOMAIN entries : entries[i] = h.entries[i]
      /\ \A i \in DOMAIN h.entries \ DOMAIN entries :
            disk[h.entries[i].target] = h.entries[i].undo /\ h.entries[i].target \notin DOMAIN cache
      /\ DOMAIN cache \subseteq Sectors
      /\ issued => View[Last(entries).target] = Last(entries).undo
  BY <1>1, <1>3 DEF MemoryInv, RestoreInv
<1>5. Copies \cap DOMAIN cache = {}
  BY <1>4, Kinds
<1>6. /\ issued /\ issued' = FALSE /\ DOMAIN cache' = {} /\ InCache' = {}
      /\ \A l \in Locations : disk'[l] = View[l]
      /\ \A l \in Locations : l \notin DOMAIN cache => disk'[l] = disk[l]
      /\ DOMAIN disk' = Locations /\ \A l \in Locations : disk'[l] \in Content(l) \cup {Torn}
      /\ DOMAIN cache' \subseteq Locations /\ \A l \in DOMAIN cache' : cache'[l] \in Content(l)
      /\ OnDisk' = OnDisk /\ Selected(disk)' = Selected(disk)
  BY <1>1, <1>5, FlushReads
<1>7. /\ Len(entries) \in DOMAIN entries /\ Last(entries) = entries[Len(entries)]
      /\ Front(entries) \in Seq(Entries) /\ Len(Front(entries)) = Len(entries) - 1
      /\ DOMAIN Front(entries) = DOMAIN entries \ {Len(entries)}
      /\ \A i \in DOMAIN Front(entries) : Front(entries)[i] = entries[i]
      /\ Len(entries) = 1 => Front(entries) = <<>>
      /\ Len(entries) # 1 => Front(entries) # <<>>
  BY <1>4, LastEntry
<1>8. \A i \in DOMAIN h.entries : h.entries[i].target \in Sectors
  BY RecordFields
<1>9. \A i \in DOMAIN h.entries \ DOMAIN entries' : disk'[h.entries[i].target] = h.entries[i].undo
  <2> SUFFICES ASSUME NEW i \in DOMAIN h.entries \ DOMAIN entries'
               PROVE  disk'[h.entries[i].target] = h.entries[i].undo
    OBVIOUS
  <2>1. CASE i = Len(entries)
    <3>1. Last(entries) = h.entries[i]
      BY <1>4, <1>7, <2>1
    <3> QED
      BY <1>4, <1>6, <1>8, <3>1, Kinds
  <2>2. CASE i \notin DOMAIN entries
    BY <1>4, <1>6, <1>8, <2>2, Kinds
  <2> QED
    BY <1>1, <1>7, <2>1, <2>2
<1>10. Separate'
  BY <1>1 DEF Separate
<1>11. TypeOK'
  <2>1. Len(entries') <= MaxEntries
    <3>1. Len(entries) \in Nat /\ Len(entries) <= MaxEntries
      BY <1>4 DEF TypeOK
    <3> QED
      BY <1>1, <1>7, <3>1, JournalAssumption
  <2>2. Targets' \subseteq Sectors
    <3>1. \A i \in DOMAIN entries' : entries'[i].target \in Sectors
      BY <1>1, <1>4, <1>7, <1>8
    <3> QED
      BY <3>1 DEF Targets
  <2> QED
    BY <1>1, <1>2, <1>6, <2>1, <2>2 DEF TypeOK
<1>12. MediumInv'
  BY <1>1, FlushMedium DEF Flush
<1>13. EntryInv'
  BY <1>1, <1>2, <1>7 DEF EntryInv, Committing
<1>14. IdleInv'
  BY <1>1, <1>2 DEF MemoryInv, IdleInv, Committing, Attaching
<1>15. CommitInv'
  BY <1>2 DEF CommitInv, Committing
<1>16. RestoreInv'
  <2>1. phase' = "restore" => /\ entries' \in Seq(Entries) /\ entries' # <<>>
                              /\ DOMAIN entries' \subseteq DOMAIN h.entries
                              /\ \A i \in DOMAIN entries' : entries'[i] = h.entries[i]
    BY <1>1, <1>4, <1>7
  <2>2. h = Selected(disk)'
    BY <1>3, <1>6
  <2> QED
    BY <1>6, <1>9, <2>1, <2>2 DEF RestoreInv
<1>17. ClearInv'
  <2>1. \A g \in OnDisk : g.state = "ACTIVE" => sequence <= g.sequence
    BY <1>1 DEF MemoryInv, ClearInv, Attaching
  <2>2. CASE Len(entries) = 1
    <3>1. entries' = <<>> /\ phase' = "clear_primary"
      BY <1>1, <1>7, <2>2
    <3>2. \A g \in OnDisk : g.state = "CLEAN" => g.entries = <<>>
      BY DEF MediumInv, HeaderInv, Headers
    <3>3. \A g \in OnDisk : g.state = "ACTIVE" => g = h
      BY <1>3, ActiveSelected DEF MediumInv
    <3>4. \A g \in OnDisk : g.state \in {"CLEAN", "ACTIVE"}
      BY HeaderRecords, RecordFields DEF Headers
    <3>5. Undone(h)'
      BY <1>9, <3>1 DEF Undone
    <3>6. \A g \in OnDisk' : Undone(g)'
      <4>1. \A g : g.entries = <<>> => Undone(g)'
        BY DEF Undone
      <4> QED
        BY <1>6, <3>2, <3>3, <3>4, <3>5, <4>1
    <3> QED
      BY <1>1, <1>6, <2>1, <3>1, <3>6 DEF ClearInv
  <2>3. CASE Len(entries) # 1
    BY <1>1, <1>6, <2>1, <2>3 DEF ClearInv
  <2> QED
    BY <2>2, <2>3
<1> QED
  BY <1>10, <1>11, <1>12, <1>13, <1>14, <1>15, <1>16, <1>17 DEF MemoryInv

------------------------------------------------------------------------------
(* The volumes a system starts with.                                        *)

\* An image has one kind of header record, whose undo sector is in place.
LEMMA ImageHeaders ==
    ASSUME Init
    PROVE  /\ disk[Primary] \in Records /\ disk[Primary] # Torn
           /\ disk[Mirror] = disk[Primary] \/ (disk[Mirror] = Torn /\ tornLeft = 0)
           /\ disk[Mirror] # Torn => disk[Primary].version = 2
           /\ \/ disk[Primary].state = "CLEAN" /\ disk[Primary].entries = <<>>
              \/ /\ disk[Primary].state = "ACTIVE" /\ DOMAIN disk[Primary].entries = {1}
                 /\ disk[1] = disk[Primary].entries[1].undo
           /\ DOMAIN disk = Locations /\ \A l \in Slots \cup Sectors : disk[l] \in Data
           /\ tornLeft \in 0..MaxTorn
<1>1. PICK content \in Data, old \in Data, s \in Sectors :
          \/ disk = Image(content, content, Clean(2), Clean(2)) /\ tornLeft = MaxTorn
          \/ disk = Image(content, content, Clean(1), Torn) /\ tornLeft = 0
          \/ disk = Image(content, old, LegacyActive(s, old), Torn) /\ tornLeft = 0
  BY DEF Init
<1>2. ASSUME NEW c, NEW f, NEW p, NEW m, disk = Image(c, f, p, m)
      PROVE  /\ DOMAIN disk = Locations /\ disk[Primary] = p /\ disk[Mirror] = m
             /\ \A l \in Slots \cup Sectors : disk[l] = c \/ disk[l] = f
             /\ disk[1] = f
  <2>1. 1 \in Slots
    BY JournalAssumption DEF Slots
  <2> QED
    BY <1>2, <2>1, Kinds DEF Image
<1>3. ASSUME NEW v \in 1..2
      PROVE  /\ Clean(v) \in Records /\ Clean(v) # Torn
             /\ Clean(v).version = v /\ Clean(v).state = "CLEAN" /\ Clean(v).entries = <<>>
  <2>1. Clean(v).version = v /\ Clean(v).state = "CLEAN" /\ Clean(v).entries = <<>>
    BY DEF Clean
  <2>2. 0 \in 0..(SequenceSpace - 1) /\ <<>> \in Seq(Entries)
    BY JournalAssumption
  <2>3. Clean(v) \in Records
    BY <2>2 DEF Clean, Records
  <2> QED
    BY <2>1, <2>3, TornAssumption
<1>4. /\ LegacyActive(s, old) \in Records /\ LegacyActive(s, old) # Torn
      /\ LegacyActive(s, old).state = "ACTIVE" /\ DOMAIN LegacyActive(s, old).entries = {1}
      /\ LegacyActive(s, old).entries[1].undo = old
  <2> DEFINE e == [target |-> s, undo |-> old]
  <2>1. e \in Entries /\ e.undo = old
    BY DEF Entries
  <2>2. /\ LegacyActive(s, old) = [version |-> 1, state |-> "ACTIVE", sequence |-> 0,
                                   entries |-> <<e>>]
    BY DEF LegacyActive
  <2> HIDE DEF e
  <2>3. <<e>> \in Seq(Entries) /\ DOMAIN <<e>> = {1} /\ <<e>>[1] = e
    BY <2>1
  <2>4. 0 \in 0..(SequenceSpace - 1) /\ 1 \in 1..2
    BY JournalAssumption
  <2>5. LegacyActive(s, old) \in Records
    BY <2>2, <2>3, <2>4 DEF Records
  <2> QED
    BY <2>1, <2>2, <2>3, <2>5, TornAssumption
<1>5. 0 \in 0..MaxTorn /\ MaxTorn \in 0..MaxTorn
  BY JournalAssumption
<1>6. CASE disk = Image(content, content, Clean(2), Clean(2)) /\ tornLeft = MaxTorn
  <2>1. 2 \in 1..2
    OBVIOUS
  <2>2. /\ DOMAIN disk = Locations /\ disk[Primary] = Clean(2) /\ disk[Mirror] = Clean(2)
        /\ \A l \in Slots \cup Sectors : disk[l] = content
    BY <1>2, <1>6
  <2> QED
    BY <1>3, <1>5, <1>6, <2>1, <2>2
<1>7. CASE disk = Image(content, content, Clean(1), Torn) /\ tornLeft = 0
  <2>1. 1 \in 1..2
    OBVIOUS
  <2>2. /\ DOMAIN disk = Locations /\ disk[Primary] = Clean(1) /\ disk[Mirror] = Torn
        /\ \A l \in Slots \cup Sectors : disk[l] = content
    BY <1>2, <1>7
  <2> QED
    BY <1>3, <1>5, <1>7, <2>1, <2>2
<1>8. CASE disk = Image(content, old, LegacyActive(s, old), Torn) /\ tornLeft = 0
  <2>1. /\ DOMAIN disk = Locations /\ disk[Primary] = LegacyActive(s, old)
        /\ disk[Mirror] = Torn /\ disk[1] = old
        /\ \A l \in Slots \cup Sectors : disk[l] = content \/ disk[l] = old
    BY <1>2, <1>8
  <2> QED
    BY <1>4, <1>5, <1>8, <2>1
<1> QED
  BY <1>1, <1>6, <1>7, <1>8

\* The invariant holds initially.
LEMMA InitStep ==
    ASSUME Init, Separate
    PROVE  IInv
<1> DEFINE p == disk[Primary]
<1>1. /\ p \in Records /\ p # Torn
      /\ disk[Mirror] = p \/ (disk[Mirror] = Torn /\ tornLeft = 0)
      /\ disk[Mirror] # Torn => p.version = 2
      /\ \/ p.state = "CLEAN" /\ p.entries = <<>>
         \/ p.state = "ACTIVE" /\ DOMAIN p.entries = {1} /\ disk[1] = p.entries[1].undo
      /\ DOMAIN disk = Locations /\ \A l \in Slots \cup Sectors : disk[l] \in Data
      /\ tornLeft \in 0..MaxTorn
  BY ImageHeaders
<1>2. /\ cache = Empty /\ phase = "off" /\ issued = FALSE /\ entries = <<>> /\ sequence = 0
      /\ automatic = FALSE /\ ioError = FALSE /\ fsFenced = FALSE /\ quarantined = FALSE
      /\ attempt = Empty /\ environment \in Environments
  BY DEF Init
<1>3. DOMAIN cache = {} /\ InCache = {}
  BY <1>2 DEF Empty, InCache
<1>4. \A h \in Headers : h = p
  BY <1>1, <1>3 DEF Headers, OnDisk, Copies
<1>5. TypeOK
  <2>1. \A l \in Locations : disk[l] \in Content(l) \cup {Torn}
    BY <1>1 DEF Content, Locations, Copies
  <2>2. Len(entries) <= MaxEntries /\ Targets \subseteq Sectors
    BY <1>2, JournalAssumption DEF Targets
  <2>3. sequence \in 0..(SequenceSpace - 1)
    BY <1>2, JournalAssumption
  <2> QED
    BY <1>1, <1>2, <1>3, <2>1, <2>2, <2>3, EmptyUpdate DEF TypeOK
<1>6. Intact(p)
  <2>1. 1 \in Slots
    BY JournalAssumption DEF Slots
  <2> QED
    BY <1>1, <1>3, <2>1 DEF Intact, Distinct
<1>7. HeaderInv
  <2>1. p.state = "CLEAN" => p.entries = <<>>
    BY <1>1
  <2>2. p.sequence \in Nat
    BY <1>1, RecordFields
  <2> QED
    BY <1>4, <1>6, <2>1, <2>2 DEF HeaderInv
<1>8. VersionInv /\ SpareInv
  BY <1>1, <1>3 DEF VersionInv, SpareInv
<1>9. SectorInv /\ HeaderWriteInv
  BY <1>1, <1>3, TornAssumption DEF SectorInv, HeaderWriteInv
<1>10. MemoryInv
  BY <1>2, <1>3 DEF MemoryInv, EntryInv, IdleInv, CommitInv, RestoreInv, ClearInv,
                    Committing, Attaching
<1> QED
  BY <1>5, <1>7, <1>8, <1>9, <1>10 DEF IInv, MediumInv

\* Nothing happens.
LEMMA StutterStep ==
    ASSUME IInv, UNCHANGED vars
    PROVE  IInv'
<1> USE DEF IInv
<1>1. UNCHANGED <<disk, cache, phase, issued, entries, sequence, automatic, ioError, fsFenced,
                  quarantined, attempt, tornLeft, environment>>
  BY DEF vars, memory
<1>2. Separate' /\ TypeOK'
  BY <1>1 DEF Separate, TypeOK, Targets
<1>3. MediumInv'
  BY <1>1, MediumUnchanged
<1>4. /\ OnDisk' = OnDisk /\ InCache' = InCache /\ View' = View
      /\ ActiveRecord' = ActiveRecord /\ CleanRecord' = CleanRecord
      /\ BothValid' <=> BothValid
      /\ BothClean' <=> BothClean
      /\ \A h : Undone(h)' <=> Undone(h)
      /\ Selected(disk)' = Selected(disk)
  BY <1>1, FrameMedium, FrameRecords
<1>5. Quiet' <=> Quiet
  BY <1>1, <1>4 DEF Quiet
<1>6. EntryInv' /\ IdleInv'
  BY <1>1, <1>4, <1>5 DEF MemoryInv, EntryInv, IdleInv, Committing, Attaching
<1>7. CommitInv'
  BY <1>1, <1>4 DEF MemoryInv, CommitInv, Committing
<1>8. RestoreInv' /\ ClearInv'
  BY <1>1, <1>4 DEF MemoryInv, RestoreInv, ClearInv, Attaching
<1> QED
  BY <1>2, <1>3, <1>6, <1>7, <1>8 DEF MemoryInv

------------------------------------------------------------------------------
(* The invariant, and what follows from it.                                 *)

\* Every step keeps the invariant.
LEMMA NextStep ==
    ASSUME IInv, [Next]_vars
    PROVE  IInv'
<1>1. CASE AttachClean
  BY <1>1, AttachCleanStep
<1>2. CASE AttachRecover
  BY <1>2, AttachRecoverStep
<1>3. CASE WriteBatch
  BY <1>3, BatchStep
<1>4. CASE Barrier
  BY <1>4, BarrierStep
<1>5. CASE Committed
  BY <1>5, CommittedStep
<1>6. CASE Restored
  BY <1>6, RestoredStep
<1>7. CASE Recovered
  BY <1>7, RecoveredStep
<1>8. CASE MutationBegin
  BY <1>8, BeginStep
<1>9. CASE MutationAbort
  BY <1>9, AbortStep
<1>10. CASE MutationCommit
  BY <1>10, CommitStep
<1>11. ASSUME NEW s \in Sectors, NEW d \in Data,
              WriteSector(s, d) \/ WriteSectorFails(s, d) \/ RawWrite(s, d)
       PROVE  IInv'
  BY <1>11, WriteStep, RawStep
<1>12. CASE RawWriteFails
  BY <1>12, RawFailsStep
<1>13. CASE AttachRefused
  BY <1>13, RefusedStep
<1>14. ASSUME NEW part \in SUBSET Locations, TransactionFails(part) \/ RecoveryFails(part)
       PROVE  IInv'
  BY <1>14, FailStep
<1>15. ASSUME NEW l \in Locations, Destage(l)
       PROVE  IInv'
  BY <1>15, DestageStep
<1>16. CASE PowerCut
  <2>1. PICK torn \in SUBSET DOMAIN cache : PowerLoss(torn)
    BY <1>16 DEF PowerCut
  <2> QED
    BY <2>1, PowerStep
<1>17. CASE UNCHANGED vars
  BY <1>17, StutterStep
<1> QED
  BY <1>1, <1>2, <1>3, <1>4, <1>5, <1>6, <1>7, <1>8, <1>9, <1>10, <1>11, <1>12, <1>13, <1>14,
     <1>15, <1>16, <1>17 DEF Next, Progress

\* The inductive invariant: what the headers, the undo sectors and the targets hold, on
\* the medium and in the drive's cache, at every point of a transaction (transaction_end)
\* and of a recovery (ata_undo_journal_attach).
THEOREM JournalInvariant == Spec /\ Separate => []IInv
<1>1. Init /\ Separate => IInv
  BY InitStep
<1>2. IInv /\ [Next]_vars => IInv'
  BY NextStep
<1> QED
  BY <1>1, <1>2, PTL DEF Spec

\* Every variable of the journal and of the drive keeps its type.
THEOREM JournalTypes == Spec /\ Separate => []TypeOK
<1>1. IInv => TypeOK
  BY DEF IInv
<1> QED
  BY <1>1, JournalInvariant, PTL

\* ata_undo_journal_attach never has to refuse the volume: whatever the drive has written
\* back so far, one header is good and the undo sectors it names are intact.
THEOREM VolumeRecoverable == Spec /\ Separate => []AlwaysRecoverable
<1>1. IInv => AlwaysRecoverable
  BY Recoverable DEF IInv
<1> QED
  BY <1>1, JournalInvariant, PTL

\* Nothing is to be undone: a mount would find what is on the medium.
LEMMA NothingToUndo ==
    ASSUME Selected(disk).entries = <<>>
    PROVE  Durable = [s \in Sectors |-> disk[s]]
<1>1. DOMAIN Selected(disk).entries = {}
  OBVIOUS
<1> QED
  BY <1>1 DEF Durable

\* A file system that may write reads, outside of its open transaction, the content a
\* mount would find after a power cut.
THEOREM FileSystemServesDurable == Spec /\ Separate => []ServesDurable
<1>1. IInv => ServesDurable
  <2> SUFFICES ASSUME IInv, phase \in {"idle", "open"}, ~fsFenced
               PROVE  [s \in Sectors |-> View[s]] = Durable
    BY DEF ServesDurable
  <2>1. Quiet
    BY DEF IInv, MemoryInv, IdleInv
  <2>2. /\ \A s \in Sectors : View[s] = disk[s]
        /\ Selected(disk).entries = <<>>
    BY <2>1, QuietReads DEF IInv
  <2> QED
    BY <2>2, NothingToUndo
<1> QED
  BY <1>1, JournalInvariant, PTL

------------------------------------------------------------------------------
(* The journal implements an atomic volume.                                 *)

\* A mount restores the targets of the selected record and keeps the other sectors.
LEMMA DurableApply ==
    ASSUME TypeOK, MediumInv
    PROVE  /\ DOMAIN Durable = Sectors /\ Durable \in [Sectors -> Data]
           /\ \A s \in Sectors : s \notin TargetsOf(Selected(disk).entries) => Durable[s] = disk[s]
           /\ Undone(Selected(disk)) => Durable = [s \in Sectors |-> disk[s]]
<1> DEFINE es == Selected(disk).entries
<1>1. Durable = [s \in Sectors |-> IF \E i \in DOMAIN es : es[i].target = s
                                   THEN es[CHOOSE i \in DOMAIN es : es[i].target = s].undo
                                   ELSE disk[s]]
  BY DEF Durable
<1>2. \A i \in DOMAIN es : es[i].undo \in Data /\ es[i].target \in Sectors
  BY SelectedFound, RecordFields DEF MediumInv
<1> HIDE DEF es
<1>3. ASSUME NEW s \in Sectors, NEW k \in DOMAIN es, es[k].target = s
      PROVE  \E i \in DOMAIN es : es[i].target = s /\ Durable[s] = es[i].undo
  <2>1. PICK i : i = CHOOSE j \in DOMAIN es : es[j].target = s
    OBVIOUS
  <2>2. i \in DOMAIN es /\ es[i].target = s
    BY <1>3, <2>1
  <2>3. Durable[s] = es[i].undo
    BY <1>1, <1>3, <2>1
  <2> QED
    BY <2>2, <2>3
<1>4. ASSUME NEW s \in Sectors, s \notin TargetsOf(es)
      PROVE  Durable[s] = disk[s]
  BY <1>1, <1>4 DEF TargetsOf
<1>5. ASSUME NEW s \in Sectors
      PROVE  Durable[s] \in Data
  <2>1. CASE s \in TargetsOf(es)
    BY <1>2, <1>3, <2>1 DEF TargetsOf
  <2>2. CASE s \notin TargetsOf(es)
    <3>1. disk[s] # Torn
      BY <2>2 DEF MediumInv, SectorInv, es
    <3> QED
      BY <1>4, <2>2, <3>1, Contents
  <2> QED
    BY <2>1, <2>2
<1>6. ASSUME Undone(Selected(disk)), NEW s \in Sectors
      PROVE  Durable[s] = disk[s]
  <2>1. \A i \in DOMAIN es : disk[es[i].target] = es[i].undo
    BY <1>6 DEF Undone, es
  <2>2. CASE s \in TargetsOf(es)
    BY <1>3, <2>1, <2>2 DEF TargetsOf
  <2> QED
    BY <1>4, <2>2
<1>7. DOMAIN Durable = Sectors /\ Durable = [s \in Sectors |-> Durable[s]]
  BY <1>1
<1>8. Durable \in [Sectors -> Data]
  BY <1>5, <1>7
<1>9. Undone(Selected(disk)) => Durable = [s \in Sectors |-> disk[s]]
  BY <1>6, <1>7
<1> QED
  BY <1>4, <1>7, <1>8, <1>9 DEF es

\* The same, of any state of the invariant.
LEMMA SelectedThen ==
    IInv => /\ Selected(disk) \in OnDisk /\ Selected(disk) \in Records
            /\ Undone(Selected(disk)) => Durable = [s \in Sectors |-> disk[s]]
BY SelectedFound, DurableApply DEF IInv, MediumInv

\* The content of the volume with the transaction under way applied to it.
LEMMA WrittenApply ==
    ASSUME TypeOK
    PROVE  /\ Atomic!Written(attempt) = [s \in Sectors |-> IF s \in DOMAIN attempt THEN attempt[s]
                                                                                   ELSE Durable[s]]
           /\ attempt = Empty /\ MediumInv => Atomic!Written(attempt) = Durable
<1>1. Atomic!Written(attempt) = [s \in Sectors |-> IF s \in DOMAIN attempt THEN attempt[s]
                                                                           ELSE Durable[s]]
  BY DEF Atomic!Written
<1>2. attempt = Empty /\ MediumInv => Atomic!Written(attempt) = Durable
  <2>1. DOMAIN Empty = {}
    BY DEF Empty
  <2>2. MediumInv => DOMAIN Durable = Sectors /\ Durable = [s \in Sectors |-> Durable[s]]
    BY DurableApply
  <2> QED
    BY <1>1, <2>1, <2>2
<1> QED
  BY <1>1, <1>2

\* Once the sectors have their new content the transaction has happened, whichever
\* header a mount finds.
LEMMA WrittenFinished ==
    ASSUME TypeOK, MediumInv, \A s \in DOMAIN attempt : disk[s] = attempt[s],
           TargetsOf(Selected(disk).entries) \subseteq DOMAIN attempt
    PROVE  Atomic!Written(attempt) = [s \in Sectors |-> disk[s]]
<1>1. \A s \in Sectors : s \notin DOMAIN attempt => Durable[s] = disk[s]
  BY DurableApply
<1> QED
  BY <1>1, WrittenApply

\* What the drive does, and what a power cut leaves, is nothing or the whole transaction.
LEMMA MediumStep ==
    ASSUME IInv, IInv', \A l \in Locations : l \notin DOMAIN cache => disk'[l] = disk[l],
           OnDisk' \subseteq Headers
    PROVE  Durable' \in {Durable, Atomic!Written(attempt)}
<1> USE DEF IInv
<1>1. ASSUME Selected(disk') = Selected(disk),
             \A s \in Sectors : s \notin TargetsOf(Selected(disk).entries) => disk'[s] = disk[s]
      PROVE  Durable' = Durable
  BY <1>1 DEF Durable, TargetsOf
<1>2. CASE Copies \cap DOMAIN cache = {}
  <2>1. disk'[Primary] = disk[Primary] /\ disk'[Mirror] = disk[Mirror]
    BY <1>2, Kinds
  <2>2. Selected(disk') = Selected(disk)
    BY <2>1, SelectedKept
  <2>3. \A s \in Sectors : s \notin TargetsOf(Selected(disk).entries) => disk'[s] = disk[s]
    BY Kinds DEF MediumInv, SectorInv
  <2> QED
    BY <1>1, <2>2, <2>3
<1>3. CASE Copies \cap DOMAIN cache # {}
  <2>1. \A s \in Sectors : disk'[s] = disk[s]
    BY <1>3, Kinds DEF MediumInv, SectorInv
  <2>2. Selected(disk) \in OnDisk /\ Selected(disk) \in Headers /\ Selected(disk) \in Records
    BY SelectedFound DEF MediumInv
  <2>3. /\ (Selected(disk) \in OnDisk)' /\ (Selected(disk) \in Records)'
        /\ Undone(Selected(disk))' => Durable' = [s \in Sectors |-> disk'[s]]
    <3>1. (IInv => /\ Selected(disk) \in OnDisk /\ Selected(disk) \in Records
                   /\ Undone(Selected(disk)) => Durable = [s \in Sectors |-> disk[s]])'
      BY SelectedThen, PTL
    <3> QED
      BY <3>1
  <2>4. Selected(disk') \in Headers /\ Selected(disk') \in Records
    BY <2>3
  <2>5. Undone(Selected(disk')) => Durable' = [s \in Sectors |-> disk[s]]
    <3>1. Undone(Selected(disk')) => Undone(Selected(disk))'
      BY <2>1, <2>4, RecordFields DEF Undone
    <3> QED
      BY <2>1, <2>3, <3>1
  <2>6. CASE \A h \in Headers : Undone(h)
    <3>1. Durable = [s \in Sectors |-> disk[s]]
      BY <2>2, <2>6, DurableApply
    <3> QED
      BY <2>4, <2>5, <2>6, <3>1
  <2>7. CASE Finishing
    <3>1. Atomic!Written(attempt) = [s \in Sectors |-> disk[s]]
      BY <2>2, <2>7, WrittenFinished DEF Finishing
    <3>2. CASE Selected(disk').state = "ACTIVE"
      <4>1. Selected(disk') \in OnDisk
        BY <2>4, <2>7, <3>2 DEF Finishing, Headers
      <4>2. Selected(disk) = Selected(disk')
        BY <3>2, <4>1, ActiveSelected DEF MediumInv
      <4> QED
        BY <1>1, <2>1, <4>2
    <3>3. CASE Selected(disk').state = "CLEAN"
      <4>1. Selected(disk').entries = <<>>
        BY <2>4, <3>3 DEF MediumInv, HeaderInv
      <4>2. Undone(Selected(disk'))
        BY <4>1 DEF Undone
      <4> QED
        BY <2>5, <3>1, <4>2
    <3> QED
      BY <2>4, <3>2, <3>3, RecordFields
  <2> QED
    BY <1>3, <2>6, <2>7 DEF MediumInv, HeaderWriteInv
<1> QED
  BY <1>2, <1>3

\* A step of the atomic volume, or none.
AtomicStep == [Atomic!Next]_<<Durable, attempt, Status>>

\* The status of a transaction, before and after a step.
LEMMA Statuses ==
    /\ phase = "off" => Status = "down"
    /\ phase # "off" /\ attempt = Empty => Status = "idle"
    /\ phase # "off" /\ attempt # Empty /\ Committing => Status = "committing"
    /\ phase # "off" /\ attempt # Empty /\ ~Committing => Status = "uncertain"
    /\ phase' = "off" => Status' = "down"
    /\ phase' # "off" /\ attempt' = Empty => Status' = "idle"
    /\ phase' # "off" /\ attempt' # Empty /\ Committing' => Status' = "committing"
    /\ phase' # "off" /\ attempt' # Empty /\ ~Committing' => Status' = "uncertain"
    /\ phase' = phase /\ attempt' = attempt => Status' = Status
BY DEF Status, Committing

\* A mount would find the same as before.
LEMMA DurableKept ==
    ASSUME disk' = disk
    PROVE  Durable' = Durable
BY DEF Durable

\* The steps of the atomic volume.
LEMMA Simulated ==
    ASSUME \/ UNCHANGED <<Durable, attempt, Status>>
           \/ /\ Status = "idle" /\ Status' = "committing" /\ Durable' = Durable
              /\ attempt' \in UNION {[S -> Data] : S \in SUBSET Sectors}
           \/ /\ Status \in {"committing", "uncertain"} /\ UNCHANGED <<attempt, Status>>
              /\ Durable' = Atomic!Written(attempt)
           \/ /\ Status = "committing" /\ Status' = "idle" /\ attempt' = Empty
              /\ Durable' = Atomic!Written(attempt)
           \/ /\ Status = "committing" /\ Status' = "uncertain"
              /\ UNCHANGED <<Durable, attempt>>
           \/ /\ Status = "uncertain" /\ Status' = "idle" /\ attempt' = Empty
              /\ Durable' \in {Durable, Atomic!Written(attempt)}
           \/ /\ Status' = "down" /\ attempt' = Empty
              /\ Durable' \in {Durable, Atomic!Written(attempt)}
           \/ /\ Status = "down" /\ Status' = "idle" /\ UNCHANGED <<Durable, attempt>>
    PROVE  AtomicStep
<1>1. Empty = Atomic!NoUpdate
  BY DEF Empty, Atomic!NoUpdate
<1> QED
  BY <1>1 DEF AtomicStep, Atomic!Next, Atomic!Submit, Atomic!Updates, Atomic!TakeEffect,
              Atomic!Acknowledge, Atomic!Fail, Atomic!Settle, Atomic!Cut, Atomic!Restart

\* A step of the journal that writes nothing to the medium and begins or ends nothing.
LEMMA InnerStep ==
    ASSUME disk' = disk, attempt' = attempt, phase # "off", phase' # "off",
           \/ attempt = Empty
           \/ (Committing' <=> Committing)
    PROVE  AtomicStep
<1>1. Durable' = Durable
  BY DurableKept
<1>2. Status' = Status
  BY Statuses DEF Committing
<1> QED
  BY <1>1, <1>2, Simulated

\* A transaction begins to be written.
LEMMA SubmitStep ==
    ASSUME IInv, MutationCommit \/ \E s \in Sectors, d \in Data : RawWrite(s, d)
    PROVE  AtomicStep
<1> USE DEF IInv
<1>1. disk' = disk /\ phase \in {"idle", "open"}
  BY DEF MutationCommit, RawWrite
<1>2. attempt = Empty
  <2>1. CASE MutationCommit
    BY <2>1 DEF MutationCommit, MemoryInv, IdleInv, Quiet
  <2>2. CASE \E s \in Sectors, d \in Data : RawWrite(s, d)
    <3>1. phase = "idle" /\ ~quarantined /\ "maintenance" \in environment
      BY <2>2 DEF RawWrite
    <3>2. ~fsFenced
      BY <3>1 DEF MemoryInv, IdleInv, Separate
    <3> QED
      BY <3>1, <3>2 DEF MemoryInv, IdleInv, Quiet
  <2> QED
    BY <2>1, <2>2
<1>3. CASE MutationCommit /\ entries = <<>>
  <2>1. attempt' = attempt /\ phase' = "idle" /\ phase = "open"
    BY <1>3 DEF MutationCommit
  <2> QED
    BY <1>1, <1>2, <2>1, InnerStep
<1>4. ASSUME phase' = "undo", NEW es \in Seq(Writes), es # <<>>, attempt' = NewContent(es)
      PROVE  AtomicStep
  <2>1. attempt' # Empty /\ attempt' \in UNION {[S -> Data] : S \in SUBSET Sectors}
    BY <1>4, NewContents
  <2>2. Status = "idle"
    BY <1>1, <1>2, Statuses
  <2>3. Status' = "committing"
    BY <1>4, <2>1, Statuses DEF Committing
  <2>4. Durable' = Durable
    BY <1>1, DurableKept
  <2> QED
    BY <2>1, <2>2, <2>3, <2>4, Simulated
<1>5. CASE MutationCommit /\ entries # <<>>
  <2>1. /\ phase = "open" /\ phase' = "undo" /\ attempt' = NewContent(entries)
    BY <1>5 DEF MutationCommit
  <2>2. entries \in Seq(Writes)
    BY <2>1 DEF MemoryInv, EntryInv
  <2> QED
    BY <1>4, <1>5, <2>1, <2>2
<1>6. ASSUME NEW s \in Sectors, NEW d \in Data, RawWrite(s, d)
      PROVE  AtomicStep
  <2>1. /\ phase' = "undo" /\ entries' = <<NewEntry(s, d)>> /\ attempt' = NewContent(entries')
    BY <1>6 DEF RawWrite
  <2>2. entries' \in Seq(Writes) /\ entries' # <<>>
    <3>1. IInv'
      BY <1>6, RawStep
    <3> QED
      BY <2>1, <3>1 DEF MemoryInv, EntryInv, Committing
  <2> QED
    BY <1>4, <2>1, <2>2
<1> QED
  BY <1>3, <1>5, <1>6

\* An attach, or its refusal.
LEMMA AttachStep ==
    ASSUME IInv, AttachRefused \/ AttachClean \/ AttachRecover
    PROVE  AtomicStep
<1> USE DEF IInv
<1>1. /\ disk' = disk /\ AttachDue
      /\ phase' \in {"detached", "idle", "clear_primary", "restore"}
      /\ attempt' = attempt \/ attempt' = Empty
  BY DEF AttachRefused, AttachClean, AttachRecover, Attached
<1>2. Durable' = Durable
  BY <1>1, DurableKept
<1>3. phase' # "off" /\ ~Committing' /\ ~Committing
  BY <1>1 DEF Committing, AttachDue
<1>4. CASE phase = "off"
  <2>1. attempt = Empty
    BY <1>4 DEF MemoryInv, IdleInv
  <2> QED
    BY <1>1, <1>2, <1>3, <1>4, <2>1, Statuses, Simulated
<1>5. CASE phase # "off" /\ attempt' = attempt
  BY <1>1, <1>3, <1>5, InnerStep
<1>6. CASE phase # "off" /\ attempt # Empty /\ attempt' = Empty
  BY <1>1, <1>2, <1>3, <1>6, Statuses, Simulated
<1> QED
  BY <1>1, <1>4, <1>5, <1>6

\* A transaction or a recovery fails.
LEMMA FailureStep ==
    ASSUME IInv, NEW part \in SUBSET Locations, TransactionFails(part) \/ RecoveryFails(part)
    PROVE  AtomicStep
<1> USE DEF IInv
<1>1. CASE TransactionFails(part)
  <2>1. Committing /\ phase' = "idle" /\ UNCHANGED <<disk, attempt>>
    BY <1>1 DEF TransactionFails
  <2>2. attempt # Empty
    BY <2>1, NewContents DEF MemoryInv, CommitInv, EntryInv
  <2>3. phase # "off" /\ ~Committing'
    BY <2>1 DEF Committing
  <2>4. Status = "committing" /\ Status' = "uncertain"
    BY <2>1, <2>2, <2>3, Statuses
  <2> QED
    BY <2>1, <2>4, DurableKept, Simulated
<1>2. CASE RecoveryFails(part)
  <2>1. Attaching /\ phase' = "detached" /\ UNCHANGED <<disk, attempt>>
    BY <1>2 DEF RecoveryFails
  <2>2. phase # "off" /\ ~Committing /\ ~Committing'
    BY <2>1 DEF Committing, Attaching
  <2> QED
    BY <2>1, <2>2, InnerStep
<1> QED
  BY <1>1, <1>2

\* What the drive writes back is nothing, or the transaction under way.
LEMMA WriteBackStep ==
    ASSUME IInv, IInv', UNCHANGED <<attempt, Status>>,
           \A l \in Locations : l \notin DOMAIN cache => disk'[l] = disk[l],
           OnDisk' \subseteq Headers
    PROVE  AtomicStep
<1> USE DEF IInv
<1>1. Durable' \in {Durable, Atomic!Written(attempt)}
  BY MediumStep
<1>2. CASE attempt = Empty
  <2>1. Durable' = Durable
    BY <1>1, <1>2, WrittenApply
  <2> QED
    BY <2>1, Simulated
<1>3. CASE attempt # Empty
  <2>1. phase # "off"
    BY <1>3 DEF MemoryInv, IdleInv
  <2>2. Status \in {"committing", "uncertain"}
    BY <1>3, <2>1, Statuses
  <2> QED
    BY <1>1, <2>2, Simulated
<1> QED
  BY <1>2, <1>3

\* A flush that completes a phase of a transaction or of a recovery.
LEMMA PhaseStep ==
    ASSUME IInv, Barrier \/ Restored
    PROVE  AtomicStep
<1>1. IInv'
  BY BarrierStep, RestoredStep
<1>2. /\ Flush /\ attempt' = attempt
      /\ phase # "off" /\ phase' # "off"
      /\ Committing' <=> Committing
  BY DEF Barrier, Restored, NextPhase, Committing
<1>3. \A l \in Locations : l \notin DOMAIN cache => disk'[l] = disk[l]
  BY <1>2, FlushReads
<1>4. OnDisk' \subseteq Headers
  <2>1. tornLeft' = tornLeft
    BY DEF Barrier, Restored
  <2> QED
    BY <1>2, <2>1, FlushMedium DEF Flush, IInv
<1>5. Status' = Status
  BY <1>2, Statuses
<1> QED
  BY <1>1, <1>2, <1>3, <1>4, <1>5, WriteBackStep

\* While the file system may write, a mount would find what is on the medium.
LEMMA QuietThen ==
    IInv /\ phase \in {"idle", "open"} /\ ~fsFenced => Durable = [s \in Sectors |-> disk[s]]
<1> SUFFICES ASSUME IInv, phase \in {"idle", "open"}, ~fsFenced
             PROVE  Durable = [s \in Sectors |-> disk[s]]
  OBVIOUS
<1>1. Quiet
  BY DEF IInv, MemoryInv, IdleInv
<1> QED
  BY <1>1, QuietReads, NothingToUndo DEF IInv

\* A committed transaction is on the medium.
LEMMA AcknowledgeStep ==
    ASSUME IInv, Committed
    PROVE  AtomicStep
<1>1. IInv'
  BY CommittedStep
<1> USE DEF IInv
<1>2. phase = "clean" /\ Flush /\ phase' = "idle" /\ attempt' = Empty /\ fsFenced' = fsFenced
  BY DEF Committed
<1>3. /\ ~fsFenced /\ entries # <<>> /\ attempt = NewContent(entries) /\ entries \in Seq(Writes)
      /\ DOMAIN cache \subseteq Copies
      /\ \A h \in OnDisk : h = ActiveRecord \/ h = CleanRecord
      /\ \A s \in DOMAIN attempt : disk[s] = attempt[s]
  BY <1>2 DEF MemoryInv, CommitInv, EntryInv, Committing
<1>4. attempt # Empty /\ DOMAIN attempt = TargetsOf(entries)
  BY <1>3, NewContents
<1>5. TargetsOf(Selected(disk).entries) \subseteq DOMAIN attempt
  <2>1. Selected(disk) \in OnDisk
    BY SelectedFound DEF MediumInv
  <2>2. CASE Selected(disk) = CleanRecord
    BY <2>2, CleanFields DEF TargetsOf
  <2>3. CASE Selected(disk) = ActiveRecord
    BY <1>3, <1>4, <2>3, ActiveFields DEF TargetsOf
  <2> QED
    BY <1>3, <2>1, <2>2, <2>3
<1>6. Atomic!Written(attempt) = [s \in Sectors |-> disk[s]]
  BY <1>3, <1>5, WrittenFinished
<1>7. \A s \in Sectors : disk'[s] = disk[s]
  BY <1>2, <1>3, Kinds, FlushReads
<1>8. Durable' = [s \in Sectors |-> disk'[s]]
  <2>1. (IInv /\ phase \in {"idle", "open"} /\ ~fsFenced => Durable = [s \in Sectors |-> disk[s]])'
    BY QuietThen, PTL
  <2> QED
    BY <1>1, <1>2, <1>3, <2>1
<1>9. Durable' = Atomic!Written(attempt)
  BY <1>6, <1>7, <1>8
<1>10. Status = "committing" /\ Status' = "idle"
  BY <1>2, <1>4, Statuses DEF Committing
<1> QED
  BY <1>2, <1>9, <1>10, Simulated

\* A recovery settles what had failed before it.
LEMMA SettleStep ==
    ASSUME IInv, Recovered
    PROVE  AtomicStep
<1>1. IInv'
  BY RecoveredStep
<1>2. phase = "clear_mirror" /\ Flush /\ phase' = "idle" /\ attempt' = Empty
  BY DEF Recovered, Attached
<1>3. \A l \in Locations : l \notin DOMAIN cache => disk'[l] = disk[l]
  BY <1>2, FlushReads
<1>4. OnDisk' \subseteq Headers
  <2>1. disk' = View /\ \A c \in Copies : View[c] # Torn => View[c] \in Headers
    <3>1. \A c \in Copies : c \in DOMAIN cache => View[c] = cache[c]
      BY ViewApply, Kinds DEF IInv
    <3>2. \A c \in Copies : c \notin DOMAIN cache => View[c] = disk[c]
      BY ViewApply, Kinds DEF IInv
    <3> QED
      BY <1>2, <3>1, <3>2, HeaderRecords DEF Flush, FlushCache, IInv
  <2> QED
    BY <2>1 DEF OnDisk
<1>5. Durable' \in {Durable, Atomic!Written(attempt)}
  BY <1>1, <1>3, <1>4, MediumStep
<1>6. CASE attempt = Empty
  <2>1. Durable' = Durable
    BY <1>5, <1>6, WrittenApply DEF IInv
  <2>2. Status' = Status
    BY <1>2, <1>6, Statuses
  <2> QED
    BY <1>2, <1>6, <2>1, <2>2, Simulated
<1>7. CASE attempt # Empty
  <2>1. Status = "uncertain" /\ Status' = "idle"
    BY <1>2, <1>7, Statuses DEF Committing
  <2> QED
    BY <1>2, <1>5, <2>1, Simulated
<1> QED
  BY <1>6, <1>7

\* A power cut leaves the transaction under way as a whole or not at all.
LEMMA CutStep ==
    ASSUME IInv, NEW torn \in SUBSET DOMAIN cache, PowerLoss(torn)
    PROVE  AtomicStep
<1>1. IInv'
  BY PowerStep
<1>2. /\ disk' = [l \in Locations |-> IF l \in torn THEN Torn ELSE disk[l]]
      /\ phase' = "off" /\ attempt' = Empty
  BY DEF PowerLoss
<1>3. \A l \in Locations : l \notin DOMAIN cache => disk'[l] = disk[l]
  BY <1>2
<1>4. OnDisk' \subseteq Headers
  <2>1. \A c \in Copies : disk'[c] # Torn => disk'[c] = disk[c]
    BY <1>2, Kinds
  <2> QED
    BY <2>1 DEF OnDisk, Headers
<1>5. Durable' \in {Durable, Atomic!Written(attempt)}
  BY <1>1, <1>3, <1>4, MediumStep
<1>6. Status' = "down"
  BY <1>2, Statuses
<1> QED
  BY <1>2, <1>5, <1>6, Simulated

\* The drive writes a sector back.
LEMMA DriveStep ==
    ASSUME IInv, NEW l \in Locations, Destage(l)
    PROVE  AtomicStep
<1>1. IInv'
  BY DestageStep
<1>2. /\ disk' = [disk EXCEPT ![l] = cache[l]] /\ l \in DOMAIN cache
      /\ UNCHANGED <<phase, attempt>>
  BY DEF Destage, memory
<1>3. \A k \in Locations : k \notin DOMAIN cache => disk'[k] = disk[k]
  BY <1>2 DEF IInv, TypeOK
<1>4. OnDisk' \subseteq Headers
  BY DestageMedium DEF IInv, Headers
<1>5. Status' = Status
  BY <1>2, Statuses
<1> QED
  BY <1>1, <1>2, <1>3, <1>4, <1>5, WriteBackStep

\* Every step of the journal and of the drive is a step of the atomic volume, or none.
LEMMA RefinementStep ==
    ASSUME IInv, [Next]_vars
    PROVE  AtomicStep
<1> USE DEF IInv
<1>1. CASE AttachClean \/ AttachRecover \/ AttachRefused
  BY <1>1, AttachStep
<1>2. CASE WriteBatch \/ RawWriteFails \/ UNCHANGED vars
  <2>1. UNCHANGED <<disk, attempt, phase>>
    BY <1>2 DEF WriteBatch, RawWriteFails, vars, memory
  <2> QED
    BY <2>1, DurableKept, Statuses, Simulated
<1>3. CASE Barrier \/ Restored
  BY <1>3, PhaseStep
<1>4. CASE Committed
  BY <1>4, AcknowledgeStep
<1>5. CASE Recovered
  BY <1>5, SettleStep
<1>6. CASE MutationBegin \/ MutationAbort
  <2>1. /\ UNCHANGED <<disk, attempt>> /\ phase \in {"idle", "open"} /\ phase' \in {"idle", "open"}
    BY <1>6 DEF MutationBegin, MutationAbort
  <2>2. ~Committing /\ ~Committing' /\ phase # "off" /\ phase' # "off"
    BY <2>1 DEF Committing
  <2> QED
    BY <2>1, <2>2, InnerStep
<1>7. CASE MutationCommit
  BY <1>7, SubmitStep
<1>8. ASSUME NEW s \in Sectors, NEW d \in Data,
             WriteSector(s, d) \/ WriteSectorFails(s, d) \/ RawWrite(s, d)
      PROVE  AtomicStep
  <2>1. CASE RawWrite(s, d)
    BY <2>1, SubmitStep
  <2>2. CASE WriteSector(s, d) \/ WriteSectorFails(s, d)
    <3>1. UNCHANGED <<disk, attempt, phase>>
      BY <2>2 DEF WriteSector, WriteSectorFails
    <3> QED
      BY <3>1, DurableKept, Statuses, Simulated
  <2> QED
    BY <1>8, <2>1, <2>2
<1>9. ASSUME NEW part \in SUBSET Locations, TransactionFails(part) \/ RecoveryFails(part)
      PROVE  AtomicStep
  BY <1>9, FailureStep
<1>10. ASSUME NEW l \in Locations, Destage(l)
       PROVE  AtomicStep
  BY <1>10, DriveStep
<1>11. CASE PowerCut
  <2>1. PICK torn \in SUBSET DOMAIN cache : PowerLoss(torn)
    BY <1>11 DEF PowerCut
  <2> QED
    BY <2>1, CutStep
<1> QED
  BY <1>1, <1>2, <1>3, <1>4, <1>5, <1>6, <1>7, <1>8, <1>9, <1>10, <1>11 DEF Next, Progress

\* The journal implements the atomic volume: the sectors of a transaction become durable
\* all at once or not at all, a transaction that was reported as committed is durable, and
\* one that failed or was cut off is settled as a whole by the next attach.
THEOREM TransactionsAtomic == Spec /\ Separate => AtomicTransactions
<1>1. Init /\ Separate => Atomic!Init
  <2> SUFFICES ASSUME Init, Separate PROVE Atomic!Init
    OBVIOUS
  <2>1. IInv
    BY InitStep
  <2>2. Durable \in [Sectors -> Data]
    BY <2>1, DurableApply DEF IInv
  <2>3. phase = "off" /\ attempt = Empty
    BY DEF Init
  <2>4. Status = "down"
    BY <2>3, Statuses
  <2> QED
    BY <2>2, <2>3, <2>4 DEF Atomic!Init, Atomic!NoUpdate, Empty
<1>2. IInv /\ [Next]_vars => [Atomic!Next]_<<Durable, attempt, Status>>
  BY RefinementStep DEF AtomicStep
<1> QED
  BY <1>1, <1>2, JournalInvariant, PTL DEF Spec, AtomicTransactions, Atomic!Spec
=============================================================================
