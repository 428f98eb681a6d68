--------------------------- MODULE LocalSyncProofs --------------------------
(***************************************************************************)
(* SafeInv is an invariant of LocalSync for every tree, every set of jobs  *)
(* and every number of faults and runs; OldOrNew and DeletesSpareOffered   *)
(* follow from it.  DelayInv and LimitInv strengthen it further, for the   *)
(* promises of --delay-updates (DelayHolds) and of --max-delete and the    *)
(* protect rules (DeletesWithinLimits).                                    *)
(***************************************************************************)
EXTENDS LocalSync, ReceiverTreeProofs

\* OldOrNew of the tree g.
Keeps(g) ==
    ~o.inPlace =>
      \A p \in entries :
        FileOffered(p) /\ FileBefore(p) =>
          /\ g[p].kind = "file"
          /\ g[p].data \in {snapshot[p].data, Src(p).data}

\* The staging files of the tree g.
Holds(g) ==
    \A p \in staged : /\ g[StageOf[p]].kind = "file"
                      /\ g[StageOf[p]].data = Src(p).data

Safe(g) == GoodTree(g) /\ Keeps(g)

-----------------------------------------------------------------------------
(* Facts about the job and the paths                                       *)

\* What JobAssumption and ApartAssumption say of the current job.
LEMMA JobFacts ==
    ASSUME TypeOK
    PROVE  /\ GoodTree(job.src)
           /\ o \in Options
           /\ job.selected \in SUBSET Path
           /\ Dest \subseteq Path
           /\ \A p \in Dest : BackupOf[p] \in Path /\ StageOf[p] \in Path
           /\ \A p \in Dest : ~Exists(job.src, BackupOf[p])
           /\ \A p \in Path : Src(p) \in Node
<1>1. job \in Jobs
  BY DEF TypeOK
<1>2. job \in [src : Tree, options : Options, selected : SUBSET Path,
               filter : [Path -> {"include", "exclude", "hide", "protect"}]]
  BY <1>1, JobAssumption
<1>3. GoodTree(job.src)
  BY <1>1, <1>2, JobAssumption DEF GoodTree
<1>4. o \in Options /\ job.selected \in SUBSET Path
  BY <1>2 DEF o
<1>5. \A p \in Dest : BackupOf[p] \in Path /\ StageOf[p] \in Path
  BY JobAssumption
<1>6. \A p \in Dest : ~Exists(job.src, BackupOf[p])
  BY <1>1, ApartAssumption
<1>7. \A p \in Path : Src(p) \in Node
  BY <1>2 DEF Src, Tree
<1> QED
  BY <1>3, <1>4, <1>5, <1>6, <1>7, TreeAssumption

\* Staging places are apart from the source, from backups and each other.
LEMMA StageFacts ==
    ASSUME TypeOK, NEW p \in Dest, Src(p).kind = "file"
    PROVE  /\ \A r \in SelfAndAbove(StageOf[p]) : ~Exists(job.src, r)
           /\ \A q \in Dest : BackupOf[q] # StageOf[p]
           /\ \A q \in Dest : Src(q).kind = "file" /\ StageOf[q] = StageOf[p] => p = q
BY ApartAssumption DEF TypeOK, Src

\* A place where nothing of the source is, is no entry.
LEMMA EntryFacts ==
    ASSUME TypeOK, ParentsOffered, NEW p \in entries
    PROVE  /\ p \in Dest /\ p \in Path
           /\ Exists(job.src, p)
           /\ \A q \in Dest : p # BackupOf[q]
           /\ \A q \in Dest : Src(q).kind = "file" => p \notin SelfAndAbove(StageOf[q])
           /\ \A q \in Dest : Src(q).kind = "file" => StageOf[q] \notin SelfAndUnder(p)
<1>1. p \in Dest /\ p \in Path /\ Exists(job.src, p)
  BY TreeAssumption DEF TypeOK, ParentsOffered
<1>2. \A q \in Dest : p # BackupOf[q]
  BY <1>1, JobFacts
<1>3. \A q \in Dest : Src(q).kind = "file" => p \notin SelfAndAbove(StageOf[q])
  BY <1>1, StageFacts
<1>4. \A q \in Dest : Src(q).kind = "file" => StageOf[q] \notin SelfAndUnder(p)
  BY <1>1, <1>3, JobFacts, AboveFacts DEF SelfAndAbove, SelfAndUnder
<1> QED
  BY <1>1, <1>2, <1>3, <1>4

\* Nothing offered lies at or below a path that is planned for deletion.
LEMMA PlanApart ==
    ASSUME TypeOK, ParentsOffered, NEW p \in plan
    PROVE  p \in Dest /\ p \in Path /\ SelfAndUnder(p) \cap entries = {}
<1>1. p \in Dest /\ p \in Path /\ p \notin entries
  BY TreeAssumption DEF TypeOK
<1>2. ASSUME NEW q \in Under[p], q \in entries
      PROVE  FALSE
  <2>1. q \in Path /\ p \in Above(q)
    BY <1>1, AboveFacts
  <2>2. p \in entries
    BY <1>1, <1>2, <2>1 DEF ParentsOffered
  <2> QED
    BY <1>1, <2>2
<1> QED
  BY <1>1, <1>2 DEF SelfAndUnder

\* Nothing offered lies below an offered path that is no directory.
LEMMA LeafApart ==
    ASSUME TypeOK, ParentsOffered, NEW p \in entries, Src(p).kind # "dir"
    PROVE  Under[p] \cap entries = {}
<1>1. SUFFICES ASSUME NEW q \in Under[p], q \in entries
               PROVE  FALSE
  OBVIOUS
<1>2. p \in Path /\ q \in Path /\ p \in Above(q) /\ Exists(job.src, q)
  BY <1>1, EntryFacts, AboveFacts
<1>3. job.src[p].kind = "dir"
  BY <1>2, JobFacts DEF GoodTree, WellFormed
<1> QED
  BY <1>3 DEF Src

-----------------------------------------------------------------------------
(* Operations on safe trees                                                *)

\* A change that leaves every file but the one at p alone is safe when p is
\* no file that OldOrNew speaks about.
LEMMA SpareSafe ==
    ASSUME TypeOK, ParentsOffered, NEW f, Safe(f), NEW g, GoodTree(g), NEW p,
           SparesFiles(f, g, p),
           p \in entries => ~(FileOffered(p) /\ FileBefore(p))
    PROVE  Safe(g)
<1>1. \A q \in entries : q \in Path
  BY EntryFacts
<1> QED
  BY <1>1 DEF Safe, Keeps, SparesFiles

\* The same for the removal of what is at and below p.
LEMMA OutsideSafe ==
    ASSUME TypeOK, ParentsOffered, NEW f, Safe(f), NEW g, GoodTree(g), NEW p,
           \A q \in Path \ SelfAndUnder(p) : g[q] = f[q],
           \A q \in entries \cap SelfAndUnder(p) : ~(FileOffered(q) /\ FileBefore(q))
    PROVE  Safe(g)
<1>1. \A q \in entries : q \in Path
  BY EntryFacts
<1> QED
  BY <1>1 DEF Safe, Keeps

\* A change that leaves every file but the one at p alone leaves the staging
\* files alone when p is none of them.
LEMMA SpareHolds ==
    ASSUME TypeOK, StagingOK, NEW f, Holds(f), NEW g, NEW p, SparesFiles(f, g, p),
           \A q \in staged : StageOf[q] # p
    PROVE  Holds(g)
<1>1. \A q \in staged : q \in Dest /\ StageOf[q] \in Path
  BY JobFacts DEF TypeOK
<1> QED
  BY <1>1 DEF Holds, SparesFiles

\* backup_receiver_file is safe and leaves the staging files alone.
LEMMA BackupSafe ==
    ASSUME TypeOK, ParentsOffered, StagingOK, NEW p \in Dest, NEW f, Safe(f),
           CanBackup(f, p)
    PROVE  /\ Safe(Backup(f, p))
           /\ Holds(f) => Holds(Backup(f, p))
           /\ SparesFiles(f, Backup(f, p), BackupOf[p])
<1> DEFINE b == BackupOf[p]
           n == File(f[p].data, Now)
<1>1. CASE ~NeedsBackup(f, p)
  BY <1>1 DEF Backup, SparesFiles
<1>2. CASE NeedsBackup(f, p)
  <2>1. b \in Path /\ p \in Path /\ GoodTree(f)
    BY JobFacts DEF Safe
  <2>2. f[p].data \in Data \cup {Torn}
    BY <2>1 DEF GoodTree, Tree, Node
  <2>3. n \in Node
    BY <2>2, NodeFacts
  <2>4. CanPut(f, b) /\ Backup(f, p) = Put(f, b, n)
    BY <1>2 DEF CanBackup, Backup
  <2> HIDE DEF n
  <2>5. GoodTree(Backup(f, p)) /\ SparesFiles(f, Backup(f, p), b)
    BY <2>1, <2>3, <2>4, PutGood
  <2>6. b \notin entries
    BY EntryFacts
  <2>7. \A q \in staged : StageOf[q] # b
    BY StageFacts DEF StagingOK, TypeOK
  <2>8. Safe(Backup(f, p))
    BY <2>5, <2>6, SpareSafe
  <2>9. Holds(f) => Holds(Backup(f, p))
    BY <2>5, <2>7, SpareHolds
  <2> QED
    BY <2>5, <2>8, <2>9
<1> QED
  BY <1>1, <1>2

\* backup_receiver_file removes nothing.
LEMMA BackupKeeps ==
    ASSUME TypeOK, NEW p \in Dest, CanBackup(fs, p), NEW q \in Path, Exists(fs, q)
    PROVE  Exists(Backup(fs, p), q)
<1>1. CASE ~NeedsBackup(fs, p)
  BY <1>1 DEF Backup
<1>2. CASE NeedsBackup(fs, p)
  <2>1. BackupOf[p] \in Path /\ fs \in [Path -> Node]
    BY JobFacts DEF TypeOK, Tree
  <2>2. Backup(fs, p) = Put(fs, BackupOf[p], File(fs[p].data, Now))
    BY <1>2 DEF Backup
  <2>3. \A r \in Path : Put(fs, BackupOf[p], File(fs[p].data, Now))[r]
                          \in {fs[r], Dir, File(fs[p].data, Now)}
    BY <2>1 DEF Put, MakeParents
  <2> QED
    BY <2>2, <2>3 DEF Exists, Dir, File
<1> QED
  BY <1>1, <1>2

\* What backup_receiver_file may leave when it is cut short.
LEMMA MaybeBackedUpSafe ==
    ASSUME TypeOK, ParentsOffered, StagingOK, Safe(fs), NEW p \in Dest,
           NEW g \in MaybeBackedUp(p)
    PROVE  Safe(g) /\ (Holds(fs) => Holds(g))
BY BackupSafe DEF MaybeBackedUp

\* A deletion, complete or cut short, is safe.
LEMMA HalfDeletedSafe ==
    ASSUME TypeOK, ParentsOffered, StagingOK, Safe(fs), NEW p \in plan,
           NEW g \in HalfDeleted(p)
    PROVE  Safe(g) /\ (\A q \in entries : Exists(fs, q) => Exists(g, q))
<1>1. p \in Dest /\ p \in Path /\ SelfAndUnder(p) \cap entries = {} /\ GoodTree(fs)
  BY PlanApart DEF Safe
<1>2. CASE g \in PartlyRemoved(fs, p)
  <2>1. GoodTree(g) /\ \A q \in Path \ SelfAndUnder(p) : g[q] = fs[q]
    BY <1>1, <1>2, PartlyRemovedGood
  <2>2. Safe(g)
    BY <1>1, <2>1, OutsideSafe
  <2>3. \A q \in entries : Exists(fs, q) => Exists(g, q)
    BY <1>1, <2>1, EntryFacts DEF Exists
  <2> QED
    BY <2>2, <2>3
<1>3. CASE g \in MaybeBackedUp(p)
  <2>1. CASE g = fs
    BY <2>1
  <2>2. CASE CanBackup(fs, p) /\ g = Backup(fs, p)
    BY <1>1, <2>2, BackupSafe, BackupKeeps, EntryFacts
  <2> QED
    BY <1>3, <2>1, <2>2 DEF MaybeBackedUp
<1> QED
  BY <1>2, <1>3 DEF HalfDeleted, MaybeBackedUp

\* delete_receiver_entry is safe, and takes nothing that is offered.
LEMMA DeletedSafe ==
    ASSUME TypeOK, ParentsOffered, StagingOK, Safe(fs), NEW p \in plan,
           o.dryRun \/ CanDelete(p),
           NEW g, g = Effect(IF snapshot[p].kind = "dir"
                             THEN RemoveTree(fs, p)
                             ELSE RemoveFile(Backup(fs, p), p))
    PROVE  Safe(g) /\ (\A q \in entries : Exists(fs, q) => Exists(g, q))
<1>1. p \in Dest /\ p \in Path /\ SelfAndUnder(p) \cap entries = {} /\ GoodTree(fs)
  BY PlanApart DEF Safe
<1>2. CASE o.dryRun
  BY <1>2 DEF Effect
<1>3. CASE ~o.dryRun /\ snapshot[p].kind = "dir"
  <2>1. g = RemoveTree(fs, p)
    BY <1>3 DEF Effect
  <2>2. GoodTree(g) /\ \A q \in Path \ SelfAndUnder(p) : g[q] = fs[q]
    BY <1>1, <2>1, RemoveTreeGood
  <2>3. Safe(g)
    BY <1>1, <2>2, OutsideSafe
  <2>4. \A q \in entries : Exists(fs, q) => Exists(g, q)
    BY <1>1, <2>2, EntryFacts DEF Exists
  <2> QED
    BY <2>3, <2>4
<1>4. CASE ~o.dryRun /\ snapshot[p].kind # "dir"
  <2> DEFINE f == Backup(fs, p)
  <2>1. g = RemoveFile(f, p)
    BY <1>4 DEF Effect
  <2>2. CanBackup(fs, p) /\ f[p].kind # "dir"
    BY <1>4 DEF CanDelete
  <2>3. Safe(f) /\ GoodTree(f)
    BY <1>1, <2>2, BackupSafe DEF Safe
  <2>4. \A q \in entries : Exists(fs, q) => Exists(f, q)
    BY <1>1, <2>2, BackupKeeps, EntryFacts
  <2> HIDE DEF f
  <2>5. GoodTree(g) /\ SparesFiles(f, g, p)
    BY <1>1, <2>1, <2>2, <2>3, RemoveFileGood
  <2>6. p \notin entries
    BY <1>1 DEF SelfAndUnder
  <2>7. Safe(g)
    BY <2>3, <2>5, <2>6, SpareSafe
  <2>8. \A q \in entries : g[q] = f[q]
    BY <2>1, <2>3, <2>6, EntryFacts DEF RemoveFile, GoodTree, Tree
  <2> QED
    BY <2>4, <2>7, <2>8 DEF Exists
<1> QED
  BY <1>2, <1>3, <1>4

\* Writing an entry is safe when it delivers the source's content, when the
\* entry is no file, and when --inplace promises nothing.
LEMMA WriteSafe ==
    ASSUME TypeOK, ParentsOffered, StagingOK, NEW f, Safe(f), NEW p \in entries,
           NEW n \in Node, CanPut(f, p),
           \/ o.inPlace
           \/ Src(p).kind # "file"
           \/ n.kind = "file" /\ n.data = Src(p).data
    PROVE  /\ Safe(Put(f, p, n))
           /\ Holds(f) => Holds(Put(f, p, n))
           /\ SparesFiles(f, Put(f, p, n), p)
<1> DEFINE g == Put(f, p, n)
<1>1. p \in Path
  BY EntryFacts
<1>2. GoodTree(g) /\ g[p] = n /\ SparesFiles(f, g, p)
  BY <1>1, PutGood DEF Safe
<1>3. Keeps(g)
  <2>1. \A q \in entries : q \in Path
    BY EntryFacts
  <2> QED
    BY <1>2, <2>1 DEF Keeps, Safe, SparesFiles, FileOffered
<1>4. \A q \in staged : StageOf[q] # p
  BY EntryFacts DEF StagingOK, TypeOK, SelfAndAbove
<1>5. Holds(f) => Holds(g)
  BY <1>2, <1>4, SpareHolds
<1> QED
  BY <1>2, <1>3, <1>5 DEF Safe

\* Removing what is at p, a target of another kind than the offered one, is
\* safe: OldOrNew keeps offered files files.
LEMMA ConflictNotKept ==
    ASSUME TypeOK, Safe(fs), NEW p \in entries, Conflict(p), ~o.inPlace
    PROVE  ~(FileOffered(p) /\ FileBefore(p))
BY DEF Safe, Keeps, Conflict, FileOffered

\* remove_conflicting_target is safe when it is cut short.
LEMMA HalfClearedSafe ==
    ASSUME TypeOK, ParentsOffered, StagingOK, Safe(fs), NEW p \in entries,
           Conflict(p), NEW g \in HalfCleared(p)
    PROVE  Safe(g)
<1>1. p \in Dest /\ p \in Path /\ GoodTree(fs)
  BY EntryFacts DEF Safe
<1>2. CASE fs[p].kind = "dir"
  <2>1. g \in PartlyRemoved(fs, p)
    BY <1>2 DEF HalfCleared
  <2>2. GoodTree(g) /\ \A q \in Path \ SelfAndUnder(p) : g[q] = fs[q]
    BY <1>1, <2>1, PartlyRemovedGood
  <2>3. Under[p] \cap entries = {}
    BY <1>2, LeafApart DEF Conflict
  <2>4. CASE o.inPlace
    BY <2>2, <2>4 DEF Safe, Keeps
  <2>5. CASE ~o.inPlace
    BY <2>2, <2>3, <2>5, ConflictNotKept, OutsideSafe DEF SelfAndUnder
  <2> QED
    BY <2>4, <2>5
<1>3. CASE fs[p].kind # "dir"
  BY <1>1, <1>3, MaybeBackedUpSafe DEF HalfCleared
<1> QED
  BY <1>2, <1>3

\* remove_conflicting_target is safe and leaves the staging files alone.
LEMMA ClearedSafe ==
    ASSUME TypeOK, ParentsOffered, StagingOK, Safe(fs), Holds(fs), NEW p \in entries,
           CanClear(p)
    PROVE  Safe(Cleared(p)) /\ Holds(Cleared(p))
<1>1. p \in Dest /\ p \in Path /\ GoodTree(fs)
  BY EntryFacts DEF Safe
<1>2. CASE ~Conflict(p)
  BY <1>2 DEF Cleared
<1>3. CASE Conflict(p) /\ fs[p].kind = "dir"
  <2>1. Cleared(p) = RemoveTree(fs, p)
    BY <1>3 DEF Cleared
  <2>2. /\ GoodTree(Cleared(p))
        /\ \A q \in Path \ SelfAndUnder(p) : Cleared(p)[q] = fs[q]
    BY <1>1, <2>1, RemoveTreeGood
  <2>3. Under[p] \cap entries = {}
    BY <1>3, LeafApart DEF Conflict
  <2>4. ASSUME o.inPlace PROVE Safe(Cleared(p))
    BY <2>2, <2>4 DEF Safe, Keeps
  <2>5. ASSUME ~o.inPlace PROVE Safe(Cleared(p))
    BY <1>3, <2>2, <2>3, <2>5, ConflictNotKept, OutsideSafe DEF SelfAndUnder
  <2>6. \A q \in staged : StageOf[q] \in Path \ SelfAndUnder(p)
    BY EntryFacts, JobFacts DEF StagingOK, TypeOK
  <2>7. Holds(Cleared(p))
    BY <2>2, <2>6 DEF Holds
  <2>8. Safe(Cleared(p))
    BY <2>4, <2>5
  <2> QED
    BY <2>7, <2>8
<1>4. CASE Conflict(p) /\ fs[p].kind # "dir"
  <2> DEFINE f == Backup(fs, p)
  <2>1. Cleared(p) = RemoveFile(f, p)
    BY <1>4 DEF Cleared
  <2>2. CanBackup(fs, p)
    BY <1>4 DEF CanClear
  <2>3. Safe(f) /\ Holds(f) /\ SparesFiles(fs, f, BackupOf[p])
    BY <1>1, <2>2, BackupSafe
  <2>4. f[p].kind # "dir"
    <3>1. CASE NeedsBackup(fs, p)
      <4>1. p # BackupOf[p]
        BY <1>1, EntryFacts
      <4>2. f[p] = fs[p]
        BY <1>1, <2>3, <3>1, <4>1 DEF SparesFiles, NeedsBackup
      <4> QED
        BY <1>4, <4>2
    <3>2. CASE ~NeedsBackup(fs, p)
      BY <1>4, <3>2 DEF Backup
    <3> QED
      BY <3>1, <3>2
  <2>5. GoodTree(Cleared(p)) /\ SparesFiles(f, Cleared(p), p)
    BY <1>1, <2>1, <2>3, <2>4, RemoveFileGood DEF Safe
  <2> HIDE DEF f
  <2>6. ASSUME o.inPlace PROVE Safe(Cleared(p))
    BY <2>5, <2>6 DEF Safe, Keeps
  <2>7. ASSUME ~o.inPlace PROVE Safe(Cleared(p))
    BY <1>4, <2>3, <2>5, <2>7, ConflictNotKept, SpareSafe
  <2>8. \A q \in staged : StageOf[q] # p
    BY EntryFacts DEF StagingOK, TypeOK, SelfAndAbove
  <2>9. Holds(Cleared(p))
    BY <2>3, <2>5, <2>8, SpareHolds
  <2> QED
    BY <2>6, <2>7, <2>9
<1> QED
  BY <1>2, <1>3, <1>4

\* The files that transfer_file makes are nodes.
LEMMA DeliveredFacts ==
    ASSUME TypeOK, NEW p \in Path, Src(p).kind = "file"
    PROVE  /\ Delivered(p) \in Node
           /\ Delivered(p).kind = "file"
           /\ Delivered(p).data = Src(p).data
           /\ Delivered(p).mtime \in Stamp \cup {Now}
           /\ File(Src(p).data, Now) \in Node
           /\ File(Torn, Now) \in Node
           /\ Link(Src(p).data) \in Node
<1>1. Src(p).data \in Data \cup {Torn} /\ Src(p).mtime \in Stamp \cup {Now}
  BY JobFacts DEF Node
<1> QED
  BY <1>1, NodeFacts DEF Delivered, File

\* transfer_file is safe, complete or cut short.
LEMMA WrittenSafe ==
    ASSUME TypeOK, ParentsOffered, StagingOK, Safe(fs), NEW p \in entries,
           Src(p).kind = "file"
    PROVE  /\ CanWrite(p) => /\ Safe(Put(Backup(fs, p), p, Delivered(p)))
                             /\ Holds(fs) => Holds(Put(Backup(fs, p), p, Delivered(p)))
           /\ \A g \in HalfWritten(p) : Safe(g)
<1>1. p \in Dest /\ p \in Path
  BY EntryFacts
<1>2. ASSUME CanWrite(p)
      PROVE  /\ Safe(Backup(fs, p))
             /\ Holds(fs) => Holds(Backup(fs, p))
             /\ CanPut(Backup(fs, p), p)
  BY <1>1, <1>2, BackupSafe DEF CanWrite
<1>3. ASSUME CanWrite(p)
      PROVE  /\ Safe(Put(Backup(fs, p), p, Delivered(p)))
             /\ Holds(fs) => Holds(Put(Backup(fs, p), p, Delivered(p)))
  BY <1>1, <1>2, <1>3, WriteSafe, DeliveredFacts
<1>4. ASSUME CanWrite(p), o.inPlace
      PROVE  Safe(Put(Backup(fs, p), p, File(Torn, Now)))
  BY <1>1, <1>2, <1>4, WriteSafe, DeliveredFacts
<1>5. ASSUME CanWrite(p)
      PROVE  Safe(Put(Backup(fs, p), p, File(Src(p).data, Now)))
  <2>1. File(Src(p).data, Now).kind = "file" /\ File(Src(p).data, Now).data = Src(p).data
    BY DEF File
  <2> QED
    BY <1>1, <1>2, <1>5, <2>1, WriteSafe, DeliveredFacts
<1>6. \A g \in HalfWritten(p) : Safe(g)
  BY <1>1, <1>4, <1>5, MaybeBackedUpSafe DEF HalfWritten
<1> QED
  BY <1>3, <1>6

\* transfer_symlink is safe, complete or cut short.
LEMMA LinkedSafe ==
    ASSUME TypeOK, ParentsOffered, StagingOK, Safe(fs), NEW p \in entries,
           Src(p).kind = "link"
    PROVE  /\ CanPut(fs, p) => /\ Safe(Put(fs, p, Link(Src(p).data)))
                               /\ Holds(fs) => Holds(Put(fs, p, Link(Src(p).data)))
           /\ \A g \in HalfLinked(p) : Safe(g)
<1>1. p \in Path
  BY EntryFacts
<1>2. Link(Src(p).data) \in Node
  <2>1. Src(p).data \in Data \cup {Torn}
    BY <1>1, JobFacts DEF Node
  <2> QED
    BY <2>1, NodeFacts DEF Now
<1>3. ASSUME CanPut(fs, p)
      PROVE  /\ Safe(Put(fs, p, Link(Src(p).data)))
             /\ Holds(fs) => Holds(Put(fs, p, Link(Src(p).data)))
  BY <1>2, <1>3, WriteSafe
<1>4. ASSUME fs[p].kind # "dir"
      PROVE  Safe(RemoveFile(fs, p))
  <2>1. GoodTree(RemoveFile(fs, p)) /\ SparesFiles(fs, RemoveFile(fs, p), p)
    BY <1>1, <1>4, RemoveFileGood DEF Safe
  <2> QED
    BY <2>1, SpareSafe DEF FileOffered
<1> QED
  BY <1>3, <1>4 DEF HalfLinked

\* finish_delayed_updates is safe, complete or cut short: the staging file
\* still has the new content, and its place is no entry.
LEMMA RenamedSafe ==
    ASSUME TypeOK, ParentsOffered, StagingOK, Safe(fs), Holds(fs), NEW p \in staged
    PROVE  /\ \A t \in Stamp \cup {Now} :
                CanFinish(p) =>
                  /\ Safe(Renamed(Backup(fs, p), p, t))
                  /\ SparesFiles(Put(Backup(fs, p), p, File(Backup(fs, p)[StageOf[p]].data, t)),
                                 Renamed(Backup(fs, p), p, t), StageOf[p])
                  /\ Holds(Put(Backup(fs, p), p, File(Backup(fs, p)[StageOf[p]].data, t)))
           /\ \A g \in HalfFinished(p) : Safe(g)
<1>1. p \in entries /\ p \in Dest /\ p \in Path /\ Src(p).kind = "file"
        /\ StageOf[p] \in Path
  BY EntryFacts, JobFacts DEF TypeOK, StagingOK
<1>2. ASSUME CanFinish(p), NEW t \in Stamp \cup {Now}
      PROVE  /\ Safe(Renamed(Backup(fs, p), p, t))
             /\ SparesFiles(Put(Backup(fs, p), p, File(Backup(fs, p)[StageOf[p]].data, t)),
                            Renamed(Backup(fs, p), p, t), StageOf[p])
             /\ Holds(Put(Backup(fs, p), p, File(Backup(fs, p)[StageOf[p]].data, t)))
  <2> DEFINE f == Backup(fs, p)
             n == File(f[StageOf[p]].data, t)
             h == Put(f, p, n)
  <2>1. Safe(f) /\ Holds(f) /\ CanPut(f, p)
    BY <1>1, <1>2, BackupSafe DEF CanFinish
  <2>2. f[StageOf[p]].data = Src(p).data
    BY <2>1 DEF Holds
  <2>3. n = File(Src(p).data, t)
    BY <2>2
  <2>4. Src(p).data \in Data \cup {Torn}
    BY <1>1, JobFacts DEF Node
  <2>5. n \in Node /\ n.kind = "file" /\ n.data = Src(p).data
    BY <2>3, <2>4, NodeFacts DEF File
  <2> HIDE DEF f, n
  <2>6. Safe(h) /\ Holds(h)
    BY <1>1, <2>1, <2>5, WriteSafe
  <2>7. h[StageOf[p]].kind # "dir"
    BY <2>6 DEF Holds
  <2>8. Renamed(f, p, t) = RemoveFile(h, StageOf[p])
    BY DEF Renamed, n
  <2> HIDE DEF h
  <2>9. GoodTree(Renamed(f, p, t)) /\ SparesFiles(h, Renamed(f, p, t), StageOf[p])
    BY <1>1, <2>6, <2>7, <2>8, RemoveFileGood DEF Safe
  <2>10. StageOf[p] \notin entries
    BY <1>1, EntryFacts DEF SelfAndAbove
  <2>11. Safe(Renamed(f, p, t))
    BY <2>6, <2>9, <2>10, SpareSafe
  <2> QED
    BY <2>6, <2>9, <2>11 DEF f, n, h
<1>3. \A g \in HalfFinished(p) : Safe(g)
  BY <1>1, <1>2, MaybeBackedUpSafe DEF HalfFinished
<1> QED
  BY <1>2, <1>3

-----------------------------------------------------------------------------
(* Steps                                                                   *)

\* The part of TypeOK about sync_tree's own variables.
Control ==
    /\ pc \in {"scan", "delete", "next", "apply", "recover", "unfinished",
               "times", "done"}
    /\ todo \in SUBSET entries
    /\ plan \in SUBSET (Dest \ entries)
    /\ phase \in {"none", "before", "after", "onError"}
    /\ deleted \in Nat
    /\ result \in {"none", "ok", "error", "crash"}
    /\ faults \in Nat
    /\ runs \in Nat

\* SafeInv in terms of the operators above.
LEMMA SafeNow ==
    ASSUME SafeInv
    PROVE  /\ TypeOK /\ ParentsOffered /\ StagingOK
           /\ Control
           /\ Safe(fs)
           /\ pc \in {"next", "apply"} => Holds(fs)
BY DEF SafeInv, TypeOK, Control, Safe, GoodTree, OldOrNew, Keeps, StagingOK, Holds

\* A step within a run preserves SafeInv when it leads to a safe tree that
\* has the new content of whatever is then staged.
LEMMA SafeStaged ==
    ASSUME SafeInv, UNCHANGED <<job, snapshot, entries>>, Safe(fs'), Control',
           staged' \in SUBSET entries,
           \A p \in staged' : Src(p).kind = "file",
           pc' \in {"next", "apply"} =>
             \A p \in staged' : /\ fs'[StageOf[p]].kind = "file"
                                /\ fs'[StageOf[p]].data = Src(p).data,
           pc' # "scan",
           pc' = "delete" => staged' = {}
    PROVE  SafeInv'
<1>1. TypeOK'
  BY DEF SafeInv, TypeOK, Control, Safe, GoodTree
<1>2. ParentsOffered'
  BY DEF SafeInv, ParentsOffered
<1>3. StagingOK'
  BY DEF SafeInv, StagingOK, Src
<1>4. OldOrNew'
  BY DEF Safe, Keeps, OldOrNew, FileOffered, FileBefore, Src, o
<1> QED
  BY <1>1, <1>2, <1>3, <1>4 DEF SafeInv

\* The usual case: nothing new is staged.
LEMMA SafeNext ==
    ASSUME SafeInv, UNCHANGED <<job, snapshot, entries>>, Safe(fs'), Control',
           staged' \in SUBSET staged,
           pc' \in {"next", "apply"} =>
             \A p \in staged' : /\ fs'[StageOf[p]].kind = "file"
                                /\ fs'[StageOf[p]].data = Src(p).data,
           pc' # "scan",
           pc' = "delete" => staged' = {}
    PROVE  SafeInv'
<1>1. staged' \in SUBSET entries /\ \A p \in staged' : Src(p).kind = "file"
  BY DEF SafeInv, TypeOK, StagingOK
<1> QED
  BY <1>1, SafeStaged

\* The same for a step that leaves the tree and the staging set alone.
LEMMA SafeQuiet ==
    ASSUME SafeInv, UNCHANGED <<job, snapshot, entries, fs, staged>>, Control',
           pc' \in {"next", "apply"} => pc \in {"next", "apply"} \/ staged = {},
           pc' # "scan",
           pc' = "delete" => staged = {}
    PROVE  SafeInv'
<1>1. Safe(fs')
  BY SafeNow
<1>2. pc' \in {"next", "apply"} =>
        \A p \in staged' : /\ fs'[StageOf[p]].kind = "file"
                           /\ fs'[StageOf[p]].data = Src(p).data
  BY SafeNow DEF Holds
<1> QED
  BY <1>1, <1>2, SafeNext

\* And for a step that ends the run or breaks off the loop.
LEMMA SafeEnd ==
    ASSUME SafeInv, UNCHANGED <<job, snapshot, entries, staged>>, Safe(fs'), Control',
           pc' \in {"done", "recover", "unfinished"}
    PROVE  SafeInv'
BY SafeNext

\* Extraneous paths are destination paths that are not offered.
LEMMA ExtraneousFacts ==
    ASSUME NEW offered, NEW found
    PROVE  Extraneous(offered, found) \in SUBSET (Dest \ offered)
BY DEF Extraneous, DestEntries

\* Scan offers a set of paths that is closed towards the root.
LEMMA ScanSafe ==
    ASSUME SafeInv, Scan
    PROVE  SafeInv'
<1> DEFINE offered == SourceEntries(job.src, job.filter, job.selected, o.recursive)
<1>1. /\ TypeOK /\ GoodTree(job.src) /\ job.selected \in SUBSET Path
      /\ o.recursive \in BOOLEAN
  BY SafeNow, JobFacts DEF Options
<1>2. offered \in SUBSET Dest
  BY DEF SourceEntries
<1>3. \A p \in offered : Exists(job.src, p) /\ Above(p) \cap Dest \subseteq offered
  BY <1>1, SourceEntriesClosed DEF SourceEntries, GoodTree
<1> HIDE DEF offered
<1>4. /\ UNCHANGED <<job, fs, staged, result, faults, runs>>
      /\ snapshot' = fs /\ entries' = offered /\ todo' = offered
      /\ staged = {}
  BY DEF Scan, offered, SafeInv, StagingOK
<1>6. \/ /\ pc' = "delete" /\ phase' = "before" /\ deleted' = 0
         /\ plan' = Extraneous(offered, fs)
      \/ pc' = "next" /\ UNCHANGED <<phase, plan, deleted>>
  BY DEF Scan, BeginDeletes, offered
<1>7. plan = {}
  BY DEF Scan, SafeInv
<1>8. Control'
  BY <1>2, <1>4, <1>6, <1>7, ExtraneousFacts, SafeNow DEF Control
<1>9. TypeOK'
  BY <1>2, <1>4, <1>8 DEF SafeInv, TypeOK, Control
<1>10. ParentsOffered'
  BY <1>3, <1>4 DEF ParentsOffered
<1>11. StagingOK'
  BY <1>4, <1>6 DEF StagingOK
<1>12. OldOrNew'
  BY <1>4 DEF OldOrNew, FileOffered, FileBefore
<1> QED
  BY <1>6, <1>9, <1>10, <1>11, <1>12 DEF SafeInv

\* apply_receiver_deletes
LEMMA DeletesSafe ==
    ASSUME SafeInv,
           DeletesDone \/ \E p \in Path : DeleteStep(p)
    PROVE  SafeInv'
<1>1. pc = "delete" /\ staged = {}
  BY DEF DeletesDone, DeleteStep, SkipDelete, StopAtMaxDelete, DeleteEntry,
         DeleteEntryFails, Deletable, NextDelete, SafeInv, StagingOK
<1>2. Control /\ Safe(fs) /\ TypeOK /\ ParentsOffered /\ StagingOK
  BY SafeNow
<1>3. CASE DeletesDone
  <2>1. Control'
    BY <1>2, <1>3 DEF DeletesDone, Control
  <2>2. pc' # "scan" /\ pc' # "delete"
    BY <1>2, <1>3 DEF DeletesDone, Control
  <2> QED
    BY <1>1, <1>3, <2>1, <2>2, SafeQuiet DEF DeletesDone
<1>4. ASSUME NEW p \in Path, SkipDelete(p)
      PROVE  SafeInv'
  <2>1. Control'
    BY <1>2, <1>4 DEF SkipDelete, Control
  <2> QED
    BY <1>1, <1>4, <2>1, SafeQuiet DEF SkipDelete
<1>5. ASSUME NEW p \in Path, StopAtMaxDelete(p)
      PROVE  SafeInv'
  <2>1. Control'
    BY <1>2, <1>5 DEF StopAtMaxDelete, ReturnError, Control
  <2> QED
    BY <1>2, <1>5, <2>1, SafeEnd DEF StopAtMaxDelete, ReturnError
<1>6. ASSUME NEW p \in Path, DeleteEntry(p)
      PROVE  SafeInv'
  <2>1. Control'
    BY <1>2, <1>6 DEF DeleteEntry, Control
  <2>2. p \in plan
    BY <1>6 DEF DeleteEntry, Deletable, NextDelete
  <2>3. Safe(fs')
    BY <1>2, <1>6, <2>2, DeletedSafe DEF DeleteEntry
  <2> QED
    BY <1>1, <1>6, <2>1, <2>3, SafeNext DEF DeleteEntry
<1>7. ASSUME NEW p \in Path, DeleteEntryFails(p)
      PROVE  SafeInv'
  <2>1. Control'
    BY <1>2, <1>7 DEF DeleteEntryFails, Fails, ReturnError, Control
  <2>2. p \in plan
    BY <1>7 DEF DeleteEntryFails, Deletable, NextDelete
  <2>3. Safe(fs')
    BY <1>2, <1>7, <2>2, HalfDeletedSafe DEF DeleteEntryFails
  <2> QED
    BY <1>7, <2>1, <2>3, SafeEnd DEF DeleteEntryFails, ReturnError
<1> QED
  BY <1>3, <1>4, <1>5, <1>6, <1>7 DEF DeleteStep

\* The steps of the loop that leave the tree alone
LEMMA SkipsSafe ==
    ASSUME SafeInv, NEW p \in Path,
           \/ SkipDirectory(p)
           \/ SkipSpecial(p)
           \/ RefuseSpecial(p)
           \/ KeepConflict(p)
    PROVE  SafeInv'
<1>1. Control
  BY SafeNow
<1>2. CASE SkipDirectory(p) \/ SkipSpecial(p) \/ KeepConflict(p)
  <2>1. pc = "next" /\ SkipEntry(p)
    BY <1>2 DEF SkipDirectory, SkipSpecial, KeepConflict, Handled
  <2>2. Control'
    BY <1>1, <2>1 DEF SkipEntry, Frame, Control
  <2> QED
    BY <2>1, <2>2, SafeQuiet DEF SkipEntry, Frame
<1>3. CASE RefuseSpecial(p)
  <2>1. Control'
    BY <1>1, <1>3 DEF RefuseSpecial, TransferError, Control
  <2> QED
    BY <1>3, <2>1, SafeNow, SafeEnd DEF RefuseSpecial, TransferError
<1> QED
  BY <1>2, <1>3

\* The first of todo is an entry.
LEMMA FirstFacts ==
    ASSUME TypeOK, NEW p, IsFirst(p, todo)
    PROVE  p \in todo /\ p \in entries /\ p \in Dest /\ p \in Path
BY TreeAssumption DEF IsFirst, TypeOK

\* remove_conflicting_target
LEMMA ClearSafe ==
    ASSUME SafeInv, NEW p \in Path, ClearTarget(p) \/ ClearTargetFails(p)
    PROVE  SafeInv'
<1>1. /\ Control /\ Safe(fs) /\ TypeOK /\ ParentsOffered /\ StagingOK
      /\ p \in entries /\ Holds(fs)
  BY SafeNow, FirstFacts DEF ClearTarget, ClearTargetFails, Handled
<1>2. CASE ClearTarget(p)
  <2>1. Control'
    BY <1>1, <1>2 DEF ClearTarget, Frame, Control
  <2>2. Safe(fs') /\ Holds(fs')
    BY <1>1, <1>2, ClearedSafe DEF ClearTarget, Effect
  <2> QED
    BY <1>2, <2>1, <2>2, SafeNext DEF ClearTarget, Frame, Holds
<1>3. CASE ClearTargetFails(p)
  <2>1. Control'
    BY <1>1, <1>3 DEF ClearTargetFails, Fails, ReturnError, TransferError, Control
  <2>2. Safe(fs')
    BY <1>1, <1>3, HalfClearedSafe DEF ClearTargetFails
  <2> QED
    BY <1>3, <2>1, <2>2, SafeEnd DEF ClearTargetFails, ReturnError, TransferError
<1> QED
  BY <1>2, <1>3

\* The frame of a step that completes an entry
LEMMA AppliedSafe ==
    ASSUME SafeInv, NEW p, Applied(p), UNCHANGED staged, Safe(fs'), Holds(fs')
    PROVE  SafeInv'
<1>1. Control'
  BY SafeNow DEF Applied, Frame, Control
<1> QED
  BY <1>1, SafeNext DEF Applied, Frame, Holds

\* create_dir_all for a directory entry
LEMMA CreateDirSafe ==
    ASSUME SafeInv, NEW p \in Path, CreateDir(p) \/ CreateDirFails(p)
    PROVE  SafeInv'
<1>1. /\ Control /\ Safe(fs) /\ TypeOK /\ ParentsOffered /\ StagingOK
      /\ p \in entries /\ p \in Path /\ Holds(fs) /\ Src(p).kind = "dir"
  BY SafeNow, FirstFacts DEF CreateDir, CreateDirFails, Applying
<1>2. CASE CreateDir(p)
  <2>1. ASSUME CanMakeDir(fs, p)
        PROVE  Safe(MakeDir(fs, p)) /\ Holds(MakeDir(fs, p))
    <3>1. GoodTree(MakeDir(fs, p)) /\ SparesFiles(fs, MakeDir(fs, p), p)
      BY <1>1, <2>1, MakeDirGood DEF Safe
    <3>2. \A q \in staged : StageOf[q] # p
      BY <1>1, EntryFacts DEF StagingOK, TypeOK, SelfAndAbove
    <3>3. ~FileOffered(p)
      BY <1>1 DEF FileOffered
    <3>4. Safe(MakeDir(fs, p))
      BY <1>1, <3>1, <3>3, SpareSafe
    <3>5. Holds(MakeDir(fs, p))
      BY <1>1, <3>1, <3>2, SpareHolds
    <3> QED
      BY <3>4, <3>5
  <2>2. Safe(fs') /\ Holds(fs')
    BY <1>1, <1>2, <2>1 DEF CreateDir, Effect
  <2> QED
    BY <1>2, <2>2, AppliedSafe DEF CreateDir
<1>3. CASE CreateDirFails(p)
  <2>1. Control'
    BY <1>1, <1>3 DEF CreateDirFails, Fails, ReturnError, Control
  <2> QED
    BY <1>1, <1>3, <2>1, SafeEnd DEF CreateDirFails, ReturnError
<1> QED
  BY <1>2, <1>3

\* preserve_existing_file_mtime
LEMMA UpToDateSafe ==
    ASSUME SafeInv, NEW p \in Path, UpToDate(p) \/ UpToDateFails(p)
    PROVE  SafeInv'
<1>1. /\ Control /\ Safe(fs) /\ TypeOK /\ ParentsOffered /\ StagingOK
      /\ p \in entries /\ p \in Path /\ Holds(fs)
  BY SafeNow, FirstFacts DEF UpToDate, UpToDateFails, Applying
<1>2. CASE UpToDate(p)
  <2> DEFINE g == SetMtime(fs, p, Src(p).mtime)
  <2>1. Src(p).mtime \in Stamp \cup {Now}
    BY <1>1, JobFacts DEF Node
  <2>2. GoodTree(g) /\ \A q \in Path : g[q].kind = fs[q].kind /\ g[q].data = fs[q].data
    BY <1>1, <2>1, SetMtimeGood DEF Safe
  <2> HIDE DEF g
  <2>3. \A q \in entries : q \in Path
    BY <1>1, EntryFacts
  <2>4. \A q \in staged : StageOf[q] \in Path
    BY <1>1, JobFacts DEF TypeOK
  <2>5. Safe(g) /\ Holds(g)
    BY <1>1, <2>2, <2>3, <2>4 DEF Safe, Keeps, Holds
  <2>6. fs' = fs \/ fs' = g
    BY <1>2 DEF UpToDate, Effect, g
  <2> QED
    BY <1>1, <1>2, <2>5, <2>6, AppliedSafe DEF UpToDate
<1>3. CASE UpToDateFails(p)
  <2>1. Control'
    BY <1>1, <1>3 DEF UpToDateFails, ReturnError, Control
  <2> QED
    BY <1>1, <1>3, <2>1, SafeEnd DEF UpToDateFails, ReturnError
<1> QED
  BY <1>2, <1>3

\* transfer_file without --delay-updates
LEMMA WriteFileSafe ==
    ASSUME SafeInv, NEW p \in Path, WriteFile(p) \/ WriteFileFails(p)
    PROVE  SafeInv'
<1>1. /\ Control /\ Safe(fs) /\ TypeOK /\ ParentsOffered /\ StagingOK
      /\ p \in entries /\ Src(p).kind = "file" /\ Holds(fs)
  BY SafeNow, FirstFacts DEF WriteFile, WriteFileFails, Applying
<1>2. CASE WriteFile(p)
  <2>1. Safe(fs') /\ Holds(fs')
    BY <1>1, <1>2, WrittenSafe DEF WriteFile, Effect
  <2> QED
    BY <1>2, <2>1, AppliedSafe DEF WriteFile
<1>3. CASE WriteFileFails(p)
  <2>1. Control'
    BY <1>1, <1>3 DEF WriteFileFails, Fails, TransferError, Control
  <2>2. Safe(fs')
    BY <1>1, <1>3, WrittenSafe DEF WriteFileFails
  <2> QED
    BY <1>3, <2>1, <2>2, SafeEnd DEF WriteFileFails, TransferError
<1> QED
  BY <1>2, <1>3

\* transfer_symlink
LEMMA SymlinkSafe ==
    ASSUME SafeInv, NEW p \in Path, CreateSymlink(p) \/ CreateSymlinkFails(p)
    PROVE  SafeInv'
<1>1. /\ Control /\ Safe(fs) /\ TypeOK /\ ParentsOffered /\ StagingOK
      /\ p \in entries /\ Src(p).kind = "link" /\ Holds(fs)
  BY SafeNow, FirstFacts DEF CreateSymlink, CreateSymlinkFails, Applying
<1>2. CASE CreateSymlink(p)
  <2>1. Safe(fs') /\ Holds(fs')
    BY <1>1, <1>2, LinkedSafe DEF CreateSymlink, Effect
  <2> QED
    BY <1>2, <2>1, AppliedSafe DEF CreateSymlink
<1>3. CASE CreateSymlinkFails(p)
  <2>1. Control'
    BY <1>1, <1>3 DEF CreateSymlinkFails, Fails, TransferError, Control
  <2>2. Safe(fs')
    BY <1>1, <1>3, LinkedSafe DEF CreateSymlinkFails
  <2> QED
    BY <1>3, <2>1, <2>2, SafeEnd DEF CreateSymlinkFails, TransferError
<1> QED
  BY <1>2, <1>3

\* transfer_file under --delay-updates
LEMMA StageFileSafe ==
    ASSUME SafeInv, NEW p \in Path, StageFile(p) \/ StageFileFails(p)
    PROVE  SafeInv'
<1>1. /\ Control /\ Safe(fs) /\ TypeOK /\ ParentsOffered /\ StagingOK
      /\ p \in entries /\ p \in Dest /\ Src(p).kind = "file" /\ Holds(fs)
  BY SafeNow, FirstFacts DEF StageFile, StageFileFails, Applying
<1>2. CASE StageFile(p)
  <2> DEFINE n == File(Src(p).data, Now)
  <2>1. n \in Node /\ n.kind = "file" /\ n.data = Src(p).data
    BY <1>1, DeliveredFacts DEF File
  <2>2. StageOf[p] \in Path /\ CanPut(fs, StageOf[p]) /\ fs' = Put(fs, StageOf[p], n)
    BY <1>1, <1>2, JobFacts DEF StageFile
  <2> HIDE DEF n
  <2>3. GoodTree(fs') /\ fs'[StageOf[p]] = n /\ SparesFiles(fs, fs', StageOf[p])
    BY <1>1, <2>1, <2>2, PutGood DEF Safe
  <2>4. StageOf[p] \notin entries
    BY <1>1, EntryFacts DEF SelfAndAbove
  <2>5. Safe(fs')
    BY <1>1, <2>3, <2>4, SpareSafe
  <2>6. \A q \in staged : q \in Dest /\ StageOf[q] \in Path /\ Src(q).kind = "file"
    BY <1>1, JobFacts DEF StagingOK, TypeOK
  <2>7. \A q \in staged \cup {p} : /\ fs'[StageOf[q]].kind = "file"
                                   /\ fs'[StageOf[q]].data = Src(q).data
    <3>1. ASSUME NEW q \in staged, StageOf[q] # StageOf[p]
          PROVE  /\ fs'[StageOf[q]].kind = "file"
                 /\ fs'[StageOf[q]].data = Src(q).data
      BY <1>1, <2>3, <2>6, <3>1 DEF Holds, SparesFiles
    <3>2. ASSUME NEW q \in staged, StageOf[q] = StageOf[p]
          PROVE  q = p
      BY <1>1, <2>6, <3>2, StageFacts
    <3> QED
      BY <2>1, <2>3, <3>1, <3>2
  <2>8. Control'
    BY <1>1, <1>2 DEF StageFile, Applied, Frame, Control
  <2>9. staged' = staged \cup {p} /\ pc' = "next" /\ UNCHANGED <<job, snapshot, entries>>
    BY <1>2 DEF StageFile, Applied, Frame
  <2>10. staged' \in SUBSET entries /\ \A q \in staged' : Src(q).kind = "file"
    BY <1>1, <2>6, <2>9 DEF TypeOK
  <2> QED
    BY <2>5, <2>7, <2>8, <2>9, <2>10, SafeStaged
<1>3. CASE StageFileFails(p)
  <2>1. Control'
    BY <1>1, <1>3 DEF StageFileFails, Fails, TransferError, Control
  <2> QED
    BY <1>1, <1>3, <2>1, SafeEnd DEF StageFileFails, TransferError
<1> QED
  BY <1>2, <1>3

\* finish_delayed_updates
LEMMA FinishSafe ==
    ASSUME SafeInv, NEW p \in Path, FinishDelayed(p) \/ FinishDelayedFails(p)
    PROVE  SafeInv'
<1>1. /\ Control /\ Safe(fs) /\ TypeOK /\ ParentsOffered /\ StagingOK
      /\ p \in staged /\ p \in Dest /\ p \in Path /\ Src(p).kind = "file" /\ Holds(fs)
  <2>1. p \in staged /\ pc = "next"
    BY DEF FinishDelayed, FinishDelayedFails, IsFirst
  <2> QED
    BY <2>1, SafeNow, TreeAssumption DEF StagingOK, TypeOK
<1>2. CASE FinishDelayed(p)
  <2> DEFINE t == Delivered(p).mtime
             h == Put(Backup(fs, p), p, File(Backup(fs, p)[StageOf[p]].data, t))
  <2>1. t \in Stamp \cup {Now}
    BY <1>1, DeliveredFacts
  <2>2. CanFinish(p) /\ fs' = Renamed(Backup(fs, p), p, t)
    BY <1>2 DEF FinishDelayed
  <2> HIDE DEF t
  <2>3. Safe(fs') /\ SparesFiles(h, fs', StageOf[p]) /\ Holds(h)
    BY <1>1, <2>1, <2>2, RenamedSafe
  <2> HIDE DEF h
  <2>4. \A q \in staged : q \in Dest /\ StageOf[q] \in Path /\ Src(q).kind = "file"
    BY <1>1, JobFacts DEF StagingOK, TypeOK
  <2>5. \A q \in staged \ {p} : StageOf[q] # StageOf[p]
    BY <1>1, <2>4, StageFacts
  <2>6. \A q \in staged \ {p} : /\ fs'[StageOf[q]].kind = "file"
                                /\ fs'[StageOf[q]].data = Src(q).data
    BY <2>3, <2>4, <2>5 DEF Holds, SparesFiles
  <2>7. Control'
    BY <1>1, <1>2 DEF FinishDelayed, Frame, Control
  <2>8. staged' = staged \ {p} /\ pc' = "next" /\ UNCHANGED <<job, snapshot, entries>>
    BY <1>2 DEF FinishDelayed, Frame
  <2> QED
    BY <2>3, <2>6, <2>7, <2>8, SafeNext
<1>3. CASE FinishDelayedFails(p)
  <2>1. Control'
    BY <1>1, <1>3 DEF FinishDelayedFails, Fails, Frame, Control
  <2>2. Safe(fs')
    BY <1>1, <1>3, RenamedSafe DEF FinishDelayedFails
  <2> QED
    BY <1>3, <2>1, <2>2, SafeEnd DEF FinishDelayedFails, Frame
<1> QED
  BY <1>2, <1>3

\* cleanup_delayed_updates removes nothing but staging files.
LEMMA CleanUpSafe ==
    ASSUME SafeInv, CleanUp
    PROVE  Safe(fs') /\ faults' \in Nat
<1>1. /\ Control /\ Safe(fs) /\ TypeOK /\ ParentsOffered /\ StagingOK /\ GoodTree(fs)
  BY SafeNow DEF Safe
<1>2. CASE o.keepPartial
  BY <1>1, <1>2 DEF CleanUp, Control
<1>3. CASE ~o.keepPartial
  <2>1. PICK left \in SUBSET staged :
          /\ fs' = [q \in Path |->
                      IF \E p \in staged \ left : StageOf[p] = q /\ fs[q].kind # "dir"
                      THEN Absent ELSE fs[q]]
          /\ faults' = faults + Cardinality(left)
    BY <1>3 DEF CleanUp
  <2> DEFINE S == {q \in Path :
                     \E p \in staged \ left : StageOf[p] = q /\ fs[q].kind # "dir"}
  <2>2. fs' = [q \in Path |-> IF q \in S THEN Absent ELSE fs[q]]
    BY <2>1
  <2>3. \A q \in S : \A r \in Under[q] : fs[r].kind # "absent" => r \in S
    <3>1. SUFFICES ASSUME NEW q \in S, NEW r \in Under[q], fs[r].kind # "absent"
                   PROVE  FALSE
      OBVIOUS
    <3>2. r \in Path /\ q \in Above(r) /\ fs[q].kind # "dir"
      BY AboveFacts
    <3> QED
      BY <1>1, <3>1, <3>2 DEF GoodTree, WellFormed, Exists
  <2>4. \A q \in entries : q \in Path /\ q \notin S
    BY <1>1, EntryFacts DEF StagingOK, TypeOK, SelfAndAbove
  <2>5. S \in SUBSET Path
    OBVIOUS
  <2> HIDE DEF S
  <2>6. GoodTree(fs')
    BY <1>1, <2>2, <2>3, <2>5, PruneGood
  <2>7. Safe(fs')
    BY <1>1, <2>2, <2>4, <2>6 DEF Safe, Keeps
  <2>8. IsFiniteSet(left)
    <3>1. left \in SUBSET Path
      BY <1>1, <2>1, TreeAssumption DEF TypeOK
    <3> QED
      BY <3>1, TreeAssumption, FS_Subset
  <2>9. faults' \in Nat
    BY <1>1, <2>1, <2>8, FS_CardinalityType DEF Control
  <2> QED
    BY <2>7, <2>9
<1> QED
  BY <1>2, <1>3

\* The end of a run, good or bad
LEMMA EndSafe ==
    ASSUME SafeInv,
           \/ ScanFails \/ Deadline \/ Recover \/ Unfinished
           \/ TransfersDone \/ DirectoryTimes \/ DirectoryTimesFail
    PROVE  SafeInv'
<1>1. /\ Control /\ Safe(fs) /\ TypeOK
  BY SafeNow
<1>2. CASE ScanFails
  <2>1. Control'
    BY <1>1, <1>2 DEF ScanFails, ReturnError, Control
  <2> QED
    BY <1>1, <1>2, <2>1, SafeEnd DEF ScanFails, ReturnError
<1>3. CASE Deadline
  <2>1. Control'
    BY <1>1, <1>3 DEF Deadline, ReturnError, Control
  <2> QED
    BY <1>1, <1>3, <2>1, SafeEnd DEF Deadline, ReturnError
<1>4. CASE Recover
  <2>1. Safe(fs') /\ faults' \in Nat
    BY <1>4, CleanUpSafe DEF Recover
  <2>2. Control' /\ pc' \in {"delete", "done"}
    BY <1>1, <1>4, <2>1, ExtraneousFacts DEF Recover, BeginDeletes, Control
  <2> QED
    BY <1>4, <2>1, <2>2, SafeNext DEF Recover
<1>5. CASE Unfinished
  <2>1. Safe(fs') /\ faults' \in Nat
    BY <1>5, CleanUpSafe DEF Unfinished
  <2>2. Control' /\ pc' = "done"
    BY <1>1, <1>5, <2>1 DEF Unfinished, Control
  <2> QED
    BY <1>5, <2>1, <2>2, SafeNext DEF Unfinished
<1>6. CASE TransfersDone
  <2>1. Control' /\ pc' \in {"delete", "times"}
    BY <1>1, <1>6, ExtraneousFacts DEF TransfersDone, BeginDeletes, Control
  <2> QED
    BY <1>6, <2>1, SafeQuiet DEF TransfersDone
<1>7. CASE DirectoryTimes
  <2>1. Control'
    BY <1>1, <1>7 DEF DirectoryTimes, Control
  <2> QED
    BY <1>1, <1>7, <2>1, SafeEnd DEF DirectoryTimes
<1>8. CASE DirectoryTimesFail
  <2>1. Control'
    BY <1>1, <1>8 DEF DirectoryTimesFail, Fails, ReturnError, Control
  <2> QED
    BY <1>1, <1>8, <2>1, SafeEnd DEF DirectoryTimesFail, ReturnError
<1> QED
  BY <1>2, <1>3, <1>4, <1>5, <1>6, <1>7, <1>8

\* Whatever operation a kill cuts short, the tree it leaves is safe.
LEMMA CrashSafe ==
    ASSUME SafeInv, Crash
    PROVE  SafeInv'
<1>1. /\ Control /\ Safe(fs) /\ TypeOK /\ ParentsOffered /\ StagingOK
      /\ pc \in {"next", "apply"} => Holds(fs)
  BY SafeNow
<1>2. Control'
  BY <1>1 DEF Crash, Control
<1>3. ASSUME NEW p \in Path, Deletable(p), NEW g \in HalfDeleted(p)
      PROVE  Safe(g)
  BY <1>1, <1>3, HalfDeletedSafe DEF Deletable, NextDelete
<1>4. ASSUME NEW p \in Path, Handled(p), Conflict(p), NEW g \in HalfCleared(p)
      PROVE  Safe(g)
  BY <1>1, <1>4, HalfClearedSafe, FirstFacts DEF Handled
<1>5. ASSUME NEW p \in Path, Applying(p, "file"), NEW g \in HalfWritten(p)
      PROVE  Safe(g)
  BY <1>1, <1>5, WrittenSafe, FirstFacts DEF Applying
<1>6. ASSUME NEW p \in Path, Applying(p, "link"), NEW g \in HalfLinked(p)
      PROVE  Safe(g)
  BY <1>1, <1>6, LinkedSafe, FirstFacts DEF Applying
<1>7. ASSUME NEW p \in Path, pc = "next", IsFirst(p, staged), NEW g \in HalfFinished(p)
      PROVE  Safe(g)
  BY <1>1, <1>7, RenamedSafe DEF IsFirst
<1>8. \A g \in CutShort : Safe(g)
  BY <1>1, <1>3, <1>4, <1>5, <1>6, <1>7 DEF CutShort
<1> QED
  BY <1>2, <1>8, SafeEnd DEF Crash

\* A new run starts with nothing offered, planned or staged.
LEMMA NextRunSafe ==
    ASSUME SafeInv, NextRun
    PROVE  SafeInv'
<1>1. TypeOK'
  BY DEF SafeInv, TypeOK, NextRun
<1> QED
  BY <1>1 DEF NextRun, SafeInv, ParentsOffered, StagingOK, OldOrNew

\* SafeInv holds initially.
LEMMA SafeInit == Init => SafeInv
<1> SUFFICES ASSUME Init PROVE SafeInv
  OBVIOUS
<1>1. TypeOK
  BY JobAssumption DEF Init, Start, TypeOK
<1> QED
  BY <1>1 DEF Init, Start, SafeInv, ParentsOffered, StagingOK, OldOrNew

\* SafeInv is inductive.
LEMMA SafeInductive == SafeInv /\ [Next]_vars => SafeInv'
<1> SUFFICES ASSUME SafeInv, [Next]_vars PROVE SafeInv'
  OBVIOUS
<1>1. CASE Step
  <2>1. ASSUME NEW p \in Path, EntryStep(p) PROVE SafeInv'
    BY <2>1, SkipsSafe, ClearSafe, CreateDirSafe, UpToDateSafe, WriteFileSafe,
       StageFileSafe, SymlinkSafe, FinishSafe DEF EntryStep
  <2> QED
    BY <1>1, <2>1, ScanSafe, DeletesSafe, EndSafe DEF Step
<1>2. CASE Crash
  BY <1>2, CrashSafe
<1>3. CASE NextRun
  BY <1>3, NextRunSafe
<1>4. CASE UNCHANGED vars
  BY <1>4 DEF vars, SafeInv, TypeOK, ParentsOffered, StagingOK, OldOrNew,
              FileOffered, FileBefore, Src, o
<1> QED
  BY <1>1, <1>2, <1>3, <1>4 DEF Next

-----------------------------------------------------------------------------
(* Delayed updates                                                         *)

\* The tree g shows no new content of a file that the receiver had.
Unshown(g) ==
    \A p \in entries :
      FileOffered(p) /\ FileBefore(p) =>
        g[p].kind = "file" /\ g[p].data = snapshot[p].data

\* The inductive strengthening of DelayHolds: an old file is still a file, or
\* it would be cleared as a target of another kind.
DelayInv == SafeInv /\ (o.delayUpdates /\ todo # {} => Unshown(fs))

\* A change that leaves every file but the one at p alone.
LEMMA SpareUnshown ==
    ASSUME TypeOK, ParentsOffered, NEW f, Unshown(f), NEW g, NEW p,
           SparesFiles(f, g, p),
           p \in entries => ~(FileOffered(p) /\ FileBefore(p))
    PROVE  Unshown(g)
<1>1. \A q \in entries : q \in Path
  BY EntryFacts
<1> QED
  BY <1>1 DEF Unshown, SparesFiles

\* The removal of what is at and below p.
LEMMA OutsideUnshown ==
    ASSUME TypeOK, ParentsOffered, NEW f, Unshown(f), NEW g, NEW p,
           \A q \in Path \ SelfAndUnder(p) : g[q] = f[q],
           \A q \in entries \cap SelfAndUnder(p) : ~(FileOffered(q) /\ FileBefore(q))
    PROVE  Unshown(g)
<1>1. \A q \in entries : q \in Path
  BY EntryFacts
<1> QED
  BY <1>1 DEF Unshown

\* backup_receiver_file writes beside the entries.
LEMMA BackupUnshown ==
    ASSUME TypeOK, ParentsOffered, StagingOK, Safe(fs), Unshown(fs), NEW p \in Dest
    PROVE  /\ CanBackup(fs, p) => Unshown(Backup(fs, p))
           /\ \A g \in MaybeBackedUp(p) : Unshown(g)
<1>1. BackupOf[p] \notin entries
  BY EntryFacts
<1>2. ASSUME CanBackup(fs, p)
      PROVE  Unshown(Backup(fs, p))
  BY <1>1, <1>2, BackupSafe, SpareUnshown
<1> QED
  BY <1>2 DEF MaybeBackedUp

\* A deletion, complete or cut short.
LEMMA DeleteUnshown ==
    ASSUME TypeOK, ParentsOffered, StagingOK, Safe(fs), Unshown(fs), NEW p \in plan
    PROVE  /\ \A g \in HalfDeleted(p) : Unshown(g)
           /\ o.dryRun \/ CanDelete(p) =>
                Unshown(Effect(IF snapshot[p].kind = "dir"
                               THEN RemoveTree(fs, p)
                               ELSE RemoveFile(Backup(fs, p), p)))
<1>1. /\ p \in Dest /\ p \in Path /\ SelfAndUnder(p) \cap entries = {}
      /\ GoodTree(fs) /\ p \notin entries
  BY PlanApart DEF Safe, SelfAndUnder
<1>2. ASSUME NEW g \in PartlyRemoved(fs, p)
      PROVE  Unshown(g)
  <2>1. \A q \in Path \ SelfAndUnder(p) : g[q] = fs[q]
    BY <1>1, <1>2, PartlyRemovedGood
  <2> QED
    BY <1>1, <2>1, OutsideUnshown
<1>3. \A g \in HalfDeleted(p) : Unshown(g)
  BY <1>1, <1>2, BackupUnshown DEF HalfDeleted
<1>4. Unshown(RemoveTree(fs, p))
  <2>1. \A q \in Path \ SelfAndUnder(p) : RemoveTree(fs, p)[q] = fs[q]
    BY <1>1, RemoveTreeGood
  <2> QED
    BY <1>1, <2>1, OutsideUnshown
<1>5. ASSUME ~o.dryRun, CanDelete(p), snapshot[p].kind # "dir"
      PROVE  Unshown(RemoveFile(Backup(fs, p), p))
  <2> DEFINE f == Backup(fs, p)
  <2>1. CanBackup(fs, p) /\ f[p].kind # "dir"
    BY <1>5 DEF CanDelete
  <2>2. Unshown(f) /\ GoodTree(f)
    BY <1>1, <2>1, BackupUnshown, BackupSafe DEF Safe
  <2> HIDE DEF f
  <2>3. SparesFiles(f, RemoveFile(f, p), p)
    BY <1>1, <2>1, <2>2, RemoveFileGood
  <2>4. Unshown(RemoveFile(f, p))
    BY <1>1, <2>2, <2>3, SpareUnshown
  <2> QED
    BY <2>4 DEF f
<1> QED
  BY <1>3, <1>4, <1>5 DEF Effect

\* remove_conflicting_target: a file that is offered and was there has no
\* target of another kind.
LEMMA ClearUnshown ==
    ASSUME TypeOK, ParentsOffered, StagingOK, Safe(fs), Unshown(fs), NEW p \in entries
    PROVE  /\ CanClear(p) => Unshown(Cleared(p))
           /\ Conflict(p) => \A g \in HalfCleared(p) : Unshown(g)
<1>1. p \in Dest /\ p \in Path /\ GoodTree(fs)
  BY EntryFacts DEF Safe
<1>2. Conflict(p) => ~(FileOffered(p) /\ FileBefore(p))
  BY DEF Conflict, Unshown, FileOffered
<1>3. Conflict(p) /\ fs[p].kind = "dir" => Under[p] \cap entries = {}
  BY LeafApart DEF Conflict
<1>4. ASSUME Conflict(p), fs[p].kind = "dir"
      PROVE  /\ Unshown(RemoveTree(fs, p))
             /\ \A g \in PartlyRemoved(fs, p) : Unshown(g)
  <2>1. \A q \in entries \cap SelfAndUnder(p) : ~(FileOffered(q) /\ FileBefore(q))
    BY <1>2, <1>3, <1>4 DEF SelfAndUnder
  <2>2. Unshown(RemoveTree(fs, p))
    <3>1. \A q \in Path \ SelfAndUnder(p) : RemoveTree(fs, p)[q] = fs[q]
      BY <1>1, RemoveTreeGood
    <3> QED
      BY <2>1, <3>1, OutsideUnshown
  <2>3. ASSUME NEW g \in PartlyRemoved(fs, p)
        PROVE  Unshown(g)
    <3>1. \A q \in Path \ SelfAndUnder(p) : g[q] = fs[q]
      BY <1>1, <2>3, PartlyRemovedGood
    <3> QED
      BY <2>1, <3>1, OutsideUnshown
  <2> QED
    BY <2>2, <2>3
<1>5. ASSUME Conflict(p), fs[p].kind # "dir", CanBackup(fs, p)
      PROVE  Unshown(RemoveFile(Backup(fs, p), p))
  <2> DEFINE f == Backup(fs, p)
  <2>1. Unshown(f) /\ Safe(f) /\ SparesFiles(fs, f, BackupOf[p])
    BY <1>1, <1>5, BackupUnshown, BackupSafe
  <2>2. f[p].kind # "dir"
    <3>1. CASE NeedsBackup(fs, p)
      <4>1. p # BackupOf[p]
        BY <1>1, EntryFacts
      <4>2. f[p] = fs[p]
        BY <1>1, <2>1, <3>1, <4>1 DEF SparesFiles, NeedsBackup
      <4> QED
        BY <1>5, <4>2
    <3>2. CASE ~NeedsBackup(fs, p)
      BY <1>5, <3>2 DEF Backup
    <3> QED
      BY <3>1, <3>2
  <2> HIDE DEF f
  <2>3. SparesFiles(f, RemoveFile(f, p), p)
    BY <1>1, <2>1, <2>2, RemoveFileGood DEF Safe
  <2>4. Unshown(RemoveFile(f, p))
    BY <1>2, <1>5, <2>1, <2>3, SpareUnshown
  <2> QED
    BY <2>4 DEF f
<1>6. CanClear(p) => Unshown(Cleared(p))
  BY <1>4, <1>5 DEF CanClear, Cleared
<1>7. Conflict(p) => \A g \in HalfCleared(p) : Unshown(g)
  BY <1>1, <1>4, BackupUnshown DEF HalfCleared
<1> QED
  BY <1>6, <1>7

\* transfer_symlink, complete or cut short.
LEMMA LinkUnshown ==
    ASSUME TypeOK, ParentsOffered, StagingOK, Safe(fs), Unshown(fs), NEW p \in entries,
           Src(p).kind = "link"
    PROVE  /\ CanPut(fs, p) => Unshown(Put(fs, p, Link(Src(p).data)))
           /\ \A g \in HalfLinked(p) : Unshown(g)
<1>1. p \in Path /\ GoodTree(fs) /\ ~FileOffered(p)
  BY EntryFacts DEF Safe, FileOffered
<1>2. Link(Src(p).data) \in Node
  <2>1. Src(p).data \in Data \cup {Torn}
    BY <1>1, JobFacts DEF Node
  <2> QED
    BY <2>1, NodeFacts DEF Now
<1>3. ASSUME CanPut(fs, p)
      PROVE  Unshown(Put(fs, p, Link(Src(p).data)))
  <2>1. SparesFiles(fs, Put(fs, p, Link(Src(p).data)), p)
    BY <1>1, <1>2, <1>3, PutGood
  <2> QED
    BY <1>1, <2>1, SpareUnshown
<1>4. ASSUME fs[p].kind # "dir"
      PROVE  Unshown(RemoveFile(fs, p))
  <2>1. SparesFiles(fs, RemoveFile(fs, p), p)
    BY <1>1, <1>4, RemoveFileGood
  <2> QED
    BY <1>1, <2>1, SpareUnshown
<1> QED
  BY <1>3, <1>4 DEF HalfLinked

\* cleanup_delayed_updates removes nothing but staging files.
LEMMA CleanUpUnshown ==
    ASSUME SafeInv, Unshown(fs), CleanUp
    PROVE  Unshown(fs')
<1>1. TypeOK /\ ParentsOffered /\ StagingOK
  BY SafeNow
<1>2. \A q \in entries : q \in Path /\ \A p \in staged : StageOf[p] # q
  BY <1>1, EntryFacts DEF StagingOK, TypeOK, SelfAndAbove
<1>3. \A q \in entries : fs'[q] = fs[q]
  BY <1>2 DEF CleanUp
<1> QED
  BY <1>3 DEF Unshown

\* A step within a run keeps DelayInv when the tree it leads to shows nothing.
LEMMA DelayNext ==
    ASSUME SafeInv', UNCHANGED <<job, snapshot, entries>>,
           o.delayUpdates /\ todo' # {} => Unshown(fs')
    PROVE  DelayInv'
BY DEF DelayInv, Unshown, FileOffered, FileBefore, Src, o

\* One entry of the loop.
LEMMA EntryUnshown ==
    ASSUME SafeInv, o.delayUpdates, todo # {}, Unshown(fs), NEW p \in Path, EntryStep(p)
    PROVE  Unshown(fs')
<1>1. TypeOK /\ ParentsOffered /\ StagingOK /\ Safe(fs)
  BY SafeNow
<1>2. \/ fs' = fs \/ ClearTarget(p) \/ ClearTargetFails(p) \/ CreateDir(p) \/ UpToDate(p)
      \/ StageFile(p) \/ CreateSymlink(p) \/ CreateSymlinkFails(p)
  BY DEF EntryStep, SkipDirectory, SkipSpecial, RefuseSpecial, KeepConflict, SkipEntry,
         CreateDirFails, UpToDateFails, WriteFile, WriteFileFails, Fails, Effect, Delayed,
         StageFileFails, FinishDelayed, FinishDelayedFails
<1>3. CASE ClearTarget(p)
  <2>1. p \in entries
    BY <1>1, <1>3, FirstFacts DEF ClearTarget, Handled
  <2> QED
    BY <1>1, <1>3, <2>1, ClearUnshown DEF ClearTarget, Effect
<1>4. CASE ClearTargetFails(p)
  <2>1. p \in entries
    BY <1>1, <1>4, FirstFacts DEF ClearTargetFails, Handled
  <2> QED
    BY <1>1, <1>4, <2>1, ClearUnshown DEF ClearTargetFails
<1>5. CASE CreateDir(p)
  <2>1. p \in entries /\ ~FileOffered(p)
    BY <1>1, <1>5, FirstFacts DEF CreateDir, Applying, FileOffered
  <2>2. CanMakeDir(fs, p) => SparesFiles(fs, MakeDir(fs, p), p)
    BY <1>1, MakeDirGood DEF Safe
  <2> QED
    BY <1>1, <1>5, <2>1, <2>2, SpareUnshown DEF CreateDir, Effect
<1>6. CASE UpToDate(p)
  <2> DEFINE g == SetMtime(fs, p, Src(p).mtime)
  <2>1. Src(p).mtime \in Stamp \cup {Now}
    BY <1>1, JobFacts DEF Node
  <2>2. \A q \in Path : g[q].kind = fs[q].kind /\ g[q].data = fs[q].data
    BY <1>1, <2>1, SetMtimeGood DEF Safe
  <2>3. fs' = fs \/ fs' = g
    BY <1>6 DEF UpToDate, Effect
  <2>4. \A q \in entries : q \in Path
    BY <1>1, EntryFacts
  <2> HIDE DEF g
  <2> QED
    BY <2>2, <2>3, <2>4 DEF Unshown
<1>7. CASE StageFile(p)
  <2>1. p \in entries /\ p \in Dest /\ Src(p).kind = "file"
    BY <1>1, <1>7, FirstFacts DEF StageFile, Applying
  <2>2. File(Src(p).data, Now) \in Node /\ StageOf[p] \in Path
    BY <1>1, <2>1, DeliveredFacts, JobFacts
  <2>3. SparesFiles(fs, fs', StageOf[p])
    BY <1>1, <1>7, <2>2, PutGood DEF StageFile, Safe
  <2>4. StageOf[p] \notin entries
    BY <1>1, <2>1, EntryFacts DEF SelfAndAbove
  <2> QED
    BY <1>1, <2>3, <2>4, SpareUnshown
<1>8. CASE CreateSymlink(p) \/ CreateSymlinkFails(p)
  <2>1. p \in entries /\ Src(p).kind = "link"
    BY <1>1, <1>8, FirstFacts DEF CreateSymlink, CreateSymlinkFails, Applying
  <2> QED
    BY <1>1, <1>8, <2>1, LinkUnshown DEF CreateSymlink, CreateSymlinkFails, Effect
<1> QED
  BY <1>2, <1>3, <1>4, <1>5, <1>6, <1>7, <1>8

\* A kill while entries are pending.
LEMMA CrashUnshown ==
    ASSUME SafeInv, o.delayUpdates, todo # {}, Unshown(fs), Crash
    PROVE  Unshown(fs')
<1>1. TypeOK /\ ParentsOffered /\ StagingOK /\ Safe(fs)
  BY SafeNow
<1>2. ASSUME NEW p \in Path, Deletable(p), NEW g \in HalfDeleted(p)
      PROVE  Unshown(g)
  BY <1>1, <1>2, DeleteUnshown DEF Deletable, NextDelete
<1>3. ASSUME NEW p \in Path, Handled(p), Conflict(p), NEW g \in HalfCleared(p)
      PROVE  Unshown(g)
  BY <1>1, <1>3, ClearUnshown, FirstFacts DEF Handled
<1>4. ASSUME NEW p \in Path, Applying(p, "link"), NEW g \in HalfLinked(p)
      PROVE  Unshown(g)
  BY <1>1, <1>4, LinkUnshown, FirstFacts DEF Applying
<1>5. \A g \in CutShort : Unshown(g)
  BY <1>2, <1>3, <1>4 DEF CutShort, Delayed
<1> QED
  BY <1>5 DEF Crash

\* DelayInv is inductive.
LEMMA DelayInductive == DelayInv /\ [Next]_vars => DelayInv'
<1> SUFFICES ASSUME DelayInv, [Next]_vars
             PROVE  DelayInv'
  OBVIOUS
<1>1. SafeInv /\ SafeInv' /\ TypeOK /\ ParentsOffered /\ StagingOK /\ Safe(fs)
  BY SafeInductive, SafeNow DEF DelayInv
<1>2. ASSUME UNCHANGED <<job, snapshot, entries>>, todo' \subseteq todo,
             o.delayUpdates /\ todo # {} /\ Unshown(fs) => Unshown(fs')
      PROVE  DelayInv'
  BY <1>1, <1>2, DelayNext DEF DelayInv
<1>3. CASE Scan
  <2>1. snapshot' = fs' /\ job' = job
    BY <1>3 DEF Scan
  <2> QED
    BY <1>1, <2>1 DEF DelayInv, Unshown, FileBefore
<1>4. ASSUME NEW p \in Path, DeleteStep(p)
      PROVE  DelayInv'
  <2>1. UNCHANGED <<job, snapshot, entries, todo>>
    BY <1>4 DEF DeleteStep, SkipDelete, StopAtMaxDelete, DeleteEntry, DeleteEntryFails,
         ReturnError
  <2>2. CASE fs' = fs
    BY <1>2, <2>1, <2>2
  <2>3. CASE DeleteEntry(p) \/ DeleteEntryFails(p)
    <3>1. p \in plan
      BY <2>3 DEF DeleteEntry, DeleteEntryFails, Deletable, NextDelete
    <3>2. Unshown(fs) => Unshown(fs')
      BY <1>1, <2>3, <3>1, DeleteUnshown DEF DeleteEntry, DeleteEntryFails
    <3> QED
      BY <1>2, <2>1, <3>2
  <2> QED
    BY <1>4, <2>2, <2>3 DEF DeleteStep, SkipDelete, StopAtMaxDelete
<1>5. ASSUME NEW p \in Path, EntryStep(p)
      PROVE  DelayInv'
  <2>1. UNCHANGED <<job, snapshot, entries>> /\ todo' \subseteq todo
    BY <1>5 DEF EntryStep, SkipDirectory, SkipSpecial, RefuseSpecial, KeepConflict, SkipEntry,
         ClearTarget, ClearTargetFails, CreateDir, CreateDirFails, UpToDate, UpToDateFails,
         WriteFile, WriteFileFails, StageFile, StageFileFails, CreateSymlink,
         CreateSymlinkFails, FinishDelayed, FinishDelayedFails, Applied, Frame,
         TransferError, ReturnError
  <2> QED
    BY <1>1, <1>2, <1>5, <2>1, EntryUnshown
<1>6. CASE Recover \/ Unfinished
  <2>1. UNCHANGED <<job, snapshot, entries, todo>> /\ CleanUp
    BY <1>6 DEF Recover, Unfinished
  <2> QED
    BY <1>1, <1>2, <2>1, CleanUpUnshown
<1>7. CASE ScanFails \/ DeletesDone \/ Deadline \/ TransfersDone \/ DirectoryTimes
           \/ DirectoryTimesFail \/ UNCHANGED vars
  <2>1. UNCHANGED <<job, snapshot, entries, todo, fs>>
    BY <1>7 DEF ScanFails, DeletesDone, Deadline, TransfersDone, DirectoryTimes,
         DirectoryTimesFail, ReturnError, vars
  <2> QED
    BY <1>2, <2>1
<1>8. CASE Crash
  <2>1. UNCHANGED <<job, snapshot, entries, todo>>
    BY <1>8 DEF Crash
  <2> QED
    BY <1>1, <1>2, <1>8, <2>1, CrashUnshown
<1>9. CASE NextRun
  BY <1>1, <1>9 DEF NextRun, DelayInv
<1> QED
  BY <1>3, <1>4, <1>5, <1>6, <1>7, <1>8, <1>9 DEF Next, Step

-----------------------------------------------------------------------------
(* The limits of --delete                                                  *)

\* The extraneous paths that no call of apply_receiver_deletes has come to.
Pending == IF phase = "none" THEN Extraneous(entries, snapshot) ELSE plan

\* Among the others, the ones that a deletion must have counted.
Counted(S) ==
    {p \in Extraneous(entries, snapshot) \ (S \cup Staging) :
        ~Protected(p) /\ ~Displaced(p)}

\* Whatever of S is open to deletion is still in the tree g.
Present(S, g) ==
    \A p \in S \ Staging : Protected(p) \/ Displaced(p) \/ Exists(g, p)

\* ProtectedKept of the tree g.
ProtectedIn(g) ==
    \A p \in Dest \ (entries \cup Staging) :
      \/ job.filter[p] # "protect" \/ ~Exists(snapshot, p) \/ Exists(g, p)
      \/ \E q \in Above(p) \cap Dest : Displaced(p) \/ (q \notin entries /\ ~Protected(q))

\* A run calls apply_receiver_deletes once at most.
PhasesOK ==
    /\ phase = "none" => deleted = 0 /\ pc # "delete"
    /\ pc = "scan" => phase = "none"
    /\ phase = "before" => o.deleteMode \in {"Before", "During"}
    /\ o.deleteMode \in {"Delay", "After"} /\ pc \in {"next", "apply", "recover"}
         => phase = "none"

\* The inductive strengthening of DeletesWithinLimits: what the deletions have
\* not come to is still there, the rest has been counted, and one counter
\* serves for the whole run.
LimitInv ==
    /\ SafeInv
    /\ WellFormed(snapshot)
    /\ PhasesOK
    /\ plan \subseteq Extraneous(entries, snapshot)
    /\ Present(Pending, fs)
    /\ ProtectedIn(fs)
    /\ Cardinality(Counted(Pending)) <= deleted
    /\ o.maxDelete # NoLimit => deleted <= o.maxDelete

\* A change that takes nothing of what the receiver had before the run, except
\* staging files, offered entries and what has to give way to them.
Retains(f, g) ==
    \A x \in Dest \ (entries \cup Staging) :
      Exists(snapshot, x) /\ ~Displaced(x) /\ Exists(f, x) => Exists(g, x)

\* The properties follow.
LEMMA LimitEnough == LimitInv => DeletesWithinLimits
<1> SUFFICES ASSUME LimitInv
             PROVE  DeletesWithinLimits
  OBVIOUS
<1>1. TypeOK /\ o \in Options
  BY SafeNow, JobFacts DEF LimitInv
<1> DEFINE lost == {p \in Extraneous(entries, snapshot) \ Staging :
                      ~Exists(fs, p) /\ ~Protected(p) /\ ~Displaced(p)}
<1>2. lost \subseteq Counted(Pending)
  BY DEF LimitInv, Present, Counted
<1>3. IsFiniteSet(Counted(Pending))
  <2>1. Counted(Pending) \in SUBSET Path
    BY ExtraneousFacts, TreeAssumption DEF Counted
  <2> QED
    BY <2>1, TreeAssumption, FS_Subset
<1>4. IsFiniteSet(lost) /\ Cardinality(lost) <= Cardinality(Counted(Pending))
  BY <1>2, <1>3, FS_Subset
<1>5. Cardinality(lost) \in Nat /\ Cardinality(Counted(Pending)) \in Nat /\ deleted \in Nat
  BY <1>1, <1>3, <1>4, FS_CardinalityType DEF TypeOK
<1> HIDE DEF lost
<1>6. ASSUME o.maxDelete # NoLimit PROVE Cardinality(lost) <= o.maxDelete
  <2>1. o.maxDelete \in Nat
    BY <1>1, <1>6 DEF Options
  <2>2. Cardinality(Counted(Pending)) <= deleted /\ deleted <= o.maxDelete
    BY <1>6 DEF LimitInv
  <2> QED
    BY <1>4, <1>5, <2>1, <2>2
<1>7. MaxDeleteRespected
  BY <1>6 DEF MaxDeleteRespected, lost
<1>8. ProtectedKept
  BY DEF LimitInv, ProtectedIn, ProtectedKept
<1> QED
  BY <1>7, <1>8 DEF DeletesWithinLimits

\* A change that retains what was there is within the limits.
LEMMA RetainsLimited ==
    ASSUME LimitInv, NEW g, Retains(fs, g)
    PROVE  Present(Pending, g) /\ ProtectedIn(g)
<1>1. \A p \in Pending : p \in Dest \ entries /\ Exists(snapshot, p)
  BY DEF LimitInv, Pending, Extraneous, DestEntries
<1>2. Present(Pending, g)
  BY <1>1 DEF LimitInv, Present, Retains
<1>3. ProtectedIn(g)
  <2> SUFFICES ASSUME NEW p \in Dest \ (entries \cup Staging), job.filter[p] = "protect",
                      Exists(snapshot, p), ~Exists(g, p)
               PROVE  \E q \in Above(p) \cap Dest :
                         Displaced(p) \/ (q \notin entries /\ ~Protected(q))
    BY DEF ProtectedIn
  <2>1. CASE Exists(fs, p)
    <3>1. Displaced(p)
      BY <2>1 DEF Retains
    <3> QED
      BY <3>1, SafeNow DEF Displaced, LimitInv, TypeOK
  <2>2. CASE ~Exists(fs, p)
    BY <2>2 DEF LimitInv, ProtectedIn
  <2> QED
    BY <2>1, <2>2
<1> QED
  BY <1>2, <1>3

\* The walk of the destination, or a new run, opens the account.
LEMMA LimitFresh ==
    ASSUME SafeInv', PhasesOK', snapshot' = fs', deleted' = 0,
           plan' \subseteq Extraneous(entries, snapshot)',
           o'.maxDelete \in Nat \cup {NoLimit},
           phase' = "none" \/ plan' = Extraneous(entries, snapshot)'
    PROVE  LimitInv'
<1>1. Pending' = Extraneous(entries, snapshot)'
  BY DEF Pending
<1>2. Counted(Pending)' = {}
  BY <1>1 DEF Counted
<1>3. Cardinality(Counted(Pending)') = 0
  BY <1>2, FS_EmptySet
<1>4. WellFormed(snapshot)'
  BY DEF SafeInv, TypeOK
<1>5. Present(Pending, fs)'
  BY <1>1 DEF Present, Extraneous, DestEntries
<1>6. ProtectedIn(fs)'
  BY DEF ProtectedIn
<1>7. Cardinality(Counted(Pending))' <= deleted'
  BY <1>3
<1>8. o'.maxDelete # NoLimit => deleted' <= o'.maxDelete
  BY DEF NoLimit
<1> QED
  BY <1>4, <1>5, <1>6, <1>7, <1>8 DEF LimitInv

\* backup_receiver_file retains everything.
LEMMA BackupRetains ==
    ASSUME TypeOK, NEW p \in Dest
    PROVE  /\ CanBackup(fs, p) => Retains(fs, Backup(fs, p))
           /\ \A g \in MaybeBackedUp(p) : Retains(fs, g)
<1>1. CanBackup(fs, p) => Retains(fs, Backup(fs, p))
  BY BackupKeeps, TreeAssumption DEF Retains
<1>2. Retains(fs, fs)
  BY DEF Retains
<1> QED
  BY <1>1, <1>2 DEF MaybeBackedUp

\* So does putting a node in place.
LEMMA PutRetains ==
    ASSUME NEW f \in Tree, NEW p \in Path, NEW n, n.kind # "absent"
    PROVE  Retains(f, Put(f, p, n))
BY NothingRemoved, TreeAssumption DEF Retains

\* Removing an offered entry or a staging file.
LEMMA RemoveRetains ==
    ASSUME NEW f \in Tree, NEW p \in entries \cup Staging
    PROVE  Retains(f, RemoveFile(f, p))
<1>1. \A x \in Path : x # p => RemoveFile(f, p)[x] = f[x]
  BY DEF RemoveFile, Tree
<1> QED
  BY <1>1, TreeAssumption DEF Retains, Exists

\* Retaining is transitive.
LEMMA RetainsChain ==
    ASSUME NEW f, NEW g, NEW h, Retains(f, g), Retains(g, h)
    PROVE  Retains(f, h)
BY DEF Retains

\* remove_conflicting_target: what goes with a directory is displaced.
LEMMA ClearRetains ==
    ASSUME TypeOK, ParentsOffered, StagingOK, Safe(fs), WellFormed(snapshot), NEW p \in entries
    PROVE  /\ CanClear(p) => Retains(fs, Cleared(p))
           /\ Conflict(p) => \A g \in HalfCleared(p) : Retains(fs, g)
<1>1. p \in Dest /\ p \in Path /\ GoodTree(fs) /\ fs \in Tree
  BY EntryFacts DEF Safe, GoodTree
<1>2. ASSUME Conflict(p), fs[p].kind = "dir",
             NEW g, \A q \in Path \ SelfAndUnder(p) : g[q] = fs[q]
      PROVE  Retains(fs, g)
  <2> SUFFICES ASSUME NEW x \in Dest \ (entries \cup Staging), Exists(snapshot, x),
                      ~Displaced(x), Exists(fs, x)
               PROVE  Exists(g, x)
    BY DEF Retains
  <2>1. x \in Path /\ x # p
    BY TreeAssumption
  <2>2. ASSUME x \in Under[p] PROVE FALSE
    <3>1. p \in Above(x)
      BY <1>1, <2>1, <2>2, AboveFacts
    <3>2. snapshot[p].kind = "dir"
      BY <2>1, <3>1 DEF WellFormed
    <3>3. Src(p).kind # "dir"
      BY <1>2 DEF Conflict
    <3> QED
      BY <3>1, <3>2, <3>3 DEF Displaced
  <2> QED
    BY <1>2, <2>1, <2>2 DEF SelfAndUnder, Exists
<1>3. ASSUME Conflict(p), fs[p].kind = "dir"
      PROVE  /\ Retains(fs, RemoveTree(fs, p))
             /\ \A g \in PartlyRemoved(fs, p) : Retains(fs, g)
  <2>1. \A q \in Path \ SelfAndUnder(p) : RemoveTree(fs, p)[q] = fs[q]
    BY <1>1, RemoveTreeGood
  <2>2. Retains(fs, RemoveTree(fs, p))
    BY <1>2, <1>3, <2>1
  <2>3. ASSUME NEW g \in PartlyRemoved(fs, p)
        PROVE  Retains(fs, g)
    <3>1. \A q \in Path \ SelfAndUnder(p) : g[q] = fs[q]
      BY <1>1, <2>3, PartlyRemovedGood
    <3> QED
      BY <1>2, <1>3, <3>1
  <2> QED
    BY <2>2, <2>3
<1>4. ASSUME CanBackup(fs, p)
      PROVE  Retains(fs, RemoveFile(Backup(fs, p), p))
  <2>1. Retains(fs, Backup(fs, p)) /\ Backup(fs, p) \in Tree
    BY <1>1, <1>4, BackupRetains, BackupSafe DEF Safe, GoodTree
  <2>2. Retains(Backup(fs, p), RemoveFile(Backup(fs, p), p))
    BY <2>1, RemoveRetains
  <2> QED
    BY <2>1, <2>2, RetainsChain
<1>5. Retains(fs, fs)
  BY DEF Retains
<1>6. CanClear(p) => Retains(fs, Cleared(p))
  BY <1>3, <1>4, <1>5 DEF CanClear, Cleared
<1>7. Conflict(p) => \A g \in HalfCleared(p) : Retains(fs, g)
  BY <1>1, <1>3, BackupRetains DEF HalfCleared
<1> QED
  BY <1>6, <1>7

\* transfer_file, complete or cut short.
LEMMA WriteRetains ==
    ASSUME TypeOK, ParentsOffered, StagingOK, Safe(fs), NEW p \in entries
    PROVE  /\ CanWrite(p) => \A n : n.kind # "absent" => Retains(fs, Put(Backup(fs, p), p, n))
           /\ \A g \in HalfWritten(p) : Retains(fs, g)
<1>1. p \in Dest /\ p \in Path
  BY EntryFacts
<1>2. ASSUME CanWrite(p), NEW n, n.kind # "absent"
      PROVE  Retains(fs, Put(Backup(fs, p), p, n))
  <2>1. CanBackup(fs, p)
    BY <1>2 DEF CanWrite
  <2>2. Retains(fs, Backup(fs, p)) /\ Backup(fs, p) \in Tree
    BY <1>1, <2>1, BackupRetains, BackupSafe DEF Safe, GoodTree
  <2>3. Retains(Backup(fs, p), Put(Backup(fs, p), p, n))
    BY <1>1, <1>2, <2>2, PutRetains
  <2> QED
    BY <2>2, <2>3, RetainsChain
<1>3. File(Torn, Now).kind # "absent" /\ File(Src(p).data, Now).kind # "absent"
  BY DEF File
<1>4. \A g \in HalfWritten(p) : Retains(fs, g)
  BY <1>1, <1>2, <1>3, BackupRetains DEF HalfWritten
<1> QED
  BY <1>2, <1>4

\* transfer_symlink, complete or cut short.
LEMMA LinkRetains ==
    ASSUME TypeOK, ParentsOffered, NEW p \in entries
    PROVE  /\ Retains(fs, Put(fs, p, Link(Src(p).data)))
           /\ \A g \in HalfLinked(p) : Retains(fs, g)
<1>1. p \in Path /\ fs \in Tree /\ Link(Src(p).data).kind # "absent"
  BY EntryFacts DEF TypeOK, Link
<1>2. Retains(fs, Put(fs, p, Link(Src(p).data)))
  BY <1>1, PutRetains
<1>3. Retains(fs, RemoveFile(fs, p))
  BY <1>1, RemoveRetains
<1>4. Retains(fs, fs)
  BY DEF Retains
<1> QED
  BY <1>2, <1>3, <1>4 DEF HalfLinked

\* finish_delayed_updates, complete or cut short, removes a staging file.
LEMMA FinishRetains ==
    ASSUME TypeOK, ParentsOffered, StagingOK, Safe(fs), NEW p \in entries
    PROVE  /\ CanFinish(p) => \A t : Retains(fs, Renamed(Backup(fs, p), p, t))
           /\ \A g \in HalfFinished(p) : Retains(fs, g)
<1>1. p \in Dest /\ p \in Path /\ StageOf[p] \in Staging
  BY EntryFacts DEF Staging
<1>2. ASSUME CanFinish(p), NEW t
      PROVE  Retains(fs, Renamed(Backup(fs, p), p, t))
  <2> DEFINE f == Backup(fs, p)
             n == File(f[StageOf[p]].data, t)
             g == Put(f, p, n)
  <2>1. CanBackup(fs, p)
    BY <1>2 DEF CanFinish
  <2>2. Retains(fs, f) /\ f \in Tree
    BY <1>1, <2>1, BackupRetains, BackupSafe DEF Safe, GoodTree
  <2>3. n.kind # "absent"
    BY DEF File
  <2> HIDE DEF f, n
  <2>4. Retains(f, g)
    BY <1>1, <2>2, <2>3, PutRetains
  <2>5. \A x \in Path : x # StageOf[p] => RemoveFile(g, StageOf[p])[x] = g[x]
    BY DEF RemoveFile, Put, MakeParents
  <2>6. Retains(g, RemoveFile(g, StageOf[p]))
    BY <1>1, <2>5, TreeAssumption DEF Retains, Exists
  <2>7. Retains(fs, RemoveFile(g, StageOf[p]))
    BY <2>2, <2>4, <2>6, RetainsChain
  <2> QED
    BY <2>7 DEF Renamed, f, n
<1>3. \A g \in HalfFinished(p) : Retains(fs, g)
  BY <1>1, <1>2, BackupRetains DEF HalfFinished
<1> QED
  BY <1>2, <1>3

\* cleanup_delayed_updates removes staging files only.
LEMMA CleanUpRetains ==
    ASSUME SafeInv, CleanUp
    PROVE  Retains(fs, fs')
<1>1. \A p \in staged : StageOf[p] \in Staging
  BY DEF SafeInv, TypeOK, Staging
<1>2. \A x \in Path \ Staging : fs'[x] = fs[x]
  BY <1>1 DEF CleanUp
<1> QED
  BY <1>2, TreeAssumption DEF Retains, Exists

\* What lies below a path is deeper, so plan_deletes has it first.
LEMMA DeepestFirst ==
    ASSUME NEW p \in Path, NEW q \in Under[p]
    PROVE  ~DeletedBefore(p, q)
<1>1. q \in Path /\ p \in Above(q) /\ Above(p) \subseteq Above(q) /\ p \notin Above(p)
  BY AboveFacts
<1>2. IsFiniteSet(Above(q)) /\ IsFiniteSet(Above(p))
  BY <1>1, AboveFacts, TreeAssumption, FS_Subset
<1>3. Cardinality(Above(p)) <= Cardinality(Above(q)) /\ Cardinality(Above(p)) # Cardinality(Above(q))
  BY <1>1, <1>2, FS_Subset
<1>4. Cardinality(Above(p)) \in Nat /\ Cardinality(Above(q)) \in Nat
  BY <1>2, FS_CardinalityType
<1> QED
  BY <1>3, <1>4 DEF DeletedBefore, Depth

\* What a deletion, complete or cut short, may take.
LEMMA DeleteTakes ==
    ASSUME TypeOK, ParentsOffered, StagingOK, Safe(fs), NEW p \in plan, NEW x \in Path,
           Exists(fs, x), x \notin Under[p]
    PROVE  /\ \A g \in HalfDeleted(p) : Exists(g, x)
           /\ x # p /\ (o.dryRun \/ CanDelete(p)) =>
                Exists(Effect(IF snapshot[p].kind = "dir"
                              THEN RemoveTree(fs, p)
                              ELSE RemoveFile(Backup(fs, p), p)), x)
<1>1. p \in Dest /\ p \in Path /\ GoodTree(fs)
  BY PlanApart DEF Safe
<1>2. CanBackup(fs, p) => Exists(Backup(fs, p), x)
  BY <1>1, BackupKeeps
<1>3. ASSUME NEW g \in PartlyRemoved(fs, p)
      PROVE  Exists(g, x)
  BY <1>3 DEF PartlyRemoved, Exists
<1>4. \A g \in HalfDeleted(p) : Exists(g, x)
  BY <1>2, <1>3 DEF HalfDeleted, MaybeBackedUp
<1>5. x # p => Exists(RemoveTree(fs, p), x)
  BY DEF RemoveTree, SelfAndUnder, Exists
<1>6. ASSUME x # p, ~o.dryRun, CanDelete(p), snapshot[p].kind # "dir"
      PROVE  Exists(RemoveFile(Backup(fs, p), p), x)
  <2>1. CanBackup(fs, p)
    BY <1>6 DEF CanDelete
  <2>2. Backup(fs, p) \in [Path -> Node]
    BY <1>1, <2>1, BackupSafe DEF Safe, GoodTree, Tree
  <2> QED
    BY <1>2, <1>6, <2>1, <2>2 DEF RemoveFile, Exists
<1> QED
  BY <1>4, <1>5, <1>6 DEF Effect

\* A deletion keeps what is planned after it, and what a rule protects.
LEMMA DeleteLimited ==
    ASSUME LimitInv, NEW p, Deletable(p), NEW g,
           \A x \in Path : Exists(fs, x) /\ x \notin SelfAndUnder(p) => Exists(g, x)
    PROVE  Present(plan \ {p}, g) /\ ProtectedIn(g)
<1>1. TypeOK /\ p \in plan /\ p \in Dest /\ p \in Path /\ ~Protected(p) /\ p \notin entries
  BY SafeNow, TreeAssumption DEF LimitInv, Deletable, NextDelete, TypeOK
<1>2. Pending = plan
  BY DEF LimitInv, PhasesOK, Pending, Deletable, NextDelete
<1>3. Present(plan \ {p}, g)
  <2> SUFFICES ASSUME NEW x \in (plan \ {p}) \ Staging, ~Protected(x), ~Displaced(x)
               PROVE  Exists(g, x)
    BY DEF Present
  <2>1. x \in Path /\ Exists(fs, x)
    BY <1>1, <1>2, TreeAssumption DEF LimitInv, Present, TypeOK
  <2>2. x \notin Under[p]
    BY <1>1, DeepestFirst DEF Deletable, NextDelete
  <2> QED
    BY <2>1, <2>2 DEF SelfAndUnder
<1>4. ProtectedIn(g)
  <2> SUFFICES ASSUME NEW x \in Dest \ (entries \cup Staging), job.filter[x] = "protect",
                      Exists(snapshot, x), ~Exists(g, x)
               PROVE  \E q \in Above(x) \cap Dest :
                         Displaced(x) \/ (q \notin entries /\ ~Protected(q))
    BY DEF ProtectedIn
  <2>1. x \in Path
    BY TreeAssumption
  <2>2. CASE ~Exists(fs, x)
    BY <2>2 DEF LimitInv, ProtectedIn
  <2>3. CASE Exists(fs, x)
    <3>1. x # p
      BY <1>1 DEF Protected, DeleteIsProtected, SelfAndAbove
    <3>2. x \in Under[p]
      BY <2>1, <2>3, <3>1 DEF SelfAndUnder
    <3>3. p \in Above(x)
      BY <1>1, <2>1, <3>2, AboveFacts
    <3> QED
      BY <1>1, <3>3
  <2> QED
    BY <2>2, <2>3
<1> QED
  BY <1>3, <1>4

\* The frame of a step of the deletions: the predicates speak of the same job.
LEMMA SameJob ==
    ASSUME UNCHANGED <<job, snapshot, entries>>
    PROVE  /\ Extraneous(entries, snapshot)' = Extraneous(entries, snapshot)
           /\ o' = o
           /\ \A p : (Protected(p)' <=> Protected(p)) /\ (Displaced(p)' <=> Displaced(p))
           /\ Present(Pending, fs)' <=> Present(Pending', fs')
           /\ ProtectedIn(fs)' <=> ProtectedIn(fs')
           /\ Counted(Pending)' = Counted(Pending')
<1>1. Extraneous(entries, snapshot)' = Extraneous(entries, snapshot) /\ o' = o
  BY DEF Extraneous, o
<1>2. \A p : (Protected(p)' <=> Protected(p)) /\ (Displaced(p)' <=> Displaced(p))
  BY <1>1 DEF Protected, Displaced, Src, o
<1>3. Present(Pending, fs)' <=> Present(Pending', fs')
  BY <1>2 DEF Present
<1>4. ProtectedIn(fs)' <=> ProtectedIn(fs')
  BY <1>2 DEF ProtectedIn
<1>5. Counted(Pending)' = Counted(Pending')
  BY <1>1, <1>2 DEF Counted
<1> QED
  BY <1>1, <1>2, <1>3, <1>4, <1>5

\* Counted is finite, and grows by no more than the path just dealt with.
LEMMA CountedGrows ==
    ASSUME NEW S, NEW p
    PROVE  /\ Cardinality(Counted(S)) \in Nat
           /\ Cardinality(Counted(S \ {p})) \in Nat
           /\ Cardinality(Counted(S \ {p})) <= Cardinality(Counted(S)) + 1
           /\ p \notin Counted(S \ {p}) =>
                Cardinality(Counted(S \ {p})) <= Cardinality(Counted(S))
<1>1. \A T : Counted(T) \in SUBSET Path
  BY ExtraneousFacts, TreeAssumption DEF Counted
<1>2. \A T : IsFiniteSet(Counted(T)) /\ Cardinality(Counted(T)) \in Nat
  BY <1>1, TreeAssumption, FS_Subset, FS_CardinalityType
<1>3. Counted(S \ {p}) \subseteq Counted(S) \cup {p}
  BY DEF Counted
<1>4. /\ IsFiniteSet(Counted(S) \cup {p})
      /\ Cardinality(Counted(S) \cup {p}) \in {Cardinality(Counted(S)), Cardinality(Counted(S)) + 1}
  BY <1>2, FS_AddElement
<1>5. Cardinality(Counted(S \ {p})) <= Cardinality(Counted(S) \cup {p})
  BY <1>3, <1>4, FS_Subset
<1>6. Cardinality(Counted(S \ {p})) <= Cardinality(Counted(S)) + 1
  <2>1. Cardinality(Counted(S)) \in Nat /\ Cardinality(Counted(S \ {p})) \in Nat
    BY <1>2
  <2> QED
    BY <1>4, <1>5, <2>1
<1>7. ASSUME p \notin Counted(S \ {p})
      PROVE  Cardinality(Counted(S \ {p})) <= Cardinality(Counted(S))
  <2>1. Counted(S \ {p}) \subseteq Counted(S)
    BY <1>3, <1>7
  <2> QED
    BY <1>2, <2>1, FS_Subset
<1> QED
  BY <1>2, <1>6, <1>7

\* A step within a run that begins no second round of deletions and stays
\* within the limits.
LEMMA LimitNext ==
    ASSUME LimitInv, SafeInv', UNCHANGED <<job, snapshot, entries, deleted>>,
           PhasesOK', plan' \subseteq Extraneous(entries, snapshot),
           Pending' = Pending, Present(Pending, fs'), ProtectedIn(fs')
    PROVE  LimitInv'
BY SameJob DEF LimitInv

\* What a deletion that is cut short leaves is within the limits.
LEMMA HalfDeletedLimited ==
    ASSUME LimitInv, NEW p, Deletable(p), NEW g \in HalfDeleted(p)
    PROVE  Present(Pending, g) /\ ProtectedIn(g)
<1>1. /\ TypeOK /\ ParentsOffered /\ StagingOK /\ Safe(fs)
      /\ p \in plan /\ p \in Path /\ Exists(fs, p) /\ p \notin Under[p]
  BY SafeNow, TreeAssumption, AboveFacts DEF LimitInv, Deletable, NextDelete, TypeOK
<1>2. \A x \in Path : Exists(fs, x) /\ x \notin Under[p] => Exists(g, x)
  BY <1>1, DeleteTakes
<1>3. Present(plan \ {p}, g) /\ ProtectedIn(g)
  BY <1>2, DeleteLimited DEF SelfAndUnder
<1>4. Exists(g, p)
  BY <1>1, <1>2
<1>5. Pending = plan
  BY DEF LimitInv, PhasesOK, Pending, Deletable, NextDelete
<1> QED
  BY <1>3, <1>4, <1>5 DEF Present

\* apply_receiver_deletes
LEMMA DeleteLimits ==
    ASSUME LimitInv, SafeInv', NEW p \in Path, DeleteStep(p)
    PROVE  LimitInv'
<1>1. /\ TypeOK /\ ParentsOffered /\ StagingOK /\ Safe(fs) /\ o \in Options
      /\ Cardinality(Counted(plan)) <= deleted /\ deleted \in Nat
  BY SafeNow, JobFacts DEF LimitInv, PhasesOK, Pending, DeleteStep, SkipDelete,
     StopAtMaxDelete, DeleteEntry, DeleteEntryFails, Deletable, NextDelete, TypeOK
<1>2. /\ UNCHANGED <<job, snapshot, entries, phase>> /\ pc = "delete" /\ p \in plan
      /\ phase # "none" /\ Pending = plan /\ Pending' = plan'
  BY DEF LimitInv, PhasesOK, Pending, DeleteStep, SkipDelete, StopAtMaxDelete, DeleteEntry,
     DeleteEntryFails, Deletable, NextDelete, ReturnError
<1>3. plan' \subseteq plan /\ plan' \subseteq Extraneous(entries, snapshot)
  BY DEF LimitInv, DeleteStep, SkipDelete, StopAtMaxDelete, DeleteEntry, DeleteEntryFails,
     ReturnError
<1>4. PhasesOK'
  BY <1>2 DEF LimitInv, PhasesOK, o, DeleteStep, SkipDelete, StopAtMaxDelete, DeleteEntry,
     DeleteEntryFails, ReturnError
<1>5. /\ Cardinality(Counted(plan)) \in Nat
      /\ Cardinality(Counted(plan \ {p})) \in Nat
      /\ Cardinality(Counted(plan \ {p})) <= Cardinality(Counted(plan)) + 1
      /\ p \notin Counted(plan \ {p}) =>
           Cardinality(Counted(plan \ {p})) <= Cardinality(Counted(plan))
  BY CountedGrows
<1>6. ASSUME Present(plan', fs'), ProtectedIn(fs'), Cardinality(Counted(plan')) <= deleted',
             o.maxDelete # NoLimit => deleted' <= o.maxDelete
      PROVE  LimitInv'
  BY <1>2, <1>3, <1>4, <1>6, SameJob DEF LimitInv
<1>7. CASE SkipDelete(p)
  <2>1. fs' = fs /\ plan' = plan \ {p} /\ deleted' = deleted
    BY <1>7 DEF SkipDelete
  <2>2. Present(plan', fs') /\ ProtectedIn(fs')
    BY <1>2, <2>1 DEF LimitInv, Present
  <2>3. p \notin Counted(plan \ {p})
    BY <1>2, <1>7 DEF LimitInv, Present, Counted, SkipDelete
  <2>4. Cardinality(Counted(plan')) <= deleted'
    BY <1>1, <1>5, <2>1, <2>3
  <2> QED
    BY <1>6, <2>1, <2>2, <2>4 DEF LimitInv
<1>8. CASE StopAtMaxDelete(p)
  <2>1. fs' = fs /\ plan' = plan /\ deleted' = deleted
    BY <1>8 DEF StopAtMaxDelete, ReturnError
  <2> QED
    BY <1>2, <1>3, <1>6, <2>1 DEF LimitInv
<1>9. CASE DeleteEntry(p)
  <2>1. /\ Deletable(p) /\ plan' = plan \ {p} /\ deleted' = deleted + 1
        /\ o.dryRun \/ CanDelete(p)
    BY <1>9 DEF DeleteEntry
  <2>2. \A x \in Path : Exists(fs, x) /\ x \notin SelfAndUnder(p) => Exists(fs', x)
    BY <1>1, <1>2, <1>9, <2>1, DeleteTakes DEF DeleteEntry, SelfAndUnder
  <2>3. Present(plan', fs') /\ ProtectedIn(fs')
    BY <2>1, <2>2, DeleteLimited
  <2>4. Cardinality(Counted(plan')) <= deleted'
    BY <1>1, <1>5, <2>1
  <2>5. ASSUME o.maxDelete # NoLimit PROVE deleted' <= o.maxDelete
    <3>1. o.maxDelete \in Nat
      BY <1>1, <2>5 DEF Options
    <3>2. ~(deleted >= o.maxDelete)
      BY <2>1, <2>5 DEF Deletable, MaxDeleteExceeded
    <3> QED
      BY <1>1, <2>1, <3>1, <3>2
  <2> QED
    BY <1>6, <2>3, <2>4, <2>5
<1>10. CASE DeleteEntryFails(p)
  <2>1. Deletable(p) /\ fs' \in HalfDeleted(p) /\ plan' = plan /\ deleted' = deleted
    BY <1>10 DEF DeleteEntryFails, ReturnError
  <2>2. Present(plan', fs') /\ ProtectedIn(fs')
    BY <1>2, <2>1, HalfDeletedLimited
  <2> QED
    BY <1>1, <1>6, <2>1, <2>2 DEF LimitInv
<1> QED
  BY <1>7, <1>8, <1>9, <1>10 DEF DeleteStep

\* One entry of the loop.
LEMMA EntryRetains ==
    ASSUME LimitInv, NEW p \in Path, EntryStep(p)
    PROVE  Retains(fs, fs')
<1>1. /\ TypeOK /\ ParentsOffered /\ StagingOK /\ Safe(fs) /\ WellFormed(snapshot)
      /\ fs \in Tree
  BY SafeNow DEF LimitInv, TypeOK
<1>2. Retains(fs, fs)
  BY DEF Retains
<1>3. \/ fs' = fs \/ ClearTarget(p) \/ ClearTargetFails(p) \/ CreateDir(p) \/ UpToDate(p)
      \/ WriteFile(p) \/ WriteFileFails(p) \/ StageFile(p) \/ CreateSymlink(p)
      \/ CreateSymlinkFails(p) \/ FinishDelayed(p) \/ FinishDelayedFails(p)
  BY DEF EntryStep, SkipDirectory, SkipSpecial, RefuseSpecial, KeepConflict, SkipEntry,
         CreateDirFails, UpToDateFails, StageFileFails
<1>4. CASE ClearTarget(p) \/ ClearTargetFails(p)
  <2>1. p \in entries
    BY <1>1, <1>4, FirstFacts DEF ClearTarget, ClearTargetFails, Handled
  <2> QED
    BY <1>1, <1>2, <1>4, <2>1, ClearRetains DEF ClearTarget, ClearTargetFails, Effect
<1>5. CASE CreateDir(p)
  <2>1. Retains(fs, MakeDir(fs, p))
    BY <1>1, NothingRemoved, TreeAssumption DEF Retains
  <2> QED
    BY <1>2, <1>5, <2>1 DEF CreateDir, Effect
<1>6. CASE UpToDate(p)
  <2> DEFINE g == SetMtime(fs, p, Src(p).mtime)
  <2>1. Src(p).mtime \in Stamp \cup {Now}
    BY <1>1, JobFacts DEF Node
  <2>2. \A q \in Path : g[q].kind = fs[q].kind
    BY <1>1, <2>1, SetMtimeGood DEF Safe
  <2>3. fs' = fs \/ fs' = g
    BY <1>6 DEF UpToDate, Effect
  <2> HIDE DEF g
  <2> QED
    BY <2>2, <2>3, TreeAssumption DEF Retains, Exists
<1>7. CASE WriteFile(p) \/ WriteFileFails(p)
  <2>1. p \in entries /\ Src(p).kind = "file"
    BY <1>1, <1>7, FirstFacts DEF WriteFile, WriteFileFails, Applying
  <2>2. Delivered(p).kind # "absent"
    BY DEF Delivered, File
  <2> QED
    BY <1>1, <1>2, <1>7, <2>1, <2>2, WriteRetains DEF WriteFile, WriteFileFails, Effect
<1>8. CASE StageFile(p)
  <2>1. StageOf[p] \in Path
    BY <1>1, <1>8, FirstFacts, JobFacts DEF StageFile, Applying
  <2>2. File(Src(p).data, Now).kind # "absent"
    BY DEF File
  <2> QED
    BY <1>1, <1>8, <2>1, <2>2, PutRetains DEF StageFile
<1>9. CASE CreateSymlink(p) \/ CreateSymlinkFails(p)
  <2>1. p \in entries
    BY <1>1, <1>9, FirstFacts DEF CreateSymlink, CreateSymlinkFails, Applying
  <2> QED
    BY <1>1, <1>2, <1>9, <2>1, LinkRetains DEF CreateSymlink, CreateSymlinkFails, Effect
<1>10. CASE FinishDelayed(p) \/ FinishDelayedFails(p)
  <2>1. p \in entries
    BY <1>1, <1>10 DEF FinishDelayed, FinishDelayedFails, IsFirst, TypeOK
  <2> QED
    BY <1>1, <1>10, <2>1, FinishRetains DEF FinishDelayed, FinishDelayedFails
<1> QED
  BY <1>2, <1>3, <1>4, <1>5, <1>6, <1>7, <1>8, <1>9, <1>10

\* A kill, whatever operation it cuts short.
LEMMA CrashLimited ==
    ASSUME LimitInv, Crash
    PROVE  Present(Pending, fs') /\ ProtectedIn(fs')
<1>1. TypeOK /\ ParentsOffered /\ StagingOK /\ Safe(fs) /\ WellFormed(snapshot)
  BY SafeNow DEF LimitInv
<1> DEFINE Good(g) == Present(Pending, g) /\ ProtectedIn(g)
<1>2. \A g : Retains(fs, g) => Good(g)
  BY RetainsLimited
<1>3. Good(fs)
  BY DEF LimitInv
<1>4. ASSUME NEW p \in Path, Deletable(p), NEW g \in HalfDeleted(p)
      PROVE  Good(g)
  BY <1>4, HalfDeletedLimited
<1> HIDE DEF Good
<1>5. ASSUME NEW p \in Path, Handled(p), Conflict(p), NEW g \in HalfCleared(p)
      PROVE  Good(g)
  BY <1>1, <1>2, <1>5, ClearRetains, FirstFacts DEF Handled
<1>6. ASSUME NEW p \in Path, Applying(p, "file"), NEW g \in HalfWritten(p)
      PROVE  Good(g)
  BY <1>1, <1>2, <1>6, WriteRetains, FirstFacts DEF Applying
<1>7. ASSUME NEW p \in Path, Applying(p, "link"), NEW g \in HalfLinked(p)
      PROVE  Good(g)
  BY <1>1, <1>2, <1>7, LinkRetains, FirstFacts DEF Applying
<1>8. ASSUME NEW p \in Path, IsFirst(p, staged), NEW g \in HalfFinished(p)
      PROVE  Good(g)
  BY <1>1, <1>2, <1>8, FinishRetains DEF IsFirst, TypeOK
<1>9. \A g \in CutShort : Good(g)
  BY <1>3, <1>4, <1>5, <1>6, <1>7, <1>8 DEF CutShort
<1>10. Good(fs')
  BY <1>9 DEF Crash
<1> QED
  BY <1>10 DEF Good

\* LimitInv is inductive.
LEMMA LimitInductive == LimitInv /\ [Next]_vars => LimitInv'
<1> SUFFICES ASSUME LimitInv, [Next]_vars
             PROVE  LimitInv'
  OBVIOUS
<1>1. /\ SafeInv /\ SafeInv' /\ TypeOK /\ PhasesOK
      /\ plan \subseteq Extraneous(entries, snapshot)
      /\ Present(Pending, fs) /\ ProtectedIn(fs)
  BY SafeInductive, SafeNow DEF LimitInv
<1>2. o'.maxDelete \in Nat \cup {NoLimit}
  <2>1. job' \in Jobs
    BY <1>1 DEF SafeInv, TypeOK
  <2>2. job' \in [src : Tree, options : Options, selected : SUBSET Path,
                  filter : [Path -> {"include", "exclude", "hide", "protect"}]]
    BY <2>1, JobAssumption
  <2>3. o' \in Options
    BY <2>2 DEF o
  <2> QED
    BY <2>3 DEF Options
<1>3. ASSUME UNCHANGED <<job, snapshot, entries, deleted, plan, phase>>, pc # "scan",
             pc' = "delete" => pc = "delete",
             pc' \in {"delete", "next", "apply", "recover", "unfinished", "times", "done"},
             pc' \in {"next", "apply", "recover"} => pc \in {"next", "apply", "recover"},
             Present(Pending, fs'), ProtectedIn(fs')
      PROVE  LimitInv'
  <2>1. Pending' = Pending
    BY <1>3 DEF Pending, Extraneous, o
  <2>2. PhasesOK'
    BY <1>1, <1>3 DEF PhasesOK, o
  <2> QED
    BY <1>1, <1>3, <2>1, <2>2, LimitNext
<1>4. ASSUME UNCHANGED <<job, snapshot, entries>>, phase = "none", NEW when \in {"after", "onError"},
             BeginDeletes(when, entries, snapshot), Present(Pending, fs'), ProtectedIn(fs')
      PROVE  LimitInv'
  <2>1. plan' = Extraneous(entries, snapshot) /\ Pending' = Pending /\ deleted' = deleted
    BY <1>1, <1>4 DEF Pending, BeginDeletes, PhasesOK
  <2>2. PhasesOK'
    BY <1>4 DEF PhasesOK, BeginDeletes
  <2> QED
    BY <1>1, <1>4, <2>1, <2>2, LimitNext
<1>5. CASE Scan
  <2>1. /\ pc = "scan" /\ phase = "none" /\ deleted = 0 /\ plan = {}
        /\ job' = job /\ o' = o /\ fs' = fs /\ snapshot' = fs'
    BY <1>1, <1>5 DEF Scan, PhasesOK, SafeInv, o
  <2>2. CASE o.deleteMode \in {"Before", "During"}
    <3>1. /\ pc' = "delete" /\ phase' = "before" /\ deleted' = 0
          /\ plan' = Extraneous(entries', snapshot')
      BY <1>5, <2>1, <2>2 DEF Scan, BeginDeletes
    <3>2. plan' = Extraneous(entries, snapshot)'
      BY <2>1, <3>1 DEF Extraneous
    <3>3. PhasesOK'
      BY <2>1, <2>2, <3>1 DEF PhasesOK
    <3> QED
      BY <1>1, <1>2, <2>1, <3>1, <3>2, <3>3, LimitFresh
  <2>3. CASE o.deleteMode \notin {"Before", "During"}
    <3>1. pc' = "next" /\ phase' = "none" /\ deleted' = 0 /\ plan' = {}
      BY <1>5, <2>1, <2>3 DEF Scan
    <3>2. PhasesOK'
      BY <3>1 DEF PhasesOK
    <3> QED
      BY <1>1, <1>2, <2>1, <3>1, <3>2, LimitFresh
  <2> QED
    BY <2>2, <2>3
<1>6. CASE ScanFails
  <2>1. /\ UNCHANGED <<job, snapshot, entries, deleted, plan, phase, fs>> /\ pc' = "done"
        /\ phase = "none"
    BY <1>1, <1>6 DEF ScanFails, ReturnError, PhasesOK
  <2>2. Pending' = Pending
    BY <2>1 DEF Pending, Extraneous, o
  <2>3. PhasesOK'
    BY <1>1, <2>1 DEF PhasesOK
  <2> QED
    BY <1>1, <2>1, <2>2, <2>3, LimitNext
<1>7. ASSUME NEW p \in Path, DeleteStep(p)
      PROVE  LimitInv'
  BY <1>1, <1>7, DeleteLimits
<1>8. CASE DeletesDone
  <2>1. /\ UNCHANGED <<job, snapshot, entries, deleted, plan, phase, fs>> /\ pc = "delete"
        /\ pc' \in {"next", "times", "done"} /\ (pc' = "next" => phase = "before")
    BY <1>8 DEF DeletesDone
  <2>2. Pending' = Pending
    BY <2>1 DEF Pending, Extraneous, o
  <2>3. PhasesOK'
    BY <1>1, <2>1 DEF PhasesOK, o
  <2> QED
    BY <1>1, <2>1, <2>2, <2>3, LimitNext
<1>9. CASE Deadline \/ DirectoryTimes \/ DirectoryTimesFail
  <2>1. /\ UNCHANGED <<job, snapshot, entries, deleted, plan, phase, fs>> /\ pc # "scan"
        /\ pc' = "done"
    BY <1>9 DEF Deadline, DirectoryTimes, DirectoryTimesFail, ReturnError
  <2> QED
    BY <1>1, <1>3, <2>1
<1>10. ASSUME NEW p \in Path, EntryStep(p)
       PROVE  LimitInv'
  <2>1. UNCHANGED <<job, snapshot, entries, deleted, plan, phase>>
    BY <1>10 DEF EntryStep, SkipDirectory, SkipSpecial, RefuseSpecial, KeepConflict, SkipEntry,
         ClearTarget, ClearTargetFails, CreateDir, CreateDirFails, UpToDate, UpToDateFails,
         WriteFile, WriteFileFails, StageFile, StageFileFails, CreateSymlink,
         CreateSymlinkFails, FinishDelayed, FinishDelayedFails, Applied, Frame,
         TransferError, ReturnError
  <2>2. pc \in {"next", "apply"} /\ pc' \in {"next", "apply", "recover", "unfinished", "done"}
    BY <1>10 DEF EntryStep, SkipDirectory, SkipSpecial, RefuseSpecial, KeepConflict, SkipEntry,
         ClearTarget, ClearTargetFails, CreateDir, CreateDirFails, UpToDate, UpToDateFails,
         WriteFile, WriteFileFails, StageFile, StageFileFails, CreateSymlink,
         CreateSymlinkFails, FinishDelayed, FinishDelayedFails, Applied, Handled, Applying,
         TransferError, ReturnError
  <2>3. Present(Pending, fs') /\ ProtectedIn(fs')
    BY <1>10, EntryRetains, RetainsLimited
  <2> QED
    BY <1>3, <2>1, <2>2, <2>3
<1>11. CASE Recover
  <2>1. Present(Pending, fs') /\ ProtectedIn(fs')
    BY <1>1, <1>11, CleanUpRetains, RetainsLimited DEF Recover
  <2>2. CASE o.ignoreErrors /\ o.deleteMode \in {"Delay", "After"}
    <3>1. /\ UNCHANGED <<job, snapshot, entries>> /\ phase = "none"
          /\ BeginDeletes("onError", entries, snapshot)
      BY <1>1, <1>11, <2>2 DEF Recover, PhasesOK
    <3> QED
      BY <1>4, <2>1, <3>1
  <2>3. CASE ~(o.ignoreErrors /\ o.deleteMode \in {"Delay", "After"})
    <3>1. /\ UNCHANGED <<job, snapshot, entries, deleted, plan, phase>> /\ pc = "recover"
          /\ pc' = "done"
      BY <1>11, <2>3 DEF Recover
    <3> QED
      BY <1>3, <2>1, <3>1
  <2> QED
    BY <2>2, <2>3
<1>12. CASE Unfinished
  <2>1. Present(Pending, fs') /\ ProtectedIn(fs')
    BY <1>1, <1>12, CleanUpRetains, RetainsLimited DEF Unfinished
  <2>2. /\ UNCHANGED <<job, snapshot, entries, deleted, plan, phase>> /\ pc = "unfinished"
        /\ pc' = "done"
    BY <1>12 DEF Unfinished
  <2> QED
    BY <1>3, <2>1, <2>2
<1>13. CASE TransfersDone
  <2>1. UNCHANGED <<job, snapshot, entries, fs>> /\ pc = "next"
    BY <1>13 DEF TransfersDone
  <2>2. CASE o.deleteMode \in {"Delay", "After"}
    <3>1. phase = "none" /\ BeginDeletes("after", entries, snapshot)
      BY <1>1, <1>13, <2>1, <2>2 DEF TransfersDone, PhasesOK
    <3> QED
      BY <1>1, <1>4, <2>1, <3>1
  <2>3. CASE o.deleteMode \notin {"Delay", "After"}
    <3>1. UNCHANGED <<deleted, plan, phase>> /\ pc' = "times"
      BY <1>13, <2>3 DEF TransfersDone
    <3> QED
      BY <1>1, <1>3, <2>1, <3>1
  <2> QED
    BY <2>2, <2>3
<1>14. CASE Crash
  <2>1. UNCHANGED <<job, snapshot, entries, deleted, plan, phase>> /\ pc' = "done"
    BY <1>14 DEF Crash
  <2>2. Pending' = Pending
    BY <2>1 DEF Pending, Extraneous, o
  <2>3. PhasesOK'
    BY <1>1, <2>1 DEF PhasesOK, o
  <2>4. Present(Pending, fs') /\ ProtectedIn(fs')
    BY <1>14, CrashLimited
  <2> QED
    BY <1>1, <2>1, <2>2, <2>3, <2>4, LimitNext
<1>15. CASE NextRun
  <2>1. /\ snapshot' = fs' /\ deleted' = 0 /\ plan' = {} /\ phase' = "none" /\ pc' = "scan"
    BY <1>15 DEF NextRun
  <2>2. PhasesOK'
    BY <2>1 DEF PhasesOK
  <2> QED
    BY <1>1, <1>2, <2>1, <2>2, LimitFresh
<1>16. CASE UNCHANGED vars
  <2>1. UNCHANGED <<job, snapshot, entries, deleted, plan, phase, fs, pc>>
    BY <1>16 DEF vars
  <2>2. Pending' = Pending
    BY <2>1 DEF Pending, Extraneous, o
  <2>3. PhasesOK'
    BY <1>1, <2>1 DEF PhasesOK, o
  <2> QED
    BY <1>1, <2>1, <2>2, <2>3, LimitNext
<1> QED
  BY <1>5, <1>6, <1>7, <1>8, <1>9, <1>10, <1>11, <1>12, <1>13, <1>14, <1>15, <1>16
     DEF Next, Step

\* LimitInv holds initially.
LEMMA LimitInit == Init => LimitInv
<1> SUFFICES ASSUME Init
             PROVE  LimitInv
  OBVIOUS
<1>1. SafeInv /\ TypeOK
  BY SafeInit, SafeNow
<1>2. /\ snapshot = fs /\ deleted = 0 /\ plan = {} /\ phase = "none" /\ pc = "scan"
      /\ WellFormed(snapshot)
  BY <1>1 DEF Init, Start, TypeOK
<1>3. Pending = Extraneous(entries, snapshot)
  BY <1>2 DEF Pending
<1>4. Counted(Pending) = {}
  BY <1>3 DEF Counted
<1>5. Cardinality(Counted(Pending)) <= deleted
  BY <1>2, <1>4, FS_EmptySet
<1>6. o.maxDelete # NoLimit => deleted <= o.maxDelete
  BY <1>1, <1>2, JobFacts DEF Options, NoLimit
<1>7. Present(Pending, fs)
  BY <1>2, <1>3 DEF Present, Extraneous, DestEntries
<1>8. ProtectedIn(fs)
  BY <1>2 DEF ProtectedIn
<1>9. PhasesOK
  BY <1>2 DEF PhasesOK
<1> QED
  BY <1>1, <1>2, <1>5, <1>6, <1>7, <1>8, <1>9 DEF LimitInv

-----------------------------------------------------------------------------
(* Theorems                                                                *)

\* SafeInv is an invariant of every instance of LocalSync.
THEOREM SafeInvariant == Spec => []SafeInv
BY SafeInit, SafeInductive, PTL DEF Spec

\* The state is well typed and the destination stays a tree.
THEOREM TypeCorrect == Spec => []TypeOK
<1>1. SafeInv => TypeOK
  BY DEF SafeInv
<1> QED
  BY <1>1, SafeInvariant, PTL

\* Without --inplace an offered file of the receiver has its old or its new
\* content at every moment, after every failure and after every crash.
THEOREM FilesOldOrNew == Spec => []OldOrNew
<1>1. SafeInv => OldOrNew
  BY DEF SafeInv
<1> QED
  BY <1>1, SafeInvariant, PTL

\* apply_receiver_deletes takes away nothing that the sender offers.
THEOREM OfferedSpared == Spec => DeletesSpareOffered
<1> DEFINE Spares == pc = "delete" => \A p \in entries : Exists(fs, p) => Exists(fs', p)
<1>1. SafeInv /\ [Next]_vars => [Spares]_vars
  <2> SUFFICES ASSUME SafeInv, Next, pc = "delete"
               PROVE  \A p \in entries : Exists(fs, p) => Exists(fs', p)
    OBVIOUS
  <2>1. TypeOK /\ ParentsOffered /\ StagingOK /\ Safe(fs)
    BY SafeNow
  <2>2. ASSUME NEW p \in Path, DeleteEntry(p)
        PROVE  \A q \in entries : Exists(fs, q) => Exists(fs', q)
    BY <2>1, <2>2, DeletedSafe DEF DeleteEntry, Deletable, NextDelete
  <2>3. ASSUME NEW p \in Path, DeleteEntryFails(p)
        PROVE  \A q \in entries : Exists(fs, q) => Exists(fs', q)
    BY <2>1, <2>3, HalfDeletedSafe DEF DeleteEntryFails, Deletable, NextDelete
  <2>4. CASE Crash
    <3>1. \A p \in Path : ~Handled(p) /\ ~Applying(p, "file") /\ ~Applying(p, "link")
      BY DEF Handled, Applying
    <3>2. fs' = fs \/ \E p \in Path : Deletable(p) /\ fs' \in HalfDeleted(p)
      BY <2>4, <3>1 DEF Crash, CutShort
    <3> QED
      BY <2>1, <3>2, HalfDeletedSafe DEF Deletable, NextDelete
  <2>5. CASE UNCHANGED fs
    BY <2>5
  <2>6. \/ \E p \in Path : DeleteEntry(p) \/ DeleteEntryFails(p)
        \/ Crash
        \/ UNCHANGED fs
    BY DEF Next, Step, Scan, ScanFails, DeleteStep, SkipDelete, StopAtMaxDelete,
           DeletesDone, Deadline, EntryStep, SkipDirectory, SkipSpecial,
           RefuseSpecial, KeepConflict, ClearTarget, ClearTargetFails, Handled,
           CreateDir, CreateDirFails, UpToDate, UpToDateFails, WriteFile,
           WriteFileFails, StageFile, StageFileFails, CreateSymlink,
           CreateSymlinkFails, Applying, FinishDelayed, FinishDelayedFails,
           Recover, Unfinished, TransfersDone, DirectoryTimes,
           DirectoryTimesFail, NextRun
  <2> QED
    BY <2>2, <2>3, <2>4, <2>5, <2>6
<1> QED
  BY <1>1, SafeInvariant, PTL DEF Spec, DeletesSpareOffered

\* With --delay-updates no offered file of the receiver shows its new content
\* while entries are pending: not beside the deletions, not after an error or a
\* kill, and not in the run that follows (finish_delayed_updates).
THEOREM NothingShownEarly == Spec => []DelayHolds
<1>1. Init => DelayInv
  BY SafeInit DEF Init, Start, DelayInv
<1>2. DelayInv => DelayHolds
  BY DEF DelayInv, DelayHolds, Unshown
<1> QED
  BY <1>1, <1>2, DelayInductive, PTL DEF Spec

\* --delete stays within its limits: no more is lost than --max-delete allows,
\* and nothing that a rule protects, in every delete mode, after every failure
\* and every kill (apply_receiver_deletes).
THEOREM DeletesAreLimited == Spec => []DeletesWithinLimits
BY LimitInit, LimitInductive, LimitEnough, PTL DEF Spec
=============================================================================
