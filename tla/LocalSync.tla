----------------------------- MODULE LocalSync ------------------------------
(***************************************************************************)
(* One destination tree and the runs of sync_tree (rsync-fs/src/sync.rs)   *)
(* against it.  Every step is one filesystem operation of the code, or one *)
(* decision between two of them, so a failure or a crash can fall between  *)
(* any two.  The order is the code's: walk both sides, delete (before or   *)
(* during), transfer the entries in path order, rename the delayed         *)
(* updates, delete (delay or after), set directory times.                  *)
(***************************************************************************)
EXTENDS ReceiverTree

CONSTANTS
    Jobs,       \* what a run may be asked to do: sources, rules and options
    Disks,      \* the destination trees the first run may find
    BackupOf,   \* backup_path_for: where --backup saves a file
    StageOf,    \* delayed_update_path: where --delay-updates stages a file
    MaxFaults,  \* bound: operations of the filesystem that fail unprompted
    MaxRuns     \* bound: consecutive runs over the same destination

NoLimit == -1

DeleteModes == {"None", "Before", "During", "Delay", "After"}
UpdateModes == {"QuickCheck", "Checksum", "SizeOnly", "IgnoreTimes"}

\* The fields of SyncOptions that decide what happens to ordinary entries.
Options ==
    [dryRun : BOOLEAN, recursive : BOOLEAN, transferDirs : BOOLEAN,
     deleteMode : DeleteModes, deleteExcluded : BOOLEAN,
     ignoreErrors : BOOLEAN, forceDelete : BOOLEAN,
     maxDelete : Nat \cup {NoLimit}, backup : BOOLEAN,
     delayUpdates : BOOLEAN, keepPartial : BOOLEAN, inPlace : BOOLEAN,
     preserveMtime : BOOLEAN, deadline : BOOLEAN, failSpecials : BOOLEAN,
     update : UpdateModes, existingOnly : BOOLEAN, ignoreExisting : BOOLEAN,
     skipNewer : BOOLEAN, maxSize : Nat, minSize : Nat, modifyWindow : Int]

ASSUME JobAssumption ==
    /\ Jobs \subseteq [src : Tree, options : Options, selected : SUBSET Path,
                       filter : [Path -> {"include", "exclude", "hide", "protect"}]]
    /\ Disks \subseteq Tree
    /\ \A j \in Jobs : WellFormed(j.src)
    /\ \A j \in Jobs, p \in Path : j.src[p].kind = "file" => j.src[p].mtime \in Stamp
    /\ \A d \in Disks : WellFormed(d)
    /\ BackupOf \in [Dest -> Path]
    /\ StageOf \in [Dest -> Path]
    /\ MaxFaults \in Nat
    /\ MaxRuns \in Nat

\* The places where backups and staging files go are no places of the source,
\* and every file has a backup place and every offered file a staging place of
\* its own.  The code joins a suffix or a directory name to the path and does
\* not look for a clash.
ASSUME ApartAssumption ==
    /\ \A p, q \in Dest : BackupOf[p] = BackupOf[q] => p = q
    /\ \A j \in Jobs :
         /\ \A p \in Dest : ~Exists(j.src, BackupOf[p])
         /\ \A p, q \in Dest : j.src[p].kind = "file" =>
              /\ \A r \in SelfAndAbove(StageOf[p]) : ~Exists(j.src, r)
              /\ BackupOf[q] # StageOf[p]
              /\ j.src[q].kind = "file" /\ StageOf[p] = StageOf[q] => p = q

VARIABLES
    job,        \* the arguments of the run
    fs,         \* the receiver's filesystem
    snapshot,   \* dest_entries: what the walk of the destination found
    entries,    \* source_entries: the paths the sender offers
    pc,         \* where sync_tree is
    todo,       \* entries the transfer loop has not finished
    staged,     \* delayed_transfers not renamed yet
    plan,       \* delete decisions not carried out yet
    phase,      \* which call of apply_receiver_deletes this is
    deleted,    \* its count of deletions
    result,     \* what sync_tree returned
    faults,     \* failures injected so far
    runs        \* runs started

vars == <<job, fs, snapshot, entries, pc, todo, staged, plan, phase, deleted,
          result, faults, runs>>

o == job.options
Src(p) == job.src[p]

\* A run changes the filesystem only when it is not a dry run.
Effect(tree) == IF o.dryRun THEN fs ELSE tree

IsFirst(p, S) == p \in S /\ \A q \in S : Rank[p] <= Rank[q]

\* An operation fails because the tree does not allow it, or unprompted.
Fails(possible) ==
    /\ ~o.dryRun
    /\ IF possible THEN faults < MaxFaults /\ faults' = faults + 1
                   ELSE UNCHANGED faults

\* The ? operator in sync_tree: return at once, clean up nothing.
ReturnError ==
    /\ pc' = "done"
    /\ result' = "error"
    /\ UNCHANGED <<job, snapshot, entries, todo, staged, plan, phase, deleted, runs>>

\* An error that the transfer loop hands to cleanup_delayed_updates.
TransferError ==
    /\ pc' = "recover"
    /\ UNCHANGED <<job, snapshot, entries, todo, staged, plan, phase, deleted,
                   result, runs>>

-----------------------------------------------------------------------------
(* backup_receiver_file                                                    *)

NeedsBackup(f, p) == o.backup /\ f[p].kind = "file"

CanBackup(f, p) == NeedsBackup(f, p) => CanPut(f, BackupOf[p])

Backup(f, p) ==
    IF NeedsBackup(f, p) THEN Put(f, BackupOf[p], File(f[p].data, Now)) ELSE f

MaybeBackedUp(p) == {fs} \cup (IF CanBackup(fs, p) THEN {Backup(fs, p)} ELSE {})

-----------------------------------------------------------------------------
(* Walking both sides                                                      *)

\* Mutant: the offered paths are not taken out
ExtraneousAll(offered, found) == DestEntries(found, o.recursive)

\* plan_deletes: what the walk of the destination found and the sender does
\* not offer.  Protection is decided entry by entry, in DeleteStep.
Extraneous(offered, found) == DestEntries(found, o.recursive) \ offered

BeginDeletes(when, offered, found) ==
    /\ pc' = "delete"
    /\ phase' = when
    /\ plan' = Extraneous(offered, found)
    /\ deleted' = 0

Scan ==
    LET offered == SourceEntries(job.src, job.filter, job.selected, o.recursive)
    IN
    /\ pc = "scan"
    /\ snapshot' = fs
    /\ entries' = offered
    /\ todo' = offered
    /\ IF o.deleteMode \in {"Before", "During"}
       THEN BeginDeletes("before", offered, fs)
       ELSE pc' = "next" /\ UNCHANGED <<phase, plan, deleted>>
    /\ UNCHANGED <<job, fs, staged, result, faults, runs>>

\* The walk of either side or the destination path preflight fails.
ScanFails ==
    /\ pc = "scan"
    /\ faults < MaxFaults
    /\ faults' = faults + 1
    /\ UNCHANGED fs
    /\ ReturnError

-----------------------------------------------------------------------------
(* apply_receiver_deletes                                                  *)

NextDelete(p) ==
    /\ pc = "delete"
    /\ p \in plan
    /\ \A q \in plan \ {p} : DeletedBefore(p, q)

\* protected by the filter, or not selected by --files-from
Protected(p) ==
    \/ ~FilesFromMatches(p, job.selected)
    \/ DeleteIsProtected(p, job.filter, o.deleteExcluded)

SkipDelete(p) ==
    /\ NextDelete(p)
    /\ ~Exists(fs, p) \/ Protected(p)
    /\ plan' = plan \ {p}
    /\ UNCHANGED <<job, fs, snapshot, entries, pc, todo, staged, phase, deleted,
                   result, faults, runs>>

\* Mutant: off by one
MaxDeletePassed ==
    /\ o.maxDelete # NoLimit
    /\ deleted > o.maxDelete

MaxDeleteExceeded ==
    /\ o.maxDelete # NoLimit
    /\ deleted >= o.maxDelete

StopAtMaxDelete(p) ==
    /\ NextDelete(p)
    /\ Exists(fs, p)
    /\ ~Protected(p)
    /\ MaxDeleteExceeded
    /\ UNCHANGED <<fs, faults>>
    /\ ReturnError

Deletable(p) ==
    /\ NextDelete(p)
    /\ Exists(fs, p)
    /\ ~Protected(p)
    /\ ~MaxDeleteExceeded

\* delete_receiver_entry, by the type the walk recorded
CanDelete(p) ==
    IF snapshot[p].kind = "dir"
    THEN fs[p].kind = "dir"
    ELSE CanBackup(fs, p) /\ Backup(fs, p)[p].kind # "dir"

\* Mutant: delete_receiver_entry without backup_receiver_file
DeleteUnsaved(p) ==
    /\ Deletable(p)
    /\ o.dryRun \/ CanDelete(p)
    /\ fs' = Effect(IF snapshot[p].kind = "dir"
                    THEN RemoveTree(fs, p) ELSE RemoveFile(fs, p))
    /\ plan' = plan \ {p}
    /\ deleted' = deleted + 1
    /\ UNCHANGED <<job, snapshot, entries, pc, todo, staged, phase, result,
                   faults, runs>>

\* Mutant: the directory that a deletion leaves empty goes as well
DeleteAndPrune(p) ==
    LET f == IF snapshot[p].kind = "dir" THEN RemoveTree(fs, p) ELSE RemoveFile(Backup(fs, p), p)
        empty == {q \in (Above(p) \cap Dest) \ plan : \A r \in Under[q] : ~Exists(f, r)}
    IN  /\ Deletable(p)
        /\ o.dryRun \/ CanDelete(p)
        /\ fs' = Effect([q \in Path |-> IF q \in empty THEN Absent ELSE f[q]])
        /\ plan' = plan \ {p}
        /\ deleted' = deleted + 1
        /\ UNCHANGED <<job, snapshot, entries, pc, todo, staged, phase, result, faults, runs>>

DeleteEntry(p) ==
    /\ Deletable(p)
    /\ o.dryRun \/ CanDelete(p)
    /\ fs' = Effect(IF snapshot[p].kind = "dir"
                    THEN RemoveTree(fs, p)
                    ELSE RemoveFile(Backup(fs, p), p))
    /\ plan' = plan \ {p}
    /\ deleted' = deleted + 1
    /\ UNCHANGED <<job, snapshot, entries, pc, todo, staged, phase, result,
                   faults, runs>>

\* What a deletion that is cut short leaves.
HalfDeleted(p) ==
    IF snapshot[p].kind = "dir"
    THEN IF fs[p].kind = "dir" THEN PartlyRemoved(fs, p) ELSE {fs}
    ELSE MaybeBackedUp(p)

DeleteEntryFails(p) ==
    /\ Deletable(p)
    /\ Fails(CanDelete(p))
    /\ fs' \in HalfDeleted(p)
    /\ ReturnError

\* After the deletions of a failed run sync_tree returns the first error.
DeletesDone ==
    /\ pc = "delete"
    /\ plan = {}
    /\ pc' = CASE phase = "before" -> "next"
               [] phase = "after" -> "times"
               [] OTHER -> "done"
    /\ result' = IF phase = "onError" THEN "error" ELSE result
    /\ UNCHANGED <<job, fs, snapshot, entries, todo, staged, plan, phase, deleted,
                   faults, runs>>

-----------------------------------------------------------------------------
(* The transfer loop: pc = "next" decides about the first entry of todo,   *)
(* pc = "apply" carries it out.                                            *)

Frame == UNCHANGED <<job, snapshot, entries, plan, phase, deleted, result, runs>>

\* check_sync_deadline(...)? at the head of an iteration
Deadline ==
    /\ pc = "next"
    /\ todo # {}
    /\ o.deadline
    /\ UNCHANGED <<fs, faults>>
    /\ ReturnError

\* continue: the entry is left as it is.
SkipEntry(p) ==
    /\ todo' = todo \ {p}
    /\ pc' = "next"
    /\ UNCHANGED <<fs, staged, faults>>
    /\ Frame

SkipDirectory(p) ==
    /\ pc = "next"
    /\ IsFirst(p, todo)
    /\ Src(p).kind = "dir"
    /\ ~o.recursive
    /\ ~o.transferDirs
    /\ SkipEntry(p)

\* handle_non_regular_entry
SkipSpecial(p) ==
    /\ pc = "next"
    /\ IsFirst(p, todo)
    /\ Src(p).kind = "special"
    /\ ~o.failSpecials
    /\ SkipEntry(p)

RefuseSpecial(p) ==
    /\ pc = "next"
    /\ IsFirst(p, todo)
    /\ Src(p).kind = "special"
    /\ o.failSpecials
    /\ UNCHANGED <<fs, faults>>
    /\ TransferError

Handled(p) ==
    /\ pc = "next"
    /\ IsFirst(p, todo)
    /\ Src(p).kind \in {"dir", "file", "link"}
    /\ Src(p).kind = "dir" => o.recursive \/ o.transferDirs

\* remove_conflicting_target: something of another kind is at the target
Conflict(p) == Exists(fs, p) /\ fs[p].kind # Src(p).kind

\* A non-empty directory stays unless --force or a delete mode allows it.
ConflictKept(p) ==
    /\ Conflict(p)
    /\ fs[p].kind = "dir"
    /\ ~o.forceDelete
    /\ o.deleteMode = "None"
    /\ \E q \in Under[p] : Exists(fs, q)

KeepConflict(p) ==
    /\ Handled(p)
    /\ ConflictKept(p)
    /\ SkipEntry(p)

CanClear(p) == Conflict(p) /\ fs[p].kind # "dir" => CanBackup(fs, p)

Cleared(p) ==
    CASE ~Conflict(p) -> fs
      [] Conflict(p) /\ fs[p].kind = "dir" -> RemoveTree(fs, p)
      [] OTHER -> RemoveFile(Backup(fs, p), p)

ClearTarget(p) ==
    /\ Handled(p)
    /\ ~ConflictKept(p)
    /\ o.dryRun \/ CanClear(p)
    /\ fs' = Effect(Cleared(p))
    /\ pc' = "apply"
    /\ UNCHANGED <<todo, staged, faults>>
    /\ Frame

\* What a clearing that is cut short leaves.
HalfCleared(p) ==
    IF fs[p].kind = "dir" THEN PartlyRemoved(fs, p) ELSE MaybeBackedUp(p)

\* For directories and files the error leaves sync_tree through ?; for
\* symlinks it is the result of the iteration.
ClearTargetFails(p) ==
    /\ Handled(p)
    /\ Conflict(p)
    /\ ~ConflictKept(p)
    /\ Fails(CanClear(p))
    /\ fs' \in HalfCleared(p)
    /\ IF Src(p).kind = "link" THEN TransferError ELSE ReturnError

Applying(p, kind) ==
    /\ pc = "apply"
    /\ IsFirst(p, todo)
    /\ Src(p).kind = kind

Applied(p) ==
    /\ todo' = todo \ {p}
    /\ pc' = "next"
    /\ UNCHANGED faults
    /\ Frame

CreateDir(p) ==
    /\ Applying(p, "dir")
    /\ o.dryRun \/ CanMakeDir(fs, p)
    /\ fs' = Effect(MakeDir(fs, p))
    /\ UNCHANGED staged
    /\ Applied(p)

CreateDirFails(p) ==
    /\ Applying(p, "dir")
    /\ Fails(CanMakeDir(fs, p))
    /\ UNCHANGED fs
    /\ ReturnError

NeedsUpdate(p) == FileNeedsUpdate(Src(p), fs[p], o)

\* preserve_existing_file_mtime
UpToDate(p) ==
    /\ Applying(p, "file")
    /\ ~NeedsUpdate(p)
    /\ fs' = Effect(IF o.preserveMtime /\ Exists(fs, p)
                    THEN SetMtime(fs, p, Src(p).mtime)
                    ELSE fs)
    /\ UNCHANGED staged
    /\ Applied(p)

\* files_equal or set_mtime fails.
UpToDateFails(p) ==
    /\ Applying(p, "file")
    /\ Exists(fs, p)
    /\ \/ o.update = "Checksum"
       \/ o.preserveMtime /\ ~NeedsUpdate(p) /\ ~o.dryRun
    /\ faults < MaxFaults
    /\ faults' = faults + 1
    /\ UNCHANGED fs
    /\ ReturnError

Delayed == o.delayUpdates /\ ~o.dryRun

\* Mutant: preserve_transferred_mtime is not called
DeliveredNow(p) == File(Src(p).data, Now)

\* What transfer_file leaves at the target: the copy, with the time of the
\* source under --times.
Delivered(p) ==
    File(Src(p).data, IF o.preserveMtime THEN Src(p).mtime ELSE Now)

CanWrite(p) == CanBackup(fs, p) /\ CanPut(Backup(fs, p), p)

WriteFile(p) ==
    /\ Applying(p, "file")
    /\ NeedsUpdate(p)
    /\ ~Delayed
    /\ o.dryRun \/ CanWrite(p)
    /\ fs' = Effect(Put(Backup(fs, p), p, Delivered(p)))
    /\ UNCHANGED staged
    /\ Applied(p)

\* Mutant: the copy is written to the target itself in every write mode
HalfWrittenDirect(p) ==
    MaybeBackedUp(p)
      \cup (IF CanWrite(p)
            THEN {Put(Backup(fs, p), p, File(Torn, Now))} ELSE {})

\* backup_receiver_file or the copy is cut short, a direct write leaving a
\* torn file behind; or the copy is complete and its time not set.
HalfWritten(p) ==
    MaybeBackedUp(p)
      \cup (IF CanWrite(p) /\ o.inPlace
            THEN {Put(Backup(fs, p), p, File(Torn, Now))} ELSE {})
      \cup (IF CanWrite(p) /\ o.preserveMtime
            THEN {Put(Backup(fs, p), p, File(Src(p).data, Now))} ELSE {})

WriteFileFails(p) ==
    /\ Applying(p, "file")
    /\ NeedsUpdate(p)
    /\ ~Delayed
    /\ Fails(CanWrite(p))
    /\ fs' \in HalfWritten(p)
    /\ TransferError

\* --delay-updates: the copy goes to the staging path.
StageFile(p) ==
    /\ Applying(p, "file")
    /\ NeedsUpdate(p)
    /\ Delayed
    /\ CanPut(fs, StageOf[p])
    /\ fs' = Put(fs, StageOf[p], File(Src(p).data, Now))
    /\ staged' = staged \cup {p}
    /\ Applied(p)

StageFileFails(p) ==
    /\ Applying(p, "file")
    /\ NeedsUpdate(p)
    /\ Delayed
    /\ Fails(CanPut(fs, StageOf[p]))
    /\ UNCHANGED fs
    /\ TransferError

\* transfer_symlink: the old link is removed before the new one is made.
CreateSymlink(p) ==
    /\ Applying(p, "link")
    /\ o.dryRun \/ CanPut(fs, p)
    /\ fs' = Effect(Put(fs, p, Link(Src(p).data)))
    /\ UNCHANGED staged
    /\ Applied(p)

\* set_mtime follows the new link, so under --times the step fails whenever
\* the link does not resolve on the receiver.
HalfLinked(p) ==
    {fs}
      \cup (IF fs[p].kind = "dir" THEN {} ELSE {RemoveFile(fs, p)})
      \cup (IF CanPut(fs, p) /\ o.preserveMtime
            THEN {Put(fs, p, Link(Src(p).data))} ELSE {})

CreateSymlinkFails(p) ==
    /\ Applying(p, "link")
    /\ Fails(CanPut(fs, p) /\ ~o.preserveMtime)
    /\ fs' \in HalfLinked(p)
    /\ TransferError

-----------------------------------------------------------------------------
(* Ending the run                                                          *)

\* Mutant: an error returns without cleanup_delayed_updates
CleanUpNothing == UNCHANGED <<fs, faults>>

\* Staging files that a clean-up may leave: all of them under --partial, and
\* any it could not remove, since the removal's result is dropped.
CleanUp ==
    IF o.keepPartial
    THEN UNCHANGED <<fs, faults>>
    ELSE \E left \in SUBSET staged :
           /\ fs' = [q \in Path |->
                        IF \E p \in staged \ left : StageOf[p] = q /\ fs[q].kind # "dir"
                        THEN Absent ELSE fs[q]]
           /\ faults' = faults + Cardinality(left)
           /\ faults' <= MaxFaults

\* cleanup_delayed_updates, then the deletions of --ignore-errors
Recover ==
    /\ pc = "recover"
    /\ CleanUp
    /\ staged' = {}
    /\ IF o.ignoreErrors /\ o.deleteMode \in {"Delay", "After"}
       THEN BeginDeletes("onError", entries, snapshot) /\ UNCHANGED result
       ELSE /\ pc' = "done"
            /\ result' = "error"
            /\ UNCHANGED <<plan, phase, deleted>>
    /\ UNCHANGED <<job, snapshot, entries, todo, runs>>

\* finish_delayed_updates: one rename
CanFinish(p) ==
    /\ CanBackup(fs, p)
    /\ fs[StageOf[p]].kind = "file"
    /\ CanPut(Backup(fs, p), p)

Renamed(f, p, t) == RemoveFile(Put(f, p, File(f[StageOf[p]].data, t)), StageOf[p])

\* Mutant: renaming as soon as something is staged
FinishEarly(p) ==
    /\ pc = "next"
    /\ IsFirst(p, staged)
    /\ CanFinish(p)
    /\ fs' = Renamed(Backup(fs, p), p, Delivered(p).mtime)
    /\ staged' = staged \ {p}
    /\ UNCHANGED <<pc, todo, faults>>
    /\ Frame

\* Mutant: finish_delayed_updates without backup_receiver_file
FinishUnsaved(p) ==
    /\ pc = "next"
    /\ todo = {}
    /\ IsFirst(p, staged)
    /\ CanFinish(p)
    /\ fs' = Renamed(fs, p, Delivered(p).mtime)
    /\ staged' = staged \ {p}
    /\ UNCHANGED <<pc, todo, faults>>
    /\ Frame

\* Mutant: finish_delayed_updates without preserve_transferred_mtime
FinishUntimed(p) ==
    /\ pc = "next"
    /\ todo = {}
    /\ IsFirst(p, staged)
    /\ CanFinish(p)
    /\ fs' = Renamed(Backup(fs, p), p, Now)
    /\ staged' = staged \ {p}
    /\ UNCHANGED <<pc, todo, faults>>
    /\ Frame

FinishDelayed(p) ==
    /\ pc = "next"
    /\ todo = {}
    /\ IsFirst(p, staged)
    /\ CanFinish(p)
    /\ fs' = Renamed(Backup(fs, p), p, Delivered(p).mtime)
    /\ staged' = staged \ {p}
    /\ UNCHANGED <<pc, todo, faults>>
    /\ Frame

\* Mutant: the target is removed before the rename
HalfFinishedRemoved(p) ==
    MaybeBackedUp(p) \cup {RemoveFile(f, p) : f \in MaybeBackedUp(p)}

HalfFinished(p) ==
    MaybeBackedUp(p)
      \cup (IF CanFinish(p) /\ o.preserveMtime
            THEN {Renamed(Backup(fs, p), p, Now)} ELSE {})

FinishDelayedFails(p) ==
    /\ pc = "next"
    /\ todo = {}
    /\ IsFirst(p, staged)
    /\ Fails(CanFinish(p))
    /\ fs' \in HalfFinished(p)
    /\ pc' = "unfinished"
    /\ UNCHANGED <<todo, staged>>
    /\ Frame

\* cleanup_delayed_updates after a failed rename: no deletions follow.
Unfinished ==
    /\ pc = "unfinished"
    /\ CleanUp
    /\ staged' = {}
    /\ pc' = "done"
    /\ result' = "error"
    /\ UNCHANGED <<job, snapshot, entries, todo, plan, phase, deleted, runs>>

TransfersDone ==
    /\ pc = "next"
    /\ todo = {}
    /\ staged = {}
    /\ IF o.deleteMode \in {"Delay", "After"}
       THEN BeginDeletes("after", entries, snapshot)
       ELSE pc' = "times" /\ UNCHANGED <<plan, phase, deleted>>
    /\ UNCHANGED <<job, fs, snapshot, entries, todo, staged, result, faults, runs>>

\* preserve_directory_mtimes, then Ok(report)
DirectoryTimes ==
    /\ pc = "times"
    /\ pc' = "done"
    /\ result' = "ok"
    /\ UNCHANGED <<job, fs, snapshot, entries, todo, staged, plan, phase, deleted,
                   faults, runs>>

DirectoryTimesFail ==
    /\ pc = "times"
    /\ o.preserveMtime
    /\ Fails(TRUE)
    /\ UNCHANGED fs
    /\ ReturnError

\* The trees that an operation under way may leave when it is cut short.
CutShort ==
    {fs} \cup
    IF o.dryRun THEN {} ELSE
    UNION {   (IF Deletable(p) THEN HalfDeleted(p) ELSE {})
         \cup (IF Handled(p) /\ Conflict(p) /\ ~ConflictKept(p)
               THEN HalfCleared(p) ELSE {})
         \cup (IF Applying(p, "file") /\ NeedsUpdate(p) /\ ~Delayed
               THEN HalfWritten(p) ELSE {})
         \cup (IF Applying(p, "link") THEN HalfLinked(p) ELSE {})
         \cup (IF pc = "next" /\ todo = {} /\ IsFirst(p, staged)
               THEN HalfFinished(p) ELSE {}) : p \in Path}

\* The process is killed.
Crash ==
    /\ pc # "done"
    /\ faults < MaxFaults
    /\ faults' = faults + 1
    /\ fs' \in CutShort
    /\ pc' = "done"
    /\ result' = "crash"
    /\ UNCHANGED <<job, snapshot, entries, todo, staged, plan, phase, deleted, runs>>

-----------------------------------------------------------------------------
(* Runs                                                                    *)

Start(j) ==
    /\ job = j
    /\ entries = {}
    /\ pc = "scan"
    /\ todo = {}
    /\ staged = {}
    /\ plan = {}
    /\ phase = "none"
    /\ deleted = 0
    /\ result = "none"

Init ==
    /\ fs \in Disks
    /\ snapshot = fs
    /\ faults = 0
    /\ runs = 1
    /\ \E j \in Jobs : Start(j)

\* The program is started again over whatever the last run left.
NextRun ==
    /\ pc = "done"
    /\ runs < MaxRuns
    /\ runs' = runs + 1
    /\ job' \in Jobs
    /\ entries' = {}
    /\ pc' = "scan"
    /\ todo' = {}
    /\ staged' = {}
    /\ plan' = {}
    /\ phase' = "none"
    /\ deleted' = 0
    /\ result' = "none"
    /\ snapshot' = fs
    /\ UNCHANGED <<fs, faults>>

DeleteStep(p) ==
    \/ SkipDelete(p)
    \/ StopAtMaxDelete(p)
    \/ DeleteEntry(p)
    \/ DeleteEntryFails(p)

EntryStep(p) ==
    \/ SkipDirectory(p)
    \/ SkipSpecial(p)
    \/ RefuseSpecial(p)
    \/ KeepConflict(p)
    \/ ClearTarget(p)
    \/ ClearTargetFails(p)
    \/ CreateDir(p)
    \/ CreateDirFails(p)
    \/ UpToDate(p)
    \/ UpToDateFails(p)
    \/ WriteFile(p)
    \/ WriteFileFails(p)
    \/ StageFile(p)
    \/ StageFileFails(p)
    \/ CreateSymlink(p)
    \/ CreateSymlinkFails(p)
    \/ FinishDelayed(p)
    \/ FinishDelayedFails(p)

\* One step of sync_tree.
Step ==
    \/ Scan
    \/ ScanFails
    \/ \E p \in Path : DeleteStep(p)
    \/ DeletesDone
    \/ Deadline
    \/ \E p \in Path : EntryStep(p)
    \/ Recover
    \/ Unfinished
    \/ TransfersDone
    \/ DirectoryTimes
    \/ DirectoryTimesFail

Next == Step \/ Crash \/ NextRun

Spec == Init /\ [][Next]_vars

-----------------------------------------------------------------------------
(* Properties                                                              *)

\* The state is well typed, the destination is a tree whatever operation was
\* cut short, and no path is both offered by the sender and planned for
\* deletion.
TypeOK ==
    /\ job \in Jobs
    /\ fs \in Tree
    /\ WellFormed(fs)
    /\ snapshot \in Tree
    /\ entries \in SUBSET Dest
    /\ pc \in {"scan", "delete", "next", "apply", "recover", "unfinished",
               "times", "done"}
    /\ todo \in SUBSET entries
    /\ staged \in SUBSET entries
    /\ plan \in SUBSET (Dest \ entries)
    /\ phase \in {"none", "before", "after", "onError"}
    /\ deleted \in Nat
    /\ result \in {"none", "ok", "error", "crash"}
    /\ faults \in Nat
    /\ runs \in Nat

FileBefore(p) == snapshot[p].kind = "file"
FileOffered(p) == p \in entries /\ Src(p).kind = "file"

\* Without --inplace an offered file that the receiver already had is there
\* at every moment of the run, and after every failure and crash, with its
\* old content or with the new one: never missing, never torn.  The deletes
\* run while transfers are pending, backups and staging files are written
\* around it and conflicting neighbours are removed.
OldOrNew ==
    ~o.inPlace =>
      \A p \in entries :
        FileOffered(p) /\ FileBefore(p) =>
          /\ fs[p].kind = "file"
          /\ fs[p].data \in {snapshot[p].data, Src(p).data}

\* The sender offers nothing without the directories it lies in.
ParentsOffered ==
    \A p \in entries : Exists(job.src, p) /\ Above(p) \cap Dest \subseteq entries

\* While the loop runs, what is staged is the new content of an offered file;
\* nothing is staged while the receiver deletes.
StagingOK ==
    /\ \A p \in staged : Src(p).kind = "file"
    /\ pc \in {"next", "apply"} =>
         \A p \in staged : /\ fs[StageOf[p]].kind = "file"
                           /\ fs[StageOf[p]].data = Src(p).data
    /\ pc \in {"scan", "delete"} => staged = {}

\* The inductive strengthening of OldOrNew: the deletes spare offered files
\* because their parents are offered too, and a rename delivers the new
\* content because the staging file still has it.
SafeInv ==
    /\ TypeOK
    /\ ParentsOffered
    /\ StagingOK
    /\ OldOrNew
    /\ pc = "scan" => plan = {}

\* With --delay-updates no offered file shows its new content while any
\* entry has still to be transferred: a run that fails or is killed half way,
\* and deletions that follow its failure, leave every one as it was
\* (delayed_transfers, finish_delayed_updates).
DelayHolds ==
    o.delayUpdates /\ todo # {} =>
      \A p \in entries :
        FileOffered(p) /\ FileBefore(p) => fs[p].data = snapshot[p].data

\* No step of apply_receiver_deletes, whichever phase it runs in, takes away
\* a path that the sender offers.
DeletesSpareOffered ==
    [][pc = "delete" =>
         \A p \in entries : Exists(fs, p) => Exists(fs', p)]_vars

\* Paths that backups and staging write to, and the directories they need.
Scratch ==
    (UNION {SelfAndAbove(StageOf[p]) : p \in Dest})
      \cup (UNION {SelfAndAbove(BackupOf[p]) : p \in Dest})

\* Below a directory that gave way to an offered entry of another kind.
Displaced(p) ==
    \E q \in Above(p) \cap entries :
        snapshot[q].kind = "dir" /\ Src(q).kind # "dir"

\* The staging places; what is left there from an earlier run is not deleted
\* but overwritten, renamed or cleaned up.
Staging == {StageOf[p] : p \in Dest}

\* --max-delete bounds what the receiver really loses: however the run ends,
\* no more of the paths that were extraneous and open to deletion when it began
\* are gone.  (A directory that has to give way to an offered file is not a
\* deletion; what a rule protects is not counted when it goes with an
\* unprotected directory, see ProtectedKept.)
MaxDeleteRespected ==
    o.maxDelete # NoLimit =>
      Cardinality({p \in Extraneous(entries, snapshot) \ Staging :
                      ~Exists(fs, p) /\ ~Protected(p) /\ ~Displaced(p)}) <= o.maxDelete

\* --update left the file alone because the receiver's was newer.
SkippedAsNewer(p) ==
    /\ o.skipNewer
    /\ snapshot[p].kind = "file"
    /\ snapshot[p].mtime > Src(p).mtime \/ snapshot[p].mtime = Now

\* What a successful run promises about an offered file: nothing is left to
\* update, and under --checksum or the quick check its content is the
\* source's unless size and time already agreed.  (Under --existing a target
\* of another kind is removed and then not replaced.  A newer file that
\* --update spares is given the source's time all the same, so a later run
\* may find that it needs an update.)
UpdatesDone(p) ==
    fs[p].kind # "dir" =>
      /\ o.update = "IgnoreTimes" \/ SkippedAsNewer(p) \/ ~NeedsUpdate(p)
      /\ \/ ~FileNeedsUpdate(Src(p), snapshot[p], o)
         \/ o.existingOnly /\ ~Exists(fs, p)
         \/ fs[p].data = Src(p).data

\* A run that returns Ok has brought the destination up to date: every
\* offered file needs no further update and every unprotected extraneous
\* path is gone, also when the run took over from one that crashed.
Converged ==
    result = "ok" /\ ~o.dryRun =>
      /\ o.preserveMtime =>
           \A p \in entries : Src(p).kind = "file" => UpdatesDone(p)
      /\ o.deleteMode # "None" =>
           \A p \in Extraneous(entries, snapshot) \ Scratch :
             Protected(p) \/ ~Exists(fs, p)

\* A file that goes with a directory which is deleted, without a deletion of
\* its own: because a rule protects it or the walk did not come to it.
TakenAlong(p) ==
    /\ o.deleteMode # "None"
    /\ Protected(p) \/ p \notin Extraneous(entries, snapshot)
    /\ \E q \in Above(p) \cap Dest : q \notin entries /\ ~Protected(q)

\* With --backup a run that returns Ok has lost no content: a file that was
\* replaced or deleted is in its backup.  (Directories that give way to a
\* file are removed without one, and so are old staging files and what goes
\* with a deleted directory only.)
BackedUp ==
    result = "ok" /\ o.backup /\ ~o.dryRun =>
      \A p \in Dest \ Scratch :
        FileBefore(p) /\ ~Displaced(p) /\ ~TakenAlong(p) =>
          \/ fs[p].kind = "file" /\ fs[p].data = snapshot[p].data
          \/ /\ fs[BackupOf[p]].kind = "file"
             /\ fs[BackupOf[p]].data = snapshot[p].data

\* The loop came to an entry whose target can neither be cleared nor made: the
\* backup has no place, or something on the way is no directory.
Obstructed(p) ==
    /\ IsFirst(p, todo)
    /\ Src(p).kind \in {"dir", "file"}
    /\ ~CanClear(p) \/ (Src(p).kind = "dir" /\ ~CanMakeDir(fs, p))

\* A failed run leaves no staging file that it made, unless --partial keeps
\* them, a removal failed or the process was killed: stated for runs in which
\* nothing failed unprompted.  (The errors of a deadline and of an obstructed
\* target pass cleanup_delayed_updates by.)
NoStagingLeft ==
    result = "error" /\ faults = 0 /\ ~o.keepPartial /\ ~o.deadline
      /\ (\A p \in todo : ~Obstructed(p)) =>
      \A p \in entries :
        FileOffered(p) /\ fs[StageOf[p]].kind = "file" => Exists(snapshot, StageOf[p])

\* A path that a filter rule protects stays, whatever happens around it: to
\* the entries beside it and below it, when the run fails half way, and in
\* the run that follows.  (What an extraneous directory without protection
\* holds goes with the directory: delete_receiver_entry looks at the
\* directory only.)
ProtectedKept ==
    \A p \in Dest \ (entries \cup Staging) :
      \/ job.filter[p] # "protect" \/ ~Exists(snapshot, p) \/ Exists(fs, p)
      \/ \E q \in Above(p) \cap Dest : Displaced(p) \/ (q \notin entries /\ ~Protected(q))

\* What --delete may take: no more than --max-delete allows, and nothing that
\* a rule protects (apply_receiver_deletes).
DeletesWithinLimits == MaxDeleteRespected /\ ProtectedKept

\* --delay-updates loses nothing: a run that fails cleans up what it staged, a
\* target is old or new, and what a rename replaces has its backup
\* (finish_delayed_updates, cleanup_delayed_updates).
DelaySafe == NoStagingLeft /\ OldOrNew /\ BackedUp
=============================================================================
