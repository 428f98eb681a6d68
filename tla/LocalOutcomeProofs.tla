-------------------------- MODULE LocalOutcomeProofs ------------------------
(***************************************************************************)
(* What a run of LocalSync has achieved when it ends, for every tree, every*)
(* set of jobs and every number of faults and runs: after success the      *)
(* destination is up to date (Converged) and, when backups lie outside the *)
(* destination, no content is lost (BackedUp); after an error nothing that *)
(* was staged is left (DelaySafe).                                         *)
(***************************************************************************)
EXTENDS LocalSyncProofs

\* The run has met no error so far, or has returned Ok.
Going ==
    /\ ~o.dryRun
    /\ \/ pc \in {"next", "apply", "times"}
       \/ pc = "delete" /\ phase # "onError"
       \/ result = "ok"

\* The target of an entry that the loop has not come to is as the walk found
\* it, or at least no file.
Waits(g, q) == IF FileBefore(q) THEN g[q] = snapshot[q] ELSE g[q].kind # "file"

\* UpdatesDone of the tree g.
DoneIn(g, q) ==
    g[q].kind # "dir" =>
      /\ \/ o.update = "IgnoreTimes"
         \/ SkippedAsNewer(q)
         \/ ~FileNeedsUpdate(Src(q), g[q], o)
      /\ \/ ~FileNeedsUpdate(Src(q), snapshot[q], o)
         \/ o.existingOnly /\ ~Exists(g, q)
         \/ g[q].data = Src(q).data

\* The files of S are waiting, the other offered files are up to date.
Settled(g, S) ==
    \A q \in entries : Src(q).kind = "file" =>
      /\ q \in S => Waits(g, q)
      /\ q \notin S /\ o.preserveMtime => DoneIn(g, q)

\* Of what was extraneous only the paths of S and protected ones are there.
GoneIn(g, S) ==
    \A q \in Extraneous(entries, snapshot) \ (Scratch \cup S) :
      Protected(q) \/ ~Exists(g, q)

\* What a step for the path p may do: change the places in T, remove the ones
\* in S, make directories of the sender's, of backups or of staging, and write
\* the backup of p.
Works(f, g, p, T, S) ==
    \A q \in Path :
      \/ g[q] = f[q]
      \/ q \in T
      \/ q \in S /\ g[q].kind = "absent"
      \/ /\ g[q].kind = "dir" /\ f[q].kind \in {"absent", "dir"}
         /\ q \in Dest => q \in entries \cup Scratch
      \/ /\ q = BackupOf[p] /\ NeedsBackup(f, p)
         /\ g[q].kind = "file" /\ g[q].data = f[p].data

-----------------------------------------------------------------------------
(* What the steps do                                                       *)

\* Backups, staging files and the directories around them are scratch.
LEMMA ScratchFacts ==
    ASSUME NEW p \in Dest
    PROVE  /\ BackupOf[p] \in Scratch /\ StageOf[p] \in Scratch
           /\ Above(BackupOf[p]) \subseteq Scratch /\ Above(StageOf[p]) \subseteq Scratch
<1> DEFINE A == {SelfAndAbove(StageOf[q]) : q \in Dest}
           B == {SelfAndAbove(BackupOf[q]) : q \in Dest}
<1>1. SelfAndAbove(StageOf[p]) \in A /\ SelfAndAbove(BackupOf[p]) \in B
  OBVIOUS
<1>2. Scratch = (UNION A) \cup (UNION B)
  BY DEF Scratch
<1> HIDE DEF A, B
<1>3. SelfAndAbove(BackupOf[p]) \subseteq Scratch /\ SelfAndAbove(StageOf[p]) \subseteq Scratch
  <2>1. \A x : x \in UNION A \/ x \in UNION B => x \in Scratch
    BY <1>2
  <2>2. \A x \in SelfAndAbove(StageOf[p]) : x \in UNION A
    BY <1>1
  <2>3. \A x \in SelfAndAbove(BackupOf[p]) : x \in UNION B
    BY <1>1
  <2> QED
    BY <2>1, <2>2, <2>3
<1> QED
  BY <1>3 DEF SelfAndAbove

\* Put changes its operand, and makes directories above it.
LEMMA PutWorks ==
    ASSUME NEW f \in Tree, NEW p \in Path, NEW n, CanPut(f, p)
    PROVE  /\ Put(f, p, n)[p] = n
           /\ \A q \in Path \ {p} :
                \/ Put(f, p, n)[q] = f[q]
                \/ /\ q \in Above(p) /\ Put(f, p, n)[q].kind = "dir"
                   /\ f[q].kind \in {"absent", "dir"}
<1>1. Put(f, p, n) = [q \in Path |-> IF q = p THEN n ELSE IF p \in Under[q] THEN Dir ELSE f[q]]
  BY DEF Put, MakeParents
<1>2. \A q \in Path : p \in Under[q] => q \in Above(p) /\ f[q].kind \in {"absent", "dir"}
  BY DEF Above, CanPut, CanMakeParents
<1> QED
  BY <1>1, <1>2 DEF Dir

\* backup_receiver_file writes the backup, and nothing at the file itself.
LEMMA BackupWorks ==
    ASSUME TypeOK, NEW p \in Dest, CanBackup(fs, p)
    PROVE  /\ \A T, S : Works(fs, Backup(fs, p), p, T, S)
           /\ NeedsBackup(fs, p) =>
                /\ Backup(fs, p)[BackupOf[p]].kind = "file"
                /\ Backup(fs, p)[BackupOf[p]].data = fs[p].data
           /\ ~NeedsBackup(fs, p) => Backup(fs, p) = fs
<1>1. fs \in Tree /\ p \in Path /\ BackupOf[p] \in Path
  BY JobFacts DEF TypeOK
<1>2. CASE NeedsBackup(fs, p)
  <2> DEFINE n == File(fs[p].data, Now)
             g == Put(fs, BackupOf[p], n)
  <2>1. Backup(fs, p) = g /\ CanPut(fs, BackupOf[p])
    BY <1>2 DEF Backup, CanBackup
  <2>2. n.kind = "file" /\ n.data = fs[p].data
    BY DEF File
  <2> HIDE DEF n
  <2>3. /\ g[BackupOf[p]] = n
        /\ \A q \in Path \ {BackupOf[p]} :
             \/ g[q] = fs[q]
             \/ /\ q \in Above(BackupOf[p]) /\ g[q].kind = "dir"
                /\ fs[q].kind \in {"absent", "dir"}
    BY <1>1, <2>1, PutWorks
  <2> HIDE DEF g
  <2>5. \A q \in Above(BackupOf[p]) : q \in Scratch
    BY ScratchFacts
  <2>6. \A T, S : Works(fs, g, p, T, S)
    BY <1>2, <2>2, <2>3, <2>5 DEF Works
  <2> QED
    BY <1>2, <2>1, <2>2, <2>3, <2>6
<1>3. CASE ~NeedsBackup(fs, p)
  BY <1>3 DEF Backup, Works
<1> QED
  BY <1>2, <1>3

\* The places that a transfer of p writes to, and what gives way to it.
Touched(p) == {p} \cup (IF Src(p).kind = "file" THEN {StageOf[p]} ELSE {})
Lost(p) == IF Conflict(p) /\ fs[p].kind = "dir" THEN Under[p] ELSE {}

\* remove_conflicting_target
LEMMA ClearWorks ==
    ASSUME TypeOK, ParentsOffered, StagingOK, Safe(fs), NEW p \in entries, CanClear(p)
    PROVE  /\ Works(fs, Cleared(p), p, {p}, Lost(p))
           /\ ~Conflict(p) => Cleared(p) = fs
           /\ Conflict(p) => Cleared(p)[p].kind = "absent"
           /\ Conflict(p) /\ NeedsBackup(fs, p) =>
                /\ Cleared(p)[BackupOf[p]].kind = "file"
                /\ Cleared(p)[BackupOf[p]].data = fs[p].data
<1>1. p \in Dest /\ p \in Path /\ p # BackupOf[p] /\ fs \in Tree /\ BackupOf[p] \in Path
  BY EntryFacts, JobFacts DEF TypeOK
<1>2. CASE ~Conflict(p)
  BY <1>2 DEF Cleared, Works
<1>3. CASE Conflict(p) /\ fs[p].kind = "dir"
  <2>1. Cleared(p) = RemoveTree(fs, p) /\ Lost(p) = Under[p] /\ ~NeedsBackup(fs, p)
    BY <1>3 DEF Cleared, Lost, NeedsBackup
  <2>2. \A q \in Path : /\ q \in SelfAndUnder(p) => RemoveTree(fs, p)[q] = Absent
                        /\ q \notin SelfAndUnder(p) => RemoveTree(fs, p)[q] = fs[q]
    BY DEF RemoveTree
  <2>3. Absent.kind = "absent"
    BY DEF Absent
  <2> QED
    BY <1>1, <1>3, <2>1, <2>2, <2>3 DEF Works, SelfAndUnder
<1>4. CASE Conflict(p) /\ fs[p].kind # "dir"
  <2> DEFINE b == Backup(fs, p)
  <2>1. Cleared(p) = RemoveFile(b, p) /\ CanBackup(fs, p)
    BY <1>4 DEF Cleared, CanClear
  <2>2. /\ Works(fs, b, p, {p}, Lost(p)) /\ b \in Tree
        /\ NeedsBackup(fs, p) => b[BackupOf[p]].kind = "file" /\ b[BackupOf[p]].data = fs[p].data
    BY <1>1, <2>1, BackupWorks, BackupSafe DEF Safe, GoodTree
  <2> HIDE DEF b
  <2>3. RemoveFile(b, p)[p] = Absent /\ \A q \in Path \ {p} : RemoveFile(b, p)[q] = b[q]
    BY <1>1, <2>2 DEF RemoveFile, Tree
  <2>4. Absent.kind = "absent"
    BY DEF Absent
  <2>5. Works(fs, RemoveFile(b, p), p, {p}, Lost(p))
    BY <2>2, <2>3 DEF Works
  <2> QED
    BY <1>1, <1>4, <2>1, <2>2, <2>3, <2>4, <2>5
<1> QED
  BY <1>2, <1>3, <1>4

\* transfer_file, and a rename: the backup, then the new file.
LEMMA WriteWorks ==
    ASSUME TypeOK, ParentsOffered, StagingOK, Safe(fs), NEW p \in entries, NEW n,
           CanBackup(fs, p), CanPut(Backup(fs, p), p)
    PROVE  /\ Works(fs, Put(Backup(fs, p), p, n), p, {p}, {})
           /\ Put(Backup(fs, p), p, n)[p] = n
           /\ NeedsBackup(fs, p) =>
                /\ Put(Backup(fs, p), p, n)[BackupOf[p]].kind = "file"
                /\ Put(Backup(fs, p), p, n)[BackupOf[p]].data = fs[p].data
<1>1. p \in Dest /\ p \in Path /\ p # BackupOf[p] /\ fs \in Tree /\ BackupOf[p] \in Path
  BY EntryFacts, JobFacts DEF TypeOK
<1> DEFINE b == Backup(fs, p)
           g == Put(b, p, n)
<1>2. /\ Works(fs, b, p, {p}, {}) /\ b \in Tree
      /\ NeedsBackup(fs, p) => b[BackupOf[p]].kind = "file" /\ b[BackupOf[p]].data = fs[p].data
  BY <1>1, BackupWorks, BackupSafe DEF Safe, GoodTree
<1>3. /\ g[p] = n
      /\ \A q \in Path \ {p} : \/ g[q] = b[q]
                               \/ /\ q \in Above(p) /\ g[q].kind = "dir"
                                  /\ b[q].kind \in {"absent", "dir"}
  BY <1>1, <1>2, PutWorks
<1> HIDE DEF b, g
<1>4. \A q \in Above(p) : q \in Dest => q \in entries
  BY DEF ParentsOffered
<1>5. Works(fs, g, p, {p}, {})
  <2> SUFFICES ASSUME NEW q \in Path, q # p, g[q] # b[q]
               PROVE  /\ g[q].kind = "dir" /\ fs[q].kind \in {"absent", "dir"}
                      /\ q \in Dest => q \in entries \cup Scratch
    BY <1>2, <1>3 DEF Works
  <2>1. q \in Above(p) /\ g[q].kind = "dir" /\ b[q].kind \in {"absent", "dir"}
    BY <1>3
  <2>2. b[q] = fs[q] \/ fs[q].kind \in {"absent", "dir"}
    BY <1>2, <2>1 DEF Works
  <2> QED
    BY <1>4, <2>1, <2>2
<1>6. NeedsBackup(fs, p) => g[BackupOf[p]] = b[BackupOf[p]]
  BY <1>1, <1>2, <1>3
<1> QED
  BY <1>2, <1>3, <1>5, <1>6 DEF b, g

\* The rename of a staged file: the new content is what was staged.
LEMMA FinishWorks ==
    ASSUME SafeInv, pc = "next", NEW p \in staged, NEW t \in Stamp \cup {Now}, CanFinish(p)
    PROVE  /\ Works(fs, Renamed(Backup(fs, p), p, t), p, {p, StageOf[p]}, {})
           /\ Renamed(Backup(fs, p), p, t)[p] = File(Src(p).data, t)
           /\ Renamed(Backup(fs, p), p, t)[StageOf[p]].kind = "absent"
           /\ NeedsBackup(fs, p) =>
                /\ Renamed(Backup(fs, p), p, t)[BackupOf[p]].kind = "file"
                /\ Renamed(Backup(fs, p), p, t)[BackupOf[p]].data = fs[p].data
<1>1. /\ TypeOK /\ ParentsOffered /\ StagingOK /\ Safe(fs) /\ Holds(fs)
      /\ p \in entries /\ Src(p).kind = "file" /\ p \in Dest /\ p \in Path
  BY SafeNow, EntryFacts DEF TypeOK, StagingOK
<1>2. /\ p # StageOf[p] /\ BackupOf[p] # StageOf[p] /\ StageOf[p] \in Path
      /\ p # BackupOf[p] /\ BackupOf[p] \in Path
  BY <1>1, EntryFacts, StageFacts, JobFacts DEF SelfAndAbove
<1> DEFINE b == Backup(fs, p)
           n == File(b[StageOf[p]].data, t)
           g == Put(b, p, n)
<1>3. CanBackup(fs, p) /\ CanPut(b, p)
  BY DEF CanFinish
<1>4. Holds(b) /\ b \in Tree
  BY <1>1, <1>3, BackupSafe DEF Safe, GoodTree
<1>5. n = File(Src(p).data, t)
  BY <1>4 DEF Holds
<1>6. /\ Works(fs, g, p, {p}, {}) /\ g[p] = n
      /\ NeedsBackup(fs, p) => g[BackupOf[p]].kind = "file" /\ g[BackupOf[p]].data = fs[p].data
  BY <1>1, <1>3, WriteWorks
<1>7. Renamed(b, p, t) = RemoveFile(g, StageOf[p])
  BY DEF Renamed
<1>8. /\ RemoveFile(g, StageOf[p])[StageOf[p]] = Absent
      /\ \A q \in Path \ {StageOf[p]} : RemoveFile(g, StageOf[p])[q] = g[q]
  BY <1>2 DEF RemoveFile, Put, MakeParents
<1> HIDE DEF b, g, n
<1>9. Works(fs, RemoveFile(g, StageOf[p]), p, {p, StageOf[p]}, {})
  BY <1>6, <1>8 DEF Works
<1>10. Absent.kind = "absent"
  BY DEF Absent
<1> QED
  BY <1>1, <1>2, <1>5, <1>6, <1>7, <1>8, <1>9, <1>10 DEF b

\* delete_receiver_entry
LEMMA DeleteWorks ==
    ASSUME SafeInv, ~o.dryRun, NEW p \in plan, CanDelete(p),
           NEW g, g = IF snapshot[p].kind = "dir" THEN RemoveTree(fs, p)
                      ELSE RemoveFile(Backup(fs, p), p)
    PROVE  /\ Works(fs, g, p, {}, IF snapshot[p].kind = "dir" THEN SelfAndUnder(p) ELSE {p})
           /\ g[p].kind = "absent"
           /\ snapshot[p].kind # "dir" /\ NeedsBackup(fs, p) /\ p # BackupOf[p] =>
                g[BackupOf[p]].kind = "file" /\ g[BackupOf[p]].data = fs[p].data
<1>1. /\ TypeOK /\ ParentsOffered /\ StagingOK /\ Safe(fs) /\ p \in Dest /\ p \in Path
      /\ fs \in Tree /\ BackupOf[p] \in Path
  BY SafeNow, PlanApart, JobFacts DEF TypeOK
<1>2. Absent.kind = "absent"
  BY DEF Absent
<1>3. CASE snapshot[p].kind = "dir"
  <2>2. \A q \in Path : /\ q \in SelfAndUnder(p) => RemoveTree(fs, p)[q] = Absent
                        /\ q \notin SelfAndUnder(p) => RemoveTree(fs, p)[q] = fs[q]
    BY DEF RemoveTree
  <2>3. p \in SelfAndUnder(p)
    BY DEF SelfAndUnder
  <2> QED
    BY <1>1, <1>2, <1>3, <2>2, <2>3 DEF Works
<1>4. CASE snapshot[p].kind # "dir"
  <2> DEFINE b == Backup(fs, p)
  <2>1. g = RemoveFile(b, p) /\ CanBackup(fs, p)
    BY <1>4 DEF CanDelete
  <2>2. /\ Works(fs, b, p, {}, {p}) /\ b \in Tree
        /\ NeedsBackup(fs, p) => b[BackupOf[p]].kind = "file" /\ b[BackupOf[p]].data = fs[p].data
    BY <1>1, <2>1, BackupWorks, BackupSafe DEF Safe, GoodTree
  <2> HIDE DEF b
  <2>3. RemoveFile(b, p)[p] = Absent /\ \A q \in Path \ {p} : RemoveFile(b, p)[q] = b[q]
    BY <1>1, <2>2 DEF RemoveFile, Tree
  <2>5. Works(fs, RemoveFile(b, p), p, {}, {p})
    BY <1>2, <2>2, <2>3 DEF Works
  <2> QED
    BY <1>1, <1>2, <1>4, <2>1, <2>2, <2>3, <2>5
<1> QED
  BY <1>3, <1>4

\* set_mtime sets the time of one node.
LEMMA TimeSet ==
    ASSUME NEW f \in Tree, NEW p \in Path, NEW t \in Stamp \cup {Now}
    PROVE  /\ SetMtime(f, p, t)[p].kind = f[p].kind
           /\ SetMtime(f, p, t)[p].data = f[p].data
           /\ SetMtime(f, p, t)[p].mtime = t
           /\ \A q \in Path \ {p} : SetMtime(f, p, t)[q] = f[q]
<1>1. f[p] \in Node
  BY DEF Tree
<1>2. /\ [f[p] EXCEPT !.mtime = t].kind = f[p].kind
      /\ [f[p] EXCEPT !.mtime = t].data = f[p].data
      /\ [f[p] EXCEPT !.mtime = t].mtime = t
  BY <1>1 DEF Node
<1>3. SetMtime(f, p, t) = [f EXCEPT ![p] = [f[p] EXCEPT !.mtime = t]]
  BY DEF SetMtime
<1> QED
  BY <1>2, <1>3 DEF Tree

\* One entry of the loop, when it goes well.
LEMMA EntryWorks ==
    ASSUME SafeInv, NEW p \in Path, EntryStep(p), ~o.dryRun, pc' \in {"next", "apply"}
    PROVE  p \in entries /\ p \in todo \cup staged /\ Works(fs, fs', p, Touched(p), Lost(p))
<1>1. /\ TypeOK /\ ParentsOffered /\ StagingOK /\ Safe(fs) /\ fs \in Tree
  BY SafeNow DEF TypeOK
<1>2. \/ fs' = fs \/ ClearTarget(p) \/ CreateDir(p) \/ UpToDate(p)
      \/ WriteFile(p) \/ StageFile(p) \/ CreateSymlink(p) \/ FinishDelayed(p)
  BY DEF EntryStep, SkipDirectory, SkipSpecial, RefuseSpecial, KeepConflict, SkipEntry,
         ClearTargetFails, CreateDirFails, UpToDateFails, WriteFileFails, StageFileFails,
         CreateSymlinkFails, FinishDelayedFails, TransferError, ReturnError
<1>3. IsFirst(p, todo) \/ IsFirst(p, staged)
  BY DEF EntryStep, SkipDirectory, SkipSpecial, RefuseSpecial, KeepConflict, ClearTarget,
         ClearTargetFails, CreateDir, CreateDirFails, UpToDate, UpToDateFails, WriteFile,
         WriteFileFails, StageFile, StageFileFails, CreateSymlink, CreateSymlinkFails,
         FinishDelayed, FinishDelayedFails, Handled, Applying
<1>4. p \in todo \cup staged /\ p \in entries
  BY <1>1, <1>3 DEF IsFirst, TypeOK
<1>4a. p \in Dest
  BY <1>1, <1>4, EntryFacts
<1>5. ASSUME NEW g, NEW T, NEW S, Works(fs, g, p, T, S), T \subseteq Touched(p), S \subseteq Lost(p)
      PROVE  Works(fs, g, p, Touched(p), Lost(p))
  BY <1>5 DEF Works
<1>6. {p} \subseteq Touched(p) /\ {} \subseteq Lost(p)
  BY DEF Touched
<1>7. \A q \in Above(p) : q \in Dest => q \in entries
  <2>1. Above(p) \cap Dest \subseteq entries
    BY <1>1, <1>4 DEF ParentsOffered
  <2> QED
    BY <2>1
<1>8. CASE fs' = fs
  <2>1. Works(fs, fs, p, Touched(p), Lost(p))
    BY DEF Works
  <2> QED
    BY <1>4, <1>8, <2>1
<1>9. CASE ClearTarget(p)
  <2>1. fs' = Cleared(p) /\ CanClear(p)
    BY <1>9 DEF ClearTarget, Effect
  <2>2. Works(fs, fs', p, {p}, Lost(p))
    BY <1>1, <1>4, <2>1, ClearWorks
  <2> QED
    BY <1>4, <1>5, <1>6, <2>2
<1>10. CASE CreateDir(p)
  <2>1. fs' = MakeDir(fs, p) /\ CanMakeDir(fs, p)
    BY <1>10 DEF CreateDir, Effect
  <2>2. \A q \in Path \ {p} : \/ fs'[q] = fs[q]
                              \/ /\ q \in Above(p) /\ fs'[q].kind = "dir"
                                 /\ fs[q].kind \in {"absent", "dir"}
    BY <2>1 DEF MakeDir, MakeParents, CanMakeDir, CanMakeParents, Above, Dir
  <2>3. Works(fs, fs', p, {p}, {})
    BY <1>7, <2>2 DEF Works
  <2> QED
    BY <1>4, <1>5, <1>6, <2>3
<1>11. CASE UpToDate(p)
  <2>1. fs' = fs \/ fs' = SetMtime(fs, p, Src(p).mtime)
    BY <1>11 DEF UpToDate, Effect
  <2>2. Src(p).mtime \in Stamp \cup {Now}
    BY <1>1, JobFacts DEF Node
  <2>3. \A q \in Path \ {p} : fs'[q] = fs[q]
    BY <1>1, <2>1, <2>2, TimeSet
  <2>4. Works(fs, fs', p, {p}, {})
    BY <2>3 DEF Works
  <2> QED
    BY <1>4, <1>5, <1>6, <2>4
<1>12. CASE WriteFile(p)
  <2>1. fs' = Put(Backup(fs, p), p, Delivered(p)) /\ CanBackup(fs, p) /\ CanPut(Backup(fs, p), p)
    BY <1>12 DEF WriteFile, Effect, CanWrite
  <2>2. Works(fs, fs', p, {p}, {})
    BY <1>1, <1>4, <2>1, WriteWorks
  <2> QED
    BY <1>4, <1>5, <1>6, <2>2
<1>13. CASE StageFile(p)
  <2>1. /\ fs' = Put(fs, StageOf[p], File(Src(p).data, Now)) /\ CanPut(fs, StageOf[p])
        /\ Touched(p) = {p, StageOf[p]}
    BY <1>13 DEF StageFile, Touched, Applying
  <2>2. StageOf[p] \in Path
    BY <1>1, <1>4a, JobFacts
  <2>3. \A q \in Path \ {StageOf[p]} : \/ fs'[q] = fs[q]
                              \/ /\ q \in Above(StageOf[p]) /\ fs'[q].kind = "dir"
                                 /\ fs[q].kind \in {"absent", "dir"}
    BY <1>1, <2>1, <2>2, PutWorks
  <2>4. \A q \in Above(StageOf[p]) : q \in Scratch
    BY <1>4a, ScratchFacts
  <2>5. Works(fs, fs', p, Touched(p), Lost(p))
    BY <2>1, <2>3, <2>4 DEF Works
  <2> QED
    BY <1>4, <2>5
<1>14. CASE CreateSymlink(p)
  <2>1. fs' = Put(fs, p, Link(Src(p).data)) /\ CanPut(fs, p)
    BY <1>14 DEF CreateSymlink, Effect
  <2>2. \A q \in Path \ {p} : \/ fs'[q] = fs[q]
                              \/ /\ q \in Above(p) /\ fs'[q].kind = "dir"
                                 /\ fs[q].kind \in {"absent", "dir"}
    BY <1>1, <2>1, PutWorks
  <2>3. Works(fs, fs', p, {p}, {})
    BY <1>7, <2>2 DEF Works
  <2> QED
    BY <1>4, <1>5, <1>6, <2>3
<1>15. CASE FinishDelayed(p)
  <2>1. /\ fs' = Renamed(Backup(fs, p), p, Delivered(p).mtime) /\ CanFinish(p) /\ pc = "next"
        /\ p \in staged /\ Src(p).kind = "file"
    BY <1>1, <1>15 DEF FinishDelayed, IsFirst, StagingOK
  <2>2. Delivered(p).mtime \in Stamp \cup {Now} /\ Touched(p) = {p, StageOf[p]}
    BY <1>1, <2>1, DeliveredFacts DEF Touched
  <2>3. Works(fs, fs', p, Touched(p), {})
    BY <2>1, <2>2, FinishWorks
  <2> QED
    BY <1>4, <1>5, <1>6, <2>3
<1> QED
  BY <1>2, <1>8, <1>9, <1>10, <1>11, <1>12, <1>13, <1>14, <1>15

-----------------------------------------------------------------------------
(* Convergence                                                             *)

\* A step leaves the other files as they were: waiting or up to date.
LEMMA OthersSettled ==
    ASSUME TypeOK, ParentsOffered, NEW p \in Dest, NEW T, NEW S, NEW g, Works(fs, g, p, T, S),
           NEW q \in entries, Src(q).kind = "file", q \notin T, q \notin S
    PROVE  (Waits(fs, q) => Waits(g, q)) /\ (DoneIn(fs, q) => DoneIn(g, q))
<1>1. q \in Path /\ q # BackupOf[p]
  BY EntryFacts
<1>2. g[q] = fs[q] \/ (g[q].kind = "dir" /\ fs[q].kind \in {"absent", "dir"})
  BY <1>1 DEF Works
<1>3. Waits(fs, q) => Waits(g, q)
  BY <1>2 DEF Waits, FileBefore
<1>4. DoneIn(fs, q) => DoneIn(g, q)
  BY <1>2 DEF DoneIn, Exists
<1> QED
  BY <1>3, <1>4

\* Nothing that is gone comes back.
LEMMA StillGone ==
    ASSUME NEW p \in Dest, NEW T, NEW S, NEW g, Works(fs, g, p, T, S),
           \A q \in T : q \in entries \cup Scratch, NEW X, GoneIn(fs, X)
    PROVE  GoneIn(g, X)
<1> SUFFICES ASSUME NEW q \in Extraneous(entries, snapshot) \ (Scratch \cup X), ~Protected(q)
             PROVE  ~Exists(g, q)
  BY DEF GoneIn
<1>1. q \in Dest /\ q \in Path /\ q \notin entries /\ q \notin Scratch
  BY ExtraneousFacts, TreeAssumption
<1>2. fs[q].kind = "absent"
  BY DEF GoneIn, Exists
<1>3. q # BackupOf[p] /\ q \notin T
  BY <1>1, ScratchFacts
<1>4. g[q].kind = "absent"
  BY <1>1, <1>2, <1>3 DEF Works
<1> QED
  BY <1>4 DEF Exists

\* A source file carries a time of its own.
LEMMA SourceTimes ==
    ASSUME TypeOK, NEW p \in Path, Src(p).kind = "file"
    PROVE  Src(p).mtime \in Stamp /\ Src(p).mtime \in Int /\ Src(p).mtime # Now
<1>1. job \in Jobs
  BY DEF TypeOK
<1>2. \A j \in Jobs : \A q \in Path : j.src[q].kind = "file" => j.src[q].mtime \in Stamp
  BY JobAssumption
<1>3. Src(p).mtime \in Stamp
  BY <1>1, <1>2 DEF Src
<1>4. Src(p).mtime \in Nat \ {0}
  BY <1>3, DataAssumption
<1> QED
  BY <1>3, <1>4 DEF Now

\* Times that are equal are equal within every window.
LEMMA SameTimes ==
    ASSUME NEW a \in Int, NEW w \in Int
    PROVE  MtimesEqual(a, a, w)
BY DEF MtimesEqual, Abs

\* A file with the size, the time and the content of the source needs no
\* update.
LEMMA FreshFile ==
    ASSUME TypeOK, NEW p \in Path, Src(p).kind = "file", NEW t,
           t.kind = "file", t.data = Src(p).data, t.mtime = Src(p).mtime,
           o.update # "IgnoreTimes"
    PROVE  ~FileNeedsUpdate(Src(p), t, o)
<1>1. Src(p).mtime \in Stamp /\ Src(p).mtime \in Int /\ Src(p).mtime # Now
  BY SourceTimes
<1>2. o.update \in UpdateModes /\ o.modifyWindow \in Int
  BY JobFacts DEF Options
<1>3. MtimesEqual(Src(p).mtime, Src(p).mtime, o.modifyWindow)
  BY <1>1, <1>2, SameTimes
<1>4. CASE o.update = "SizeOnly"
  BY <1>1, <1>2, <1>3, <1>4 DEF FileNeedsUpdate
<1>5. CASE o.update = "QuickCheck"
  BY <1>1, <1>2, <1>3, <1>5 DEF FileNeedsUpdate
<1>6. CASE o.update = "Checksum"
  BY <1>1, <1>2, <1>3, <1>6 DEF FileNeedsUpdate
<1>7. CASE o.update = "IgnoreTimes"
  BY <1>1, <1>2, <1>3, <1>7 DEF FileNeedsUpdate
<1> QED
  BY <1>2, <1>4, <1>5, <1>6, <1>7 DEF UpdateModes

\* A file that needed no update needs none with the time of the source,
\* unless it was spared as newer.
LEMMA StampedFile ==
    ASSUME TypeOK, NEW p \in Path, Src(p).kind = "file", NEW s, NEW t,
           s.kind = "file", t.kind = "file", t.data = s.data, t.mtime = Src(p).mtime,
           ~FileNeedsUpdate(Src(p), s, o),
           ~(o.skipNewer /\ (s.mtime > Src(p).mtime \/ s.mtime = Now))
    PROVE  ~FileNeedsUpdate(Src(p), t, o)
<1>1. Src(p).mtime \in Stamp /\ Src(p).mtime \in Int /\ Src(p).mtime # Now
  BY SourceTimes
<1>2. o.update \in UpdateModes /\ o.modifyWindow \in Int
  BY JobFacts DEF Options
<1>3. MtimesEqual(Src(p).mtime, Src(p).mtime, o.modifyWindow)
  BY <1>1, <1>2, SameTimes
<1>4. CASE o.update = "SizeOnly"
  BY <1>1, <1>2, <1>3, <1>4 DEF FileNeedsUpdate
<1>5. CASE o.update = "QuickCheck"
  BY <1>1, <1>2, <1>3, <1>5 DEF FileNeedsUpdate
<1>6. CASE o.update = "Checksum"
  BY <1>1, <1>2, <1>3, <1>6 DEF FileNeedsUpdate
<1>7. CASE o.update = "IgnoreTimes"
  BY <1>1, <1>2, <1>3, <1>7 DEF FileNeedsUpdate
<1> QED
  BY <1>2, <1>4, <1>5, <1>6, <1>7 DEF UpdateModes

\* Where a run is, and what that says of the loop and of the deletions.
Course ==
    /\ todo \cap staged = {}
    /\ result # "none" => pc = "done"
    /\ pc = "times" \/ result = "ok" \/ (pc = "delete" /\ phase = "after") =>
         todo = {} /\ staged = {}
    /\ pc = "times" \/ result = "ok" => plan = {} /\ (o.deleteMode # "None" => phase # "none")
    /\ pc \in {"next", "apply"} /\ o.deleteMode \in {"Before", "During"} =>
         phase # "none" /\ plan = {}
    /\ phase = "none" => plan = {}
    /\ phase # "none" => o.deleteMode # "None"

\* The inductive strengthening of Converged: entries that the loop has not
\* come to are as the walk found them, the others are up to date, and what
\* the deletions have dealt with stays away.
ConvergeInv ==
    /\ LimitInv
    /\ Course
    /\ Going => Settled(fs, todo \cup staged) /\ GoneIn(fs, Pending)

\* A step of the loop, as far as the program's own variables go.
LEMMA EntryMoves ==
    ASSUME NEW p \in Path, EntryStep(p)
    PROVE  /\ UNCHANGED <<job, snapshot, entries, plan, phase, deleted>>
           /\ pc \in {"next", "apply"}
           /\ pc' \in {"next", "apply", "recover", "unfinished", "done"}
           /\ result' = result \/ (result' = "error" /\ pc' = "done")
           /\ \/ todo' \in {todo, todo \ {p}} /\ staged' = staged
              \/ todo' = todo \ {p} /\ staged' = staged \cup {p}
              \/ todo' = todo /\ staged' = staged \ {p}
           /\ pc' = "done" <=> result' = "error" /\ pc' = "done"
<1>1. CASE SkipDirectory(p) \/ SkipSpecial(p) \/ KeepConflict(p)
  BY <1>1 DEF SkipDirectory, SkipSpecial, KeepConflict, SkipEntry, Frame, Handled
<1>2. CASE RefuseSpecial(p) \/ WriteFileFails(p) \/ StageFileFails(p) \/ CreateSymlinkFails(p)
  BY <1>2 DEF RefuseSpecial, WriteFileFails, StageFileFails, CreateSymlinkFails, TransferError,
              Applying
<1>3. CASE ClearTarget(p)
  BY <1>3 DEF ClearTarget, Handled, Frame
<1>4. CASE ClearTargetFails(p)
  BY <1>4 DEF ClearTargetFails, Handled, TransferError, ReturnError
<1>5. CASE CreateDirFails(p) \/ UpToDateFails(p)
  BY <1>5 DEF CreateDirFails, UpToDateFails, Applying, ReturnError
<1>6. CASE CreateDir(p) \/ UpToDate(p) \/ WriteFile(p) \/ CreateSymlink(p)
  BY <1>6 DEF CreateDir, UpToDate, WriteFile, CreateSymlink, Applying, Applied, Frame
<1>7. CASE StageFile(p)
  BY <1>7 DEF StageFile, Applying, Applied, Frame
<1>8. CASE FinishDelayed(p)
  BY <1>8 DEF FinishDelayed, Frame
<1>9. CASE FinishDelayedFails(p)
  BY <1>9 DEF FinishDelayedFails, Frame
<1> QED
  BY <1>1, <1>2, <1>3, <1>4, <1>5, <1>6, <1>7, <1>8, <1>9 DEF EntryStep

\* One entry of the loop: the file that it is about is settled.
LEMMA EntrySettles ==
    ASSUME SafeInv, Course, ~o.dryRun, Settled(fs, todo \cup staged),
           NEW p \in Path, EntryStep(p), pc' \in {"next", "apply"}
    PROVE  Settled(fs', todo' \cup staged')
<1>1. /\ TypeOK /\ ParentsOffered /\ StagingOK /\ Safe(fs) /\ fs \in Tree
      /\ todo \cap staged = {}
  BY SafeNow DEF TypeOK, Course
<1>2. p \in entries /\ p \in todo \cup staged /\ Works(fs, fs', p, Touched(p), Lost(p))
  BY EntryWorks
<1>3. /\ \/ todo' \in {todo, todo \ {p}} /\ staged' = staged
         \/ todo' = todo \ {p} /\ staged' = staged \cup {p}
         \/ todo' = todo /\ staged' = staged \ {p}
  BY EntryMoves
<1>4. p \in Dest
  BY <1>1, <1>2, EntryFacts
<1>5. ASSUME NEW q \in entries, Src(q).kind = "file", q # p
      PROVE  /\ q \in todo' \cup staged' <=> q \in todo \cup staged
             /\ q \notin Touched(p) /\ q \notin Lost(p)
  <2>1. q \in todo' \cup staged' <=> q \in todo \cup staged
    BY <1>3, <1>5
  <2>2. q \notin Touched(p)
    BY <1>1, <1>4, <1>5, EntryFacts DEF Touched, SelfAndAbove
  <2>3. q \notin Lost(p)
    BY <1>1, <1>2, LeafApart DEF Lost, Conflict
  <2> QED
    BY <2>1, <2>2, <2>3
<1>6. ASSUME Src(p).kind = "file"
      PROVE  /\ p \in todo' \cup staged' => Waits(fs', p)
             /\ p \notin todo' \cup staged' /\ o.preserveMtime => DoneIn(fs', p)
  <2>1. Waits(fs, p)
    BY <1>2, <1>6 DEF Settled
  <2>2. CASE KeepConflict(p)
    <3>1. fs' = fs /\ fs[p].kind = "dir"
      BY <2>2 DEF KeepConflict, ConflictKept, SkipEntry
    <3> QED
      BY <2>1, <3>1 DEF DoneIn
  <2>3. CASE ClearTarget(p)
    <3>1. fs' = Cleared(p) /\ CanClear(p) /\ p \in todo'
      BY <2>3 DEF ClearTarget, Effect, Handled, IsFirst
    <3>2. ~Conflict(p) => fs' = fs
      BY <1>1, <1>2, <3>1, ClearWorks
    <3>3. Conflict(p) => fs'[p].kind = "absent"
      BY <1>1, <1>2, <3>1, ClearWorks
    <3>4. Conflict(p) => ~FileBefore(p)
      BY <1>6, <2>1 DEF Waits, Conflict, FileBefore
    <3> QED
      BY <2>1, <3>1, <3>2, <3>3, <3>4 DEF Waits
  <2>4. CASE UpToDate(p)
    <3>1. /\ ~FileNeedsUpdate(Src(p), fs[p], o) /\ p \notin todo' \cup staged'
          /\ fs' = IF o.preserveMtime /\ Exists(fs, p) THEN SetMtime(fs, p, Src(p).mtime) ELSE fs
      BY <1>1, <2>4 DEF UpToDate, NeedsUpdate, Effect, Applied, Applying, IsFirst
    <3>2. Src(p).mtime \in Stamp \cup {Now}
      BY <1>1, JobFacts DEF Node
    <3>3. SUFFICES ASSUME o.preserveMtime PROVE DoneIn(fs', p)
      BY <3>1
    <3>4. CASE ~(Size[Src(p).data] <= o.maxSize) \/ ~(Size[Src(p).data] >= o.minSize)
      BY <3>4 DEF DoneIn, FileNeedsUpdate
    <3>5. CASE /\ Size[Src(p).data] <= o.maxSize /\ Size[Src(p).data] >= o.minSize
               /\ fs[p].kind = "absent"
      <4>1. o.existingOnly
        BY <3>1, <3>5 DEF FileNeedsUpdate
      <4>2. fs' = fs
        BY <3>1, <3>5 DEF Exists
      <4> QED
        BY <3>1, <3>5, <4>1, <4>2 DEF DoneIn, Exists
    <3>6. CASE fs[p].kind = "file"
      <4>1. FileBefore(p) /\ fs[p] = snapshot[p]
        BY <2>1, <3>6 DEF Waits
      <4>2. /\ fs'[p].kind = "file" /\ fs'[p].data = fs[p].data /\ fs'[p].mtime = Src(p).mtime
        BY <1>1, <3>1, <3>2, <3>3, <3>6, TimeSet DEF Exists
      <4>3. SkippedAsNewer(p) \/ ~FileNeedsUpdate(Src(p), fs'[p], o)
        BY <1>1, <1>6, <3>1, <4>1, <4>2, StampedFile DEF SkippedAsNewer, FileBefore
      <4> QED
        BY <3>1, <4>1, <4>3 DEF DoneIn
    <3>7. CASE fs[p].kind \notin {"absent", "file"} /\ Size[Src(p).data] <= o.maxSize
               /\ Size[Src(p).data] >= o.minSize
      BY <3>1, <3>7 DEF FileNeedsUpdate
    <3> QED
      BY <3>4, <3>5, <3>6, <3>7
  <2>5. CASE WriteFile(p)
    <3>1. /\ fs' = Put(Backup(fs, p), p, Delivered(p)) /\ CanBackup(fs, p)
          /\ CanPut(Backup(fs, p), p) /\ p \notin todo' \cup staged'
      BY <1>1, <2>5 DEF WriteFile, Effect, CanWrite, Applied, Applying, IsFirst
    <3>2. fs'[p] = Delivered(p)
      BY <1>1, <1>2, <3>1, WriteWorks
    <3>3. o.preserveMtime => /\ fs'[p].kind = "file" /\ fs'[p].data = Src(p).data
                             /\ fs'[p].mtime = Src(p).mtime
      BY <3>2 DEF Delivered, File
    <3> QED
      BY <1>1, <1>6, <3>1, <3>3, FreshFile DEF DoneIn
  <2>6. CASE StageFile(p)
    <3>1. fs' = Put(fs, StageOf[p], File(Src(p).data, Now)) /\ CanPut(fs, StageOf[p])
          /\ p \in staged'
      BY <2>6 DEF StageFile
    <3>2. StageOf[p] \in Path /\ p # StageOf[p] /\ p \notin Above(StageOf[p])
      BY <1>1, <1>2, <1>4, <1>6, EntryFacts, JobFacts DEF SelfAndAbove
    <3>3. fs'[p] = fs[p]
      BY <1>1, <3>1, <3>2, PutWorks
    <3> QED
      BY <2>1, <3>1, <3>3 DEF Waits
  <2>7. CASE FinishDelayed(p)
    <3>1. /\ fs' = Renamed(Backup(fs, p), p, Delivered(p).mtime) /\ CanFinish(p) /\ pc = "next"
          /\ p \in staged /\ p \notin todo' \cup staged'
      BY <1>1, <2>7 DEF FinishDelayed, IsFirst
    <3>2. Delivered(p).mtime \in Stamp \cup {Now}
      BY <1>1, <1>6, DeliveredFacts
    <3>3. fs'[p] = File(Src(p).data, Delivered(p).mtime)
      BY <3>1, <3>2, FinishWorks
    <3>4. o.preserveMtime => /\ fs'[p].kind = "file" /\ fs'[p].data = Src(p).data
                             /\ fs'[p].mtime = Src(p).mtime
      BY <3>3 DEF Delivered, File
    <3> QED
      BY <1>1, <1>6, <3>1, <3>4, FreshFile DEF DoneIn
  <2> QED
    BY <1>6, <2>2, <2>3, <2>4, <2>5, <2>6, <2>7 DEF EntryStep, SkipDirectory, SkipSpecial,
       RefuseSpecial, CreateDir, CreateSymlink, Applying, ClearTargetFails, CreateDirFails,
       UpToDateFails, WriteFileFails, StageFileFails, CreateSymlinkFails, FinishDelayedFails,
       TransferError, ReturnError
<1>7. ASSUME NEW q \in entries, Src(q).kind = "file", q # p
      PROVE  /\ q \in todo' \cup staged' => Waits(fs', q)
             /\ q \notin todo' \cup staged' /\ o.preserveMtime => DoneIn(fs', q)
  <2>1. (Waits(fs, q) => Waits(fs', q)) /\ (DoneIn(fs, q) => DoneIn(fs', q))
    BY <1>1, <1>2, <1>4, <1>5, <1>7, OthersSettled
  <2> QED
    BY <1>5, <1>7, <2>1 DEF Settled
<1> QED
  BY <1>6, <1>7 DEF Settled

\* The loop and the deletions take their course.
LEMMA CourseNext ==
    ASSUME LimitInv, Course, [Next]_vars
    PROVE  Course'
<1>1. /\ TypeOK /\ Control /\ StagingOK /\ PhasesOK /\ o \in Options
      /\ (pc = "scan" => plan = {})
  BY SafeNow, JobFacts DEF LimitInv, SafeInv
<1>2. CASE Scan
  <2>1. /\ job' = job /\ staged' = {} /\ phase = "none" /\ plan = {}
        /\ result = "none" /\ result' = "none"
    BY <1>1, <1>2 DEF Scan, StagingOK, PhasesOK, Course, Control
  <2>2. CASE o.deleteMode \in {"Before", "During"}
    <3>1. pc' = "delete" /\ phase' = "before"
      BY <1>2, <2>2 DEF Scan, BeginDeletes
    <3> QED
      BY <2>1, <2>2, <3>1 DEF Course, o
  <2>3. CASE o.deleteMode \notin {"Before", "During"}
    <3>1. pc' = "next" /\ phase' = "none" /\ plan' = {}
      BY <1>2, <2>1, <2>3 DEF Scan
    <3> QED
      BY <2>1, <2>3, <3>1 DEF Course, o
  <2> QED
    BY <2>2, <2>3
<1>3. ASSUME UNCHANGED <<job, todo, plan, phase>>, staged' \subseteq staged,
             pc' = "done" /\ result' \in {"error", "crash"}
      PROVE  Course'
  BY <1>3 DEF Course, o
<1>4. CASE ScanFails \/ Deadline \/ DirectoryTimesFail
  BY <1>3, <1>4 DEF ScanFails, Deadline, DirectoryTimesFail, ReturnError
<1>5. CASE Unfinished \/ Crash
  BY <1>3, <1>5 DEF Unfinished, Crash
<1>6. ASSUME NEW p \in Path, DeleteStep(p)
      PROVE  Course'
  <2>1. CASE SkipDelete(p) \/ DeleteEntry(p)
    <3>1. /\ UNCHANGED <<job, pc, todo, staged, phase, result>>
          /\ pc = "delete" /\ plan' = plan \ {p}
      BY <2>1 DEF SkipDelete, DeleteEntry, Deletable, NextDelete
    <3> QED
      BY <3>1 DEF Course, o
  <2>2. CASE StopAtMaxDelete(p) \/ DeleteEntryFails(p)
    BY <1>3, <2>2 DEF StopAtMaxDelete, DeleteEntryFails, ReturnError
  <2> QED
    BY <1>6, <2>1, <2>2 DEF DeleteStep
<1>7. CASE DeletesDone
  <2>1. /\ UNCHANGED <<job, todo, staged, plan, phase>> /\ pc = "delete" /\ plan = {}
        /\ result = "none" /\ phase # "none"
    BY <1>1, <1>7 DEF DeletesDone, Course, PhasesOK
  <2>2. CASE phase = "before"
    <3>1. pc' = "next" /\ result' = "none"
      BY <1>7, <2>1, <2>2 DEF DeletesDone
    <3> QED
      BY <2>1, <3>1 DEF Course, o
  <2>3. CASE phase = "after"
    <3>1. pc' = "times" /\ result' = "none"
      BY <1>7, <2>1, <2>3 DEF DeletesDone
    <3> QED
      BY <2>1, <2>3, <3>1 DEF Course, o
  <2>4. CASE phase = "onError"
    <3>1. pc' = "done" /\ result' = "error"
      BY <1>7, <2>1, <2>4 DEF DeletesDone
    <3> QED
      BY <1>3, <2>1, <3>1
  <2> QED
    BY <1>1, <2>1, <2>2, <2>3, <2>4 DEF Control
<1>8. ASSUME NEW p \in Path, EntryStep(p)
      PROVE  Course'
  <2>1. /\ UNCHANGED <<job, plan, phase>> /\ pc \in {"next", "apply"}
        /\ pc' \in {"next", "apply", "recover", "unfinished", "done"}
        /\ result' = result \/ (result' = "error" /\ pc' = "done")
        /\ \/ todo' \in {todo, todo \ {p}} /\ staged' = staged
           \/ todo' = todo \ {p} /\ staged' = staged \cup {p}
           \/ todo' = todo /\ staged' = staged \ {p}
    BY <1>8, EntryMoves
  <2>2. result = "none" /\ todo' \cap staged' = {}
    BY <2>1 DEF Course
  <2> QED
    BY <2>1, <2>2 DEF Course, o
<1>9. CASE Recover
  <2>1. job' = job /\ todo' = todo /\ staged' = {} /\ result = "none" /\ pc = "recover"
    BY <1>9 DEF Recover, Course
  <2>2. CASE o.ignoreErrors /\ o.deleteMode \in {"Delay", "After"}
    <3>1. pc' = "delete" /\ phase' = "onError" /\ result' = "none"
      BY <1>9, <2>1, <2>2 DEF Recover, BeginDeletes
    <3> QED
      BY <2>1, <2>2, <3>1 DEF Course, o
  <2>3. CASE ~(o.ignoreErrors /\ o.deleteMode \in {"Delay", "After"})
    BY <1>3, <1>9, <2>1, <2>3 DEF Recover
  <2> QED
    BY <2>2, <2>3
<1>10. CASE TransfersDone
  <2>1. /\ UNCHANGED <<job, todo, staged, result>> /\ todo = {} /\ staged = {}
        /\ result = "none" /\ pc = "next"
    BY <1>10 DEF TransfersDone, Course
  <2>2. CASE o.deleteMode \in {"Delay", "After"}
    <3>1. pc' = "delete" /\ phase' = "after"
      BY <1>10, <2>2 DEF TransfersDone, BeginDeletes
    <3> QED
      BY <2>1, <2>2, <3>1 DEF Course, o
  <2>3. CASE o.deleteMode \notin {"Delay", "After"}
    <3>1. pc' = "times" /\ UNCHANGED <<plan, phase>>
      BY <1>10, <2>3 DEF TransfersDone
    <3>2. o.deleteMode \in {"None", "Before", "During"}
      BY <1>1, <2>3 DEF Options, DeleteModes
    <3>3. plan = {} /\ (o.deleteMode # "None" => phase # "none")
      BY <2>1, <3>2 DEF Course
    <3> QED
      BY <2>1, <3>1, <3>3 DEF Course, o
  <2> QED
    BY <2>2, <2>3
<1>11. CASE DirectoryTimes
  BY <1>11 DEF DirectoryTimes, Course, o
<1>12. CASE NextRun
  BY <1>12 DEF NextRun, Course
<1>13. CASE UNCHANGED vars
  BY <1>13 DEF vars, Course, o
<1> QED
  BY <1>2, <1>4, <1>5, <1>6, <1>7, <1>8, <1>9, <1>10, <1>11, <1>12, <1>13 DEF Next, Step

\* The steps of a run that goes well: the walk, a deletion, an entry of the
\* loop, or a step that touches neither the tree nor the loop's sets.
LEMMA GoingMoves ==
    ASSUME LimitInv, Course, [Next]_vars, Going'
    PROVE  \/ Scan
           \/ /\ Going /\ UNCHANGED <<job, snapshot, entries>>
              /\ \/ \E p \in Path : (SkipDelete(p) \/ DeleteEntry(p)) /\ pc = "delete"
                 \/ \E p \in Path : EntryStep(p) /\ pc' \in {"next", "apply"}
                 \/ /\ UNCHANGED <<fs, todo, staged>> /\ Pending' = Pending
                    /\ pc' = "apply" => pc = "apply"
<1>1. /\ TypeOK /\ Control /\ StagingOK /\ PhasesOK
  BY SafeNow DEF LimitInv
<1>2. CASE Scan
  BY <1>2
<1>3. CASE ScanFails \/ Deadline \/ DirectoryTimesFail
  <2>1. pc' = "done" /\ result' = "error"
    BY <1>3 DEF ScanFails, Deadline, DirectoryTimesFail, ReturnError
  <2> QED
    BY <2>1 DEF Going
<1>4. CASE Unfinished \/ Crash
  <2>1. pc' = "done" /\ result' \in {"error", "crash"}
    BY <1>4 DEF Unfinished, Crash
  <2> QED
    BY <2>1 DEF Going
<1>5. CASE NextRun
  BY <1>5 DEF NextRun, Going
<1>6. CASE Recover
  <2>1. pc = "recover" /\ result = "none"
    BY <1>6 DEF Recover, Course
  <2>2. \/ pc' = "delete" /\ phase' = "onError" /\ result' = "none"
        \/ pc' = "done" /\ result' = "error"
    BY <1>6, <2>1 DEF Recover, BeginDeletes
  <2> QED
    BY <2>2 DEF Going
<1>7. ASSUME NEW p \in Path, DeleteStep(p)
      PROVE  Going /\ UNCHANGED <<job, snapshot, entries>>
             /\ (SkipDelete(p) \/ DeleteEntry(p)) /\ pc = "delete"
  <2>1. SkipDelete(p) \/ DeleteEntry(p)
    <3>1. CASE StopAtMaxDelete(p) \/ DeleteEntryFails(p)
      <4>1. pc' = "done" /\ result' = "error"
        BY <3>1 DEF StopAtMaxDelete, DeleteEntryFails, ReturnError
      <4> QED
        BY <4>1 DEF Going
    <3> QED
      BY <1>7, <3>1 DEF DeleteStep
  <2>2. UNCHANGED <<job, snapshot, entries, pc, phase, result>> /\ pc = "delete"
    BY <2>1 DEF SkipDelete, DeleteEntry, Deletable, NextDelete
  <2> QED
    BY <2>1, <2>2 DEF Going, o
<1>8. ASSUME NEW p \in Path, EntryStep(p)
      PROVE  Going /\ UNCHANGED <<job, snapshot, entries>> /\ pc' \in {"next", "apply"}
  <2>1. /\ UNCHANGED <<job, snapshot, entries>> /\ pc \in {"next", "apply"}
        /\ pc' \in {"next", "apply", "recover", "unfinished", "done"}
        /\ result' = result \/ (result' = "error" /\ pc' = "done")
    BY <1>8, EntryMoves
  <2>2. result = "none"
    BY <2>1 DEF Course
  <2> QED
    BY <2>1, <2>2 DEF Going, o
<1>9. CASE DeletesDone
  <2>1. /\ UNCHANGED <<job, snapshot, entries, fs, todo, staged, plan, phase>> /\ pc = "delete"
        /\ result = "none" /\ phase # "none" /\ pc' # "apply"
    BY <1>1, <1>9 DEF DeletesDone, Course, PhasesOK
  <2>2. phase # "onError"
    <3>1. phase = "onError" => pc' = "done" /\ result' = "error"
      BY <1>9 DEF DeletesDone
    <3> QED
      BY <3>1 DEF Going
  <2>3. Pending' = Pending
    BY <2>1 DEF Pending
  <2> QED
    BY <2>1, <2>2, <2>3 DEF Going, o
<1>10. CASE TransfersDone
  <2>1. UNCHANGED <<job, snapshot, entries, fs, todo, staged>> /\ pc = "next" /\ pc' # "apply"
    BY <1>10 DEF TransfersDone, BeginDeletes
  <2>2. Pending' = Pending
    <3>1. CASE o.deleteMode \in {"Delay", "After"}
      BY <1>1, <1>10, <2>1, <3>1 DEF TransfersDone, BeginDeletes, PhasesOK, Pending
    <3>2. CASE o.deleteMode \notin {"Delay", "After"}
      <4>1. UNCHANGED <<plan, phase>>
        BY <1>10, <3>2 DEF TransfersDone
      <4> QED
        BY <2>1, <4>1 DEF Pending, Extraneous, o
    <3> QED
      BY <3>1, <3>2
  <2> QED
    BY <2>1, <2>2 DEF Going, o
<1>11. CASE DirectoryTimes \/ UNCHANGED vars
  <2>1. UNCHANGED <<job, snapshot, entries, fs, todo, staged, plan, phase>>
    BY <1>11 DEF DirectoryTimes, vars
  <2>2. Going /\ (pc' = "apply" => pc = "apply")
    BY <1>11 DEF DirectoryTimes, vars, Going, o
  <2>3. Pending' = Pending
    BY <2>1 DEF Pending, Extraneous, o
  <2> QED
    BY <2>1, <2>2, <2>3
<1> QED
  BY <1>2, <1>3, <1>4, <1>5, <1>6, <1>7, <1>8, <1>9, <1>10, <1>11 DEF Next, Step

\* Within a run the predicates speak of the same job.
LEMMA SameOutcome ==
    ASSUME UNCHANGED <<job, snapshot, entries>>
    PROVE  /\ Settled(fs, todo \cup staged)' <=> Settled(fs', todo' \cup staged')
           /\ GoneIn(fs, Pending)' <=> GoneIn(fs', Pending')
<1>1. /\ Extraneous(entries, snapshot)' = Extraneous(entries, snapshot) /\ o' = o
      /\ \A p : Protected(p)' <=> Protected(p)
  BY SameJob
<1>2. \A p : SkippedAsNewer(p)' <=> SkippedAsNewer(p)
  BY DEF SkippedAsNewer, Src, o
<1>3. Settled(fs, todo \cup staged)' <=> Settled(fs', todo' \cup staged')
  BY <1>1, <1>2 DEF Settled, Waits, DoneIn, FileBefore, Src
<1>4. GoneIn(fs, Pending)' <=> GoneIn(fs', Pending')
  BY <1>1 DEF GoneIn
<1> QED
  BY <1>3, <1>4

\* One deletion: the offered files stay as they are, and one path more is
\* dealt with.
LEMMA DeleteSettles ==
    ASSUME LimitInv, Course, ~o.dryRun, pc = "delete", NEW S, Settled(fs, S), GoneIn(fs, Pending),
           NEW p \in Path, SkipDelete(p) \/ DeleteEntry(p)
    PROVE  Settled(fs', S) /\ GoneIn(fs', Pending')
<1>1. SafeInv /\ TypeOK /\ ParentsOffered /\ Pending = plan /\ p \in plan /\ p \in Dest
  BY SafeNow, TreeAssumption DEF LimitInv, PhasesOK, Pending, SkipDelete, DeleteEntry, Deletable,
     NextDelete, TypeOK
<1>2. Pending' = plan \ {p}
  BY <1>1 DEF LimitInv, PhasesOK, Pending, SkipDelete, DeleteEntry
<1>3. ASSUME NEW g, GoneIn(g, plan), Protected(p) \/ ~Exists(g, p)
      PROVE  GoneIn(g, plan \ {p})
  BY <1>3 DEF GoneIn
<1>4. CASE SkipDelete(p)
  <2>1. fs' = fs /\ (~Exists(fs, p) \/ Protected(p))
    BY <1>4 DEF SkipDelete
  <2>2. GoneIn(fs, plan \ {p})
    BY <1>1, <1>3, <2>1
  <2> QED
    BY <1>2, <2>1, <2>2
<1>5. CASE DeleteEntry(p)
  <2> DEFINE g == IF snapshot[p].kind = "dir" THEN RemoveTree(fs, p)
                  ELSE RemoveFile(Backup(fs, p), p)
             T == IF snapshot[p].kind = "dir" THEN SelfAndUnder(p) ELSE {p}
  <2>1. fs' = g /\ CanDelete(p)
    BY <1>5 DEF DeleteEntry, Effect
  <2>2. Works(fs, g, p, {}, T) /\ g[p].kind = "absent"
    BY <1>1, <2>1, DeleteWorks
  <2>3. T \cap entries = {}
    BY <1>1, PlanApart DEF SelfAndUnder
  <2> HIDE DEF g, T
  <2>4. Settled(g, S)
    <3>1. ASSUME NEW q \in entries, Src(q).kind = "file"
          PROVE  (Waits(fs, q) => Waits(g, q)) /\ (DoneIn(fs, q) => DoneIn(g, q))
      BY <1>1, <2>2, <2>3, <3>1, OthersSettled
    <3> QED
      BY <3>1 DEF Settled
  <2>5. GoneIn(g, plan)
    <3>1. \A q \in {} : q \in entries \cup Scratch
      OBVIOUS
    <3> QED
      BY <1>1, <2>2, <3>1, StillGone
  <2>6. GoneIn(g, plan \ {p})
    BY <1>3, <2>2, <2>5 DEF Exists
  <2> QED
    BY <1>2, <2>1, <2>4, <2>6
<1> QED
  BY <1>4, <1>5

\* After the walk everything waits.
LEMMA ScanSettles ==
    ASSUME LimitInv, Scan
    PROVE  Settled(fs, todo \cup staged)' /\ GoneIn(fs, Pending)'
<1>1. snapshot' = fs' /\ todo' = entries' /\ phase = "none"
  BY DEF Scan, LimitInv, PhasesOK
<1>2. Pending' = Extraneous(entries, snapshot)'
  <2>1. CASE o.deleteMode \in {"Before", "During"}
    <3>1. plan' = Extraneous(entries', snapshot') /\ job' = job
      BY <1>1, <2>1 DEF Scan, BeginDeletes
    <3> QED
      BY <3>1 DEF Pending, Extraneous, o
  <2>2. CASE o.deleteMode \notin {"Before", "During"}
    BY <1>1, <2>2 DEF Scan, Pending
  <2> QED
    BY <2>1, <2>2
<1>3. GoneIn(fs, Pending)'
  BY <1>2 DEF GoneIn
<1>4. Settled(fs, todo \cup staged)'
  BY <1>1 DEF Settled, Waits, FileBefore
<1> QED
  BY <1>3, <1>4

\* ConvergeInv is inductive.
LEMMA ConvergeInductive == ConvergeInv /\ [Next]_vars => ConvergeInv'
<1> SUFFICES ASSUME ConvergeInv, [Next]_vars
             PROVE  ConvergeInv'
  OBVIOUS
<1>1. LimitInv /\ LimitInv' /\ Course /\ Course' /\ SafeInv
  BY LimitInductive, CourseNext DEF ConvergeInv, LimitInv
<1>2. SUFFICES ASSUME Going'
               PROVE  Settled(fs, todo \cup staged)' /\ GoneIn(fs, Pending)'
  BY <1>1 DEF ConvergeInv
<1>3. CASE Scan
  BY <1>1, <1>3, ScanSettles
<1>4. SUFFICES ASSUME ~Scan
               PROVE  Settled(fs', todo' \cup staged') /\ GoneIn(fs', Pending')
  BY <1>1, <1>2, <1>3, GoingMoves, SameOutcome
<1>5. /\ Going /\ UNCHANGED <<job, snapshot, entries>> /\ ~o.dryRun
      /\ Settled(fs, todo \cup staged) /\ GoneIn(fs, Pending)
      /\ \/ \E p \in Path : (SkipDelete(p) \/ DeleteEntry(p)) /\ pc = "delete"
         \/ \E p \in Path : EntryStep(p) /\ pc' \in {"next", "apply"}
         \/ UNCHANGED <<fs, todo, staged>> /\ Pending' = Pending
  BY <1>1, <1>2, <1>4, GoingMoves DEF ConvergeInv, Going
<1>6. ASSUME NEW p \in Path, SkipDelete(p) \/ DeleteEntry(p), pc = "delete"
      PROVE  Settled(fs', todo' \cup staged') /\ GoneIn(fs', Pending')
  <2>1. UNCHANGED <<todo, staged>>
    BY <1>6 DEF SkipDelete, DeleteEntry
  <2>2. Settled(fs', todo \cup staged) /\ GoneIn(fs', Pending')
    BY <1>1, <1>5, <1>6, DeleteSettles
  <2> QED
    BY <2>1, <2>2
<1>7. ASSUME NEW p \in Path, EntryStep(p), pc' \in {"next", "apply"}
      PROVE  Settled(fs', todo' \cup staged') /\ GoneIn(fs', Pending')
  <2>1. Settled(fs', todo' \cup staged')
    BY <1>1, <1>5, <1>7, EntrySettles
  <2>2. p \in entries /\ Works(fs, fs', p, Touched(p), Lost(p))
    BY <1>1, <1>5, <1>7, EntryWorks
  <2>3. p \in Dest
    BY <1>1, <2>2, SafeNow, EntryFacts
  <2>4. \A q \in Touched(p) : q \in entries \cup Scratch
    BY <2>2, <2>3, ScratchFacts DEF Touched
  <2>5. GoneIn(fs', Pending)
    BY <1>5, <2>2, <2>3, <2>4, StillGone
  <2>6. Pending' = Pending
    BY <1>5, <1>7, EntryMoves, SameJob DEF Pending
  <2> QED
    BY <2>1, <2>5, <2>6
<1>8. CASE UNCHANGED <<fs, todo, staged>> /\ Pending' = Pending
  BY <1>5, <1>8
<1> QED
  BY <1>5, <1>6, <1>7, <1>8

\* It holds initially.
LEMMA ConvergeInit == Init => ConvergeInv
<1> SUFFICES ASSUME Init
             PROVE  ConvergeInv
  OBVIOUS
<1>1. LimitInv
  BY LimitInit
<1>2. Course /\ ~Going
  BY DEF Init, Start, Course, Going
<1> QED
  BY <1>1, <1>2 DEF ConvergeInv

\* The property follows.
LEMMA ConvergeEnough == ConvergeInv => Converged
<1> SUFFICES ASSUME ConvergeInv, result = "ok", ~o.dryRun
             PROVE  /\ o.preserveMtime =>
                         \A p \in entries : Src(p).kind = "file" => UpdatesDone(p)
                    /\ o.deleteMode # "None" =>
                         \A p \in Extraneous(entries, snapshot) \ Scratch :
                           Protected(p) \/ ~Exists(fs, p)
  BY DEF Converged
<1>1. /\ Settled(fs, todo \cup staged) /\ GoneIn(fs, Pending)
      /\ todo = {} /\ staged = {} /\ plan = {}
      /\ o.deleteMode # "None" => phase # "none"
  BY DEF ConvergeInv, Course, Going
<1>2. ASSUME o.preserveMtime, NEW p \in entries, Src(p).kind = "file"
      PROVE  UpdatesDone(p)
  <2>1. DoneIn(fs, p)
    BY <1>1, <1>2 DEF Settled
  <2> QED
    BY <2>1 DEF DoneIn, UpdatesDone, NeedsUpdate
<1>3. ASSUME o.deleteMode # "None", NEW p \in Extraneous(entries, snapshot) \ Scratch
      PROVE  Protected(p) \/ ~Exists(fs, p)
  <2>1. Pending = {}
    BY <1>1, <1>3 DEF Pending
  <2> QED
    BY <1>1, <1>3, <2>1 DEF GoneIn
<1> QED
  BY <1>2, <1>3

\* A run that returns Ok has brought the destination up to date: no offered
\* file needs an update and no unprotected extraneous path is left.
THEOREM RunsConverge == Spec => []Converged
BY ConvergeInit, ConvergeInductive, ConvergeEnough, PTL DEF Spec

-----------------------------------------------------------------------------
(* Backups                                                                 *)

\* --backup-dir names a directory outside the destination.  With a suffix
\* instead, the backup of a deleted file lies beside it and goes with the
\* directory when that is deleted in its turn.
BackupsOutside == \A p \in Dest : BackupOf[p] \notin Dest

\* The tree g has at p the content that q had before the run.
HasData(g, p, q) == g[p].kind = "file" /\ g[p].data = snapshot[q].data

\* BackedUp of the tree g.
SavedIn(g) ==
    \A q \in Dest \ Scratch :
      FileBefore(q) /\ ~Displaced(q) /\ ~TakenAlong(q) =>
        HasData(g, q, q) \/ HasData(g, BackupOf[q], q)

\* A file that is not offered, or waits in S, has its old content.
OwnIn(g, S) ==
    \A q \in Dest \ Scratch :
      FileBefore(q) /\ (q \notin entries \/ q \in S) /\ g[q].kind = "file" =>
        g[q].data = snapshot[q].data

\* remove_conflicting_target has taken away the file that a link replaces.
Ready ==
    pc = "apply" =>
      \A q \in todo : IsFirst(q, todo) /\ Src(q).kind = "link" => fs[q].kind # "file"

\* The inductive strengthening of BackedUp: what has not been saved is in its
\* place, and what a backup will be made of is the old content.
SaveInv ==
    /\ ConvergeInv
    /\ Going /\ o.backup => SavedIn(fs) /\ OwnIn(fs, todo \cup staged) /\ Ready

\* A step for p loses no backup, and spares the files other than p.
LEMMA OthersSaved ==
    ASSUME BackupsOutside, TypeOK, NEW p \in Dest, NEW T, NEW S, NEW g, Works(fs, g, p, T, S),
           \A q \in T : q = p \/ (q \in Scratch /\ \A r \in Dest : q # BackupOf[r]),
           S \subseteq Dest, NEW q \in Dest \ Scratch, FileBefore(q)
    PROVE  /\ HasData(fs, BackupOf[q], q) =>
                \/ HasData(g, BackupOf[q], q)
                \/ q = p /\ fs[p].kind = "file" /\ g[BackupOf[p]].kind = "file"
                   /\ g[BackupOf[p]].data = fs[p].data
           /\ HasData(fs, q, q) /\ q # p /\ q \notin S => HasData(g, q, q)
<1>1. /\ q \in Path /\ BackupOf[q] \in Path /\ BackupOf[q] \notin Dest /\ BackupOf[p] \notin Dest
      /\ BackupOf[p] = BackupOf[q] => p = q
  BY JobFacts, ApartAssumption DEF BackupsOutside
<1>2. BackupOf[q] \notin T /\ BackupOf[q] \notin S
  BY <1>1
<1>3. HasData(fs, BackupOf[q], q) =>
        \/ HasData(g, BackupOf[q], q)
        \/ q = p /\ fs[p].kind = "file" /\ g[BackupOf[p]].kind = "file"
           /\ g[BackupOf[p]].data = fs[p].data
  BY <1>1, <1>2 DEF Works, HasData, NeedsBackup
<1>4. HasData(fs, q, q) /\ q # p /\ q \notin S => HasData(g, q, q)
  BY <1>1 DEF Works, HasData
<1> QED
  BY <1>3, <1>4

\* A step for p leaves the other files their old content.
LEMMA OthersOwn ==
    ASSUME BackupsOutside, TypeOK, NEW p \in Dest, NEW T, NEW S, NEW g, Works(fs, g, p, T, S),
           \A q \in T : q = p \/ q \in Scratch, NEW W, NEW V, OwnIn(fs, W), V \subseteq W,
           p \notin entries \/ p \in V => g[p] = fs[p] \/ g[p].kind # "file"
    PROVE  OwnIn(g, V)
<1> SUFFICES ASSUME NEW q \in Dest \ Scratch, FileBefore(q), q \notin entries \/ q \in V,
                    g[q].kind = "file"
             PROVE  g[q].data = snapshot[q].data
  BY DEF OwnIn
<1>1. q \in Path /\ q # BackupOf[p]
  BY JobFacts DEF BackupsOutside
<1>2. g[q] = fs[q]
  BY <1>1 DEF Works
<1> QED
  BY <1>2 DEF OwnIn

\* One entry of the loop: the content of its target stays or is backed up.
LEMMA EntrySaves ==
    ASSUME SafeInv, Course, Ready, NEW p \in Path, EntryStep(p), ~o.dryRun, o.backup,
           pc' \in {"next", "apply"}
    PROVE  /\ fs[p].kind = "file" =>
                \/ fs'[p].kind = "file" /\ fs'[p].data = fs[p].data
                \/ fs'[BackupOf[p]].kind = "file" /\ fs'[BackupOf[p]].data = fs[p].data
           /\ p \in todo' \cup staged' => fs'[p] = fs[p] \/ fs'[p].kind # "file"
           /\ pc' = "apply" =>
                IsFirst(p, todo) /\ todo' = todo /\ (Src(p).kind = "link" => fs'[p].kind # "file")
<1>1. /\ TypeOK /\ ParentsOffered /\ StagingOK /\ Safe(fs) /\ fs \in Tree
      /\ todo \cap staged = {}
  BY SafeNow DEF TypeOK, Course
<1>2. p \in entries /\ p \in Dest
  BY <1>1, EntryWorks, EntryFacts
<1>3. fs[p].kind = "file" => NeedsBackup(fs, p)
  BY DEF NeedsBackup
<1>4. CASE SkipDirectory(p) \/ SkipSpecial(p) \/ KeepConflict(p)
  BY <1>4 DEF SkipDirectory, SkipSpecial, KeepConflict, SkipEntry
<1>5. CASE ClearTarget(p)
  <2>1. fs' = Cleared(p) /\ CanClear(p) /\ IsFirst(p, todo) /\ todo' = todo
    BY <1>5 DEF ClearTarget, Effect, Handled
  <2>2. CASE ~Conflict(p)
    <3>1. fs' = fs
      BY <1>1, <1>2, <2>1, <2>2, ClearWorks
    <3>2. Src(p).kind = "link" => fs[p].kind # "file"
      BY <2>2 DEF Conflict, Exists
    <3> QED
      BY <2>1, <3>1, <3>2
  <2>3. CASE Conflict(p)
    <3>1. /\ fs'[p].kind = "absent"
          /\ NeedsBackup(fs, p) => fs'[BackupOf[p]].kind = "file" /\ fs'[BackupOf[p]].data = fs[p].data
      BY <1>1, <1>2, <2>1, <2>3, ClearWorks
    <3> QED
      BY <1>3, <2>1, <3>1
  <2> QED
    BY <2>2, <2>3
<1>6. CASE CreateDir(p)
  <2>1. CanMakeDir(fs, p) /\ pc' = "next" /\ fs' = MakeDir(fs, p)
    BY <1>6 DEF CreateDir, Applied, Effect
  <2>2. fs[p].kind # "file"
    BY <2>1 DEF CanMakeDir
  <2>3. fs'[p].kind = "dir"
    BY <2>1 DEF MakeDir, MakeParents, Dir
  <2> QED
    BY <2>1, <2>2, <2>3
<1>7. CASE UpToDate(p)
  <2>1. /\ fs' = fs \/ fs' = SetMtime(fs, p, Src(p).mtime)
        /\ pc' = "next" /\ todo' = todo \ {p} /\ staged' = staged /\ p \in todo
        /\ Src(p).kind = "file"
    BY <1>7 DEF UpToDate, Effect, Applied, Applying, IsFirst
  <2>2. Src(p).mtime \in Stamp \cup {Now}
    BY <1>1, JobFacts DEF Node
  <2>3. fs'[p].kind = fs[p].kind /\ fs'[p].data = fs[p].data
    BY <1>1, <2>1, <2>2, TimeSet
  <2> QED
    BY <1>1, <2>1, <2>3
<1>8. CASE WriteFile(p)
  <2>1. /\ fs' = Put(Backup(fs, p), p, Delivered(p)) /\ CanBackup(fs, p)
        /\ CanPut(Backup(fs, p), p) /\ pc' = "next" /\ p \notin todo' \cup staged'
    BY <1>1, <1>8 DEF WriteFile, Effect, CanWrite, Applied, Applying, IsFirst
  <2>2. NeedsBackup(fs, p) => fs'[BackupOf[p]].kind = "file" /\ fs'[BackupOf[p]].data = fs[p].data
    BY <1>1, <1>2, <2>1, WriteWorks
  <2> QED
    BY <1>3, <2>1, <2>2
<1>9. CASE StageFile(p)
  <2>1. /\ fs' = Put(fs, StageOf[p], File(Src(p).data, Now)) /\ CanPut(fs, StageOf[p])
        /\ pc' = "next" /\ Src(p).kind = "file"
    BY <1>9 DEF StageFile, Applied, Applying
  <2>2. StageOf[p] \in Path /\ p # StageOf[p] /\ p \notin Above(StageOf[p])
    BY <1>1, <1>2, <2>1, EntryFacts, JobFacts DEF SelfAndAbove
  <2>3. fs'[p] = fs[p]
    BY <1>1, <2>1, <2>2, PutWorks
  <2> QED
    BY <2>1, <2>3
<1>10. CASE CreateSymlink(p)
  <2>1. /\ fs' = Put(fs, p, Link(Src(p).data)) /\ CanPut(fs, p) /\ pc = "apply"
        /\ IsFirst(p, todo) /\ p \in todo /\ Src(p).kind = "link" /\ pc' = "next"
    BY <1>10 DEF CreateSymlink, Effect, Applying, Applied, IsFirst
  <2>2. fs[p].kind # "file"
    BY <2>1 DEF Ready
  <2>3. fs'[p] = Link(Src(p).data)
    BY <1>1, <2>1, PutWorks
  <2>4. fs'[p].kind # "file"
    BY <2>3 DEF Link
  <2> QED
    BY <2>1, <2>2, <2>4
<1>11. CASE FinishDelayed(p)
  <2>1. /\ fs' = Renamed(Backup(fs, p), p, Delivered(p).mtime) /\ CanFinish(p) /\ pc = "next"
        /\ p \in staged /\ pc' = "next" /\ todo' = {} /\ staged' = staged \ {p}
        /\ Src(p).kind = "file"
    BY <1>1, <1>11 DEF FinishDelayed, IsFirst, StagingOK
  <2>2. Delivered(p).mtime \in Stamp \cup {Now}
    BY <1>1, <2>1, DeliveredFacts
  <2>3. NeedsBackup(fs, p) => fs'[BackupOf[p]].kind = "file" /\ fs'[BackupOf[p]].data = fs[p].data
    BY <2>1, <2>2, FinishWorks
  <2> QED
    BY <1>3, <2>1, <2>3
<1> QED
  BY <1>4, <1>5, <1>6, <1>7, <1>8, <1>9, <1>10, <1>11 DEF EntryStep,
     RefuseSpecial, ClearTargetFails, CreateDirFails, UpToDateFails, WriteFileFails,
     StageFileFails, CreateSymlinkFails, FinishDelayedFails, TransferError, ReturnError

\* What was saved stays saved through an entry of the loop.
LEMMA EntrySaved ==
    ASSUME BackupsOutside, LimitInv, Course, SavedIn(fs), OwnIn(fs, todo \cup staged), Ready,
           NEW p \in Path, EntryStep(p), ~o.dryRun, o.backup, pc' \in {"next", "apply"}
    PROVE  SavedIn(fs') /\ OwnIn(fs', todo' \cup staged')
<1>1. SafeInv /\ TypeOK /\ ParentsOffered /\ StagingOK /\ Safe(fs) /\ WellFormed(snapshot)
  BY SafeNow DEF LimitInv
<1>2. /\ p \in entries /\ p \in todo \cup staged /\ Works(fs, fs', p, Touched(p), Lost(p))
      /\ p \in Dest
  BY <1>1, EntryWorks, EntryFacts
<1>3. /\ fs[p].kind = "file" =>
           \/ fs'[p].kind = "file" /\ fs'[p].data = fs[p].data
           \/ fs'[BackupOf[p]].kind = "file" /\ fs'[BackupOf[p]].data = fs[p].data
      /\ p \in todo' \cup staged' => fs'[p] = fs[p] \/ fs'[p].kind # "file"
  BY <1>1, EntrySaves
<1>4. /\ \A q \in Touched(p) : q = p \/ (q \in Scratch /\ \A r \in Dest : q # BackupOf[r])
      /\ Lost(p) \subseteq Dest
  <2>1. Src(p).kind = "file" => StageOf[p] \in Scratch /\ \A r \in Dest : StageOf[p] # BackupOf[r]
    BY <1>1, <1>2, ScratchFacts, StageFacts
  <2> QED
    BY <1>2, <2>1, TreeAssumption DEF Touched, Lost
<1>5. ASSUME NEW q \in Dest \ Scratch, FileBefore(q), ~Displaced(q), ~TakenAlong(q)
      PROVE  HasData(fs', q, q) \/ HasData(fs', BackupOf[q], q)
  <2>1. HasData(fs, q, q) \/ HasData(fs, BackupOf[q], q)
    BY <1>5 DEF SavedIn
  <2>2. q \notin Lost(p)
    <3> SUFFICES ASSUME q \in Under[p], fs[p].kind = "dir", Src(p).kind # "dir"
                 PROVE  FALSE
      BY DEF Lost, Conflict
    <3>1. p \in Above(q) /\ q \in Path
      BY <1>5, TreeAssumption DEF Above
    <3>2. snapshot[p].kind = "dir"
      BY <1>1, <1>5, <3>1 DEF WellFormed, FileBefore, Exists
    <3> QED
      BY <1>2, <1>5, <3>1, <3>2 DEF Displaced
  <2>3. /\ HasData(fs, BackupOf[q], q) =>
             \/ HasData(fs', BackupOf[q], q)
             \/ q = p /\ fs[p].kind = "file" /\ fs'[BackupOf[p]].kind = "file"
                /\ fs'[BackupOf[p]].data = fs[p].data
        /\ HasData(fs, q, q) /\ q # p /\ q \notin Lost(p) => HasData(fs', q, q)
    BY <1>1, <1>2, <1>4, <1>5, OthersSaved
  <2>4. q = p /\ fs[p].kind = "file" => fs[p].data = snapshot[p].data
    BY <1>2, <1>5 DEF OwnIn
  <2> QED
    BY <1>3, <2>1, <2>2, <2>3, <2>4 DEF HasData
<1>6. todo' \cup staged' \subseteq todo \cup staged
  BY <1>2, EntryMoves
<1>7. p \notin entries \/ p \in todo' \cup staged' => fs'[p] = fs[p] \/ fs'[p].kind # "file"
  BY <1>2, <1>3
<1>8. OwnIn(fs', todo' \cup staged')
  <2>1. \A q \in Touched(p) : q = p \/ q \in Scratch
    BY <1>4
  <2> QED
    BY <1>1, <1>2, <1>6, <1>7, <2>1, OthersOwn
<1> QED
  BY <1>5, <1>8 DEF SavedIn

\* And through a deletion: what goes with a directory was deleted before it,
\* or is taken along.
LEMMA DeleteSaved ==
    ASSUME BackupsOutside, LimitInv, Course, GoneIn(fs, Pending), SavedIn(fs), NEW W, OwnIn(fs, W),
           NEW p \in Path, DeleteEntry(p), ~o.dryRun, o.backup
    PROVE  SavedIn(fs') /\ OwnIn(fs', W)
<1>1. /\ SafeInv /\ TypeOK /\ ParentsOffered /\ WellFormed(snapshot) /\ Pending = plan
      /\ p \in plan /\ p \in Dest /\ p \notin entries /\ ~Protected(p) /\ phase # "none"
  BY SafeNow, TreeAssumption DEF LimitInv, PhasesOK, Pending, DeleteEntry, Deletable,
     NextDelete, TypeOK
<1>2. o.deleteMode # "None"
  BY <1>1 DEF Course
<1> DEFINE g == IF snapshot[p].kind = "dir" THEN RemoveTree(fs, p)
                ELSE RemoveFile(Backup(fs, p), p)
           T == IF snapshot[p].kind = "dir" THEN SelfAndUnder(p) ELSE {p}
<1>3. fs' = g /\ CanDelete(p)
  BY DEF DeleteEntry, Effect
<1>4. /\ Works(fs, g, p, {}, T) /\ g[p].kind = "absent"
      /\ snapshot[p].kind # "dir" /\ NeedsBackup(fs, p) /\ p # BackupOf[p] =>
           g[BackupOf[p]].kind = "file" /\ g[BackupOf[p]].data = fs[p].data
  BY <1>1, <1>3, DeleteWorks
<1>5. T \subseteq Dest
  BY <1>1, TreeAssumption DEF SelfAndUnder
<1>6. \A q \in T : q = p \/ (snapshot[p].kind = "dir" /\ q \in Under[p])
  BY DEF SelfAndUnder
<1> HIDE DEF g, T
<1>7. ASSUME NEW q \in Dest \ Scratch, FileBefore(q), ~Displaced(q), ~TakenAlong(q)
      PROVE  HasData(g, q, q) \/ HasData(g, BackupOf[q], q)
  <2>1. HasData(fs, q, q) \/ HasData(fs, BackupOf[q], q)
    BY <1>7 DEF SavedIn
  <2>2. \A r \in {} : r = p \/ (r \in Scratch /\ \A x \in Dest : r # BackupOf[x])
    OBVIOUS
  <2>3. /\ HasData(fs, BackupOf[q], q) =>
             \/ HasData(g, BackupOf[q], q)
             \/ q = p /\ fs[p].kind = "file" /\ g[BackupOf[p]].kind = "file"
                /\ g[BackupOf[p]].data = fs[p].data
        /\ HasData(fs, q, q) /\ q # p /\ q \notin T => HasData(g, q, q)
    BY <1>1, <1>4, <1>5, <1>7, <2>2, OthersSaved
  <2>4. CASE q = p
    <3>1. snapshot[p].kind # "dir" /\ p # BackupOf[p]
      BY <1>1, <1>7, <2>4 DEF FileBefore, BackupsOutside
    <3>2. fs[p].kind = "file" => fs[p].data = snapshot[p].data /\ NeedsBackup(fs, p)
      BY <1>1, <1>7, <2>4 DEF OwnIn, NeedsBackup
    <3> QED
      BY <1>4, <2>1, <2>3, <2>4, <3>1, <3>2 DEF HasData
  <2>5. CASE q # p /\ q \in T
    <3>1. snapshot[p].kind = "dir" /\ q \in Under[p] /\ p \in Above(q)
      BY <1>6, <2>5 DEF Above
    <3>2. ~Protected(q) /\ q \in Extraneous(entries, snapshot)
      BY <1>1, <1>2, <1>7, <3>1 DEF TakenAlong
    <3>3. q \notin plan
      BY <2>5, <3>1, DeepestFirst DEF DeleteEntry, Deletable, NextDelete
    <3>4. ~Exists(fs, q)
      BY <1>1, <1>7, <3>2, <3>3 DEF GoneIn
    <3>5. ~HasData(fs, q, q)
      BY <3>4 DEF HasData, Exists
    <3> QED
      BY <2>1, <2>3, <2>5, <3>5
  <2>6. CASE q # p /\ q \notin T
    BY <2>1, <2>3, <2>6
  <2> QED
    BY <2>4, <2>5, <2>6
<1>8. OwnIn(g, W)
  <2>1. \A q \in {} : q = p \/ q \in Scratch
    OBVIOUS
  <2>2. p \notin entries \/ p \in W => g[p] = fs[p] \/ g[p].kind # "file"
    BY <1>4
  <2> QED
    BY <1>1, <1>4, <2>1, <2>2, OthersOwn
<1>9. SavedIn(g)
  BY <1>7 DEF SavedIn
<1> QED
  BY <1>3, <1>8, <1>9

\* Within a run the predicates speak of the same job.
LEMMA SameSaved ==
    ASSUME UNCHANGED <<job, snapshot, entries>>
    PROVE  /\ SavedIn(fs)' <=> SavedIn(fs')
           /\ OwnIn(fs, todo \cup staged)' <=> OwnIn(fs', todo' \cup staged')
<1>1. /\ Extraneous(entries, snapshot)' = Extraneous(entries, snapshot) /\ o' = o
      /\ \A p : (Protected(p)' <=> Protected(p)) /\ (Displaced(p)' <=> Displaced(p))
  BY SameJob
<1>2. \A p : TakenAlong(p)' <=> TakenAlong(p)
  BY <1>1 DEF TakenAlong
<1>3. SavedIn(fs)' <=> SavedIn(fs')
  BY <1>1, <1>2 DEF SavedIn, HasData, FileBefore
<1>4. OwnIn(fs, todo \cup staged)' <=> OwnIn(fs', todo' \cup staged')
  BY DEF OwnIn, FileBefore
<1> QED
  BY <1>3, <1>4

\* SaveInv is inductive.
LEMMA SaveInductive ==
    ASSUME BackupsOutside
    PROVE  SaveInv /\ [Next]_vars => SaveInv'
<1> SUFFICES ASSUME SaveInv, [Next]_vars
             PROVE  SaveInv'
  OBVIOUS
<1>1. /\ ConvergeInv /\ ConvergeInv' /\ LimitInv /\ Course /\ Course' /\ SafeInv
      /\ SafeInv' /\ TypeOK
  BY ConvergeInductive, SafeNow DEF SaveInv, ConvergeInv, LimitInv
<1>2. SUFFICES ASSUME Going', o'.backup
               PROVE  SavedIn(fs)' /\ OwnIn(fs, todo \cup staged)' /\ Ready'
  BY <1>1 DEF SaveInv
<1>3. CASE Scan
  <2>1. snapshot' = fs' /\ pc' # "apply"
    BY <1>3 DEF Scan, BeginDeletes
  <2> QED
    BY <2>1 DEF SavedIn, OwnIn, Ready, HasData, FileBefore
<1>4. SUFFICES ASSUME ~Scan
               PROVE  SavedIn(fs') /\ OwnIn(fs', todo' \cup staged') /\ Ready'
  BY <1>1, <1>2, <1>3, GoingMoves, SameSaved
<1>5. /\ Going /\ UNCHANGED <<job, snapshot, entries>>
      /\ \/ \E p \in Path : (SkipDelete(p) \/ DeleteEntry(p)) /\ pc = "delete"
         \/ \E p \in Path : EntryStep(p) /\ pc' \in {"next", "apply"}
         \/ /\ UNCHANGED <<fs, todo, staged>> /\ Pending' = Pending
            /\ pc' = "apply" => pc = "apply"
  BY <1>1, <1>2, <1>4, GoingMoves
<1>6. /\ ~o.dryRun /\ o.backup /\ GoneIn(fs, Pending)
      /\ SavedIn(fs) /\ OwnIn(fs, todo \cup staged) /\ Ready
  BY <1>2, <1>5 DEF SaveInv, ConvergeInv, Going, o
<1>7. ASSUME NEW p \in Path, SkipDelete(p) \/ DeleteEntry(p), pc = "delete"
      PROVE  SavedIn(fs') /\ OwnIn(fs', todo' \cup staged') /\ Ready'
  <2>1. UNCHANGED <<todo, staged>> /\ pc' # "apply"
    BY <1>7 DEF SkipDelete, DeleteEntry
  <2>2. CASE SkipDelete(p)
    BY <1>6, <2>1, <2>2 DEF SkipDelete, Ready
  <2>3. CASE DeleteEntry(p)
    <3>1. SavedIn(fs') /\ OwnIn(fs', todo \cup staged)
      BY <1>1, <1>6, <2>3, DeleteSaved
    <3> QED
      BY <2>1, <3>1 DEF Ready
  <2> QED
    BY <1>7, <2>2, <2>3
<1>8. ASSUME NEW p \in Path, EntryStep(p), pc' \in {"next", "apply"}
      PROVE  SavedIn(fs') /\ OwnIn(fs', todo' \cup staged') /\ Ready'
  <2>1. SavedIn(fs') /\ OwnIn(fs', todo' \cup staged')
    BY <1>1, <1>6, <1>8, EntrySaved
  <2>2. pc' = "apply" =>
          IsFirst(p, todo) /\ todo' = todo /\ (Src(p).kind = "link" => fs'[p].kind # "file")
    BY <1>1, <1>6, <1>8, EntrySaves
  <2>3. \A q \in todo : IsFirst(p, todo) /\ IsFirst(q, todo) => q = p
    <3>1. todo \subseteq Path
      BY <1>1, TreeAssumption DEF TypeOK
    <3> QED
      BY <1>8, <3>1, TreeAssumption DEF IsFirst
  <2>4. Ready'
    BY <1>5, <2>2, <2>3 DEF Ready, IsFirst, Src
  <2> QED
    BY <2>1, <2>4
<1>9. CASE /\ UNCHANGED <<fs, todo, staged>> /\ Pending' = Pending
           /\ pc' = "apply" => pc = "apply"
  <2>1. Ready'
    BY <1>5, <1>6, <1>9 DEF Ready, IsFirst, Src
  <2> QED
    BY <1>6, <1>9, <2>1
<1> QED
  BY <1>5, <1>7, <1>8, <1>9

\* The property follows.
LEMMA SaveEnough == SaveInv => BackedUp
<1>1. SaveInv /\ result = "ok" /\ o.backup /\ ~o.dryRun => SavedIn(fs)
  BY DEF SaveInv, Going
<1> QED
  BY <1>1 DEF SavedIn, HasData, BackedUp

\* With backups outside the destination, a run with --backup that returns Ok
\* has lost no content.
THEOREM ContentIsSaved ==
    ASSUME BackupsOutside
    PROVE  Spec => []BackedUp
<1>1. Init => SaveInv
  BY ConvergeInit DEF SaveInv, Going, Init, Start
<1>2. SaveInv /\ [Next]_vars => SaveInv'
  BY SaveInductive
<1> QED
  BY <1>1, <1>2, SaveEnough, PTL DEF Spec

-----------------------------------------------------------------------------
(* Cleaning up                                                             *)

\* A file of S may be staged; for the others nothing is at the staging place
\* that was not there before the run.
Unstaged(g, S) ==
    \A q \in entries \ S :
      Src(q).kind = "file" /\ g[StageOf[q]].kind = "file" => Exists(snapshot, StageOf[q])

\* The inductive strengthening of NoStagingLeft: the run knows what it has
\* staged, and returns without a clean-up only past an obstructed target or
\* the deadline.
CleanInv ==
    /\ ConvergeInv
    /\ faults = 0 /\ ~o.keepPartial =>
         /\ Unstaged(fs, staged)
         /\ result = "error" /\ staged # {} => o.deadline \/ \E p \in todo : Obstructed(p)

\* New files appear at offered places and in backups only.
NoNewFile(f, g) ==
    \A x \in Path : g[x].kind = "file" =>
      f[x].kind = "file" \/ x \in entries \/ \E r \in Dest : x = BackupOf[r]

\* Such a change stages nothing.
LEMMA StillUnstaged ==
    ASSUME TypeOK, ParentsOffered, NEW S, Unstaged(fs, S), NEW g, NoNewFile(fs, g)
    PROVE  Unstaged(g, S)
<1> SUFFICES ASSUME NEW q \in entries \ S, Src(q).kind = "file", g[StageOf[q]].kind = "file"
             PROVE  Exists(snapshot, StageOf[q])
  BY DEF Unstaged
<1>1. q \in Dest /\ StageOf[q] \in Path
  BY EntryFacts, JobFacts
<1>2. StageOf[q] \notin entries
  BY <1>1, EntryFacts DEF SelfAndAbove
<1>3. \A r \in Dest : StageOf[q] # BackupOf[r]
  BY <1>1, StageFacts
<1>4. fs[StageOf[q]].kind = "file"
  BY <1>1, <1>2, <1>3 DEF NoNewFile
<1> QED
  BY <1>4 DEF Unstaged

\* A change for p that writes offered places only is such a change, and so is
\* a backup that may have been cut short.
LEMMA WorksFiles ==
    ASSUME NEW p \in Dest
    PROVE  /\ \A T, S, g : Works(fs, g, p, T, S) /\ T \subseteq entries => NoNewFile(fs, g)
           /\ TypeOK => \A g \in MaybeBackedUp(p) : NoNewFile(fs, g)
<1>1. ASSUME NEW T, NEW S, NEW g, Works(fs, g, p, T, S), T \subseteq entries
      PROVE  NoNewFile(fs, g)
  BY <1>1 DEF Works, NoNewFile
<1>2. ASSUME TypeOK, NEW g \in MaybeBackedUp(p)
      PROVE  NoNewFile(fs, g)
  <2>1. CASE g = fs
    BY <2>1 DEF NoNewFile
  <2>2. CASE g = Backup(fs, p) /\ CanBackup(fs, p)
    <3>1. Works(fs, g, p, {}, {})
      BY <1>2, <2>2, BackupWorks
    <3> QED
      BY <1>1, <3>1
  <2> QED
    BY <1>2, <2>1, <2>2 DEF MaybeBackedUp
<1> QED
  BY <1>1, <1>2

\* The loop stages what it says it stages.
LEMMA EntryStaging ==
    ASSUME SafeInv, NEW p \in Path, EntryStep(p), faults' = 0, Unstaged(fs, staged)
    PROVE  Unstaged(fs', staged')
<1>1. /\ TypeOK /\ ParentsOffered /\ StagingOK /\ Safe(fs) /\ fs \in Tree /\ faults \in Nat
  BY SafeNow DEF TypeOK
<1>2. IsFirst(p, todo) \/ IsFirst(p, staged)
  BY DEF EntryStep, SkipDirectory, SkipSpecial, RefuseSpecial, KeepConflict, ClearTarget,
         ClearTargetFails, CreateDir, CreateDirFails, UpToDate, UpToDateFails, WriteFile,
         WriteFileFails, StageFile, StageFileFails, CreateSymlink, CreateSymlinkFails,
         FinishDelayed, FinishDelayedFails, Handled, Applying
<1>3. p \in entries /\ p \in Dest
  BY <1>1, <1>2, EntryFacts DEF IsFirst, TypeOK
<1>4. \A P : Fails(P) => ~P
  BY <1>1 DEF Fails
<1>5. NoNewFile(fs, fs)
  BY DEF NoNewFile
<1>6. \A g : Works(fs, g, p, {p}, Lost(p)) \/ Works(fs, g, p, {p}, {}) => NoNewFile(fs, g)
  BY <1>3, WorksFiles
<1>7. CASE StageFile(p)
  <2>1. /\ fs' = Put(fs, StageOf[p], File(Src(p).data, Now)) /\ CanPut(fs, StageOf[p])
        /\ Src(p).kind = "file" /\ staged' = staged \cup {p}
    BY <1>7 DEF StageFile, Applying
  <2>2. StageOf[p] \in Path
    BY <1>1, <1>3, JobFacts
  <2>3. \A x \in Path \ {StageOf[p]} : fs'[x] = fs[x] \/ fs'[x].kind = "dir"
    BY <1>1, <2>1, <2>2, PutWorks
  <2> SUFFICES ASSUME NEW q \in entries \ staged', Src(q).kind = "file",
                      fs'[StageOf[q]].kind = "file"
               PROVE  Exists(snapshot, StageOf[q])
    BY DEF Unstaged
  <2>4. q # p /\ q \in entries \ staged
    BY <2>1
  <2>5. q \in Dest /\ StageOf[q] \in Path
    BY <1>1, <2>4, EntryFacts, JobFacts
  <2>6. StageOf[q] # StageOf[p]
    BY <1>1, <1>3, <2>1, <2>4, <2>5, StageFacts
  <2>7. fs[StageOf[q]].kind = "file"
    BY <2>3, <2>5, <2>6
  <2> QED
    BY <2>4, <2>7 DEF Unstaged
<1>8. CASE FinishDelayed(p)
  <2>1. /\ fs' = Renamed(Backup(fs, p), p, Delivered(p).mtime) /\ CanFinish(p) /\ pc = "next"
        /\ p \in staged /\ staged' = staged \ {p} /\ Src(p).kind = "file"
    BY <1>1, <1>8 DEF FinishDelayed, IsFirst, StagingOK
  <2>2. Delivered(p).mtime \in Stamp \cup {Now}
    BY <1>1, <2>1, DeliveredFacts
  <2>3. Works(fs, fs', p, {p, StageOf[p]}, {}) /\ fs'[StageOf[p]].kind = "absent"
    BY <2>1, <2>2, FinishWorks
  <2>4. NoNewFile(fs, fs')
    BY <1>3, <2>3 DEF NoNewFile, Works
  <2>5. Unstaged(fs', staged)
    BY <1>1, <2>4, StillUnstaged
  <2> QED
    BY <2>1, <2>3, <2>5 DEF Unstaged
<1>9. SUFFICES ASSUME ~StageFile(p), ~FinishDelayed(p)
               PROVE  NoNewFile(fs, fs') /\ staged' = staged
  BY <1>1, <1>7, <1>8, StillUnstaged
<1>10. CASE fs' = fs /\ staged' = staged
  BY <1>5, <1>10
<1>11. CASE ClearTarget(p)
  <2>1. staged' = staged /\ (fs' = fs \/ (fs' = Cleared(p) /\ CanClear(p)))
    BY <1>11 DEF ClearTarget, Effect
  <2>2. CanClear(p) => Works(fs, Cleared(p), p, {p}, Lost(p))
    BY <1>1, <1>3, ClearWorks
  <2> QED
    BY <1>5, <1>6, <2>1, <2>2
<1>12. CASE ClearTargetFails(p)
  <2>1. staged' = staged /\ ~CanClear(p) /\ fs' \in HalfCleared(p)
    BY <1>4, <1>12 DEF ClearTargetFails, TransferError, ReturnError
  <2>2. fs' \in MaybeBackedUp(p)
    BY <2>1 DEF HalfCleared, CanClear
  <2> QED
    BY <1>1, <1>3, <2>1, <2>2, WorksFiles
<1>13. CASE CreateDir(p)
  <2>1. staged' = staged /\ (fs' = fs \/ fs' = MakeDir(fs, p))
    BY <1>13 DEF CreateDir, Effect
  <2>2. \A x \in Path : MakeDir(fs, p)[x] = fs[x] \/ MakeDir(fs, p)[x].kind = "dir"
    BY DEF MakeDir, MakeParents, Dir
  <2> QED
    BY <1>5, <2>1, <2>2 DEF NoNewFile
<1>14. CASE UpToDate(p)
  <2>1. staged' = staged /\ (fs' = fs \/ fs' = SetMtime(fs, p, Src(p).mtime))
    BY <1>14 DEF UpToDate, Effect
  <2>2. Src(p).mtime \in Stamp \cup {Now}
    BY <1>1, JobFacts DEF Node
  <2>3. \A q \in Path \ {p} : SetMtime(fs, p, Src(p).mtime)[q] = fs[q]
    BY <1>1, <2>2, TimeSet
  <2> QED
    BY <1>3, <1>5, <2>1, <2>3 DEF NoNewFile
<1>15. CASE WriteFile(p)
  <2>1. /\ staged' = staged
        /\ \/ fs' = fs
           \/ /\ fs' = Put(Backup(fs, p), p, Delivered(p)) /\ CanBackup(fs, p)
              /\ CanPut(Backup(fs, p), p)
    BY <1>15 DEF WriteFile, Effect, CanWrite
  <2>2. CanBackup(fs, p) /\ CanPut(Backup(fs, p), p) =>
          Works(fs, Put(Backup(fs, p), p, Delivered(p)), p, {p}, {})
    BY <1>1, <1>3, WriteWorks
  <2> QED
    BY <1>5, <1>6, <2>1, <2>2
<1>16. CASE WriteFileFails(p)
  <2>1. staged' = staged /\ ~CanWrite(p) /\ fs' \in HalfWritten(p)
    BY <1>4, <1>16 DEF WriteFileFails, TransferError
  <2>2. fs' \in MaybeBackedUp(p)
    BY <2>1 DEF HalfWritten
  <2> QED
    BY <1>1, <1>3, <2>1, <2>2, WorksFiles
<1>17. CASE CreateSymlink(p) \/ CreateSymlinkFails(p)
  <2>1. /\ staged' = staged
        /\ \/ fs' = fs
           \/ fs' = RemoveFile(fs, p)
           \/ fs' = Put(fs, p, Link(Src(p).data)) /\ CanPut(fs, p)
    BY <1>17 DEF CreateSymlink, CreateSymlinkFails, Effect, TransferError, HalfLinked
  <2>2. CanPut(fs, p) => \A q \in Path \ {p} : \/ Put(fs, p, Link(Src(p).data))[q] = fs[q]
                                               \/ Put(fs, p, Link(Src(p).data))[q].kind = "dir"
    BY <1>1, PutWorks
  <2>3. \A q \in Path \ {p} : RemoveFile(fs, p)[q] = fs[q]
    BY <1>1 DEF RemoveFile, Tree
  <2> QED
    BY <1>3, <1>5, <2>1, <2>2, <2>3 DEF NoNewFile
<1>18. CASE FinishDelayedFails(p)
  <2>1. staged' = staged /\ ~CanFinish(p) /\ fs' \in HalfFinished(p)
    BY <1>4, <1>18 DEF FinishDelayedFails
  <2>2. fs' \in MaybeBackedUp(p)
    BY <2>1 DEF HalfFinished
  <2> QED
    BY <1>1, <1>3, <2>1, <2>2, WorksFiles
<1> QED
  BY <1>9, <1>10, <1>11, <1>12, <1>13, <1>14, <1>15, <1>16, <1>17, <1>18 DEF EntryStep,
     SkipDirectory, SkipSpecial, RefuseSpecial, KeepConflict, SkipEntry, CreateDirFails,
     UpToDateFails, StageFileFails, TransferError, ReturnError

\* Deletions stage nothing.
LEMMA DeleteStaging ==
    ASSUME SafeInv, NEW p \in Path, DeleteStep(p), faults' = 0, Unstaged(fs, staged)
    PROVE  Unstaged(fs', staged')
<1>1. TypeOK /\ ParentsOffered /\ StagingOK /\ Safe(fs) /\ fs \in Tree /\ faults \in Nat
  BY SafeNow DEF TypeOK
<1>2. p \in plan /\ p \in Dest /\ staged' = staged
  BY <1>1 DEF DeleteStep, SkipDelete, StopAtMaxDelete, DeleteEntry, DeleteEntryFails, Deletable,
     NextDelete, ReturnError, TypeOK
<1>3. NoNewFile(fs, fs)
  BY DEF NoNewFile
<1>4. SUFFICES NoNewFile(fs, fs')
  BY <1>1, <1>2, StillUnstaged
<1>5. CASE SkipDelete(p) \/ StopAtMaxDelete(p)
  BY <1>3, <1>5 DEF SkipDelete, StopAtMaxDelete
<1>6. CASE DeleteEntry(p)
  <2> DEFINE g == IF snapshot[p].kind = "dir" THEN RemoveTree(fs, p)
                  ELSE RemoveFile(Backup(fs, p), p)
             T == IF snapshot[p].kind = "dir" THEN SelfAndUnder(p) ELSE {p}
  <2>1. fs' = fs \/ (fs' = g /\ CanDelete(p) /\ ~o.dryRun)
    BY <1>6 DEF DeleteEntry, Effect
  <2>2. CanDelete(p) /\ ~o.dryRun => Works(fs, g, p, {}, T)
    BY <1>2, DeleteWorks
  <2> HIDE DEF g, T
  <2> QED
    BY <1>2, <1>3, <2>1, <2>2, WorksFiles
<1>7. CASE DeleteEntryFails(p)
  <2>1. ~CanDelete(p) /\ fs' \in HalfDeleted(p)
    BY <1>1, <1>7 DEF DeleteEntryFails, Fails
  <2>2. fs' \in MaybeBackedUp(p)
    BY <2>1 DEF HalfDeleted, CanDelete, MaybeBackedUp
  <2> QED
    BY <1>1, <1>2, <2>2, WorksFiles
<1> QED
  BY <1>5, <1>6, <1>7 DEF DeleteStep

\* cleanup_delayed_updates, when every removal succeeds.
LEMMA CleanUpStaging ==
    ASSUME SafeInv, CleanUp, ~o.keepPartial, faults' = 0, Unstaged(fs, staged)
    PROVE  faults = 0 /\ Unstaged(fs', {})
<1>1. TypeOK /\ ParentsOffered /\ StagingOK /\ fs \in Tree /\ faults \in Nat
  BY SafeNow DEF TypeOK
<1>2. PICK left \in SUBSET staged :
        /\ fs' = [q \in Path |-> IF \E p \in staged \ left : StageOf[p] = q /\ fs[q].kind # "dir"
                                 THEN Absent ELSE fs[q]]
        /\ faults' = faults + Cardinality(left)
  BY DEF CleanUp
<1>3. IsFiniteSet(left) /\ Cardinality(left) \in Nat
  <2>1. left \in SUBSET Path
    BY <1>1, TreeAssumption DEF TypeOK
  <2> QED
    BY <2>1, TreeAssumption, FS_Subset, FS_CardinalityType
<1>4. faults = 0 /\ Cardinality(left) = 0
  BY <1>1, <1>2, <1>3
<1>5. left = {}
  BY <1>3, <1>4, FS_EmptySet
<1>6. Absent.kind = "absent"
  BY DEF Absent
<1> SUFFICES ASSUME NEW q \in entries, Src(q).kind = "file", fs'[StageOf[q]].kind = "file"
             PROVE  Exists(snapshot, StageOf[q])
  BY <1>4 DEF Unstaged
<1>7. StageOf[q] \in Path
  BY <1>1, EntryFacts, JobFacts
<1>8. fs'[StageOf[q]] = fs[StageOf[q]] /\ q \notin staged
  BY <1>2, <1>5, <1>6, <1>7
<1> QED
  BY <1>8 DEF Unstaged

\* The errors that leave the loop at once, when nothing failed unprompted.
LEMMA EntryReturns ==
    ASSUME SafeInv, Course, NEW p \in Path, EntryStep(p), faults' = 0, result' = "error"
    PROVE  \E q \in todo' : Obstructed(q)'
<1>1. faults \in Nat /\ TypeOK /\ result = "none"
  BY SafeNow, EntryMoves DEF TypeOK, Course
<1>2. \A P : Fails(P) => ~P
  BY <1>1 DEF Fails
<1>3. CASE ClearTargetFails(p)
  <2>1. /\ ~CanClear(p) /\ fs' \in HalfCleared(p) /\ IsFirst(p, todo)
        /\ Src(p).kind \in {"dir", "file"} /\ UNCHANGED <<job, todo>>
    BY <1>1, <1>2, <1>3 DEF ClearTargetFails, Handled, TransferError, ReturnError
  <2>2. fs' = fs
    BY <2>1 DEF HalfCleared, CanClear, MaybeBackedUp
  <2>3. Obstructed(p)'
    BY <2>1, <2>2 DEF Obstructed, IsFirst, CanClear, Conflict, CanBackup, NeedsBackup, Src, o
  <2> QED
    BY <2>1, <2>3 DEF IsFirst
<1>4. CASE CreateDirFails(p)
  <2>1. /\ ~CanMakeDir(fs, p) /\ fs' = fs /\ IsFirst(p, todo) /\ Src(p).kind = "dir"
        /\ UNCHANGED <<job, todo>>
    BY <1>2, <1>4 DEF CreateDirFails, Applying, ReturnError
  <2>2. Obstructed(p)'
    BY <2>1 DEF Obstructed, IsFirst, Src
  <2> QED
    BY <2>1, <2>2 DEF IsFirst
<1>5. CASE UpToDateFails(p)
  BY <1>1, <1>5 DEF UpToDateFails
<1> QED
  BY <1>1, <1>3, <1>4, <1>5 DEF EntryStep, SkipDirectory, SkipSpecial, RefuseSpecial, KeepConflict,
     SkipEntry, ClearTarget, CreateDir, UpToDate, WriteFile, WriteFileFails, StageFile,
     StageFileFails, CreateSymlink, CreateSymlinkFails, FinishDelayed, FinishDelayedFails,
     TransferError, Applied, Frame

\* CleanInv is inductive.
LEMMA CleanInductive == CleanInv /\ [Next]_vars => CleanInv'
<1> SUFFICES ASSUME CleanInv, [Next]_vars
             PROVE  CleanInv'
  OBVIOUS
<1>1. /\ ConvergeInv /\ ConvergeInv' /\ SafeInv /\ SafeInv' /\ Course /\ Course'
      /\ TypeOK /\ StagingOK /\ faults \in Nat
  BY ConvergeInductive, SafeNow DEF CleanInv, ConvergeInv, LimitInv, TypeOK
<1>2. SUFFICES ASSUME faults' = 0, ~o'.keepPartial
               PROVE  /\ Unstaged(fs, staged)'
                      /\ result' = "error" /\ staged' # {} =>
                           o'.deadline \/ \E p \in todo' : Obstructed(p)'
  BY <1>1 DEF CleanInv
<1>3. CASE Scan
  <2>1. snapshot' = fs' /\ result' = result /\ result = "none"
    BY <1>1, <1>3 DEF Scan, Course
  <2> QED
    BY <2>1 DEF Unstaged, Exists
<1>4. CASE NextRun
  BY <1>4 DEF NextRun, Unstaged
<1>5. CASE ScanFails \/ DirectoryTimesFail \/ Crash
  BY <1>1, <1>2, <1>5 DEF ScanFails, DirectoryTimesFail, Crash, Fails
<1>6. ASSUME UNCHANGED <<job, snapshot, entries>>
      PROVE  /\ Unstaged(fs, staged)' <=> Unstaged(fs', staged')
             /\ o' = o /\ ~o.keepPartial
  BY <1>2, <1>6 DEF Unstaged, Src, o
<1>7. ASSUME UNCHANGED <<job, snapshot, entries>>, faults = 0
      PROVE  Unstaged(fs, staged) /\ ~o.keepPartial
             /\ (result = "error" /\ staged # {} => o.deadline \/ \E p \in todo : Obstructed(p))
  BY <1>6, <1>7 DEF CleanInv
<1>8. ASSUME NEW p \in Path, DeleteStep(p)
      PROVE  /\ Unstaged(fs, staged)' /\ staged' = {}
  <2>1. UNCHANGED <<job, snapshot, entries, staged>> /\ staged = {}
    BY <1>1, <1>8 DEF DeleteStep, SkipDelete, StopAtMaxDelete, DeleteEntry, DeleteEntryFails,
       Deletable, NextDelete, ReturnError, StagingOK
  <2>2. faults = 0
    BY <1>1, <1>2, <1>8 DEF DeleteStep, SkipDelete, StopAtMaxDelete, DeleteEntry,
       DeleteEntryFails, Fails
  <2> QED
    BY <1>1, <1>2, <1>6, <1>7, <1>8, <2>1, <2>2, DeleteStaging
<1>9. ASSUME NEW p \in Path, EntryStep(p)
      PROVE  /\ Unstaged(fs, staged)'
             /\ result' = "error" => \E q \in todo' : Obstructed(q)'
  <2>1. UNCHANGED <<job, snapshot, entries>>
    BY <1>9, EntryMoves
  <2>2. faults = 0
    <3>1. faults' \in {faults, faults + 1}
      BY <1>9 DEF EntryStep, SkipDirectory, SkipSpecial, RefuseSpecial, KeepConflict, SkipEntry,
         ClearTarget, ClearTargetFails, CreateDir, CreateDirFails, UpToDate, UpToDateFails,
         WriteFile, WriteFileFails, StageFile, StageFileFails, CreateSymlink,
         CreateSymlinkFails, FinishDelayed, FinishDelayedFails, Applied, Fails
    <3> QED
      BY <1>1, <1>2, <3>1
  <2>3. Unstaged(fs', staged')
    BY <1>1, <1>2, <1>7, <1>9, <2>1, <2>2, EntryStaging
  <2>4. result' = "error" => \E q \in todo' : Obstructed(q)'
    BY <1>1, <1>2, <1>9, EntryReturns
  <2> QED
    BY <1>6, <2>1, <2>3, <2>4
<1>10. CASE Recover \/ Unfinished
  <2>1. UNCHANGED <<job, snapshot, entries>> /\ CleanUp /\ staged' = {} /\ ~o.keepPartial
    BY <1>2, <1>10 DEF Recover, Unfinished, o
  <2>2. faults = 0
    <3>1. \E left \in SUBSET staged : faults' = faults + Cardinality(left)
      BY <2>1 DEF CleanUp
    <3>2. PICK left \in SUBSET staged : faults' = faults + Cardinality(left)
      BY <3>1
    <3>3. left \in SUBSET Path
      BY <1>1, TreeAssumption DEF TypeOK
    <3>4. Cardinality(left) \in Nat
      BY <3>3, TreeAssumption, FS_Subset, FS_CardinalityType
    <3> QED
      BY <1>1, <1>2, <3>2, <3>4
  <2>3. Unstaged(fs', {})
    BY <1>1, <1>2, <1>7, <2>1, <2>2, CleanUpStaging
  <2> QED
    BY <1>6, <2>1, <2>3
<1>11. CASE Deadline
  <2>1. UNCHANGED <<job, snapshot, entries, fs, staged, faults>> /\ o.deadline
    BY <1>11 DEF Deadline, ReturnError
  <2> QED
    BY <1>2, <1>6, <1>7, <2>1
<1>12. CASE DeletesDone
  <2>1. UNCHANGED <<job, snapshot, entries, fs, staged, faults>> /\ staged = {}
    BY <1>1, <1>12 DEF DeletesDone, StagingOK
  <2> QED
    BY <1>2, <1>6, <1>7, <2>1
<1>13. CASE TransfersDone \/ DirectoryTimes
  <2>1. UNCHANGED <<job, snapshot, entries, fs, staged, faults>>
    BY <1>13 DEF TransfersDone, DirectoryTimes
  <2>2. result' # "error"
    BY <1>1, <1>13 DEF TransfersDone, DirectoryTimes, Course
  <2> QED
    BY <1>2, <1>6, <1>7, <2>1, <2>2
<1>14. CASE UNCHANGED vars
  <2>1. UNCHANGED <<job, snapshot, entries, fs, staged, faults, result, todo>>
    BY <1>14 DEF vars
  <2>2. \A p : Obstructed(p)' <=> Obstructed(p)
    BY <2>1 DEF Obstructed, IsFirst, CanClear, Conflict, CanBackup, NeedsBackup, Src, o
  <2> QED
    BY <1>2, <1>6, <1>7, <2>1, <2>2
<1> QED
  BY <1>3, <1>4, <1>5, <1>8, <1>9, <1>10, <1>11, <1>12, <1>13, <1>14 DEF Next, Step

\* The property follows.
LEMMA CleanEnough == CleanInv => NoStagingLeft
BY DEF CleanInv, NoStagingLeft, Unstaged, FileOffered

\* CleanInv holds initially.
LEMMA CleanInit == Init => CleanInv
BY ConvergeInit DEF CleanInv, Init, Start, Unstaged

\* A run that fails cleans up what it staged, whatever the tree is like.
THEOREM StagingIsCleanedUp == Spec => []NoStagingLeft
BY CleanInit, CleanInductive, CleanEnough, PTL DEF Spec

\* --delay-updates loses nothing, with backups outside the destination.
THEOREM DelayLosesNothing ==
    ASSUME BackupsOutside
    PROVE  Spec => []DelaySafe
<1>1. NoStagingLeft /\ OldOrNew /\ BackedUp => DelaySafe
  BY DEF DelaySafe
<1>2. Spec => []BackedUp
  BY ContentIsSaved
<1> QED
  BY <1>1, <1>2, StagingIsCleanedUp, FilesOldOrNew, PTL

=============================================================================
