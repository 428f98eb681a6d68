---------------------------- MODULE MCLocalSync -----------------------------
(***************************************************************************)
(* Instances of LocalSync.  The destination has a file a, a directory d    *)
(* with a file dx, and a path e with ez below it that the sender does not  *)
(* offer; t is the staging directory .~tmp~ and the b paths are backups.   *)
(***************************************************************************)
EXTENDS LocalSync

MCDest == {"a", "d", "dx", "e", "ez", "t", "ta", "td", "tdx"}
MCPath == MCDest \cup {"ba", "bd", "bdx", "be", "bez", "bt", "bta", "btd", "btdx"}

MCUnder ==
    [p \in MCPath |-> CASE p = "d" -> {"dx"}
                        [] p = "e" -> {"ez"}
                        [] p = "t" -> {"ta", "td", "tdx"}
                        [] p = "td" -> {"tdx"}
                        [] OTHER -> {}]

\* .~tmp~ sorts before every letter
MCRank ==
    [p \in MCPath |->
        CASE p = "t" -> 1 [] p = "ta" -> 2 [] p = "td" -> 3 [] p = "tdx" -> 4
          [] p = "a" -> 5 [] p = "d" -> 6 [] p = "dx" -> 7 [] p = "e" -> 8
          [] p = "ez" -> 9 [] p = "ba" -> 10 [] p = "bd" -> 11 [] p = "bdx" -> 12
          [] p = "be" -> 13 [] p = "bez" -> 14 [] p = "bt" -> 15 [] p = "bta" -> 16
          [] p = "btd" -> 17 [] p = "btdx" -> 18]

MCData == {"v1", "v2"}

\* All contents have one length, so no length betrays a torn or stale file.
MCSize == [d \in MCData \cup {"torn"} |-> 1]

\* An absolute --backup-dir
MCBackupOf ==
    [p \in MCDest |->
        CASE p = "a" -> "ba" [] p = "d" -> "bd" [] p = "dx" -> "bdx" [] p = "e" -> "be"
          [] p = "ez" -> "bez" [] p = "t" -> "bt" [] p = "ta" -> "bta" [] p = "td" -> "btd"
          [] p = "tdx" -> "btdx"]

\* No --temp-dir: staging below .~tmp~
MCStageOf ==
    [p \in MCDest |-> CASE p = "a" -> "ta" [] p = "dx" -> "tdx" [] OTHER -> "td"]

\* The tree with the given nodes and nothing else.
TreeOf(nodes) ==
    [p \in MCPath |-> IF p \in DOMAIN nodes THEN nodes[p] ELSE Absent]

AllFiles == [a |-> File("v1", 1), d |-> Dir, dx |-> File("v1", 2)]

Include == [p \in MCPath |-> "include"]

\* rsync -rt
Plain ==
    [dryRun |-> FALSE, recursive |-> TRUE, transferDirs |-> FALSE,
     deleteMode |-> "None", deleteExcluded |-> FALSE, ignoreErrors |-> FALSE,
     forceDelete |-> FALSE, maxDelete |-> NoLimit, backup |-> FALSE,
     delayUpdates |-> FALSE, keepPartial |-> FALSE, inPlace |-> FALSE,
     preserveMtime |-> TRUE, deadline |-> FALSE, failSpecials |-> FALSE,
     update |-> "QuickCheck", existingOnly |-> FALSE, ignoreExisting |-> FALSE,
     skipNewer |-> FALSE, maxSize |-> 9, minSize |-> 0, modifyWindow |-> 0]

Job(nodes, opts) ==
    [src |-> TreeOf(nodes), options |-> opts, selected |-> MCPath,
     filter |-> Include]

-----------------------------------------------------------------------------
(* Updating                                                                *)

UpdateJobs ==
    {Job(AllFiles, [Plain EXCEPT !.inPlace = i, !.backup = b, !.dryRun = n]) :
        i, b, n \in BOOLEAN}
    \cup
    {Job(AllFiles, [Plain EXCEPT !.update = u, !.backup = TRUE,
                                 !.preserveMtime = t]) :
        u \in UpdateModes, t \in BOOLEAN}
    \cup
    {Job(AllFiles, [Plain EXCEPT !.skipNewer = TRUE, !.update = u]) :
        u \in {"QuickCheck", "Checksum"}}
    \cup
    {Job(AllFiles, [Plain EXCEPT !.existingOnly = TRUE]),
     Job(AllFiles, [Plain EXCEPT !.ignoreExisting = TRUE]),
     Job(AllFiles, [Plain EXCEPT !.maxSize = 0]),
     Job(AllFiles, [Plain EXCEPT !.recursive = FALSE]),
     Job(AllFiles, [Plain EXCEPT !.recursive = FALSE, !.transferDirs = TRUE])}

\* Every shape of a and d, with old, new and torn content.
UpdateDisks ==
    {TreeOf([a |-> na, d |-> nd, dx |-> nx, e |-> Absent]) :
        na \in {Absent, Dir, Link("v1"), File("v1", 1), File("v2", 2), File("v2", 1)},
        nd \in {Absent, Dir, File("v2", 1)},
        nx \in {Absent, File("v2", 2), File("v2", 1)}}

MCUpdateDisks == {f \in UpdateDisks : WellFormed(f)}

-----------------------------------------------------------------------------
(* Deleting, with conflicts of kind and special files                      *)

\* a is a symlink, d a file where the receiver has a directory.
MixedKinds == [a |-> Link("v1"), d |-> File("v1", 1), e |-> [Absent EXCEPT !.kind = "special"]]

Protect(S) == [p \in MCPath |-> IF p \in S THEN "protect" ELSE Include[p]]

DeleteJobs ==
    {Job(AllFiles, [Plain EXCEPT !.deleteMode = m, !.maxDelete = x, !.backup = TRUE]) :
        m \in {"Before", "During"}, x \in {NoLimit, 0, 1}}
    \cup
    {Job(AllFiles, [Plain EXCEPT !.deleteMode = m, !.maxDelete = x, !.backup = TRUE,
                                 !.ignoreErrors = g]) :
        m \in {"Delay", "After"}, x \in {NoLimit, 0, 1}, g \in BOOLEAN}
    \cup
    {Job(MixedKinds, [Plain EXCEPT !.deleteMode = m, !.failSpecials = s,
                                   !.ignoreErrors = TRUE, !.forceDelete = x]) :
        m \in {"None", "Before", "After"}, s, x \in BOOLEAN}
    \cup
    {[Job(AllFiles, [Plain EXCEPT !.deleteMode = m]) EXCEPT !.selected = {"dx", "e"}] :
        m \in {"During", "After"}}
    \cup
    {[Job(AllFiles, [Plain EXCEPT !.deleteMode = "Before", !.deleteExcluded = x])
        EXCEPT !.filter = [Include EXCEPT !["e"] = "exclude", !["ez"] = "exclude"]] :
        x \in BOOLEAN}
    \cup
    {[Job(AllFiles, [Plain EXCEPT !.deleteMode = m, !.maxDelete = x, !.backup = TRUE])
        EXCEPT !.filter = Protect(S)] :
        m \in {"Before", "After"}, x \in {NoLimit, 1}, S \in {{"ez"}, {"e"}, {"d", "ez"}}}
    \cup
    {Job(AllFiles, [Plain EXCEPT !.recursive = FALSE, !.deleteMode = "After", !.backup = TRUE])}

DeleteDisks ==
    {TreeOf([a |-> na, d |-> nd, dx |-> nx, e |-> ne, ez |-> nz]) :
        na \in {Absent, Link("v2"), File("v2", 2)},
        nd \in {Absent, Dir},
        nx \in {Absent, File("v2", 2)},
        ne \in {Absent, Dir, File("v2", 1)},
        nz \in {Absent, File("v2", 1)}}

MCDeleteDisks == {f \in DeleteDisks : WellFormed(f)}

SyncJobs == UpdateJobs \cup DeleteJobs
SyncDisks == MCUpdateDisks \cup MCDeleteDisks

-----------------------------------------------------------------------------
(* Delayed updates                                                         *)

DelayJobs ==
    {Job(AllFiles, [Plain EXCEPT !.delayUpdates = TRUE, !.backup = b,
                                 !.keepPartial = k, !.preserveMtime = t,
                                 !.deleteMode = m]) :
        b, k, t \in BOOLEAN, m \in {"None", "During", "After"}}
    \cup
    {Job(AllFiles, [Plain EXCEPT !.delayUpdates = TRUE, !.deadline = TRUE])}
    \cup
    {Job(MixedKinds, [Plain EXCEPT !.delayUpdates = TRUE, !.failSpecials = TRUE, !.keepPartial = k]) :
        k \in BOOLEAN}

\* A staging file may be left from an earlier run.
DelayDisks ==
    {TreeOf([a |-> na, d |-> nd, dx |-> nx, t |-> nt, ta |-> nta]) :
        na \in {Absent, Dir, File("v2", 2)},
        nd \in {Absent, Dir, File("v2", 1)},
        nx \in {Absent, File("v2", 2)},
        nt \in {Absent, Dir},
        nta \in {Absent, File("v2", 0), Dir}}

MCDelayDisks == {f \in DelayDisks : WellFormed(f)}

=============================================================================
