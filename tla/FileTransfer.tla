---------------------------- MODULE FileTransfer ----------------------------
(***************************************************************************)
(* One regular file brought up to date, system call by system call:        *)
(* transfer_file of rsync-fs/src/sync.rs with the file operations of       *)
(* walk.rs below it, and the receiver's variant in                         *)
(* rsync-cli/src/remote/receive.rs.                                        *)
(*                                                                         *)
(* Names stand for paths and refer to inodes, since hard links, writes in  *)
(* place and renames differ in exactly that.  Any call may fail, and the   *)
(* process may be killed between any two; then the next run starts on what *)
(* is there, possibly with another version of the source.                  *)
(***************************************************************************)
EXTENDS Naturals, Sequences

CONSTANTS
    Bytes,        \* what files consist of
    Settings,     \* option settings
    Versions,     \* Versions[v]: content of the source in version v
    Targets,      \* contents that the target may have at first
    Alternative,  \* content of the file in the basis directory
    Neighbour,    \* content of a file with a similar name
    MaxRuns,      \* bound: runs
    MaxKills      \* bound: kills

Names == {"source", "target", "basis", "near", "peer", "backup", "temp", "staged", "recv"}
Inodes == 1 .. 10
NoInode == 0
Absent == <<"absent">>
File == Seq(Bytes)

Setting ==
    [atomic : BOOLEAN, keep : BOOLEAN, backup : BOOLEAN, append : BOOLEAN, fuzzy : BOOLEAN,
     hard : BOOLEAN, delay : BOOLEAN, remote : BOOLEAN, single : BOOLEAN, times : BOOLEAN,
     alternative : {"none", "compare", "copy", "link"}]

\* The receiver of a remote transfer knows none of the local executor's
\* features.
ASSUME FileAssumption ==
    /\ "absent" \notin Bytes
    /\ Settings \subseteq Setting
    /\ \A o \in Settings :
         o.remote => ~(o.backup \/ o.fuzzy \/ o.hard \/ o.delay) /\ o.alternative = "none"
    /\ Versions \in Seq(File) /\ Versions # <<>>
    /\ Targets \subseteq File \cup {Absent}
    /\ Alternative \in File /\ Neighbour \in File
    /\ MaxRuns \in Nat /\ MaxKills \in Nat

VARIABLES
    names,    \* inode of each name
    data,     \* content of each inode
    mtime,    \* its time: of a version of the source, or 0 for any other
    opts,
    version,  \* of the source
    pc,
    job,      \* the copy in progress
    runs, kills,
    before,   \* history: the target when this run began
    first,    \* history: the target, the basis and the neighbour at first
    late,     \* history: a run ended between the replacement and the time stamp
    litter    \* a temporary file of an earlier run is left

disk == <<names, data, mtime>>
history == <<runs, kills, before, first, late, litter>>
vars == <<disk, opts, version, pc, job, history>>

Has(n) == names[n] # NoInode
Content(n) == IF Has(n) THEN data[names[n]] ELSE Absent
NewInode == CHOOSE i \in Inodes : \A n \in Names : names[n] # i
IsPrefixOf(s, t) == Len(s) <= Len(t) /\ \A i \in 1 .. Len(s) : s[i] = t[i]

\* Where a transfer reads: a local source, or the file that was received
From == IF opts.remote THEN "recv" ELSE "source"
Wanted == Versions[version]

NoJob == [from |-> "source", to |-> "target", atomic |-> TRUE, keep |-> FALSE, then |-> "none"]
Temps == {"temp", "recv"}

Init ==
    /\ opts \in Settings
    /\ version = 1
    /\ \E target \in Targets, linked \in BOOLEAN, stamp \in {0, 1} :
         LET there == target # Absent
         IN /\ linked => target = Alternative
            /\ names = [n \in Names |->
                 CASE n = "source" -> 1
                   [] n = "basis" -> 2
                   [] n = "near" -> 3
                   [] n = "peer" -> IF opts.hard THEN 4 ELSE NoInode
                   [] n = "target" -> IF ~there THEN NoInode ELSE IF linked THEN 2 ELSE 5
                   [] OTHER -> NoInode]
            /\ data = [i \in Inodes |->
                 CASE i \in {1, 4} -> Wanted
                   [] i = 2 -> Alternative
                   [] i = 3 -> Neighbour
                   [] i = 5 /\ there -> target
                   [] OTHER -> <<>>]
            /\ mtime = [i \in Inodes |->
                 CASE i \in {1, 4} -> 1
                   [] i = 2 -> stamp
                   [] OTHER -> 0]
            /\ before = target
            /\ first = [target |-> target, linked |-> linked]
    /\ pc = "start"
    /\ job = NoJob
    /\ runs = 1 /\ kills = 0
    /\ late = FALSE /\ litter = FALSE

Goto(l) == pc' = l /\ UNCHANGED <<opts, version, job, history>>
Step(l) == Goto(l) /\ UNCHANGED disk

-----------------------------------------------------------------------------
\* copy_file_with_options: atomically (a temporary file beside the target or
\* in --temp-dir or --partial-dir, then a rename over the target) or in place

\* file_write_options, and the options of the receiver's final write
CopyJob(from, to, then) ==
    [from |-> from, to |-> to, atomic |-> opts.atomic, keep |-> opts.keep /\ ~opts.remote, then |-> then]

\* FileWriteOptions::default for a backup, delayed_file_write_options
AtomicJob(from, to, keep, then) ==
    [from |-> from, to |-> to, atomic |-> TRUE, keep |-> keep, then |-> then]

StartCopy(j) ==
    /\ pc' = "open"
    /\ job' = j
    /\ UNCHANGED <<disk, opts, version, history>>

\* Mutant: the file is written where it is to be.
IntoDirect == job.to

Into == IF job.atomic THEN "temp" ELSE job.to

\* File::create: a file that is there is truncated, whoever else has it
Create ==
    LET i == IF Has(Into) THEN names[Into] ELSE NewInode
    IN /\ names' = [names EXCEPT ![Into] = i]
       /\ data' = [data EXCEPT ![i] = <<>>]
       /\ mtime' = [mtime EXCEPT ![i] = 0]

CopyOpen ==
    /\ pc = "open"
    /\ Create
    /\ Goto("chunk")

\* copy_stream_bounded_with_limits: a round of the loop
CopyChunk ==
    /\ pc = "chunk"
    /\ LET done == Len(Content(Into))
       IN /\ done < Len(Content(job.from))
          /\ data' = [data EXCEPT ![names[Into]] = Append(@, Content(job.from)[done + 1])]
    /\ Goto("chunk")
    /\ UNCHANGED <<names, mtime>>

\* Mutant: a target that is there is overwritten from the temporary file.
CopyEndThrough ==
    /\ pc = "chunk"
    /\ Len(Content(Into)) = Len(Content(job.from))
    /\ IF job.atomic /\ Has(job.to)
       THEN /\ data' = [data EXCEPT ![names[job.to]] = Content("temp")]
            /\ names' = [names EXCEPT !["temp"] = NoInode]
       ELSE /\ data' = data
            /\ names' = [names EXCEPT ![job.to] = names[Into],
                                      !["temp"] = NoInode]
    /\ Goto(job.then)
    /\ UNCHANGED mtime

\* The end of the source, then replace_file
CopyEnd ==
    /\ pc = "chunk"
    /\ Len(Content(Into)) = Len(Content(job.from))
    /\ names' = IF job.atomic
                THEN [names EXCEPT ![job.to] = names["temp"], !["temp"] = NoInode]
                ELSE names
    /\ Goto(job.then)
    /\ UNCHANGED <<data, mtime>>

-----------------------------------------------------------------------------
\* The run

\* Mutant: equal size is enough.
StartBySize ==
    /\ pc = "start"
    /\ Step(IF Has("target") /\ Len(Content("target")) = Len(Content("source")) THEN "done"
            ELSE IF opts.remote THEN "receive" ELSE "hard")

\* file_needs_update, by size and time
Start ==
    /\ pc = "start"
    /\ LET same == /\ Has("target")
                   /\ Len(Content("target")) = Len(Content("source"))
                   /\ mtime[names["target"]] = mtime[names["source"]]
       IN Step(IF same THEN "done" ELSE IF opts.remote THEN "receive" ELSE "hard")

\* read_file_tokens_to_path_with_basis into the temporary file beside the
\* target.  What arrives is checked against the sender's digest.
ReceiveOpen ==
    /\ pc = "receive"
    /\ names' = [names EXCEPT !["recv"] = NewInode]
    /\ data' = [data EXCEPT ![NewInode] = <<>>]
    /\ mtime' = [mtime EXCEPT ![NewInode] = 0]
    /\ Goto("tokens")

ReceiveToken ==
    /\ pc = "tokens"
    /\ LET done == Len(Content("recv"))
       IN \/ /\ done < Len(Wanted)
             /\ data' = [data EXCEPT ![names["recv"]] = Append(@, Wanted[done + 1])]
             /\ Goto("tokens")
             /\ UNCHANGED <<names, mtime>>
          \/ /\ done = Len(Wanted)
             /\ Step("append")

\* backup_receiver_file, then what follows it
WithBackup(then) ==
    IF opts.backup /\ ~opts.remote /\ Has("target")
    THEN StartCopy(AtomicJob("target", "backup", FALSE, then))
    ELSE Step(then)

\* The first target of the link group is there already
Hard ==
    /\ pc = "hard"
    /\ IF opts.hard /\ Has("peer") THEN WithBackup("unlink_peer") ELSE Step("alternative")

\* remove_existing_file_before_hardlink
Unlink(then) ==
    /\ names' = [names EXCEPT !["target"] = NoInode]
    /\ UNCHANGED <<data, mtime>>
    /\ Goto(then)

UnlinkForPeer == pc = "unlink_peer" /\ Unlink("link_peer")
UnlinkForBasis == pc = "unlink_basis" /\ Unlink(IF opts.alternative = "link" THEN "link_basis" ELSE "copy_basis")

\* create_hard_link may fail; then the file is copied
Link(from, otherwise) ==
    \/ /\ names' = [names EXCEPT !["target"] = names[from]]
       /\ UNCHANGED <<data, mtime>>
       /\ Goto("stamp")
    \/ Step(otherwise)

LinkPeer == pc = "link_peer" /\ Link("peer", "alternative")
LinkBasis == pc = "link_basis" /\ Link("basis", "copy_basis")

\* basis_files_match: by size and time
BasisFilesMatch ==
    /\ Len(Content("basis")) = Len(Content("source"))
    /\ mtime[names["basis"]] = mtime[names["source"]]

\* check_basis_dirs
CheckBasis ==
    /\ pc = "alternative"
    /\ CASE opts.alternative = "none" \/ ~BasisFilesMatch -> Step("fuzzy")
         [] opts.alternative = "compare" /\ BasisFilesMatch -> Step("done")
         [] opts.alternative \in {"copy", "link"} /\ BasisFilesMatch -> WithBackup("unlink_basis")

CopyBasis == pc = "copy_basis" /\ StartCopy(CopyJob("basis", "target", "stamp"))

\* find_fuzzy_basis: a file with a similar name is copied to the target first
Fuzzy ==
    /\ pc = "fuzzy"
    /\ IF opts.fuzzy /\ ~Has("target")
       THEN StartCopy(CopyJob("near", "target", "append"))
       ELSE Step("append")

\* Mutant: the prefix test with its arguments exchanged.
AppendableReversed == Has("target") /\ IsPrefixOf(Content(From), Content("target"))

\* append_verify_offset
Appendable == Has("target") /\ IsPrefixOf(Content("target"), Content(From))

AppendVerify ==
    /\ pc = "append"
    /\ Step(IF ~(opts.append /\ Appendable) THEN "write"
            ELSE IF Content("target") = Content(From) THEN "stamp" ELSE "appending")

\* append_file_from
AppendChunk ==
    /\ pc = "appending"
    /\ LET i == names["target"]
           next == Append(data[i], Content(From)[Len(data[i]) + 1])
       IN /\ data' = [data EXCEPT ![i] = next]
          /\ mtime' = [mtime EXCEPT ![i] = 0]
          /\ Goto(IF Len(next) = Len(Content(From)) THEN "stamp" ELSE "appending")
    /\ UNCHANGED names

Write ==
    /\ pc = "write"
    /\ IF opts.delay
       THEN StartCopy(AtomicJob("source", "staged", opts.keep, "publish"))
       ELSE WithBackup("copy")

Copy == pc = "copy" /\ StartCopy(CopyJob(From, "target", "stamp"))

\* Mutant: a delayed update makes no backup.
PublishNoBackup == pc = "publish" /\ Step("rename")

\* finish_delayed_updates
Publish == pc = "publish" /\ WithBackup("rename")

Rename ==
    /\ pc = "rename"
    /\ names' = [names EXCEPT !["target"] = names["staged"], !["staged"] = NoInode]
    /\ UNCHANGED <<data, mtime>>
    /\ Goto("stamp")

\* preserve_transferred_mtime, preserve_remote_mtime; the receiver removes
\* its temporary file
Stamp ==
    /\ pc = "stamp"
    /\ mtime' = IF opts.times THEN [mtime EXCEPT ![names["target"]] = version] ELSE mtime
    /\ names' = [names EXCEPT !["recv"] = NoInode]
    /\ data' = data
    /\ Goto("done")

-----------------------------------------------------------------------------
\* Failures

Rest == {"done", "failed", "killed"}
Silent == {"start", "hard", "alternative", "fuzzy", "append", "write", "copy", "copy_basis", "publish"}

\* Mutant: the temporary file is only removed when the copy went well.
CleanupNothing == names

\* Mutant: a file whose time cannot be set is rolled back to its backup.
CleanupRestores ==
    [n \in Names |->
       IF \/ n = "temp" /\ ~job.keep
          \/ n = "recv"
          \/ n = "staged" /\ ~opts.keep /\ ~opts.single
          \/ n = "backup" /\ pc = "stamp" /\ job.to = "target"
       THEN NoInode
       ELSE IF n = "target" /\ pc = "stamp" /\ job.to = "target" /\ Has("backup")
       THEN names["backup"]
       ELSE names[n]]

\* What the error paths remove: the temporary file of the copy, that of the
\* receiver, and the staged file (cleanup_delayed_updates), which
\* sync_single_file leaves
Cleanup ==
    [n \in Names |->
       IF \/ n = "temp" /\ ~job.keep
          \/ n = "recv"
          \/ n = "staged" /\ ~opts.keep /\ ~opts.single
       THEN NoInode ELSE names[n]]

\* An error of a system call, or the deadline
Fail ==
    /\ pc \notin Rest \cup Silent
    /\ names' = Cleanup
    /\ pc' = "failed"
    /\ late' = (late \/ pc = "stamp")
    /\ UNCHANGED <<data, mtime, opts, version, job, runs, kills, before, first, litter>>

Kill ==
    /\ pc \notin Rest
    /\ kills < MaxKills
    /\ kills' = kills + 1
    /\ pc' = "killed"
    /\ late' = (late \/ pc = "stamp")
    /\ UNCHANGED <<disk, opts, version, job, runs, before, first, litter>>

\* The names of temporary files are new in every run (process and time), so
\* that nothing removes or uses those of an earlier one.
NextRun ==
    /\ pc \in Rest
    /\ runs < MaxRuns
    /\ runs' = runs + 1
    /\ version' \in {version, version + 1} \cap DOMAIN Versions
    /\ data' = [data EXCEPT ![names["source"]] = Versions[version']]
    /\ mtime' = [mtime EXCEPT ![names["source"]] = version']
    /\ litter' = (litter \/ \E n \in Temps : Has(n))
    /\ names' = [n \in Names |-> IF n \in Temps \cup {"peer"} THEN NoInode ELSE names[n]]
    /\ before' = Content("target")
    /\ pc' = "start"
    /\ UNCHANGED <<opts, job, kills, first, late>>

Next ==
    \/ Start \/ ReceiveOpen \/ ReceiveToken \/ Hard \/ UnlinkForPeer \/ LinkPeer
    \/ CheckBasis \/ UnlinkForBasis \/ LinkBasis \/ CopyBasis \/ Fuzzy
    \/ AppendVerify \/ AppendChunk \/ Write \/ Copy \/ Publish \/ Rename \/ Stamp
    \/ CopyOpen \/ CopyChunk \/ CopyEnd
    \/ Fail \/ Kill \/ NextRun

Spec == Init /\ [][Next]_vars

-----------------------------------------------------------------------------
\* Properties

Seen == Content("target")
InPlace == ~opts.atomic

\* Inodes that are written have one owner, except the target: its inode may
\* be that of the basis or of the first file of its link group.
TypeOK ==
    /\ names \in [Names -> Inodes \cup {NoInode}]
    /\ DOMAIN data = Inodes /\ DOMAIN mtime = Inodes
    /\ version \in DOMAIN Versions
    /\ Has("source") /\ Has("basis") /\ Has("near")
    /\ \A n, m \in Names : n # m /\ Has(n) /\ names[n] = names[m] =>
         "target" \in {n, m} /\ {n, m} \cap {"basis", "peer"} # {}

\* What anyone may find at the target at any moment, also after a kill: the
\* content from before the run, the new one, or the basis that was taken for
\* equal.  Beyond that only what the options bring with them: in place, what
\* is written so far; with --append-verify, the old content and a part of
\* the rest; after --fuzzy the neighbour's content, where no file was or one
\* had to make way for a hard link that failed; and no file for a moment
\* where a hard link or a basis takes its place (transfer_file,
\* copy_file_with_options).
TargetNeverTorn ==
    \/ Seen \in {before, Wanted}
    \/ InPlace
    \/ opts.append /\ IsPrefixOf(Seen, Wanted) /\ IsPrefixOf(before, Seen)
    \/ /\ opts.fuzzy /\ (before = Absent \/ opts.hard)
       /\ IsPrefixOf(Neighbour, Seen) /\ (opts.append \/ Seen = Neighbour)
    \/ opts.alternative \in {"copy", "link"} /\ Seen = Content("basis")
    \/ (opts.alternative \in {"copy", "link"} \/ opts.hard) /\ Seen = Absent

\* A run that ends well has left what was asked for.  Equal size and time is
\* taken for equal content; --compare-dest leaves the target alone, also when
\* it was removed for a hard link that could not be made.
SuccessMeansWanted ==
    pc = "done" =>
      \/ Seen = Wanted
      \/ /\ opts.alternative = "compare" /\ BasisFilesMatch
         /\ Seen = before \/ (opts.hard /\ Seen = Absent)
      \/ Seen = before /\ Len(Seen) = Len(Wanted) /\ mtime[names["target"]] = version
      \/ Seen = Content("basis") /\ opts.alternative \in {"copy", "link"} /\ BasisFilesMatch

\* The file in the basis directory and the neighbour are only read.  A write
\* in place or an append goes through to the basis if the target is a hard
\* link to it, as after an earlier run with --link-dest.
BasisOnlyRead ==
    /\ Content("near") = Neighbour
    /\ Content("basis") # Alternative =>
         /\ InPlace \/ opts.append
         /\ first.linked \/ opts.alternative = "link"

\* With --backup the content that the target had at first is not lost in two
\* runs of which the first fails or is killed, if files are replaced and not
\* written in place.  The exceptions: the first run ended when the file was
\* replaced and its time not set, and the second then replaces it again, and
\* the backup by a copy of the new content; or the file was removed for a hard
\* link, and --fuzzy put the neighbour in its place, which was backed up next.
FirstContentSurvives ==
    opts.backup /\ ~opts.remote /\ ~InPlace /\ ~opts.append /\ version = 1 /\ opts.times /\ ~late
    /\ first.target # Absent /\ ~(opts.hard /\ opts.fuzzy)
      => first.target \in {Seen, Content("backup")}

\* Temporary files are left by a kill only, or by an error under --partial;
\* a staged file also by an error in the transfer of a single file.
TempsRemoved ==
    /\ litter /\ kills = 0 => opts.keep
    /\ pc = "done" => \A n \in Temps : ~Has(n)
    /\ pc = "failed" /\ (\E n \in Temps : Has(n)) => opts.keep /\ ~opts.remote
    /\ pc \in {"done", "failed"} /\ Has("staged") => opts.keep \/ opts.single \/ kills > 0

\* Under --append-verify a run that is cut short can be resumed: the target
\* stays a prefix of the source, so that the next run appends again.
AppendResumable ==
    opts.append /\ IsPrefixOf(first.target, Versions[1]) /\ first.target # Absent /\ version = 1
    /\ opts.alternative = "none" /\ ~opts.hard /\ ~first.linked
      => IsPrefixOf(Seen, Versions[1]) /\ IsPrefixOf(first.target, Seen)

\* The target at every moment and at the end, whatever the options, with the
\* names and inodes in order (transfer_file).
TargetSound == TypeOK /\ TargetNeverTorn /\ SuccessMeansWanted

\* What a run leaves does not hinder the next one: no temporary files, and a
\* target that can be appended to (copy_file_with_options, append_file_from).
LeavesCleanly == TempsRemoved /\ AppendResumable

-----------------------------------------------------------------------------
\* Refinement: with the default way of writing, transfers are what FilePut
\* says, whatever fails and whenever the process is killed.  About the
\* other settings the mapping says nothing: it shows a file at rest.

Plain ==
    /\ opts.atomic /\ ~opts.append /\ ~opts.fuzzy /\ ~opts.hard
    /\ opts.alternative = "none" /\ ~first.linked

Status ==
    CASE pc = "done" /\ Plain -> "done"
      [] pc \in {"failed", "killed"} /\ Plain -> "failed"
      [] OTHER -> "running"

Abstract ==
    INSTANCE FilePut WITH
        Contents <- Targets \cup {Versions[v] : v \in DOMAIN Versions},
        content <- IF Plain THEN Seen ELSE Versions[1],
        wanted <- IF Plain THEN Wanted ELSE Versions[1],
        status <- Status

\* A plain transfer (a temporary file, then a rename; with or without
\* backup, delayed update or a remote sender) implements FilePut.
ImplementsFilePut == Abstract!Spec
=============================================================================
