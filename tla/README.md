# rsync-win in TLA+

A verification project for rsync-win, a file synchroniser for Windows that works
on local trees and speaks the rsync wire protocols 27 and 31 with daemons and
with remote shells. The modules model what carries its correctness: what a local
run does to a destination, what two ends do to one over a connection, how the two
come to an agreement about what they are going to do, and how it is all written
on the wire. TLC checks them on small instances; TLAPS proves the central
invariants of the local run, of the transfer of one file, of the session and of the
handshake with its second try for every value of the constants, and that the transfer of
a file implements its abstract specification.

Paths are relative to the repository; `sync.rs` is `crates/rsync-fs/src/sync.rs`,
`remote/` is `crates/rsync-cli/src/remote/`.

## 1. Inventory

### Components, their state and their operations

| Component | State | Operations |
|---|---|---|
| Command line and plan (`rsync-cli/options.rs`, `plan/`) | pairs of fields (`preserve_x`, `no_x`), operands, filter options | apply an option, build the plan, choose the transfer, build the server's arguments |
| Filter rules (`rsync-filter`, `plan/filters.rs`) | an ordered list of rules at each end | parse, match, turn into arguments and back, decide about a path, protect from deletion |
| Remote shell command (`rsync-transport/remote_shell.rs`) | none | quote arguments for another shell, split `--rsh` |
| Remote shell (`remote/session.rs`, `rsync-transport/process.rs`) | child process, three pipes, attempt | spawn, handshake, transfer, wait; retry with protocol 27 |
| Daemon (`daemon_server/`) and its client | configuration, one connection at a time; module, challenge | read and validate the configuration, accept, greet, list, authenticate, check arguments |
| Transfer session (`remote/pull.rs`, `push.rs`, `receive.rs`, `flist.rs`, `delete.rs`, `daemon_server/`) | entries of both ends, selected and wanted positions, marker counts | send and read the list, validate, delete extras, request, answer, rebuild, markers, goodbyes |
| Incremental recursion (`pull.rs`) | lists received so far, requested positions | read a list, extend, request, read an answer, delete extras |
| Local sync engine (`sync.rs`) | source entries, destination walk, report, delayed transfers | `sync_tree`: walk, preflight, delete, transfer loop, `finish_delayed_updates`, clean-up, directory times |
| One file (`sync.rs`, `walk.rs`, `receive.rs`) | names, inodes, times, temporary files | `transfer_file`, `copy_file`, `append_file_from`, `replace_file`, backups, links |
| File list (`rsync-protocol/flist.rs`, `remote/flist.rs`) | previous entry of writer and reader, current batch | write and read entries, sort, build batches |
| Wire (`rsync-protocol/io.rs`, `session.rs`) | previous indexes, rest of a frame, compressor and run of blocks | numbers, frames, compressed tokens |
| Delta (`rsync-delta`, `transfer/`) | signatures, window, pending literal | sign, match, write tokens, rebuild, check |
| Windows services, sidecar, batch files, output, bandwidth | see PROJECT.json | see PROJECT.json |

### How they interact

The command line builds a plan. A local plan calls `sync_tree` once, in one
thread, over the `FileSystem` trait. A remote plan opens a connection (TCP, or a
child process with three pipes and a thread that drains its stderr), sends the
other end its arguments, shakes hands, and then runs one of two sequential roles;
the other role runs in another process. The two share nothing but the two byte
streams. No field of the stream says which optional parts follow: each end reads
and writes by its own record of the options. The sender's list alone gives a
position its meaning, and every later message names a file by position. The
receiver role writes to the same kind of tree as `sync_tree`, with its own code. A
daemon serves one connection after the other.

### What is hard about it

* *Crashes and failures between two filesystem calls* (backup, copy, rename, time),
  and the next run over what the failed one left.
* *Decisions per path, effects per subtree or per inode*: `remove_dir_all` takes more
  than the entry it was decided for, `File::create` truncates all links of a file.
* *Stale decisions*: the destination is walked before the transfers, the basis is
  measured before it is signed and signed before its blocks are copied, the list is
  made before files are opened.
* *Two records of one agreement*: options, filter rules, positions, previous entries
  and previous indexes are kept at both ends and never compared.
* *Order*: rules overtake one another on their way, lists arrive between answers,
  a run of blocks and the literals in the compressor must not change places.
* *Marker counting* in four variants (two versions, two roles), once more with
  incremental recursion.
* *Synchronous streams*: each end writes without reading, a parent waits for a child
  whose pipe it no longer reads, a daemon waits for a silent client.
* *Retry*: a failed session is tried again with another protocol, and must not have
  had effects.
* *Boundaries*: batches and buffers at `--max-alloc`, `--max-delete`, short last blocks,
  length bytes, differences of 0, 254 and 32768.

PROJECT.json lists each of these as a hazard, at the line where it bites, with the
properties that cover it.

## 2. Modules

```
ReceiverTree ──── LocalSync ──────────── MCLocalSync          2 configurations
  │  └ ReceiverTreeProofs ── LocalSyncProofs ── LocalOutcomeProofs
  └─ FileListOrder ── TransferSession ── MCTransferSession    3
       │                 └ TransferSessionProofs
       └ FileListBatches ┐
WireNumbers, Multiplex,  ├────────────── MCWire               1
FileListCodec,           │
DeltaTransfer,           │
DeflatedTokens ──────────┘
CommandLine ── ServerArgs ┐
OperandPlan, ShellWords,  ├───────────── MCCommand            1
FilterRules ──────────────┘
DaemonLogin ──────────────────────────── MCDaemonLogin        1
  └ DaemonLoginProofs
FilePut ── FileTransfer ──────────────── MCFileTransfer       1
              └ FileTransferProofs
RemoteShell ──────────────────────────── MCRemoteShell        1
  └ RemoteShellProofs
IncrementalPull ──────────────────────── MCIncrementalPull    2
  └ IncrementalPullProofs
```

PROJECT.json maps every definition to its lines. Definitions whose comment begins
with "Mutant" are wrong on purpose: each is a plausible slip in the definition that
follows it, and a property that does not notice it would say nothing.

### The destination

**ReceiverTree** is a tree as a function from paths to nodes. `Under[p]` are the
paths below `p`, `Rank` the order of a `BTreeMap<PathBuf, _>`. Operators stand for the
calls of the `FileSystem` trait (`MakeDir`, `Put`, `RemoveFile`, `RemoveTree`, `SetMtime`),
for what a removal cut short leaves (`PartlyRemoved`), and for the decisions of
`sync.rs`. A content is a value with a length (`Size`); `Torn` is what an interrupted
direct write leaves; `Now` is the time of a file whose time has not been set. The
filter's verdict on a path is part of a job.

**LocalSync** is `sync_tree`. One action is one filesystem operation or one decision
between two of them. Each operation that can fail has a second action for its
failure, which leaves one of the trees the operation can leave half way, and goes
where the code goes: `ReturnError` for `?`, `TransferError` for the errors that the loop
hands to `cleanup_delayed_updates`. `Crash` ends a run with any such tree. `NextRun` starts
the program again over whatever is there.

**FileTransfer** looks into one step of it: one file, call by call, over names and
inodes, with temporary files, `--inplace`, `--append-verify`, `--backup`, `--delay-updates`, hard
links, the three basis directories, `--fuzzy`, and the receiver's variant. Any call may
fail and the process may be killed between any two; then a second run starts, possibly
with another version of the source. **FilePut** is what a replacement promises to
someone who only looks at the target: old or new as a whole, and new after success.
`ImplementsFilePut` says that plain transfers (through a temporary file and a rename, with
or without backup, delayed update or a remote sender) implement it; `Abstract` has the mapping.

### The session

**TransferSession** is one session after the handshake, with a sender (`sPc`, `sOut`,
`sEntries`, `sMarks`), a receiver (`rPc`, `rOut`, `rEntries`, `rRound`, `plan`, `want`) and two
streams of at most `Capacity` messages. A pull is the receiver of `remote/pull.rs`
against the daemon sender or a remote rsync; a push is the sender of
`remote/push.rs` against the daemon receiver or a remote rsync. `job` decides the
differences: number of phases, statistics, who sends the first marker, who sorts. An
end with something in `sOut` or `rOut` does nothing else, which is what a synchronous write
does. `Rebuilds` is the checks of length and checksum, `Rebuilt` what is written.
`Cut`, `SenderAborts`, `ReceiverAborts`, `ReceiveFileFails` and `Edit` are the environment.

**IncrementalPull** is the variant in which the list arrives in parts between the
answers. The sender may acknowledge the end of the phase once (`Acks = "last"`, the
sender of the repository's tests) or for each list (`"each"`).

**RemoteShell** is what surrounds a session: spawning, the handshake of protocols 27 to
32 with the bytes a login shell may put in front of it, three bounded pipes and the
thread that drains stderr, waiting for the child, and the second try with protocol 27.
The transfer is a number of data frames; what matters is when it begins to have
effects and who still reads which pipe when it fails.

**DaemonLogin** is a daemon from its configuration file to the start of a transfer, and
several clients. Lines of the configuration are read one by one, overrides applied,
modules validated; then the accept loop serves one connection at a time. A listing is
written module by module, so that a client reads it, dies or falls silent in between.

### The agreement

**CommandLine** and **ServerArgs** follow the options through the fields of `Cli`, the
plan, the arguments and the daemon's `DaemonTransferArgs`. A `Cli` is the set of fields that
are true. `EndsAgree` compares what the two ends will read and write; the combinations in
which they do not are those of `KnownToDiffer`, and `ExceptionsReal` says that each of
them really differs. **OperandPlan** is the choice of a transfer from the operands;
an operand is its `rsync://`, its first colons and what stands on either side of them, a further `::` included.
**ShellWords** quotes and splits, against a POSIX shell. **FilterRules** has the matcher, the
parser, the arguments made of rules, the rules a daemon reads from them, and the two
walks that ask them.

### The wire

**WireNumbers** (bytes), **Multiplex** (frames; what outlives a reader), **FileListCodec** (entries
as sequences of items, with what writer and reader remember), **FileListBatches** and
**FileListOrder** (batches, and the two orders of a list), **DeltaTransfer** (signatures, search
through a window, tokens, rebuilding, with edits of both files in between) and
**DeflatedTokens** (runs of blocks, flushes and their tails in both compression modes) are
the layers. `MCWire` and `MCCommand` put independent modules into one specification: a
behaviour is of one of them, and the others are at rest in it. They share no state in
the code either.

External, and modelled from how the code uses them: flate2 (what is written since the last flush may
stay in the compressor), the POSIX shell, the peer that is a remote rsync (taken to
behave as the corresponding end of this code and to order the list as this code
supposes), the network, and other programs that edit files. Hash functions are
injective at full length in DeltaTransfer and TransferSession; in DeltaTransfer weak checksums collide and a
strong one that the peer has cut short tells nothing.

## 3. What TLC checks

Several properties are conjunctions of named parts; the parts have their own comments
where they are defined. The mutants of PROJECT.json break each part that is not about types.

| Run | Instance | Properties |
|---|---|---|
| `local_sync` | every shape of the destination, every update and delete mode, in place and atomic, `--max-delete` 0 and 1, backups, `--files-from`, rules, `--update`, deletions without recursion, conflicts of kind, 1 fault or kill, 2 runs | `TypeOK`, `OldOrNew`, `Converged`, `BackedUp`, `DeletesWithinLimits`, `DeletesSpareOffered` |
| `local_delay` | `--delay-updates` with backups, deletions, `--partial`, leftovers, a deadline, 1 fault, 2 runs | `DelayHolds`, `DelaySafe`, `Converged` |
| `session` | pulls and pushes, both protocols, all modes, 4 sources, 4 destinations, the main ones with one fault and one edit | `TypeOK`, `PositionsRight`, `Delivered`, `MarkersAgree`, `TreeKept`, `BothEnd` |
| `incremental_pull` | three levels, an excluded and a colliding name, an extra file and an extra directory with an excluded file in it, `--delete`, `--trust-sender` | `NumbersSound`, `PullSound`, `Finishes` |
| `file_transfer` | all settings of one file, 4 targets, 2 versions, an error at any call, 1 kill, 2 runs | `TargetSound`, `BasisOnlyRead`, `FirstContentSurvives`, `LeavesCleanly`, `ImplementsFilePut` |
| `remote_shell` | 8 versions and configurations of rsync, 3 login shells, 20 settings of the client, the peer dies anywhere | `RetryIsClean`, `InAgreement`, `OutcomeSound`, `OnlyTheUnreadPipeHangs` |
| `daemon` | all short configurations with 5 sets of overrides; 2 clients with all jobs, 3 clients of which one dies or falls silent | `ConfigSound`, `LoginSound`, `ServedUnlessSilent` |
| `command` | all lines of 3 options out of 46, of 3 operands, arguments of 2 characters, 3 rules, patterns of 3 pieces | `OptionsArrive`, `DoesWhatWasAsked`, `ArgvArrives`, `GlobMeansPieces`, `RulesArrive` |
| `wire` | 3 numbers at all boundaries, 5 bytes in frames, lists of 3 entries, walks of all trees over six names, 4 tokens, files of 4 bytes | `LinkSound`, `ListArrives`, `TokensArrive`, `DeltaExact`, `NothingStays` |

What they show, in words: an offered file is old or new at every moment unless it is
written in place; deletions spare what is offered, protected or beyond the limit; success
means convergence and, with backups, no loss; a killed run hinders no later one.
In a session a file only ever gets a content of its own, success at either end means delivery,
the ends count alike and both come to an end. A retry follows only what has had no
effects. No client is served without permission or refused with it, and only a
client that falls silent keeps others waiting. What was planned is what the other end
does, but for the listed combinations. Every layer of the wire returns what was put in.

### Bounds, and why they are enough

* One fault is enough for claims about a failed step, because the code stops at the
  first error; a second run is there because leftovers only matter to a later one.
* Two files of the same length are what it takes to confuse positions without the
  length giving it away; one directory that sorts before a file makes the two orders
  differ; one nested extraneous directory separates decisions per path from effects per
  subtree. `--max-delete` 0 and 1 are the boundary and the first value above it.
* `Capacity = 4` holds the traffic of these lists, so the passing session run is not
  about full streams; `session_deadlock` takes 1. `PipeCap = 2` against 3 data frames and
  3 messages on stderr fills the pipes of `remote_shell`.
* Three options are a setting, one that it interacts with, and one that takes either
  back. Three rules are one that is overtaken, one that overtakes it, and a default.
* Three entries of a list are one to repeat, one that repeats it, and one that depends on
  what was remembered of the second. Indexes and numbers are taken at the
  boundaries of each form, not at random.
* Files of up to 4 bytes of one bit with blocks of 2 and 3 have whole, short and no last
  blocks, collisions of the weak checksum, and edits between any two steps.
* Widths are scaled down where only the boundary matters: in the codec of file lists a byte
  counts to two, so that shared prefixes meet its limit; a run of blocks and a relative block
  number end at two; frames hold two bytes. WireNumbers keeps the real widths.
* Six names give every way in which files and directories can be mixed at two levels, and
  names that are prefixes of one another.

Deadlock is not checked, because a finished program may stop; that things end is
`BothEnd`, `Finishes`, `NothingStays`, `ServedUnlessSilent` and `OnlyTheUnreadPipeHangs`.

### Fairness

A thread whose calls return goes on: weak fairness, one condition per thread. Each end of a
session is one thread; the client of `remote_shell` has a second one that
drains stderr; the daemon is one thread, each of its clients another. The
multiplexed reader is given weak fairness of its two steps. No fairness is assumed of faults,
edits, kills, new runs, or of a client that has fallen silent. The peer of
`remote_shell` and the sender of `incremental_pull` are other processes that go on unless they die.

### Disagreements

Three runs show a difference between the code and what the repository says of it.

* `session_daemon_order`: between this client and this project's daemon the two ends
  count positions in different orders as soon as a directory sorts before a file; a
  file of equal length is stored under another name, and every check passes.
  (`PositionsRight` is the part that holds: over a remote shell the orders agree.)
* `session_deadlock`: all requests are written before the first answer is read; when the
  streams hold less than requests and answers together, both ends wait for room.
* `incremental_early_done`: from a sender that acknowledges every list, the pull takes the
  first acknowledgement for the end and deletes what the later lists would have named.

Others were met while modelling. The properties of the passing runs except exactly
these cases, so that a change of behaviour would show:

* Local: a protected file is lost with the unprotected extraneous directory around it
  (docs/ROADMAP.md:161); a backup by suffix is deleted with such a directory; `--stop-at` leaves
  the staging files, and so does a target that can neither be cleared nor made (`Obstructed`); a
  deletion of a directory takes without a backup what the walk had not come to or a rule
  protects (`TakenAlong`); a target of another kind is removed before it is known whether its
  replacement will be written. Under `--update --times` a file that is spared because the receiver
  has it newer is given the source's older time all the same (`preserve_existing_file_mtime`,
  sync.rs:513), so the next run overwrites it unless both have one size; `Converged` excepts it
  (`SkippedAsNewer`), and the attempt to prove it without that is how it was found. When a hard link fails after the target was removed for it,
  `--compare-dest` skips the file, which stays missing, and with `--fuzzy --backup` the first
  content is lost: the backup is made of the neighbour that was copied meanwhile.
* Operands (`Misread`): rsync looks at the first colon only and at none behind a separator, so it takes
  `host:dir/a::b` for a path on `host` and `dir/a::b` and `C:\x::y` for local ones; this program takes
  each for a module of the host that all before `::` names, although the test at
  rsync-protocol/src/daemon.rs:463 is named for drives not being taken for daemons. `DoesWhatWasAsked` says that these
  are the only ones, and that they are executed as that transfer or not at all.
* Options towards this project's daemon (`KnownToDiffer`): secluded arguments; pushes with `--append-verify`;
  `--checksum` with `--size-only` (pushes) or with `--ignore-times` (pulls), of which the daemon takes the last;
  `--usermap` or `--chown` for an owner or group that is not preserved (`--no-owner`, `--no-group`); a
  compression level or `--skip-compress` without `-z`.
* Rules: records of a rule file that begin with R, P, S, H or "." are taken for rules;
  rules of files change places when sent; rules that apply to both sides cannot be
  expressed for the other end; "!" in a file clears all rules at the other end only.
* Daemon: a listing leaves out modules without a comment.
* File list: names of users for an owner without one may be those of the entry before; a
  negative time makes the writer fail. A zlib stream does not add copied blocks to the
  writer's window (docs/COMPATIBILITY.md:67).
* Incremental pulls: later lists are checked when they arrive, so files of earlier ones are
  already written (docs/COMPATIBILITY.md:61). As in a local run, an excluded or protected path goes with the
  extraneous directory around it (`remove_dir_all` in `delete_local_extras`, remote/receive.rs:439); `Mirrors` excepts it (`Spared`).
* Delta: `--max-alloc` below the literal buffer refuses every delta that has signatures.
* Remote shell: an end of file inside the list of files does not lead to the second try; a
  client that gives up while the child is blocked on stdout waits for it for ever
  (`OnlyTheUnreadPipeHangs` says that nothing else in the handshake, the pipes and the waiting hangs; the requests are one
  message there, so the deadlock of `session_deadlock` is outside it); a checksum that the client cannot
  compute is noticed after the deletions of a pull.

## 4. What is proved

`ReceiverTreeProofs` has the lemmas about the tree operators (each keeps a tree a tree,
and says which paths it leaves alone), and about the order of a list. The theorems:

* **LocalSyncProofs!SafeInvariant**, and from it **TypeCorrect**, **FilesOldOrNew**
  (`Spec => []OldOrNew`) and **OfferedSpared** (`Spec => DeletesSpareOffered`). `OldOrNew` is not
  inductive: a deletion could take a directory above an offered file, and a rename could
  deliver something other than the new content. `SafeInv` adds that the parents of what is
  offered are offered (so no deletion is planned above an offered path), that a
  staging file still has the source's content while the loop runs, and that nothing is
  staged while the receiver deletes. The assumption that carries the argument is
  `ApartAssumption`: backups and staging files do not go to places of the source, and
  staging places are distinct. (Its part about backups serves `ContentIsSaved`.) The code does not check this, and `SafeInv` is false without it.
* **LocalSyncProofs!NothingShownEarly** (`Spec => []DelayHolds`). `DelayInv` adds to `SafeInv` that,
  while entries are pending, an offered file which the receiver had is still that file, with
  its old content; backups, staging files, deletions and the clearing of targets of
  another kind all happen elsewhere.
* **LocalSyncProofs!DeletesAreLimited** (`Spec => []DeletesWithinLimits`). What is gone must be bounded by
  a counter, and a directory goes with all it holds, so `LimitInv` keeps an account:
  the extraneous paths that the deletions have not come to (`Pending`) are all still there
  (`Present`), and of the others no more are open to deletion than `deleted` says (`Counted`). A deletion
  moves one path from the one side to the other because what lies below it is deeper and was
  planned before it (`DeepestFirst`). The transfers disturb neither side (`Retains`: they
  take only offered entries, staging files, and what lies below a directory that gives
  way), and a run has one account because it calls `apply_receiver_deletes` once at most (`PhasesOK`).
  Staging places are not counted: a file there may be an old one that is
  extraneous and is overwritten and renamed away.
* **LocalOutcomeProofs!RunsConverge** (`Spec => []Converged`). `Converged` speaks of the last state only.
  `ConvergeInv` adds to `LimitInv` what holds on the way there, as long as the run has met no error (`Going`):
  an offered file that the loop has not come to, or that is staged, is as the walk found it, and
  every other one is up to date (`Settled`); of the extraneous paths only those are there that the deletions have not
  come to or may not take (`GoneIn`); and `Course` says what the place in `sync_tree` tells about the sets,
  for instance that nothing is staged or planned any more when the times are set. `Works` is
  what each step may do to the tree: change its own places, remove what gives way, make parent
  directories, and write one backup. A copy needs no update because a source file has a time of its
  own (`JobAssumption`), equal times are equal within every window, and a skipped target that
  is given the source's time stays up to date in each update mode, except one spared as newer.
* **LocalOutcomeProofs!ContentIsSaved** (`BackupsOutside` implies `Spec => []BackedUp`). `SaveInv` adds that every file which the
  receiver had is in place or in its backup (`SavedIn`); that a file which waits or is not offered has its old
  content, so that a backup made of it is the right one (`OwnIn`); and that a file is out of the way before a
  link takes its place, since `transfer_symlink` makes no backup (`Ready`). A deleted directory holds nothing
  unsaved: deeper paths were deleted before it, each with its backup, and the rest is `TakenAlong`. Backup
  places are distinct (`ApartAssumption`). The hypothesis `BackupsOutside`, a `--backup-dir` that is not
  below the destination, is needed: backups by suffix are deleted with the directory they lie in.
* **LocalOutcomeProofs!StagingIsCleanedUp** (`Spec => []NoStagingLeft`) and **DelayLosesNothing** (`BackupsOutside` implies
  `Spec => []DelaySafe`). `CleanInv` says that, as long as nothing failed unprompted, a staging place with a new file belongs to a member of
  `staged` (`Unstaged`), and that a run which returned an error with something staged was past its deadline
  or stands before an obstructed target: every other error passes the clean-up. That an obstructed target is an
  exception came out of this proof: the invariant without it is not inductive.
* **TransferSessionProofs!TypeCorrect** and **RightFiles** (`Spec => []RightFileIfSameOrder`). The
  inductive invariant `RightInv` adds: the lists are made once, from empty (`Fresh`), so two
  lists that agree now have agreed before; the sender's files hold contents of their own
  (`SourceRight`); and every answer under way carries a content of the file that the
  sender's list has at its position (`AnswersRight`). An answer that passes `Rebuilds` is
  written as what it carries; a torn file arises only in place.
* **TransferSessionProofs!SortsAlike** (`Spec => []PositionsRight`): over a remote shell both ends put the same file at the same
  position, so `RightFile` holds there without a condition, and so do `Delivered` and `MarkersAgree`. `OrderInv` adds to `RightInv` that the
  list under way is the set of entries that the sender serves in order (`Served`), and that the receiver's list is that set in order; with
  **ReceiverTreeProofs!OneOrder** the two are the same sequence. `OneOrder` says what `sort_by` needs: `SenderBefore` is a strict total order of the entries of
  any tree. Two paths part at siblings (`LeavesExists`, `LeavesSiblings`), and comparing paths is comparing those (`SenderBeforeIs`);
  that the sorted list exists and is the only one follows by taking a smallest set, or position, that would be an exception (`Smallest`, from the
  well-foundedness of the natural numbers).
* **TransferSessionProofs!KeepsTree** (`Spec => TreeKept`, an action property). `KeptInv` adds to the type that the
  sender's tree is one, that a list under way is not empty and has the directories above what
  it has (`ListsClosed`), hence that nothing the receiver means to delete lies at or above an
  entry that it has selected (`ExtrasApart`). It needs that the sources are trees, which
  `SessionAssumption` says.

* **TransferSessionProofs!Delivers** (`Spec => []Delivered`). What is under way must be known to be right and to be
  enough. `DelInv` adds to `KeptInv` that, as long as nobody edits, both lists, the requests and the answers say what
  the two trees say (`Truthful`); that of the DONE marker which ends the answers there is one, in `rOut`, in `toSender`, at the sender or on its way
  back, and that it is behind everything else (`Rounds`: `LastOnly`, `OneMarker`); and that every file which the
  receiver decided to transfer is yet to be asked for, is asked for, is being answered, or is written (`Progress`: `Placed`, `Written`),
  while the files that it does not transfer stay as they were (`Current`). When the receiver has read that marker nothing can be under way any more, so everything is written;
  the sender reports success only after goodbyes that the receiver sends after that. The three situations that are
  no success, a cut, a failed sender and a failed receiver, leave the statement about the past true.
* **TransferSessionProofs!MarkersCount** (`Spec => []MarkersAgree`). `AgreeInv` adds to `DelInv` what the two ends are in the middle
  of (`Talking`): as long as both run and are connected, everything on its way up and down, in an output queue or
  a stream (`Up`, `Down`), is what they have yet to say in one of three stages. While the list is exchanged it is
  at most one message (`Opening`). While files are, both lists have the same length, and positions rise
  along both directions, so that an answer cannot change the basis that another one was computed from
  (`Serving`, `BasisKept`). After the last answer the step of each end and its count of markers fix what is under way to
  the message (`Closing`). `NoAlarm` then says that a session which nothing disturbs (`Peace`) fails at the sender only after
  the receiver, and at the receiver only over a list that does not fit its tree (`Fits`). This needs that a path occurs
  once in a list, that nothing stands in the way above the destination root, and that what
  lies below the root is the destination, all in `SessionAssumption`.

* **FileTransferProofs!Invariant**, and from it **TargetIsSound** (`Spec => []TargetSound`),
  **BasisIsOnlyRead**, **FirstContentIsKept**, **RunsLeaveCleanly**, and the refinement
  **PlainTransferIsPut** (`Spec => ImplementsFilePut`). None of the properties is inductive:
  whether a rename puts the right content in place depends on what the copy before it
  read, from which inode, and on who else owns that inode. `IInv` says it place by place:
  which names may share an inode (`Unshared`) and that the files which are read are what
  they were (`Inputs`, `Basis`); what the copy in progress has written (`Jobs`: a prefix of what
  it reads, in a file that is nobody else's unless it is written in place); what is known
  when the run has come to a certain call (`Target`; a backup in progress counts as the
  step that follows it, since it does not touch the target); that the time of a version
  is only on a file that has its content (`Stamps`, which is why an equal time may be
  trusted by the next run); that a backup comes before the replacement
  (`FirstKept`); which temporary files may exist (`TempsKnown`); and that an append leaves a
  prefix of the source (`Appended`). A step of the program is taken apart by action and,
  for the writing, by the job it belongs to. The refinement follows from the same
  invariant: the rename of the temporary or staged file is `Put`, the end of a run is
  `Succeed` or `Fail`, a new run is `Rerun`, and every other step leaves what a reader of the
  target sees. It rests on `FileAssumption`: the settings are records of options of which
  a remote receiver has none of the local ones, and contents are sequences of bytes.

* **RemoteShellProofs!Invariant**, and from it **RetriesAreClean** (`Spec => []RetryIsClean`),
  **SidesAgree** (`Spec => []InAgreement`) and **OutcomesAreSound** (`Spec => []OutcomeSound`). The
  processes know nothing of each other but what is in the pipes, so the invariant is about
  the pipes. Both sides follow a script: `Out(k)` is the k-th message of the peer, `In(k)` the
  k-th of the client; which messages a script has depends only on the client's options, the
  peer and the attempt. `Got`, `Put`, `Said` and `Taken` say how far a process is that has come to a
  certain place, and `Incoming` and `Outgoing` that a pipe holds what lies between the two.
  Everything else is counting: the client has got beyond the seed, so the peer is beyond it and
  has made the same choices (`ClientKnows`, `PeerKnows`); a client that ends with an error which allows the
  second try has not written the list, so the peer cannot come to its first effect, dead or
  alive (`Clean`); a peer that leaves with 0 has been sent everything and has said everything
  (`Faultless`). A login shell that prints four bytes which happen to be a version says nothing
  after them (`Mute`). It rests on `ShellAssumption`: rsync starts with its version in four bytes, a
  daemon is only spoken to with protocol 31, and no server names a checksum "auto".

* **IncrementalPullProofs!NumbersAgree** (`Spec => []NumbersSound`) and **PullMirrors**
  (`Acks = "last" => (Spec => []PullSound)`). The client's list and the sender's grow at different times, so
  `NumbersInv` says that what is under way is exactly what is missing: the lists in `resp`, each with its first
  number, continue the client's list to the sender's (`Begins`, `Numbered`, `Counted`, with a running total). For the deletion,
  `PullInv` follows the requests: a list that has been sent is under way itself, or its DONE is in `req`, or the
  sender has taken that DONE (`Told`, `Asked`, `Dones`), so a sender that ends the phase has no request to answer and
  has sent the end of the list; and because every path is below `Top` (`TreeAssumption`), that
  list is then the whole source. Nothing of it is removed with an extraneous directory, because a path of the source
  is below directories of the source only (`BelowAssumption`). The hypothesis `Acks = "last"` is the sender of the
  repository's tests; rsync acknowledges each list that is finished, and for such a
  sender the claim is false, which is the run `incremental_early_done`.

* **DaemonLoginProofs!DaemonInvariant**, and from it **ConfigurationHolds** (`Spec => []ConfigSound`) and
  **LoginHolds** (`Spec => []LoginSound`). Both properties compare what the daemon does with what the text of
  its configuration says, so `ConfigInv` relates the two at every line: the modules so far are the sections of the
  lines read so far, in their order (`Follows`: a map from modules to opening lines), with the values that those
  lines have set (`ValueSoFar`); then, override by override, the first module of each name has what the
  first section and the overrides so far give it (`Follow`, `EffectiveIn`). That a name has a first module
  is kept along (`HasFirst`). For the clients, `ClientOK` says of each that it has not connected, waits in the backlog,
  is being served, or has been left. A client that is served is in one of six situations (`Served`), each of
  which fixes the daemon's step, the client's step and both streams; of one that has been left, the stream still holds
  exactly what will tell it the outcome it deserves (`Over`). The other clients are untouched by a step
  (`Away`, `Bystander`). A listing holds what was shown and what is under way, up to the module the daemon has come to
  (`Listing`). It rests on `DaemonAssumption`: lines and overrides set known keys to values of their kind, jobs are
  requests, and "none" names neither a client nor a user.

All hold for every tree, every content, every set of jobs or settings, every number of
faults, kills, runs and edits and every capacity. They rest on `TreeAssumption` and `DataAssumption` (ReceiverTree), `JobAssumption` and
`ApartAssumption` (LocalSync), `SessionAssumption` (TransferSession), `FileAssumption` (FileTransfer),
`ShellAssumption` (RemoteShell), `DaemonAssumption` (DaemonLogin) and `TreeAssumption`, `OrderAssumption`, `DestAssumption` and `BelowAssumption` (IncrementalPull), which TLC evaluates on every run that uses the module.

Everything else is model-checked only: liveness, which is out of the prover's reach; the
codecs, the matcher and the delta, which are about what recursive definitions compute
and are out of its reach as well (of `ListArrives`, `OneOrder` proves the part about the order, `OrderIsTotal`).

## 5. What is not modelled, and the plan

Left out of modelled components: `--keep-dirlinks`, `--one-file-system`, `--relative` and implied
directories, dir-merge files, the symlink modes of the walk, case collisions of a local
run, metadata other than times; directory times are one step that may fail and whose
values are not kept. Options that only set a number or a text are not in the tables.
The delta library (`rsync-delta`) and `RollingChecksum::roll` are modelled, but in the
repository only tests and benchmarks use them: the sender recomputes the weak checksum
at every position. `apply_receiver_deletes` gives `IncrementalReceiverState` the source as a single, last batch
(sync.rs:1950), and that use is in LocalSync; several batches, which only tests give it, are left out.
So are `wait_with_diagnostics_timeout`, which nothing calls, and what stands around `sync_tree` when there are
several sources or one is missing: `sync_sources`, `sync_multiple_sources` and, for
`--delete-missing-args`, `delete_missing_arg`. Where nothing is negotiated (`NoName` in RemoteShell), the default
checksum of either side is not compared.

Not modelled at all: Windows security, streams and snapshots, TCP options and
the bandwidth limit, output and logging, batch scripts, the metadata sidecar, chmod
arithmetic. They are calls of the Windows API, formatting, or functions of a single value,
without state that the transfer depends on.

What comes next:

1. TransferSession inside RemoteShell, in place of the data frames.
2. `--relative` and the symlink modes of the walk.
