-------------------------- MODULE TransferSession ---------------------------
(***************************************************************************)
(* One transfer between a sender and a receiver that talk over a pair of   *)
(* bounded byte streams, after the handshake (rsync-cli/src/remote and     *)
(* rsync-cli/src/daemon_server).                                           *)
(*                                                                         *)
(* A pull runs the receiver here (remote/pull.rs) against a daemon sender  *)
(* (serve_daemon_sender_protocol31) or a remote rsync; a push runs the     *)
(* sender here (remote/push.rs) against a daemon receiver                  *)
(* (serve_daemon_receiver_protocol31) or a remote rsync.  A remote rsync   *)
(* is taken to behave as its counterpart in this code does.                *)
(*                                                                         *)
(* The sender sends its list; the receiver deletes, makes directories and  *)
(* requests files by their position in the list; the sender answers with a *)
(* delta against the basis the request described; then both count DONE     *)
(* markers until they part.  Every end writes synchronously: it does       *)
(* nothing else until what it has to write fits into the stream.           *)
(***************************************************************************)
EXTENDS FileListOrder

CONSTANTS
    Jobs,       \* what a session may be asked to do
    Top,        \* the destination root, the entry "." of a list
    Versions,   \* Versions[p]: the contents that the file p ever has
    Sources,    \* the trees that a sender may offer
    Disks,      \* the trees that a receiver may start from
    Invalid,    \* names that Windows does not allow
    Capacity,   \* messages that a stream holds before a write blocks
    Calm,       \* bound: jobs in which nothing fails and nobody interferes
    MaxFaults,  \* bound: failures of the network, a process or a write
    MaxEdits    \* bound: changes that others make to either tree

UpdateModes == {"QuickCheck", "Checksum", "SizeOnly", "IgnoreTimes"}

Job ==
    [pull : BOOLEAN, peer : {"daemon", "shell"}, protocol : {27, 31},
     delete : BOOLEAN, dryRun : BOOLEAN, wholeFile : BOOLEAN, inPlace : BOOLEAN,
     preserveTimes : BOOLEAN, recursive : BOOLEAN, trustSender : BOOLEAN,
     update : UpdateModes, selected : SUBSET Path,
     filter : [Path -> {"include", "exclude", "hide", "protect"}]]

\* Dest is all that lies below the root, and nothing above the root is in the
\* way: the receiver makes the root without looking.
ASSUME SessionAssumption ==
    /\ Jobs \subseteq Job
    /\ \A j \in Jobs : j.peer = "daemon" => j.protocol = 31
    /\ Top \in Path \ Dest
    /\ Under[Top] = Dest
    /\ Versions \in [Path -> SUBSET Data]
    /\ Sources \cup Disks \subseteq Tree
    /\ \A f \in Sources \cup Disks : \A p \in Path :
         f[p].kind = "file" => f[p].data \in Versions[p]
    /\ \A f \in Sources : WellFormed(f)
    /\ \A f \in Disks : \A p \in Above(Top) : f[p].kind \in {"absent", "dir"}
    /\ Invalid \subseteq Path
    /\ Capacity \in Nat \ {0}
    /\ MaxFaults \in Nat
    /\ MaxEdits \in Nat

VARIABLES
    job,
    src,        \* the sender's tree
    fs,         \* the receiver's tree
    toSender,   \* the stream from the receiver to the sender
    toReceiver, \* the stream from the sender to the receiver
    cut,        \* the connection is lost
    sPc, sOut, sEntries, sMarks,
    rPc, rOut, rEntries, rRound,
    plan,       \* what the receiver still has to delete, make and request
    want,       \* the positions that the receiver decided to transfer
    faults, edits

sender == <<sPc, sOut, sEntries, sMarks>>
receiver == <<rPc, rOut, rEntries, rRound, plan, want>>
env == <<faults, edits>>
vars == <<job, src, fs, toSender, toReceiver, cut, sender, receiver, env>>

-----------------------------------------------------------------------------
(* Messages                                                                *)

Marker == [type |-> "marker"]
Done == [type |-> "done"]
Stats == [type |-> "stats"]

\* basis is the file the signatures describe, or Absent
RequestMsg ==
    [type : {"request"}, index : Nat, transfer : BOOLEAN, basis : Node]

\* copies: the delta refers to blocks of the basis, of those in which the
\* contents of the file differ
FileMsg ==
    [type : {"file"}, index : Nat, transfer : BOOLEAN, data : Data \cup {Torn},
     copies : BOOLEAN, basis : Node]

ListMsg == [type : {"list"}, entries : {S \in SUBSET Entry : IsFiniteSet(S)}]

ToSenderMsg == {Marker, Done} \cup RequestMsg
ToReceiverMsg == {Marker, Done, Stats} \cup ListMsg \cup FileMsg

Ended(pc) == pc \in {"done", "failed"}

\* phase_markers: how many DONE markers end the request loop
Phases == IF job.protocol = 31 THEN 3 ELSE 2

\* The daemon sender writes statistics, and so does every sender of protocol
\* 27; the push client of protocol 31 does not.
HasStats == job.pull \/ job.protocol = 27

\* Protocol 27 has no flags: every position stands for a transfer.
NeedsFile(m) == m.transfer \/ job.protocol = 27

-----------------------------------------------------------------------------
(* The two streams                                                         *)

\* A write waits for room; it fails when the other end is gone.
SenderWrites ==
    /\ sOut # <<>>
    /\ ~Ended(rPc) /\ ~cut
    /\ Len(toReceiver) < Capacity
    /\ toReceiver' = Append(toReceiver, Head(sOut))
    /\ sOut' = Tail(sOut)
    /\ UNCHANGED <<job, src, fs, toSender, cut, sPc, sEntries, sMarks, receiver, env>>

ReceiverWrites ==
    /\ rOut # <<>>
    /\ ~Ended(sPc) /\ ~cut
    /\ Len(toSender) < Capacity
    /\ toSender' = Append(toSender, Head(rOut))
    /\ rOut' = Tail(rOut)
    /\ UNCHANGED <<job, src, fs, toReceiver, cut, sender, rPc, rEntries, rRound,
                   plan, want, env>>

SenderFails ==
    /\ sPc' = "failed" /\ sOut' = <<>>
    /\ UNCHANGED <<sEntries, sMarks>>

ReceiverFails ==
    /\ rPc' = "failed" /\ rOut' = <<>>
    /\ UNCHANGED <<rEntries, rRound, plan, want>>

SenderReading == sOut = <<>> /\ sPc \in {"marker", "serve", "goodbye", "adieu"}
                 /\ (sPc = "marker" => job.pull)
ReceiverReading == rOut = <<>> /\ rPc \in {"marker", "list", "receive", "ack", "stats", "bye"}
                   /\ (rPc = "marker" => ~job.pull)

\* A read meets the end of the stream, a write a closed one.
SenderDisconnected ==
    /\ ~Ended(sPc)
    /\ Ended(rPc) \/ cut
    /\ sOut # <<>> \/ (SenderReading /\ toSender = <<>>)
    /\ SenderFails
    /\ UNCHANGED <<job, src, fs, toSender, toReceiver, cut, receiver, env>>

ReceiverDisconnected ==
    /\ ~Ended(rPc)
    /\ Ended(sPc) \/ cut
    /\ rOut # <<>> \/ (ReceiverReading /\ toReceiver = <<>>)
    /\ ReceiverFails
    /\ UNCHANGED <<job, src, fs, toSender, toReceiver, cut, sender, env>>

\* The rest of a step of the sender or the receiver.
SenderStays == UNCHANGED <<job, src, fs, toReceiver, cut, receiver, env>>
ReceiverStays == UNCHANGED <<job, src, toSender, cut, sender, env>>

-----------------------------------------------------------------------------
(* The sender                                                              *)

\* A push with deletions starts with a marker; a pull waits for one.
SenderSendsMarker ==
    /\ sPc = "marker" /\ ~job.pull
    /\ sOut' = IF job.delete THEN <<Marker>> ELSE <<>>
    /\ sPc' = "collect"
    /\ UNCHANGED <<sEntries, sMarks, toSender>>
    /\ SenderStays

SenderTakes ==
    /\ SenderReading /\ toSender # <<>>
    /\ toSender' = Tail(toSender)

SenderReadsMarker ==
    /\ sPc = "marker" /\ SenderTakes
    /\ IF Head(toSender) = Marker
         THEN sPc' = "collect" /\ UNCHANGED <<sOut, sEntries, sMarks>>
         ELSE SenderFails
    /\ SenderStays

\* The client applies --files-from; a daemon does not see it.
Offered ==
    {Top} \cup SourceEntries(src, job.filter, IF job.pull THEN Path ELSE job.selected,
                             job.recursive)

\* What the walk meets: it descends into the directories that it offers.
Walked ==
    {p \in Dest : /\ Exists(src, p)
                  /\ job.recursive \/ Above(p) \cap Dest = {}
                  /\ Above(p) \subseteq Offered}

\* The push of protocol 27 leaves its list in the order of the walk, and takes
\* the remote rsync to do the same.
Unsorted == ~job.pull /\ job.protocol = 27

\* Mutant: the list is served in the order of the walk
SenderOrdersCollected(S) == InCollectedOrder(S)

\* Over a remote shell the sender sorts as the receiver will; towards a daemon,
\* and as a daemon, it does not sort.
SenderOrders(S) ==
    IF job.peer = "daemon" \/ Unsorted THEN InCollectedOrder(S) ELSE InIndexOrder(S)

\* The walk refuses anything but files and directories, filtered or not.
Collect ==
    /\ sPc = "collect" /\ sOut = <<>>
    /\ IF \E p \in Walked : src[p].kind \notin {"dir", "file"}
         THEN SenderFails
         ELSE LET S == {EntryOf(src, p) : p \in Offered}
              IN  /\ \E list \in SenderOrders(S) : sEntries' = list
                  /\ sOut' = <<[type |-> "list", entries |-> S]>>
                  /\ sPc' = "serve"
                  /\ UNCHANGED sMarks
    /\ UNCHANGED toSender
    /\ SenderStays

\* Mutant: the loop ends one marker early
ServeDoneEarly ==
    /\ sPc = "serve"
    /\ SenderTakes /\ Head(toSender) = Done
    /\ sMarks' = sMarks + 1
    /\ LET last == sMarks' = Phases - 1
       IN  /\ sOut' = <<Done>> \o (IF last /\ HasStats THEN <<Stats>> ELSE <<>>)
           /\ sPc' = IF last THEN "goodbye" ELSE "serve"
    /\ UNCHANGED sEntries
    /\ SenderStays

\* Mutant: only the last marker is answered
ServeDoneSilent ==
    /\ sPc = "serve"
    /\ SenderTakes /\ Head(toSender) = Done
    /\ sMarks' = sMarks + 1
    /\ LET last == sMarks' = Phases
       IN  /\ sOut' = IF last THEN <<Done>> \o (IF HasStats THEN <<Stats>> ELSE <<>>) ELSE <<>>
           /\ sPc' = IF last THEN "goodbye" ELSE "serve"
    /\ UNCHANGED sEntries
    /\ SenderStays

\* Every marker is answered; the last one ends the loop and is followed by
\* the statistics.
ServeDone ==
    /\ sPc = "serve"
    /\ SenderTakes /\ Head(toSender) = Done
    /\ sMarks' = sMarks + 1
    /\ LET last == sMarks' = Phases
       IN  /\ sOut' = <<Done>> \o (IF last /\ HasStats THEN <<Stats>> ELSE <<>>)
           /\ sPc' = IF last THEN "goodbye" ELSE "serve"
    /\ UNCHANGED sEntries
    /\ SenderStays

\* The answer to request m for the file at p of the sender.
Answers(m, p) ==
    {[type |-> "file", index |-> m.index, transfer |-> TRUE, data |-> src[p].data,
      copies |-> c, basis |-> m.basis] :
        c \in {b \in BOOLEAN : b => m.basis.kind = "file"}}

Echo(m) ==
    [type |-> "file", index |-> m.index, transfer |-> m.transfer, data |-> NoData,
     copies |-> FALSE, basis |-> Absent]

\* A request is checked against the sender's own list: its range, its kind,
\* and that the file can still be opened.
ServeRequest ==
    /\ sPc = "serve"
    /\ SenderTakes /\ Head(toSender) # Done
    /\ LET m == Head(toSender)
           e == sEntries[m.index]
       IN  IF \/ m.type # "request"
              \/ m.index \notin DOMAIN sEntries
              \/ NeedsFile(m) /\ e.kind # "file"
              \/ m.transfer /\ src[e.path].kind # "file"
             THEN SenderFails
             ELSE /\ IF m.transfer /\ ~job.dryRun
                       THEN \E a \in Answers(m, e.path) : sOut' = <<a>>
                       ELSE sOut' = <<Echo(m)>>
                  /\ UNCHANGED <<sPc, sEntries, sMarks>>
    /\ SenderStays

\* Mutant: the last goodbye is answered too
ReadGoodbyeAnswered ==
    /\ sPc \in {"goodbye", "adieu"}
    /\ SenderTakes
    /\ LET again == sPc = "goodbye" /\ job.protocol = 31
       IN  IF Head(toSender) # Done THEN SenderFails
           ELSE /\ sPc' = IF again THEN "adieu" ELSE "done"
                /\ sOut' = <<Done>>
                /\ UNCHANGED <<sEntries, sMarks>>
    /\ SenderStays

\* The two goodbyes of protocol 31, the one of protocol 27.
ReadGoodbye ==
    /\ sPc \in {"goodbye", "adieu"}
    /\ SenderTakes
    /\ LET again == sPc = "goodbye" /\ job.protocol = 31
       IN  IF Head(toSender) # Done THEN SenderFails
           ELSE /\ sPc' = IF again THEN "adieu" ELSE "done"
                /\ sOut' = IF again THEN <<Done>> ELSE <<>>
                /\ UNCHANGED <<sEntries, sMarks>>
    /\ SenderStays

-----------------------------------------------------------------------------
(* The receiver                                                            *)

ReceiverSendsMarker ==
    /\ rPc = "marker" /\ job.pull
    /\ rOut' = <<Marker>>
    /\ rPc' = "list"
    /\ UNCHANGED <<rEntries, rRound, plan, want, fs, toReceiver>>
    /\ ReceiverStays

\* Only a push with deletions announces itself.
ReceiverExpectsList ==
    /\ rPc = "marker" /\ ~job.pull /\ ~job.delete
    /\ rPc' = "list"
    /\ UNCHANGED <<rOut, rEntries, rRound, plan, want, fs, toReceiver>>
    /\ ReceiverStays

ReceiverTakes ==
    /\ ReceiverReading /\ toReceiver # <<>>
    /\ toReceiver' = Tail(toReceiver)

ReceiverReadsMarker ==
    /\ rPc = "marker" /\ job.delete
    /\ ReceiverTakes
    /\ IF Head(toReceiver) = Marker
         THEN rPc' = "list" /\ UNCHANGED <<rOut, rEntries, rRound, plan, want>>
         ELSE ReceiverFails
    /\ UNCHANGED fs
    /\ ReceiverStays

\* validate_remote_file_list_paths, and for a pull validate_remote_sender_claims:
\* a name that a rule of either side filters was not asked for.
Acceptable(S) ==
    /\ \A e \in S : e.path \notin Invalid
    /\ job.pull /\ ~job.trustSender =>
         \A e \in S : /\ ~SenderPathIsFiltered(e.path, job.filter)
                      /\ ~DeleteIsProtected(e.path, job.filter, FALSE)

\* selected_remote_entry_indexes
Selected(e) ==
    \/ e.path = Top
    \/ /\ ~SenderPathIsFiltered(e.path, job.filter)
       /\ job.pull => FilesFromMatches(e.path, job.selected)

\* Mutant: a target that is not a file is taken for up to date
RemoteFileNeedsUpdateFilesOnly(e, t) ==
    t.kind = "file" /\ e.data # t.data

\* remote_file_needs_update
RemoteFileNeedsUpdate(e, t) ==
    \/ t.kind # "file"
    \/ job.update = "IgnoreTimes"
    \/ job.update \in {"SizeOnly", "QuickCheck"} /\ Size[e.data] # Size[t.data]
    \/ job.update = "QuickCheck" /\ e.mtime # t.mtime
    \/ job.update = "Checksum" /\ e.data # t.data

\* Mutant: directories are not kept
LocalExtrasFilesKept(S) ==
    {p \in Dest : /\ Exists(fs, p)
                  /\ job.pull => FilesFromMatches(p, job.selected)
                  /\ ~DeleteIsProtected(p, job.filter, FALSE)
                  /\ \A e \in S : Selected(e) /\ e.kind = "file" => e.path # p}

\* delete_local_extras
LocalExtras(S) ==
    {p \in Dest : /\ Exists(fs, p)
                  /\ job.pull => FilesFromMatches(p, job.selected)
                  /\ ~DeleteIsProtected(p, job.filter, FALSE)
                  /\ \A e \in S : Selected(e) => e.path # p}

\* Mutant: a dry run is not asked for
EffectAlways(f) == f

\* if !dry_run
Effect(f) == IF job.dryRun THEN fs ELSE f

\* sort_remote_entries_for_sender_indexes
ReceiverOrders(S) == IF Unsorted THEN InCollectedOrder(S) ELSE InIndexOrder(S)

\* Mutant: positions are one too high
NeededNext(list) ==
    {i + 1 : i \in {k \in DOMAIN list :
        LET e == list[k]
        IN  Selected(e) /\ e.kind = "file" /\ RemoteFileNeedsUpdate(e, fs[e.path])}}

\* selected_remote_transfer_indexes, of which only files are requested
Needed(list) ==
    {i \in DOMAIN list :
        LET e == list[i]
        IN  Selected(e) /\ e.kind = "file" /\ RemoteFileNeedsUpdate(e, fs[e.path])}

\* Sort, validate, select, compare with the tree, make the destination root.
\* Nothing is touched when the list is refused.
ReadList ==
    /\ rPc = "list"
    /\ ReceiverTakes
    /\ LET m == Head(toReceiver)
       IN  IF m.type # "list" \/ ~Acceptable(m.entries)
             THEN ReceiverFails /\ UNCHANGED fs
             ELSE \E list \in ReceiverOrders(m.entries) :
                  /\ rEntries' = list
                  /\ want' = Needed(list)
                  /\ plan' = [extras |-> IF job.delete THEN LocalExtras(m.entries) ELSE {},
                              dirs |-> {i \in DOMAIN list : /\ Selected(list[i])
                                                            /\ list[i].kind = "dir"
                                                            /\ list[i].path # Top},
                              ask |-> want']
                  /\ rPc' = "prepare"
                  /\ fs' = IF Exists(fs, Top) THEN fs ELSE Effect(MakeDir(fs, Top))
                  /\ UNCHANGED <<rOut, rRound>>
    /\ ReceiverStays

\* Deletions come first, the deepest first.
DeleteExtra ==
    /\ rPc = "prepare"
    /\ \E p \in plan.extras :
         /\ \A q \in plan.extras \ {p} : DeletedBefore(p, q)
         /\ fs' = Effect(RemoveTree(fs, p))
         /\ plan' = [plan EXCEPT !.extras = @ \ {p}]
    /\ UNCHANGED <<rPc, rOut, rEntries, rRound, want, toReceiver>>
    /\ ReceiverStays

Earliest(S, i) == i \in S /\ \A k \in S : i <= k

\* create_dir_all fails over a file.
MakeListedDir ==
    /\ rPc = "prepare" /\ plan.extras = {}
    /\ \E i \in plan.dirs :
         /\ Earliest(plan.dirs, i)
         /\ IF job.dryRun \/ CanMakeDir(fs, rEntries[i].path)
              THEN /\ fs' = Effect(MakeDir(fs, rEntries[i].path))
                   /\ plan' = [plan EXCEPT !.dirs = @ \ {i}]
                   /\ UNCHANGED <<rPc, rOut, rEntries, rRound, want>>
              ELSE ReceiverFails /\ UNCHANGED fs
    /\ UNCHANGED toReceiver
    /\ ReceiverStays

Prepared ==
    /\ rPc = "prepare" /\ plan.extras = {} /\ plan.dirs = {}
    /\ rPc' = "request"
    /\ UNCHANGED <<rOut, rEntries, rRound, plan, want, fs, toReceiver>>
    /\ ReceiverStays

\* local_basis_signature_request
Basis(p) == IF ~job.wholeFile /\ fs[p].kind = "file" THEN fs[p] ELSE Absent

\* Every request is written before any answer is read.
RequestFile ==
    /\ rPc = "request" /\ rOut = <<>>
    /\ \E i \in plan.ask :
         /\ Earliest(plan.ask, i)
         /\ rOut' = <<[type |-> "request", index |-> i, transfer |-> ~job.dryRun,
                       basis |-> IF job.dryRun THEN Absent ELSE Basis(rEntries[i].path)]>>
         /\ plan' = [plan EXCEPT !.ask = @ \ {i}]
    /\ UNCHANGED <<rPc, rEntries, rRound, want, fs, toReceiver>>
    /\ ReceiverStays

RequestsDone ==
    /\ rPc = "request" /\ rOut = <<>> /\ plan.ask = {}
    /\ rOut' = <<Done>>
    /\ rPc' = "receive"
    /\ UNCHANGED <<rEntries, rRound, plan, want, fs, toReceiver>>
    /\ ReceiverStays

\* Mutant: the checksum over the rebuilt file is not compared
RebuildsUnchecked(m, e, t) ==
    /\ m.basis.kind = "file" => t.kind = "file"
    /\ Size[m.data] = Size[e.data]

\* The delta gives the sender's content when the basis is still the one the
\* signatures describe; the length and the checksum tell whether it did.
Rebuilds(m, e, t) ==
    /\ m.basis.kind = "file" => t.kind = "file"
    /\ Size[m.data] = Size[e.data]
    /\ m.copies => t.data = m.basis.data

\* What the delta gives when nothing tells that the basis has changed.
Rebuilt(m, t) == IF m.copies /\ t.data # m.basis.data THEN Torn ELSE m.data

\* write_received_file_from_path and preserve_remote_mtime
Received(m, e) ==
    Put(fs, e.path, File(Rebuilt(m, fs[e.path]), IF job.preserveTimes THEN e.mtime ELSE Now))

\* An answer that is out of range, for no file, or that does not rebuild
\* ends the session; an answer without data is only counted.
ReceiveFile ==
    /\ rPc = "receive"
    /\ ReceiverTakes /\ Head(toReceiver) # Done
    /\ LET m == Head(toReceiver)
           e == rEntries[m.index]
       IN  IF \/ m.type # "file"
              \/ m.index \notin DOMAIN rEntries
              \/ NeedsFile(m) /\ e.kind # "file"
              \/ m.transfer /\ ~job.dryRun /\ ~(Rebuilds(m, e, fs[e.path]) /\ CanPut(fs, e.path))
             THEN ReceiverFails /\ UNCHANGED fs
             ELSE /\ fs' = IF m.transfer /\ ~job.dryRun THEN Received(m, e) ELSE fs
                  /\ UNCHANGED <<rPc, rOut, rEntries, rRound, plan, want>>
    /\ ReceiverStays

\* The write of an answer fails: an atomic write leaves the old file, or the
\* new one without its time; --inplace leaves a torn one.
ReceiveFileFails ==
    /\ rPc = "receive" /\ job \notin Calm /\ faults < MaxFaults
    /\ ReceiverTakes
    /\ LET m == Head(toReceiver)
           e == rEntries[m.index]
       IN  /\ m.type = "file" /\ m.index \in DOMAIN rEntries
           /\ m.transfer /\ ~job.dryRun /\ e.kind = "file"
           /\ Rebuilds(m, e, fs[e.path]) /\ CanPut(fs, e.path)
           /\ fs' \in {fs, Put(fs, e.path, File(m.data, Now))} \cup
                      (IF job.inPlace THEN {Put(fs, e.path, File(Torn, Now))} ELSE {})
    /\ ReceiverFails
    /\ faults' = faults + 1
    /\ UNCHANGED <<job, src, toSender, cut, sender, edits>>

\* After round n the receiver turns to the next marker, the statistics or
\* the goodbyes.
AfterRound(n) ==
    IF n < Phases
      THEN /\ rPc' = "ack" /\ rRound' = n + 1 /\ rOut' = <<Done>>
      ELSE /\ rRound' = n
           /\ IF HasStats THEN rPc' = "stats" /\ rOut' = <<>>
                          ELSE rPc' = "bye" /\ rOut' = <<Done>>

ReceiveDone ==
    /\ rPc = "receive"
    /\ ReceiverTakes /\ Head(toReceiver) = Done
    /\ AfterRound(1)
    /\ UNCHANGED <<rEntries, plan, want, fs>>
    /\ ReceiverStays

\* InvalidPhaseAck, InvalidFinalAck
ReadAck ==
    /\ rPc = "ack"
    /\ ReceiverTakes
    /\ IF Head(toReceiver) = Done THEN AfterRound(rRound) /\ UNCHANGED <<rEntries, plan, want>>
                                  ELSE ReceiverFails
    /\ UNCHANGED fs
    /\ ReceiverStays

\* The statistics; the goodbye of protocol 27 has no answer.
ReadStats ==
    /\ rPc = "stats"
    /\ ReceiverTakes
    /\ IF Head(toReceiver) = Stats
         THEN /\ rPc' = IF job.protocol = 31 THEN "bye" ELSE "last"
              /\ rOut' = <<Done>>
              /\ UNCHANGED <<rEntries, rRound, plan, want>>
         ELSE ReceiverFails
    /\ UNCHANGED fs
    /\ ReceiverStays

ReadGoodbyeAck ==
    /\ rPc = "bye"
    /\ ReceiverTakes
    /\ IF Head(toReceiver) = Done
         THEN rPc' = "last" /\ rOut' = <<Done>> /\ UNCHANGED <<rEntries, rRound, plan, want>>
         ELSE ReceiverFails
    /\ UNCHANGED fs
    /\ ReceiverStays

ReceiverEnds ==
    /\ rPc = "last" /\ rOut = <<>>
    /\ rPc' = "done"
    /\ UNCHANGED <<rOut, rEntries, rRound, plan, want, fs, toReceiver>>
    /\ ReceiverStays

-----------------------------------------------------------------------------
(* What goes wrong around the session                                      *)

Cut ==
    /\ job \notin Calm /\ faults < MaxFaults /\ ~cut
    /\ ~Ended(sPc) \/ ~Ended(rPc)
    /\ cut' = TRUE
    /\ toSender' = <<>> /\ toReceiver' = <<>>
    /\ faults' = faults + 1
    /\ UNCHANGED <<job, src, fs, sender, receiver, edits>>

\* A kill, a deadline (check_transfer_deadline) or a local error.
SenderAborts ==
    /\ job \notin Calm /\ faults < MaxFaults /\ ~Ended(sPc)
    /\ SenderFails
    /\ faults' = faults + 1
    /\ UNCHANGED <<job, src, fs, toSender, toReceiver, cut, receiver, edits>>

ReceiverAborts ==
    /\ job \notin Calm /\ faults < MaxFaults /\ ~Ended(rPc)
    /\ ReceiverFails
    /\ faults' = faults + 1
    /\ UNCHANGED <<job, src, fs, toSender, toReceiver, cut, sender, edits>>

\* Others write to a file of either tree while the session runs.
Edit ==
    /\ job \notin Calm /\ edits < MaxEdits
    /\ ~Ended(sPc) /\ ~Ended(rPc)
    /\ edits' = edits + 1
    /\ \E p \in Dest : \E d \in Versions[p], t \in Stamp :
         \/ /\ src[p].kind = "file" /\ d # src[p].data
            /\ src' = [src EXCEPT ![p] = File(d, t)]
            /\ UNCHANGED fs
         \/ /\ fs[p].kind = "file" /\ d # fs[p].data
            /\ fs' = [fs EXCEPT ![p] = File(d, t)]
            /\ UNCHANGED src
    /\ UNCHANGED <<job, toSender, toReceiver, cut, sender, receiver, faults>>

-----------------------------------------------------------------------------
Init ==
    /\ job \in Jobs
    /\ src \in Sources
    /\ fs \in Disks
    /\ toSender = <<>> /\ toReceiver = <<>> /\ cut = FALSE
    /\ sPc = "marker" /\ sOut = <<>> /\ sEntries = <<>> /\ sMarks = 0
    /\ rPc = "marker" /\ rOut = <<>> /\ rEntries = <<>> /\ rRound = 0
    /\ plan = [extras |-> {}, dirs |-> {}, ask |-> {}]
    /\ want = {}
    /\ faults = 0 /\ edits = 0

SenderStep ==
    \/ SenderSendsMarker \/ SenderReadsMarker \/ Collect
    \/ ServeDone \/ ServeRequest \/ ReadGoodbye
    \/ SenderWrites \/ SenderDisconnected

ReceiverStep ==
    \/ ReceiverSendsMarker \/ ReceiverExpectsList \/ ReceiverReadsMarker
    \/ ReadList \/ DeleteExtra \/ MakeListedDir \/ Prepared
    \/ RequestFile \/ RequestsDone
    \/ ReceiveFile \/ ReceiveDone
    \/ ReadAck \/ ReadStats \/ ReadGoodbyeAck \/ ReceiverEnds
    \/ ReceiverWrites \/ ReceiverDisconnected

Next ==
    \/ SenderStep \/ ReceiverStep
    \/ ReceiveFileFails \/ Cut \/ SenderAborts \/ ReceiverAborts \/ Edit

Spec == Init /\ [][Next]_vars

\* Each end runs on: it is one thread that does one thing after the other.
FairSpec == Spec /\ WF_vars(SenderStep) /\ WF_vars(ReceiverStep)

-----------------------------------------------------------------------------
(* Properties                                                              *)

TypeOK ==
    /\ job \in Jobs
    /\ src \in Tree /\ fs \in Tree
    /\ toSender \in Seq(ToSenderMsg) /\ rOut \in Seq(ToSenderMsg)
    /\ toReceiver \in Seq(ToReceiverMsg) /\ sOut \in Seq(ToReceiverMsg)
    /\ sPc \in {"marker", "collect", "serve", "goodbye", "adieu", "done", "failed"}
    /\ rPc \in {"marker", "list", "prepare", "request", "receive", "ack", "stats", "bye",
                "last", "done", "failed"}
    /\ sEntries \in Seq(Entry) /\ rEntries \in Seq(Entry)
    /\ sMarks \in Nat /\ rRound \in Nat
    /\ plan \in [extras : SUBSET Dest, dirs : SUBSET Nat, ask : SUBSET Nat]
    /\ plan.dirs \subseteq DOMAIN rEntries /\ plan.ask \subseteq want
    /\ want \subseteq DOMAIN rEntries
    /\ cut \in BOOLEAN
    /\ faults \in 0 .. MaxFaults /\ edits \in 0 .. MaxEdits

\* The two ends put the same file at the same position.
SameOrder ==
    \A i \in DOMAIN sEntries \cap DOMAIN rEntries : sEntries[i].path = rEntries[i].path

\* What is in a file of the receiver is a content of that file, never that
\* of another file nor a mixture: requests and answers name files by position
\* only, and deltas are applied to a basis that may have changed since.
\* (checked_file_index, read_file_tokens_to_path_with_basis)
RightFile ==
    \A p \in Dest : fs[p].kind = "file" =>
        fs[p].data \in Versions[p] \cup (IF job.inPlace THEN {Torn} ELSE {})

\* The same where both ends order the list alike.
RightFileIfSameOrder == SameOrder => RightFile

\* Over a remote shell they do, for any tree: both sort the same list, and
\* there is only one way to.  (sort_remote_source_entries_for_sender_indexes,
\* sort_remote_entries_for_sender_indexes)
ShellSorts == job.peer = "shell" => SameOrder

\* A position means one file: a session never puts the content of a file under
\* another name where both ends order the list alike, and over a remote shell
\* they do.
PositionsRight == RightFileIfSameOrder /\ ShellSorts

\* When either end reports success, every file of the list that the receiver
\* selected is there and is up to date, and one that it decided to transfer has
\* the content and the time of the list: no answer was lost, and the markers
\* were not counted past one.  (An edit in between is delivered or refused, see
\* RightFile.)
Delivered ==
    (sPc = "done" \/ rPc = "done") /\ ~job.dryRun /\ edits = 0 /\ SameOrder =>
        \A i \in DOMAIN rEntries :
            LET e == rEntries[i]
                t == fs[e.path]
            IN  Selected(e) /\ e.kind = "file" =>
                  /\ t.kind = "file"
                  /\ job.update # "IgnoreTimes" => Size[t.data] = Size[e.data]
                  /\ job.update = "Checksum" => t.data = e.data
                  /\ i \in want =>
                       t = File(e.data, IF job.preserveTimes THEN e.mtime ELSE Now)

\* A session in which nothing goes wrong, whose list is acceptable and fits
\* the receiver's tree, fails at neither end: both agree on the number of
\* markers, on who sends statistics and on what a position means.
NoFalseAlarm ==
    /\ faults = 0 /\ edits = 0 /\ SameOrder
    /\ \A p \in Walked : src[p].kind \in {"dir", "file"}
    /\ \A p \in Offered : /\ Acceptable({EntryOf(src, p)})
                          /\ src[p].kind = "dir" => fs[p].kind \in {"absent", "dir"}
                          /\ src[p].kind = "file" => fs[p].kind \in {"absent", "file"}
    => sPc # "failed" /\ rPc # "failed"

\* When both ends are through, nothing is left in the streams: the next use
\* of the connection would start in the middle of a message.
NothingLeftOver ==
    sPc = "done" /\ rPc = "done" =>
        toSender = <<>> /\ toReceiver = <<>> /\ sOut = <<>> /\ rOut = <<>>

\* Both ends count markers, statistics and goodbyes alike: a session that
\* nothing disturbs does not fail, and leaves the streams empty.
MarkersAgree == NoFalseAlarm /\ NothingLeftOver

\* The receiver removes nothing that the list offers, whether the session
\* succeeds or not (delete_local_extras).
OfferedKept ==
    [][\A i \in DOMAIN rEntries :
          LET p == rEntries[i].path
          IN  Selected(rEntries[i]) /\ Exists(fs, p) => Exists(fs', p)]_vars

\* The receiver's tree is only touched once the whole list has been accepted,
\* and never by a dry run.
NothingTouched ==
    [][job.dryRun \/ rEntries' = <<>> => edits' # edits \/ fs' = fs]_vars

\* What a session may do to the receiver's tree: nothing before the list is
\* accepted, and then no removal of what it offers.
TreeKept == OfferedKept /\ NothingTouched

\* Neither end waits for room while the other does too: the receiver writes
\* all its requests before it reads an answer.
NotStuck ==
    ~(/\ ~cut /\ ~Ended(sPc) /\ ~Ended(rPc)
      /\ sOut # <<>> /\ Len(toReceiver) >= Capacity
      /\ rOut # <<>> /\ Len(toSender) >= Capacity)

\* Both ends come to an end, whatever fails.
BothEnd == <>(Ended(sPc) /\ Ended(rPc))
=============================================================================
