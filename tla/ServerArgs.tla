----------------------------- MODULE ServerArgs ------------------------------
(***************************************************************************)
(* How a client tells a daemon of this project what to do, and whether the *)
(* two then speak the same language.                                       *)
(*                                                                         *)
(* The client turns its Cli into server options (plan/remote_args.rs) and  *)
(* those into arguments (rsync-protocol/src/session.rs); the daemon folds  *)
(* the arguments into its DaemonTransferArgs (daemon_server/mod.rs).  From *)
(* there on each end reads and writes the stream by its own record: the    *)
(* client by its plan, the daemon by the arguments.  No field of the       *)
(* stream says which optional parts follow, so the records must agree.     *)
(***************************************************************************)
EXTENDS CommandLine

VARIABLES
    direction,  \* what the operands make of the command: a pull or a push
    stage,      \* "parsing" -> "sent" -> "served", or "refused"
    argv,       \* the arguments on the wire
    server      \* the daemon's DaemonTransferArgs

vars == <<args, cli, direction, stage, argv, server>>

Path == "P"     \* the path that the user named in the module

Push == direction = "Push"

If(condition, arg) == IF condition THEN <<arg>> ELSE <<>>

\* daemon_remote_shell_options_from_cli and append_remote_shell_long_options:
\* the options in the order in which they go out.  The update modes and
\* --append-verify are the receiver's business, so a pull keeps them here.
LongArgs(c) ==
    If("checksum" \in c, "--checksum") \o
    If(PreservePermissions(c), "--perms") \o
    If(PreserveOwner(c), "--owner") \o
    If(PreserveGroup(c), "--group") \o
    If(Push /\ "size_only" \in c, "--size-only") \o
    If(Push /\ "ignore_times" \in c, "--ignore-times") \o
    If(Push /\ "inplace" \in c, "--inplace") \o
    If(Push /\ "append_verify" \in c, "--append-verify") \o
    If("numeric_ids" \in c, "--numeric-ids") \o
    If("user_maps" \in c, "--usermap=M") \o
    If("chown_user" \in c, "--chown=U") \o
    If("chown_group" \in c, "--chown=:G") \o
    If("acls" \in c, "--acls") \o
    If("xattrs" \in c \/ "fake_super" \in c, "--xattrs") \o
    If("fake_super" \in c, "--fake-super") \o
    If("atimes" \in c, "--atimes") \o
    If("crtimes" \in c, "--crtimes") \o
    If(Push /\ SymlinkMode(c) = "Preserve", "--links") \o
    If(~Push /\ SymlinkMode(c) = "CopyAll", "--copy-links") \o
    If(Push /\ SymlinkMode(c) = "SafeOnly", "--safe-links") \o
    If(PreserveDevices(c), "--devices") \o
    If(PreserveSpecials(c), "--specials") \o
    If("compress" \in c, "--compress") \o
    If("compress" \in c,
       IF "compress_choice" \in c THEN "--compress-choice=zlib" ELSE "--compress-choice=zlibx") \o
    If("compress_level" \in c, "--compress-level=N") \o
    If("skip_compress" \in c, "--skip-compress=S")

\* remote_delete_mode and append_remote_delete_option
DeleteArg(c) ==
    IF c \cap DeleteModes # {}
    THEN <<CHOOSE a \in {"--delete-before", "--delete-during", "--delete-delay", "--delete-after"} :
             OptionTable[IF a = "--delete-during" THEN "--delete" ELSE a].on \cap c \cap DeleteModes # {}>>
    ELSE If("delete" \in c, "--delete-during")

\* The letters of the one short argument of protocol 31, behind "e." the
\* capabilities, among which no letter has a meaning for the daemon.
ShortArgs(c) ==
    If("dry_run" \in c, "-n") \o
    If("whole_file" \in c /\ ~(Push /\ "append_verify" \in c), "-W") \o
    If(PreserveTimes(c), "-t") \o
    If(Recursive(c), "-r")

\* build_remote_shell_protocol31_invocation_for_paths
FullArgv(c) ==
    <<"--server">> \o If(~Push, "--sender") \o DeleteArg(c) \o
    If(Recursive(c), "--no-inc-recursive") \o LongArgs(c) \o ShortArgs(c) \o <<".", Path>>

\* remote_shell_invocation_for_argv: under --secluded-args the arguments go
\* into a list of their own, which only remote shells are ever sent.
ClientArgv(c) ==
    IF "secluded_args" \in c
    THEN <<"--server">> \o If(~Push, "--sender") \o <<"-s">>
    ELSE FullArgv(c)

\* DaemonTransferArgs::parse before the first argument
DefaultTransferArgs ==
    [sender |-> FALSE, paths |-> <<>>, afterDot |-> FALSE, recursive |-> FALSE,
     dryRun |-> FALSE, wholeFile |-> FALSE, preserveTimes |-> FALSE, update |-> "QuickCheck",
     delete |-> FALSE, appendVerify |-> FALSE, compression |-> "none", lists |-> {}]

\* Mutant: every mention of compression sets the mode again.
EnsureCompressionAgain(t) == [t EXCEPT !.compression = "zlibx"]

\* Mutant: only --compress-choice turns compression on.
EnsureCompressionNever(t) == t

\* The first mention of compression settles the mode, unless it is chosen.
EnsureCompression(t) ==
    [t EXCEPT !.compression = IF @ = "none" THEN "zlibx" ELSE @]

\* DaemonTransferArgs::apply_option_arg and apply_short_flags; lists are the
\* optional parts of a file list entry
ApplyOptionArg(t, a) ==
    CASE a \in {"--recursive", "-r"} -> [t EXCEPT !.recursive = TRUE]
      [] a \in {"--dry-run", "-n"} -> [t EXCEPT !.dryRun = TRUE]
      [] a \in {"--whole-file", "-W"} -> [t EXCEPT !.wholeFile = TRUE]
      [] a \in {"--times", "-t"} -> [t EXCEPT !.preserveTimes = TRUE]
      [] a = "--checksum" -> [t EXCEPT !.update = "Checksum"]
      [] a = "--size-only" -> [t EXCEPT !.update = "SizeOnly"]
      [] a = "--ignore-times" -> [t EXCEPT !.update = "IgnoreTimes"]
      [] a = "--append-verify" -> [t EXCEPT !.appendVerify = TRUE]
      [] a \in {"--owner", "--usermap=M", "--chown=U"} -> [t EXCEPT !.lists = @ \cup {"owner"}]
      [] a \in {"--group", "--chown=:G"} -> [t EXCEPT !.lists = @ \cup {"group"}]
      [] a = "--numeric-ids" -> [t EXCEPT !.lists = @ \cup {"numeric"}]
      [] a = "--acls" -> [t EXCEPT !.lists = @ \cup {"acls"}]
      [] a = "--xattrs" -> [t EXCEPT !.lists = @ \cup {"xattrs"}]
      [] a = "--fake-super" -> [t EXCEPT !.lists = @ \cup {"fake-super", "xattrs"}]
      [] a = "--atimes" -> [t EXCEPT !.lists = @ \cup {"atimes"}]
      [] a = "--crtimes" -> [t EXCEPT !.lists = @ \cup {"crtimes"}]
      [] a \in {"--delete-before", "--delete-during", "--delete-delay", "--delete-after"} ->
           [t EXCEPT !.delete = TRUE]
      [] a \in {"--compress", "--compress-level=N", "--skip-compress=S"} -> EnsureCompression(t)
      [] a = "--compress-choice=zlib" -> [t EXCEPT !.compression = "zlib"]
      [] a = "--compress-choice=zlibx" -> [t EXCEPT !.compression = "zlibx"]
      [] OTHER -> t

\* One argument: options up to ".", then paths
TakeArg(t, a) ==
    CASE t.afterDot -> [t EXCEPT !.paths = Append(@, a)]
      [] ~t.afterDot /\ a = "." -> [t EXCEPT !.afterDot = TRUE]
      [] OTHER -> ApplyOptionArg(t, a)

ParseArgs(list) ==
    LET t == FoldLeft(TakeArg, DefaultTransferArgs, list)
    IN [t EXCEPT !.sender = \E i \in 1 .. Len(list) : list[i] = "--sender",
                 !.paths = IF @ = <<>> THEN <<".">> ELSE @]

-----------------------------------------------------------------------------

\* What an end's record makes of the stream: the parts of a list entry, the
\* deletion marker, the token encoding, whether signatures follow the head
\* of a request, and whether anything is written at all.
Stream(lists, checksums, delete, compression, signatures, dryRun) ==
    [lists |-> lists \cup (IF checksums THEN {"checksum"} ELSE {}), delete |-> delete,
     compression |-> compression, signatures |-> signatures, dryRun |-> dryRun]

\* rsync31_file_list_options_from_plan, RemoteCompressionConfig::for_plan and
\* the reading of requests with --append-verify
ClientStream(c) ==
    Stream({p \in {"owner", "group", "numeric", "acls", "xattrs", "fake-super", "atimes", "crtimes"} :
              CASE p = "owner" -> PreserveOwner(c)
                [] p = "group" -> PreserveGroup(c)
                [] p = "numeric" -> "numeric_ids" \in c
                [] p = "acls" -> "acls" \in c
                [] p = "xattrs" -> "xattrs" \in c \/ "fake_super" \in c
                [] p = "fake-super" -> "fake_super" \in c
                [] p = "atimes" -> "atimes" \in c
                [] p = "crtimes" -> "crtimes" \in c},
           UpdateMode(c) = "Checksum",
           PlanDelete(c),
           IF "compress" \notin c THEN "none"
           ELSE IF "compress_choice" \in c THEN "zlib" ELSE "zlibx",
           ~(Push /\ "append_verify" \in c),
           "dry_run" \in c)

\* DaemonTransferArgs::protocol31_flist_options; signatures are written
\* whatever append_verify is
DaemonStream(t) ==
    Stream(t.lists, t.update = "Checksum", t.delete, t.compression, TRUE, t.dryRun)

-----------------------------------------------------------------------------

Init ==
    /\ ParseInit
    /\ direction \in {"Pull", "Push"}
    /\ stage = "parsing"
    /\ argv = <<>>
    /\ server = DefaultTransferArgs

Parse ==
    /\ stage = "parsing"
    /\ \E o \in Vocabulary : ParseOption(o)
    /\ UNCHANGED <<direction, stage, argv, server>>

\* The plan has an error: its diagnostics are all that happens.
Refuse ==
    /\ stage = "parsing"
    /\ Conflict(cli)
    /\ stage' = "refused"
    /\ UNCHANGED <<args, cli, direction, argv, server>>

\* daemon_server_args_for_direction and write_daemon_args
Send ==
    /\ stage = "parsing"
    /\ ~Conflict(cli)
    /\ argv' = ClientArgv(cli)
    /\ stage' = "sent"
    /\ UNCHANGED <<args, cli, direction, server>>

\* read_daemon_args and DaemonTransferArgs::parse
Serve ==
    /\ stage = "sent"
    /\ server' = ParseArgs(argv)
    /\ stage' = "served"
    /\ UNCHANGED <<args, cli, direction, argv>>

Next == Parse \/ Refuse \/ Send \/ Serve

Spec == Init /\ [][Next]_vars

-----------------------------------------------------------------------------
\* Properties

TypeOK ==
    /\ CliTypeOK
    /\ direction \in {"Pull", "Push"}
    /\ stage \in {"parsing", "sent", "served", "refused"}
    /\ argv \in Seq(STRING)
    /\ DOMAIN server = DOMAIN DefaultTransferArgs

(***************************************************************************)
(* The command lines that the two ends are known to take differently:      *)
(*  - two update modes: the client ranks them, the daemon takes the last   *)
(*    one that was sent, and a pull sends --checksum only;                 *)
(*  - a mapping of owners without the owners themselves, which the daemon  *)
(*    takes as a request for owners;                                       *)
(*  - a detail of compression without -z, which the daemon takes for -z;   *)
(*  - --append-verify on a push: the daemon sends signatures that the      *)
(*    client does not read;                                                *)
(*  - --secluded-args: the daemon is never sent the other arguments.       *)
(***************************************************************************)
KnownToDiffer ==
    \/ "checksum" \in cli /\ Push /\ "size_only" \in cli /\ "ignore_times" \notin cli
    \/ "checksum" \in cli /\ ~Push /\ "ignore_times" \in cli
    \/ "user_maps" \in cli /\ ~PreserveOwner(cli)
    \/ "chown_user" \in cli /\ ~PreserveOwner(cli)
    \/ "chown_group" \in cli /\ ~PreserveGroup(cli)
    \/ "compress" \notin cli /\ {"compress_level", "skip_compress"} \cap cli # {}
    \/ Push /\ "append_verify" \in cli
    \/ "secluded_args" \in cli

\* On every other command line the client and the daemon read and write the
\* same stream, for the same path: the plan's record and the record that
\* DaemonTransferArgs::parse makes of the arguments say the same.
EndsAgree ==
    stage = "served" /\ ~KnownToDiffer =>
      /\ ClientStream(cli) = DaemonStream(server)
      /\ server.sender = ~Push
      /\ server.paths = <<Path>>
      /\ server.recursive = Recursive(cli)
      /\ server.preserveTimes = PreserveTimes(cli)

\* On the command lines named above, apart from --secluded-args, they always
\* differ: the list of exceptions is not too long.
ExceptionsReal ==
    stage = "served" /\ KnownToDiffer /\ "secluded_args" \notin cli =>
      ClientStream(cli) # DaemonStream(server)
=============================================================================
