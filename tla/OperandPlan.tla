----------------------------- MODULE OperandPlan -----------------------------
(***************************************************************************)
(* What the operands of a command line make of it: a local copy, a pull or *)
(* a push through a remote shell or a daemon, a listing of modules, or     *)
(* nothing (TransferPlan::from_cli, plan/remote_args.rs, the ensure_...    *)
(* checks of plan/diagnostics.rs and execute_or_render).                   *)
(*                                                                         *)
(* An operand is given by what the parsers look at: whether it begins with *)
(* rsync://, its first colons, what stands to their left and what to their *)
(* right, another "::" there included.  A letter before a colon is a       *)
(* Windows drive; a "dir" has a separator in it.  Of rsync://left/right    *)
(* left is the authority; "host:99999" and "99999" have a port that does   *)
(* not fit in 16 bits.                                                     *)
(***************************************************************************)
EXTENDS Naturals, SequencesExt

CONSTANTS
    Operands,   \* the operands that may be given, some of Operand
    MaxPaths    \* bound: operands on a command line

\* What may be to the right of the first colons with "::" in it, and what
\* then follows that
Later == {"name::", "name::name", "name::/name", "99999::name"}
Behind(right) ==
    CASE right = "name::" -> "" [] right = "name::/name" -> "/name" [] OTHER -> "name"

Operand ==
    [url : BOOLEAN, colons : 0 .. 2, left : {"", "letter", "dir", "hostA", "hostB", "host:99999"},
     right : {"", "name", "/name"} \cup Later]

Flags == {"list_only", "rsh", "daemon", "server"}

VARIABLES
    paths,
    flags,      \* the options among Flags that are set
    outcome     \* "none" before the command is executed

vars == <<paths, flags, outcome>>

Index == 1 .. Len(paths)
Destination == paths[Len(paths)]
Sources == SubSeq(paths, 1, Len(paths) - 1)

\* The first "::" is further right than the first colon.
LaterPair(o) == ~o.url /\ o.colons < 2 /\ o.right \in Later

\* is_daemon_operand_syntax: rsync:// at the front, or "::" anywhere
IsDaemonSyntax(o) == o.url \/ o.colons = 2 \/ LaterPair(o)

\* RemoteShellOperand::parse of an operand without daemon syntax
ShellParse(o) ==
    CASE o.colons = 0 \/ o.left \in {"letter", "dir"} -> "local"
      [] o.colons = 1 /\ (o.left = "" \/ (o.left \in {"hostA", "hostB"} /\ o.right = "")) -> "error"
      [] OTHER -> "remote"

\* is_remote_shell_operand
IsRemoteShell(o) == ~IsDaemonSyntax(o) /\ ShellParse(o) # "local"

\* parse_authority of all that is left of the first "::", or of the slash in a
\* URL: there is a host, and its port is a u16
AuthorityError(o) ==
    IF LaterPair(o) THEN o.left # "" /\ o.right = "99999::name"
    ELSE o.left \in {"", "host:99999"}

\* DaemonOperand::parse, parse_rsync_url and parse_module_path
DaemonParse(o) ==
    LET module_path == IF LaterPair(o) THEN Behind(o.right) ELSE o.right
    IN CASE AuthorityError(o) \/ module_path = "/name" -> "error"
         [] ~AuthorityError(o) /\ module_path = "" -> "daemon"
         [] OTHER -> "module"

Plan(direction, error) == [direction |-> direction, error |-> error]

\* plan_daemon_operands: the operand must be the only one of its kind
DaemonPlan ==
    LET found == {i \in Index : IsDaemonSyntax(paths[i]) /\ DaemonParse(paths[i]) # "error"}
        bad == \E i \in Index : IsDaemonSyntax(paths[i]) /\ DaemonParse(paths[i]) = "error"
        index == CHOOSE i \in found : TRUE
        module == DaemonParse(paths[index]) = "module"
    IN CASE found = {} -> Plan("None", bad)
         [] \E i, j \in found : i # j -> Plan("None", TRUE)
         [] OTHER ->
              CASE Len(paths) = 1 ->
                     IF "list_only" \in flags /\ ~module THEN Plan("Pull", bad) ELSE Plan("None", TRUE)
                [] index = 1 /\ Len(paths) = 2 ->
                     IF module THEN Plan("Pull", bad) ELSE Plan("None", TRUE)
                [] index # 1 /\ index = Len(paths) ->
                     IF module THEN Plan("Push", bad) ELSE Plan("None", TRUE)
                [] OTHER -> Plan("None", TRUE)

\* The remote-shell operands, in TransferPlan::from_cli
ShellPlan ==
    LET remote == {i \in 1 .. Len(paths) - 1 : ShellParse(paths[i]) = "remote"}
        bad == \E i \in Index : ShellParse(paths[i]) = "error"
    IN CASE Len(paths) < 2 -> Plan("None", FALSE)
         [] Len(paths) >= 2 /\ remote # {} ->
              IF \/ ShellParse(Destination) = "remote"
                 \/ remote # 1 .. Len(paths) - 1
                 \/ \E i, j \in remote : paths[i].left # paths[j].left
              THEN Plan("None", TRUE)
              ELSE Plan("Pull", bad)
         [] OTHER -> Plan(IF ShellParse(Destination) = "remote" THEN "Push" ELSE "None", bad)

HasDaemon == {"daemon", "server"} \cap flags = {} /\ \E i \in Index : IsDaemonSyntax(paths[i])

Remote ==
    IF {"daemon", "server"} \cap flags # {} \/ HasDaemon THEN Plan("None", FALSE) ELSE ShellPlan

\* transfer_mode_from_cli
TransferMode ==
    CASE "daemon" \in flags -> "DaemonServer"
      [] "daemon" \notin flags /\ "server" \in flags -> "InternalServer"
      [] HasDaemon -> "DaemonClient"
      [] ~HasDaemon /\ {"daemon", "server"} \cap flags = {} /\ Remote.direction # "None" -> "RemoteShell"
      [] OTHER -> "Local"

\* Mutant: daemon and remote-shell operands may be mixed.
ModeErrorNoMix ==
    \/ TransferMode = "DaemonServer" /\ paths # <<>>
    \/ TransferMode = "InternalServer"
    \/ TransferMode = "DaemonClient" /\ "rsh" \in flags

\* add_mode_gating_diagnostics
ModeError ==
    \/ {"daemon", "server"} \subseteq flags
    \/ /\ \E i \in Index : IsDaemonSyntax(paths[i])
       /\ \E i \in Index : IsRemoteShell(paths[i])
    \/ TransferMode = "DaemonServer" /\ paths # <<>>
    \/ TransferMode = "InternalServer"
    \/ TransferMode = "DaemonClient" /\ "rsh" \in flags

HasErrors == ModeError \/ Remote.error \/ (HasDaemon /\ DaemonPlan.error)

\* ensure_daemon_execution_options_supported and execute_daemon_sync
DaemonOutcome ==
    LET module == \E i \in Index : IsDaemonSyntax(paths[i]) /\ DaemonParse(paths[i]) = "module"
    IN CASE module /\ "list_only" \in flags -> "failed"
         [] module /\ "list_only" \notin flags -> "daemon-" \o DaemonPlan.direction
         [] ~module -> "daemon-list"

\* execute_or_render
Outcome ==
    CASE HasErrors -> "rendered"
      [] ~HasErrors /\ TransferMode = "DaemonServer" -> "serve"
      [] ~HasErrors /\ TransferMode = "DaemonClient" -> DaemonOutcome
      [] ~HasErrors /\ TransferMode \in {"Local", "RemoteShell"} ->
           CASE Len(paths) < 2 -> "rendered"
             [] Len(paths) >= 2 /\ \E i \in Index : IsRemoteShell(paths[i]) ->
                  \* ensure_remote_execution_options_supported
                  IF Remote.direction = "None" THEN "failed" ELSE "shell-" \o Remote.direction
             [] OTHER -> "local"

-----------------------------------------------------------------------------

Init ==
    /\ paths = <<>>
    /\ flags \in SUBSET Flags
    /\ outcome = "none"

AddPath ==
    /\ outcome = "none"
    /\ Len(paths) < MaxPaths
    /\ \E o \in Operands : paths' = Append(paths, o)
    /\ UNCHANGED <<flags, outcome>>

Execute ==
    /\ outcome = "none"
    /\ outcome' = Outcome
    /\ UNCHANGED <<paths, flags>>

Next == AddPath \/ Execute

Spec == Init /\ [][Next]_vars

-----------------------------------------------------------------------------
\* Properties

TransferOutcomes ==
    {"serve", "local", "daemon-list", "daemon-Pull", "daemon-Push", "shell-Pull", "shell-Push"}

\* What rsync takes for a path, or for a path on a host, because only its
\* first colon counts and none behind a separator, and this program for a
\* daemon's module: C:\x::y, host:dir/a::b, dir/a::b.
Misread(o) == ~o.url /\ (LaterPair(o) \/ (o.colons = 2 /\ o.left = "dir"))

\* What a reader of the manual expects of the operands, from their looks
LooksLocal(o) ==
    ~o.url /\ ~Misread(o) /\ (o.colons = 0 \/ (o.colons = 1 /\ o.left \in {"letter", "dir"}))
LooksShell(o) ==
    ~o.url /\ ~Misread(o) /\ o.colons = 1 /\ o.left \in {"hostA", "hostB"} /\ o.right # ""
NamesHost(o) == (o.url \/ o.colons = 2) /\ o.left \in {"letter", "hostA", "hostB"}
LooksDaemon(o) == (NamesHost(o) /\ o.right = "") \/ (Misread(o) /\ o.right \in {"", "name::"})
LooksModule(o) ==
    \/ NamesHost(o) /\ o.right \in {"name"} \cup Later
    \/ Misread(o) /\ o.right \in {"name", "name::name"}
    \/ Misread(o) /\ o.right = "99999::name" /\ (o.left = "" \/ o.colons = 2)

AllLocal(s) == \A i \in 1 .. Len(s) : LooksLocal(s[i])

Asked ==
    CASE "daemon" \in flags -> IF "server" \notin flags /\ paths = <<>> THEN "serve" ELSE "nothing"
      [] "server" \in flags -> "nothing"
      [] paths # <<>> /\ AllLocal(paths) /\ flags \cap {"daemon", "server"} = {} ->
           IF Len(paths) > 1 THEN "local" ELSE "nothing"
      [] Len(paths) = 1 /\ LooksDaemon(paths[1]) /\ flags = {"list_only"} -> "daemon-list"
      [] Len(paths) = 2 /\ LooksModule(paths[1]) /\ LooksLocal(paths[2]) /\ flags = {} -> "daemon-Pull"
      [] Len(paths) > 1 /\ AllLocal(Sources) /\ LooksModule(Destination) /\ flags = {} -> "daemon-Push"
      [] /\ Len(paths) > 1 /\ LooksLocal(Destination)
         /\ flags \cap {"daemon", "server"} = {}
         /\ \A i \in 1 .. Len(paths) - 1 :
              LooksShell(paths[i]) /\ paths[i].left = paths[1].left -> "shell-Pull"
      [] /\ Len(paths) > 1 /\ AllLocal(Sources) /\ LooksShell(Destination)
         /\ flags \cap {"daemon", "server"} = {} -> "shell-Push"
      [] OTHER -> "nothing"

\* A command does what its operands ask for, in their direction, or nothing
\* at all: no mixture of operands (two hosts, a daemon and a shell, a remote
\* source and a remote destination, a malformed one) is executed as another
\* transfer.  The planning goes through five functions that each see a part
\* of the operands (plan_daemon_operands, from_cli, transfer_mode_from_cli,
\* add_mode_gating_diagnostics, execute_or_render).  The operands that are
\* Misread are the only ones that rsync means otherwise; they ask for the
\* module behind their "::", of the host that all before it names.
DoesWhatWasAsked ==
    outcome # "none" =>
      IF Asked = "nothing" THEN outcome \notin TransferOutcomes ELSE outcome = Asked
=============================================================================
