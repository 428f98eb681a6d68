----------------------------- MODULE DaemonLogin -----------------------------
(***************************************************************************)
(* A daemon of this project from its configuration file to the start of a  *)
(* transfer, and the clients that talk to it (rsync-cli/src/daemon_server, *)
(* rsync-protocol/src/daemon.rs, execute/daemon_client.rs).                *)
(*                                                                         *)
(* The daemon reads its configuration line by line, applies the --dparam   *)
(* overrides, validates, and then serves one connection after the other.   *)
(* A connection is a pair of streams of lines; the transfer itself is      *)
(* TransferSession and stands here as one exchange of "Data".              *)
(***************************************************************************)
EXTENDS Naturals, Sequences, FiniteSets

CONSTANTS
    Secrets,    \* Secrets[f][u]: the password of u in the secrets file f, or "none"
    Clients,
    Starts,     \* [lines, params: the configuration file and the --dparam overrides,
                \*  jobs: what each client wants, from which module, as whom,
                \*  here: the clients that come at all]
    MaxFaults   \* bound: clients that die or fall silent

VARIABLES
    text,       \* the lines that are not read yet
    current,    \* the module that is being read, or NoModule
    modules,    \* the modules that are complete
    params,     \* the overrides of this run
    wrote,      \* the configuration file and the overrides as they were given
    dpc,        \* where the daemon is
    conn,       \* the client that is being served
    chosen,     \* the module of the connection
    row,        \* how many modules a listing has gone through
    backlog,    \* connections that wait to be accepted
    jobs,       \* what each client wants
    cpc,        \* where each client is
    toServer, toClient,
    closed,     \* connections that the daemon has closed
    down,       \* "dead" and "silent" clients
    shown       \* the modules in the listing that a client got

config == <<text, current, modules, params, wrote, jobs>>
daemon == <<dpc, conn, chosen, row, backlog, closed>>
vars == <<config, daemon, cpc, toServer, toClient, down, shown>>

Texts == {"path", "comment", "secrets file"}
Flags == {"read only", "write only", "list"}
Keys == Texts \cup Flags \cup {"auth users"}
NoModule == [name |-> "none"]

\* Defaults of a section that has just been opened
Fresh(name) ==
    [name |-> name,
     set |-> [k \in Keys |-> CASE k = "path" -> "unset"
                               [] k = "comment" -> ""
                               [] k = "read only" -> TRUE
                               [] k = "write only" -> FALSE
                               [] k = "list" -> TRUE
                               [] k = "auth users" -> {}
                               [] k = "secrets file" -> "unset"]]

\* apply_module_param
WithParam(m, key, value) == [m EXCEPT !.set[key] = value]

\* daemon_auth_response: a digest of password and challenge
Response(password, challenge, checksum) == <<password, challenge, checksum>>

\* choose_auth_checksum on the client and daemon_auth_checksum_from_client_-
\* greeting on the daemon: this project's ends offer md5 and md4, and an
\* older peer that offers nothing is taken to use what its version did.
AuthChecksum(greeting) == IF greeting.offers \/ greeting.protocol >= 30 THEN "md5" ELSE "md4"
GreetingOf(j) == [protocol |-> j.greets, offers |-> j.greets = 31]

\* "none" stands for no user, so that no user has that name.
Users == SUBSET (STRING \ {"none"})

ConfigLine ==
    [is : {"global"}] \cup [is : {"module"}, name : STRING]
    \cup [is : {"param"}, key : Texts, value : STRING]
    \cup [is : {"param"}, key : Flags, value : BOOLEAN]
    \cup [is : {"param"}, key : {"auth users"}, value : Users]

Override ==
    [name : STRING, key : Texts, value : STRING]
    \cup [name : STRING, key : Flags, value : BOOLEAN]
    \cup [name : STRING, key : {"auth users"}, value : Users]

Job ==
    [request : STRING, user : STRING, password : STRING, push : BOOLEAN,
     greets : Nat, protocol : Nat, path : {"safe", "unsafe"}, early : BOOLEAN]

ASSUME DaemonAssumption ==
    /\ "none" \notin Clients
    /\ \A s \in Starts :
         /\ s.lines \in Seq(ConfigLine)
         /\ s.params \in Seq(Override)
         /\ s.jobs \in [Clients -> Job]

-----------------------------------------------------------------------------
\* The configuration

Init ==
    /\ \E s \in Starts :
         /\ wrote = [lines |-> s.lines, params |-> s.params]
         /\ jobs = s.jobs
         /\ down = [c \in Clients |-> IF c \in s.here THEN "no" ELSE "dead"]
    /\ text = wrote.lines
    /\ params = wrote.params
    /\ current = NoModule
    /\ modules = <<>>
    /\ dpc = "config"
    /\ conn = "none"
    /\ chosen = NoModule
    /\ row = 0
    /\ backlog = <<>>
    /\ closed = {}
    /\ cpc = [c \in Clients |-> "start"]
    /\ toServer = [c \in Clients |-> <<>>]
    /\ toClient = [c \in Clients |-> <<>>]
    /\ shown = [c \in Clients |-> {}]

Fixed == UNCHANGED <<jobs, conn, chosen, row, backlog, closed, cpc, toServer, toClient, down, shown>>

\* parse_config: a line opens a section, sets a parameter of the open one,
\* or is a global key that the daemon knows and ignores
ReadLine ==
    /\ dpc = "config"
    /\ text # <<>>
    /\ text' = Tail(text)
    /\ LET line == Head(text)
       IN \/ /\ line.is = "module"
             /\ modules' = IF current = NoModule THEN modules ELSE Append(modules, current)
             /\ current' = Fresh(line.name)
             /\ dpc' = dpc
          \/ /\ line.is = "param" /\ current # NoModule
             /\ current' = WithParam(current, line.key, line.value)
             /\ UNCHANGED <<modules, dpc>>
          \/ /\ line.is = "global" /\ current = NoModule
             /\ UNCHANGED <<current, modules, dpc>>
          \/ /\ \/ line.is = "param" /\ current = NoModule
                \/ line.is = "global" /\ current # NoModule
             /\ dpc' = "stopped"
             /\ UNCHANGED <<current, modules>>
    /\ UNCHANGED <<params, wrote>> /\ Fixed

EndOfFile ==
    /\ dpc = "config"
    /\ text = <<>>
    /\ modules' = IF current = NoModule THEN modules ELSE Append(modules, current)
    /\ current' = NoModule
    /\ dpc' = "dparams"
    /\ UNCHANGED <<text, params, wrote>> /\ Fixed

IndexOf(name) == {i \in 1 .. Len(modules) : modules[i].name = name}
First(S) == CHOOSE i \in S : \A j \in S : i <= j

\* apply_dparams: the first module of the name is overridden
ApplyDparam ==
    /\ dpc = "dparams"
    /\ params # <<>>
    /\ params' = Tail(params)
    /\ LET p == Head(params)
       IN \/ /\ IndexOf(p.name) # {}
             /\ modules' = [modules EXCEPT ![First(IndexOf(p.name))] =
                              WithParam(@, p.key, p.value)]
             /\ dpc' = dpc
          \/ /\ IndexOf(p.name) = {}
             /\ dpc' = "stopped"
             /\ modules' = modules
    /\ UNCHANGED <<text, current, wrote>> /\ Fixed

\* Mutant: the secrets file is not asked for.
ModuleValidNoSecrets(m) == m.set["path"] = "dir"

\* One round of validate_config.  A secrets file that is named must exist,
\* be a regular file and be closed to others: it is in DOMAIN Secrets.
ModuleValid(m) ==
    /\ m.set["path"] = "dir"
    /\ m.set["auth users"] # {} => m.set["secrets file"] # "unset"
    /\ m.set["secrets file"] # "unset" => m.set["secrets file"] \in DOMAIN Secrets

\* validate_config, and run up to the listener
Validate ==
    /\ dpc = "dparams"
    /\ params = <<>>
    /\ dpc' = IF modules # <<>> /\ \A i \in 1 .. Len(modules) : ModuleValid(modules[i])
              THEN "accept" ELSE "stopped"
    /\ UNCHANGED config /\ Fixed

-----------------------------------------------------------------------------
\* The daemon's side of a connection

Waiting == toServer[conn] # <<>>
Line == Head(toServer[conn])

\* The daemon takes a line, answers and goes on to the step next
Answer(lines, next) ==
    /\ toServer' = [toServer EXCEPT ![conn] = Tail(@)]
    /\ toClient' = [toClient EXCEPT ![conn] = @ \o lines]
    /\ dpc' = next
    /\ UNCHANGED <<conn, closed>>

\* It answers, closes the connection and accepts the next
Close(lines) ==
    /\ toServer' = [toServer EXCEPT ![conn] = <<>>]
    /\ toClient' = [toClient EXCEPT ![conn] = @ \o lines]
    /\ dpc' = "accept"
    /\ conn' = "none"
    /\ closed' = closed \cup {conn}

\* One round of the loop of run: accept, configure the stream, handle_client
Accept ==
    /\ dpc = "accept"
    /\ backlog # <<>>
    /\ conn' = Head(backlog)
    /\ backlog' = Tail(backlog)
    /\ toClient' = [toClient EXCEPT ![Head(backlog)] = Append(@, "Greeting")]
    /\ dpc' = "greeting"
    /\ UNCHANGED <<config, chosen, row, closed, cpc, toServer, down, shown>>

ReadGreeting ==
    /\ dpc = "greeting"
    /\ Waiting
    /\ Answer(<<>>, "request")
    /\ UNCHANGED <<config, chosen, row, backlog, cpc, down, shown>>

\* Mutant: every module is listed.
ListLineAll(m) == <<[is |-> "module", name |-> m.name, comment |-> m.set["comment"]]>>

\* What write_module_list writes for a module
ListLine(m) ==
    IF m.set["list"]
    THEN <<[is |-> "module", name |-> m.name, comment |-> m.set["comment"]]>>
    ELSE <<>>

ReadRequest ==
    /\ dpc = "request"
    /\ Waiting
    /\ \/ /\ Line = "#list"
          /\ Answer(<<[is |-> "motd"]>>, "list")
          /\ row' = 0
          /\ chosen' = chosen
       \/ /\ Line # "#list" /\ IndexOf(Line) = {}
          /\ Close(<<"ERROR">>)
          /\ UNCHANGED <<chosen, row>>
       \/ /\ Line # "#list" /\ IndexOf(Line) # {}
          /\ chosen' = modules[First(IndexOf(Line))]
          /\ IF chosen'.set["auth users"] = {}
             THEN Answer(<<"OK">>, "args")
             ELSE Answer(<<"AUTHREQD">>, "auth")
          /\ row' = row
    /\ UNCHANGED <<config, backlog, cpc, down, shown>>

\* One round of the loop of write_module_list, after the message of the day
ListModule ==
    /\ dpc = "list"
    /\ row < Len(modules)
    /\ toClient' = [toClient EXCEPT ![conn] = @ \o ListLine(modules[row + 1])]
    /\ row' = row + 1
    /\ UNCHANGED <<config, dpc, conn, chosen, backlog, closed, cpc, toServer, down, shown>>

EndList ==
    /\ dpc = "list"
    /\ row = Len(modules)
    /\ Close(<<[is |-> "EXIT"]>>)
    /\ UNCHANGED <<config, chosen, row, backlog, cpc, down, shown>>

\* Mutant: the daemon always takes md4.
ResponseValidMd4(answer) ==
    LET passwords == Secrets[chosen.set["secrets file"]]
    IN /\ answer.user \in chosen.set["auth users"]
       /\ passwords[answer.user] # "none"
       /\ answer.hash = Response(passwords[answer.user], conn, "md4")

\* daemon_auth_response_is_valid: the user must be named by the module and
\* have a line in its secrets file, which is read anew.  A connection has a
\* challenge of its own, for which the client's name stands.
ResponseValid(answer) ==
    LET passwords == Secrets[chosen.set["secrets file"]]
    IN /\ answer.user \in chosen.set["auth users"]
       /\ passwords[answer.user] # "none"
       /\ answer.hash = Response(passwords[answer.user], conn, AuthChecksum(GreetingOf(jobs[conn])))

Authenticate ==
    /\ dpc = "auth"
    /\ Waiting
    /\ IF ResponseValid(Line) THEN Answer(<<"OK">>, "args") ELSE Close(<<"ERROR">>)
    /\ UNCHANGED <<config, chosen, row, backlog, cpc, down, shown>>

\* Mutant: a push into a read-only module is let through.
ArgsRefusedPulls(a) == ~a.push /\ chosen.set["write only"]

\* The refusals of handle_client that are told to the client
ArgsRefused(a) ==
    \/ jobs[conn].greets < 31
    \/ a.push /\ chosen.set["read only"]
    \/ ~a.push /\ chosen.set["write only"]

\* read_daemon_args and DaemonTransferArgs::parse.  The daemon splits by
\* what the greeting said; arguments that were split otherwise, or have
\* other bytes before them, do not contain --server and end the connection.
ReadArgs ==
    /\ dpc = "args"
    /\ Waiting
    /\ LET splitAs == IF jobs[conn].greets >= 30 THEN "nul" ELSE "line"
       IN CASE Line.split # splitAs \/ Line.early -> Close(<<>>)
            [] Line.split = splitAs /\ ~Line.early /\ ArgsRefused(Line) -> Close(<<"ERROR">>)
            [] OTHER ->
                 \* send_protocol31_setup; a receiver looks at its path before it reads
                 IF Line.push /\ Line.path = "unsafe"
                 THEN Close(<<"Setup">>)
                 ELSE Answer(<<"Setup">>, IF Line.push THEN "receive" ELSE "send")
    /\ UNCHANGED <<config, chosen, row, backlog, cpc, down, shown>>

\* serve_daemon_sender_protocol31: the marker, then the path, then the list
ServePull ==
    /\ dpc = "send"
    /\ Waiting
    /\ Close(IF jobs[conn].path = "unsafe" THEN <<>> ELSE <<"Data">>)
    /\ UNCHANGED <<config, chosen, row, backlog, cpc, down, shown>>

\* serve_daemon_receiver_protocol31
ServePush ==
    /\ dpc = "receive"
    /\ Waiting
    /\ Close(<<"Data">>)
    /\ UNCHANGED <<config, chosen, row, backlog, cpc, down, shown>>

\* The client has died, or has ended and with it its connection.
HungUp == down[conn] = "dead" \/ cpc[conn] \in {"done", "failed"}

\* Mutant: an error in handle_client ends the loop.
ReadEndsStops ==
    /\ conn # "none"
    /\ ~Waiting
    /\ HungUp
    /\ dpc' = "stopped"
    /\ conn' = "none"
    /\ UNCHANGED <<config, chosen, row, backlog, closed, toServer, toClient, cpc, down, shown>>

\* Any error in handle_client is logged; the daemon accepts the next client
ReadEnds ==
    /\ conn # "none"
    /\ ~Waiting
    /\ HungUp
    /\ Close(<<>>)
    /\ UNCHANGED <<config, chosen, row, backlog, cpc, down, shown>>

-----------------------------------------------------------------------------
\* The clients

Alive(c) == down[c] = "no"

Say(c, lines, next) ==
    /\ toServer' = [toServer EXCEPT ![c] = IF c \in closed THEN @ ELSE @ \o lines]
    /\ cpc' = [cpc EXCEPT ![c] = next]

Connect(c) ==
    /\ Alive(c)
    /\ cpc[c] = "start"
    /\ dpc \notin {"config", "dparams", "stopped"}
    /\ backlog' = Append(backlog, c)
    /\ cpc' = [cpc EXCEPT ![c] = "greeting"]
    /\ UNCHANGED <<config, dpc, conn, chosen, row, closed, toServer, toClient, down, shown>>

Hears(c, at) == Alive(c) /\ cpc[c] = at /\ toClient[c] # <<>>
Heard(c) == Head(toClient[c])
Consume(c) == toClient' = [toClient EXCEPT ![c] = Tail(@)]
ClientOnly == UNCHANGED <<config, daemon, down>>

\* exchange_daemon_greeting, then the request
Greet(c) ==
    /\ Hears(c, "greeting")
    /\ Consume(c)
    /\ Say(c, <<GreetingOf(jobs[c]), jobs[c].request>>,
           IF jobs[c].request = "#list" THEN "listing" ELSE "selection")
    /\ ClientOnly /\ UNCHANGED shown

\* parse_module_line: the line is trimmed first, so that without a comment
\* no separator is left and the line counts as message of the day
ParseModuleLine(line) ==
    IF line.is = "motd" \/ line.comment = "" THEN {} ELSE {line.name}

\* read_module_list
ReadListing(c) ==
    /\ Hears(c, "listing")
    /\ Consume(c)
    /\ \/ /\ Heard(c).is = "EXIT"
          /\ cpc' = [cpc EXCEPT ![c] = "done"]
          /\ shown' = shown
       \/ /\ Heard(c).is # "EXIT"
          /\ shown' = [shown EXCEPT ![c] = @ \cup ParseModuleLine(Heard(c))]
          /\ cpc' = cpc
    /\ toServer' = toServer
    /\ ClientOnly

\* daemon_wire_protocol_from_plan and write_daemon_args: the wire protocol
\* of the plan decides how arguments are split
ArgsOf(j) ==
    [split |-> IF j.protocol = 27 THEN "line" ELSE "nul", early |-> j.early, push |-> j.push,
     path |-> j.path]

\* daemon_password and daemon_auth_user: from a password file that only its
\* owner can read, the operand and the environment
HasCredentials(j) == "none" \notin {j.user, j.password}

\* select_daemon_module, authenticate_daemon_module
ReadSelection(c) ==
    /\ Hears(c, "selection")
    /\ Consume(c)
    /\ CASE Heard(c) = "OK" -> Say(c, <<ArgsOf(jobs[c])>>, "setup")
         [] Heard(c) = "AUTHREQD" ->
              IF ~HasCredentials(jobs[c])
              THEN Say(c, <<>>, "failed")
              ELSE Say(c, <<[user |-> jobs[c].user,
                             hash |-> Response(jobs[c].password, c, AuthChecksum(GreetingOf(jobs[c])))]>>,
                       "selection")
         [] Heard(c) = "ERROR" -> Say(c, <<>>, "failed")
    /\ ClientOnly /\ UNCHANGED shown

\* exchange_protocol31_setup: what comes is taken as flags and seed, and of
\* an error line the rest is left in the stream.  A pull then sends its
\* marker, a push its list.
ReadSetup(c) ==
    /\ Hears(c, "setup")
    /\ toClient' = [toClient EXCEPT ![c] = IF Heard(c) = "ERROR" THEN <<"rest">> \o Tail(@) ELSE Tail(@)]
    /\ Say(c, <<"Data">>, "transfer")
    /\ ClientOnly /\ UNCHANGED shown

ReadTransfer(c) ==
    /\ Hears(c, "transfer")
    /\ Consume(c)
    /\ Say(c, <<>>, IF Heard(c) = "Data" THEN "done" ELSE "failed")
    /\ ClientOnly /\ UNCHANGED shown

\* The connection ends where more was expected
ClientEof(c) ==
    /\ Alive(c)
    /\ cpc[c] \in {"greeting", "listing", "selection", "setup", "transfer"}
    /\ toClient[c] = <<>>
    /\ c \in closed
    /\ Say(c, <<>>, "failed")
    /\ ClientOnly /\ UNCHANGED <<toClient, shown>>

\* A client that dies is seen as the end of its stream; one that falls
\* silent (suspended, or cut off without a reset) is not seen at all.
Fault(c, how) ==
    /\ Alive(c)
    /\ cpc[c] \notin {"start", "done", "failed"}
    /\ Cardinality({d \in Clients : ~Alive(d)}) < MaxFaults
    /\ down' = [down EXCEPT ![c] = how]
    /\ UNCHANGED <<config, daemon, cpc, toServer, toClient, shown>>

-----------------------------------------------------------------------------

Startup == ReadLine \/ EndOfFile \/ ApplyDparam \/ Validate
Serving ==
    \/ Accept \/ ReadGreeting \/ ReadRequest \/ ListModule \/ EndList
    \/ Authenticate \/ ReadArgs
    \/ ServePull \/ ServePush \/ ReadEnds
Client(c) ==
    \/ Connect(c) \/ Greet(c) \/ ReadListing(c) \/ ReadSelection(c) \/ ReadSetup(c)
    \/ ReadTransfer(c) \/ ClientEof(c)

Next ==
    \/ Startup
    \/ Serving
    \/ \E c \in Clients : Client(c) \/ \E how \in {"dead", "silent"} : Fault(c, how)

\* The daemon and every client that has not failed go on; faults need not.
Spec ==
    /\ Init /\ [][Next]_vars
    /\ WF_vars(Startup) /\ WF_vars(Serving)
    /\ \A c \in Clients : WF_vars(Client(c))

-----------------------------------------------------------------------------
\* What the configuration file says, told from its text

Lines == DOMAIN wrote.lines

Sections(name) ==
    {i \in Lines : wrote.lines[i].is = "module" /\ wrote.lines[i].name = name}

InSection(i, j) == i < j /\ \A k \in i + 1 .. j : wrote.lines[k].is # "module"

LastOf(S) == CHOOSE i \in S : \A j \in S : j <= i

\* The value that the first section of the name gives a key last
Written(name, key) ==
    LET setting == {j \in Lines :
                      /\ InSection(First(Sections(name)), j)
                      /\ wrote.lines[j].is = "param" /\ wrote.lines[j].key = key}
    IN IF setting = {} THEN Fresh(name).set[key] ELSE wrote.lines[LastOf(setting)].value

\* The last override of it, if there is one
Effective(name, key) ==
    LET given == {i \in DOMAIN wrote.params :
                    wrote.params[i].name = name /\ wrote.params[i].key = key}
    IN IF given = {} THEN Written(name, key) ELSE wrote.params[LastOf(given)].value

-----------------------------------------------------------------------------
\* Properties

TypeOK ==
    /\ dpc \in {"config", "dparams", "stopped", "accept", "greeting", "request", "list", "auth",
                "args", "send", "receive"}
    /\ conn \in Clients \cup {"none"}
    /\ conn = "none" <=> dpc \in {"config", "dparams", "stopped", "accept"}
    /\ \A i \in 1 .. Len(backlog) : backlog[i] \in Clients \ (closed \cup {conn})
    /\ \A c \in Clients :
         cpc[c] \in {"start", "greeting", "listing", "selection", "setup", "transfer", "done", "failed"}

\* A daemon that waits for a client has modules that can be served: every directory is
\* there, and a module with users has a secrets file, after all overrides
\* (run: parse_config, apply_dparams, then validate_config).  And every
\* parameter has the value that the first section of the name gives it last.
ConfigSound ==
    dpc = "accept" =>
          /\ modules # <<>>
          /\ \A i \in 1 .. Len(modules) :
               /\ modules[i].set["path"] = "dir"
               /\ modules[i].set["auth users"] # {} =>
                    modules[i].set["secrets file"] \in DOMAIN Secrets
          /\ \A i \in 1 .. Len(modules) : \A k \in Keys :
               i = First(IndexOf(modules[i].name)) =>
                 modules[i].set[k] = Effective(modules[i].name, k)

\* Who may do what, by what the configuration says alone
Permitted(c) ==
    LET j == jobs[c]
        set(k) == Effective(j.request, k)
    IN /\ Sections(j.request) # {}
       /\ IF j.push THEN ~set("read only") ELSE ~set("write only")
       /\ j.path = "safe"
       /\ \/ set("auth users") = {}
          \/ /\ j.user \in set("auth users")
             /\ j.password # "none"
             /\ j.password = Secrets[set("secrets file")][j.user]

Transfers(c) == jobs[c].request # "#list"

\* A transfer ends well only for a client that the module's parameters allow
\* it: right direction, a path inside the module, and where the module names
\* users one of them with its password; whatever other clients do meanwhile
\* on their connections (handle_client, authenticate_daemon_client).
DoneOnlyIfPermitted ==
    \A c \in Clients : cpc[c] = "done" /\ Transfers(c) => Permitted(c)

\* A client of this project that is permitted what it asks for does not fail,
\* unless it forces protocol 27 or sends early input: those two make the
\* daemon misread its arguments.
NoFalseAlarm ==
    \A c \in Clients :
      /\ cpc[c] = "failed" /\ Transfers(c) /\ Permitted(c)
      => jobs[c].protocol = 27 \/ jobs[c].early \/ jobs[c].greets < 31

\* A listing shows no module that is not to be listed, and those with a
\* comment all.
ListingSound ==
    \A c \in Clients : cpc[c] = "done" /\ ~Transfers(c) =>
      /\ \A n \in shown[c] : \E i \in 1 .. Len(modules) : modules[i].name = n /\ modules[i].set["list"]
      /\ \A i \in 1 .. Len(modules) :
           modules[i].set["list"] /\ modules[i].set["comment"] # "" => modules[i].name \in shown[c]

\* Who gets what: permitted transfers, no others, and a true listing, with the
\* variables in their types (handle_client).
LoginSound == TypeOK /\ DoneOnlyIfPermitted /\ NoFalseAlarm /\ ListingSound

\* The daemon has one connection at a time and no timeouts.  Every client
\* that connects is served in the end, unless the daemon is stuck for good
\* with a client that fell silent: nothing else can keep others waiting, no
\* error, no client that dies and no refused login.
ServedUnlessSilent ==
    \A c \in Clients :
      cpc[c] = "greeting" ~>
        \/ cpc[c] \in {"done", "failed"}
        \/ down[c] # "no"
        \/ conn # "none" /\ down[conn] = "silent"
=============================================================================
