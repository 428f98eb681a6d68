---------------------------- MODULE RemoteShell ----------------------------
(***************************************************************************)
(* A remote transfer from the outside: the child process that carries it,  *)
(* the handshake, and the second try with protocol 27                      *)
(* (rsync-cli/src/execute/remote_shell.rs, remote/session.rs,              *)
(* rsync-transport/src/process.rs, rsync-protocol/src/version.rs and the   *)
(* handshake of session.rs).                                               *)
(*                                                                         *)
(* The client writes to the child's stdin and reads its stdout; both are   *)
(* pipes of PipeCap messages.  A thread of the client drains the child's   *)
(* stderr.  The transfer itself is reduced to a list, a request and        *)
(* DataFrames frames of data: what matters here is when it begins to have  *)
(* effects, how it can fail, and who still reads which pipe then.  The     *)
(* same handshake runs over TCP against a daemon, which has no child and   *)
(* no second try.                                                          *)
(*                                                                         *)
(* The peer (ssh, the other host's shell and its rsync) is outside this    *)
(* repository; it is modelled by the order in which the client expects to  *)
(* talk to it, and may die at any moment.                                  *)
(***************************************************************************)
EXTENDS Naturals, Sequences

CONSTANTS
    Clients,    \* [via, direction, protocol, secluded, delete, choices]
    Peers,      \* [prefix, version, negotiates, sums, noise]
    PipeCap,    \* bound: messages a pipe holds
    DataFrames  \* bound: frames of file data in a transfer

\* Via a daemon only the modern protocol is spoken.  rsync starts with its version as
\* a number of four bytes (a peer of version 0 is a login shell that does not come
\* to start it), and "auto" is not the name of a checksum.
ASSUME ShellAssumption ==
    /\ \A c \in Clients :
         /\ c.via \in {"shell", "daemon"} /\ c.direction \in {"push", "pull"}
         /\ c.protocol \in {0, 27, 31}
         /\ c.via = "daemon" => c.protocol = 31
         /\ c.secluded \in BOOLEAN /\ c.delete \in BOOLEAN
    /\ \A q \in Peers :
         /\ q.prefix \in [1 .. 4 -> 0 .. 255] /\ q.version \in 0 .. 255
         /\ q.version # 0 => q.prefix = <<q.version, 0, 0, 0>>
         /\ q.negotiates \in BOOLEAN /\ q.noise \in Nat
         /\ q.sums \in Seq({q.sums[i] : i \in DOMAIN q.sums} \ {"auto"})
    /\ PipeCap \in Nat /\ DataFrames \in Nat \ {0}

VARIABLES
    client,     \* the options of this run
    peer,       \* the other side
    attempt,    \* the wire protocol being tried, 31 or 27
    pc,         \* where the client is
    err,        \* the error the session ended with: [kind, setup]
    sel, sum,   \* the client's protocol and checksum
    frames,     \* frames of data handled by the client
    toPeer, toClient,   \* the child's stdin and stdout
    stderr,     \* lines in the child's stderr pipe
    stdin_open, \* the client still holds the child's stdin
    p,          \* the peer's process: [pc, sel, sum, frames, noise, code]
    effects,    \* attempts that changed the destination
    faults,     \* what went wrong outside the client (history)
    result

vars == <<client, peer, attempt, pc, err, sel, sum, frames, toPeer, toClient, stderr,
          stdin_open, p, effects, faults, result>>

MIN_PROTOCOL_VERSION == 20
MAX_PROTOCOL_VERSION == 32
REMOTE_SHELL_MODERN_PROTOCOL == 31
REMOTE_SHELL_MVP_PROTOCOL == 27

NoError == [kind |-> "none", setup |-> FALSE]
NoName == "none"
Lesser(a, b) == IF a < b THEN a ELSE b

--------------------------------------------------------------------------
(* The first four bytes. *)

IsGraphic(b) == b \in 33 .. 126
IsAlphabetic(b) == b \in 65 .. 90 \cup 97 .. 122
Newline == 10

U32(bytes) == bytes[1] + 256 * (bytes[2] + 256 * (bytes[3] + 256 * bytes[4]))

\* A login shell that prints something looks like text, anything else must be
\* a version this program knows.
validate_protocol_stream_prefix(bytes) ==
    IF \/ IsGraphic(bytes[1]) /\ \E i \in 1 .. 4 : bytes[i] = Newline
       \/ /\ \A i \in 1 .. 4 : bytes[i] < 128
          /\ \E i \in 1 .. 4 : IsAlphabetic(bytes[i])
    THEN "NonProtocolOutput"
    ELSE IF bytes[4] > 0 \/ U32(bytes) \notin MIN_PROTOCOL_VERSION .. MAX_PROTOCOL_VERSION
    THEN "InvalidProtocolPrefix"
    ELSE "ok"

\* The peer's version is known to lie between the two bounds here.
negotiate_protocol_version_with_local(theirs, local) ==
    Lesser(Lesser(theirs, local), MAX_PROTOCOL_VERSION)

--------------------------------------------------------------------------
(* Checksum names. *)

normalized_name_list(names) == SelectSeq(names, LAMBDA n : n # "auto")

protocol31_client_checksum_list ==
    IF client.choices = << >> THEN <<"md4">> ELSE normalized_name_list(client.choices)

\* The first element of list that is in S.
FirstOf(list, S) ==
    LET first == {i \in DOMAIN list : list[i] \in S /\ \A j \in DOMAIN list : list[j] \in S => i <= j}
    IN IF first = {} THEN NoName ELSE list[CHOOSE i \in first : TRUE]

NamesOf(list) == {list[i] : i \in DOMAIN list}

\* Mutant: the server's order decides.
MutServersFirst(mine, theirs) == FirstOf(theirs, NamesOf(mine) \ {"auto"})

\* The first name of the client's list that the server has, "auto" left out of both.
select_protocol31_checksum(mine, theirs) == FirstOf(mine, NamesOf(theirs) \ {"auto"})

\* The names from_protocol31_choice knows; none means md4.
Computable == {NoName, "md4", "md5"}

--------------------------------------------------------------------------
(* The decision to try again. *)

\* The errors that a session ends with.
ErrorKinds ==
    {"none", "UnsupportedProtocol", "UnsupportedChecksumNegotiation", "InvalidChecksumList",
     "NonProtocolOutput", "InvalidProtocolPrefix", "UnexpectedEof", "BrokenPipe", "FileListError",
     "BadFileList", "UnknownAlgorithm", "TransferEof", "LocalError"}

NegotiationErrors ==
    {"UnsupportedProtocol", "UnsupportedChecksumNegotiation", "InvalidChecksumList",
     "NonProtocolOutput", "InvalidProtocolPrefix"}

\* Mutant: an end of file after the set-up also starts the second try.
MutFallbackOnAnyEof(e) ==
    e.kind \in NegotiationErrors \cup {"UnexpectedEof", "FileListError", "TransferEof"}

\* Mutant: a failed negotiation does not start it.
MutFallbackNarrow(e) == e.setup /\ e.kind = "UnexpectedEof"

\* An end of file only counts while the session is being set up; in the file
\* list it arrives as a FileListError, which is_unexpected_eof does not see.
should_fallback_to_protocol27(e) ==
    \/ e.kind \in NegotiationErrors
    \/ e.setup /\ e.kind = "UnexpectedEof"

--------------------------------------------------------------------------
(* The child process and its pipes. *)

Fresh(noise) == [pc |-> "noise", sel |-> 0, sum |-> NoName, frames |-> 0,
                 noise |-> noise, code |-> 0]

Alive == p.pc # "exited"
Push == client.direction = "push"

Room == Len(toPeer) < PipeCap
CanWrite == Room \/ ~Alive

\* The client sends m and goes on, or finds the pipe broken.
Send(m, next, setup) ==
    /\ CanWrite
    /\ IF Alive
       THEN /\ toPeer' = Append(toPeer, m)
            /\ pc' = next
            /\ UNCHANGED err
       ELSE /\ pc' = "close"
            /\ err' = [kind |-> "BrokenPipe", setup |-> setup]
            /\ UNCHANGED toPeer
    /\ UNCHANGED toClient

Fail(kind, setup) == /\ pc' = "close"
                     /\ err' = [kind |-> kind, setup |-> setup]

AtEof == toClient = << >> /\ ~Alive

\* The client reads to the end of the child's output.
Eof(kind, setup) ==
    /\ AtEof
    /\ Fail(kind, setup)
    /\ UNCHANGED <<toPeer, toClient, sel, sum, frames, effects>>

Receive == /\ toClient # << >>
           /\ toClient' = Tail(toClient)
           /\ UNCHANGED toPeer

m0 == Head(toClient)
Setup == attempt = REMOTE_SHELL_MODERN_PROTOCOL

ClientFrame == UNCHANGED <<client, peer, attempt, stderr, stdin_open, p, faults, result>>

--------------------------------------------------------------------------
(* The session, from the protected arguments to the goodbye. *)

write_remote_shell_protected_args ==
    /\ pc = "args"
    /\ IF client.secluded
       THEN Send("args", "version", FALSE)
       ELSE pc' = "version" /\ UNCHANGED <<err, toPeer, toClient>>
    /\ UNCHANGED <<sel, sum, frames, effects>>
    /\ ClientFrame

write_local_version ==
    /\ pc = "version"
    /\ Send(<<"version", attempt>>, "prefix", Setup)
    /\ UNCHANGED <<sel, sum, frames, effects>>
    /\ ClientFrame


\* exchange_remote_shell_protocol31_handshake wants 31; the protocol 27 one
\* reads the seed before it looks at the version.
ReadPrefix ==
    /\ pc = "prefix"
    /\ \/ Eof("UnexpectedEof", Setup)
       \/ /\ Receive
          /\ LET verdict == validate_protocol_stream_prefix(m0[2])
                 chosen  == negotiate_protocol_version_with_local(m0[2][1], attempt)
             IN IF verdict # "ok" THEN Fail(verdict, Setup) /\ UNCHANGED sel
                ELSE IF Setup /\ chosen # REMOTE_SHELL_MODERN_PROTOCOL
                THEN Fail("UnsupportedProtocol", TRUE) /\ UNCHANGED sel
                ELSE /\ sel' = chosen
                     /\ pc' = IF Setup THEN "flags" ELSE "seed"
                     /\ UNCHANGED err
          /\ UNCHANGED <<sum, frames, effects>>
    /\ ClientFrame

\* The sender of a daemon session names its checksums before it has heard the
\* server's (exchange_protocol31_sender_setup_with_options).
NamesFirst == client.via = "daemon" /\ Push

ReadCompatFlags ==
    /\ pc = "flags"
    /\ \/ Eof("UnexpectedEof", Setup)
       \/ /\ Receive
          /\ pc' = IF ~m0[2] THEN "seed" ELSE IF NamesFirst THEN "offer" ELSE "names"
          /\ UNCHANGED <<err, sel, sum, frames, effects>>
    /\ ClientFrame

OfferChecksums ==
    /\ pc = "offer"
    /\ Send(<<"names", protocol31_client_checksum_list>>, "names", TRUE)
    /\ UNCHANGED <<sel, sum, frames, effects>>
    /\ ClientFrame

ReadChecksumList ==
    /\ pc = "names"
    /\ \/ Eof("UnexpectedEof", TRUE)
       \/ /\ Receive
          /\ LET name == select_protocol31_checksum(protocol31_client_checksum_list, m0[2])
             IN IF m0[2] = <<"not_utf8">>
                THEN Fail("InvalidChecksumList", TRUE) /\ UNCHANGED sum
                ELSE IF name = NoName
                THEN Fail("UnsupportedChecksumNegotiation", TRUE) /\ UNCHANGED sum
                ELSE /\ sum' = name
                     /\ pc' = IF NamesFirst THEN "seed" ELSE "choice"
                     /\ UNCHANGED err
          /\ UNCHANGED <<sel, frames, effects>>
    /\ ClientFrame

WriteChosenChecksum ==
    /\ pc = "choice"
    /\ Send(<<"names", <<sum>>>>, "seed", TRUE)
    /\ UNCHANGED <<sel, sum, frames, effects>>
    /\ ClientFrame

ReadSeed ==
    /\ pc = "seed"
    /\ \/ Eof("UnexpectedEof", Setup)
       \/ /\ Receive
          /\ IF ~Setup /\ sel # REMOTE_SHELL_MVP_PROTOCOL
             THEN Fail("UnsupportedProtocol", FALSE)
             ELSE pc' = "filter" /\ UNCHANGED err
          /\ UNCHANGED <<sel, sum, frames, effects>>
    /\ ClientFrame

\* The empty filter list: a pull always sends it, a push if it deletes.
WriteFilterEnd ==
    /\ pc = "filter"
    /\ IF Push /\ ~client.delete
       THEN pc' = "list" /\ UNCHANGED <<err, toPeer, toClient>>
       ELSE Send("filter", "list", Setup)
    /\ UNCHANGED <<sel, sum, frames, effects>>
    /\ ClientFrame

WriteFileList ==
    /\ pc = "list" /\ Push
    /\ Send("list", "algorithm", Setup)
    /\ UNCHANGED <<sel, sum, frames, effects>>
    /\ ClientFrame

\* Budget, order and path checks of the received list may refuse it.
ReadFileList ==
    /\ pc = "list" /\ ~Push
    /\ \/ Eof("FileListError", Setup) /\ UNCHANGED faults
       \/ /\ Receive
          /\ \/ Fail("BadFileList", FALSE) /\ faults' = faults \cup {"list"}
             \/ pc' = "apply" /\ UNCHANGED <<err, faults>>
          /\ UNCHANGED <<sel, sum, frames, effects>>
    /\ UNCHANGED <<client, peer, attempt, stderr, stdin_open, p, result>>


\* The destination is created, its extras are deleted and its directories
\* made; the name of the checksum is looked up after that.
ApplyFileList ==
    /\ pc = "apply"
    /\ effects' = effects \cup {attempt}
    /\ pc' = "algorithm"
    /\ UNCHANGED <<err, toPeer, toClient, sel, sum, frames>>
    /\ ClientFrame

LookUpChecksum ==
    /\ pc = "algorithm"
    /\ IF Setup /\ sum \notin Computable
       THEN Fail("UnknownAlgorithm", FALSE)
       ELSE pc' = (IF Push THEN "serve" ELSE "request") /\ UNCHANGED err
    /\ UNCHANGED <<toPeer, toClient, sel, sum, frames, effects>>
    /\ ClientFrame

RequestFiles ==
    /\ pc = "request"
    /\ Send("request", "receive", FALSE)
    /\ UNCHANGED <<sel, sum, frames, effects>>
    /\ ClientFrame

\* A frame of data, or a local failure: a full disk, a bad checksum, the deadline.
ReceiveFiles ==
    /\ pc = "receive"
    /\ \/ Eof("TransferEof", FALSE) /\ UNCHANGED faults
       \/ /\ Receive
          /\ \/ /\ m0 = "data" /\ frames' = frames + 1
                /\ UNCHANGED <<pc, err, faults>>
             \/ /\ m0 = "data" /\ Fail("LocalError", FALSE)
                /\ faults' = faults \cup {"local"}
                /\ UNCHANGED frames
             \/ /\ m0 = "done" /\ pc' = "close"
                /\ UNCHANGED <<err, frames, faults>>
          /\ UNCHANGED <<sel, sum, effects>>
    /\ UNCHANGED <<client, peer, attempt, stderr, stdin_open, p, result>>

\* serve_remote_receiver_requests: wait for the request, send the frames,
\* wait for the goodbye.
ServeRequests ==
    /\ pc = "serve"
    /\ \/ Eof("TransferEof", FALSE)
       \/ /\ Receive
          /\ pc' = (IF m0 = "request" THEN "send" ELSE "close")
          /\ UNCHANGED <<err, sel, sum, frames, effects>>
    /\ ClientFrame

SendFrame ==
    /\ pc = "send"
    /\ Send("data", IF frames + 1 = DataFrames THEN "serve" ELSE "send", FALSE)
    /\ frames' = IF Alive THEN frames + 1 ELSE frames
    /\ UNCHANGED <<sel, sum, effects>>
    /\ ClientFrame

--------------------------------------------------------------------------
(* The end of a session. *)

\* finish_input; a daemon connection is simply dropped.
finish_input ==
    /\ pc = "close"
    /\ stdin_open' = FALSE
    /\ IF client.via = "daemon"
       THEN /\ pc' = "reported"
            /\ result' = IF err = NoError THEN "ok" ELSE "failed"
       ELSE pc' = "wait" /\ UNCHANGED result
    /\ UNCHANGED <<client, peer, attempt, err, sel, sum, frames, toPeer, toClient, stderr,
                   p, effects, faults>>

\* Mutant: stderr is read after the child has ended.
MutDrainAfterWait == /\ stderr > 0 /\ pc = "wait" /\ ~Alive
                     /\ stderr' = stderr - 1
                     /\ UNCHANGED <<client, peer, attempt, pc, err, sel, sum, frames, toPeer,
                                    toClient, stdin_open, p, effects, faults, result>>

\* The thread that spawn starts reads stderr to its end.
drain_stderr ==
    /\ stderr > 0
    /\ stderr' = stderr - 1
    /\ UNCHANGED <<client, peer, attempt, pc, err, sel, sum, frames, toPeer, toClient,
                   stdin_open, p, effects, faults, result>>

ChildEnded == ~Alive /\ stderr = 0

\* Whether the fallback is allowed: the plan chose 31 by itself.
MayRetry == /\ attempt = REMOTE_SHELL_MODERN_PROTOCOL
            /\ client.protocol = 0
            /\ should_fallback_to_protocol27(err)

\* A new child, new pipes, protocol 27.
execute_remote_shell_protocol27_fallback ==
    /\ pc = "wait" /\ ChildEnded
    /\ err # NoError /\ MayRetry
    /\ attempt' = REMOTE_SHELL_MVP_PROTOCOL
    /\ pc' = "args"
    /\ err' = NoError
    /\ sel' = 0 /\ sum' = NoName /\ frames' = 0
    /\ toPeer' = << >> /\ toClient' = << >>
    /\ stdin_open' = TRUE
    /\ p' = Fresh(peer.noise)
    /\ UNCHANGED <<client, peer, stderr, effects, faults, result>>

\* Mutant: the child's exit status is not looked at.
MutIgnoreStatus == err = NoError

\* A session counts only with the child's exit status.
Succeeded == err = NoError /\ p.code = 0

Report ==
    /\ pc = "wait" /\ ChildEnded
    /\ err = NoError \/ ~MayRetry
    /\ pc' = "reported"
    /\ result' = IF Succeeded THEN "ok" ELSE "failed"
    /\ UNCHANGED <<client, peer, attempt, err, sel, sum, frames, toPeer, toClient, stderr,
                   stdin_open, p, effects, faults>>

--------------------------------------------------------------------------
(* The peer. *)

PeerFrame == UNCHANGED <<client, peer, attempt, pc, err, sel, sum, frames, stdin_open, result>>
Exit(code) == p' = [p EXCEPT !.pc = "exited", !.code = code]

Say(m, next) ==
    /\ Len(toClient) < PipeCap
    /\ toClient' = Append(toClient, m)
    /\ p' = [p EXCEPT !.pc = next]
    /\ UNCHANGED toPeer

\* The next message of the client.
Hear == /\ toPeer # << >>
        /\ toPeer' = Tail(toPeer)
        /\ UNCHANGED toClient
heard == Head(toPeer)

PeerNoise ==
    /\ p.pc = "noise"
    /\ IF p.noise > 0
       THEN /\ stderr < PipeCap
            /\ stderr' = stderr + 1
            /\ p' = [p EXCEPT !.noise = @ - 1]
       ELSE /\ p' = [p EXCEPT !.pc = IF client.via = "daemon" THEN "flags"
                                     ELSE IF client.secluded THEN "args" ELSE "prefix",
                              !.sel = IF client.via = "daemon" THEN 31 ELSE 0]
            /\ UNCHANGED stderr
    /\ UNCHANGED <<toPeer, toClient, effects, faults>>
    /\ PeerFrame

AfterPrefix == IF peer.version = 0 THEN "leave" ELSE "version"

PeerSpeaks ==
    /\ \/ p.pc = "prefix" /\ Say(<<"prefix", peer.prefix>>, AfterPrefix)
       \/ p.pc = "flags" /\ Say(<<"flags", peer.negotiates>>,
                                IF peer.negotiates THEN "names" ELSE "seed")
       \/ p.pc = "names" /\ Say(<<"names", peer.sums>>, "choice")
       \/ p.pc = "seed" /\ Say("seed", IF Push /\ ~client.delete THEN "list" ELSE "filter")
       \/ p.pc = "list" /\ ~Push /\ Say("list", "request")
       \/ p.pc = "ask" /\ Say("request", "take")
       \/ p.pc = "bye" /\ Say("done", "leave")
    /\ UNCHANGED <<stderr, effects, faults>>
    /\ PeerFrame

PeerSendsFrame ==
    /\ p.pc = "data"
    /\ Len(toClient) < PipeCap
    /\ toClient' = Append(toClient, "data")
    /\ p' = [p EXCEPT !.frames = @ + 1, !.pc = IF p.frames + 1 = DataFrames THEN "bye" ELSE "data"]
    /\ UNCHANGED <<toPeer, stderr, effects, faults>>
    /\ PeerFrame

HearVersion ==
    LET s == Lesser(heard[2], peer.version)
    IN p' = [p EXCEPT !.sel = s, !.pc = IF s >= 30 THEN "flags" ELSE "seed"]

\* The server goes by the client's list, too.
HearNames ==
    LET name == FirstOf(heard[2], NamesOf(peer.sums))
    IN IF name = NoName THEN Exit(2)
       ELSE p' = [p EXCEPT !.sum = name, !.pc = "seed"]

HearFrame ==
    p' = [p EXCEPT !.frames = @ + 1, !.pc = IF p.frames + 1 = DataFrames THEN "bye" ELSE "take"]

PeerListens ==
    /\ Hear
    /\ \/ p.pc = "args" /\ p' = [p EXCEPT !.pc = "prefix"]
       \/ p.pc = "version" /\ HearVersion
       \/ p.pc = "choice" /\ HearNames
       \/ p.pc = "filter" /\ p' = [p EXCEPT !.pc = "list"]
       \/ p.pc = "request" /\ p' = [p EXCEPT !.pc = "data"]
       \/ p.pc = "take" /\ HearFrame
    /\ UNCHANGED <<stderr, effects, faults>>
    /\ PeerFrame

\* The receiver of a push has the list: from here on it deletes and writes.
PeerTakesList ==
    /\ p.pc = "list" /\ Push
    /\ Hear
    /\ p' = [p EXCEPT !.pc = "ask"]
    /\ effects' = effects \cup {attempt}
    /\ UNCHANGED <<stderr, faults>>
    /\ PeerFrame

\* The client has closed the pipe and there is nothing left in it.
PeerInputEnds ==
    /\ \/ p.pc \in {"args", "version", "choice", "filter", "request", "take"}
       \/ p.pc = "list" /\ Push
    /\ toPeer = << >> /\ ~stdin_open
    /\ Exit(12)
    /\ UNCHANGED <<toPeer, toClient, stderr, effects, faults>>
    /\ PeerFrame

\* Its exit status also tells of errors the protocol did not carry.
PeerLeaves ==
    /\ p.pc = "leave"
    /\ \E code \in IF peer.version = 0 THEN {127} ELSE {0, 23} :
           /\ Exit(code)
           /\ faults' = IF code = 23 THEN faults \cup {"partial"} ELSE faults
    /\ UNCHANGED <<toPeer, toClient, stderr, effects>>
    /\ PeerFrame

\* The connection is lost, or the process is killed.
PeerDies ==
    /\ Alive
    /\ Exit(255)
    /\ faults' = faults \cup {"died"}
    /\ UNCHANGED <<toPeer, toClient, stderr, effects>>
    /\ PeerFrame

--------------------------------------------------------------------------

Init ==
    /\ client \in Clients
    /\ peer \in Peers
    /\ client.via = "daemon" => peer.version = 31 /\ peer.noise = 0
    /\ attempt = IF client.protocol = 27 THEN 27 ELSE 31
    /\ pc = IF client.via = "daemon" THEN "flags" ELSE "args"
    /\ sel = IF client.via = "daemon" THEN 31 ELSE 0
    /\ err = NoError
    /\ sum = NoName
    /\ frames = 0
    /\ toPeer = << >> /\ toClient = << >>
    /\ stderr = 0
    /\ stdin_open = TRUE
    /\ p = Fresh(peer.noise)
    /\ effects = {}
    /\ faults = {}
    /\ result = "none"

Client ==
    \/ write_remote_shell_protected_args
    \/ write_local_version
    \/ ReadPrefix
    \/ ReadCompatFlags
    \/ OfferChecksums
    \/ ReadChecksumList
    \/ WriteChosenChecksum
    \/ ReadSeed
    \/ WriteFilterEnd
    \/ WriteFileList
    \/ ReadFileList
    \/ ApplyFileList
    \/ LookUpChecksum
    \/ RequestFiles
    \/ ReceiveFiles
    \/ ServeRequests
    \/ SendFrame
    \/ finish_input
    \/ execute_remote_shell_protocol27_fallback
    \/ Report

Peer == PeerNoise \/ PeerSpeaks \/ PeerSendsFrame \/ PeerListens \/ PeerTakesList
        \/ PeerInputEnds \/ PeerLeaves

Next == Client \/ drain_stderr \/ Peer \/ PeerDies

\* The client's thread, its drain thread and the peer's process are scheduled;
\* nobody has to die.
Fairness == WF_vars(Client) /\ WF_vars(drain_stderr) /\ WF_vars(Peer)

Spec == Init /\ [][Next]_vars
FairSpec == Spec /\ Fairness

--------------------------------------------------------------------------
(* Properties. *)

TypeOK ==
    /\ attempt \in {27, 31}
    /\ err \in [kind : ErrorKinds, setup : BOOLEAN]
    /\ sel \in 0 .. 32
    /\ frames \in 0 .. DataFrames
    /\ Len(toPeer) <= PipeCap /\ Len(toClient) <= PipeCap
    /\ stderr \in 0 .. PipeCap
    /\ effects \subseteq {27, 31}
    /\ result \in {"none", "ok", "failed"}

(* The second session starts on an untouched destination: whatever made the *)
(* first one fail happened before either side had deleted or written.  A    *)
(* transfer that breaks half-way must not be quietly repeated by another    *)
(* protocol over what it left.                                              *)
RetryIsClean == attempt = 27 => 31 \notin effects

(* Both sides of a session that moves data agree on the protocol and on the *)
(* checksum that verifies the data.                                         *)
InAgreement ==
    pc \in {"request", "receive", "serve", "send"} /\ Alive =>
        sel = p.sel /\ sum = p.sum

(* A transfer is reported as done only if the data went over, the effects   *)
(* are those of this session and the peer's process, which knows of errors  *)
(* the protocol does not carry, exited with success.                        *)
OkMeansDone ==
    result = "ok" => /\ frames = DataFrames
                     /\ effects = {attempt}
                     /\ client.via = "shell" => p.code = 0

(* The fallback reaches every rsync it is meant for: with a peer that       *)
(* speaks 27 to 32 and an unforced protocol, a run only fails if something  *)
(* outside the negotiation did, or the user asked for a checksum that the   *)
(* peer has and this program cannot compute.                                *)
FailsForAReason ==
    /\ result = "failed" /\ client.via = "shell" /\ client.protocol = 0
    /\ peer.version \in 27 .. 32
    => faults # {} \/ err.kind = "UnknownAlgorithm"

(* What is reported is what happened: success means that the data went      *)
(* over, failure that something went wrong (with all variables typed).      *)
OutcomeSound == TypeOK /\ OkMeansDone /\ FailsForAReason

(* Nobody waits for ever, with one exception the code allows: the client    *)
(* has given up and waits for the child, which waits for room in the pipe   *)
(* that the client has stopped reading but still holds open.                *)
Unread == /\ pc = "wait" /\ Alive
          /\ Len(toClient) = PipeCap
OnlyTheUnreadPipeHangs == <>[](result # "none" \/ Unread)

==========================================================================
