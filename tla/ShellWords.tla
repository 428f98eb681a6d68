----------------------------- MODULE ShellWords -----------------------------
(***************************************************************************)
(* The command line of the remote-shell transport.  The client turns the   *)
(* argument vector of the server into one string, hands it to ssh, and the *)
(* login shell of the other host splits it into words again                *)
(* (rsync-transport/src/remote_shell.rs; an older copy of the same two     *)
(* functions is in rsync-protocol/src/session.rs).  The other direction is *)
(* the value of -e, which the client splits itself.                        *)
(*                                                                         *)
(* A string is a sequence of characters; Chars holds one character of each *)
(* class the two splitters and the two quoters tell apart.                 *)
(***************************************************************************)
EXTENDS Naturals, Sequences, SequencesExt

CONSTANTS
    Chars,      \* the characters of an argument
    MaxLen      \* bound: characters in one argument

VARIABLES
    argv,       \* the server's argument vector, program first
    old_args,   \* --old-args
    command,    \* the command handed to ssh, << >> before it is built
    words,      \* what the other host's shell makes of it
    pc

vars == <<argv, old_args, command, words, pc>>

Words == UNION {[1 .. n -> Chars] : n \in 0 .. MaxLen}
Program == <<"r">>
FilenameMark == <<".">>

\* Characters both quoters pass as they are (":" and "@" are safe to one only,
\* "=" to the other; quoting them or not is the same to the shell).
Safe == {"r", ".", "a", "-"}

--------------------------------------------------------------------------
(* Quoting. *)

\* Mutant: quotes of the argument are not escaped.
MutKeepQuotes(arg, escaped) == arg

\* replace('\'', ...): every quote of the argument becomes Escaped.
ReplaceQuotes(arg, escaped) ==
    FlattenSeq([i \in DOMAIN arg |-> IF arg[i] = "'" THEN escaped ELSE <<arg[i]>>])

\* '"'"' : leave the quotes, quote the quote, enter the quotes again
DoubleQuoted == <<"'", "\"", "'", "\"", "'">>
\* '\'' : the copy in rsync-protocol escapes it instead
BackslashQuoted == <<"'", "\\", "'", "'">>

shell_quote(arg) ==
    IF arg = << >> THEN <<"'", "'">>
    ELSE IF \A i \in DOMAIN arg : arg[i] \in Safe THEN arg
    ELSE <<"'">> \o ReplaceQuotes(arg, DoubleQuoted) \o <<"'">>

\* Mutant: an empty argument is not quoted.
MutSessionQuoteEmpty(arg) ==
    IF \A i \in DOMAIN arg : arg[i] \in Safe THEN arg
    ELSE <<"'">> \o ReplaceQuotes(arg, BackslashQuoted) \o <<"'">>

session_shell_quote(arg) ==
    IF arg # << >> /\ \A i \in DOMAIN arg : arg[i] \in Safe THEN arg
    ELSE <<"'">> \o ReplaceQuotes(arg, BackslashQuoted) \o <<"'">>

\* Mutant: --old-args leaves the options to the shell too.
MutAfterMark(args, i) == \E j \in 1 .. i : args[j] = FilenameMark \/ j = 1

\* The arguments that follow the first "." are file names.
AfterMark(args, i) == \E j \in 1 .. i - 1 : args[j] = FilenameMark

\* The program goes out as it is (--rsync-path may hold several words); every
\* argument is quoted, but --old-args leaves the file names to the shell.
remote_server_command(argvec, old) ==
    LET args == Tail(argvec)
    IN Head(argvec) \o FlattenSeq(
           [i \in DOMAIN args |->
               <<" ">> \o IF old /\ AfterMark(args, i) THEN args[i]
                          ELSE shell_quote(args[i])])

\* session.rs quotes all of it, the program too.
shell_join(argvec) ==
    FlattenSeq([i \in DOMAIN argvec |->
        (IF i = 1 THEN << >> ELSE <<" ">>) \o session_shell_quote(argvec[i])])

--------------------------------------------------------------------------
(* Splitting. *)

Start == [out |-> << >>, word |-> << >>, some |-> FALSE,
          single |-> FALSE, double |-> FALSE, escape |-> FALSE]

Put(s, ch) == [s EXCEPT !.word = Append(@, ch), !.some = TRUE, !.escape = FALSE]
EndWord(s) == IF s.some
              THEN [s EXCEPT !.out = Append(@, s.word), !.word = << >>, !.some = FALSE]
              ELSE s

\* One character of parse_remote_shell_command: a backslash takes the next
\* character whatever it is, also between double quotes.
RshStep(s, ch) ==
    IF s.escape THEN Put(s, ch)
    ELSE IF ch = "'" /\ ~s.double THEN [s EXCEPT !.single = ~@, !.some = TRUE]
    ELSE IF ch = "\"" /\ ~s.single THEN [s EXCEPT !.double = ~@, !.some = TRUE]
    ELSE IF ch = "\\" /\ ~s.single THEN [s EXCEPT !.escape = TRUE]
    ELSE IF ch = " " /\ ~s.single /\ ~s.double THEN EndWord(s)
    ELSE Put(s, ch)

RshFail == <<<<"error">>>>

parse_remote_shell_command(text) ==
    LET s == EndWord(FoldLeft(RshStep, Start, text))
    IN IF s.escape \/ s.single \/ s.double \/ s.out = << >> THEN RshFail ELSE s.out

\* The shell of the other host (POSIX word splitting): inside double quotes a
\* backslash only escapes itself, a double quote and a dollar; an unquoted
\* dollar is an expansion, which loses the character.
ShStep(s, ch) ==
    IF s.escape THEN IF s.double /\ ch \notin {"\\", "\"", "$"}
                     THEN Put(Put(s, "\\"), ch) ELSE Put(s, ch)
    ELSE IF ch = "'" /\ ~s.double THEN [s EXCEPT !.single = ~@, !.some = TRUE]
    ELSE IF ch = "\"" /\ ~s.single THEN [s EXCEPT !.double = ~@, !.some = TRUE]
    ELSE IF ch = "\\" /\ ~s.single THEN [s EXCEPT !.escape = TRUE]
    ELSE IF ch = " " /\ ~s.single /\ ~s.double THEN EndWord(s)
    ELSE IF ch = "$" /\ ~s.single THEN s
    ELSE Put(s, ch)

Sh(text) == EndWord(FoldLeft(ShStep, Start, text)).out

--------------------------------------------------------------------------
(* Next-state relation. *)

Init == /\ argv \in {<<Program, a, b, c>> : a \in {FilenameMark, <<"-">>}, b \in Words,
                                             c \in Words}
        /\ old_args \in BOOLEAN
        /\ command = << >>
        /\ words = << >>
        /\ pc = "build"

build_remote_shell_command ==
    /\ pc = "build"
    /\ command' = remote_server_command(argv, old_args)
    /\ pc' = "spawn"
    /\ UNCHANGED <<argv, old_args, words>>

\* ssh hands the command to the login shell of the other host.
RemoteShellSplits ==
    /\ pc = "spawn"
    /\ words' = Sh(command)
    /\ pc' = "running"
    /\ UNCHANGED <<argv, old_args, command>>

Next == build_remote_shell_command \/ RemoteShellSplits

Spec == Init /\ [][Next]_vars

--------------------------------------------------------------------------
(* Properties. *)

TypeOK == /\ old_args \in BOOLEAN
          /\ argv \in Seq(Seq(Chars \cup Safe))
          /\ command \in Seq(Chars \cup Safe \cup {" ", "'", "\""})
          /\ pc \in {"build", "spawn", "running"}

(* Without --old-args the server gets exactly the arguments the client      *)
(* planned, whatever spaces, quotes, backslashes and dollars they hold: two *)
(* quoting levels are in play, and one forgotten character hands a file     *)
(* name to the other host's shell.                                          *)
ShellGetsArgv == pc = "running" /\ ~old_args => words = argv

(* --old-args gives up the quoting of the file names and of nothing else:   *)
(* the words up to the "." are still those of the plan.                     *)
OldArgsKeepsOptions ==
    pc = "running" /\ old_args =>
        LET n == IF \E i \in DOMAIN argv : argv[i] = FilenameMark
                 THEN CHOOSE i \in DOMAIN argv :
                          /\ argv[i] = FilenameMark
                          /\ \A j \in 1 .. i - 1 : argv[j] # FilenameMark
                 ELSE Len(argv)
        IN /\ Len(words) >= n
           /\ SubSeq(words, 1, n) = SubSeq(argv, 1, n)

(* What display_command prints may be given back with -e, and the older     *)
(* quoting of rsync-protocol means the same to the shell as the newer one.  *)
QuotersAgree ==
    pc = "running" =>
        /\ parse_remote_shell_command(remote_server_command(argv, FALSE)) = argv
        /\ Sh(shell_join(argv)) = argv

==========================================================================
