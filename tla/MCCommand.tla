------------------------------ MODULE MCCommand ------------------------------
(***************************************************************************)
(* From the command line to the other end: the options and the arguments   *)
(* they become (ServerArgs), the filter rules (FilterRules), the operands  *)
(* (OperandPlan) and the quoting of the arguments for the shell of the     *)
(* other host (ShellWords).  A behaviour is of one of the four; the others *)
(* are at rest in it.                                                      *)
(***************************************************************************)
EXTENDS Naturals, Sequences

VARIABLES
    args, cli, direction, stage, argv, server,  \* of ServerArgs
    paths, flags, outcome,                      \* of OperandPlan
    vector, old_args, command, words, pc,       \* of ShellWords
    pieces, text, given, rules, sent, remote, step  \* of FilterRules

optionVars == <<args, cli, direction, stage, argv, server>>
operandVars == <<paths, flags, outcome>>
shellVars == <<vector, old_args, command, words, pc>>
filterVars == <<pieces, text, given, rules, sent, remote, step>>

\* -a and the options it stands for, and what the two ends must agree about
Vocabulary ==
    {"-a", "--no-archive", "-r", "--no-recursive", "-t", "--no-times", "--owner", "--no-owner",
     "--chown=U", "--chown=:G", "--no-group", "-D", "--no-D", "--no-devices",
     "--no-perms", "--links", "--copy-links", "--safe-links", "--no-links", "--acls", "--xattrs",
     "--fake-super", "--atimes", "--crtimes", "--checksum", "--no-checksum", "--size-only",
     "--ignore-times", "--append-verify", "--whole-file", "--inplace", "--partial-dir=D",
     "--no-partial", "-n", "--delete", "--delete-delay", "--no-delete", "--numeric-ids",
     "--usermap=M", "-z", "--compress-choice=zlib", "--compress-level=N", "--skip-compress=S",
     "--no-compress", "--secluded-args", "--old-args"}

\* Every kind of operand that the parsers tell apart: paths and host:path,
\* host::module, rsync://host/module, and "::" behind another colon
Plain(colons, lefts, rights) == [url : {FALSE}, colons : {colons}, left : lefts, right : rights]
Operands ==
    Plain(0, {"dir"}, {""}) \cup
    Plain(1, {"", "letter", "dir", "hostA", "hostB"}, {"name"}) \cup Plain(1, {"letter", "hostA"}, {""}) \cup
    Plain(2, {"letter", "hostA"}, {"", "name"}) \cup Plain(2, {"", "dir"}, {"name"}) \cup
    Plain(2, {"hostB"}, {"/name", "name::name"}) \cup
    [url : {TRUE}, colons : {0}, left : {"hostA"}, right : {"", "name"}] \cup
    [url : {TRUE}, colons : {0}, left : {"", "host:99999"}, right : {"name"}] \cup
    Plain(1, {"", "letter", "dir", "hostA"}, {"name::name"}) \cup
    Plain(1, {"hostA"}, {"name::", "name::/name", "99999::name"})

\* A character of each class: safe, the file-name mark, blank, the two
\* quotes, the escape and an expansion
Chars == {"a", ".", " ", "'", "\"", "\\", "$"}

\* Filter options: patterns of every shape, rules for one side and for both,
\* records of rule files with and without a rule of their own
Patterns == {<<"a">>, <<"*">>, <<"/", "a">>, <<"a", "/">>, <<"a", "/", "b">>, <<"a", "/", "*", "*", "*">>, <<"/">>}
Filters ==
    {<<"-", " ", "b">>, <<"+", " ", "a">>, <<"P", " ", "b">>, <<"H", " ", "*">>, <<"!">>,
     <<"R", ",", "s", "r", " ", "a">>, <<"-", ",", "r", " ", "a">>, <<":", " ", "a">>, <<"-", ",", "p", " ", "*">>}
Records ==
    {<<"a">>, <<"#", "a">>, <<"\\", "#", "a">>, <<"R">>, <<"exclude", " ", "b">>, <<"+", " ", "b">>, <<"!">>,
     <<"P", " ", "b">>, <<"H", " ", "a">>, <<"-", "s", " ", "b">>, <<"H", "s", "r", " ", "*">>}
FilterOptions ==
    ({"includes", "excludes"} \X Patterns) \cup ({"filters"} \X Filters) \cup
    ({"include_from", "exclude_from"} \X Records) \cup {<<"cvs_exclude", <<>> >>}

\* What patterns are made of
PatternPieces ==
    {<<"a">>, <<"b">>, <<"/">>, <<"*">>, <<"*", "*">>, <<"?">>,
     <<"[", "a", "]">>, <<"[", "!", "a", "]">>, <<"[", "a", "-", "b", "]">>}

CONSTANTS MaxOptions, MaxPaths, MaxLen, MaxRules, MaxGlob

Options == INSTANCE ServerArgs
Plan == INSTANCE OperandPlan
Shell == INSTANCE ShellWords WITH argv <- vector
Rules == INSTANCE FilterRules WITH
    Given <- FilterOptions, CvsPatterns <- << <<"b">> >>,
    Paths <- {<<"a">>, <<"b">>, <<"a", "/", "b">>, <<"b", "/", "a">>},
    Pieces <- PatternPieces, Letters <- {"a", "b", "/"}

OptionsRest ==
    /\ Options!ParseInit
    /\ direction = "Pull" /\ stage = "refused" /\ argv = <<>>
    /\ server = Options!DefaultTransferArgs
OperandsRest == paths = <<>> /\ flags = {} /\ outcome = "rendered"
ShellRest ==
    /\ vector = <<Shell!Program>> /\ words = vector
    /\ old_args = FALSE /\ command = <<>> /\ pc = "running"

RulesRest ==
    /\ pieces = <<>> /\ text = <<>> /\ given = Rules!NoOptions
    /\ rules = <<>> /\ sent = <<>> /\ remote = <<>> /\ step = "refused"

Init ==
    \/ Options!Init /\ OperandsRest /\ ShellRest /\ RulesRest
    \/ OptionsRest /\ Plan!Init /\ ShellRest /\ RulesRest
    \/ OptionsRest /\ OperandsRest /\ Shell!Init /\ RulesRest
    \/ OptionsRest /\ OperandsRest /\ ShellRest /\ Rules!Init

Next ==
    \/ Options!Next /\ UNCHANGED <<operandVars, shellVars, filterVars>>
    \/ Plan!Next /\ UNCHANGED <<optionVars, shellVars, filterVars>>
    \/ Shell!Next /\ UNCHANGED <<optionVars, operandVars, filterVars>>
    \/ Rules!Next /\ UNCHANGED <<optionVars, operandVars, shellVars>>

Spec == Init /\ [][Next]_<<optionVars, operandVars, shellVars, filterVars>>

-----------------------------------------------------------------------------
\* Properties, each put together from those of the modules

\* The options on their way: the plan preserves what the last option says
\* (options.rs), and client and daemon then read and write the same stream
\* (remote_args.rs, DaemonTransferArgs), but for the exceptions listed, on which
\* they do differ.
OptionsArrive ==
    /\ Options!TypeOK /\ Options!LastWordDecides
    /\ Options!EndsAgree /\ Options!ExceptionsReal

\* No mixture of operands is executed as another transfer (plan/mod.rs).
DoesWhatWasAsked == Plan!DoesWhatWasAsked

\* The server gets the arguments of the plan through the shell, with --old-args
\* at least the options, and all quoting functions of the repository mean the
\* same (remote_server_command, shell_quote, parse_remote_shell_command).
ArgvArrives ==
    /\ Shell!TypeOK /\ Shell!ShellGetsArgv
    /\ Shell!OldArgsKeepsOptions /\ Shell!QuotersAgree

\* The matcher means what its patterns stand for (glob_matches).
GlobMeansPieces == Rules!GlobMeansPieces

\* The rules on their way: client and daemon decide alike about every path, and
\* what rules for both sides keep from being sent, --delete keeps on the other
\* end (remote_receiver_filter_args_from_cli, apply_option_arg,
\* delete_is_protected).
RulesArrive == Rules!TypeOK /\ Rules!EndsDecideAlike /\ Rules!ExcludedIsKept
=============================================================================
