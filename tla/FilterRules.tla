---------------------------- MODULE FilterRules ----------------------------
(***************************************************************************)
(* Filter rules from the command line to the two ends of a transfer: the   *)
(* parser and the matcher of rsync-filter (rule.rs, matcher.rs), the rules *)
(* that the client builds for itself and the arguments that it makes of    *)
(* them for the other end (plan/filters.rs), the rules that the daemon     *)
(* reads from those arguments (DaemonTransferArgs), and the walks over a   *)
(* path that ask them (remote_source_path_is_filtered,                     *)
(* delete_is_protected).                                                   *)
(*                                                                         *)
(* Texts are sequences of characters; a long keyword ("exclude") is one    *)
(* element.  The patterns of -C are represented by CvsPatterns.            *)
(***************************************************************************)
EXTENDS Naturals, SequencesExt

CONSTANTS
    Given,        \* options: <<kind, text>>, a record of a file counts as one
    CvsPatterns,  \* CVS_EXCLUDE_PATTERNS, a sequence
    Paths,        \* paths that rules are asked about
    Pieces,       \* pieces of patterns
    Letters,      \* characters of texts to match
    MaxRules,     \* bound: options
    MaxGlob       \* bound: pieces of a pattern and characters of a text

VARIABLES
    pieces, text,  \* a pattern, in pieces, and what it is matched with
    given,         \* Cli: the filter options
    rules,         \* plan.filter_rules
    sent,          \* includes, excludes and filters of RemoteServerOptions
    remote,        \* DaemonTransferArgs::filter_rules
    step           \* "glob"; "given", "planned", "served", "refused", "unreadable"

vars == <<pieces, text, given, rules, sent, remote, step>>

-----------------------------------------------------------------------------
(* matcher.rs                                                              *)
Ascii == <<" ", "!", "#", "*", "+", ",", "-", ".", "/", ":", "?", "H", "P", "R", "S",
           "[", "\\", "]", "^", "a", "b", "c", "p", "r", "s">>
Code(c) == CHOOSE i \in DOMAIN Ascii : Ascii[i] = c

(* Backslashes become slashes, repeated slashes one.                       *)
normalize_filter_path(s) ==
    LET slashed == [i \in DOMAIN s |-> IF s[i] = "\\" THEN "/" ELSE s[i]]
        keep == [i \in DOMAIN s |-> i = 1 \/ slashed[i] # "/" \/ slashed[i - 1] # "/"]
    IN  FoldLeft(LAMBDA out, i : IF keep[i] THEN Append(out, slashed[i]) ELSE out,
                 <<>>, [i \in DOMAIN s |-> i])

(* CharacterClass::parse: the ranges and the place behind the bracket, 0   *)
(* when the class is not closed.                                           *)
Class(p, open) ==
    LET negated == open < Len(p) /\ p[open + 1] \in {"!", "^"}
        first == IF negated THEN open + 2 ELSE open + 1
        scan[pos \in first .. Len(p) + 3] ==
            IF pos > Len(p) THEN [next |-> 0, ranges |-> {}]
            ELSE IF p[pos] = "]" /\ pos > first THEN [next |-> pos + 1, ranges |-> {}]
            ELSE IF pos + 2 <= Len(p) /\ p[pos + 1] = "-" /\ p[pos + 2] # "]"
                 THEN [scan[pos + 3] EXCEPT !.ranges = @ \cup {<<p[pos], p[pos + 2]>>}]
                 ELSE [scan[pos + 1] EXCEPT !.ranges = @ \cup {<<p[pos], p[pos]>>}]
    IN  [next |-> scan[first].next, negated |-> negated, ranges |-> scan[first].ranges]

ClassMatches(class, c) ==
    (\E r \in class.ranges : Code(r[1]) <= Code(c) /\ Code(c) <= Code(r[2])) # class.negated

(* Mutant: a single star is satisfied to meet a slash                      *)
StarStopsEverywhere(recursive, c) == TRUE

(* Whether a star may take character c.                                    *)
StarTakes(recursive, c) == recursive \/ c # "/"

glob_matches(pattern, string) ==
    LET p == normalize_filter_path(pattern)
        t == normalize_filter_path(string)
        End(i) == CHOOSE e \in i .. Len(p) + 1 :
                      /\ \A k \in i .. e - 1 : p[k] = "*"
                      /\ e = Len(p) + 1 \/ p[e] # "*"
        at[i \in 1 .. Len(p) + 1, j \in 1 .. Len(t) + 1] ==
            IF i > Len(p) THEN j > Len(t)
            ELSE IF p[i] = "*"
                 THEN \E k \in j .. Len(t) + 1 :
                        /\ \A m \in j .. k - 1 : StarTakes(End(i) - i >= 2, t[m])
                        /\ at[End(i), k]
            ELSE IF j > Len(t) THEN FALSE
            ELSE IF p[i] = "?" THEN t[j] # "/" /\ at[i + 1, j + 1]
            ELSE LET class == Class(p, i)
                 IN  IF p[i] = "[" /\ class.next > 0
                     THEN t[j] # "/" /\ ClassMatches(class, t[j]) /\ at[class.next, j + 1]
                     ELSE t[j] = p[i] /\ at[i + 1, j + 1]
    IN  at[1, 1]

-----------------------------------------------------------------------------
(* rule.rs: patterns and rules.                                            *)
Trim(s) ==
    LET ink == {i \in DOMAIN s : s[i] # " "}
    IN  IF ink = {} THEN <<>> ELSE SubSeq(s, Min(ink), Max(ink))

StripDots(s) ==
    LET strip[n \in 0 .. Len(s)] ==
            IF n = 0 THEN s
            ELSE IF IsPrefix(<<".", "/">>, strip[n - 1]) THEN SubSeq(strip[n - 1], 3, Len(strip[n - 1]))
            ELSE strip[n - 1]
    IN  strip[Len(s)]

NoPattern == [raw |-> <<>>, body |-> <<>>, anchored |-> FALSE, directory_only |-> FALSE]

(* Pattern::parse; an empty body is an error.                              *)
ParsePattern(raw) ==
    LET all == normalize_filter_path(Trim(raw))
        anchored == IsPrefix(<<"/">>, all)
        free == IF anchored THEN Tail(all) ELSE all
        directory_only == IsSuffix(<<"/">>, free)
    IN  [raw |-> Trim(raw), anchored |-> anchored, directory_only |-> directory_only,
         body |-> StripDots(IF directory_only THEN Front(free) ELSE free)]

Basename(path) == SubSeq(path, Max({0} \cup {i \in DOMAIN path : path[i] = "/"}) + 1, Len(path))
path_suffixes(path) ==
    {path} \cup {SubSeq(path, i + 1, Len(path)) : i \in {k \in DOMAIN path : path[k] = "/"}}

(* Pattern::matches, for a path made of normal components.                 *)
Matches(pattern, path, kind) ==
    LET body == pattern.body
        wide == \E i \in DOMAIN body :
                    body[i] = "/" \/ (i < Len(body) /\ body[i] = "*" /\ body[i + 1] = "*")
        texts == IF pattern.anchored THEN {path}
                 ELSE IF wide THEN path_suffixes(path) ELSE {Basename(path)}
    IN  /\ pattern.directory_only => kind = "Directory"
        /\ \/ kind = "Directory" /\ body = path \o <<"/", "*", "*", "*">>
           \/ \E t \in texts : glob_matches(body, t)

default_sides(action) ==
    CASE action \in {"Hide", "Show"} -> {"Sender"}
      [] action \in {"Protect", "Risk"} -> {"Receiver"}
      [] OTHER -> {"Sender", "Receiver"}

short_action(c) ==
    CASE c = "+" -> "Include" [] c = "-" -> "Exclude" [] c = "H" -> "Hide" [] c = "S" -> "Show"
      [] c = "P" -> "Protect" [] c = "R" -> "Risk" [] c = "!" -> "ClearList" [] c = "." -> "Merge"
      [] c = ":" -> "DirMerge" [] OTHER -> "None"

long_action(word) ==
    CASE word = "include" -> "Include" [] word = "exclude" -> "Exclude" [] word = "hide" -> "Hide"
      [] word = "show" -> "Show" [] word = "protect" -> "Protect" [] word = "risk" -> "Risk"
      [] word \in {"clear", "clear-list"} -> "ClearList" [] word = "merge" -> "Merge"
      [] word = "dir-merge" -> "DirMerge" [] OTHER -> "None"

RuleOf(action, pattern) ==
    [action |-> IF pattern.body = <<>> THEN "Error" ELSE action,
     pattern |-> pattern, sides |-> default_sides(action), perishable |-> FALSE]
NewRule(action, raw) == RuleOf(action, ParsePattern(raw))

BadRule == [action |-> "Error", pattern |-> NoPattern, sides |-> {}, perishable |-> FALSE]

(* The sides that modifiers name, or else those of the action.             *)
Modified(rule, modifiers) ==
    LET named == {side \in {"Sender", "Receiver"} :
                    (IF side = "Sender" THEN "s" ELSE "r") \in modifiers}
    IN  [rule EXCEPT !.sides = IF named = {} THEN @ ELSE named, !.perishable = "p" \in modifiers]

parse_filter(input) ==
    LET t == Trim(input)
        blank == {i \in DOMAIN t : t[i] = " "}
        head == IF blank = {} THEN t ELSE SubSeq(t, 1, Min(blank) - 1)
        action == IF head = <<>> THEN "None"
                  ELSE IF short_action(head[1]) # "None" THEN short_action(head[1]) ELSE long_action(head[1])
        modifiers == {head[i] : i \in 2 .. Len(head)} \ {","}
    IN  IF t = <<"!">> THEN [BadRule EXCEPT !.action = "ClearList", !.sides = default_sides("ClearList")]
        ELSE IF blank = {} \/ action = "None"
                \/ ~ modifiers \subseteq {"s", "r", "p", "e", "n", "w", "x", "-", "+", "!"} THEN BadRule
        ELSE IF action = "ClearList"
             THEN Modified([BadRule EXCEPT !.action = action, !.sides = default_sides(action)], modifiers)
        ELSE Modified(NewRule(action, SubSeq(t, Min(blank) + 1, Len(t))), modifiers)

(* normalize_filter_record: comments and empty records are skipped, an     *)
(* escaped # or blank is unescaped.                                        *)
Skipped(record) == Trim(record) = <<>> \/ Trim(record)[1] = "#"
Unescaped(record) ==
    LET t == Trim(record)
    IN  IF Len(t) > 1 /\ t[1] = "\\" /\ t[2] \in {"#", " "} THEN Tail(t) ELSE t

starts_with_explicit_rule(record) ==
    \/ short_action(record[1]) # "None"
    \/ long_action(record[1]) # "None" /\ \E i \in DOMAIN record : record[i] = " "

FileRule(record, default) ==
    IF starts_with_explicit_rule(record) THEN parse_filter(record) ELSE NewRule(default, record)

parse_filter_file(records, default) ==
    LET kept == SelectSeq(records, LAMBDA r : ~ Skipped(r))
    IN  [i \in DOMAIN kept |-> FileRule(Unescaped(kept[i]), default)]

-----------------------------------------------------------------------------
(* RuleSet                                                                 *)
push(set, rule) == IF rule.action = "ClearList" THEN <<>> ELSE Append(set, rule)
RuleSet(list) == FoldLeft(push, <<>>, list)

decide_for_side(set, path, kind, side) ==
    LET hits == {i \in DOMAIN set :
                    /\ set[i].action \notin {"Merge", "DirMerge"}
                    /\ side \in set[i].sides
                    /\ Matches(set[i].pattern, path, kind)}
    IN  IF hits = {} THEN "Include" ELSE set[Min(hits)].action

(* The path itself and the directories above it, from the top.             *)
Steps(path) == {n \in DOMAIN path : n = Len(path) \/ path[n + 1] = "/"}
KindAt(path, kind, n) == IF n < Len(path) THEN "Directory" ELSE kind

remote_source_path_is_filtered(set, path, kind) ==
    \E n \in Steps(path) :
        decide_for_side(set, SubSeq(path, 1, n), KindAt(path, kind, n), "Sender") \in {"Exclude", "Hide"}

(* Mutant: what lies above the path is not asked                           *)
delete_is_protectedItself(set, path, kind) ==
    decide_for_side(set, path, kind, "Receiver") \in {"Exclude", "Protect"}

delete_is_protected(set, path, kind) ==
    \E n \in Steps(path) :
        decide_for_side(set, SubSeq(path, 1, n), KindAt(path, kind, n), "Receiver") \in {"Exclude", "Protect"}

-----------------------------------------------------------------------------
(* The client's plan.                                                      *)
NoOptions == [includes |-> <<>>, include_from |-> <<>>, excludes |-> <<>>, exclude_from |-> <<>>,
              filters |-> <<>>, cvs_exclude |-> FALSE]

New(list, action) == [i \in DOMAIN list |-> NewRule(action, list[i])]
Parsed(list) == [i \in DOMAIN list |-> parse_filter(list[i])]
FileRules(g) == parse_filter_file(g.include_from, "Include") \o parse_filter_file(g.exclude_from, "Exclude")

(* build_filter_rules, before ClearList takes effect.                      *)
BeforeFilters(g) ==
    (IF g.cvs_exclude THEN New(CvsPatterns, "Exclude") ELSE <<>>) \o
    New(g.includes, "Include") \o parse_filter_file(g.include_from, "Include") \o
    New(g.excludes, "Exclude") \o parse_filter_file(g.exclude_from, "Exclude")
Listed(g) == BeforeFilters(g) \o Parsed(g.filters)

(* Mutant: a rule for one side is sent as a plain one                      *)
ShortArgAny(rule) == ~ rule.perishable

filter_rule_can_use_short_arg(rule) == rule.sides = {"Sender", "Receiver"} /\ ~ rule.perishable

Marker(action) ==
    CHOOSE c \in {"+", "-", "H", "S", "P", "R", "!", ".", ":"} : short_action(c) = action

format_remote_filter_rule(rule) ==
    LET modifiers == (IF rule.sides = {"Sender"} THEN <<"s">>
                      ELSE IF rule.sides = {"Receiver"} THEN <<"r">> ELSE <<>>) \o
                     (IF rule.perishable THEN <<"p">> ELSE <<>>)
    IN  IF rule.action = "ClearList" THEN <<"!">>
        ELSE <<Marker(rule.action)>> \o (IF modifiers = <<>> THEN <<>> ELSE <<",">> \o modifiers)
             \o <<" ">> \o rule.pattern.raw

(* add_remote_filter_rule_arg: the list that a rule of a file goes to.     *)
Route(rule) ==
    IF rule.action \in {"Include", "Exclude"} /\ filter_rule_can_use_short_arg(rule)
    THEN rule.action ELSE "Filter"

Routed(g, list) == SelectSeq(FileRules(g), LAMBDA rule : Route(rule) = list)
Raws(list) == [i \in DOMAIN list |-> list[i].pattern.raw]

remote_receiver_filter_args_from_cli(g) ==
    [includes |-> g.includes \o Raws(Routed(g, "Include")),
     excludes |-> g.excludes \o (IF g.cvs_exclude THEN CvsPatterns ELSE <<>>) \o Raws(Routed(g, "Exclude")),
     filters |-> g.filters \o [i \in DOMAIN Routed(g, "Filter") |->
                                 format_remote_filter_rule(Routed(g, "Filter")[i])]]

(* apply_option_arg, for the arguments in the order they are sent.         *)
DaemonRules(args) == New(args.includes, "Include") \o New(args.excludes, "Exclude") \o Parsed(args.filters)

Fails(list) == \E i \in DOMAIN list : list[i].action = "Error"

-----------------------------------------------------------------------------
Init ==
    /\ pieces = <<>> /\ text = <<>> /\ given = NoOptions
    /\ rules = <<>> /\ sent = <<>> /\ remote = <<>>
    /\ step \in {"glob", "given"}

Count(g) == Len(g.includes) + Len(g.include_from) + Len(g.excludes) + Len(g.exclude_from) + Len(g.filters)
            + (IF g.cvs_exclude THEN 1 ELSE 0)

(* clap collects the options of each kind in their order.                  *)
Option(o) ==
    /\ step = "given" /\ Count(given) < MaxRules
    /\ given' = IF o[1] = "cvs_exclude" THEN [given EXCEPT !.cvs_exclude = TRUE]
                ELSE [given EXCEPT ![o[1]] = Append(@, o[2])]
    /\ UNCHANGED <<pieces, text, rules, sent, remote, step>>

build_filter_rules ==
    /\ step = "given"
    /\ step' = IF Fails(Listed(given)) THEN "refused" ELSE "planned"
    /\ rules' = IF Fails(Listed(given)) THEN <<>> ELSE RuleSet(Listed(given))
    /\ sent' = IF Fails(Listed(given)) THEN <<>> ELSE remote_receiver_filter_args_from_cli(given)
    /\ UNCHANGED <<pieces, text, given, remote>>

apply_option_arg ==
    /\ step = "planned"
    /\ step' = IF Fails(DaemonRules(sent)) THEN "unreadable" ELSE "served"
    /\ remote' = IF Fails(DaemonRules(sent)) THEN <<>> ELSE RuleSet(DaemonRules(sent))
    /\ UNCHANGED <<pieces, text, given, rules, sent>>

(* Patterns and texts grow without two slashes in a row.                   *)
Slashes(s, c) == s # <<>> /\ Last(s) = "/" /\ c = "/"

MorePattern(piece) ==
    /\ step = "glob" /\ Len(pieces) < MaxGlob /\ text = <<>>
    /\ ~ Slashes(FlattenSeq(pieces), Head(piece))
    /\ pieces' = Append(pieces, piece)
    /\ UNCHANGED <<text, given, rules, sent, remote, step>>

MoreText(c) ==
    /\ step = "glob" /\ Len(text) < MaxGlob /\ ~ Slashes(text, c)
    /\ text' = Append(text, c)
    /\ UNCHANGED <<pieces, given, rules, sent, remote, step>>

Next ==
    \/ \E o \in Given : Option(o)
    \/ build_filter_rules
    \/ apply_option_arg
    \/ \E piece \in Pieces : MorePattern(piece)
    \/ \E c \in Letters : MoreText(c)

Spec == Init /\ [][Next]_vars

-----------------------------------------------------------------------------
(* Type invariant: only rules that were understood are in force.           *)
TypeOK ==
    /\ step \in {"glob", "given", "planned", "served", "refused", "unreadable"}
    /\ \A set \in {rules, remote} : \A i \in DOMAIN set :
        /\ set[i].action \notin {"Error", "ClearList", "None"}
        /\ set[i].sides # {} /\ set[i].pattern.body # <<>>

(* What a piece stands for, by itself.                                     *)
Wild(i) == (i > 1 /\ pieces[i - 1][1] = "*") \/ (i < Len(pieces) /\ pieces[i + 1][1] = "*")

Fits(i, s) ==
    LET piece == pieces[i]
        one == Len(s) = 1 /\ s # <<"/">>
    IN  CASE piece = <<"*", "*">> -> TRUE
          [] piece = <<"*">> -> Wild(i) \/ \A k \in DOMAIN s : s[k] # "/"
          [] piece = <<"?">> -> one
          [] piece = <<"[", "a", "]">> -> s = <<"a">>
          [] piece = <<"[", "!", "a", "]">> -> one /\ s # <<"a">>
          [] piece = <<"[", "a", "-", "b", "]">> -> s \in {<<"a">>, <<"b">>}
          [] OTHER -> s = piece

(* glob_matches holds exactly when the text can be cut into parts that the *)
(* pieces of the pattern stand for: *, ** and ? with respect to slashes,   *)
(* runs of stars, classes with ranges and negation, in any neighbourhood.  *)
GlobMeansPieces ==
    step = "glob" =>
        LET ends[i \in 0 .. Len(pieces)] ==
                IF i = 0 THEN {0}
                ELSE {e \in 0 .. Len(text) : \E b \in ends[i - 1] : b <= e /\ Fits(i, SubSeq(text, b + 1, e))}
        IN  glob_matches(FlattenSeq(pieces), text) = (Len(text) \in ends[Len(pieces)])

(* The arguments keep the order of the rules: no rule of a file comes      *)
(* behind one that is sent before it, -C is alone in front of includes, a  *)
(* file's special rules and --filter do not meet, and format_remote_filter_*)
(* rule can express the rule (both sides of a rule that is by default for  *)
(* one side cannot be said).                                               *)
Rank(rule) == CASE Route(rule) = "Include" -> 1 [] Route(rule) = "Exclude" -> 2 [] OTHER -> 3
Ranked(list) == \A i, j \in DOMAIN list : i < j => Rank(list[i]) <= Rank(list[j])
Sayable(list) ==
    \A i \in DOMAIN list :
        list[i].sides = {"Sender", "Receiver"} => default_sides(list[i].action) = list[i].sides
Straight(g) ==
    /\ Ranked(BeforeFilters(g)) /\ Sayable(FileRules(g))
    /\ g.filters = <<>> \/ Routed(g, "Filter") = <<>>

Kinds == {"File", "Directory"}

(* What a set of rules says about a path: not sent, not deleted.           *)
Verdict(set, path, kind) ==
    [left_out |-> remote_source_path_is_filtered(set, path, kind),
     kept |-> delete_is_protected(set, path, kind)]

(* The daemon understands what it is sent, and where the arguments keep    *)
(* the order of the rules both ends decide alike about every path: what is *)
(* left out by the sender and what the receiver may not delete.            *)
(* (remote_receiver_filter_args_from_cli, apply_option_arg)                *)
EndsDecideAlike ==
    /\ step # "unreadable"
    /\ step = "served" /\ Straight(given) =>
        \A path \in Paths : \A kind \in Kinds :
            Cardinality({Verdict(set, path, kind) : set \in {rules, remote}}) = 1

(* Remote push routes the rules to the receiver for the protection of what *)
(* was not sent: a path that rules for both sides exclude on the client is *)
(* one that a daemon with --delete keeps.  (As long as the arguments keep  *)
(* the order of the rules.)                                                *)
ExcludedIsKept ==
    (/\ step = "served" /\ Straight(given)
     /\ \A i \in DOMAIN rules : rules[i].sides = {"Sender", "Receiver"}) =>
        \A path \in Paths : \A kind \in Kinds :
            remote_source_path_is_filtered(rules, path, kind) => delete_is_protected(remote, path, kind)
=============================================================================
