---------------------------- MODULE MCDaemonLogin ----------------------------
(* Instances of DaemonLogin: all short configuration files, and logins.    *)
EXTENDS DaemonLogin, TLC

CONSTANTS one, two, three

Module(n) == [is |-> "module", name |-> n]
Param(k, v) == [is |-> "param", key |-> k, value |-> v]
Given(n, k, v) == [name |-> n, key |-> k, value |-> v]

MCSecrets == [good |-> [amy |-> "pw1", bob |-> "pw2", eve |-> "none"]]

ConfigLines ==
    {Module("m"), Module("n"), [is |-> "global"], Param("path", "dir"), Param("path", "missing"),
     Param("auth users", {"amy"}), Param("secrets file", "good"), Param("secrets file", "open"),
     Param("read only", FALSE)}

\* All short files, and the longer ones that begin with a section
ShortTexts == UNION {[1 .. n -> ConfigLines] : n \in 0 .. 3}
ConfigTexts == ShortTexts \cup {<<Module("m")>> \o t : t \in ShortTexts}

ConfigOverrides ==
    {<<>>,
     <<Given("m", "read only", FALSE)>>,
     <<Given("m", "auth users", {"amy"})>>,
     <<Given("n", "path", "dir"), Given("m", "path", "dir")>>,
     <<Given("m", "secrets file", "good"), Given("m", "secrets file", "open")>>}

\* A module for everyone to read, one for two users to read and write, with
\* a second section of its name that is never asked, and a drop box
LoginText ==
    <<[is |-> "global"],
      Module("pub"), Param("path", "dir"), Param("comment", "text"),
      Module("home"), Param("path", "dir"), Param("read only", FALSE), Param("list", FALSE),
      Param("auth users", {"amy", "eve"}), Param("secrets file", "good"), Param("comment", "text"),
      Module("drop"), Param("path", "dir"), Param("read only", FALSE), Param("write only", TRUE),
      Module("home"), Param("path", "dir"), Param("list", FALSE)>>

Want(request, user, password, push) ==
    [request |-> request, user |-> user, password |-> password, push |-> push,
     greets |-> 31, protocol |-> 31, path |-> "safe", early |-> FALSE]

MCWants ==
    {Want("#list", "none", "none", FALSE), Want("none", "none", "none", FALSE),
     Want("pub", "none", "none", FALSE), Want("pub", "none", "none", TRUE),
     Want("drop", "none", "none", FALSE), Want("drop", "none", "none", TRUE),
     [Want("pub", "none", "none", FALSE) EXCEPT !.path = "unsafe"],
     [Want("drop", "none", "none", TRUE) EXCEPT !.path = "unsafe"],
     [Want("pub", "none", "none", FALSE) EXCEPT !.protocol = 27],
     [Want("pub", "none", "none", FALSE) EXCEPT !.early = TRUE],
     [Want("pub", "none", "none", FALSE) EXCEPT !.greets = 29]}
    \cup {Want("home", u, p, push) :
            u \in {"amy", "bob", "eve", "none"}, p \in {"pw1", "pw2", "none"}, push \in BOOLEAN}

\* For the run with faults: one job of each outcome
FewWants ==
    {Want("#list", "none", "none", FALSE), Want("home", "amy", "pw1", TRUE),
     Want("home", "amy", "pw2", TRUE)}

Start(lines, given, wants, here) ==
    [lines |-> lines, params |-> given, jobs |-> wants, here |-> here]

Nobody == [c \in Clients |-> Want("none", "none", "none", FALSE)]

\* All configurations; two clients of which one has any job; three clients, one of
\* which may fail.
MCStarts ==
    {Start(t, p, Nobody, {}) : t \in ConfigTexts, p \in ConfigOverrides} \cup
    {Start(LoginText, <<>>, (one :> v @@ two :> w @@ three :> w), {one, two}) : v \in MCWants, w \in FewWants} \cup
    {Start(LoginText, <<>>, f, Clients) : f \in [Clients -> FewWants]}
=============================================================================
