------------------------- MODULE MCTransferSession --------------------------
(***************************************************************************)
(* Instances of TransferSession.  The source has a directory a with a file *)
(* ax, and files b and c; e is a directory with ez that only the receiver  *)
(* has.  In path order a comes before b, in the receiver's order after c.  *)
(***************************************************************************)
EXTENDS TransferSession

MCDest == {"a", "ax", "b", "c", "e", "ez"}
MCPath == MCDest \cup {"."}
MCUnder ==
    [p \in MCPath |-> CASE p = "." -> MCDest
                        [] p = "a" -> {"ax"}
                        [] p = "e" -> {"ez"}
                        [] OTHER -> {}]
MCRank ==
    [p \in MCPath |-> CASE p = "." -> 0 [] p = "a" -> 1 [] p = "ax" -> 2 [] p = "b" -> 3
                        [] p = "c" -> 4 [] p = "e" -> 5 [] p = "ez" -> 6]

\* ax and b have contents of one length: taking one for the other is not
\* betrayed by the length.  The second content of b is longer.
MCData == {"x1", "x2", "b1", "b2", "c1", "e1"}
MCSize == [d \in MCData \cup {"torn"} |-> IF d = "b2" THEN 2 ELSE 1]
MCVersions ==
    [p \in MCPath |-> CASE p = "ax" -> {"x1", "x2"}
                        [] p = "b" -> {"b1", "b2"}
                        [] p = "c" -> {"c1"}
                        [] p = "ez" -> {"e1"}
                        [] p \in {"a", "e"} -> {"x1"}
                        [] OTHER -> {}]

TreeOf(nodes) ==
    [p \in MCPath |-> IF p = "." THEN Dir ELSE IF p \in DOMAIN nodes THEN nodes[p] ELSE Absent]

Include == [p \in MCPath |-> "include"]

\* rsync -rt from a remote shell
Plain ==
    [pull |-> TRUE, peer |-> "shell", protocol |-> 31, delete |-> FALSE, dryRun |-> FALSE,
     wholeFile |-> FALSE, inPlace |-> FALSE, preserveTimes |-> TRUE, recursive |-> TRUE,
     trustSender |-> FALSE, update |-> "QuickCheck", selected |-> MCPath,
     filter |-> Include]

Nested == TreeOf([a |-> Dir, ax |-> File("x1", 1), b |-> File("b1", 1)])
Flat == TreeOf([b |-> File("b1", 1), c |-> File("c1", 1)])
Forbidden == TreeOf([c |-> File("c1", 1), e |-> Dir])
Special == TreeOf([b |-> [Absent EXCEPT !.kind = "special"]])

Empty == TreeOf([b |-> Absent])
Nothing == [p \in MCPath |-> Absent]
Outdated == TreeOf([a |-> Dir, ax |-> File("x2", 2), b |-> File("b2", 2)])
Extra == TreeOf([b |-> File("b1", 1), e |-> Dir, ez |-> File("e1", 1)])
InTheWay == TreeOf([a |-> File("x1", 1), b |-> Dir, c |-> Dir])

-----------------------------------------------------------------------------
(* Every kind of session without disturbance                               *)

PlainJobs ==
    {[Plain EXCEPT !.pull = u, !.protocol = v, !.delete = d, !.dryRun = n] :
        u, d, n \in BOOLEAN, v \in {27, 31}}
    \cup
    {[Plain EXCEPT !.update = m, !.preserveTimes = t] :
        m \in UpdateModes, t \in BOOLEAN}
    \cup
    {[Plain EXCEPT !.pull = u, !.delete = TRUE, !.selected = {"b", "e"}] : u \in BOOLEAN}
    \cup
    {[Plain EXCEPT !.pull = u, !.delete = TRUE, !.filter["b"] = r, !.trustSender = s] :
        u, s \in BOOLEAN, r \in {"exclude", "hide", "protect"}}
    \cup
    {[Plain EXCEPT !.pull = u, !.peer = "daemon"] : u \in BOOLEAN}

MCSources == {Nested, Flat, Forbidden, Special}
MCDisks == {Nothing, Outdated, Extra, InTheWay}

-----------------------------------------------------------------------------
(* Sessions that are disturbed                                             *)

DisturbedJobs ==
    {[Plain EXCEPT !.pull = u, !.protocol = v, !.delete = TRUE] :
        u \in BOOLEAN, v \in {27, 31}}
    \cup
    {[Plain EXCEPT !.inPlace = TRUE], [Plain EXCEPT !.wholeFile = TRUE]}

CalmJobs == PlainJobs \ DisturbedJobs
SessionJobs == CalmJobs \cup DisturbedJobs
DisturbedSources == {Nested}

-----------------------------------------------------------------------------
(* A daemon of this project                                                *)

DaemonJobs == {[Plain EXCEPT !.pull = u, !.peer = "daemon"] : u \in BOOLEAN}
DaemonDisks == {Empty, TreeOf([b |-> File("b1", 1)])}
DeadlockJobs == {[Plain EXCEPT !.pull = u, !.peer = "daemon"] : u \in BOOLEAN}
DeadlockSources == {TreeOf([ax |-> Absent, b |-> File("b1", 1), c |-> File("c1", 1),
                            ez |-> Absent, e |-> File("x1", 1), a |-> File("x1", 1)])}
=============================================================================
