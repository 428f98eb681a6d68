------------------------- MODULE MCIncrementalPull -------------------------
(* Two directories at the top, one below another, files at all levels; the  *)
(* destination has a current file, an old one, one that the filters exclude *)
(* but the sender offers, an extra file and an extra directory, with a file *)
(* in it that the filters exclude and one that they do not.                 *)
EXTENDS IncrementalPull

MCTree == [d \in {".", "d", "e", "d/s"} |->
              CASE d = "." -> {"a", "d", "e"} [] d = "d" -> {"d/log", "d/x", "d/s"}
                [] d = "e" -> {"e/y", "e/u"} [] d = "d/s" -> {"d/s/z"}]
MCOrder == <<"a", "d", "d/log", "d/x", "d/s", "d/s/z", "e", "e/u", "e/y", "extra", "old", "old/log", "old/x">>
Paths == {"a", "d", "d/log", "d/x", "d/s", "d/s/z", "e", "e/u", "e/y", "extra", "old", "old/log", "old/x"}
\* The names e/u and e/y differ, or are the same but for case.
MCKeyDistinct == [q \in Paths |-> q]
MCKeyCase == [q \in Paths |-> IF q = "e/u" THEN "e/y" ELSE q]
MCKeys == {MCKeyDistinct, MCKeyCase}
MCDest == {"d", "d/log", "d/x", "e", "e/y", "extra", "old", "old/log", "old/x"}
MCCurrent == {"d/x"}
MCExcluded == {"d/log", "old/log"}
MCBelow == [q \in Paths |->
               CASE q = "d" -> {"d/log", "d/x", "d/s", "d/s/z"} [] q = "d/s" -> {"d/s/z"}
                 [] q = "e" -> {"e/y", "e/u"} [] q = "old" -> {"old/log", "old/x"}
                 [] OTHER -> {}]

==========================================================================
