--------------------------- MODULE MCFileTransfer ---------------------------
(* Instances of FileTransfer. *)
EXTENDS FileTransfer

\* The second version has the same length and other content.
MCBytes == {"a", "b", "c", "x", "y", "z"}
MCVersions == <<<<"a", "b">>, <<"a", "c">>>>
MCAlternative == <<"x", "y">>
MCNeighbour == <<"a">>
MCTargets == {Absent, <<"a">>, <<"z", "b">>, MCAlternative}

\* The receiver knows none of the local executor's features, a delayed
\* update is always atomic, and single only matters with it.  Hard links are
\* combined with everything but --partial and single files.
MCSettings ==
    {o \in Setting :
       /\ o.remote => ~(o.backup \/ o.fuzzy \/ o.hard \/ o.delay \/ o.alternative # "none")
       /\ o.single => o.delay
       /\ ~o.times => ~(o.keep \/ o.hard \/ o.fuzzy)
       /\ o.hard => ~(o.keep \/ o.single)}
=============================================================================
