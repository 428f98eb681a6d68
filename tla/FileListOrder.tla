--------------------------- MODULE FileListOrder ----------------------------
(***************************************************************************)
(* The order of a file list.  Requests and answers of a remote session     *)
(* name a file by its position, so both ends must put the same list into   *)
(* the same order.  The code knows two: the path order in which a source   *)
(* is collected, and the order into which a received list is sorted, with  *)
(* the files of a directory before its subdirectories.                     *)
(***************************************************************************)
EXTENDS ReceiverTree, Sequences

\* An entry of the list: what the sender saw when it made the list.  The
\* content stands for the length and the checksum that travel with it.
Entry == [path : Path, kind : Kinds, data : Data \cup {Torn}, mtime : Stamp \cup {Now}]

EntryOf(f, p) == [path |-> p, kind |-> f[p].kind, data |-> f[p].data, mtime |-> f[p].mtime]

\* The step by which p leaves the directories it shares with q.
LeavesAt(p, q) ==
    CHOOSE x \in SelfAndAbove(p) \ SelfAndAbove(q) :
        \A y \in SelfAndAbove(p) \ SelfAndAbove(q) : y = x \/ y \in Under[x]

\* collect_local_source_entries: the order of PathBuf
PlainBefore(l, r, dirs) == Rank[l.path] < Rank[r.path]

\* Mutant: a directory counts as one only on the left side
SenderBeforeLeftOnly(l, r, dirs) ==
    \/ r.path \in Under[l.path]
    \/ /\ l.path # r.path
       /\ l.path \notin Under[r.path]
       /\ LET x == LeavesAt(l.path, r.path)
              y == LeavesAt(r.path, l.path)
          IN  x \notin dirs /\ Rank[x] < Rank[y]

\* remote_sender_entry_cmp: at the component where two paths part, a name
\* that is not a listed directory comes before one that is.
SenderBefore(l, r, dirs) ==
    \/ r.path \in Under[l.path]
    \/ /\ l.path # r.path
       /\ l.path \notin Under[r.path]
       /\ LET x == LeavesAt(l.path, r.path)
              y == LeavesAt(r.path, l.path)
          IN  IF (x \in dirs) = (y \in dirs) THEN Rank[x] < Rank[y] ELSE y \in dirs

\* The paths that are listed as directories.
Directories(S) == {e.path : e \in {x \in S : x.kind = "dir"}}

\* The ways to put S into the order given by Before: one, when Before is a
\* total order of S.
Sorted(S, Before(_, _, _)) ==
    {s \in [1 .. Cardinality(S) -> S] :
        \A i, k \in 1 .. Cardinality(S) : i < k => Before(s[i], s[k], Directories(S))}

\* entries.sort_by in collect_local_source_entries
InCollectedOrder(S) == Sorted(S, PlainBefore)

\* sort_remote_entries_for_sender_indexes, and its twin for the sender's own
\* entries, sort_remote_source_entries_for_sender_indexes
InIndexOrder(S) == Sorted(S, SenderBefore)
=============================================================================
