---------------------------- MODULE ReceiverTree ----------------------------
(***************************************************************************)
(* The receiver's directory tree as rsync-fs sees it: what the filesystem  *)
(* primitives of walk.rs do to it, and the pure decisions of sync.rs       *)
(* (which entries the sender offers, what the receiver deletes, whether a  *)
(* file needs an update) that the operations of LocalSync are built from.  *)
(*                                                                         *)
(* A path is an element of Path.  Under[p] holds the paths strictly below  *)
(* p; Rank is the order of a BTreeMap<PathBuf, _> (parents before their    *)
(* children).  Paths outside the destination root (an absolute --backup-dir*)
(* or --temp-dir) are elements of Path that are not in Dest.               *)
(***************************************************************************)
EXTENDS Integers, FiniteSets

CONSTANTS
    Path,       \* every location on the receiver that the sync can name
    Dest,       \* the locations below the destination root
    Under,      \* Under[p]: the locations strictly below p
    Rank,       \* BTreeMap order of the locations
    Data,       \* file contents (and symlink targets)
    Torn,       \* the content of a file whose direct write was cut short
    Size,       \* Size[d]: the length of content d
    Stamp       \* modification times carried by source files

\* Under is a strict partial order whose rank grows downwards, what is above
\* a location is a chain, and no two locations share a rank: the order of a
\* BTreeMap over relative paths.
ASSUME TreeAssumption ==
    /\ IsFiniteSet(Path)
    /\ Dest \subseteq Path
    /\ Under \in [Path -> SUBSET Path]
    /\ Rank \in [Path -> Nat]
    /\ \A p, q \in Path : Rank[p] = Rank[q] => p = q
    /\ \A p \in Path : \A q \in Under[p] : Rank[p] < Rank[q]
    /\ \A p \in Path : \A q \in Under[p] : Under[q] \subseteq Under[p]
    /\ \A p, q, r \in Path : r \in Under[p] \cap Under[q] =>
         p = q \/ p \in Under[q] \/ q \in Under[p]
    /\ \A p \in Dest : Under[p] \subseteq Dest

ASSUME DataAssumption ==
    /\ Torn \notin Data
    /\ Size \in [Data \cup {Torn} -> Nat]
    /\ Stamp \subseteq Nat \ {0}

\* A file written by the run carries the time of the write until its mtime
\* is set; the source's own times are the other stamps.
Now == 0

Kinds == {"absent", "dir", "file", "link", "special"}

Node == [kind : Kinds, data : Data \cup {Torn}, mtime : Stamp \cup {Now}]

\* The content of a directory is immaterial; every node has the same fields.
NoData == Torn

Absent == [kind |-> "absent", data |-> NoData, mtime |-> Now]
Dir == [kind |-> "dir", data |-> NoData, mtime |-> Now]
File(d, t) == [kind |-> "file", data |-> d, mtime |-> t]
Link(d) == [kind |-> "link", data |-> d, mtime |-> Now]

Tree == [Path -> Node]

Above(p) == {q \in Path : p \in Under[q]}
SelfAndAbove(p) == {p} \cup Above(p)
SelfAndUnder(p) == {p} \cup Under[p]

Exists(f, p) == f[p].kind # "absent"

\* A tree in which everything present sits in directories.
WellFormed(f) ==
    \A p \in Path : Exists(f, p) => \A q \in Above(p) : f[q].kind = "dir"

-----------------------------------------------------------------------------
(* The filesystem primitives (walk.rs, impl PortableFileSystem).           *)

\* fs::create_dir_all(parent) fails when something on the way is not a
\* directory.
CanMakeParents(f, p) == \A q \in Above(p) : f[q].kind \in {"absent", "dir"}

MakeParents(f, p) == [q \in Path |-> IF p \in Under[q] THEN Dir ELSE f[q]]

CanMakeDir(f, p) == CanMakeParents(f, p) /\ f[p].kind \in {"absent", "dir"}

\* create_dir_all(path)
MakeDir(f, p) == [MakeParents(f, p) EXCEPT ![p] = Dir]

\* A file cannot be renamed or created over a directory.
CanPut(f, p) == CanMakeParents(f, p) /\ f[p].kind # "dir"

\* copy_file_with_options, create_symlink and rename_file: create the parent
\* directories, then put the node in place.
Put(f, p, n) == [MakeParents(f, p) EXCEPT ![p] = n]

\* remove_file
RemoveFile(f, p) == [f EXCEPT ![p] = Absent]

\* remove_dir_all
RemoveTree(f, p) ==
    [q \in Path |-> IF q \in SelfAndUnder(p) THEN Absent ELSE f[q]]

\* A remove_dir_all that fails part way has removed some entries below p,
\* each with everything below it.
PartlyRemoved(f, p) ==
    {[q \in Path |-> IF q \in S THEN Absent ELSE f[q]] :
        S \in {T \in SUBSET Under[p] :
                 \A q \in T : Under[q] \subseteq T}}

\* set_mtime
SetMtime(f, p, t) == [f EXCEPT ![p].mtime = t]

-----------------------------------------------------------------------------
(* Selection and delete decisions (sync.rs).                               *)

\* The --files-from test: equal, above or below a selected path.  Without
\* --files-from the selection is Path itself.
FilesFromMatches(p, selected) ==
    \E s \in selected : p = s \/ p \in Under[s] \/ s \in Under[p]

\* The sender skips a path when it or a directory above it is excluded or
\* hidden.
SenderPathIsFiltered(p, filter) ==
    \E q \in SelfAndAbove(p) : filter[q] \in {"exclude", "hide"}

\* Mutant: protect rules are for the sender
DeleteIsProtectedExcluded(p, filter, deleteExcluded) ==
    \E q \in SelfAndAbove(p) : filter[q] = "exclude" /\ ~deleteExcluded

\* The receiver keeps a path when it or a directory above it is protected,
\* or excluded without --delete-excluded.
DeleteIsProtected(p, filter, deleteExcluded) ==
    \E q \in SelfAndAbove(p) :
        \/ filter[q] = "protect"
        \/ filter[q] = "exclude" /\ ~deleteExcluded

\* relative_entries followed by retain_files_from_entries.
SourceEntries(src, filter, selected, recursive) ==
    {p \in Dest : /\ Exists(src, p)
                  /\ ~SenderPathIsFiltered(p, filter)
                  /\ FilesFromMatches(p, selected)
                  /\ recursive \/ Above(p) \cap Dest = {}}

\* The unfiltered walk of the destination.
DestEntries(f, recursive) ==
    {p \in Dest : Exists(f, p) /\ (recursive \/ Above(p) \cap Dest = {})}

Depth(p) == Cardinality(Above(p))

\* plan_deletes sorts by component count, deepest first, then by path,
\* last first.
DeletedBefore(p, q) ==
    \/ Depth(p) > Depth(q)
    \/ Depth(p) = Depth(q) /\ Rank[p] > Rank[q]

-----------------------------------------------------------------------------
(* file_needs_update: the quick check and its relatives.                   *)

Abs(n) == IF n < 0 THEN -n ELSE n

MtimesEqual(a, b, window) ==
    IF window < 0 THEN a = b ELSE Abs(a - b) <= window

\* s is the source file, t what is at the target.
FileNeedsUpdate(s, t, o) ==
    /\ Size[s.data] <= o.maxSize
    /\ Size[s.data] >= o.minSize
    /\ CASE t.kind = "absent" -> ~o.existingOnly
         [] t.kind \notin {"absent", "file"} -> TRUE
         [] t.kind = "file" ->
              /\ ~o.ignoreExisting
              /\ ~(o.skipNewer /\ (t.mtime > s.mtime \/ t.mtime = Now))
              /\ CASE o.update = "IgnoreTimes" -> TRUE
                   [] o.update = "SizeOnly" -> Size[s.data] # Size[t.data]
                   [] o.update = "QuickCheck" ->
                        \/ Size[s.data] # Size[t.data]
                        \/ t.mtime = Now
                        \/ ~MtimesEqual(s.mtime, t.mtime, o.modifyWindow)
                   [] o.update = "Checksum" -> s.data # t.data
=============================================================================
