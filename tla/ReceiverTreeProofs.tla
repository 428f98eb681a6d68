------------------------- MODULE ReceiverTreeProofs -------------------------
(***************************************************************************)
(* What the filesystem primitives of ReceiverTree preserve: the result is  *)
(* again a tree, and a file that is not the operand stays as it was.  And  *)
(* what FileListOrder makes of a list: for any tree there is exactly one   *)
(* way to sort it.                                                         *)
(***************************************************************************)
EXTENDS FileListOrder, FiniteSetTheorems, WellFoundedInduction, TLAPS

\* A tree of nodes in which everything sits in directories.
GoodTree(f) == f \in Tree /\ WellFormed(f)

\* What survives a change from f to g: every file but the one at p.
SparesFiles(f, g, p) ==
    \A q \in Path \ {p} : f[q].kind = "file" => g[q] = f[q]

\* The nodes the operations create are nodes (File, Link, Dir, Absent).
LEMMA NodeFacts ==
    /\ Absent \in Node
    /\ Dir \in Node
    /\ \A d \in Data \cup {Torn}, t \in Stamp \cup {Now} :
         File(d, t) \in Node /\ Link(d) \in Node
BY DEF Absent, Dir, File, Link, Node, Kinds, NoData

\* Above and Under are the same relation, read both ways.
LEMMA AboveFacts ==
    ASSUME NEW p \in Path
    PROVE  /\ \A q \in Path : q \in Above(p) <=> p \in Under[q]
           /\ Above(p) \subseteq Path
           /\ p \notin Above(p)
           /\ p \notin Under[p]
           /\ Under[p] \subseteq Path
           /\ \A q \in Above(p) : Above(q) \subseteq Above(p)
BY TreeAssumption DEF Above

\* create_dir_all(parent) followed by a rename or create keeps the tree, and
\* every file but the target.
LEMMA PutGood ==
    ASSUME NEW f, GoodTree(f), NEW p \in Path, NEW n \in Node, CanPut(f, p)
    PROVE  /\ GoodTree(Put(f, p, n))
           /\ Put(f, p, n)[p] = n
           /\ SparesFiles(f, Put(f, p, n), p)
<1> DEFINE g == Put(f, p, n)
<1>1. f \in [Path -> Node] /\ MakeParents(f, p) \in [Path -> Node]
  BY NodeFacts DEF GoodTree, Tree, MakeParents
<1>2. g \in Tree /\ g[p] = n
  BY <1>1 DEF Put, Tree
<1>3. \A q \in Path \ {p} : g[q] = IF p \in Under[q] THEN Dir ELSE f[q]
  BY <1>1 DEF Put, MakeParents
<1>4. \A q \in Path : p \in Under[q] => f[q].kind \in {"absent", "dir"}
  BY AboveFacts DEF CanPut, CanMakeParents
<1>5. SparesFiles(f, g, p)
  BY <1>3, <1>4 DEF SparesFiles
<1>6. ASSUME NEW q \in Path, Exists(g, q), NEW r \in Above(q)
      PROVE  g[r].kind = "dir"
  <2>1. r \in Path /\ q \in Under[r] /\ r # q
    BY AboveFacts
  <2>2. CASE p \in Under[r]
    BY <1>3, <2>1, <2>2, AboveFacts DEF Dir
  <2>3. CASE p \notin Under[r] /\ r # p
    <3>1. g[r] = f[r]
      BY <1>3, <2>1, <2>3
    <3>2. q # p /\ p \notin Under[q]
      BY <2>1, <2>3, TreeAssumption
    <3>3. Exists(f, q)
      BY <1>3, <1>6, <3>2 DEF Exists
    <3> QED
      BY <3>1, <3>3 DEF GoodTree, WellFormed
  <2>4. CASE r = p
    <3>1. q # p /\ p \notin Under[q]
      BY <2>1, <2>4, TreeAssumption
    <3>2. Exists(f, q)
      BY <1>3, <1>6, <3>1 DEF Exists
    <3>3. f[p].kind = "dir"
      BY <3>2, <2>4 DEF GoodTree, WellFormed
    <3> QED
      BY <3>3 DEF CanPut
  <2> QED
    BY <2>2, <2>3, <2>4
<1> QED
  BY <1>2, <1>5, <1>6 DEF GoodTree, WellFormed

\* create_dir_all keeps the tree and every file.
LEMMA MakeDirGood ==
    ASSUME NEW f, GoodTree(f), NEW p \in Path, CanMakeDir(f, p)
    PROVE  GoodTree(MakeDir(f, p)) /\ SparesFiles(f, MakeDir(f, p), p)
<1> DEFINE g == MakeDir(f, p)
<1>1. f \in [Path -> Node] /\ MakeParents(f, p) \in [Path -> Node]
  BY NodeFacts DEF GoodTree, Tree, MakeParents
<1>2. g \in Tree /\ g[p] = Dir
  BY <1>1, NodeFacts DEF MakeDir, Tree
<1>3. \A q \in Path \ {p} : g[q] = IF p \in Under[q] THEN Dir ELSE f[q]
  BY <1>1 DEF MakeDir, MakeParents
<1>4. \A q \in Path : p \in Under[q] => f[q].kind \in {"absent", "dir"}
  BY AboveFacts DEF CanMakeDir, CanMakeParents
<1>5. SparesFiles(f, g, p)
  BY <1>3, <1>4 DEF SparesFiles
<1>6. ASSUME NEW q \in Path, Exists(g, q), NEW r \in Above(q)
      PROVE  g[r].kind = "dir"
  <2>1. r \in Path /\ q \in Under[r] /\ r # q
    BY AboveFacts
  <2>2. CASE p \in Under[r] \/ r = p
    BY <1>2, <1>3, <2>1, <2>2, AboveFacts DEF Dir
  <2>3. CASE p \notin Under[r] /\ r # p
    <3>1. g[r] = f[r]
      BY <1>3, <2>1, <2>3
    <3>2. q # p /\ p \notin Under[q]
      BY <2>1, <2>3, TreeAssumption
    <3>3. Exists(f, q)
      BY <1>3, <1>6, <3>2 DEF Exists
    <3> QED
      BY <3>1, <3>3 DEF GoodTree, WellFormed
  <2> QED
    BY <2>2, <2>3
<1> QED
  BY <1>2, <1>5, <1>6 DEF GoodTree, WellFormed

\* Taking away a set of locations that is closed downwards keeps the tree.
LEMMA PruneGood ==
    ASSUME NEW f, GoodTree(f), NEW S \in SUBSET Path,
           \A q \in S : \A r \in Under[q] : f[r].kind # "absent" => r \in S,
           NEW g, g = [q \in Path |-> IF q \in S THEN Absent ELSE f[q]]
    PROVE  GoodTree(g)
<1>1. g \in Tree
  BY NodeFacts DEF GoodTree, Tree
<1>2. ASSUME NEW q \in Path, Exists(g, q), NEW r \in Above(q)
      PROVE  g[r].kind = "dir"
  <2>1. q \notin S /\ Exists(f, q)
    BY <1>2 DEF Exists, Absent
  <2>2. r \in Path /\ q \in Under[r]
    BY AboveFacts
  <2>3. r \notin S
    BY <2>1, <2>2 DEF Exists
  <2> QED
    BY <2>1, <2>2, <2>3 DEF GoodTree, WellFormed
<1> QED
  BY <1>1, <1>2 DEF GoodTree, WellFormed

\* remove_file keeps the tree.
LEMMA RemoveFileGood ==
    ASSUME NEW f, GoodTree(f), NEW p \in Path, f[p].kind # "dir"
    PROVE  GoodTree(RemoveFile(f, p)) /\ SparesFiles(f, RemoveFile(f, p), p)
<1>1. f \in [Path -> Node]
  BY DEF GoodTree, Tree
<1>2. RemoveFile(f, p) = [q \in Path |-> IF q \in {p} THEN Absent ELSE f[q]]
  BY <1>1 DEF RemoveFile
<1>3. \A r \in Under[p] : f[r].kind = "absent"
  BY AboveFacts DEF GoodTree, WellFormed, Exists
<1>4. GoodTree(RemoveFile(f, p))
  <2> DEFINE S == {p}
  <2>1. S \in SUBSET Path
    OBVIOUS
  <2>2. \A q \in S : \A r \in Under[q] : f[r].kind # "absent" => r \in S
    BY <1>3
  <2>3. RemoveFile(f, p) = [q \in Path |-> IF q \in S THEN Absent ELSE f[q]]
    BY <1>2
  <2> HIDE DEF S
  <2> QED
    BY <2>1, <2>2, <2>3, PruneGood
<1>5. SparesFiles(f, RemoveFile(f, p), p)
  BY <1>2 DEF SparesFiles
<1> QED
  BY <1>4, <1>5

\* remove_dir_all keeps the tree and everything that is not below p.
LEMMA RemoveTreeGood ==
    ASSUME NEW f, GoodTree(f), NEW p \in Path
    PROVE  /\ GoodTree(RemoveTree(f, p))
           /\ \A q \in Path \ SelfAndUnder(p) : RemoveTree(f, p)[q] = f[q]
<1>1. SelfAndUnder(p) \in SUBSET Path
  BY AboveFacts DEF SelfAndUnder
<1>2. \A q \in SelfAndUnder(p) : \A r \in Under[q] : r \in SelfAndUnder(p)
  BY TreeAssumption DEF SelfAndUnder
<1>3. GoodTree(RemoveTree(f, p))
  BY <1>1, <1>2, PruneGood DEF RemoveTree
<1>4. \A q \in Path \ SelfAndUnder(p) : RemoveTree(f, p)[q] = f[q]
  BY DEF RemoveTree
<1> QED
  BY <1>3, <1>4

\* So does a remove_dir_all that fails part way.
LEMMA PartlyRemovedGood ==
    ASSUME NEW f, GoodTree(f), NEW p \in Path, NEW g \in PartlyRemoved(f, p)
    PROVE  /\ GoodTree(g)
           /\ \A q \in Path \ SelfAndUnder(p) : g[q] = f[q]
<1>1. PICK S \in SUBSET Under[p] :
        /\ \A q \in S : Under[q] \subseteq S
        /\ g = [q \in Path |-> IF q \in S THEN Absent ELSE f[q]]
  BY DEF PartlyRemoved
<1>2. S \in SUBSET Path
  BY <1>1, AboveFacts
<1>3. GoodTree(g)
  BY <1>1, <1>2, PruneGood
<1>4. \A q \in Path \ SelfAndUnder(p) : g[q] = f[q]
  BY <1>1 DEF SelfAndUnder
<1> QED
  BY <1>3, <1>4

\* set_mtime changes nothing but the time.
LEMMA SetMtimeGood ==
    ASSUME NEW f, GoodTree(f), NEW p \in Path, NEW t \in Stamp \cup {Now}
    PROVE  /\ GoodTree(SetMtime(f, p, t))
           /\ \A q \in Path : /\ SetMtime(f, p, t)[q].kind = f[q].kind
                              /\ SetMtime(f, p, t)[q].data = f[q].data
<1> DEFINE g == SetMtime(f, p, t)
<1>1. f \in [Path -> Node]
  BY DEF GoodTree, Tree
<1>2. g = [f EXCEPT ![p] = [f[p] EXCEPT !.mtime = t]]
  BY DEF SetMtime
<1>3. [f[p] EXCEPT !.mtime = t] \in Node /\ [f[p] EXCEPT !.mtime = t].kind = f[p].kind
        /\ [f[p] EXCEPT !.mtime = t].data = f[p].data
  BY <1>1 DEF Node
<1>4. g \in Tree /\ \A q \in Path : g[q].kind = f[q].kind /\ g[q].data = f[q].data
  BY <1>1, <1>2, <1>3 DEF Tree
<1>5. WellFormed(g)
  BY <1>4, AboveFacts DEF GoodTree, WellFormed, Exists
<1> QED
  BY <1>4, <1>5 DEF GoodTree

\* SourceEntries is closed towards the root: neither the walk nor the filter
\* nor --files-from drops a directory and keeps what is in it.
LEMMA SourceEntriesClosed ==
    ASSUME NEW src \in Tree, WellFormed(src), NEW filter, NEW selected \in SUBSET Path,
           NEW recursive \in BOOLEAN,
           NEW p \in SourceEntries(src, filter, selected, recursive),
           NEW q \in Above(p) \cap Dest
    PROVE  q \in SourceEntries(src, filter, selected, recursive)
<1>1. p \in Dest /\ p \in Path /\ q \in Path /\ p \in Under[q] /\ q \in Dest
  BY TreeAssumption, AboveFacts DEF SourceEntries
<1>2. Exists(src, q)
  BY <1>1 DEF SourceEntries, WellFormed, Exists
<1>3. SelfAndAbove(q) \subseteq SelfAndAbove(p)
  BY <1>1, AboveFacts DEF SelfAndAbove
<1>4. ~SenderPathIsFiltered(q, filter)
  BY <1>3 DEF SourceEntries, SenderPathIsFiltered
<1>5. FilesFromMatches(q, selected)
  <2>1. PICK s \in selected : p = s \/ p \in Under[s] \/ s \in Under[p]
    BY DEF SourceEntries, FilesFromMatches
  <2>2. q = s \/ q \in Under[s] \/ s \in Under[q]
    BY <1>1, <2>1, TreeAssumption
  <2> QED
    BY <2>2 DEF FilesFromMatches
<1>6. recursive
  BY <1>1 DEF SourceEntries
<1> QED
  BY <1>1, <1>2, <1>4, <1>5, <1>6 DEF SourceEntries

\* Making a directory, or putting a node in place, removes nothing.
LEMMA NothingRemoved ==
    ASSUME NEW f \in Tree, NEW p \in Path, NEW q \in Path, Exists(f, q)
    PROVE  /\ Exists(MakeDir(f, p), q)
           /\ \A n : n.kind # "absent" => Exists(Put(f, p, n), q)
<1>1. MakeParents(f, p) \in [Path -> Node]
  BY NodeFacts DEF Tree, MakeParents
<1>2. MakeParents(f, p)[q].kind # "absent"
  BY DEF MakeParents, Exists, Dir
<1>3. Exists(MakeDir(f, p), q)
  BY <1>1, <1>2 DEF MakeDir, Exists, Dir
<1>4. ASSUME NEW n, n.kind # "absent"
      PROVE  Exists(Put(f, p, n), q)
  BY <1>1, <1>2, <1>4 DEF Put, Exists
<1> QED
  BY <1>3, <1>4

-----------------------------------------------------------------------------
(* Where two paths part                                                    *)

\* A set of natural numbers has a smallest one.
LEMMA Smallest ==
    ASSUME NEW N, N \subseteq Nat, N # {}
    PROVE  \E n \in N : \A m \in N : n <= m
<1> DEFINE R == OpToRel(<, Nat)
<1>1. IsWellFoundedOn(R, Nat)
  BY NatLessThanWellFounded, Zenon
<1>2. R = {ss \in Nat \X Nat : ss[1] < ss[2]}
  BY Zenon DEF OpToRel
<1> HIDE DEF R
<1>3. PICK n \in N : \A m \in N : <<m, n>> \notin R
  BY <1>1, WFMin, Zenon
<1>4. ASSUME NEW m \in N
      PROVE  n <= m
  <2>1. m \in Nat /\ n \in Nat
    OBVIOUS
  <2>2. m < n => <<m, n>> \in R
    BY <1>2, <2>1
  <2> QED
    BY <1>3, <2>1, <2>2
<1> QED
  BY <1>4

\* What is at or above a path is a chain.
LEMMA Chain ==
    ASSUME NEW p \in Path, NEW x \in SelfAndAbove(p), NEW y \in SelfAndAbove(p)
    PROVE  /\ x \in Path /\ y \in Path
           /\ x = y \/ x \in Under[y] \/ y \in Under[x]
BY TreeAssumption DEF SelfAndAbove, Above

\* What is at or above a path holds what is above it.
LEMMA ChainClosed ==
    ASSUME NEW p \in Path, NEW x \in SelfAndAbove(p), NEW q \in Path
    PROVE  /\ x \in Under[q] => q \in Above(p)
           /\ q \in Above(p) => q \in SelfAndAbove(p)
           /\ x \in Above(q) => q \in Under[x]
BY TreeAssumption DEF SelfAndAbove, Above

\* Two different locations in the same directory.
Siblings(x, y) == x \in Path /\ y \in Path /\ x # y /\ Above(x) = Above(y)

\* Neither of two siblings is above a location that the other is above.
LEMMA SiblingsApart ==
    ASSUME NEW p \in Path, NEW x \in SelfAndAbove(p), NEW y, Siblings(x, y)
    PROVE  y \notin SelfAndAbove(p)
<1> SUFFICES ASSUME y \in SelfAndAbove(p)
             PROVE  FALSE
  OBVIOUS
<1>1. x \in Path /\ y \in Path /\ (x \in Under[y] \/ y \in Under[x])
  BY Chain DEF Siblings
<1>2. y \in Above(x) \/ x \in Above(y)
  BY <1>1 DEF Above
<1>3. x \notin Above(x) /\ y \notin Above(y)
  BY <1>1, AboveFacts
<1> QED
  BY <1>2, <1>3 DEF Siblings

\* The first step off the common directories.
Leaves(x, p, q) ==
    /\ x \in SelfAndAbove(p) \ SelfAndAbove(q)
    /\ \A y \in SelfAndAbove(p) \ SelfAndAbove(q) : y = x \/ y \in Under[x]

\* There is one for every path that is not above the other.
LEMMA LeavesExists ==
    ASSUME NEW p \in Path, NEW q \in Path, p \notin SelfAndAbove(q)
    PROVE  \E x \in Path : Leaves(x, p, q)
<1> DEFINE D == SelfAndAbove(p) \ SelfAndAbove(q)
           N == {Rank[z] : z \in D}
<1>1. D \subseteq Path /\ p \in D
  BY AboveFacts DEF SelfAndAbove
<1>2. N \subseteq Nat /\ N # {}
  BY <1>1, TreeAssumption
<1>3. PICK n \in N : \A m \in N : n <= m
  BY <1>2, Smallest, Zenon
<1>4. PICK x \in D : Rank[x] = n
  BY <1>3
<1>5. ASSUME NEW y \in D
      PROVE  y = x \/ y \in Under[x]
  <2>1. x \in Path /\ y \in Path /\ (x = y \/ x \in Under[y] \/ y \in Under[x])
    BY Chain
  <2>2. Rank[x] <= Rank[y] /\ Rank[x] \in Nat /\ Rank[y] \in Nat
    BY <1>3, <1>4, <2>1, TreeAssumption
  <2>3. x \in Under[y] => Rank[y] < Rank[x]
    BY <2>1, TreeAssumption
  <2> QED
    BY <2>1, <2>2, <2>3
<1> QED
  BY <1>1, <1>4, <1>5 DEF Leaves

\* And only one.
LEMMA LeavesUnique ==
    ASSUME NEW p \in Path, NEW q \in Path, NEW x, Leaves(x, p, q)
    PROVE  LeavesAt(p, q) = x
<1>1. ASSUME NEW y, Leaves(y, p, q)
      PROVE  y = x
  <2>1. x \in Path /\ y \in Path
    BY <1>1, Chain DEF Leaves
  <2>2. ~(y \in Under[x] /\ x \in Under[y])
    BY <2>1, TreeAssumption
  <2> QED
    BY <1>1, <2>2 DEF Leaves
<1>2. Leaves(LeavesAt(p, q), p, q)
  BY Zenon DEF Leaves, LeavesAt
<1> QED
  BY <1>1, <1>2

\* Where two paths part, they are siblings.
LEMMA LeavesSiblings ==
    ASSUME NEW p \in Path, NEW q \in Path, NEW x, NEW y, Leaves(x, p, q), Leaves(y, q, p)
    PROVE  Siblings(x, y)
<1>1. ASSUME NEW a \in Path, NEW b \in Path, NEW z, Leaves(z, a, b)
      PROVE  Above(z) = SelfAndAbove(a) \cap SelfAndAbove(b)
  <2>1. z \in Path /\ z \in SelfAndAbove(a) /\ z \notin SelfAndAbove(b)
    BY <1>1, Chain DEF Leaves
  <2>2. ASSUME NEW w \in Above(z)
        PROVE  w \in SelfAndAbove(a) \cap SelfAndAbove(b)
    <3>1. w \in Path /\ z \in Under[w] /\ w # z
      BY <2>1, AboveFacts
    <3>2. w \in SelfAndAbove(a)
      BY <2>1, <3>1, ChainClosed
    <3>3. w \notin Under[z]
      BY <2>1, <3>1, TreeAssumption
    <3> QED
      BY <1>1, <3>1, <3>2, <3>3 DEF Leaves
  <2>3. ASSUME NEW w \in SelfAndAbove(a) \cap SelfAndAbove(b)
        PROVE  w \in Above(z)
    <3>1. w \in Path /\ (w = z \/ w \in Under[z] \/ z \in Under[w])
      BY <2>1, Chain
    <3>2. w \notin Under[z]
      BY <2>1, ChainClosed
    <3> QED
      BY <2>1, <3>1, <3>2 DEF Above
  <2> QED
    BY <2>2, <2>3
<1>2. x \in Path /\ y \in Path /\ x # y
  BY Chain DEF Leaves
<1>3. Above(x) = SelfAndAbove(p) \cap SelfAndAbove(q)
  BY <1>1
<1>4. Above(y) = SelfAndAbove(q) \cap SelfAndAbove(p)
  BY <1>1
<1>5. Above(x) = Above(y)
  BY <1>3, <1>4
<1> QED
  BY <1>2, <1>5 DEF Siblings

\* Siblings above two paths are where these part.
LEMMA SiblingsLeave ==
    ASSUME NEW p \in Path, NEW q \in Path, NEW x \in SelfAndAbove(p), NEW y \in SelfAndAbove(q),
           Siblings(x, y)
    PROVE  Leaves(x, p, q)
<1>1. x \notin SelfAndAbove(q)
  BY SiblingsApart DEF Siblings
<1>2. ASSUME NEW z \in SelfAndAbove(p) \ SelfAndAbove(q)
      PROVE  z = x \/ z \in Under[x]
  <2>1. z \in Path /\ x \in Path /\ (z = x \/ z \in Under[x] \/ x \in Under[z])
    BY Chain
  <2>2. x \in Under[z] => z \in Above(y)
    BY <2>1 DEF Above, Siblings
  <2>3. z \in Above(y) => z \in SelfAndAbove(q)
    BY <2>1, ChainClosed, AboveFacts DEF Siblings
  <2> QED
    BY <2>1, <2>2, <2>3
<1> QED
  BY <1>1, <1>2 DEF Leaves

\* The order of siblings: what is not a listed directory comes first.
Elder(x, y, dirs) ==
    /\ Siblings(x, y)
    /\ IF (x \in dirs) = (y \in dirs) THEN Rank[x] < Rank[y] ELSE y \in dirs

\* Siblings are in one order or the other.
LEMMA ElderOrders ==
    ASSUME NEW dirs
    PROVE  /\ \A x, y : Siblings(x, y) => Elder(x, y, dirs) \/ Elder(y, x, dirs)
           /\ \A x, y, z : Elder(x, y, dirs) /\ Elder(y, z, dirs) => Elder(x, z, dirs)
<1>1. ASSUME NEW x, NEW y, Siblings(x, y)
      PROVE  Elder(x, y, dirs) \/ Elder(y, x, dirs)
  <2>1. Rank[x] \in Nat /\ Rank[y] \in Nat /\ Rank[x] # Rank[y] /\ Siblings(y, x)
    BY <1>1, TreeAssumption DEF Siblings
  <2>2. Rank[x] < Rank[y] \/ Rank[y] < Rank[x]
    BY <2>1
  <2> QED
    BY <1>1, <2>1, <2>2 DEF Elder
<1>2. ASSUME NEW x, NEW y, NEW z, Elder(x, y, dirs), Elder(y, z, dirs)
      PROVE  Elder(x, z, dirs)
  <2>1. /\ x \in Path /\ y \in Path /\ z \in Path /\ Above(x) = Above(z)
        /\ Rank[x] \in Nat /\ Rank[y] \in Nat /\ Rank[z] \in Nat
    BY <1>2, TreeAssumption DEF Elder, Siblings
  <2>2. IF (x \in dirs) = (z \in dirs) THEN Rank[x] < Rank[z] ELSE z \in dirs
    BY <1>2, <2>1 DEF Elder
  <2>3. x # z
    BY <1>2, <2>1 DEF Elder
  <2> QED
    BY <2>1, <2>2, <2>3 DEF Elder, Siblings
<1> QED
  BY <1>1, <1>2

\* The order of two entries is that of their steps off the common directories.
LEMMA SenderBeforeIs ==
    ASSUME NEW l \in Entry, NEW r \in Entry, NEW dirs
    PROVE  /\ l.path \in Path /\ r.path \in Path
           /\ SenderBefore(l, r, dirs) <=>
                \/ r.path \in Under[l.path]
                \/ \E x \in SelfAndAbove(l.path), y \in SelfAndAbove(r.path) : Elder(x, y, dirs)
<1> DEFINE p == l.path
           q == r.path
<1>1. p \in Path /\ q \in Path
  BY DEF Entry
<1> HIDE DEF p, q
<1>2. ASSUME p # q, q \notin Under[p], p \notin Under[q]
      PROVE  \E x, y : Leaves(x, p, q) /\ Leaves(y, q, p) /\ Siblings(x, y)
                       /\ LeavesAt(p, q) = x /\ LeavesAt(q, p) = y
  <2>1. p \notin SelfAndAbove(q) /\ q \notin SelfAndAbove(p)
    BY <1>1, <1>2 DEF SelfAndAbove, Above
  <2>2. PICK x \in Path : Leaves(x, p, q)
    BY <1>1, <2>1, LeavesExists
  <2>3. PICK y \in Path : Leaves(y, q, p)
    BY <1>1, <2>1, LeavesExists
  <2> QED
    BY <1>1, <2>2, <2>3, LeavesUnique, LeavesSiblings
<1>3. ASSUME NEW x \in SelfAndAbove(p), NEW y \in SelfAndAbove(q), Elder(x, y, dirs)
      PROVE  /\ p # q /\ p \notin Under[q] /\ q \notin Under[p]
             /\ LeavesAt(p, q) = x /\ LeavesAt(q, p) = y
  <2>1. Siblings(x, y) /\ Siblings(y, x)
    BY <1>3 DEF Elder, Siblings
  <2>2. Leaves(x, p, q) /\ Leaves(y, q, p)
    BY <1>1, <2>1, SiblingsLeave
  <2>3. x \notin SelfAndAbove(q) /\ y \notin SelfAndAbove(p)
    BY <2>2 DEF Leaves
  <2>4. p # q
    BY <2>3
  <2>5. p \notin Under[q]
    BY <1>1, <2>3, TreeAssumption DEF SelfAndAbove, Above
  <2>6. q \notin Under[p]
    BY <1>1, <2>3, TreeAssumption DEF SelfAndAbove, Above
  <2> QED
    BY <1>1, <2>2, <2>4, <2>5, <2>6, LeavesUnique
<1>4. ASSUME SenderBefore(l, r, dirs), q \notin Under[p]
      PROVE  \E x \in SelfAndAbove(p), y \in SelfAndAbove(q) : Elder(x, y, dirs)
  <2>1. p # q /\ p \notin Under[q]
    BY <1>4 DEF SenderBefore, p, q
  <2>2. PICK x, y : Leaves(x, p, q) /\ Leaves(y, q, p) /\ Siblings(x, y)
                    /\ LeavesAt(p, q) = x /\ LeavesAt(q, p) = y
    BY <1>2, <1>4, <2>1
  <2>3. IF (x \in dirs) = (y \in dirs) THEN Rank[x] < Rank[y] ELSE y \in dirs
    BY <1>4, <2>2 DEF SenderBefore, p, q
  <2> QED
    BY <2>2, <2>3 DEF Leaves, Elder
<1>5. ASSUME NEW x \in SelfAndAbove(p), NEW y \in SelfAndAbove(q), Elder(x, y, dirs)
      PROVE  SenderBefore(l, r, dirs)
  <2>1. /\ p # q /\ p \notin Under[q] /\ LeavesAt(p, q) = x /\ LeavesAt(q, p) = y
    BY <1>3, <1>5
  <2> QED
    BY <1>5, <2>1 DEF SenderBefore, Elder, p, q
<1>6. q \in Under[p] => SenderBefore(l, r, dirs)
  BY DEF SenderBefore, p, q
<1>7. SenderBefore(l, r, dirs) <=>
        q \in Under[p] \/ \E x \in SelfAndAbove(p), y \in SelfAndAbove(q) : Elder(x, y, dirs)
  BY <1>4, <1>5, <1>6
<1> QED
  BY <1>1, <1>7 DEF p, q

\* Nothing comes before itself.
LEMMA NotBeforeItself ==
    ASSUME NEW l \in Entry, NEW dirs
    PROVE  ~SenderBefore(l, l, dirs)
<1>1. l.path \in Path /\ l.path \notin Under[l.path]
  BY AboveFacts DEF Entry
<1>2. ASSUME NEW x \in SelfAndAbove(l.path), NEW y \in SelfAndAbove(l.path)
      PROVE  ~Elder(x, y, dirs)
  BY <1>1, SiblingsApart DEF Elder
<1> QED
  BY <1>1, <1>2, SenderBeforeIs

\* The order of entries is transitive.
LEMMA BeforeTransitive ==
    ASSUME NEW a \in Entry, NEW b \in Entry, NEW c \in Entry, NEW dirs,
           SenderBefore(a, b, dirs), SenderBefore(b, c, dirs)
    PROVE  SenderBefore(a, c, dirs)
<1> DEFINE p == a.path
           q == b.path
           r == c.path
           Parts(s, t) == \E x \in SelfAndAbove(s), y \in SelfAndAbove(t) : Elder(x, y, dirs)
<1>1. p \in Path /\ q \in Path /\ r \in Path
  BY DEF Entry
<1>2. q \in Under[p] \/ Parts(p, q)
  BY SenderBeforeIs
<1>3. r \in Under[q] \/ Parts(q, r)
  BY SenderBeforeIs
<1>4. r \in Under[p] \/ Parts(p, r) => SenderBefore(a, c, dirs)
  BY SenderBeforeIs
<1> HIDE DEF p, q, r
<1>5. CASE q \in Under[p] /\ r \in Under[q]
  BY <1>1, <1>4, <1>5, TreeAssumption
<1>6. CASE q \in Under[p] /\ Parts(q, r)
  <2>1. PICK x \in SelfAndAbove(q), y \in SelfAndAbove(r) : Elder(x, y, dirs)
    BY <1>6
  <2>2. p \in SelfAndAbove(q) /\ x \in Path /\ y \in Path /\ Above(x) = Above(y)
    BY <1>1, <1>6, <2>1 DEF SelfAndAbove, Above, Elder, Siblings
  <2>3. x = p \/ x \in Under[p] \/ p \in Under[x]
    BY <1>1, <2>1, <2>2, Chain
  <2>4. CASE x \in Under[p]
    <3>1. p \in Above(y)
      BY <1>1, <2>2, <2>4 DEF Above
    <3>2. y \in Under[p]
      BY <3>1 DEF Above
    <3>3. r \in Under[p]
      BY <1>1, <2>1, <3>2, ChainClosed DEF Above
    <3> QED
      BY <1>4, <3>3
  <2>5. CASE x = p \/ p \in Under[x]
    <3>1. x \in SelfAndAbove(p)
      BY <2>2, <2>5 DEF SelfAndAbove, Above
    <3> QED
      BY <1>4, <2>1, <3>1
  <2> QED
    BY <2>3, <2>4, <2>5
<1>7. CASE Parts(p, q) /\ r \in Under[q]
  <2>1. PICK x \in SelfAndAbove(p), y \in SelfAndAbove(q) : Elder(x, y, dirs)
    BY <1>7
  <2>2. y \in SelfAndAbove(r)
    BY <1>1, <1>7, <2>1, TreeAssumption DEF SelfAndAbove, Above
  <2> QED
    BY <1>4, <2>1, <2>2
<1>8. CASE Parts(p, q) /\ Parts(q, r)
  <2>1. PICK x \in SelfAndAbove(p), y \in SelfAndAbove(q) : Elder(x, y, dirs)
    BY <1>8
  <2>2. PICK u \in SelfAndAbove(q), v \in SelfAndAbove(r) : Elder(u, v, dirs)
    BY <1>8
  <2>3. y = u \/ y \in Under[u] \/ u \in Under[y]
    BY <1>1, <2>1, <2>2, Chain
  <2>4. /\ x \in Path /\ y \in Path /\ u \in Path /\ v \in Path
        /\ Above(x) = Above(y) /\ Above(u) = Above(v)
    BY <2>1, <2>2 DEF Elder, Siblings
  <2>5. CASE y = u
    BY <1>4, <2>1, <2>2, <2>5, ElderOrders
  <2>6. CASE y \in Under[u]
    <3>1. u \in Above(x)
      BY <2>4, <2>6 DEF Above
    <3>2. u \in SelfAndAbove(p)
      BY <1>1, <2>1, <2>4, <3>1, ChainClosed DEF Above
    <3> QED
      BY <1>4, <2>2, <3>2
  <2>7. CASE u \in Under[y]
    <3>1. y \in Above(v)
      BY <2>4, <2>7 DEF Above
    <3>2. y \in SelfAndAbove(r)
      BY <1>1, <2>2, <2>4, <3>1, ChainClosed DEF Above
    <3> QED
      BY <1>4, <2>1, <3>2
  <2> QED
    BY <2>3, <2>5, <2>6, <2>7
<1> QED
  BY <1>2, <1>3, <1>5, <1>6, <1>7, <1>8

\* Two entries with different paths are in one order or the other.
LEMMA BeforeTotal ==
    ASSUME NEW l \in Entry, NEW r \in Entry, l.path # r.path, NEW dirs
    PROVE  SenderBefore(l, r, dirs) \/ SenderBefore(r, l, dirs)
<1> DEFINE p == l.path
           q == r.path
<1>1. p \in Path /\ q \in Path /\ p # q
  BY DEF Entry
<1>2. CASE p \in Under[q] \/ q \in Under[p]
  BY <1>2 DEF SenderBefore
<1>3. CASE p \notin Under[q] /\ q \notin Under[p]
  <2>1. p \notin SelfAndAbove(q) /\ q \notin SelfAndAbove(p)
    BY <1>1, <1>3 DEF SelfAndAbove, Above
  <2>2. PICK x \in Path : Leaves(x, p, q)
    BY <1>1, <2>1, LeavesExists
  <2>3. PICK y \in Path : Leaves(y, q, p)
    BY <1>1, <2>1, LeavesExists
  <2>4. Siblings(x, y)
    BY <1>1, <2>2, <2>3, LeavesSiblings
  <2>5. Elder(x, y, dirs) \/ Elder(y, x, dirs)
    BY <2>4, ElderOrders
  <2>6. x \in SelfAndAbove(p) /\ y \in SelfAndAbove(q)
    BY <2>2, <2>3 DEF Leaves
  <2> QED
    BY <2>5, <2>6, SenderBeforeIs
<1> QED
  BY <1>2, <1>3

-----------------------------------------------------------------------------
(* Sorting                                                                 *)

\* A strict total order R of S.
Orders(R, S) ==
    /\ \A x \in S : <<x, x>> \notin R
    /\ \A x, y \in S : x = y \/ <<x, y>> \in R \/ <<y, x>> \in R
    /\ \A x, y, z \in S : <<x, y>> \in R /\ <<y, z>> \in R => <<x, z>> \in R

\* s lists S in the order R.
Lists(s, S, R) ==
    /\ s \in [1 .. Cardinality(S) -> S]
    /\ \A i, k \in 1 .. Cardinality(S) : i < k => <<s[i], s[k]>> \in R

\* A list in order has every element, and each once.
LEMMA ListsAll ==
    ASSUME NEW S, IsFiniteSet(S), NEW R, Orders(R, S), NEW s, Lists(s, S, R)
    PROVE  /\ \A x \in S : \E i \in 1 .. Cardinality(S) : s[i] = x
           /\ \A i, k \in 1 .. Cardinality(S) : s[i] = s[k] => i = k
<1> DEFINE n == Cardinality(S)
<1>1. n \in Nat /\ IsFiniteSet(1 .. n) /\ Cardinality(1 .. n) = n
  BY FS_CardinalityType, FS_Interval
<1>2. ASSUME NEW i \in 1 .. n, NEW k \in 1 .. n, s[i] = s[k]
      PROVE  i = k
  <2>1. i \in Nat /\ k \in Nat /\ s[i] \in S
    BY <1>1 DEF Lists
  <2>2. <<s[i], s[i]>> \notin R
    BY <2>1 DEF Orders
  <2>3. ~(i < k) /\ ~(k < i)
    BY <1>2, <2>2 DEF Lists
  <2> QED
    BY <2>1, <2>3
<1>3. s \in Injection(1 .. n, S)
  BY <1>2 DEF Injection, IsInjective, Lists
<1>4. s \in Surjection(1 .. n, S)
  BY <1>1, <1>3, FS_Injection
<1>5. \A x \in S : \E i \in 1 .. n : s[i] = x
  BY <1>4 DEF Surjection
<1> QED
  BY <1>2, <1>5

\* There is only one.
LEMMA ListsOnce ==
    ASSUME NEW S, IsFiniteSet(S), NEW R, Orders(R, S),
           NEW s, Lists(s, S, R), NEW t, Lists(t, S, R)
    PROVE  s = t
<1> DEFINE n == Cardinality(S)
           D == {i \in 1 .. n : s[i] # t[i]}
<1>1. n \in Nat /\ s \in [1 .. n -> S] /\ t \in [1 .. n -> S]
  BY FS_CardinalityType DEF Lists
<1>2. ASSUME D # {}
      PROVE  FALSE
  <2>1. D \subseteq Nat
    BY <1>1
  <2>2. PICK i \in D : \A m \in D : i <= m
    BY <1>2, <2>1, Smallest, Zenon
  <2>3. i \in 1 .. n /\ i \in Nat /\ s[i] # t[i] /\ s[i] \in S /\ t[i] \in S
    BY <1>1, <2>2
  <2>4. ASSUME NEW u, NEW v, Lists(u, S, R), Lists(v, S, R), u[i] # v[i],
               \A m \in 1 .. n : u[m] # v[m] => i <= m
        PROVE  <<v[i], u[i]>> \in R
    <3>1. u[i] \in S
      BY <2>3, <2>4 DEF Lists
    <3>2. PICK k \in 1 .. n : v[k] = u[i]
      BY <2>4, <3>1, ListsAll
    <3>3. k \in Nat /\ k # i
      BY <1>1, <2>4, <3>2
    <3>4. ~(k < i)
      <4>1. ASSUME k < i
            PROVE  u[k] = v[k]
        BY <2>3, <2>4, <3>3, <4>1
      <4>2. u[k] = u[i] => k = i
        BY <2>3, <2>4, ListsAll
      <4> QED
        BY <3>2, <3>3, <4>1, <4>2
    <3>5. i < k
      BY <2>3, <3>3, <3>4
    <3> QED
      BY <2>3, <2>4, <3>2, <3>5 DEF Lists
  <2>5. <<t[i], s[i]>> \in R
    BY <2>2, <2>3, <2>4
  <2>6. <<s[i], t[i]>> \in R
    BY <2>2, <2>3, <2>4
  <2> QED
    BY <2>3, <2>5, <2>6 DEF Orders
<1>3. \A i \in 1 .. n : s[i] = t[i]
  BY <1>2
<1> QED
  BY <1>1, <1>3

\* A strict total order orders every part of its set.
LEMMA PartOrdered ==
    ASSUME NEW S, NEW R, Orders(R, S), NEW T, T \subseteq S
    PROVE  Orders(R, T)
BY DEF Orders

\* One more element finds its place in a list.
LEMMA Inserted ==
    ASSUME NEW S, IsFiniteSet(S), NEW R, Orders(R, S), NEW x \in S,
           NEW s, Lists(s, S \ {x}, R)
    PROVE  \E t : Lists(t, S, R)
<1> DEFINE T == S \ {x}
           n == Cardinality(T)
           J == {i \in 1 .. n : <<x, s[i]>> \in R} \cup {n + 1}
<1>1. IsFiniteSet(T) /\ n \in Nat /\ Cardinality(S) = n + 1
  <2>1. IsFiniteSet(T) /\ Cardinality(T) = Cardinality(S) - 1
    BY FS_RemoveElement
  <2> QED
    BY <2>1, FS_CardinalityType
<1>2. s \in [1 .. n -> T] /\ \A i, k \in 1 .. n : i < k => <<s[i], s[k]>> \in R
  BY DEF Lists
<1> HIDE DEF n
<1>3. J \subseteq Nat /\ J # {}
  BY <1>1
<1>4. PICK j \in J : \A m \in J : j <= m
  BY <1>3, Smallest, Zenon
<1>5. j \in 1 .. n + 1 /\ j \in Nat
  BY <1>1, <1>4
<1> DEFINE t == [i \in 1 .. n + 1 |-> IF i < j THEN s[i] ELSE IF i = j THEN x ELSE s[i - 1]]
<1>6. \A i \in 1 .. n + 1 : /\ i \in Nat
                            /\ i < j => i \in 1 .. n /\ t[i] = s[i]
                            /\ i = j => t[i] = x
                            /\ i > j => i - 1 \in 1 .. n /\ t[i] = s[i - 1]
  BY <1>1, <1>5
<1>7. t \in [1 .. n + 1 -> S]
  <2>1. \A i \in 1 .. n : s[i] \in S
    BY <1>2
  <2>2. \A i \in 1 .. n + 1 : t[i] \in S
    BY <1>5, <1>6, <2>1
  <2> QED
    BY <2>2
<1>8. \A i \in 1 .. n : i < j => <<s[i], x>> \in R
  <2> SUFFICES ASSUME NEW i \in 1 .. n, i < j
               PROVE  <<s[i], x>> \in R
    OBVIOUS
  <2>1. <<x, s[i]>> \notin R
    <3>1. i \in Nat /\ ~(j <= i)
      BY <1>1, <1>5
    <3> QED
      BY <1>4, <3>1
  <2>2. s[i] \in S /\ s[i] # x
    BY <1>2
  <2> QED
    BY <2>1, <2>2 DEF Orders
<1>9. \A i \in 1 .. n : j <= i => <<x, s[i]>> \in R
  <2> SUFFICES ASSUME NEW i \in 1 .. n, j <= i
               PROVE  <<x, s[i]>> \in R
    OBVIOUS
  <2>1. j \in 1 .. n /\ j # n + 1 /\ i \in Nat
    BY <1>1, <1>5
  <2>2. <<x, s[j]>> \in R
    BY <1>4, <2>1
  <2>3. i # j => <<s[j], s[i]>> \in R
    BY <1>2, <1>5, <2>1
  <2>4. s[i] \in S /\ s[j] \in S
    BY <1>2, <2>1
  <2> QED
    BY <2>2, <2>3, <2>4 DEF Orders
<1> HIDE DEF t, J
<1>10. ASSUME NEW i \in 1 .. n + 1, NEW k \in 1 .. n + 1, i < k
       PROVE  <<t[i], t[k]>> \in R
  <2>1. i \in Nat /\ k \in Nat
    BY <1>6
  <2>2. CASE k < j
    <3>1. t[i] = s[i] /\ t[k] = s[k] /\ i \in 1 .. n /\ k \in 1 .. n
      BY <1>5, <1>6, <1>10, <2>1, <2>2
    <3> QED
      BY <1>2, <1>10, <3>1
  <2>3. CASE k = j
    <3>1. t[i] = s[i] /\ t[k] = x /\ i \in 1 .. n /\ i < j
      BY <1>6, <1>10, <2>3
    <3> QED
      BY <1>8, <3>1
  <2>4. CASE j < k /\ i < j
    <3>1. t[i] = s[i] /\ t[k] = s[k - 1] /\ i \in 1 .. n /\ k - 1 \in 1 .. n /\ j <= k - 1
      BY <1>5, <1>6, <2>1, <2>4
    <3>2. i < k - 1
      BY <1>5, <2>1, <2>4
    <3> QED
      BY <1>2, <3>1, <3>2
  <2>5. CASE j < k /\ i = j
    <3>1. t[i] = x /\ t[k] = s[k - 1] /\ k - 1 \in 1 .. n /\ j <= k - 1
      BY <1>5, <1>6, <2>1, <2>5
    <3> QED
      BY <1>9, <3>1
  <2>6. CASE j < i
    <3>1. t[i] = s[i - 1] /\ t[k] = s[k - 1] /\ i - 1 \in 1 .. n /\ k - 1 \in 1 .. n
      BY <1>5, <1>6, <1>10, <2>1, <2>6
    <3>2. i - 1 < k - 1
      BY <1>10, <2>1
    <3> QED
      BY <1>2, <3>1, <3>2
  <2> QED
    BY <1>5, <1>10, <2>1, <2>2, <2>3, <2>4, <2>5, <2>6
<1> QED
  BY <1>1, <1>7, <1>10 DEF Lists

\* Every finite set can be listed in order.
LEMMA ListsExist ==
    ASSUME NEW S, IsFiniteSet(S), NEW R, Orders(R, S)
    PROVE  \E s : Lists(s, S, R)
<1> DEFINE Bad == {T \in SUBSET S : ~\E s : Lists(s, T, R)}
           N == {Cardinality(T) : T \in Bad}
<1>1. \A T \in SUBSET S : IsFiniteSet(T) /\ Cardinality(T) \in Nat
  BY FS_Subset, FS_CardinalityType
<1>2. ASSUME Bad # {}
      PROVE  FALSE
  <2>1. N \subseteq Nat /\ N # {}
    BY <1>1, <1>2
  <2>2. PICK n \in N : \A m \in N : n <= m
    BY <2>1, Smallest, Zenon
  <2>3. PICK T \in Bad : Cardinality(T) = n
    BY <2>2
  <2>4. IsFiniteSet(T) /\ Cardinality(T) \in Nat /\ T \subseteq S /\ Orders(R, T)
    BY <1>1, PartOrdered
  <2>5. CASE T = {}
    <3>1. Cardinality(T) = 0
      BY <2>5, FS_EmptySet
    <3>2. 1 .. 0 = {} /\ <<>> \in [{} -> T]
      OBVIOUS
    <3>3. Lists(<<>>, T, R)
      BY <3>1, <3>2 DEF Lists
    <3> QED
      BY <2>3, <3>3
  <2>6. CASE T # {}
    <3>1. PICK x \in T : TRUE
      BY <2>6
    <3>2. IsFiniteSet(T \ {x}) /\ Cardinality(T \ {x}) = Cardinality(T) - 1
      BY <2>4, <3>1, FS_RemoveElement
    <3>3. T \ {x} \notin Bad
      <4>1. T \ {x} \in Bad => n <= Cardinality(T \ {x})
        BY <2>2
      <4> QED
        BY <2>3, <2>4, <3>2, <4>1
    <3>4. PICK s : Lists(s, T \ {x}, R)
      BY <2>4, <3>3
    <3>5. \E t : Lists(t, T, R)
      BY <2>4, <3>1, <3>4, Inserted
    <3> QED
      BY <2>3, <3>5
  <2> QED
    BY <2>5, <2>6
<1> QED
  BY <1>2

\* No two entries of a list are for the same path.
OnePerPath(S) == \A x, y \in S : x.path = y.path => x = y

\* The comparison of remote_sender_entry_cmp is a strict total order, of any
\* entries with different paths and whatever counts as a directory.
LEMMA SenderBeforeOrders ==
    ASSUME NEW S, S \subseteq Entry, OnePerPath(S), NEW dirs
    PROVE  Orders({e \in S \X S : SenderBefore(e[1], e[2], dirs)}, S)
<1> DEFINE R == {e \in S \X S : SenderBefore(e[1], e[2], dirs)}
<1>1. \A x, y \in S : <<x, y>> \in R <=> SenderBefore(x, y, dirs)
  OBVIOUS
<1>2. \A x \in S : ~SenderBefore(x, x, dirs)
  BY NotBeforeItself
<1>3. \A x, y \in S : x = y \/ SenderBefore(x, y, dirs) \/ SenderBefore(y, x, dirs)
  BY BeforeTotal DEF OnePerPath
<1>4. \A x, y, z \in S : SenderBefore(x, y, dirs) /\ SenderBefore(y, z, dirs) =>
                           SenderBefore(x, z, dirs)
  BY BeforeTransitive
<1> QED
  BY <1>1, <1>2, <1>3, <1>4 DEF Orders

\* And so is the order of paths.
LEMMA PlainBeforeOrders ==
    ASSUME NEW S, S \subseteq Entry, OnePerPath(S), NEW dirs
    PROVE  Orders({e \in S \X S : PlainBefore(e[1], e[2], dirs)}, S)
<1> DEFINE R == {e \in S \X S : PlainBefore(e[1], e[2], dirs)}
<1>1. \A x, y \in S : <<x, y>> \in R <=> Rank[x.path] < Rank[y.path]
  BY DEF PlainBefore
<1>2. \A x \in S : x.path \in Path /\ Rank[x.path] \in Nat
  BY TreeAssumption DEF Entry
<1>3. \A x, y \in S : Rank[x.path] = Rank[y.path] => x = y
  BY <1>2, TreeAssumption DEF OnePerPath
<1>4. \A x \in S : ~(Rank[x.path] < Rank[x.path])
  BY <1>2
<1>5. \A x, y \in S : x = y \/ Rank[x.path] < Rank[y.path] \/ Rank[y.path] < Rank[x.path]
  BY <1>2, <1>3
<1>6. \A x, y, z \in S : Rank[x.path] < Rank[y.path] /\ Rank[y.path] < Rank[z.path] =>
                           Rank[x.path] < Rank[z.path]
  BY <1>2
<1> HIDE DEF R
<1>7. Orders(R, S)
  BY <1>1, <1>4, <1>5, <1>6 DEF Orders
<1> QED
  BY <1>7 DEF R

\* A list can be sorted in one way only.
LEMMA SortedOnce ==
    ASSUME NEW S, IsFiniteSet(S), S \subseteq Entry, OnePerPath(S)
    PROVE  /\ \A s, t \in InIndexOrder(S) : s = t
           /\ \A s, t \in InCollectedOrder(S) : s = t
<1> DEFINE dirs == Directories(S)
           R == {e \in S \X S : SenderBefore(e[1], e[2], dirs)}
           Q == {e \in S \X S : PlainBefore(e[1], e[2], dirs)}
<1>1. ASSUME NEW s \in InIndexOrder(S)
      PROVE  Lists(s, S, R)
  <2>1. /\ s \in [1 .. Cardinality(S) -> S]
        /\ \A i, k \in 1 .. Cardinality(S) : i < k => SenderBefore(s[i], s[k], Directories(S))
    BY DEF InIndexOrder, Sorted
  <2> QED
    BY <2>1 DEF Lists
<1>2. ASSUME NEW s \in InCollectedOrder(S)
      PROVE  Lists(s, S, Q)
  <2>1. /\ s \in [1 .. Cardinality(S) -> S]
        /\ \A i, k \in 1 .. Cardinality(S) : i < k => PlainBefore(s[i], s[k], Directories(S))
    BY DEF InCollectedOrder, Sorted
  <2> QED
    BY <2>1 DEF Lists
<1>3. Orders(R, S) /\ Orders(Q, S)
  BY SenderBeforeOrders, PlainBeforeOrders
<1> HIDE DEF R, Q
<1> QED
  BY <1>1, <1>2, <1>3, ListsOnce

\* The order of positions is well defined for every list of different paths:
\* sort_by meets a strict total order (remote_sender_entry_cmp), and two ends
\* that sort the same entries get the same list.
THEOREM OneOrder ==
    ASSUME NEW S, IsFiniteSet(S), S \subseteq Entry, OnePerPath(S)
    PROVE  \E s : InIndexOrder(S) = {s}
<1> DEFINE R == {e \in S \X S : SenderBefore(e[1], e[2], Directories(S))}
<1>1. Orders(R, S)
  BY SenderBeforeOrders
<1>2. \A x, y \in S : <<x, y>> \in R <=> SenderBefore(x, y, Directories(S))
  OBVIOUS
<1> HIDE DEF R
<1>3. PICK s : Lists(s, S, R)
  BY <1>1, ListsExist
<1>4. /\ s \in [1 .. Cardinality(S) -> S]
      /\ \A i, k \in 1 .. Cardinality(S) : i < k => SenderBefore(s[i], s[k], Directories(S))
  BY <1>2, <1>3 DEF Lists
<1>5. s \in InIndexOrder(S)
  BY <1>4 DEF InIndexOrder, Sorted
<1> QED
  BY <1>5, SortedOnce
=============================================================================
