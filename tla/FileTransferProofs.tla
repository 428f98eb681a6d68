-------------------------- MODULE FileTransferProofs -------------------------
(***************************************************************************)
(* The properties of FileTransfer for all contents, versions, settings and *)
(* any number of runs and kills, and the proof that a plain transfer       *)
(* implements FilePut.                                                     *)
(***************************************************************************)
EXTENDS FileTransfer, Integers, FiniteSets, FiniteSetTheorems, TLAPS

-----------------------------------------------------------------------------
(* The inductive invariant                                                 *)

Labels ==
    {"start", "receive", "tokens", "hard", "unlink_peer", "link_peer", "alternative",
     "unlink_basis", "link_basis", "copy_basis", "fuzzy", "append", "appending", "write", "copy",
     "publish", "rename", "stamp", "open", "chunk"} \cup Rest

Contents == File \cup {Absent}

JobType == [from : Names, to : Names, atomic : BOOLEAN, keep : BOOLEAN,
            then : Labels \cup {"none"}]

Types ==
    /\ names \in [Names -> Inodes \cup {NoInode}]
    /\ data \in [Inodes -> File]
    /\ mtime \in [Inodes -> Nat]
    /\ opts \in Settings
    /\ version \in DOMAIN Versions
    /\ pc \in Labels
    /\ job \in JobType
    /\ runs \in Nat /\ kills \in Nat
    /\ before \in Contents
    /\ first \in [target : Contents, linked : BOOLEAN]
    /\ late \in BOOLEAN /\ litter \in BOOLEAN

\* No two names have one inode, except the target and what it was linked to.
Unshared ==
    \A n, m \in Names : n # m /\ Has(n) /\ names[n] = names[m] =>
      "target" \in {n, m} /\ {n, m} \cap {"basis", "peer"} # {}

\* What is read: the source, the neighbour, the first file of the link group
\* and the file that was received.
Received == {"append", "appending", "write", "copy", "open", "chunk", "stamp"}

Inputs ==
    /\ Has("source") /\ Has("basis") /\ Has("near")
    /\ Content("source") = Wanted
    /\ mtime[names["source"]] = version
    /\ Content("near") = Neighbour
    /\ Has("peer") => Content("peer") = Wanted
    /\ Has("peer") /\ names["target"] = names["peer"] => pc \in {"stamp"} \cup Rest
    /\ opts.remote => pc \in {"start", "receive", "tokens"} \cup Received \cup Rest
    /\ pc \in {"receive", "tokens"} => opts.remote
    /\ pc = "tokens" => Has("recv") /\ IsPrefixOf(Content("recv"), Wanted)
    /\ opts.remote /\ pc \in Received => Has("recv") /\ Content("recv") = Wanted

\* The basis is reached through the target only.
Basis ==
    /\ names["target"] = names["basis"] => first.linked \/ opts.alternative = "link"
    /\ Content("basis") # Alternative =>
         (InPlace \/ opts.append) /\ (first.linked \/ opts.alternative = "link")

ToBasis == opts.alternative \in {"copy", "link"} /\ BasisFilesMatch

\* A backup in progress counts as the step that follows it.
Copying == pc \in {"open", "chunk"}
Place == IF Copying /\ job.to = "backup" THEN job.then ELSE pc

BackupJob ==
    /\ job = AtomicJob("target", "backup", FALSE, job.then)
    /\ job.then \in {"unlink_peer", "unlink_basis", "copy", "rename"}
    /\ opts.backup /\ ~opts.remote /\ Has("target")

\* The two copies onto a target that is not there
OntoNothing(from, then) ==
    /\ job = CopyJob(from, "target", then)
    /\ pc = "open" \/ opts.atomic => ~Has("target")
    /\ names["target"] # names["basis"]

FromFuzzy == opts.fuzzy /\ (before = Absent \/ opts.hard)

BasisJob == OntoNothing("basis", "stamp") /\ ToBasis
FuzzyJob == OntoNothing("near", "append") /\ FromFuzzy /\ ~ToBasis
StageJob == job = AtomicJob("source", "staged", opts.keep, "publish") /\ opts.delay
FinalJob == job = CopyJob(From, "target", "stamp")

Jobs ==
    /\ Copying => BackupJob \/ BasisJob \/ FuzzyJob \/ StageJob \/ FinalJob
    /\ pc = "chunk" => Has(Into) /\ IsPrefixOf(Content(Into), Content(job.from))

\* The target before it is replaced
Undisturbed == Seen = before \/ (opts.hard /\ Seen = Absent)
Fuzzed == Undisturbed \/ (FromFuzzy /\ Seen = Neighbour)

Reached(l) ==
    /\ l \in {"start", "receive", "tokens", "hard", "unlink_peer"} => Seen = before
    /\ l \in {"unlink_peer", "link_peer"} => opts.hard /\ Has("peer")
    /\ l \in {"link_peer", "link_basis", "copy_basis"} => ~Has("target")
    /\ l \in {"alternative", "unlink_basis", "fuzzy"} => Undisturbed
    /\ l \in {"unlink_basis", "link_basis", "copy_basis"} => ToBasis
    /\ l = "link_basis" => opts.alternative = "link"
    /\ l = "fuzzy" => ~ToBasis
    /\ l \in {"append", "write", "copy", "publish", "rename"} => Fuzzed
    /\ l \in {"publish", "rename"} => Has("staged") /\ Content("staged") = Wanted
    /\ l = "appending" =>
         /\ opts.append /\ Has("target")
         /\ Len(Seen) < Len(Wanted) /\ IsPrefixOf(Seen, Wanted)
         /\ IsPrefixOf(before, Seen) \/ (FromFuzzy /\ IsPrefixOf(Neighbour, Seen))
    /\ l = "stamp" =>
         /\ Has("target")
         /\ Seen = Wanted \/ (Seen = Content("basis") /\ ToBasis)

Target ==
    /\ Reached(Place)
    /\ Copying /\ (StageJob \/ FinalJob) /\ (pc = "open" \/ job.atomic) => Fuzzed
    /\ TargetNeverTorn
    /\ SuccessMeansWanted

\* In a plain transfer a time stamp tells the content.
Stamps ==
    /\ \A n \in {"temp", "staged"} : Has(n) => mtime[names[n]] = 0
    /\ Plain /\ Has("target") /\ mtime[names["target"]] # 0 =>
         /\ mtime[names["target"]] \in DOMAIN Versions
         /\ Seen = Versions[mtime[names["target"]]]

\* The first content is at the target, or in the backup and then not in
\* danger: nothing is at the target, or what is there is not replaced again.
Kept ==
    /\ opts.backup /\ ~opts.remote /\ ~InPlace /\ ~opts.append /\ version = 1 /\ opts.times /\ ~late
    /\ first.target # Absent /\ ~(opts.hard /\ opts.fuzzy)

UpToDate == Has("target") /\ Len(Seen) = Len(Wanted) /\ mtime[names["target"]] = version

Replacing ==
    \/ pc \in {"unlink_peer", "unlink_basis", "copy", "rename"}
    \/ Copying /\ job.to = "target"

FirstKept ==
    Kept =>
      /\ \/ Seen = first.target
         \/ /\ Content("backup") = first.target
            /\ \/ ~Has("target")
               \/ pc = "stamp"
               \/ pc \in Rest \cup {"start"} /\ UpToDate
      /\ ~Has("target") => opts.hard \/ ToBasis
      /\ Replacing /\ Has("target") => Content("backup") = Seen

\* Where temporary and staged files may be
TempsKnown ==
    /\ Has("temp") =>
         \/ pc = "chunk" /\ job.atomic
         \/ pc = "killed"
         \/ pc = "failed" /\ opts.keep /\ ~opts.remote
    /\ Has("recv") => opts.remote /\ pc \notin {"start", "receive", "done", "failed"}
    /\ Has("staged") => opts.keep \/ opts.single \/ kills > 0 \/ Place \in {"publish", "rename"}
    /\ pc = "killed" => kills > 0
    /\ litter /\ kills = 0 => opts.keep

\* A target that is a prefix of the source is only appended to.
Appended ==
    /\ opts.append /\ IsPrefixOf(first.target, Versions[1]) /\ first.target # Absent /\ version = 1
    /\ opts.alternative = "none" /\ ~opts.hard /\ ~first.linked
    => /\ pc \in Rest \cup {"start", "receive", "tokens", "hard", "alternative", "fuzzy", "append",
                            "appending", "stamp"}
       /\ Has("target") /\ IsPrefixOf(Seen, Versions[1]) /\ IsPrefixOf(first.target, Seen)

IInv ==
    /\ Types /\ Unshared /\ Inputs /\ Basis /\ Jobs /\ Target
    /\ Stamps /\ FirstKept /\ TempsKnown /\ Appended

-----------------------------------------------------------------------------
(* Contents and inodes                                                     *)

\* No file has the content that stands for no file.
LEMMA AbsentIsNoFile == Absent \notin File
<1> SUFFICES ASSUME Absent \in File PROVE FALSE
  OBVIOUS
<1>1. Len(Absent) = 1 /\ Absent[1] = "absent"
  BY DEF Absent
<1>2. Absent[1] \in Bytes
  BY <1>1 DEF File
<1> QED
  BY <1>1, <1>2, FileAssumption

\* The versions of the source are files.
LEMMA VersionFacts ==
    /\ 1 \in DOMAIN Versions
    /\ DOMAIN Versions \subseteq Nat \ {0}
    /\ \A v \in DOMAIN Versions : Versions[v] \in File
<1>1. Versions \in Seq(File) /\ Versions # <<>>
  BY FileAssumption
<1> QED
  BY <1>1

\* The order by prefixes.
LEMMA PrefixFacts ==
    ASSUME NEW s \in Contents, NEW t \in Contents
    PROVE  /\ IsPrefixOf(s, s)
           /\ IsPrefixOf(<<>>, t)
           /\ IsPrefixOf(s, t) /\ Len(s) = Len(t) => s = t
           /\ \A u \in Contents : IsPrefixOf(s, t) /\ IsPrefixOf(t, u) => IsPrefixOf(s, u)
<1>1. \A x \in Contents : x \in Seq(Bytes \cup {"absent"})
  <2>1. \A x \in File : x \in Seq(Bytes \cup {"absent"})
    BY DEF File
  <2>2. Absent \in Seq(Bytes \cup {"absent"})
    BY DEF Absent
  <2> QED
    BY <2>1, <2>2 DEF Contents
<1> DEFINE B == Bytes \cup {"absent"}
<1>2. ASSUME NEW x \in Seq(B), NEW y \in Seq(B), NEW u \in Seq(B)
      PROVE  /\ IsPrefixOf(x, x)
             /\ IsPrefixOf(<<>>, y)
             /\ IsPrefixOf(x, y) /\ Len(x) = Len(y) => x = y
             /\ IsPrefixOf(x, y) /\ IsPrefixOf(y, u) => IsPrefixOf(x, u)
  <2> HIDE DEF B
  <2> QED
    BY <1>2 DEF IsPrefixOf
<1> HIDE DEF B
<1> QED
  BY <1>1, <1>2 DEF B

\* One more piece of what a file is copied from.
LEMMA PrefixAppend ==
    ASSUME NEW s \in File, NEW t \in File, IsPrefixOf(s, t), Len(s) < Len(t)
    PROVE  LET next == Append(s, t[Len(s) + 1])
           IN  /\ next \in File
               /\ Len(next) = Len(s) + 1
               /\ IsPrefixOf(next, t)
               /\ IsPrefixOf(s, next)
<1>1. t[Len(s) + 1] \in Bytes
  BY DEF File
<1> QED
  BY <1>1 DEF File, IsPrefixOf

\* An element more.
LEMMA OneMore ==
    ASSUME NEW S, NEW x, IsFiniteSet(S)
    PROVE  /\ IsFiniteSet(S \cup {x})
           /\ Cardinality(S) \in Nat /\ Cardinality(S \cup {x}) \in Nat
           /\ Cardinality(S \cup {x}) <= Cardinality(S) + 1
<1>1. Cardinality(S) \in Nat
  BY FS_CardinalityType
<1> QED
  BY <1>1, FS_AddElement

\* There is always an inode that no name has.
LEMMA NewInodeFacts ==
    ASSUME names \in [Names -> Inodes \cup {NoInode}]
    PROVE  NewInode \in Inodes /\ \A n \in Names : names[n] # NewInode
<1> DEFINE S1 == {names["source"]}
           S2 == S1 \cup {names["target"]}
           S3 == S2 \cup {names["basis"]}
           S4 == S3 \cup {names["near"]}
           S5 == S4 \cup {names["peer"]}
           S6 == S5 \cup {names["backup"]}
           S7 == S6 \cup {names["temp"]}
           S8 == S7 \cup {names["staged"]}
           S9 == S8 \cup {names["recv"]}
<1>0. \A n \in Names : names[n] \in S9
  BY DEF Names
<1> DEFINE Grown(S, T) == /\ IsFiniteSet(T)
                          /\ Cardinality(S) \in Nat /\ Cardinality(T) \in Nat
                          /\ Cardinality(T) <= Cardinality(S) + 1
<1>1. IsFiniteSet(S1) /\ Cardinality(S1) = 1
  BY FS_Singleton, Zenon
<1> HIDE DEF S1
<1>2. Grown(S1, S2)
  BY <1>1, OneMore, Zenon
<1> HIDE DEF S2
<1>3. Grown(S2, S3)
  BY <1>2, OneMore, Zenon
<1> HIDE DEF S3
<1>4. Grown(S3, S4)
  BY <1>3, OneMore, Zenon
<1> HIDE DEF S4
<1>5. Grown(S4, S5)
  BY <1>4, OneMore, Zenon
<1> HIDE DEF S5
<1>6. Grown(S5, S6)
  BY <1>5, OneMore, Zenon
<1> HIDE DEF S6
<1>7. Grown(S6, S7)
  BY <1>6, OneMore, Zenon
<1> HIDE DEF S7
<1>8. Grown(S7, S8)
  BY <1>7, OneMore, Zenon
<1> HIDE DEF S8
<1>9. Grown(S8, S9)
  BY <1>8, OneMore, Zenon
<1> HIDE DEF S9
<1>10. Cardinality(Inodes) = 10
  <2>1. Cardinality(1 .. 10) = IF 1 > 10 THEN 0 ELSE 10 - 1 + 1
    BY FS_Interval, 1 \in Int, 10 \in Int, ZenonT(20)
  <2> QED
    BY <2>1 DEF Inodes
<1>11. ~(Inodes \subseteq S9)
  <2>1. Cardinality(S9) <= 9
    BY <1>1, <1>2, <1>3, <1>4, <1>5, <1>6, <1>7, <1>8, <1>9
  <2>2. Inodes \subseteq S9 => Cardinality(Inodes) <= Cardinality(S9)
    BY <1>9, FS_Subset, Zenon
  <2> QED
    BY <1>9, <1>10, <2>1, <2>2
<1>12. \E i \in Inodes : \A n \in Names : names[n] # i
  BY <1>0, <1>11
<1> QED
  BY <1>12 DEF NewInode

-----------------------------------------------------------------------------
(* Steps                                                                   *)

\* What a name refers to.
LEMMA ContentFacts ==
    ASSUME Types
    PROVE  \A n \in Names : /\ Content(n) \in Contents
                            /\ Has(n) <=> Content(n) \in File
                            /\ Has(n) <=> Content(n) # Absent
                            /\ Has(n) => names[n] \in Inodes /\ data[names[n]] = Content(n)
BY AbsentIsNoFile DEF Types, Content, Has, Contents, Inodes, NoInode

\* The settings are Booleans and a way to use the basis.
LEMMA OptionFacts ==
    ASSUME Types
    PROVE  /\ opts.atomic \in BOOLEAN /\ opts.keep \in BOOLEAN /\ opts.backup \in BOOLEAN
           /\ opts.append \in BOOLEAN /\ opts.fuzzy \in BOOLEAN /\ opts.hard \in BOOLEAN
           /\ opts.delay \in BOOLEAN /\ opts.remote \in BOOLEAN /\ opts.single \in BOOLEAN
           /\ opts.times \in BOOLEAN
           /\ opts.alternative \in {"none", "compare", "copy", "link"}
           /\ opts.remote => ~(opts.backup \/ opts.fuzzy \/ opts.hard \/ opts.delay)
           /\ opts.remote => opts.alternative = "none"
BY FileAssumption DEF Types, Setting

\* A step that only decides, and the start of a copy
Quiet == UNCHANGED <<names, data, mtime, opts, version, runs, kills, before, first, late, litter>>
Moves(l) == Quiet /\ pc' = l /\ job' = job
Starts(j) == Quiet /\ pc' = "open" /\ job' = j

\* Step and StartCopy change nothing but the place and the job.
LEMMA QuietForms ==
    ASSUME NEW l, NEW j
    PROVE  /\ Step(l) => Moves(l)
           /\ StartCopy(j) => Starts(j)
BY DEF Step, Goto, StartCopy, Moves, Starts, Quiet, disk, history

\* backup_receiver_file: a copy of a target that is there, or nothing.
LEMMA BackupForms ==
    ASSUME NEW then, WithBackup(then)
    PROVE  \/ /\ opts.backup /\ ~opts.remote /\ Has("target")
              /\ Starts(AtomicJob("target", "backup", FALSE, then))
           \/ /\ opts.backup /\ ~opts.remote => ~Has("target")
              /\ Moves(then)
BY QuietForms DEF WithBackup

\* The decisions, each with what it rests on.
LEMMA Decisions ==
    ASSUME Types
    PROVE  /\ Start => /\ pc = "start"
                       /\ Moves("done") \/ Moves("receive") \/ Moves("hard")
           /\ Hard => /\ pc = "hard"
                      /\ \/ opts.hard /\ Has("peer") /\ WithBackup("unlink_peer")
                         \/ Moves("alternative")
           /\ CheckBasis => /\ pc = "alternative"
                            /\ \/ ~ToBasis /\ Moves("fuzzy")
                               \/ opts.alternative = "compare" /\ BasisFilesMatch /\ Moves("done")
                               \/ ToBasis /\ WithBackup("unlink_basis")
           /\ CopyBasis => pc = "copy_basis" /\ Starts(CopyJob("basis", "target", "stamp"))
           /\ Fuzzy => /\ pc = "fuzzy"
                       /\ \/ /\ opts.fuzzy /\ ~Has("target")
                             /\ Starts(CopyJob("near", "target", "append"))
                          \/ Moves("append")
           /\ AppendVerify => /\ pc = "append"
                              /\ \/ ~(opts.append /\ Appendable) /\ Moves("write")
                                 \/ Has("target") /\ Seen = Content(From) /\ Moves("stamp")
                                 \/ /\ opts.append /\ Appendable /\ Seen # Content(From)
                                    /\ Moves("appending")
           /\ Write => /\ pc = "write"
                       /\ \/ /\ opts.delay
                             /\ Starts(AtomicJob("source", "staged", opts.keep, "publish"))
                          \/ ~opts.delay /\ WithBackup("copy")
           /\ Copy => pc = "copy" /\ Starts(CopyJob(From, "target", "stamp"))
           /\ Publish => pc = "publish" /\ WithBackup("rename")
<1>1. Start => pc = "start" /\ (Moves("done") \/ Moves("receive") \/ Moves("hard"))
  BY QuietForms DEF Start
<1>2. Hard => /\ pc = "hard"
              /\ (opts.hard /\ Has("peer") /\ WithBackup("unlink_peer")) \/ Moves("alternative")
  BY QuietForms DEF Hard
<1>3. CheckBasis => /\ pc = "alternative"
                    /\ \/ ~ToBasis /\ Moves("fuzzy")
                       \/ opts.alternative = "compare" /\ BasisFilesMatch /\ Moves("done")
                       \/ ToBasis /\ WithBackup("unlink_basis")
  <2> SUFFICES ASSUME CheckBasis
               PROVE  \/ ~ToBasis /\ Moves("fuzzy")
                      \/ opts.alternative = "compare" /\ BasisFilesMatch /\ Moves("done")
                      \/ ToBasis /\ WithBackup("unlink_basis")
    BY DEF CheckBasis
  <2>1. CASE opts.alternative = "none" \/ ~BasisFilesMatch
    BY <2>1, QuietForms, OptionFacts DEF CheckBasis, ToBasis
  <2>2. CASE opts.alternative = "compare" /\ BasisFilesMatch
    BY <2>2, QuietForms, OptionFacts DEF CheckBasis, ToBasis
  <2>3. CASE opts.alternative \in {"copy", "link"} /\ BasisFilesMatch
    BY <2>3, QuietForms, OptionFacts DEF CheckBasis, ToBasis
  <2> QED
    BY <2>1, <2>2, <2>3, OptionFacts
<1>4. CopyBasis => pc = "copy_basis" /\ Starts(CopyJob("basis", "target", "stamp"))
  BY QuietForms DEF CopyBasis
<1>5. Fuzzy => /\ pc = "fuzzy"
               /\ \/ /\ opts.fuzzy /\ ~Has("target")
                     /\ Starts(CopyJob("near", "target", "append"))
                  \/ Moves("append")
  BY QuietForms DEF Fuzzy
<1>6. AppendVerify => /\ pc = "append"
                      /\ \/ ~(opts.append /\ Appendable) /\ Moves("write")
                         \/ Has("target") /\ Seen = Content(From) /\ Moves("stamp")
                         \/ /\ opts.append /\ Appendable /\ Seen # Content(From)
                            /\ Moves("appending")
  BY QuietForms DEF AppendVerify, Appendable, Seen
<1>7. Write => /\ pc = "write"
               /\ \/ /\ opts.delay
                     /\ Starts(AtomicJob("source", "staged", opts.keep, "publish"))
                  \/ ~opts.delay /\ WithBackup("copy")
  BY QuietForms DEF Write
<1>8. Copy => pc = "copy" /\ Starts(CopyJob(From, "target", "stamp"))
  BY QuietForms DEF Copy
<1>9. Publish => pc = "publish" /\ WithBackup("rename")
  BY DEF Publish
<1> QED
  BY <1>1, <1>2, <1>3, <1>4, <1>5, <1>6, <1>7, <1>8, <1>9

\* A write through the name k into the inode i, its own or a new one
Fits(k, i) == i \in Inodes /\ (i = names[k] \/ \A n \in Names : names[n] # i)

Writes(k, i, d) ==
    /\ names' = [names EXCEPT ![k] = i]
    /\ data' = [data EXCEPT ![i] = d]

\* Only the names that share the inode see the write.
LEMMA WriteFacts ==
    ASSUME Types, Unshared, NEW k \in Names, NEW i, NEW d \in File, Fits(k, i), Writes(k, i, d)
    PROVE  /\ names' \in [Names -> Inodes \cup {NoInode}]
           /\ data' \in [Inodes -> File]
           /\ names'[k] = i /\ Has(k)' /\ Content(k)' = d
           /\ \A n \in Names \ {k} :
                /\ names'[n] = names[n]
                /\ Has(n)' <=> Has(n)
                /\ names[n] # i => Content(n)' = Content(n)
                /\ names[n] = i => /\ Content(n)' = d
                                   /\ Has(k) /\ Has(n) /\ names[k] = names[n]
                                   /\ "target" \in {n, k} /\ {n, k} \cap {"basis", "peer"} # {}
           /\ Unshared'
<1>1. names' \in [Names -> Inodes \cup {NoInode}] /\ data' \in [Inodes -> File]
  BY DEF Types, Fits, Writes
<1>2. i \in Inodes /\ NoInode \notin Inodes
  BY DEF Fits, Inodes, NoInode
<1>3. names'[k] = i /\ data'[i] = d /\ \A n \in Names \ {k} : names'[n] = names[n]
  BY <1>2 DEF Types, Writes
<1>4. \A x \in Inodes \ {i} : data'[x] = data[x]
  BY DEF Types, Writes
<1>5. Has(k)' /\ Content(k)' = d
  BY <1>2, <1>3 DEF Has, Content
<1>6. ASSUME NEW n \in Names \ {k}
      PROVE  /\ Has(n)' <=> Has(n)
             /\ names[n] # i => Content(n)' = Content(n)
             /\ names[n] = i => Content(n)' = d /\ Has(k) /\ Has(n) /\ names[k] = names[n]
  <2>1. names[n] \in Inodes \cup {NoInode}
    BY DEF Types
  <2> QED
    BY <1>2, <1>3, <1>4, <2>1 DEF Has, Content, Fits
<1>7. ASSUME NEW n \in Names \ {k}, names[n] = i
      PROVE  "target" \in {n, k} /\ {n, k} \cap {"basis", "peer"} # {}
  BY <1>6, <1>7 DEF Unshared
<1>8. Unshared'
  <2> SUFFICES ASSUME NEW n \in Names, NEW m \in Names, n # m, Has(n)', names'[n] = names'[m]
               PROVE  "target" \in {n, m} /\ {n, m} \cap {"basis", "peer"} # {}
    BY DEF Unshared
  <2>1. CASE n = k
    BY <1>3, <1>7, <2>1
  <2>2. CASE m = k
    BY <1>3, <1>7, <2>2
  <2>3. CASE n # k /\ m # k
    BY <1>3, <1>6, <2>3 DEF Unshared
  <2> QED
    BY <2>1, <2>2, <2>3
<1> QED
  BY <1>1, <1>3, <1>5, <1>6, <1>7, <1>8

\* A file of a name of its own is given another name.
LEMMA RenameFacts ==
    ASSUME Types, Unshared, NEW k \in {"temp", "staged"}, NEW to \in Names \ {k}, Has(k),
           names' = [names EXCEPT ![to] = names[k], ![k] = NoInode], data' = data
    PROVE  /\ names' \in [Names -> Inodes \cup {NoInode}]
           /\ names'[to] = names[k] /\ Has(to)' /\ Content(to)' = Content(k)
           /\ ~Has(k)'
           /\ \A n \in Names \ {k, to} : /\ names'[n] = names[n]
                                         /\ names[n] # names[k]
                                         /\ Has(n)' <=> Has(n)
                                         /\ Content(n)' = Content(n)
           /\ Unshared'
<1>1. k \in Names /\ names[k] \in Inodes
  BY DEF Names, Types, Has, Inodes, NoInode
<1>2. names' \in [Names -> Inodes \cup {NoInode}]
  BY <1>1 DEF Types
<1>3. /\ names'[to] = names[k] /\ names'[k] = NoInode
      /\ \A n \in Names \ {k, to} : names'[n] = names[n]
  BY <1>1 DEF Types
<1>4. \A n \in Names \ {k} : names[n] # names[k]
  BY <1>1 DEF Unshared, Has
<1>5. Unshared'
  <2> SUFFICES ASSUME NEW n \in Names, NEW m \in Names, n # m, Has(n)', names'[n] = names'[m]
               PROVE  "target" \in {n, m} /\ {n, m} \cap {"basis", "peer"} # {}
    BY DEF Unshared
  <2>1. n # k /\ m # k
    BY <1>3 DEF Has
  <2>2. n # to /\ m # to
    BY <1>3, <1>4, <2>1
  <2> QED
    BY <1>3, <2>1, <2>2 DEF Unshared, Has
<1> QED
  BY <1>1, <1>2, <1>3, <1>4, <1>5 DEF Has, Content

\* Where a copy goes and where it comes from.
LEMMA CopyFacts ==
    ASSUME Types, Jobs, Copying
    PROVE  /\ Into \in {"temp", "target"} /\ Into \in Names
           /\ job.to \in {"target", "backup", "staged"}
           /\ Into = (IF job.atomic THEN "temp" ELSE "target")
           /\ job.from \in {"target", "basis", "near", "source", "recv"} /\ job.from \in Names
           /\ job.from # Into
           /\ ~job.atomic => job.to = "target" /\ ~opts.atomic
<1>1. CASE BackupJob
  BY <1>1 DEF BackupJob, AtomicJob, Into, Names
<1>2. CASE BasisJob
  BY <1>2, OptionFacts DEF BasisJob, OntoNothing, CopyJob, Into, Names
<1>3. CASE FuzzyJob
  BY <1>3, OptionFacts DEF FuzzyJob, OntoNothing, CopyJob, Into, Names
<1>4. CASE StageJob
  BY <1>4 DEF StageJob, AtomicJob, Into, Names
<1>5. CASE FinalJob
  BY <1>5, OptionFacts DEF FinalJob, CopyJob, Into, Names, From
<1> QED
  BY <1>1, <1>2, <1>3, <1>4, <1>5 DEF Jobs

\* What a copy reads is there, and stays as it is while it is read.
LEMMA FromFacts ==
    ASSUME Types, Unshared, Inputs, Jobs, Copying
    PROVE  /\ Has(job.from) /\ Content(job.from) \in File
           /\ pc = "chunk" => names[job.from] # names[Into]
<1>1. Has(job.from)
  <2>1. CASE BackupJob
    BY <2>1 DEF BackupJob, AtomicJob
  <2>2. CASE BasisJob
    BY <2>2 DEF BasisJob, OntoNothing, CopyJob, Inputs
  <2>3. CASE FuzzyJob
    BY <2>3 DEF FuzzyJob, OntoNothing, CopyJob, Inputs
  <2>4. CASE StageJob
    BY <2>4 DEF StageJob, AtomicJob, Inputs
  <2>5. CASE FinalJob
    BY <2>5, OptionFacts DEF FinalJob, CopyJob, Inputs, From, Copying, Received
  <2> QED
    BY <2>1, <2>2, <2>3, <2>4, <2>5 DEF Jobs
<1>2. pc = "chunk" => names[job.from] # names[Into]
  <2> SUFFICES ASSUME pc = "chunk", names[job.from] = names[Into] PROVE FALSE
    OBVIOUS
  <2>1. Into = "target" /\ job.from = "basis"
    BY <1>1, CopyFacts DEF Unshared
  <2>2. BasisJob
    BY <2>1, CopyFacts, OptionFacts DEF Jobs, Copying, BackupJob, FuzzyJob, StageJob, FinalJob,
                                        OntoNothing, AtomicJob, CopyJob, From
  <2> QED
    BY <2>1, <2>2 DEF BasisJob, OntoNothing
<1> QED
  BY <1>1, <1>2, CopyFacts, ContentFacts

Keeps == UNCHANGED <<opts, version, runs, kills, before, first, late, litter>>

\* The steps that write, by what they write.  File::create writes nothing into
\* the file that is there or into a new one.
LEMMA OpenForm ==
    ASSUME IInv, CopyOpen
    PROVE  \E i : /\ Fits(Into, i) /\ Writes(Into, i, <<>>)
                  /\ mtime' = [mtime EXCEPT ![i] = 0]
                  /\ Keeps /\ job' = job
                  /\ pc = "open" /\ pc' = "chunk"
<1>1. Into \in Names
  BY CopyFacts DEF IInv, CopyOpen, Copying
<1>2. NewInode \in Inodes /\ \A n \in Names : names[n] # NewInode
  BY NewInodeFacts DEF IInv, Types
<1> DEFINE i == IF Has(Into) THEN names[Into] ELSE NewInode
<1>3. Fits(Into, i)
  BY <1>1, <1>2 DEF Fits, IInv, Types, Has
<1>4. Writes(Into, i, <<>>) /\ mtime' = [mtime EXCEPT ![i] = 0]
  BY DEF CopyOpen, Create, Writes
<1>5. Keeps /\ job' = job /\ pc = "open" /\ pc' = "chunk"
  BY DEF CopyOpen, Goto, Keeps, history
<1> QED
  BY <1>3, <1>4, <1>5

\* A round of the copy writes one more piece of what is copied.
LEMMA ChunkForm ==
    ASSUME IInv, CopyChunk
    PROVE  \E d \in File : /\ Fits(Into, names[Into]) /\ Writes(Into, names[Into], d)
                           /\ IsPrefixOf(d, Content(job.from))
                           /\ mtime' = mtime /\ names' = names
                           /\ Keeps /\ job' = job
                           /\ pc = "chunk" /\ pc' = "chunk"
<1>1. Types /\ Unshared /\ Inputs /\ Jobs /\ Copying /\ pc = "chunk"
  BY DEF IInv, CopyChunk, Copying
<1>2. Into \in Names /\ Has(Into) /\ IsPrefixOf(Content(Into), Content(job.from))
  BY <1>1, CopyFacts DEF Jobs
<1>3. names[Into] \in Inodes /\ data[names[Into]] = Content(Into) /\ Content(Into) \in File
  BY <1>1, <1>2, ContentFacts
<1> DEFINE d == Append(Content(Into), Content(job.from)[Len(Content(Into)) + 1])
<1>4. d \in File /\ IsPrefixOf(d, Content(job.from))
  BY <1>1, <1>2, <1>3, FromFacts, PrefixAppend DEF CopyChunk
<1>5. data' = [data EXCEPT ![names[Into]] = d]
  BY <1>3 DEF CopyChunk
<1>6. names' = names /\ names = [names EXCEPT ![Into] = names[Into]]
  BY <1>1, <1>2 DEF CopyChunk, Types
<1>7. mtime' = mtime /\ Keeps /\ job' = job /\ pc = "chunk" /\ pc' = "chunk"
  BY DEF CopyChunk, Goto, Keeps, history
<1> HIDE DEF d
<1> QED
  BY <1>3, <1>4, <1>5, <1>6, <1>7 DEF Fits, Writes

\* append_file_from writes one more piece of the source.
LEMMA AppendForm ==
    ASSUME IInv, AppendChunk
    PROVE  \E d \in File : /\ Fits("target", names["target"]) /\ Writes("target", names["target"], d)
                           /\ names' = names
                           /\ IsPrefixOf(d, Wanted) /\ IsPrefixOf(Seen, d)
                           /\ mtime' = [mtime EXCEPT ![names["target"]] = 0]
                           /\ Keeps /\ job' = job
                           /\ pc = "appending"
                           /\ pc' = IF Len(d) = Len(Wanted) THEN "stamp" ELSE "appending"
<1>1. Types /\ Inputs /\ Reached("appending") /\ pc = "appending"
  BY DEF IInv, Target, AppendChunk, Place, Copying
<1>2. "target" \in Names /\ Has("target") /\ IsPrefixOf(Seen, Wanted) /\ Len(Seen) < Len(Wanted)
  BY <1>1 DEF Reached, Names
<1>3. names["target"] \in Inodes /\ data[names["target"]] = Seen /\ Seen \in File
  BY <1>1, <1>2, ContentFacts DEF Seen
<1>4. Content(From) = Wanted /\ Wanted \in File
  BY <1>1, OptionFacts, VersionFacts DEF Inputs, From, Received, Types, Wanted
<1> DEFINE d == Append(Seen, Wanted[Len(Seen) + 1])
<1>5. d \in File /\ IsPrefixOf(d, Wanted) /\ IsPrefixOf(Seen, d)
  BY <1>2, <1>3, <1>4, PrefixAppend
<1>6. /\ data' = [data EXCEPT ![names["target"]] = d]
      /\ mtime' = [mtime EXCEPT ![names["target"]] = 0]
      /\ pc' = IF Len(d) = Len(Wanted) THEN "stamp" ELSE "appending"
      /\ Keeps /\ job' = job
  BY <1>3, <1>4 DEF AppendChunk, Goto, Keeps, history
<1>7. names' = names /\ names = [names EXCEPT !["target"] = names["target"]]
  BY <1>1, <1>2 DEF AppendChunk, Types
<1> HIDE DEF d
<1> QED
  BY <1>1, <1>3, <1>5, <1>6, <1>7 DEF Fits, Writes

\* The receiver begins a file of its own.
LEMMA ReceiveForm ==
    ASSUME IInv, ReceiveOpen
    PROVE  /\ Fits("recv", NewInode) /\ Writes("recv", NewInode, <<>>)
           /\ mtime' = [mtime EXCEPT ![NewInode] = 0]
           /\ Keeps /\ job' = job
           /\ pc = "receive" /\ pc' = "tokens"
<1>1. NewInode \in Inodes /\ \A n \in Names : names[n] # NewInode
  BY NewInodeFacts DEF IInv, Types
<1> QED
  BY <1>1 DEF ReceiveOpen, Fits, Writes, Goto, Keeps, history

\* The receiver writes what arrives, until it has everything.
LEMMA TokenForm ==
    ASSUME IInv, ReceiveToken
    PROVE  /\ pc = "tokens"
           /\ \/ Content("recv") = Wanted /\ Moves("append")
              \/ \E d \in File : /\ Fits("recv", names["recv"]) /\ Writes("recv", names["recv"], d)
                                 /\ IsPrefixOf(d, Wanted)
                                 /\ mtime' = mtime /\ names' = names
                                 /\ Keeps /\ job' = job /\ pc' = "tokens"
<1>1. Types /\ Inputs /\ pc = "tokens"
  BY DEF IInv, ReceiveToken
<1>2. "recv" \in Names /\ Has("recv") /\ IsPrefixOf(Content("recv"), Wanted)
  BY <1>1 DEF Inputs, Names
<1>3. names["recv"] \in Inodes /\ data[names["recv"]] = Content("recv") /\ Content("recv") \in File
  BY <1>1, <1>2, ContentFacts
<1>4. Wanted \in File
  BY <1>1, VersionFacts DEF Types, Wanted
<1>5. CASE Len(Content("recv")) = Len(Wanted) /\ Step("append")
  <2>1. Content("recv") = Wanted
    BY <1>2, <1>3, <1>4, <1>5, PrefixFacts DEF Contents
  <2> QED
    BY <1>1, <1>5, <2>1, QuietForms
<1>6. CASE /\ Len(Content("recv")) < Len(Wanted)
           /\ data' = [data EXCEPT ![names["recv"]] =
                                     Append(@, Wanted[Len(Content("recv")) + 1])]
           /\ Goto("tokens") /\ UNCHANGED <<names, mtime>>
  <2> DEFINE d == Append(Content("recv"), Wanted[Len(Content("recv")) + 1])
  <2>1. d \in File /\ IsPrefixOf(d, Wanted)
    BY <1>2, <1>3, <1>4, <1>6, PrefixAppend
  <2>2. data' = [data EXCEPT ![names["recv"]] = d]
    BY <1>3, <1>6
  <2>3. names' = names /\ names = [names EXCEPT !["recv"] = names["recv"]]
    BY <1>1, <1>2, <1>6 DEF Types
  <2>4. Keeps /\ job' = job /\ pc' = "tokens" /\ mtime' = mtime
    BY <1>6 DEF Goto, Keeps, history
  <2> HIDE DEF d
  <2> QED
    BY <1>1, <1>3, <2>1, <2>2, <2>3, <2>4 DEF Fits, Writes
<1> QED
  BY <1>5, <1>6 DEF ReceiveToken

\* The end of a copy: what was copied is there, under its name.
LEMMA EndForm ==
    ASSUME IInv, CopyEnd
    PROVE  /\ Has(Into) /\ Content(Into) = Content(job.from)
           /\ data' = data /\ mtime' = mtime
           /\ Keeps /\ job' = job
           /\ pc = "chunk" /\ pc' = job.then
           /\ \/ job.atomic /\ names' = [names EXCEPT ![job.to] = names["temp"], !["temp"] = NoInode]
              \/ ~job.atomic /\ names' = names
<1>1. Types /\ Unshared /\ Inputs /\ Jobs /\ Copying /\ pc = "chunk"
  BY DEF IInv, CopyEnd, Copying
<1>2. Into \in Names /\ Has(Into) /\ IsPrefixOf(Content(Into), Content(job.from))
  BY <1>1, CopyFacts DEF Jobs
<1>3. Content(Into) = Content(job.from)
  BY <1>1, <1>2, ContentFacts, FromFacts, PrefixFacts DEF CopyEnd, Contents
<1> QED
  BY <1>1, <1>2, <1>3 DEF CopyEnd, Goto, Keeps, history, Types, JobType

\* The target becomes another name of a file.
LEMMA LinkFacts ==
    ASSUME Types, Unshared, NEW k \in {"peer", "basis"}, Has(k),
           names' = [names EXCEPT !["target"] = names[k]], data' = data
    PROVE  /\ names'["target"] = names[k] /\ Has("target")' /\ Content("target")' = Content(k)
           /\ \A n \in Names \ {"target"} : /\ names'[n] = names[n]
                                            /\ Has(n)' <=> Has(n)
                                            /\ Content(n)' = Content(n)
           /\ Unshared'
<1>1. k \in Names /\ "target" \in Names /\ k # "target"
  BY DEF Names
<1>2. names'["target"] = names[k] /\ \A n \in Names \ {"target"} : names'[n] = names[n]
  BY <1>1 DEF Types
<1>3. Unshared'
  <2> SUFFICES ASSUME NEW n \in Names, NEW m \in Names, n # m, Has(n)', names'[n] = names'[m]
               PROVE  "target" \in {n, m} /\ {n, m} \cap {"basis", "peer"} # {}
    BY DEF Unshared
  <2>1. CASE n = "target"
    BY <1>1, <1>2, <2>1 DEF Unshared, Has
  <2>2. CASE m = "target"
    BY <1>1, <1>2, <2>2 DEF Unshared, Has
  <2>3. CASE n # "target" /\ m # "target"
    BY <1>2, <2>3 DEF Unshared, Has
  <2> QED
    BY <2>1, <2>2, <2>3
<1> QED
  BY <1>1, <1>2, <1>3 DEF Has, Content

\* create_hard_link makes the target another name of the peer or of the basis,
\* or fails and leaves everything as it is.
LEMMA LinkForm ==
    ASSUME IInv, LinkPeer \/ LinkBasis
    PROVE  \/ LinkPeer /\ pc = "link_peer" /\ Moves("alternative")
           \/ LinkBasis /\ pc = "link_basis" /\ Moves("copy_basis")
           \/ \E k \in {"peer", "basis"} :
                /\ k = "peer" => pc = "link_peer"
                /\ k = "basis" => pc = "link_basis"
                /\ Has(k)
                /\ names' = [names EXCEPT !["target"] = names[k]]
                /\ data' = data /\ mtime' = mtime
                /\ Keeps /\ job' = job /\ pc' = "stamp"
<1>2. CASE LinkPeer
  <2>1. pc = "link_peer" /\ Has("peer")
    BY <1>2 DEF LinkPeer, IInv, Target, Reached, Place, Copying
  <2>2. CASE Step("alternative")
    BY <1>2, <2>1, <2>2, QuietForms
  <2>3. CASE names' = [names EXCEPT !["target"] = names["peer"]] /\ UNCHANGED <<data, mtime>> /\ Goto("stamp")
    BY <2>1, <2>3 DEF Goto, Keeps, history
  <2> QED
    BY <1>2, <2>2, <2>3 DEF LinkPeer, Link
<1>3. CASE LinkBasis
  <2>1. pc = "link_basis" /\ Has("basis")
    BY <1>3 DEF LinkBasis, IInv, Inputs
  <2>2. CASE Step("copy_basis")
    BY <1>3, <2>1, <2>2, QuietForms
  <2>3. CASE names' = [names EXCEPT !["target"] = names["basis"]] /\ UNCHANGED <<data, mtime>> /\ Goto("stamp")
    BY <2>1, <2>3 DEF Goto, Keeps, history
  <2> QED
    BY <1>3, <2>2, <2>3 DEF LinkBasis, Link
<1> QED
  BY <1>2, <1>3

-----------------------------------------------------------------------------
(* Types, and inodes with one owner                                        *)

\* A decision
Decision == Start \/ Hard \/ CheckBasis \/ CopyBasis \/ Fuzzy \/ AppendVerify \/ Write \/ Copy \/ Publish

\* A decision changes no file.
LEMMA DecisionIsQuiet ==
    ASSUME Types, Decision
    PROVE  Quiet
<1>1. \A l, j : Moves(l) \/ Starts(j) => Quiet
  BY DEF Moves, Starts
<1>2. \A then : WithBackup(then) => Quiet
  BY <1>1, BackupForms
<1> QED
  BY <1>1, <1>2, Decisions DEF Decision

\* Every step keeps the types.
LEMMA TypesStep ==
    ASSUME IInv, [Next]_vars
    PROVE  Types'
<1>0. Types
  BY DEF IInv
<1>1. ASSUME NEW l \in Labels, Moves(l) PROVE Types'
  BY <1>0, <1>1 DEF Moves, Quiet, Types
<1>2. ASSUME NEW j \in JobType, Starts(j) PROVE Types'
  BY <1>0, <1>2 DEF Starts, Quiet, Types, Labels
<1>3. ASSUME NEW then \in {"unlink_peer", "unlink_basis", "copy", "rename"}, WithBackup(then)
      PROVE  Types'
  <2>1. AtomicJob("target", "backup", FALSE, then) \in JobType
    BY <1>0, OptionFacts DEF CopyJob, AtomicJob, JobType, Labels, Names
  <2> QED
    BY <1>1, <1>2, <1>3, <2>1, BackupForms DEF Labels
<1>4. CASE Start
  BY <1>0, <1>1, <1>4, Decisions DEF Labels, Rest
<1>5. CASE Hard
  BY <1>0, <1>1, <1>3, <1>5, Decisions DEF Labels
<1>6. CASE CheckBasis
  BY <1>0, <1>1, <1>3, <1>6, Decisions DEF Labels, Rest
<1>7. CASE CopyBasis
  <2>1. CopyJob("basis", "target", "stamp") \in JobType
    BY <1>0, OptionFacts DEF CopyJob, AtomicJob, JobType, Labels, Names
  <2> QED
    BY <1>0, <1>2, <1>7, <2>1, Decisions
<1>8. CASE Fuzzy
  <2>1. CopyJob("near", "target", "append") \in JobType
    BY <1>0, OptionFacts DEF CopyJob, AtomicJob, JobType, Labels, Names
  <2> QED
    BY <1>0, <1>1, <1>2, <1>8, <2>1, Decisions DEF Labels
<1>9. CASE AppendVerify
  BY <1>0, <1>1, <1>9, Decisions DEF Labels
<1>10. CASE Write
  <2>1. AtomicJob("source", "staged", opts.keep, "publish") \in JobType
    BY <1>0, OptionFacts DEF AtomicJob, JobType, Labels, Names
  <2> QED
    BY <1>0, <1>2, <1>3, <1>10, <2>1, Decisions
<1>11. CASE Copy
  <2>1. CopyJob(From, "target", "stamp") \in JobType
    BY <1>0, OptionFacts DEF CopyJob, JobType, Labels, Names, From
  <2> QED
    BY <1>0, <1>2, <1>11, <2>1, Decisions
<1>12. CASE Publish
  BY <1>0, <1>3, <1>12, Decisions
<1>13. CASE CopyOpen
  <2> PICK i : /\ Fits(Into, i) /\ Writes(Into, i, <<>>)
               /\ mtime' = [mtime EXCEPT ![i] = 0]
               /\ Keeps /\ job' = job
               /\ pc = "open" /\ pc' = "chunk"
    BY <1>13, OpenForm
  <2>1. Into \in Names /\ <<>> \in File
    BY CopyFacts DEF IInv, Copying, File
  <2>2. names' \in [Names -> Inodes \cup {NoInode}] /\ data' \in [Inodes -> File]
    BY <2>1, WriteFacts DEF IInv
  <2>3. mtime' \in [Inodes -> Nat]
    BY <1>0 DEF Types, Fits
  <2> QED
    BY <1>0, <2>2, <2>3 DEF Types, Keeps, Labels
<1>14. CASE CopyChunk
  <2> PICK d \in File : /\ Fits(Into, names[Into]) /\ Writes(Into, names[Into], d)
                        /\ mtime' = mtime /\ names' = names /\ Keeps /\ job' = job
                        /\ pc = "chunk" /\ pc' = "chunk"
    BY <1>14, ChunkForm
  <2>1. data' \in [Inodes -> File]
    BY <1>0 DEF Types, Fits, Writes
  <2> QED
    BY <1>0, <2>1 DEF Types, Keeps, Labels
<1>15. CASE CopyEnd
  <2>1. job.to \in Names /\ job.then \in Labels
    BY <1>15, EndForm, CopyFacts
       DEF IInv, Copying, Jobs, BackupJob, BasisJob, OntoNothing, FuzzyJob, StageJob, FinalJob,
           CopyJob, AtomicJob, Labels, Names
  <2>2. names' \in [Names -> Inodes \cup {NoInode}]
    BY <1>0, <1>15, <2>1, EndForm DEF Types, Names
  <2> QED
    BY <1>0, <1>15, <2>1, <2>2, EndForm DEF Types, Keeps
<1>16. CASE AppendChunk
  <2> PICK d \in File : /\ Fits("target", names["target"]) /\ Writes("target", names["target"], d)
                        /\ names' = names
                        /\ mtime' = [mtime EXCEPT ![names["target"]] = 0]
                        /\ Keeps /\ job' = job
                        /\ pc' \in {"stamp", "appending"}
    BY <1>16, AppendForm
  <2>1. data' \in [Inodes -> File] /\ mtime' \in [Inodes -> Nat]
    BY <1>0 DEF Types, Fits, Writes
  <2> QED
    BY <1>0, <2>1 DEF Types, Keeps, Labels
<1>17. CASE ReceiveOpen
  <2>1. "recv" \in Names /\ <<>> \in File
    BY DEF Names, File
  <2>2. names' \in [Names -> Inodes \cup {NoInode}] /\ data' \in [Inodes -> File]
    BY <1>17, <2>1, ReceiveForm, WriteFacts DEF IInv
  <2>3. mtime' \in [Inodes -> Nat]
    BY <1>0, <1>17, ReceiveForm DEF Types, Fits
  <2> QED
    BY <1>0, <1>17, <2>2, <2>3, ReceiveForm DEF Types, Keeps, Labels
<1>18. CASE ReceiveToken
  <2>1. CASE Moves("append")
    BY <1>1, <2>1 DEF Labels
  <2>2. ASSUME NEW d \in File, Fits("recv", names["recv"]), Writes("recv", names["recv"], d),
               mtime' = mtime, names' = names, Keeps, job' = job, pc' = "tokens"
        PROVE  Types'
    <3>1. data' \in [Inodes -> File]
      BY <1>0, <2>2 DEF Types, Fits, Writes
    <3> QED
      BY <1>0, <2>2, <3>1 DEF Types, Keeps, Labels
  <2> QED
    BY <1>18, <2>1, <2>2, TokenForm
<1>19. CASE UnlinkForPeer \/ UnlinkForBasis
  BY <1>0, <1>19 DEF UnlinkForPeer, UnlinkForBasis, Unlink, Goto, history, Types, Labels, Names
<1>20. CASE LinkPeer \/ LinkBasis
  <2>1. \A n \in {"peer", "basis"} : names[n] \in Inodes \cup {NoInode}
    BY <1>0 DEF Types, Names
  <2>2. CASE \E l \in {"alternative", "copy_basis"} : Step(l)
    BY <1>1, <2>2, QuietForms DEF Labels
  <2>3. ASSUME NEW n \in {"peer", "basis"}, names' = [names EXCEPT !["target"] = names[n]],
               UNCHANGED <<data, mtime>>, Goto("stamp")
        PROVE  Types'
    BY <1>0, <2>1, <2>3 DEF Goto, history, Types, Labels, Names
  <2> QED
    BY <1>20, <2>2, <2>3 DEF LinkPeer, LinkBasis, Link
<1>21. CASE Rename
  <2>1. names["staged"] \in Inodes \cup {NoInode}
    BY <1>0 DEF Types, Names
  <2>2. names' \in [Names -> Inodes \cup {NoInode}]
    BY <1>0, <1>21, <2>1 DEF Rename, Types
  <2> QED
    BY <1>0, <1>21, <2>2 DEF Rename, Goto, history, Types, Labels
<1>22. CASE Stamp
  <2>1. names' \in [Names -> Inodes \cup {NoInode}]
    BY <1>0, <1>22 DEF Stamp, Types
  <2>2. mtime' \in [Inodes -> Nat]
    BY <1>0, <1>22, VersionFacts DEF Stamp, Types
  <2> QED
    BY <1>0, <1>22, <2>1, <2>2 DEF Stamp, Goto, history, Types, Labels, Rest
<1>23. CASE Fail
  BY <1>0, <1>23 DEF Fail, Cleanup, Types, Labels, Rest
<1>24. CASE Kill
  BY <1>0, <1>24 DEF Kill, disk, Types, Labels, Rest
<1>25. CASE NextRun
  <2>1. version' \in DOMAIN Versions /\ Versions[version'] \in File /\ version' \in Nat
    BY <1>25, VersionFacts DEF NextRun
  <2>2. names' \in [Names -> Inodes \cup {NoInode}]
    BY <1>0, <1>25 DEF NextRun, Types
  <2>3. data' \in [Inodes -> File] /\ mtime' \in [Inodes -> Nat]
    BY <1>0, <1>25, <2>1 DEF NextRun, Types
  <2>4. before' \in Contents /\ litter' \in BOOLEAN
    BY <1>0, <1>25, ContentFacts DEF NextRun, Names
  <2> QED
    BY <1>0, <1>25, <2>1, <2>2, <2>3, <2>4 DEF NextRun, Types, Labels
<1>26. CASE UNCHANGED vars
  BY <1>0, <1>26 DEF vars, disk, history, Types
<1> QED
  BY <1>4, <1>5, <1>6, <1>7, <1>8, <1>9, <1>10, <1>11, <1>12, <1>13, <1>14, <1>15, <1>16, <1>17,
     <1>18, <1>19, <1>20, <1>21, <1>22, <1>23, <1>24, <1>25, <1>26 DEF Next

\* Every step keeps inodes to their owners: new files get new inodes, a rename
\* takes the old name away, and only the target is linked.
LEMMA UnsharedStep ==
    ASSUME IInv, [Next]_vars
    PROVE  Unshared'
<1>0. Types /\ Unshared /\ Jobs /\ <<>> \in File
  BY DEF IInv, File
<1>1. CASE Decision
  BY <1>0, <1>1, DecisionIsQuiet DEF Quiet, Unshared, Has
<1>2. CASE CopyOpen
  <2>1. \E i : Fits(Into, i) /\ Writes(Into, i, <<>>)
    BY <1>2, OpenForm
  <2>2. Into \in Names
    BY <1>0, <1>2, CopyFacts DEF CopyOpen, Copying
  <2> QED
    BY <1>0, <2>1, <2>2, WriteFacts
<1>3. CASE CopyChunk \/ AppendChunk
  <2>1. names' = names
    BY <1>3 DEF CopyChunk, AppendChunk
  <2> QED
    BY <1>0, <2>1 DEF Unshared, Has
<1>4. CASE CopyEnd
  <2>1. CASE job.atomic
    <3>1. Has("temp") /\ job.to \in Names \ {"temp"}
      BY <1>0, <1>4, <2>1, EndForm, CopyFacts DEF CopyEnd, Copying, Names
    <3> QED
      BY <1>0, <1>4, <2>1, <3>1, EndForm, RenameFacts
  <2>2. CASE ~job.atomic
    BY <1>0, <1>4, <2>2, EndForm DEF Unshared, Has
  <2> QED
    BY <2>1, <2>2
<1>5. CASE ReceiveOpen
  BY <1>0, <1>5, ReceiveForm, WriteFacts DEF Names
<1>6. CASE ReceiveToken
  <2>1. names' = names
    BY <1>6, TokenForm DEF Moves, Quiet
  <2> QED
    BY <1>0, <2>1 DEF Unshared, Has
<1>7. CASE UnlinkForPeer \/ UnlinkForBasis
  <2>1. names' = [names EXCEPT !["target"] = NoInode]
    BY <1>7 DEF UnlinkForPeer, UnlinkForBasis, Unlink
  <2> QED
    BY <1>0, <2>1 DEF Unshared, Has, Types
<1>8. CASE LinkPeer \/ LinkBasis
  <2>1. CASE names' = names
    BY <1>0, <2>1 DEF Unshared, Has
  <2> QED
    BY <1>0, <1>8, <2>1, LinkForm, LinkFacts DEF Moves, Quiet
<1>9. CASE Rename
  <2>1. Has("staged")
    BY <1>9 DEF IInv, Target, Reached, Place, Copying, Rename
  <2> QED
    BY <1>0, <1>9, <2>1, RenameFacts DEF Rename, Names
<1>10. CASE Stamp
  <2>1. names' = [names EXCEPT !["recv"] = NoInode]
    BY <1>10 DEF Stamp
  <2> QED
    BY <1>0, <2>1 DEF Unshared, Has, Types
<1>11. CASE Fail
  BY <1>0, <1>11 DEF Fail, Cleanup, Unshared, Has
<1>12. CASE Kill \/ UNCHANGED vars
  BY <1>0, <1>12 DEF Kill, vars, disk, Unshared, Has
<1>13. CASE NextRun
  BY <1>0, <1>13 DEF NextRun, Unshared, Has
<1> QED
  BY <1>1, <1>2, <1>3, <1>4, <1>5, <1>6, <1>7, <1>8, <1>9, <1>10, <1>11, <1>12, <1>13
     DEF Next, Decision

-----------------------------------------------------------------------------
(* What is read, the basis and the stamps                                  *)

\* No step writes to what is read, and what was received stays until it is
\* in place.
LEMMA InputsStep ==
    ASSUME IInv, [Next]_vars
    PROVE  Inputs'
<1>0. /\ Types /\ Unshared /\ Inputs /\ Jobs
      /\ "target" \in Names /\ "source" \in Names /\ "near" \in Names /\ "peer" \in Names
      /\ "basis" \in Names /\ "recv" \in Names /\ "temp" \in Names
  BY DEF IInv, Names
<1>a. ASSUME Quiet,
             opts.remote => pc' \in {"start", "receive", "tokens"} \cup Received \cup Rest,
             pc' \in {"receive", "tokens"} => opts.remote,
             pc' = "tokens" => Has("recv") /\ IsPrefixOf(Content("recv"), Wanted),
             opts.remote /\ pc' \in Received => Has("recv") /\ Content("recv") = Wanted,
             Has("peer") /\ names["target"] = names["peer"] => pc' \in {"stamp"} \cup Rest
      PROVE  Inputs'
  BY <1>0, <1>a DEF Quiet, Inputs, Has, Content, Wanted
<1>1. CASE Decision
  <2>1. Quiet
    BY <1>0, <1>1, DecisionIsQuiet
  <2>2. \A then : WithBackup(then) => pc' = then \/ (pc' = "open" /\ ~opts.remote)
    BY BackupForms DEF Moves, Starts
  <2>3. CASE Start
    <3>1. pc = "start" /\ pc' \in {IF opts.remote THEN "receive" ELSE "hard", "done"}
      BY <2>3 DEF Start, Step, Goto
    <3> QED
      BY <1>0, <1>a, <2>1, <2>3, <3>1, OptionFacts DEF Inputs, Received, Rest, Start
  <2>4. CASE ~opts.remote /\ ~Start
    <3>1. pc' \notin {"receive", "tokens"}
      BY <1>0, <1>1, <2>2, <2>4, Decisions DEF Decision, Moves, Starts
    <3>2. pc \notin {"stamp"} \cup Rest
      BY <1>0, <1>1, <2>4, Decisions DEF Decision, Rest
    <3> QED
      BY <1>0, <1>a, <2>1, <2>4, <3>1, <3>2 DEF Inputs
  <2>5. CASE opts.remote /\ ~Start
    <3>1. AppendVerify \/ Write \/ Copy
      BY <1>0, <1>1, <2>5, Decisions DEF Decision, Inputs, Received, Rest
    <3>2. pc' \in Received /\ pc \in Received
      BY <1>0, <2>2, <2>5, <3>1, Decisions DEF Moves, Starts, Received
    <3>3. pc \notin {"stamp"} \cup Rest
      BY <1>0, <3>1, Decisions DEF Rest
    <3> QED
      BY <1>0, <1>a, <2>1, <2>5, <3>2, <3>3 DEF Inputs, Received
  <2> QED
    BY <2>3, <2>4, <2>5, <1>0, OptionFacts
<1>b. ASSUME NEW k \in {"target", "temp"}, NEW i, NEW d \in File, Fits(k, i), Writes(k, i, d),
             mtime' = mtime \/ mtime' = [mtime EXCEPT ![i] = 0], Keeps,
             pc \in {"open", "chunk", "appending"}, pc' \in {"chunk", "appending", "stamp"}
      PROVE  Inputs'
  <2>1. k \in Names
    BY <1>0, <1>b
  <2>2. \A n \in {"source", "near", "recv", "peer"} :
          /\ Has(n)' <=> Has(n)
          /\ Has(n) => Content(n)' = Content(n) /\ names'[n] = names[n] /\ names[n] # i
    <3> SUFFICES ASSUME NEW n \in {"source", "near", "recv", "peer"}
                 PROVE  /\ Has(n)' <=> Has(n)
                        /\ Has(n) => /\ Content(n)' = Content(n)
                                     /\ names'[n] = names[n] /\ names[n] # i
      OBVIOUS
    <3>1. n \in Names \ {k}
      BY <1>0, <1>b
    <3>2. names[n] = i => n = "peer" /\ k = "target" /\ Has("peer") /\ names["peer"] = names["target"]
      BY <1>0, <1>b, <2>1, <3>1, WriteFacts
    <3>3. names[n] # i
      BY <1>0, <1>b, <3>2 DEF Inputs, Rest
    <3> QED
      BY <1>0, <1>b, <2>1, <3>1, <3>3, WriteFacts
  <2>3. Has("basis")'
    BY <1>0, <1>b, <2>1, WriteFacts DEF Inputs
  <2>4. mtime'[names'["source"]] = mtime[names["source"]]
    BY <1>0, <1>b, <2>2 DEF Inputs, Types, Has
  <2>5. names["peer"] # i /\ (k = "temp" => names'["target"] = names["target"])
    BY <1>0, <1>b, <2>1, <2>2, WriteFacts DEF Has, Fits, Inodes, NoInode
  <2>6. Has("peer")' => names'["target"] # names'["peer"]
    BY <1>0, <1>b, <2>1, <2>2, <2>5, WriteFacts DEF Inputs, Rest
  <2>7. opts.remote => Has("recv")' /\ Content("recv")' = Wanted'
    BY <1>0, <1>b, <2>2 DEF Inputs, Received, Keeps, Wanted
  <2>8. pc' \in Received /\ pc' \notin {"receive", "tokens"} /\ opts' = opts /\ Wanted' = Wanted /\ version' = version
    BY <1>b DEF Received, Keeps, Wanted
  <2> QED
    BY <1>0, <2>2, <2>3, <2>4, <2>6, <2>7, <2>8 DEF Inputs
<1>2. CASE CopyOpen
  <2> PICK i : /\ Fits(Into, i) /\ Writes(Into, i, <<>>)
               /\ mtime' = [mtime EXCEPT ![i] = 0]
               /\ Keeps /\ pc = "open" /\ pc' = "chunk"
    BY <1>2, OpenForm
  <2>1. Into \in {"target", "temp"} /\ <<>> \in File
    BY <1>0, CopyFacts DEF Copying, File
  <2> QED
    BY <1>b, <2>1
<1>3. CASE CopyChunk
  <2> PICK d \in File : /\ Fits(Into, names[Into]) /\ Writes(Into, names[Into], d)
                        /\ mtime' = mtime /\ Keeps /\ pc = "chunk" /\ pc' = "chunk"
    BY <1>3, ChunkForm
  <2>1. Into \in {"target", "temp"}
    BY <1>0, CopyFacts DEF Copying
  <2> QED
    BY <1>b, <2>1
<1>4. CASE AppendChunk
  <2> PICK d \in File : /\ Fits("target", names["target"]) /\ Writes("target", names["target"], d)
                        /\ mtime' = [mtime EXCEPT ![names["target"]] = 0]
                        /\ Keeps /\ pc = "appending" /\ pc' \in {"appending", "stamp"}
    BY <1>4, AppendForm
  <2> QED
    BY <1>b
<1>5. CASE CopyEnd
  <2>1. /\ pc = "chunk" /\ Has(Into) /\ Copying /\ Keeps /\ data' = data /\ mtime' = mtime
        /\ pc' \in {"unlink_peer", "unlink_basis", "copy", "rename", "stamp", "append", "publish"}
    BY <1>0, <1>5, EndForm
       DEF Copying, Jobs, BackupJob, BasisJob, OntoNothing, FuzzyJob, StageJob, FinalJob, CopyJob, AtomicJob
  <2>2. pc' \in Received \/ ~opts.remote
    BY <1>0, <1>5, <2>1, EndForm, OptionFacts
       DEF Jobs, BackupJob, BasisJob, OntoNothing, FuzzyJob, StageJob, FinalJob, CopyJob, AtomicJob, Received, ToBasis
  <2>3. \A n \in {"source", "near", "recv", "peer", "basis"} :
          names'[n] = names[n] /\ (Has(n)' <=> Has(n)) /\ Content(n)' = Content(n)
    <3>1. CASE job.atomic
      <4>1. Has("temp") /\ job.to \in Names \ {"temp", "source", "near", "recv", "peer", "basis"}
        BY <1>0, <2>1, <3>1, CopyFacts DEF Names
      <4> QED
        BY <1>0, <1>5, <3>1, <4>1, EndForm, RenameFacts
    <3>2. CASE ~job.atomic
      BY <1>5, <2>1, <3>2, EndForm DEF Has, Content
    <3> QED
      BY <3>1, <3>2
  <2>4. Has("peer") => names'["target"] # names["peer"]
    <3>1. CASE job.atomic /\ job.to = "target"
      <4>1. Has("temp")
        BY <1>0, <2>1, <3>1, CopyFacts
      <4>2. names'["target"] = names["temp"]
        BY <1>0, <1>5, <3>1, <4>1, EndForm, RenameFacts
      <4> QED
        BY <1>0, <4>1, <4>2 DEF Unshared
    <3>2. CASE ~(job.atomic /\ job.to = "target")
      <4>1. names'["target"] = names["target"]
        BY <1>0, <1>5, <2>1, <3>2, EndForm, RenameFacts, CopyFacts DEF Names
      <4> QED
        BY <1>0, <2>1, <4>1 DEF Inputs, Rest
    <3> QED
      BY <3>1, <3>2
  <2>5. mtime'[names'["source"]] = version /\ opts' = opts /\ Wanted' = Wanted /\ version' = version
    BY <1>0, <2>1, <2>3 DEF Inputs, Keeps, Wanted
  <2> QED
    BY <1>0, <2>1, <2>2, <2>3, <2>4, <2>5 DEF Inputs, Received
<1>6. CASE ReceiveOpen
  <2>0. <<>> \in File /\ Fits("recv", NewInode) /\ Writes("recv", NewInode, <<>>)
        /\ \A n \in Names : names[n] # NewInode
    BY <1>0, <1>6, ReceiveForm, NewInodeFacts DEF File, Types
  <2>1. \A n \in {"source", "near", "peer", "target", "basis"} :
          names'[n] = names[n] /\ (Has(n)' <=> Has(n)) /\ Content(n)' = Content(n)
    BY <1>0, <2>0, WriteFacts
  <2>2. Has("recv")' /\ Content("recv")' = <<>>
    BY <1>0, <2>0, WriteFacts
  <2>3. names["source"] \in Inodes /\ names["source"] # NewInode
    BY <1>0, <1>6, NewInodeFacts DEF Inputs, Types, Has
  <2>4. mtime'[names["source"]] = mtime[names["source"]]
    BY <1>0, <1>6, <2>3, ReceiveForm DEF Types
  <2>5. Wanted' = Wanted /\ Wanted \in Contents /\ version' = version /\ opts' = opts
    BY <1>0, <1>6, ReceiveForm, VersionFacts DEF Keeps, Wanted, Types, Contents
  <2>6. IsPrefixOf(<<>>, Wanted)
    BY <2>5, PrefixFacts
  <2>7. pc = "receive" /\ pc' = "tokens"
    BY <1>6, ReceiveForm
  <2> QED
    BY <1>0, <2>1, <2>2, <2>4, <2>5, <2>6, <2>7 DEF Inputs, Received, Rest
<1>7. CASE ReceiveToken
  <2>1. CASE Content("recv") = Wanted /\ Moves("append")
    BY <1>0, <1>7, <1>a, <2>1, TokenForm DEF Moves, Inputs, Received, Rest
  <2>2. ASSUME NEW d \in File, Fits("recv", names["recv"]), Writes("recv", names["recv"], d),
               IsPrefixOf(d, Wanted), mtime' = mtime, names' = names, Keeps, pc' = "tokens"
        PROVE  Inputs'
    <3>1. \A n \in {"source", "near", "peer", "basis"} :
            names'[n] = names[n] /\ (Has(n)' <=> Has(n)) /\ Content(n)' = Content(n)
      BY <1>0, <2>2, WriteFacts
    <3>2. Has("recv")' /\ Content("recv")' = d
      BY <1>0, <2>2, WriteFacts
    <3>3. Wanted' = Wanted /\ version' = version /\ opts' = opts
      BY <2>2 DEF Keeps, Wanted
    <3> QED
      BY <1>0, <1>7, <2>2, <3>1, <3>2, <3>3, TokenForm DEF Inputs, Received
  <2> QED
    BY <1>7, <2>1, <2>2, TokenForm
<1>8. CASE UnlinkForPeer \/ UnlinkForBasis
  BY <1>0, <1>8, OptionFacts
     DEF UnlinkForPeer, UnlinkForBasis, Unlink, Goto, history, Types, Inputs, Received, Rest, Names,
         Has, Content, Wanted
<1>9. CASE LinkPeer \/ LinkBasis
  <2>1. pc \in {"link_peer", "link_basis"} /\ ~opts.remote
    BY <1>0, <1>9, OptionFacts DEF LinkPeer, LinkBasis, Inputs, Received, Rest
  <2>2. CASE Moves("alternative") \/ Moves("copy_basis")
    BY <1>0, <1>a, <2>1, <2>2 DEF Moves, Inputs, Rest
  <2>3. ASSUME NEW k \in {"peer", "basis"}, Has(k),
               names' = [names EXCEPT !["target"] = names[k]],
               data' = data, mtime' = mtime, Keeps, pc' = "stamp"
        PROVE  Inputs'
    <3>1. \A n \in {"source", "near", "peer", "basis"} :
            names'[n] = names[n] /\ (Has(n)' <=> Has(n)) /\ Content(n)' = Content(n)
      BY <1>0, <2>3, LinkFacts
    <3> QED
      BY <1>0, <2>1, <2>3, <3>1 DEF Inputs, Keeps, Wanted
  <2> QED
    BY <1>9, <2>2, <2>3, LinkForm
<1>10. CASE Rename
  BY <1>0, <1>10, OptionFacts
     DEF Rename, Goto, history, Types, Inputs, Received, Rest, Names, Has, Content, Wanted, Unshared, NoInode
<1>11. CASE Stamp
  <2>1. \A n \in {"source", "near", "peer", "basis"} :
          names'[n] = names[n] /\ (Has(n)' <=> Has(n)) /\ Content(n)' = Content(n)
    BY <1>0, <1>11 DEF Stamp, Types, Has, Content
  <2>2. names["target"] # names["source"] /\ names["source"] \in Inodes
    BY <1>0 DEF Unshared, Inputs, Has, Types
  <2>3. mtime'[names["source"]] = mtime[names["source"]]
    BY <1>0, <1>11, <2>2 DEF Stamp, Types
  <2>4. pc' = "done" /\ Wanted' = Wanted /\ version' = version /\ opts' = opts
    BY <1>11 DEF Stamp, Goto, Wanted
  <2> QED
    BY <1>0, <2>1, <2>3, <2>4 DEF Inputs, Received, Rest
<1>12. CASE Fail
  BY <1>0, <1>12 DEF Fail, Cleanup, Inputs, Received, Rest, Has, Content, Wanted
<1>13. CASE Kill
  BY <1>0, <1>13 DEF Kill, disk, Inputs, Received, Rest, Has, Content, Wanted
<1>14. CASE UNCHANGED vars
  BY <1>0, <1>14 DEF vars, disk, history, Inputs, Has, Content, Wanted
<1>15. CASE NextRun
  <2>1. /\ \A n \in {"source", "near", "basis"} : names'[n] = names[n]
        /\ ~Has("peer")' /\ ~Has("recv")'
    BY <1>0, <1>15 DEF NextRun, Has, Temps
  <2>2. names["source"] \in Inodes /\ names["near"] # names["source"]
    BY <1>0 DEF Inputs, Unshared, Types, Has
  <2>3. /\ Has("source")' /\ Has("basis")' /\ Has("near")'
        /\ Content("source")' = Wanted' /\ mtime'[names'["source"]] = version'
        /\ Content("near")' = Content("near")
    BY <1>0, <1>15, <2>1, <2>2 DEF NextRun, Inputs, Types, Has, Content, Wanted
  <2> QED
    BY <1>0, <1>15, <2>1, <2>3 DEF NextRun, Inputs, Received
<1> QED
  BY <1>1, <1>2, <1>3, <1>4, <1>5, <1>6, <1>7, <1>8, <1>9, <1>10, <1>11, <1>12, <1>13, <1>14, <1>15
     DEF Next, Decision

\* A write reaches the basis through the target only, and the target is only
\* written to in place or to append.
LEMMA BasisStep ==
    ASSUME IInv, [Next]_vars
    PROVE  Basis'
<1>0. /\ Types /\ Unshared /\ Inputs /\ Jobs /\ Basis /\ Target
      /\ "target" \in Names /\ "basis" \in Names /\ "temp" \in Names /\ "recv" \in Names
      /\ <<>> \in File
  BY DEF IInv, Names, File
<1>1. CASE Decision
  BY <1>0, <1>1, DecisionIsQuiet DEF Quiet, Basis, InPlace, Has, Content
<1>a. ASSUME NEW k \in {"target", "temp", "recv"}, NEW i, NEW d \in File,
             Fits(k, i), Writes(k, i, d), Keeps, k = "target" => InPlace \/ opts.append
      PROVE  Basis'
  <2>1. k \in Names /\ "basis" \in Names \ {k}
    BY <1>0, <1>a
  <2>2. names'["basis"] = names["basis"]
    BY <1>0, <1>a, <2>1, WriteFacts
  <2>3. names["basis"] = i => k = "target" /\ names["target"] = names["basis"]
    BY <1>0, <1>a, <2>1, WriteFacts
  <2>4. names["basis"] # i => Content("basis")' = Content("basis")
    BY <1>0, <1>a, <2>1, WriteFacts
  <2>5. names'["target"] = i \/ names'["target"] = names["target"]
    BY <1>0, <1>a, <2>1, WriteFacts
  <2>6. names'["target"] = names'["basis"] => names["target"] = names["basis"]
    BY <2>2, <2>3, <2>5
  <2> QED
    BY <1>0, <1>a, <2>3, <2>4, <2>6 DEF Basis, Keeps, InPlace
<1>2. CASE CopyOpen
  <2> PICK i : Fits(Into, i) /\ Writes(Into, i, <<>>) /\ Keeps /\ pc = "open"
    BY <1>2, OpenForm
  <2>1. Into \in {"target", "temp"} /\ (Into = "target" => InPlace)
    BY <1>0, CopyFacts DEF Copying, InPlace
  <2> QED
    BY <1>0, <1>a, <2>1
<1>3. CASE CopyChunk
  <2> PICK d \in File : /\ Fits(Into, names[Into]) /\ Writes(Into, names[Into], d)
                        /\ Keeps /\ pc = "chunk"
    BY <1>3, ChunkForm
  <2>1. Into \in {"target", "temp"} /\ (Into = "target" => InPlace)
    BY <1>0, CopyFacts DEF Copying, InPlace
  <2> QED
    BY <1>a, <2>1
<1>4. CASE AppendChunk
  <2> PICK d \in File : /\ Fits("target", names["target"]) /\ Writes("target", names["target"], d)
                        /\ Keeps /\ pc = "appending"
    BY <1>4, AppendForm
  <2>1. opts.append
    BY <1>0 DEF Target, Reached, Place, Copying
  <2> QED
    BY <1>a, <2>1
<1>5. CASE CopyEnd
  <2>1. CASE job.atomic
    <3>1. Has("temp") /\ job.to \in Names \ {"temp", "basis"} /\ names["temp"] # names["basis"]
      BY <1>0, <1>5, <2>1, EndForm, CopyFacts DEF CopyEnd, Copying, Names, Unshared
    <3>2. /\ names'["basis"] = names["basis"] /\ Content("basis")' = Content("basis")
          /\ names'["target"] \in {names["temp"], names["target"]}
      BY <1>0, <1>5, <2>1, <3>1, EndForm, RenameFacts
    <3> QED
      BY <1>0, <1>5, <3>1, <3>2, EndForm DEF Basis, Keeps, InPlace
  <2>2. CASE ~job.atomic
    BY <1>0, <1>5, <2>2, EndForm DEF Basis, Keeps, InPlace, Has, Content
  <2> QED
    BY <2>1, <2>2
<1>6. CASE ReceiveOpen
  BY <1>0, <1>6, <1>a, ReceiveForm
<1>7. CASE ReceiveToken
  <2>1. CASE Moves("append")
    BY <1>0, <2>1 DEF Moves, Quiet, Basis, InPlace, Has, Content
  <2> QED
    BY <1>0, <1>7, <1>a, <2>1, TokenForm
<1>8. CASE LinkPeer \/ LinkBasis
  <2>1. CASE Quiet
    BY <1>0, <2>1 DEF Quiet, Basis, InPlace, Has, Content
  <2>2. ASSUME NEW k \in {"peer", "basis"}, Has(k), k = "basis" => pc = "link_basis",
               names' = [names EXCEPT !["target"] = names[k]], data' = data, Keeps
        PROVE  Basis'
    <3>1. /\ names'["basis"] = names["basis"] /\ Content("basis")' = Content("basis")
          /\ names'["target"] = names[k]
      BY <1>0, <2>2, LinkFacts
    <3>2. k = "peer" => names["peer"] # names["basis"]
      BY <1>0, <2>2 DEF Unshared, Names
    <3>3. k = "basis" => opts.alternative = "link"
      BY <1>0, <2>2 DEF Target, Reached, Place, Copying
    <3> QED
      BY <1>0, <2>2, <3>1, <3>2, <3>3 DEF Basis, Keeps, InPlace
  <2> QED
    BY <1>8, <2>1, <2>2, LinkForm DEF Moves
<1>9. CASE UnlinkForPeer \/ UnlinkForBasis
  BY <1>0, <1>9
     DEF UnlinkForPeer, UnlinkForBasis, Unlink, Goto, history, Types, Inputs, Basis, InPlace, Has, Content
<1>10. CASE Rename
  <2>1. Has("staged") /\ "staged" \in Names /\ "target" \in Names \ {"staged"}
    BY <1>0, <1>10 DEF Target, Reached, Place, Copying, Rename, Names
  <2>2. names'["target"] = names["staged"] /\ names'["basis"] = names["basis"]
        /\ Content("basis")' = Content("basis") /\ names["staged"] # names["basis"]
    BY <1>0, <1>10, <2>1, RenameFacts DEF Rename
  <2> QED
    BY <1>0, <1>10, <2>2 DEF Rename, Goto, history, Basis, InPlace
<1>11. CASE Stamp
  BY <1>0, <1>11 DEF Stamp, Goto, history, Types, Basis, InPlace, Has, Content
<1>12. CASE Fail
  BY <1>0, <1>12 DEF Fail, Cleanup, Basis, InPlace, Has, Content
<1>13. CASE Kill \/ UNCHANGED vars
  BY <1>0, <1>13 DEF Kill, vars, disk, history, Basis, InPlace, Has, Content
<1>14. CASE NextRun
  <2>1. names["basis"] # names["source"] /\ names'["basis"] = names["basis"] /\ names'["target"] = names["target"]
    BY <1>0, <1>14 DEF NextRun, Temps, Unshared, Inputs, Names
  <2>2. Content("basis")' = Content("basis")
    BY <1>0, <1>14, <2>1 DEF NextRun, Types, Has, Content
  <2> QED
    BY <1>0, <1>14, <2>1, <2>2 DEF NextRun, Basis, InPlace
<1> QED
  BY <1>1, <1>2, <1>3, <1>4, <1>5, <1>6, <1>7, <1>8, <1>9, <1>10, <1>11, <1>12, <1>13, <1>14
     DEF Next, Decision

\* A file gets the time of a version last, when its content is complete.
LEMMA StampsStep ==
    ASSUME IInv, [Next]_vars
    PROVE  Stamps'
<1>0. /\ Types /\ Unshared /\ Inputs /\ Jobs /\ Target /\ Stamps
      /\ "target" \in Names /\ "temp" \in Names /\ "staged" \in Names /\ "recv" \in Names
      /\ <<>> \in File
  BY DEF IInv, Names, File
<1>q. ASSUME Quiet PROVE Stamps'
  BY <1>0, <1>q DEF Quiet, Stamps, Plain, Seen, Has, Content
<1>1. CASE Decision
  BY <1>0, <1>1, <1>q, DecisionIsQuiet
<1>a. ASSUME NEW k \in {"target", "temp", "recv"}, NEW i, NEW d \in File,
             Fits(k, i), Writes(k, i, d), Keeps,
             \/ mtime' = [mtime EXCEPT ![i] = 0]
             \/ mtime' = mtime /\ i = names[k],
             k = "target" => ~Plain
      PROVE  Stamps'
  <2>1. k \in Names /\ Plain' = Plain
    BY <1>0, <1>a DEF Plain, Keeps
  <2>2. ASSUME NEW n \in {"temp", "staged"}, Has(n)' PROVE mtime'[names'[n]] = 0
    <3>1. n \in Names /\ names[n] \in Inodes \cup {NoInode}
      BY <1>0, <2>2 DEF Types
    <3>2. CASE n = k
      BY <1>0, <1>a, <2>1, <3>1, <3>2, WriteFacts DEF Stamps, Types, Fits, Has, NoInode
    <3>3. CASE n # k
      <4>1. names'[n] = names[n] /\ Has(n) /\ names[n] # i
        BY <1>0, <1>a, <2>1, <2>2, <3>1, <3>3, WriteFacts
      <4> QED
        BY <1>0, <1>a, <3>1, <4>1 DEF Stamps, Types, Has
    <3> QED
      BY <3>2, <3>3
  <2>3. ASSUME Plain, Has("target")', mtime'[names'["target"]] # 0
        PROVE  /\ mtime'[names'["target"]] \in DOMAIN Versions
               /\ Seen' = Versions[mtime'[names'["target"]]]
    <3>1. k # "target" /\ k # "basis" /\ k # "peer"
      BY <1>a, <2>3
    <3>2. names'["target"] = names["target"] /\ Has("target") /\ names["target"] # i
          /\ Content("target")' = Content("target")
      BY <1>0, <1>a, <2>1, <2>3, <3>1, WriteFacts
    <3>3. mtime'[names["target"]] = mtime[names["target"]]
      BY <1>0, <1>a, <3>2 DEF Types, Has
    <3> QED
      BY <1>0, <2>3, <3>2, <3>3 DEF Stamps, Seen
  <2> QED
    BY <2>1, <2>2, <2>3 DEF Stamps
<1>2. CASE CopyOpen
  <2> PICK i : /\ Fits(Into, i) /\ Writes(Into, i, <<>>) /\ Keeps /\ pc = "open"
               /\ mtime' = [mtime EXCEPT ![i] = 0]
    BY <1>2, OpenForm
  <2>1. Into \in {"target", "temp"} /\ (Into = "target" => ~Plain)
    BY <1>0, CopyFacts DEF Copying, Plain
  <2> QED
    BY <1>0, <1>a, <2>1
<1>3. CASE CopyChunk
  <2> PICK d \in File : /\ Fits(Into, names[Into]) /\ Writes(Into, names[Into], d)
                        /\ Keeps /\ pc = "chunk" /\ mtime' = mtime
    BY <1>3, ChunkForm
  <2>1. Into \in {"target", "temp"} /\ (Into = "target" => ~Plain)
    BY <1>0, CopyFacts DEF Copying, Plain
  <2> QED
    BY <1>a, <2>1
<1>4. CASE AppendChunk
  <2> PICK d \in File : /\ Fits("target", names["target"]) /\ Writes("target", names["target"], d)
                        /\ Keeps /\ pc = "appending"
                        /\ mtime' = [mtime EXCEPT ![names["target"]] = 0]
    BY <1>4, AppendForm
  <2>1. ~Plain
    BY <1>0 DEF Target, Reached, Place, Copying, Plain
  <2> QED
    BY <1>a, <2>1
<1>b. ASSUME NEW k \in {"temp", "staged"}, NEW to \in Names \ {k}, Has(k), mtime' = mtime, Keeps,
             names' = [names EXCEPT ![to] = names[k], ![k] = NoInode], data' = data
      PROVE  Stamps'
  <2>1. /\ names'[to] = names[k] /\ ~Has(k)'
        /\ \A n \in Names \ {k, to} : names'[n] = names[n] /\ Content(n)' = Content(n)
    BY <1>0, <1>b, RenameFacts
  <2>2. mtime[names[k]] = 0 /\ Plain' = Plain
    BY <1>0, <1>b DEF Stamps, Keeps, Plain
  <2>3. \A n \in {"temp", "staged"} : Has(n)' => mtime'[names'[n]] = 0
    BY <1>0, <1>b, <2>1, <2>2 DEF Stamps, Has
  <2>4. CASE to = "target"
    BY <1>b, <2>1, <2>2, <2>3, <2>4 DEF Stamps
  <2>5. CASE to # "target"
    BY <1>0, <1>b, <2>1, <2>2, <2>3, <2>5 DEF Stamps, Seen, Has
  <2> QED
    BY <2>4, <2>5
<1>5. CASE CopyEnd
  <2>1. CASE job.atomic
    <3>1. Has("temp") /\ job.to \in Names \ {"temp"}
      BY <1>0, <1>5, <2>1, EndForm, CopyFacts DEF CopyEnd, Copying, Names
    <3> QED
      BY <1>5, <1>b, <2>1, <3>1, EndForm
  <2>2. CASE ~job.atomic
    BY <1>0, <1>5, <2>2, EndForm DEF Stamps, Keeps, Plain, Seen, Has, Content
  <2> QED
    BY <2>1, <2>2
<1>6. CASE ReceiveOpen
  BY <1>0, <1>6, <1>a, ReceiveForm
<1>7. CASE ReceiveToken
  BY <1>0, <1>7, <1>a, <1>q, TokenForm DEF Moves
<1>8. CASE LinkPeer \/ LinkBasis
  <2>1. ASSUME NEW k \in {"peer", "basis"}, Has(k), pc \in {"link_peer", "link_basis"}, Keeps,
               names' = [names EXCEPT !["target"] = names[k]], data' = data, mtime' = mtime
        PROVE  Stamps'
    <3>1. names'["temp"] = names["temp"] /\ names'["staged"] = names["staged"]
      BY <1>0, <2>1, LinkFacts
    <3>2. ~Plain'
      BY <1>0, <2>1 DEF Target, Reached, Place, Copying, Plain, ToBasis, Keeps
    <3> QED
      BY <1>0, <2>1, <3>1, <3>2 DEF Stamps, Has
  <2> QED
    BY <1>8, <1>q, <2>1, LinkForm DEF Moves
<1>9. CASE UnlinkForPeer \/ UnlinkForBasis
  BY <1>0, <1>9
     DEF UnlinkForPeer, UnlinkForBasis, Unlink, Goto, history, Types, Stamps, Plain, Has
<1>10. CASE Rename
  <2>1. Has("staged") /\ "target" \in Names \ {"staged"}
    BY <1>0, <1>10 DEF Target, Reached, Place, Copying, Rename
  <2> QED
    BY <1>10, <1>b, <2>1 DEF Rename, Goto, history, Keeps
<1>11. CASE Stamp
  <2>1. Has("target") /\ names["target"] \in Inodes /\ (Plain => Seen = Wanted)
    BY <1>0, <1>11 DEF Target, Reached, Place, Copying, Stamp, Plain, ToBasis, Types, Has
  <2>2. /\ \A n \in {"temp", "staged", "target"} : names'[n] = names[n] /\ (Has(n)' <=> Has(n))
        /\ Seen' = Seen /\ Plain' = Plain
    BY <1>0, <1>11 DEF Stamp, Goto, history, Types, Has, Content, Seen, Plain
  <2>3. \A n \in {"temp", "staged"} : Has(n) => names[n] # names["target"]
    BY <1>0 DEF Unshared
  <2>4. \A n \in {"temp", "staged"} : Has(n)' => mtime'[names'[n]] = 0
    BY <1>0, <1>11, <2>2, <2>3 DEF Stamp, Types, Stamps, Has
  <2>5. mtime'[names'["target"]] = IF opts.times THEN version ELSE mtime[names["target"]]
    BY <1>0, <1>11, <2>1, <2>2 DEF Stamp, Types
  <2> QED
    BY <1>0, <2>1, <2>2, <2>4, <2>5 DEF Stamps, Types, Wanted
<1>12. CASE Fail
  BY <1>0, <1>12 DEF Fail, Cleanup, Stamps, Plain, Seen, Has, Content
<1>13. CASE Kill \/ UNCHANGED vars
  BY <1>0, <1>13 DEF Kill, vars, disk, history, Stamps, Plain, Seen, Has, Content
<1>14. CASE NextRun
  <2>1. /\ names'["target"] = names["target"] /\ names'["staged"] = names["staged"] /\ ~Has("temp")'
        /\ names["source"] \in Inodes
        /\ Has("target") => names["target"] # names["source"]
        /\ Has("staged") => names["staged"] # names["source"]
    BY <1>0, <1>14 DEF NextRun, Temps, Unshared, Inputs, Names, Types, Has
  <2> QED
    BY <1>0, <1>14, <2>1 DEF NextRun, Stamps, Plain, Types, Seen, Has, Content
<1> QED
  BY <1>1, <1>2, <1>3, <1>4, <1>5, <1>6, <1>7, <1>8, <1>9, <1>10, <1>11, <1>12, <1>13, <1>14
     DEF Next, Decision

-----------------------------------------------------------------------------
(* The copies                                                              *)

\* A step that leaves what the target is compared with as it is
SameView ==
    /\ \A n \in {"target", "basis", "source", "peer"} :
         (Has(n)' <=> Has(n)) /\ Content(n)' = Content(n)
    /\ \A n \in {"target", "basis", "source"} :
         Has(n) => mtime'[names'[n]] = mtime[names[n]]
    /\ Keeps

\* Then what a step has reached stays reached.
LEMMA ViewFacts ==
    ASSUME Types, Inputs, SameView
    PROVE  /\ Seen' = Seen /\ Wanted' = Wanted
           /\ BasisFilesMatch' <=> BasisFilesMatch
           /\ ToBasis' <=> ToBasis
           /\ Undisturbed' <=> Undisturbed
           /\ FromFuzzy' <=> FromFuzzy
           /\ Fuzzed' <=> Fuzzed
           /\ TargetNeverTorn' <=> TargetNeverTorn
           /\ UpToDate' <=> UpToDate
           /\ \A l : /\ Reached(l)
                     /\ l \in {"publish", "rename"} => Has("staged")' /\ Content("staged")' = Wanted
                     => Reached(l)'
<1>1. Seen' = Seen /\ Wanted' = Wanted /\ opts' = opts /\ before' = before /\ version' = version
  BY DEF SameView, Keeps, Seen, Wanted
<1>2. BasisFilesMatch' <=> BasisFilesMatch
  BY DEF SameView, BasisFilesMatch, Inputs
<1>3. ToBasis' <=> ToBasis
  BY <1>1, <1>2 DEF ToBasis
<1>4. Undisturbed' <=> Undisturbed
  BY <1>1 DEF Undisturbed
<1>5. FromFuzzy' <=> FromFuzzy
  BY <1>1 DEF FromFuzzy
<1>6. Fuzzed' <=> Fuzzed
  BY <1>1, <1>4, <1>5 DEF Fuzzed
<1>7. TargetNeverTorn' <=> TargetNeverTorn
  BY <1>1 DEF SameView, TargetNeverTorn, InPlace
<1>8. UpToDate' <=> UpToDate
  BY <1>1 DEF SameView, UpToDate
<1>9. ASSUME NEW l, Reached(l),
             l \in {"publish", "rename"} => Has("staged")' /\ Content("staged")' = Wanted
      PROVE  Reached(l)'
  BY <1>1, <1>3, <1>4, <1>5, <1>6, <1>9 DEF Reached, SameView
<1> QED
  BY <1>1, <1>2, <1>3, <1>4, <1>5, <1>6, <1>7, <1>8, <1>9

\* A decision leaves everything but the place.
LEMMA QuietView ==
    ASSUME Quiet
    PROVE  /\ SameView
           /\ \A n : (Has(n)' <=> Has(n)) /\ Content(n)' = Content(n) /\ names'[n] = names[n]
BY DEF Quiet, SameView, Keeps, Has, Content

\* The rounds of a copy write to where it goes and leave what it reads.
LEMMA CopyWrites ==
    ASSUME IInv, CopyOpen \/ CopyChunk
    PROVE  /\ Copying /\ pc' = "chunk" /\ job' = job /\ Keeps /\ Into' = Into
           /\ \A n \in Names \ {Into} : names'[n] = names[n] /\ (Has(n)' <=> Has(n))
           /\ Has(Into)' /\ IsPrefixOf(Content(Into)', Content(job.from))
           /\ Content(job.from)' = Content(job.from)
           /\ \A n \in Names \ {Into} :
                job.atomic \/ names["target"] # names[n] =>
                  /\ Content(n)' = Content(n)
                  /\ Has(n) => mtime'[names'[n]] = mtime[names[n]]
           /\ names'["target"] = names["basis"] => names["target"] = names["basis"]
<1>0. /\ Types /\ Unshared /\ Inputs /\ Jobs
      /\ "target" \in Names /\ "basis" \in Names /\ "temp" \in Names
  BY DEF IInv, Names
<1>1. Copying /\ Into \in Names /\ Into \in {"temp", "target"} /\ job.from \in Names \ {Into}
      /\ Has(job.from) /\ Content(job.from) \in File
      /\ Into = (IF job.atomic THEN "temp" ELSE "target")
      /\ (pc = "chunk" => names[job.from] # names[Into])
  BY <1>0, CopyFacts, FromFacts DEF CopyOpen, CopyChunk, Copying
<1>2. ASSUME NEW i, NEW d \in File, Fits(Into, i), Writes(Into, i, d),
             mtime' = mtime \/ mtime' = [mtime EXCEPT ![i] = 0],
             IsPrefixOf(d, Content(job.from)), names[job.from] # i,
             Keeps, job' = job, pc' = "chunk"
      PROVE  /\ Into' = Into
             /\ \A n \in Names \ {Into} : names'[n] = names[n] /\ (Has(n)' <=> Has(n))
             /\ Has(Into)' /\ IsPrefixOf(Content(Into)', Content(job.from))
             /\ Content(job.from)' = Content(job.from)
             /\ \A n \in Names \ {Into} :
                  job.atomic \/ names["target"] # names[n] =>
                    /\ Content(n)' = Content(n)
                    /\ Has(n) => mtime'[names'[n]] = mtime[names[n]]
             /\ names'["target"] = names["basis"] => names["target"] = names["basis"]
  <2>1. Into' = Into
    BY <1>2 DEF Into
  <2>2. \A n \in Names \ {Into} : names'[n] = names[n] /\ (Has(n)' <=> Has(n))
    BY <1>0, <1>1, <1>2, WriteFacts
  <2>3. Has(Into)' /\ Content(Into)' = d /\ names'[Into] = i
    BY <1>0, <1>1, <1>2, <2>1, WriteFacts
  <2>4. Content(job.from)' = Content(job.from)
    BY <1>0, <1>1, <1>2, WriteFacts
  <2>5. ASSUME NEW n \in Names \ {Into}, job.atomic \/ names["target"] # names[n]
        PROVE  /\ Content(n)' = Content(n)
               /\ Has(n) => mtime'[names'[n]] = mtime[names[n]]
    <3>1. names[n] # i
      BY <1>0, <1>1, <1>2, <2>5, WriteFacts
    <3>2. Content(n)' = Content(n)
      BY <1>0, <1>1, <1>2, <3>1, WriteFacts
    <3>3. Has(n) => mtime'[names[n]] = mtime[names[n]]
      BY <1>0, <1>2, <3>1 DEF Types, Has
    <3> QED
      BY <2>2, <3>2, <3>3
  <2>6. names'["target"] = names["basis"] => names["target"] = names["basis"]
    BY <1>0, <1>1, <1>2, <2>2, <2>3, WriteFacts
  <2> QED
    BY <1>2, <2>1, <2>2, <2>3, <2>4, <2>5, <2>6
<1>3. CASE CopyOpen
  <2> PICK i : /\ Fits(Into, i) /\ Writes(Into, i, <<>>)
               /\ mtime' = [mtime EXCEPT ![i] = 0]
               /\ Keeps /\ job' = job /\ pc = "open" /\ pc' = "chunk"
    BY <1>3, OpenForm
  <2>1. <<>> \in File /\ IsPrefixOf(<<>>, Content(job.from))
    BY <1>1, PrefixFacts DEF Contents, File
  <2>2. names[job.from] # i
    <3>1. CASE i = names[Into]
      <4>1. Into = "temp" \/ ~Has(Into) \/ job.from \in {"source", "near", "recv"}
        BY <1>0, <1>1 DEF Jobs, BackupJob, BasisJob, FuzzyJob, StageJob, FinalJob, OntoNothing,
                          AtomicJob, CopyJob, From
      <4> QED
        BY <1>0, <1>1, <3>1, <4>1 DEF Unshared, Has
    <3>2. CASE \A n \in Names : names[n] # i
      BY <1>1, <3>2
    <3> QED
      BY <3>1, <3>2 DEF Fits
  <2> QED
    BY <1>1, <1>2, <2>1, <2>2
<1>4. CASE CopyChunk
  <2> PICK d \in File : /\ Fits(Into, names[Into]) /\ Writes(Into, names[Into], d)
                        /\ IsPrefixOf(d, Content(job.from)) /\ mtime' = mtime
                        /\ Keeps /\ job' = job /\ pc = "chunk" /\ pc' = "chunk"
    BY <1>4, ChunkForm
  <2> QED
    BY <1>1, <1>2
<1> QED
  BY <1>3, <1>4, <1>1 DEF CopyOpen, CopyChunk

\* A copy stays the one that was started.
LEMMA JobsStep ==
    ASSUME IInv, [Next]_vars
    PROVE  Jobs'
<1>0. /\ Types /\ Unshared /\ Inputs /\ Jobs /\ Target
      /\ "target" \in Names /\ "basis" \in Names /\ "source" \in Names /\ "temp" \in Names
  BY DEF IInv, Names
<1>m. ASSUME pc' \notin {"open", "chunk"} PROVE Jobs'
  BY <1>m DEF Jobs, Copying
<1>b. ASSUME NEW then \in {"unlink_peer", "unlink_basis", "copy", "rename"}, WithBackup(then)
      PROVE  Jobs'
  <2>1. CASE Moves(then)
    BY <1>b, <1>m, <2>1 DEF Moves
  <2>2. CASE opts.backup /\ ~opts.remote /\ Has("target") /\ Starts(AtomicJob("target", "backup", FALSE, then))
    <3>1. BackupJob'
      BY <1>b, <2>2, QuietView DEF Starts, Quiet, BackupJob, AtomicJob
    <3> QED
      BY <2>2, <3>1 DEF Jobs, Copying, Starts
  <2> QED
    BY <1>b, <2>1, <2>2, BackupForms
<1>1. CASE Start
  BY <1>0, <1>1, <1>m, Decisions DEF Moves
<1>2. CASE Hard
  BY <1>0, <1>2, <1>b, <1>m, Decisions DEF Moves
<1>3. CASE CheckBasis
  BY <1>0, <1>3, <1>b, <1>m, Decisions DEF Moves
<1>4. CASE CopyBasis
  <2>1. pc = "copy_basis" /\ Starts(CopyJob("basis", "target", "stamp")) /\ Quiet
    BY <1>0, <1>4, Decisions DEF Starts
  <2>2. ~Has("target") /\ ToBasis /\ Has("basis")
    BY <1>0, <2>1 DEF Target, Reached, Place, Copying, Inputs
  <2>3. ToBasis' /\ ~Has("target")' /\ Has("basis")'
    BY <1>0, <2>1, <2>2, QuietView, ViewFacts
  <2>4. BasisJob'
    BY <2>1, <2>3 DEF BasisJob, OntoNothing, CopyJob, Starts, Quiet, Has
  <2> QED
    BY <2>1, <2>4 DEF Jobs, Copying, Starts
<1>5. CASE Fuzzy
  <2>1. CASE Moves("append")
    BY <1>m, <2>1 DEF Moves
  <2>2. CASE opts.fuzzy /\ ~Has("target") /\ Starts(CopyJob("near", "target", "append"))
    <3>1. pc = "fuzzy" /\ Quiet
      BY <1>0, <1>5, <2>2, Decisions DEF Starts
    <3>2. ~ToBasis /\ FromFuzzy /\ Has("basis")
      BY <1>0, <2>2, <3>1, ContentFacts
         DEF Target, Reached, Place, Copying, Inputs, Undisturbed, FromFuzzy, Seen
    <3>3. ~ToBasis' /\ FromFuzzy' /\ ~Has("target")' /\ Has("basis")'
      BY <1>0, <2>2, <3>1, <3>2, QuietView, ViewFacts
    <3>4. FuzzyJob'
      BY <2>2, <3>1, <3>3 DEF FuzzyJob, OntoNothing, CopyJob, Starts, Quiet, Has
    <3> QED
      BY <2>2, <3>4 DEF Jobs, Copying, Starts
  <2> QED
    BY <1>0, <1>5, <2>1, <2>2, Decisions
<1>6. CASE AppendVerify
  BY <1>0, <1>6, <1>m, Decisions DEF Moves
<1>7. CASE Write
  <2>1. CASE opts.delay /\ Starts(AtomicJob("source", "staged", opts.keep, "publish"))
    <3>1. StageJob'
      BY <2>1 DEF StageJob, AtomicJob, Starts, Quiet
    <3> QED
      BY <2>1, <3>1 DEF Jobs, Copying, Starts
  <2> QED
    BY <1>0, <1>7, <1>b, <2>1, Decisions
<1>8. CASE Copy
  <2>1. Starts(CopyJob(From, "target", "stamp"))
    BY <1>0, <1>8, Decisions
  <2>2. FinalJob'
    BY <2>1 DEF FinalJob, CopyJob, From, Starts, Quiet
  <2> QED
    BY <2>1, <2>2 DEF Jobs, Copying, Starts
<1>9. CASE Publish
  BY <1>0, <1>9, <1>b, Decisions
<1>10. CASE CopyOpen \/ CopyChunk
  <2>1. /\ Copying /\ pc' = "chunk" /\ job' = job /\ Keeps /\ Into' = Into
        /\ opts' = opts /\ before' = before
        /\ Has(Into)' /\ IsPrefixOf(Content(Into)', Content(job.from)')
    BY <1>10, CopyWrites DEF Keeps
  <2>2. /\ Into = "temp" => names'["target"] = names["target"] /\ (Has("target")' <=> Has("target"))
        /\ names'["basis"] = names["basis"]
        /\ names'["target"] = names["basis"] => names["target"] = names["basis"]
    BY <1>0, <1>10, <2>1, CopyWrites, CopyFacts
  <2>3. names["target"] # names["basis"] => (ToBasis' <=> ToBasis)
    <3> SUFFICES ASSUME names["target"] # names["basis"] PROVE ToBasis' <=> ToBasis
      OBVIOUS
    <3>1. Has("source") /\ names["target"] # names["source"] /\ Has("basis")
      BY <1>0 DEF Inputs, Unshared
    <3>2. \A n \in {"source", "basis"} :
            Content(n)' = Content(n) /\ mtime'[names'[n]] = mtime[names[n]]
      BY <1>0, <1>10, <2>1, <3>1, CopyWrites, CopyFacts
    <3> QED
      BY <2>1, <3>2 DEF ToBasis, BasisFilesMatch
  <2>4. CASE BackupJob
    <3>1. Into = "temp"
      BY <2>4 DEF BackupJob, AtomicJob, Into
    <3>2. BackupJob'
      BY <2>1, <2>2, <2>4, <3>1 DEF BackupJob, AtomicJob
    <3> QED
      BY <2>1, <3>2 DEF Jobs
  <2>5. ASSUME NEW from, NEW then, OntoNothing(from, then) PROVE OntoNothing(from, then)'
    <3>1. job.atomic = opts.atomic /\ (opts.atomic => Into = "temp")
      BY <2>5 DEF OntoNothing, CopyJob, Into
    <3> QED
      BY <2>1, <2>2, <2>5, <3>1 DEF OntoNothing, CopyJob
  <2>6. CASE BasisJob
    <3>1. BasisJob'
      BY <2>3, <2>5, <2>6 DEF BasisJob, OntoNothing
    <3> QED
      BY <2>1, <3>1 DEF Jobs
  <2>7. CASE FuzzyJob
    <3>1. FuzzyJob'
      BY <2>1, <2>3, <2>5, <2>7 DEF FuzzyJob, OntoNothing, FromFuzzy
    <3> QED
      BY <2>1, <3>1 DEF Jobs
  <2>8. CASE StageJob
    BY <2>1, <2>8 DEF Jobs, StageJob, AtomicJob
  <2>9. CASE FinalJob
    BY <2>1, <2>9 DEF Jobs, FinalJob, CopyJob, From
  <2> QED
    BY <1>0, <2>1, <2>4, <2>6, <2>7, <2>8, <2>9 DEF Jobs
<1>11. CASE CopyEnd
  <2>1. pc' \in {"unlink_peer", "unlink_basis", "copy", "rename", "stamp", "append", "publish"}
    BY <1>0, <1>11, EndForm
       DEF Copying, Jobs, BackupJob, BasisJob, OntoNothing, FuzzyJob, StageJob, FinalJob, CopyJob, AtomicJob
  <2> QED
    BY <1>m, <2>1
<1>12. CASE ReceiveOpen \/ ReceiveToken
  BY <1>12, <1>m, ReceiveForm, TokenForm DEF Moves
<1>13. CASE UnlinkForPeer \/ UnlinkForBasis
  BY <1>13, <1>m DEF UnlinkForPeer, UnlinkForBasis, Unlink, Goto
<1>14. CASE LinkPeer \/ LinkBasis
  BY <1>14, <1>m, LinkForm DEF Moves
<1>15. CASE AppendChunk
  BY <1>15, <1>m DEF AppendChunk, Goto
<1>16. CASE Rename \/ Stamp
  BY <1>16, <1>m DEF Rename, Stamp, Goto
<1>17. CASE Fail \/ Kill \/ NextRun
  BY <1>17, <1>m DEF Fail, Kill, NextRun
<1>18. CASE UNCHANGED vars
  <2>1. SameView /\ pc' = pc /\ job' = job /\ names' = names
    BY <1>18 DEF vars, disk, history, SameView, Keeps, Has, Content
  <2>2. ToBasis' <=> ToBasis
    BY <1>0, <2>1, ViewFacts
  <2> QED
    BY <1>0, <1>18, <2>2
       DEF vars, disk, history, Jobs, Copying, BackupJob, BasisJob, FuzzyJob, StageJob, FinalJob,
           OntoNothing, FromFuzzy, AtomicJob, CopyJob, From, Into, Has, Content
<1> QED
  BY <1>1, <1>2, <1>3, <1>4, <1>5, <1>6, <1>7, <1>8, <1>9, <1>10, <1>11, <1>12, <1>13, <1>14, <1>15,
     <1>16, <1>17, <1>18 DEF Next

-----------------------------------------------------------------------------
(* The target                                                              *)

\* A step to another place that leaves what is seen: it is enough that the
\* place is reached.
LEMMA TargetKept ==
    ASSUME Types, Inputs, TargetNeverTorn, SameView, pc' # "done",
           NEW l, Place' = l, Reached(l)', Copying' /\ (StageJob' \/ FinalJob') => Fuzzed
    PROVE  Target'
<1>1. TargetNeverTorn' /\ (Fuzzed' <=> Fuzzed)
  BY ViewFacts
<1>2. Reached(Place)'
  BY Zenon
<1> QED
  BY <1>1, <1>2 DEF Target, SuccessMeansWanted

\* The target after a decision.
LEMMA TargetDecision ==
    ASSUME IInv, Decision
    PROVE  Target'
<1>0. /\ Types /\ Inputs /\ Target /\ TargetNeverTorn /\ Reached(Place)
  BY DEF IInv, Target
<1>1. Quiet /\ SameView /\ (Seen' = Seen) /\ (Wanted' = Wanted) /\ opts' = opts /\ before' = before
  BY <1>0, DecisionIsQuiet, QuietView, ViewFacts DEF Quiet
<1>2. /\ pc = "start" \/ pc = "hard" \/ pc = "alternative" \/ pc = "copy_basis" \/ pc = "fuzzy"
         \/ pc = "append" \/ pc = "write" \/ pc = "copy" \/ pc = "publish"
      /\ Reached(pc)
  BY <1>0, Decisions DEF Decision, Place, Copying
<1>m. ASSUME NEW l, Moves(l), Reached(l), l \notin {"open", "chunk", "done"} PROVE Target'
  <2>1. Place' = l /\ ~Copying'
    BY <1>m DEF Moves, Place, Copying
  <2>2. Reached(l)'
    <3>1. l \in {"publish", "rename"} => Has("staged")' /\ Content("staged")' = Wanted
      BY <1>1, <1>m, QuietView DEF Reached
    <3> QED
      BY <1>0, <1>1, <1>m, <3>1, ViewFacts
  <2> QED
    BY <1>0, <1>1, <1>m, <2>1, <2>2, TargetKept DEF Moves
<1>b. ASSUME NEW then \in {"unlink_peer", "unlink_basis", "copy", "rename"}, WithBackup(then), Reached(then)
      PROVE  Target'
  <2>1. CASE Moves(then)
    BY <1>b, <1>m, <2>1
  <2>2. CASE Starts(AtomicJob("target", "backup", FALSE, then))
    <3>1. Place' = then /\ pc' = "open" /\ job'.to = "backup"
      BY <2>2 DEF Starts, Place, Copying, AtomicJob
    <3>2. Reached(then)'
      <4>1. then \in {"publish", "rename"} => Has("staged")' /\ Content("staged")' = Wanted
        BY <1>1, <1>b, QuietView DEF Reached
      <4> QED
        BY <1>0, <1>1, <1>b, <4>1, ViewFacts
    <3>3. ~StageJob' /\ ~FinalJob'
      BY <3>1 DEF StageJob, FinalJob, AtomicJob, CopyJob
    <3> QED
      BY <1>0, <1>1, <3>1, <3>2, <3>3, TargetKept
  <2> QED
    BY <1>b, <2>1, <2>2, BackupForms
<1>s. ASSUME NEW j, Starts(j), j.to # "backup",
             j.to = "staged" \/ j.from = From => Fuzzed
      PROVE  Target'
  <2>1. Place' = "open" /\ pc' = "open" /\ job' = j
    BY <1>s DEF Starts, Place, Copying
  <2>2. Reached("open")'
    BY DEF Reached
  <2>3. StageJob' \/ FinalJob' => Fuzzed
    BY <1>1, <1>s, <2>1 DEF StageJob, FinalJob, AtomicJob, CopyJob, From
  <2> QED
    BY <1>0, <1>1, <2>1, <2>2, <2>3, TargetKept
<1>3. CASE Start
  <2>1. Reached("receive") /\ Reached("hard")
    BY <1>0, <1>2, <1>3 DEF Start, Reached
  <2>2. ASSUME Moves("done") PROVE Target'
    <3>1. /\ Has("target") /\ Len(Content("target")) = Len(Content("source"))
          /\ mtime[names["target"]] = mtime[names["source"]] /\ Seen = before
      <4>1. pc = "start" /\ pc' = "done"
        BY <1>3, <2>2 DEF Moves, Start
      <4> QED
        BY <1>2, <1>3, <4>1 DEF Start, Step, Goto, Reached
    <3>2. SuccessMeansWanted'
      BY <1>0, <1>1, <3>1 DEF SuccessMeansWanted, Inputs, Seen, Quiet
    <3>3. Place' = "done" /\ ~Copying'
      BY <2>2 DEF Moves, Place, Copying
    <3>4. Reached("done")'
      BY DEF Reached
    <3> QED
      BY <1>0, <1>1, <3>2, <3>3, <3>4, ViewFacts DEF Target
  <2> QED
    BY <1>0, <1>3, <1>m, <2>1, <2>2, Decisions
<1>4. CASE Hard
  <2>1. pc = "hard" /\ Seen = before
    BY <1>2, <1>4 DEF Hard, Reached
  <2>2. Reached("alternative") /\ (opts.hard /\ Has("peer") => Reached("unlink_peer"))
    BY <2>1 DEF Reached, Undisturbed
  <2> QED
    BY <1>0, <1>4, <1>b, <1>m, <2>2, Decisions
<1>5. CASE CheckBasis
  <2>1. pc = "alternative" /\ Undisturbed
    BY <1>2, <1>5 DEF CheckBasis, Reached
  <2>2. (~ToBasis => Reached("fuzzy")) /\ (ToBasis => Reached("unlink_basis"))
    BY <2>1 DEF Reached
  <2>3. ASSUME opts.alternative = "compare", BasisFilesMatch, Moves("done") PROVE Target'
    <3>1. BasisFilesMatch'
      BY <1>0, <1>1, <2>3, ViewFacts
    <3>2. SuccessMeansWanted'
      BY <1>1, <2>1, <2>3, <3>1 DEF SuccessMeansWanted, Undisturbed
    <3>3. Place' = "done" /\ ~Copying'
      BY <2>3 DEF Moves, Place, Copying
    <3>4. Reached("done")'
      BY DEF Reached
    <3> QED
      BY <1>0, <1>1, <3>2, <3>3, <3>4, ViewFacts DEF Target
  <2> QED
    BY <1>0, <1>5, <1>b, <1>m, <2>2, <2>3, Decisions
<1>6. CASE CopyBasis
  <2>1. From # "basis" /\ CopyJob("basis", "target", "stamp").from = "basis"
        /\ CopyJob("basis", "target", "stamp").to = "target"
    BY DEF From, CopyJob
  <2> QED
    BY <1>0, <1>6, <1>s, <2>1, Decisions
<1>7. CASE Fuzzy
  <2>1. pc = "fuzzy" /\ Undisturbed
    BY <1>2, <1>7 DEF Fuzzy, Reached
  <2>2. Reached("append")
    BY <2>1 DEF Reached, Fuzzed
  <2>3. From # "near" /\ CopyJob("near", "target", "append").from = "near"
        /\ CopyJob("near", "target", "append").to = "target"
    BY DEF From, CopyJob
  <2> QED
    BY <1>0, <1>7, <1>m, <1>s, <2>2, <2>3, Decisions
<1>8. CASE AppendVerify
  <2>1. pc = "append" /\ Fuzzed
    BY <1>2, <1>8 DEF AppendVerify, Reached
  <2>2. Content(From) = Wanted /\ Wanted \in Contents /\ Seen \in Contents
    BY <1>0, <2>1, OptionFacts, VersionFacts, ContentFacts
       DEF Inputs, From, Received, Types, Wanted, Contents, Seen, Names
  <2>3. Reached("write")
    BY <2>1 DEF Reached
  <2>4. Has("target") /\ Seen = Content(From) => Reached("stamp")
    BY <2>2 DEF Reached
  <2>5. opts.append /\ Appendable /\ Seen # Content(From) => Reached("appending")
    <3> SUFFICES ASSUME opts.append, Appendable, Seen # Content(From) PROVE Reached("appending")
      OBVIOUS
    <3>1. Has("target") /\ IsPrefixOf(Seen, Wanted)
      BY <2>2 DEF Appendable, Seen
    <3>2. Len(Seen) < Len(Wanted)
      <4>1. Len(Seen) # Len(Wanted)
        BY <2>2, <3>1, PrefixFacts
      <4>2. Len(Seen) <= Len(Wanted) /\ Len(Seen) \in Nat /\ Len(Wanted) \in Nat
        <5>1. Seen \in File /\ Wanted \in File
          BY <1>0, <2>2, <3>1, ContentFacts, VersionFacts DEF Seen, Names, Types, Wanted
        <5> QED
          BY <3>1, <5>1 DEF IsPrefixOf, File
      <4> QED
        BY <4>1, <4>2
    <3>3. Seen = before \/ (FromFuzzy /\ Seen = Neighbour)
      BY <1>0, <2>1, <3>1, ContentFacts DEF Fuzzed, Undisturbed, Seen, Names
    <3>4. IsPrefixOf(Seen, Seen)
      BY <2>2, PrefixFacts
    <3> QED
      BY <3>1, <3>2, <3>3, <3>4 DEF Reached
  <2> QED
    BY <1>0, <1>8, <1>m, <2>3, <2>4, <2>5, Decisions
<1>9. CASE Write
  <2>1. pc = "write" /\ Fuzzed
    BY <1>2, <1>9 DEF Write, Reached
  <2>2. Reached("copy")
    BY <2>1 DEF Reached
  <2>3. AtomicJob("source", "staged", opts.keep, "publish").to = "staged"
    BY DEF AtomicJob
  <2> QED
    BY <1>0, <1>9, <1>b, <1>s, <2>1, <2>2, <2>3, Decisions
<1>10. CASE Copy
  <2>1. pc = "copy" /\ Fuzzed
    BY <1>2, <1>10 DEF Copy, Reached
  <2>2. CopyJob(From, "target", "stamp").to = "target"
    BY DEF CopyJob
  <2> QED
    BY <1>0, <1>10, <1>s, <2>1, <2>2, Decisions
<1>11. CASE Publish
  <2>1. Reached("rename")
    BY <1>2, <1>11 DEF Publish, Reached
  <2> QED
    BY <1>0, <1>11, <1>b, <2>1, Decisions
<1> QED
  BY <1>3, <1>4, <1>5, <1>6, <1>7, <1>8, <1>9, <1>10, <1>11 DEF Decision

\* The target while a file is copied.
LEMMA TargetCopy ==
    ASSUME IInv, CopyOpen \/ CopyChunk
    PROVE  Target'
<1>0. /\ Types /\ Unshared /\ Inputs /\ Jobs /\ Target /\ TargetNeverTorn /\ Reached(Place)
      /\ "target" \in Names /\ "basis" \in Names /\ "source" \in Names /\ "peer" \in Names
      /\ "staged" \in Names
  BY DEF IInv, Target, Names
<1>1. /\ Copying /\ pc' = "chunk" /\ job' = job /\ Keeps
      /\ opts' = opts /\ before' = before
      /\ Into = (IF job.atomic THEN "temp" ELSE "target")
      /\ (~job.atomic => job.to = "target" /\ ~opts.atomic)
  BY <1>0, CopyWrites, CopyFacts DEF Keeps
<1>2. CASE job.atomic
  <2>1. \A n \in {"target", "basis", "source", "peer", "staged"} :
          /\ (Has(n)' <=> Has(n)) /\ Content(n)' = Content(n)
          /\ Has(n) => mtime'[names'[n]] = mtime[names[n]]
    BY <1>0, <1>1, <1>2, CopyWrites
  <2>2. SameView
    BY <1>1, <2>1 DEF SameView
  <2>3. PICK l : l = IF job.to = "backup" THEN job.then ELSE "chunk"
    OBVIOUS
  <2>4. Place' = l /\ (job.to = "backup" => Place = l)
    BY <1>1, <2>3 DEF Place, Copying
  <2>5. Reached(l)
    <3>1. CASE job.to = "backup"
      BY <1>0, <2>4, <3>1, Zenon
    <3>2. CASE job.to # "backup"
      BY <2>3, <3>2 DEF Reached
    <3> QED
      BY <3>1, <3>2
  <2>6. Reached(l)'
    <3>1. l \in {"publish", "rename"} => Has("staged")' /\ Content("staged")' = Wanted
      BY <2>1, <2>5 DEF Reached
    <3> QED
      BY <1>0, <2>2, <2>5, <3>1, ViewFacts
  <2>7. StageJob' \/ FinalJob' => Fuzzed
    BY <1>0, <1>1, <1>2 DEF Target, StageJob, FinalJob, AtomicJob, CopyJob, From
  <2> QED
    BY <1>0, <1>1, <2>2, <2>4, <2>6, <2>7, TargetKept
<1>3. CASE ~job.atomic
  <2>1. Place' = "chunk"
    BY <1>1, <1>3 DEF Place, Copying
  <2>2. Reached("chunk")'
    BY DEF Reached
  <2>3. Reached(Place)'
    BY <2>1, <2>2, Zenon
  <2>4. TargetNeverTorn'
    BY <1>1, <1>3 DEF TargetNeverTorn, InPlace
  <2> QED
    BY <1>1, <1>3, <2>3, <2>4 DEF Target, SuccessMeansWanted
<1> QED
  BY <1>2, <1>3

\* The target when a file has been copied.
LEMMA TargetCopied ==
    ASSUME IInv, CopyEnd
    PROVE  Target'
<1>0. /\ Types /\ Unshared /\ Inputs /\ Jobs /\ Target /\ TargetNeverTorn /\ Reached(Place)
      /\ "target" \in Names /\ "basis" \in Names /\ "source" \in Names /\ "peer" \in Names
      /\ "staged" \in Names /\ "backup" \in Names
  BY DEF IInv, Target, Names
<1>1. /\ Copying /\ pc = "chunk" /\ pc' = job.then /\ job' = job /\ Keeps
      /\ data' = data /\ mtime' = mtime
      /\ opts' = opts /\ before' = before /\ version' = version /\ Wanted' = Wanted
      /\ Into = (IF job.atomic THEN "temp" ELSE "target")
      /\ (~job.atomic => job.to = "target" /\ ~opts.atomic /\ names' = names)
      /\ (job.atomic => names' = [names EXCEPT ![job.to] = names["temp"], !["temp"] = NoInode])
      /\ Has(Into) /\ Content(Into) = Content(job.from)
      /\ job.to \in {"target", "backup", "staged"} /\ job.to \in Names \ {"temp"}
  BY <1>0, EndForm, CopyFacts DEF Keeps, Copying, Wanted, Names
<1>2. /\ \A n \in Names \ {"temp", job.to} :
           names'[n] = names[n] /\ (Has(n)' <=> Has(n)) /\ Content(n)' = Content(n)
      /\ Has(job.to)' /\ Content(job.to)' = Content(job.from)
  <2>1. CASE job.atomic
    BY <1>0, <1>1, <2>1, RenameFacts
  <2>2. CASE ~job.atomic
    BY <1>1, <2>2 DEF Has, Content
  <2> QED
    BY <2>1, <2>2
<1>3. ASSUME job.to # "target" PROVE SameView
  BY <1>0, <1>1, <1>2, <1>3 DEF SameView
<1>5. CASE BackupJob
  <2>1. job.to = "backup" /\ job.then \in {"unlink_peer", "unlink_basis", "copy", "rename"}
    BY <1>5 DEF BackupJob, AtomicJob
  <2>2. PICK l : l = job.then
    OBVIOUS
  <2>3. Place' = l /\ Place = l /\ ~Copying'
    BY <1>1, <2>1, <2>2 DEF Place, Copying
  <2>4. Reached(l)
    BY <1>0, <2>3, Zenon
  <2>5. Reached(l)'
    <3>1. l \in {"publish", "rename"} => Has("staged")' /\ Content("staged")' = Wanted
      BY <1>0, <1>2, <2>1, <2>4 DEF Reached
    <3> QED
      BY <1>0, <1>3, <2>1, <2>4, <3>1, ViewFacts
  <2> QED
    BY <1>0, <1>1, <1>3, <2>1, <2>3, <2>5, TargetKept
<1>6. CASE StageJob
  <2>1. job.to = "staged" /\ pc' = "publish" /\ job.from = "source" /\ job.atomic
    BY <1>1, <1>6 DEF StageJob, AtomicJob
  <2>2. Place' = "publish" /\ ~Copying'
    BY <2>1 DEF Place, Copying
  <2>3. Has("staged")' /\ Content("staged")' = Wanted' /\ Fuzzed'
    BY <1>0, <1>1, <1>2, <1>3, <1>6, <2>1, ViewFacts DEF Inputs, Target
  <2>4. Reached("publish")'
    BY <2>3 DEF Reached
  <2> QED
    BY <1>0, <1>1, <1>3, <2>1, <2>2, <2>4, TargetKept
<1>7. CASE FinalJob
  <2>1. job.to = "target" /\ pc' = "stamp" /\ job.from = From
    BY <1>1, <1>7 DEF FinalJob, CopyJob
  <2>2. Content(From) = Wanted
    BY <1>0, <1>1, OptionFacts DEF Inputs, From, Received
  <2>3. Has("target")' /\ Seen' = Wanted'
    BY <1>1, <1>2, <2>1, <2>2 DEF Seen
  <2>4. Place' = "stamp" /\ ~Copying'
    BY <2>1 DEF Place, Copying
  <2>5. Reached("stamp")'
    BY <2>3 DEF Reached
  <2>6. Reached(Place)'
    BY <2>4, <2>5, Zenon
  <2> QED
    BY <2>1, <2>3, <2>4, <2>6 DEF Target, TargetNeverTorn, SuccessMeansWanted
<1>8. CASE BasisJob
  <2>1. job.to = "target" /\ pc' = "stamp" /\ job.from = "basis" /\ ToBasis
    BY <1>1, <1>8 DEF BasisJob, OntoNothing, CopyJob
  <2>2. Has("target")' /\ Seen' = Content("basis")'
    BY <1>0, <1>1, <1>2, <2>1 DEF Seen
  <2>3. ToBasis'
    BY <1>0, <1>1, <1>2, <2>1 DEF ToBasis, BasisFilesMatch
  <2>4. Place' = "stamp" /\ ~Copying'
    BY <2>1 DEF Place, Copying
  <2>5. Reached("stamp")'
    BY <2>2, <2>3 DEF Reached
  <2>6. Reached(Place)'
    BY <2>4, <2>5, Zenon
  <2> QED
    BY <2>1, <2>2, <2>3, <2>4, <2>6 DEF Target, TargetNeverTorn, SuccessMeansWanted, ToBasis
<1>9. CASE FuzzyJob
  <2>1. job.to = "target" /\ pc' = "append" /\ job.from = "near" /\ FromFuzzy
    BY <1>1, <1>9 DEF FuzzyJob, OntoNothing, CopyJob
  <2>2. Seen' = Neighbour /\ FromFuzzy' /\ IsPrefixOf(Neighbour, Neighbour)
    BY <1>0, <1>1, <1>2, <2>1, FileAssumption, PrefixFacts DEF Seen, Inputs, FromFuzzy, Contents
  <2>3. Place' = "append" /\ ~Copying'
    BY <2>1 DEF Place, Copying
  <2>4. Reached("append")'
    BY <2>2 DEF Reached, Fuzzed
  <2>5. Reached(Place)'
    BY <2>3, <2>4, Zenon
  <2> QED
    BY <2>1, <2>2, <2>3, <2>5 DEF Target, TargetNeverTorn, SuccessMeansWanted, FromFuzzy
<1> QED
  BY <1>0, <1>1, <1>5, <1>6, <1>7, <1>8, <1>9 DEF Jobs

\* Whatever step is taken, the target has only what the options allow, and
\* at the end of a run what was asked for.
LEMMA TargetStep ==
    ASSUME IInv, [Next]_vars
    PROVE  Target'
<1>0. /\ Types /\ Unshared /\ Inputs /\ Jobs /\ Target /\ TargetNeverTorn /\ Reached(Place)
      /\ "target" \in Names /\ "basis" \in Names /\ "source" \in Names /\ "peer" \in Names
      /\ "staged" \in Names /\ "recv" \in Names /\ <<>> \in File
  BY DEF IInv, Target, Names, File
<1>p. ASSUME NEW l, pc = l, l \notin {"open", "chunk"} PROVE Reached(l)
  <2>1. Place = l
    BY <1>p DEF Place, Copying
  <2> QED
    BY <1>0, <2>1, Zenon
<1>k. ASSUME NEW l, pc' = l, l \notin {"open", "chunk", "done"}, TargetNeverTorn', Reached(l)' PROVE Target'
  <2>1. Place' = l /\ ~Copying'
    BY <1>k DEF Place, Copying
  <2>2. Reached(Place)'
    BY <1>k, <2>1, Zenon
  <2> QED
    BY <1>k, <2>1, <2>2 DEF Target, SuccessMeansWanted
<1>1. CASE Decision
  BY <1>1, TargetDecision
<1>2. CASE CopyOpen \/ CopyChunk
  BY <1>2, TargetCopy
<1>3. CASE CopyEnd
  BY <1>3, TargetCopied
<1>4. CASE AppendChunk
  <2> PICK d \in File : /\ Fits("target", names["target"]) /\ Writes("target", names["target"], d)
                        /\ IsPrefixOf(d, Wanted) /\ IsPrefixOf(Seen, d)
                        /\ Keeps /\ pc = "appending"
                        /\ pc' = IF Len(d) = Len(Wanted) THEN "stamp" ELSE "appending"
    BY <1>4, AppendForm
  <2>1. Has("target")' /\ Seen' = d /\ Wanted' = Wanted /\ opts' = opts /\ before' = before
    BY <1>0, WriteFacts DEF Seen, Wanted, Keeps
  <2>2. /\ opts.append
        /\ IsPrefixOf(before, Seen) \/ (FromFuzzy /\ IsPrefixOf(Neighbour, Seen))
    BY <1>p DEF Reached
  <2>3. /\ before \in Contents /\ Seen \in Contents /\ d \in Contents /\ Neighbour \in Contents
        /\ Wanted \in File
    BY <1>0, ContentFacts, FileAssumption, VersionFacts DEF Types, Contents, Seen, Wanted
  <2>4. IsPrefixOf(before, d) \/ (FromFuzzy /\ IsPrefixOf(Neighbour, d))
    BY <2>2, <2>3, PrefixFacts
  <2>5. TargetNeverTorn'
    BY <2>1, <2>2, <2>4 DEF TargetNeverTorn, FromFuzzy
  <2>6. CASE Len(d) = Len(Wanted)
    <3>1. d = Wanted
      BY <2>3, <2>6, PrefixFacts DEF Contents
    <3>2. Reached("stamp")'
      BY <2>1, <3>1 DEF Reached
    <3> QED
      BY <1>k, <2>5, <2>6, <3>2
  <2>7. CASE Len(d) # Len(Wanted)
    <3>1. Len(d) < Len(Wanted)
      BY <2>3, <2>7 DEF IsPrefixOf, File
    <3>2. Reached("appending")'
      BY <2>1, <2>2, <2>4, <3>1 DEF Reached, FromFuzzy
    <3> QED
      BY <1>k, <2>5, <2>7, <3>2
  <2> QED
    BY <2>6, <2>7
<1>5. CASE ReceiveOpen
  <2>1. /\ \A n \in Names : names[n] # NewInode
        /\ Fits("recv", NewInode) /\ Writes("recv", NewInode, <<>>)
        /\ mtime' = [mtime EXCEPT ![NewInode] = 0] /\ Keeps /\ pc = "receive" /\ pc' = "tokens"
    BY <1>0, <1>5, ReceiveForm, NewInodeFacts DEF Types
  <2>2. \A n \in {"target", "basis", "source", "peer"} :
          names'[n] = names[n] /\ (Has(n)' <=> Has(n)) /\ Content(n)' = Content(n)
    BY <1>0, <2>1, WriteFacts
  <2>3. \A n \in {"target", "basis", "source"} : Has(n) => mtime'[names'[n]] = mtime[names[n]]
    BY <1>0, <2>1, <2>2 DEF Types, Has
  <2>4. SameView
    BY <2>1, <2>2, <2>3 DEF SameView
  <2>5. Reached("receive")
    BY <1>p, <2>1
  <2>6. Reached("tokens")
    BY <2>5 DEF Reached
  <2> QED
    BY <1>0, <1>k, <2>1, <2>4, <2>6, ViewFacts
<1>6. CASE ReceiveToken
  <2>0. Reached("tokens") /\ pc = "tokens"
    BY <1>6, <1>p, TokenForm
  <2>1. CASE Moves("append")
    <3>1. SameView /\ pc' = "append"
      BY <2>1, QuietView DEF Moves
    <3>2. Reached("append")
      BY <2>0 DEF Reached, Fuzzed, Undisturbed
    <3> QED
      BY <1>0, <1>k, <3>1, <3>2, ViewFacts
  <2>2. ASSUME NEW d \in File, Fits("recv", names["recv"]), Writes("recv", names["recv"], d),
               mtime' = mtime, names' = names, Keeps, pc' = "tokens"
        PROVE  Target'
    <3>1. \A n \in {"target", "basis", "source", "peer"} :
            (Has(n)' <=> Has(n)) /\ Content(n)' = Content(n)
      BY <1>0, <2>2, WriteFacts
    <3>2. SameView
      BY <2>2, <3>1 DEF SameView
    <3> QED
      BY <1>0, <1>k, <2>0, <2>2, <3>2, ViewFacts
  <2> QED
    BY <1>6, <2>1, <2>2, TokenForm
<1>7. CASE UnlinkForPeer \/ UnlinkForBasis
  <2>1. /\ names' = [names EXCEPT !["target"] = NoInode] /\ data' = data /\ mtime' = mtime
        /\ Keeps /\ pc \in {"unlink_peer", "unlink_basis"}
        /\ pc = "unlink_peer" => pc' = "link_peer"
        /\ pc = "unlink_basis" => pc' = IF opts.alternative = "link" THEN "link_basis" ELSE "copy_basis"
    BY <1>7 DEF UnlinkForPeer, UnlinkForBasis, Unlink, Goto, history, Keeps
  <2>2. /\ ~Has("target")' /\ Seen' = Absent
        /\ \A n \in {"basis", "source", "peer"} :
             names'[n] = names[n] /\ (Has(n)' <=> Has(n)) /\ Content(n)' = Content(n)
    BY <1>0, <2>1 DEF Types, Has, Content, Seen
  <2>3. opts' = opts /\ (ToBasis' <=> ToBasis)
    BY <2>1, <2>2 DEF ToBasis, BasisFilesMatch, Keeps
  <2>4. CASE pc = "unlink_peer"
    <3>1. opts.hard /\ Has("peer")
      BY <1>p, <2>4 DEF Reached
    <3>2. Reached("link_peer")'
      BY <2>2, <2>3, <3>1 DEF Reached
    <3>3. TargetNeverTorn'
      BY <2>2, <2>3, <3>1 DEF TargetNeverTorn
    <3> QED
      BY <1>k, <2>1, <2>4, <3>2, <3>3
  <2>5. CASE pc = "unlink_basis"
    <3>1. ToBasis
      BY <1>p, <2>5 DEF Reached
    <3>2. TargetNeverTorn'
      BY <2>2, <2>3, <3>1 DEF TargetNeverTorn, ToBasis
    <3>3. Reached("copy_basis")' /\ (opts.alternative = "link" => Reached("link_basis")')
      BY <2>2, <2>3, <3>1 DEF Reached
    <3> QED
      BY <1>k, <2>1, <2>5, <3>2, <3>3
  <2> QED
    BY <2>1, <2>4, <2>5
<1>8. CASE LinkPeer \/ LinkBasis
  <2>1. CASE LinkPeer /\ pc = "link_peer" /\ Moves("alternative")
    <3>1. Undisturbed
      BY <1>0, <1>p, <2>1, ContentFacts DEF Reached, Undisturbed, Seen
    <3>2. Reached("alternative") /\ SameView /\ pc' = "alternative"
      BY <2>1, <3>1, QuietView DEF Reached, Moves
    <3> QED
      BY <1>0, <1>k, <3>2, ViewFacts
  <2>2. CASE LinkBasis /\ pc = "link_basis" /\ Moves("copy_basis")
    <3>1. Reached("link_basis")
      BY <1>p, <2>2
    <3>2. Reached("copy_basis") /\ SameView /\ pc' = "copy_basis"
      BY <2>2, <3>1, QuietView DEF Reached, Moves
    <3> QED
      BY <1>0, <1>k, <3>2, ViewFacts
  <2>3. ASSUME NEW k \in {"peer", "basis"}, Has(k), k = "basis" => pc = "link_basis",
               names' = [names EXCEPT !["target"] = names[k]],
               data' = data, mtime' = mtime, Keeps, pc' = "stamp"
        PROVE  Target'
    <3>1. /\ Has("target")' /\ Seen' = Content(k) /\ opts' = opts /\ Wanted' = Wanted
          /\ \A n \in {"basis", "source"} : names'[n] = names[n] /\ Content(n)' = Content(n)
      BY <1>0, <2>3, LinkFacts DEF Seen, Keeps, Wanted
    <3>2. ToBasis' <=> ToBasis
      BY <2>3, <3>1 DEF ToBasis, BasisFilesMatch
    <3>3. Seen' = Wanted' \/ (Seen' = Content("basis")' /\ ToBasis')
      <4>1. k = "basis" => ToBasis
        BY <1>p, <2>3 DEF Reached
      <4> QED
        BY <1>0, <2>3, <3>1, <3>2, <4>1 DEF Inputs
    <3>4. Reached("stamp")'
      BY <3>1, <3>3 DEF Reached
    <3>5. TargetNeverTorn'
      BY <3>3 DEF TargetNeverTorn, ToBasis
    <3> QED
      BY <1>k, <2>3, <3>4, <3>5
  <2> QED
    BY <1>8, <2>1, <2>2, <2>3, LinkForm
<1>9. CASE Rename
  <2>1. pc = "rename" /\ pc' = "stamp" /\ Keeps /\ data' = data
        /\ names' = [names EXCEPT !["target"] = names["staged"], !["staged"] = NoInode]
    BY <1>9 DEF Rename, Goto, history, Keeps
  <2>2. Has("staged") /\ Content("staged") = Wanted
    BY <1>p, <2>1 DEF Reached
  <2>3. Has("target")' /\ Seen' = Wanted'
    BY <1>0, <2>1, <2>2, RenameFacts DEF Seen, Wanted, Keeps
  <2>4. Reached("stamp")' /\ TargetNeverTorn'
    BY <2>3 DEF Reached, TargetNeverTorn
  <2> QED
    BY <1>k, <2>1, <2>4
<1>10. CASE Stamp
  <2>1. /\ pc = "stamp" /\ pc' = "done" /\ Keeps /\ data' = data
        /\ names' = [names EXCEPT !["recv"] = NoInode]
        /\ mtime' = IF opts.times THEN [mtime EXCEPT ![names["target"]] = version] ELSE mtime
    BY <1>10 DEF Stamp, Goto, history, Keeps
  <2>2. Has("target") /\ (Seen = Wanted \/ (Seen = Content("basis") /\ ToBasis))
    BY <1>p, <2>1 DEF Reached
  <2>3. /\ \A n \in {"target", "basis", "source"} :
             names'[n] = names[n] /\ (Has(n)' <=> Has(n)) /\ Content(n)' = Content(n)
        /\ Seen' = Seen /\ Wanted' = Wanted /\ opts' = opts /\ before' = before /\ version' = version
    BY <1>0, <2>1 DEF Types, Has, Content, Seen, Wanted, Keeps
  <2>4. names["target"] # names["source"] /\ names["target"] \in Inodes
    BY <1>0, <2>2 DEF Unshared, Types, Has
  <2>5. ToBasis => ToBasis'
    <3>1. mtime'[names["source"]] = version /\ mtime[names["source"]] = version
      BY <1>0, <2>1, <2>4 DEF Inputs, Types
    <3>2. mtime'[names["basis"]] \in {version, mtime[names["basis"]]}
      BY <1>0, <2>1, <2>4 DEF Types
    <3> QED
      BY <2>3, <3>1, <3>2 DEF ToBasis, BasisFilesMatch
  <2>6. TargetNeverTorn'
    BY <1>0, <2>3 DEF TargetNeverTorn, InPlace
  <2>7. SuccessMeansWanted'
    BY <2>1, <2>2, <2>3, <2>5 DEF SuccessMeansWanted, ToBasis
  <2>8. Place' = "done" /\ ~Copying'
    BY <2>1 DEF Place, Copying
  <2>9. Reached("done")'
    BY DEF Reached
  <2>10. Reached(Place)'
    BY <2>8, <2>9, Zenon
  <2> QED
    BY <2>6, <2>7, <2>8, <2>10 DEF Target
<1>11. CASE Fail \/ Kill
  <2>1. /\ \A n \in {"target", "basis"} : names'[n] = names[n]
        /\ data' = data /\ opts' = opts /\ version' = version /\ before' = before
        /\ pc' \in {"failed", "killed"}
    BY <1>0, <1>11 DEF Fail, Kill, Cleanup, disk
  <2>2. TargetNeverTorn'
    BY <1>0, <2>1 DEF TargetNeverTorn, InPlace, Seen, Wanted, Has, Content
  <2>3. Reached("failed")' /\ Reached("killed")'
    BY DEF Reached
  <2> QED
    BY <1>k, <2>1, <2>2, <2>3
<1>12. CASE NextRun
  <2>1. names'["target"] = names["target"] /\ (Has("target") => names["target"] # names["source"])
    BY <1>0, <1>12 DEF NextRun, Temps, Unshared
  <2>2. before' = Seen /\ pc' = "start"
    BY <1>12 DEF NextRun, Seen
  <2>3. Seen' = Seen
    BY <1>0, <1>12, <2>1 DEF NextRun, Types, Seen, Has, Content
  <2>4. TargetNeverTorn' /\ Reached("start")'
    BY <2>2, <2>3 DEF TargetNeverTorn, Reached
  <2> QED
    BY <1>k, <2>2, <2>4
<1>13. CASE UNCHANGED vars
  BY <1>0, <1>13
     DEF vars, disk, history, Target, Reached, Place, Copying, TargetNeverTorn, SuccessMeansWanted, InPlace,
         StageJob, FinalJob, AtomicJob, CopyJob, Fuzzed, FromFuzzy, Undisturbed, ToBasis, BasisFilesMatch,
         From, Seen, Wanted, Has, Content
<1> QED
  BY <1>1, <1>2, <1>3, <1>4, <1>5, <1>6, <1>7, <1>8, <1>9, <1>10, <1>11, <1>12, <1>13
     DEF Next, Decision

-----------------------------------------------------------------------------
(* Backups, temporary files and appends                                    *)

\* Before the target is replaced its content is in the backup, and what has
\* replaced it is not replaced again.
LEMMA FirstKeptStep ==
    ASSUME IInv, [Next]_vars
    PROVE  FirstKept'
<1>0. /\ Types /\ Unshared /\ Inputs /\ Jobs /\ Target /\ Reached(Place) /\ FirstKept
      /\ "target" \in Names /\ "basis" \in Names /\ "source" \in Names /\ "peer" \in Names
      /\ "staged" \in Names /\ "backup" \in Names
  BY DEF IInv, Target, Names
<1>p. ASSUME NEW l, pc = l, l \notin {"open", "chunk"} PROVE Reached(l)
  <2>1. Place = l
    BY <1>p DEF Place, Copying
  <2> QED
    BY <1>0, <2>1, Zenon
<1>k. Keeps => (Kept' <=> Kept) /\ first' = first /\ opts' = opts
  BY DEF Keeps, Kept, InPlace
<1>s. Kept /\ Seen = first.target => Has("target")
  BY <1>0, ContentFacts DEF Seen, Kept
<1>t. Kept /\ pc \notin Rest \cup {"start", "stamp"} =>
        Seen = first.target \/ (Content("backup") = first.target /\ ~Has("target"))
  BY <1>0 DEF FirstKept, Rest
<1>v. ASSUME SameView, Content("backup")' = Content("backup"), pc \notin Rest \cup {"start", "stamp"},
             Kept /\ Replacing' /\ Has("target") => Content("backup") = Seen
      PROVE  FirstKept'
  <2> SUFFICES ASSUME Kept' PROVE /\ Seen' = first'.target
                                     \/ (Content("backup")' = first'.target /\ ~Has("target")')
                                  /\ ~Has("target")' => opts'.hard \/ ToBasis'
                                  /\ Replacing' /\ Has("target")' => Content("backup")' = Seen'
    BY DEF FirstKept
  <2>1. Kept /\ first' = first /\ opts' = opts /\ Seen' = Seen /\ (ToBasis' <=> ToBasis)
        /\ (Has("target")' <=> Has("target"))
    BY <1>0, <1>k, <1>v, ViewFacts DEF SameView
  <2> QED
    BY <1>0, <1>t, <1>v, <2>1 DEF FirstKept
<1>1. CASE Start
  <2>1. pc = "start" /\ pc' \in {"done", "receive", "hard"} /\ Quiet
    BY <1>0, <1>1, Decisions DEF Moves
  <2>2. UpToDate => pc' = "done"
    BY <1>0, <1>1 DEF Start, Step, Goto, UpToDate, Inputs, Seen
  <2>3. SameView /\ Content("backup")' = Content("backup")
    BY <2>1, QuietView
  <2>4. /\ Seen' = Seen /\ (ToBasis' <=> ToBasis) /\ (UpToDate' <=> UpToDate)
        /\ (Has("target")' <=> Has("target"))
        /\ (Kept' <=> Kept) /\ first' = first /\ opts' = opts
    BY <1>0, <1>k, <2>3, ViewFacts DEF SameView
  <2>5. ~Replacing'
    BY <2>1 DEF Replacing, Copying
  <2> QED
    BY <1>0, <2>1, <2>2, <2>3, <2>4, <2>5 DEF FirstKept, Rest
<1>2. CASE Decision /\ ~Start
  <2>1. Quiet /\ SameView /\ Content("backup")' = Content("backup")
    BY <1>0, <1>2, DecisionIsQuiet, QuietView
  <2>2. pc \notin Rest \cup {"start", "stamp"}
    BY <1>0, <1>2, Decisions DEF Decision, Rest
  <2>3. \A then : WithBackup(then) /\ Kept /\ Has("target") => ~Replacing'
    <3> SUFFICES ASSUME NEW then, WithBackup(then), Kept, Has("target") PROVE ~Replacing'
      OBVIOUS
    <3>1. Starts(AtomicJob("target", "backup", FALSE, then))
      BY BackupForms DEF Kept
    <3> QED
      BY <3>1 DEF Starts, Replacing, Copying, AtomicJob
  <2>4. Kept /\ Replacing' /\ Has("target") => Content("backup") = Seen
    <3> SUFFICES ASSUME Kept, Replacing', Has("target") PROVE Content("backup") = Seen
      OBVIOUS
    <3>1. \A l : Moves(l) => l \in {"open", "chunk", "unlink_peer", "unlink_basis", "copy", "rename"}
      BY DEF Moves, Replacing, Copying
    <3>2. ~CopyBasis
      BY <1>0, <1>p, Decisions DEF Reached
    <3>3. ~Starts(AtomicJob("source", "staged", opts.keep, "publish"))
      BY DEF Starts, Replacing, Copying, AtomicJob
    <3>4. Copy
      BY <1>0, <1>2, <2>3, <3>1, <3>2, <3>3, Decisions DEF Decision
    <3> QED
      BY <1>0, <3>4 DEF FirstKept, Replacing, Copy
  <2> QED
    BY <1>v, <2>1, <2>2, <2>4
<1>3. CASE CopyOpen \/ CopyChunk
  <2>1. Copying /\ pc' = "chunk" /\ job' = job /\ Keeps
    BY <1>3, CopyWrites
  <2>2. CASE job.atomic
    <3>1. \A n \in {"target", "basis", "source", "peer", "backup"} :
            /\ (Has(n)' <=> Has(n)) /\ Content(n)' = Content(n)
            /\ Has(n) => mtime'[names'[n]] = mtime[names[n]]
      BY <1>0, <1>3, <2>1, <2>2, CopyWrites, CopyFacts
    <3>2. SameView
      BY <2>1, <3>1 DEF SameView
    <3>3. Replacing' => Replacing
      BY <2>1 DEF Replacing, Copying
    <3>4. pc \notin Rest \cup {"start", "stamp"}
      BY <2>1 DEF Copying, Rest
    <3> QED
      BY <1>0, <1>v, <3>1, <3>2, <3>3, <3>4 DEF FirstKept
  <2>3. CASE ~job.atomic
    BY <1>0, <1>k, <2>1, <2>3, CopyFacts DEF FirstKept, Kept, InPlace
  <2> QED
    BY <2>2, <2>3
<1>4. CASE CopyEnd
  <2> SUFFICES ASSUME Kept' PROVE FirstKept'
    BY DEF FirstKept
  <2>1. /\ Copying /\ pc = "chunk" /\ pc' = job.then /\ job' = job /\ Keeps /\ mtime' = mtime
        /\ data' = data /\ Has(Into) /\ Content(Into) = Content(job.from)
        /\ job.to \in {"target", "backup", "staged"} /\ job.to \in Names \ {"temp"}
        /\ Into = (IF job.atomic THEN "temp" ELSE "target")
        /\ (~job.atomic => ~opts.atomic)
        /\ (job.atomic => names' = [names EXCEPT ![job.to] = names["temp"], !["temp"] = NoInode])
    BY <1>0, <1>4, EndForm, CopyFacts DEF Copying, Names
  <2>2. Kept /\ opts' = opts /\ first' = first /\ job.atomic /\ opts.atomic
    BY <1>0, <1>k, <2>1, OptionFacts DEF Kept, InPlace
  <2>3. /\ \A n \in Names \ {"temp", job.to} :
             names'[n] = names[n] /\ (Has(n)' <=> Has(n)) /\ Content(n)' = Content(n)
        /\ Has(job.to)' /\ Content(job.to)' = Content(job.from)
    BY <1>0, <2>1, <2>2, RenameFacts
  <2>4. pc \notin Rest \cup {"start", "stamp"}
    BY <2>1 DEF Rest
  <2>5. CASE BackupJob
    <3>1. /\ job.to = "backup" /\ job.from = "target" /\ Has("target")
          /\ pc' \in {"unlink_peer", "unlink_basis", "copy", "rename"}
      BY <2>1, <2>5 DEF BackupJob, AtomicJob
    <3>2. Seen' = Seen /\ Content("backup")' = Seen /\ Has("target")'
      BY <1>0, <2>1, <2>3, <3>1 DEF Seen
    <3>3. Seen = first.target
      BY <1>t, <2>2, <2>4, <3>1
    <3> QED
      BY <2>2, <3>2, <3>3 DEF FirstKept
  <2>6. CASE StageJob
    <3>1. job.to = "staged" /\ pc' = "publish"
      BY <2>1, <2>6 DEF StageJob, AtomicJob
    <3>2. SameView /\ Content("backup")' = Content("backup")
      BY <1>0, <2>1, <2>3, <3>1 DEF SameView
    <3>3. ~Replacing'
      BY <3>1 DEF Replacing, Copying
    <3> QED
      BY <1>v, <2>4, <3>2, <3>3
  <2>7. CASE FinalJob \/ BasisJob
    <3>1. job.to = "target" /\ pc' = "stamp"
      BY <2>1, <2>7 DEF FinalJob, BasisJob, OntoNothing, CopyJob
    <3>2. Content("backup")' = Content("backup") /\ Has("target")'
      BY <1>0, <2>1, <2>3, <3>1
    <3>3. Content("backup") = first.target
      BY <1>0, <1>s, <1>t, <2>1, <2>2, <2>4, <3>1 DEF FirstKept, Replacing
    <3>4. ~Replacing'
      BY <3>1 DEF Replacing, Copying
    <3> QED
      BY <2>2, <3>1, <3>2, <3>3, <3>4 DEF FirstKept
  <2>8. CASE FuzzyJob
    BY <1>0, <2>2, <2>8, OptionFacts DEF FuzzyJob, OntoNothing, FromFuzzy, FirstKept, Kept
  <2> QED
    BY <1>0, <2>1, <2>5, <2>6, <2>7, <2>8 DEF Jobs
<1>5. CASE AppendChunk
  <2>1. Keeps /\ opts.append
    BY <1>5, <1>p, AppendForm DEF Reached
  <2> QED
    BY <1>k, <2>1 DEF FirstKept, Kept
<1>6. CASE ReceiveOpen \/ ReceiveToken
  <2>1. opts.remote
    BY <1>0, <1>6 DEF ReceiveOpen, ReceiveToken, Inputs
  <2>2. Keeps
    BY <1>6, ReceiveForm, TokenForm DEF Moves, Quiet, Keeps
  <2> QED
    BY <1>k, <2>1, <2>2 DEF FirstKept, Kept
<1>7. CASE UnlinkForPeer \/ UnlinkForBasis
  <2> SUFFICES ASSUME Kept' PROVE FirstKept'
    BY DEF FirstKept
  <2>1. /\ names' = [names EXCEPT !["target"] = NoInode] /\ data' = data /\ mtime' = mtime
        /\ Keeps /\ pc \in {"unlink_peer", "unlink_basis"}
    BY <1>7 DEF UnlinkForPeer, UnlinkForBasis, Unlink, Goto, history, Keeps
  <2>2. /\ ~Has("target")'
        /\ \A n \in {"basis", "source", "backup"} : names'[n] = names[n] /\ Content(n)' = Content(n)
    BY <1>0, <2>1 DEF Types, Has, Content
  <2>3. Kept /\ opts' = opts /\ first' = first /\ (ToBasis' <=> ToBasis)
    BY <1>k, <2>1, <2>2 DEF ToBasis, BasisFilesMatch
  <2>4. opts.hard \/ ToBasis
    BY <1>p, <2>1 DEF Reached
  <2>5. Content("backup") = first.target
    BY <1>0, <1>s, <1>t, <2>1, <2>3 DEF FirstKept, Replacing, Rest
  <2> QED
    BY <2>2, <2>3, <2>4, <2>5 DEF FirstKept
<1>8. CASE LinkPeer \/ LinkBasis
  <2>1. pc \in {"link_peer", "link_basis"} /\ pc \notin Rest \cup {"start", "stamp"}
    BY <1>8 DEF LinkPeer, LinkBasis, Rest
  <2>2. CASE Moves("alternative") \/ Moves("copy_basis")
    <3>1. SameView /\ Content("backup")' = Content("backup") /\ ~Replacing'
      BY <2>2, QuietView DEF Moves, Replacing, Copying
    <3> QED
      BY <1>v, <2>1, <3>1
  <2>3. ASSUME NEW k \in {"peer", "basis"}, Has(k), names' = [names EXCEPT !["target"] = names[k]],
               data' = data, Keeps, pc' = "stamp"
        PROVE  FirstKept'
    <3>1. Has("target")' /\ Content("backup")' = Content("backup") /\ ~Replacing'
      BY <1>0, <2>3, LinkFacts DEF Replacing, Copying
    <3>2. ~Has("target")
      BY <1>p, <2>1 DEF Reached
    <3>3. Kept => Content("backup") = first.target
      BY <1>0, <1>t, <2>1, <3>2, ContentFacts DEF Kept, Seen
    <3> QED
      BY <1>k, <2>3, <3>1, <3>3 DEF FirstKept
  <2> QED
    BY <1>8, <2>2, <2>3, LinkForm
<1>9. CASE Rename
  <2>1. pc = "rename" /\ pc' = "stamp" /\ Keeps /\ data' = data
        /\ names' = [names EXCEPT !["target"] = names["staged"], !["staged"] = NoInode]
    BY <1>9 DEF Rename, Goto, history, Keeps
  <2>2. /\ Has("staged") /\ "target" \in Names \ {"staged"}
        /\ "backup" \in Names \ {"staged", "target"}
    BY <1>0, <1>p, <2>1 DEF Reached
  <2>3. Has("target")' /\ Content("backup")' = Content("backup")
    BY <1>0, <2>1, <2>2, RenameFacts
  <2>5. ~Replacing'
    BY <2>1 DEF Replacing, Copying
  <2>4. Kept => Content("backup") = first.target
    BY <1>0, <1>s, <1>t, <2>1 DEF FirstKept, Replacing, Rest
  <2> QED
    BY <1>k, <2>1, <2>3, <2>4, <2>5 DEF FirstKept
<1>10. CASE Stamp
  <2> SUFFICES ASSUME Kept' PROVE FirstKept'
    BY DEF FirstKept
  <2>1. /\ pc = "stamp" /\ pc' = "done" /\ Keeps /\ data' = data
        /\ names' = [names EXCEPT !["recv"] = NoInode]
        /\ mtime' = IF opts.times THEN [mtime EXCEPT ![names["target"]] = version] ELSE mtime
    BY <1>10 DEF Stamp, Goto, history, Keeps
  <2>2. Has("target") /\ Len(Seen) = Len(Wanted)
    <3>1. Has("target") /\ (Seen = Wanted \/ (Seen = Content("basis") /\ ToBasis))
      BY <1>p, <2>1 DEF Reached
    <3> QED
      BY <1>0, <3>1 DEF ToBasis, BasisFilesMatch, Inputs
  <2>3. Kept /\ opts' = opts /\ first' = first /\ opts.times
    BY <1>k, <2>1 DEF Kept
  <2>4. /\ Has("target")' /\ Seen' = Seen /\ Content("backup")' = Content("backup")
        /\ Wanted' = Wanted /\ version' = version /\ names'["target"] = names["target"]
    BY <1>0, <2>1, <2>2 DEF Types, Has, Content, Seen, Wanted, Keeps
  <2>5. UpToDate'
    BY <1>0, <2>1, <2>2, <2>3, <2>4 DEF UpToDate, Types, Has
  <2>6. ~Replacing' /\ pc' \in Rest
    BY <2>1 DEF Replacing, Copying, Rest
  <2> QED
    BY <1>0, <2>2, <2>3, <2>4, <2>5, <2>6 DEF FirstKept
<1>11. CASE Fail \/ Kill
  <2> SUFFICES ASSUME Kept' PROVE FirstKept'
    BY DEF FirstKept
  <2>1. /\ pc \notin Rest /\ pc' \in {"failed", "killed"}
        /\ late' = (late \/ pc = "stamp") /\ data' = data /\ mtime' = mtime
        /\ opts' = opts /\ version' = version /\ first' = first
        /\ \A n \in {"target", "basis", "source", "backup"} : names'[n] = names[n]
    BY <1>0, <1>11 DEF Fail, Kill, Cleanup, disk
  <2>2. Kept /\ pc # "stamp"
    BY <1>0, <2>1 DEF Kept, InPlace, Types
  <2>3. /\ Seen' = Seen /\ (Has("target")' <=> Has("target")) /\ (ToBasis' <=> ToBasis)
        /\ Content("backup")' = Content("backup") /\ (UpToDate' <=> UpToDate)
    BY <2>1 DEF Seen, Has, Content, ToBasis, BasisFilesMatch, UpToDate, Wanted
  <2>4. ~Replacing' /\ pc' \in Rest
    BY <2>1 DEF Replacing, Copying, Rest
  <2> QED
    BY <1>0, <2>1, <2>2, <2>3, <2>4 DEF FirstKept
<1>12. CASE NextRun
  <2> SUFFICES ASSUME Kept' PROVE FirstKept'
    BY DEF FirstKept
  <2>1. version \in Nat \ {0} /\ version' \in {version, version + 1} /\ version' = 1
    BY <1>0, <1>12, VersionFacts DEF NextRun, Types, Kept
  <2>2. version = 1 /\ version' = version /\ Wanted' = Wanted /\ opts' = opts /\ first' = first
    BY <1>12, <2>1 DEF NextRun, Wanted
  <2>3. Kept /\ pc \in Rest /\ pc' = "start"
    BY <1>12, <2>2 DEF Kept, InPlace, NextRun
  <2>4. data[names["source"]] = Wanted /\ mtime[names["source"]] = version /\ names["source"] \in Inodes
    BY <1>0, ContentFacts DEF Inputs
  <2>5. data' = data /\ mtime' = mtime
    BY <1>0, <1>12, <2>2, <2>4 DEF NextRun, Types, Wanted
  <2>6. \A n \in {"target", "basis", "source", "backup"} : names'[n] = names[n]
    BY <1>0, <1>12 DEF NextRun, Temps
  <2>7. /\ Seen' = Seen /\ (Has("target")' <=> Has("target")) /\ (ToBasis' <=> ToBasis)
        /\ Content("backup")' = Content("backup") /\ (UpToDate' <=> UpToDate)
    BY <2>2, <2>5, <2>6 DEF Seen, Has, Content, ToBasis, BasisFilesMatch, UpToDate
  <2>8. ~Replacing' /\ pc # "stamp"
    BY <2>3 DEF Replacing, Copying, Rest
  <2> QED
    BY <1>0, <2>2, <2>3, <2>7, <2>8 DEF FirstKept
<1>13. CASE UNCHANGED vars
  BY <1>0, <1>13
     DEF vars, disk, history, FirstKept, Kept, UpToDate, Replacing, Copying, InPlace, ToBasis,
         BasisFilesMatch, Seen, Wanted, Has, Content
<1> QED
  BY <1>1, <1>2, <1>3, <1>4, <1>5, <1>6, <1>7, <1>8, <1>9, <1>10, <1>11, <1>12, <1>13
     DEF Next, Decision

\* A temporary file is there while it is written, and afterwards only if the
\* process was killed or a partial file is to be kept.
LEMMA TempsKnownStep ==
    ASSUME IInv, [Next]_vars
    PROVE  TempsKnown'
<1>0. /\ Types /\ Unshared /\ Inputs /\ Jobs /\ Reached(Place) /\ TempsKnown
      /\ "target" \in Names /\ "temp" \in Names /\ "staged" \in Names /\ "recv" \in Names
      /\ <<>> \in File
  BY DEF IInv, Target, Names, File
<1>m. ASSUME Keeps,
             pc \notin {"killed", "failed"}, pc = "chunk" => ~job.atomic \/ ~Has("temp")',
             pc' # "killed", Has("temp")' => Has("temp"),
             Has("recv")' => Has("recv"),
             pc' \notin {"start", "receive", "done", "failed"} \/ ~opts.remote \/ ~Has("recv")',
             Has("staged")' => Has("staged") /\ (Place \in {"publish", "rename"} => Place' = "rename")
      PROVE  TempsKnown'
  BY <1>0, <1>m DEF TempsKnown, Keeps
<1>1. CASE Start
  BY <1>0, <1>1, Decisions
     DEF Start, Moves, Quiet, TempsKnown, Place, Copying, Has
<1>2. CASE Decision /\ ~Start
  <2>1. Quiet
    BY <1>0, <1>2, DecisionIsQuiet
  <2>2. Keeps /\ (Has("temp")' <=> Has("temp")) /\ (Has("recv")' <=> Has("recv"))
        /\ (Has("staged")' <=> Has("staged"))
    BY <2>1, QuietView DEF Quiet, Keeps
  <2>3. pc \in {"hard", "alternative", "copy_basis", "fuzzy", "append", "write", "copy", "publish"}
        /\ Place = pc
    BY <1>0, <1>2, Decisions DEF Decision, Place, Copying
  <2>4. \A then : WithBackup(then) => pc' \in {then, "open"} /\ (Place' = then \/ then \in {"open", "chunk"})
    BY BackupForms DEF Moves, Starts, Place, Copying, AtomicJob
  <2>5. pc = "publish" => Place' = "rename"
    BY <1>0, <1>2, <2>4, Decisions DEF Decision
  <2>6. pc' \notin {"start", "receive", "failed", "killed"} /\ (pc' = "done" => pc = "alternative")
    BY <1>0, <1>2, <2>4, Decisions DEF Decision, Moves, Starts
  <2>7. pc = "alternative" => ~opts.remote
    BY <1>0 DEF Inputs, Received, Rest
  <2> QED
    BY <1>m, <2>2, <2>3, <2>5, <2>6, <2>7
<1>3. CASE CopyOpen \/ CopyChunk
  <2>1. /\ Copying /\ pc' = "chunk" /\ job' = job /\ Keeps
        /\ Into = (IF job.atomic THEN "temp" ELSE "target")
        /\ (Has("recv")' <=> Has("recv")) /\ (Has("staged")' <=> Has("staged"))
        /\ (~job.atomic => (Has("temp")' <=> Has("temp")))
    BY <1>0, <1>3, CopyWrites, CopyFacts
  <2>2. Place' \in {"publish", "rename"} <=> Place \in {"publish", "rename"}
    BY <2>1 DEF Place, Copying
  <2>3. ~job.atomic => ~Has("temp")
    BY <1>0, <2>1 DEF TempsKnown, Copying
  <2> QED
    BY <1>0, <2>1, <2>2, <2>3 DEF TempsKnown, Keeps
<1>4. CASE CopyEnd
  <2>1. /\ Copying /\ pc = "chunk" /\ pc' = job.then /\ job' = job /\ Keeps
        /\ data' = data /\ Has(Into)
        /\ job.to \in {"target", "backup", "staged"} /\ job.to \in Names \ {"temp"}
        /\ Into = (IF job.atomic THEN "temp" ELSE "target")
        /\ (~job.atomic => job.to = "target" /\ names' = names)
        /\ (job.atomic => names' = [names EXCEPT ![job.to] = names["temp"], !["temp"] = NoInode])
    BY <1>0, <1>4, EndForm, CopyFacts DEF Copying, Names
  <2>2. /\ ~Has("temp")' /\ (Has("recv")' <=> Has("recv"))
        /\ job.to # "staged" => (Has("staged")' <=> Has("staged"))
    <3>1. CASE job.atomic
      BY <1>0, <2>1, <3>1, RenameFacts
    <3>2. CASE ~job.atomic
      BY <1>0, <2>1, <3>2 DEF TempsKnown, Has
    <3> QED
      BY <3>1, <3>2
  <2>3. /\ pc' \in {"unlink_peer", "unlink_basis", "copy", "rename", "stamp", "append", "publish"}
        /\ (job.to = "staged" => pc' = "publish")
    BY <1>0, <2>1
       DEF Jobs, BackupJob, BasisJob, FuzzyJob, StageJob, FinalJob, OntoNothing, AtomicJob, CopyJob
  <2>4. Place' = pc' /\ (job.to = "backup" => Place = pc') /\ (job.to # "backup" => Place = "chunk")
    BY <2>1, <2>3 DEF Place, Copying
  <2> QED
    BY <1>0, <2>1, <2>2, <2>3, <2>4 DEF TempsKnown, Keeps
<1>5. CASE ReceiveOpen
  <2>1. /\ Fits("recv", NewInode) /\ Writes("recv", NewInode, <<>>) /\ Keeps
        /\ pc = "receive" /\ pc' = "tokens" /\ opts.remote
    BY <1>0, <1>5, ReceiveForm DEF Inputs
  <2>2. (Has("temp")' <=> Has("temp")) /\ (Has("staged")' <=> Has("staged"))
    BY <1>0, <2>1, WriteFacts
  <2>3. Place = "receive" /\ Place' = "tokens"
    BY <2>1 DEF Place, Copying
  <2> QED
    BY <1>0, <2>1, <2>2, <2>3 DEF TempsKnown, Keeps
<1>6. CASE ReceiveToken
  <2>1. names' = names /\ Keeps /\ pc = "tokens" /\ pc' \in {"tokens", "append"}
    BY <1>6, TokenForm DEF Moves, Quiet, Keeps
  <2> QED
    BY <1>0, <2>1 DEF TempsKnown, Keeps, Place, Copying, Has
<1>7. CASE UnlinkForPeer \/ UnlinkForBasis
  BY <1>0, <1>7 DEF UnlinkForPeer, UnlinkForBasis, Unlink, Goto, history, TempsKnown, Place, Copying, Has, Types
<1>8. CASE LinkPeer \/ LinkBasis
  <2>1. /\ \A n \in {"temp", "recv", "staged"} : names'[n] = names[n]
        /\ Keeps /\ pc \in {"link_peer", "link_basis"} /\ pc' \in {"stamp", "alternative", "copy_basis"}
    BY <1>0, <1>8, LinkForm DEF Moves, Quiet, Keeps, Types
  <2> QED
    BY <1>0, <2>1 DEF TempsKnown, Keeps, Place, Copying, Has
<1>9. CASE AppendChunk
  <2>1. names' = names /\ Keeps /\ pc = "appending" /\ pc' \in {"stamp", "appending"}
    BY <1>9, AppendForm
  <2> QED
    BY <1>0, <2>1 DEF TempsKnown, Keeps, Place, Copying, Has
<1>10. CASE Rename
  <2>1. /\ names'["temp"] = names["temp"] /\ names'["recv"] = names["recv"] /\ names'["staged"] = NoInode
        /\ pc = "rename" /\ pc' = "stamp" /\ Keeps
    BY <1>0, <1>10 DEF Rename, Goto, history, Keeps, Types
  <2> QED
    BY <1>0, <2>1 DEF TempsKnown, Keeps, Has
<1>11. CASE Stamp
  <2>1. /\ names'["temp"] = names["temp"] /\ names'["staged"] = names["staged"] /\ names'["recv"] = NoInode
        /\ pc = "stamp" /\ pc' = "done" /\ Keeps
    BY <1>0, <1>11 DEF Stamp, Goto, history, Keeps, Types
  <2> QED
    BY <1>0, <2>1 DEF TempsKnown, Keeps, Has, Place, Copying
<1>12. CASE Fail
  <2>1. /\ pc' = "failed" /\ opts' = opts /\ kills' = kills /\ litter' = litter
        /\ pc \notin Rest /\ ~Has("recv")'
        /\ Has("temp")' => Has("temp") /\ job.keep
        /\ Has("staged")' => Has("staged") /\ (opts.keep \/ opts.single)
    BY <1>0, <1>12 DEF Fail, Cleanup, Has
  <2>2. Copying /\ job.keep => opts.keep /\ ~opts.remote
    BY <1>0, OptionFacts
       DEF Jobs, BackupJob, BasisJob, FuzzyJob, StageJob, FinalJob, OntoNothing, AtomicJob, CopyJob
  <2> QED
    BY <1>0, <2>1, <2>2 DEF TempsKnown, Copying, Rest
<1>13. CASE Kill
  BY <1>0, <1>13 DEF Kill, disk, TempsKnown, Has, Types, Rest
<1>14. CASE NextRun
  <2>1. /\ ~Has("temp")' /\ ~Has("recv")' /\ names'["staged"] = names["staged"]
        /\ pc' = "start" /\ pc \in Rest /\ opts' = opts /\ kills' = kills
        /\ litter' = (litter \/ \E n \in Temps : Has(n))
    BY <1>0, <1>14 DEF NextRun, Temps, Has
  <2>2. Place \notin {"publish", "rename"}
    BY <2>1 DEF Place, Copying, Rest
  <2>3. kills = 0 /\ (\E n \in Temps : Has(n)) => opts.keep
    BY <1>0, <2>1 DEF TempsKnown, Temps, Rest, Types
  <2> QED
    BY <1>0, <2>1, <2>2, <2>3 DEF TempsKnown, Has, Types
<1>15. CASE UNCHANGED vars
  BY <1>0, <1>15 DEF vars, disk, history, TempsKnown, Place, Copying, Has
<1> QED
  BY <1>1, <1>2, <1>3, <1>4, <1>5, <1>6, <1>7, <1>8, <1>9, <1>10, <1>11, <1>12, <1>13, <1>14, <1>15
     DEF Next, Decision

\* A target that is a prefix of the source is never replaced.
LEMMA AppendedStep ==
    ASSUME IInv, [Next]_vars
    PROVE  Appended'
<1> DEFINE Case == /\ opts.append /\ IsPrefixOf(first.target, Versions[1]) /\ first.target # Absent
                   /\ version = 1 /\ opts.alternative = "none" /\ ~opts.hard /\ ~first.linked
<1>0. /\ Types /\ Unshared /\ Inputs /\ Reached(Place) /\ Appended
      /\ "target" \in Names /\ "source" \in Names /\ "recv" \in Names /\ <<>> \in File
  BY DEF IInv, Target, Names, File
<1> SUFFICES ASSUME Case' PROVE Appended'
  BY DEF Appended
<1>1. version = 1 /\ version' = 1 /\ Wanted = Versions[1] /\ opts' = opts /\ first' = first
  <2>1. CASE NextRun
    BY <1>0, <2>1, VersionFacts DEF NextRun, Types, Wanted
  <2>2. CASE Keeps
    BY <2>2 DEF Keeps, Wanted
  <2>3. CASE Fail \/ Kill \/ UNCHANGED vars
    BY <2>3 DEF Fail, Kill, vars, history, Wanted
  <2>4. CASE Decision
    BY <1>0, <2>4, DecisionIsQuiet DEF Quiet, Wanted
  <2>5. CASE /\ ~NextRun /\ ~Fail /\ ~Kill /\ ~UNCHANGED vars /\ ~Decision
    <3>1. UNCHANGED <<opts, version, history>>
      BY <2>5 DEF Next, Decision, ReceiveOpen, ReceiveToken, UnlinkForPeer, UnlinkForBasis, Unlink,
                  LinkPeer, LinkBasis, Link, AppendChunk, Rename, Stamp, CopyOpen, CopyChunk, CopyEnd, Step, Goto
    <3> QED
      BY <3>1 DEF history, Wanted
  <2> QED
    BY <2>1, <2>2, <2>3, <2>4, <2>5
<1>2. Case
  BY <1>1
<1>3. /\ pc \in Rest \cup {"start", "receive", "tokens", "hard", "alternative", "fuzzy", "append",
                           "appending", "stamp"}
      /\ Has("target") /\ IsPrefixOf(Seen, Wanted) /\ IsPrefixOf(first.target, Seen)
  BY <1>0, <1>1, <1>2 DEF Appended
<1>q. ASSUME pc' \in Rest \cup {"start", "receive", "tokens", "hard", "alternative", "fuzzy", "append",
                                "appending", "stamp"},
             names'["target"] = names["target"], Seen' = Seen
      PROVE  Appended'
  BY <1>1, <1>3, <1>q DEF Appended, Has
<1>v. Quiet => names'["target"] = names["target"] /\ Seen' = Seen
  BY QuietView DEF Seen
<1>4. CASE Start
  BY <1>0, <1>4, <1>q, <1>v, Decisions DEF Moves, Rest
<1>5. CASE Hard
  BY <1>0, <1>2, <1>5, <1>q, <1>v, Decisions DEF Moves
<1>6. CASE CheckBasis
  BY <1>0, <1>2, <1>6, <1>q, <1>v, Decisions DEF Moves, ToBasis, Rest
<1>7. CASE Fuzzy
  BY <1>0, <1>3, <1>7, <1>q, <1>v, Decisions DEF Moves
<1>8. CASE AppendVerify
  <2>1. Content(From) = Wanted
    BY <1>0, <1>8, OptionFacts DEF AppendVerify, Inputs, From, Received
  <2>2. opts.append /\ Appendable
    BY <1>2, <1>3, <2>1 DEF Appendable, Seen
  <2> QED
    BY <1>0, <1>8, <1>q, <1>v, <2>2, Decisions DEF Moves
<1>9. CASE AppendChunk
  <2> PICK d \in File : /\ Fits("target", names["target"]) /\ Writes("target", names["target"], d)
                        /\ IsPrefixOf(d, Wanted) /\ IsPrefixOf(Seen, d) /\ pc' \in {"stamp", "appending"}
    BY <1>9, AppendForm
  <2>1. Has("target")' /\ Seen' = d
    BY <1>0, WriteFacts DEF Seen
  <2>2. first.target \in Contents /\ Seen \in Contents /\ d \in Contents
    BY <1>0, ContentFacts DEF Types, Contents, Seen
  <2>3. IsPrefixOf(first.target, d)
    BY <1>3, <2>2, PrefixFacts
  <2> QED
    BY <1>1, <2>1, <2>3 DEF Appended
<1>10. CASE ReceiveOpen
  <2>1. /\ Fits("recv", NewInode) /\ Writes("recv", NewInode, <<>>) /\ pc' = "tokens"
        /\ names["target"] # NewInode
    BY <1>0, <1>10, ReceiveForm, NewInodeFacts DEF Types
  <2> QED
    BY <1>0, <1>q, <2>1, WriteFacts DEF Seen
<1>11. CASE ReceiveToken
  <2>1. CASE Moves("append")
    BY <1>q, <1>v, <2>1 DEF Moves
  <2>2. ASSUME NEW d \in File, Fits("recv", names["recv"]), Writes("recv", names["recv"], d),
               names' = names, pc' = "tokens"
        PROVE  Appended'
    <3>1. Content("target")' = Content("target")
      BY <1>0, <2>2, WriteFacts
    <3> QED
      BY <1>q, <2>2, <3>1 DEF Seen
  <2> QED
    BY <1>11, <2>1, <2>2, TokenForm
<1>12. CASE Stamp
  BY <1>0, <1>12, <1>q DEF Stamp, Goto, Types, Seen, Content, Has, Rest
<1>13. CASE Fail \/ Kill
  <2>1. names'["target"] = names["target"] /\ data' = data /\ pc' \in {"failed", "killed"}
    BY <1>0, <1>13 DEF Fail, Kill, Cleanup, disk
  <2> QED
    BY <1>q, <2>1 DEF Seen, Content, Has, Rest
<1>14. CASE NextRun
  <2>1. /\ names'["target"] = names["target"] /\ names["target"] # names["source"]
        /\ data' = [data EXCEPT ![names["source"]] = Versions[version']] /\ pc' = "start"
    BY <1>0, <1>3, <1>14 DEF NextRun, Temps, Unshared
  <2>2. Seen' = Seen
    BY <1>0, <2>1 DEF Types, Seen, Content, Has
  <2> QED
    BY <1>q, <2>1, <2>2
<1>15. CASE UNCHANGED vars
  BY <1>3, <1>15, <1>q DEF vars, disk, Seen, Content, Has
<1> QED
  BY <1>3, <1>4, <1>5, <1>6, <1>7, <1>8, <1>9, <1>10, <1>11, <1>12, <1>13, <1>14, <1>15
     DEF Next, UnlinkForPeer, UnlinkForBasis, LinkPeer, LinkBasis, CopyBasis, Write, Copy, Publish, Rename,
         CopyOpen, CopyChunk, CopyEnd, Rest

-----------------------------------------------------------------------------
(* The invariant and the properties                                        *)

\* A run starts in the invariant.
LEMMA InitInvariant == Init => IInv
<1> SUFFICES ASSUME Init PROVE IInv
  OBVIOUS
<1>0. PICK target \in Targets, linked \in BOOLEAN, stamp \in {0, 1} :
      LET there == target # Absent
      IN /\ linked => target = Alternative
         /\ names = [n \in Names |->
              CASE n = "source" -> 1
                [] n = "basis" -> 2
                [] n = "near" -> 3
                [] n = "peer" -> IF opts.hard THEN 4 ELSE NoInode
                [] n = "target" -> IF ~there THEN NoInode ELSE IF linked THEN 2 ELSE 5
                [] OTHER -> NoInode]
         /\ data = [i \in Inodes |->
              CASE i \in {1, 4} -> Wanted
                [] i = 2 -> Alternative
                [] i = 3 -> Neighbour
                [] i = 5 /\ there -> target
                [] OTHER -> <<>>]
         /\ mtime = [i \in Inodes |->
              CASE i \in {1, 4} -> 1
                [] i = 2 -> stamp
                [] OTHER -> 0]
         /\ before = target
         /\ first = [target |-> target, linked |-> linked]
  BY DEF Init
<1>1. /\ opts \in Settings /\ version = 1 /\ pc = "start" /\ job = NoJob /\ runs = 1 /\ kills = 0
      /\ late = FALSE /\ litter = FALSE /\ before = target
      /\ first.target = target /\ first.linked = linked
      /\ linked => target = Alternative
  BY <1>0 DEF Init
<1>2. /\ names["source"] = 1 /\ names["basis"] = 2 /\ names["near"] = 3
      /\ names["peer"] \in {NoInode, 4} /\ (names["peer"] # NoInode => opts.hard)
      /\ (target = Absent => names["target"] = NoInode)
      /\ (target # Absent => names["target"] = IF linked THEN 2 ELSE 5)
      /\ names["backup"] = NoInode /\ names["temp"] = NoInode
      /\ names["staged"] = NoInode /\ names["recv"] = NoInode
  BY <1>0 DEF Names, NoInode
<1>3. /\ data[1] = Wanted /\ data[4] = Wanted /\ data[2] = Alternative /\ data[3] = Neighbour
      /\ (target # Absent => data[5] = target)
      /\ mtime[1] = 1 /\ mtime[2] = stamp /\ mtime[5] = 0
  BY <1>0 DEF Inodes
<1>4. /\ Wanted \in File /\ Alternative \in File /\ Neighbour \in File /\ target \in Contents
      /\ <<>> \in File /\ Absent \notin File
  BY <1>1, FileAssumption, VersionFacts, AbsentIsNoFile DEF Wanted, Contents, File
<1>5. Types
  <2>1. names \in [Names -> Inodes \cup {NoInode}]
    BY <1>0 DEF Inodes, NoInode, Names
  <2>2. data \in [Inodes -> File]
    BY <1>0, <1>4 DEF Contents, Inodes
  <2>3. mtime \in [Inodes -> Nat]
    BY <1>0 DEF Inodes
  <2>4. job \in JobType
    BY <1>1 DEF NoJob, JobType, Names, Labels
  <2>5. first \in [target : Contents, linked : BOOLEAN]
    BY <1>0, <1>4
  <2> QED
    BY <1>1, <1>4, <2>1, <2>2, <2>3, <2>4, <2>5, VersionFacts DEF Types, Labels
<1>6. /\ Has("source") /\ Has("basis") /\ Has("near") /\ ~Has("temp") /\ ~Has("recv") /\ ~Has("staged")
      /\ Content("source") = Wanted /\ Content("near") = Neighbour /\ Content("basis") = Alternative
      /\ (Has("peer") => Content("peer") = Wanted)
      /\ Seen = target
      /\ (Has("target") <=> target # Absent)
  BY <1>1, <1>2, <1>3 DEF Has, Content, Seen, NoInode
<1>7. Unshared
  <2> SUFFICES ASSUME NEW n \in Names, NEW m \in Names, n # m, Has(n), names[n] = names[m]
               PROVE  "target" \in {n, m} /\ {n, m} \cap {"basis", "peer"} # {}
    BY DEF Unshared
  <2>1. names[n] # 0 /\ n \in {"source", "basis", "near", "peer", "target"}
        /\ m \in {"source", "basis", "near", "peer", "target"}
    BY <1>2 DEF Has, Names, NoInode
  <2>2. names["target"] \in {0, 2, 5} /\ names["peer"] \in {0, 4}
    BY <1>2 DEF NoInode
  <2>3. (n = "target" /\ m = "basis") \/ (n = "basis" /\ m = "target")
    BY <1>2, <2>1, <2>2
  <2> QED
    BY <2>3
<1>8. Inputs
  BY <1>1, <1>2, <1>3, <1>6 DEF Inputs, Received, NoInode, Has
<1>9. Basis
  BY <1>1, <1>2, <1>6 DEF Basis, NoInode
<1>10. Jobs /\ ~Copying /\ Place = "start"
  BY <1>1 DEF Jobs, Copying, Place
<1>11. Target
  <2>1. Reached("start")
    BY <1>1, <1>6 DEF Reached
  <2>2. Reached(Place)
    BY <1>10, <2>1, Zenon
  <2> QED
    BY <1>1, <1>6, <1>10, <2>2 DEF Target, TargetNeverTorn, SuccessMeansWanted
<1>12. Stamps
  BY <1>1, <1>2, <1>3, <1>6 DEF Stamps, Plain
<1>13. FirstKept
  BY <1>1, <1>6, <1>10 DEF FirstKept, Kept, Replacing
<1>14. TempsKnown
  BY <1>1, <1>6 DEF TempsKnown
<1>15. Appended
  BY <1>1, <1>4, <1>6, PrefixFacts DEF Appended
<1> QED
  BY <1>5, <1>7, <1>8, <1>9, <1>10, <1>11, <1>12, <1>13, <1>14, <1>15 DEF IInv

\* The invariant holds in every state of every sequence of runs of
\* transfer_file, whatever fails and whenever the process is killed.
THEOREM Invariant == Spec => []IInv
<1>1. IInv /\ [Next]_vars => IInv'
  BY TypesStep, UnsharedStep, InputsStep, BasisStep, StampsStep, JobsStep, TargetStep,
     FirstKeptStep, TempsKnownStep, AppendedStep, Zenon DEF IInv
<1> QED
  BY InitInvariant, <1>1, PTL DEF Spec

\* Nobody finds a torn target, and a run that ends well has left what was
\* asked for (transfer_file, copy_file_with_options).
THEOREM TargetIsSound == Spec => []TargetSound
<1>1. IInv => TargetSound
  BY DEF IInv, Types, Unshared, Inputs, Target, TargetSound, TypeOK
<1> QED
  BY <1>1, Invariant, PTL

\* The basis directory and the neighbour are only read, unless the target
\* was linked to the basis and is written in place (check_basis_dirs).
THEOREM BasisIsOnlyRead == Spec => []BasisOnlyRead
<1>1. IInv => BasisOnlyRead
  BY DEF IInv, Inputs, Basis, BasisOnlyRead
<1> QED
  BY <1>1, Invariant, PTL

\* With --backup the first content stays in one of two places
\* (backup_receiver_file).
THEOREM FirstContentIsKept == Spec => []FirstContentSurvives
<1>1. IInv => FirstContentSurvives
  BY DEF IInv, FirstKept, Kept, FirstContentSurvives
<1> QED
  BY <1>1, Invariant, PTL

\* Temporary files are removed, and an append that was cut short can be
\* resumed (copy_file_with_options, append_file_from).
THEOREM RunsLeaveCleanly == Spec => []LeavesCleanly
<1>1. IInv => TempsRemoved
  BY DEF IInv, TempsKnown, TempsRemoved, Temps, Types, Place, Copying
<1>2. IInv => AppendResumable
  BY DEF IInv, Appended, AppendResumable
<1> QED
  BY <1>1, <1>2, Invariant, PTL DEF LeavesCleanly

-----------------------------------------------------------------------------
(* A plain transfer implements FilePut                                     *)

\* The status of the abstract specification.
LEMMA StatusForms ==
    /\ ~Plain \/ pc \notin Rest => Status = "running"
    /\ Plain /\ pc = "done" => Status = "done"
    /\ Plain /\ pc \in {"failed", "killed"} => Status = "failed"
BY DEF Status, Rest

\* What the mapping shows of a step.
LEMMA StatusFormsNext ==
    /\ ~Plain' \/ pc' \notin Rest => Status' = "running"
    /\ Plain' /\ pc' = "done" => Status' = "done"
    /\ Plain' /\ pc' \in {"failed", "killed"} => Status' = "failed"
BY DEF Status, Rest

\* The settings and what the target was linked to at first do not change.
LEMMA PlainFixed ==
    ASSUME IInv, [Next]_vars
    PROVE  Plain' <=> Plain
<1>1. opts' = opts /\ first' = first
  <2>1. CASE Decision
    BY <2>1, DecisionIsQuiet DEF IInv, Quiet
  <2>2. CASE ~Decision
    BY <2>2 DEF Next, Decision, ReceiveOpen, ReceiveToken, UnlinkForPeer, UnlinkForBasis, Unlink,
                LinkPeer, LinkBasis, Link, AppendChunk, Rename, Stamp, CopyOpen, CopyChunk, CopyEnd,
                Fail, Kill, NextRun, Step, Goto, vars, history
  <2> QED
    BY <2>1, <2>2
<1> QED
  BY <1>1 DEF Plain

\* What a step of a plain transfer does to the target.
LEMMA PlainSteps ==
    ASSUME IInv, [Next]_vars, Plain
    PROVE  \/ /\ Seen' \in {Seen, Wanted} /\ Wanted' = Wanted
              /\ pc' = pc \/ (pc \notin Rest /\ pc' \notin Rest)
              /\ pc' = pc /\ pc \in Rest => Seen' = Seen
           \/ Seen' = Seen /\ Wanted' = Wanted /\ Seen = Wanted /\ pc \notin Rest /\ pc' = "done"
           \/ /\ Seen' = Seen /\ Wanted' = Wanted /\ pc \notin Rest
              /\ pc' \in {"failed", "killed"}
           \/ Seen' = Seen /\ version' \in DOMAIN Versions /\ pc \in Rest /\ pc' = "start"
<1>0. /\ Types /\ Unshared /\ Inputs /\ Jobs /\ Target /\ Stamps /\ Reached(Place)
      /\ "target" \in Names /\ "source" \in Names /\ "temp" \in Names /\ "recv" \in Names
      /\ "staged" \in Names /\ <<>> \in File
  BY DEF IInv, Target, Names, File
<1>p. ASSUME NEW l, pc = l, l \notin {"open", "chunk"} PROVE Reached(l)
  <2>1. Place = l
    BY <1>p DEF Place, Copying
  <2> QED
    BY <1>0, <2>1, Zenon
<1>n. ~ToBasis
  BY DEF Plain, ToBasis
<1>1. CASE Start
  <2>1. Quiet /\ Seen' = Seen /\ Wanted' = Wanted /\ pc = "start" /\ pc' \in {"done", "receive", "hard"}
    BY <1>0, <1>1, Decisions, QuietView, ViewFacts DEF Moves
  <2>2. pc' = "done" => Seen = Wanted
    <3> SUFFICES ASSUME pc' = "done" PROVE Seen = Wanted
      OBVIOUS
    <3>1. Has("target") /\ mtime[names["target"]] = version
      BY <1>0, <1>1 DEF Start, Step, Goto, Inputs
    <3>2. version \in Nat \ {0}
      BY <1>0, VersionFacts DEF Types
    <3> QED
      BY <1>0, <3>1, <3>2 DEF Stamps, Wanted
  <2> QED
    BY <2>1, <2>2 DEF Rest
<1>2. CASE Decision /\ ~Start
  <2>1. SameView
    BY <1>0, <1>2, DecisionIsQuiet, QuietView
  <2>2. pc \notin Rest
    BY <1>0, <1>2, Decisions DEF Decision, Rest
  <2>3. \A then : WithBackup(then) => pc' \in {then, "open"}
    BY BackupForms DEF Moves, Starts
  <2>4. pc' \notin Rest
    BY <1>0, <1>2, <2>3, Decisions DEF Decision, Rest, Moves, Starts, Plain
  <2> QED
    BY <1>0, <2>1, <2>2, <2>4, ViewFacts
<1>3. CASE CopyOpen \/ CopyChunk
  <2>1. Copying /\ pc' = "chunk" /\ Keeps /\ job.atomic
    BY <1>0, <1>3, CopyWrites, CopyFacts DEF Plain
  <2>2. Into = "temp"
    BY <1>0, <2>1, CopyFacts
  <2>3. Content("target")' = Content("target")
    BY <1>0, <1>3, <2>1, <2>2, CopyWrites
  <2> QED
    BY <2>1, <2>3 DEF Seen, Wanted, Keeps, Copying, Rest
<1>4. CASE CopyEnd
  <2>1. /\ Copying /\ pc = "chunk" /\ pc' = job.then /\ job' = job /\ Keeps /\ data' = data
        /\ Has(Into) /\ Content(Into) = Content(job.from)
        /\ job.to \in Names \ {"temp"} /\ job.atomic /\ Into = "temp"
        /\ names' = [names EXCEPT ![job.to] = names["temp"], !["temp"] = NoInode]
    BY <1>0, <1>4, EndForm, CopyFacts DEF Copying, Names, Plain
  <2>2. pc' \notin Rest /\ pc \notin Rest
    BY <1>0, <2>1
       DEF Jobs, BackupJob, BasisJob, FuzzyJob, StageJob, FinalJob, OntoNothing, AtomicJob, CopyJob, Rest
  <2>3. Wanted' = Wanted
    BY <2>1 DEF Keeps, Wanted
  <2>4. CASE job.to = "target"
    <3>1. FinalJob
      BY <1>0, <1>n, <2>1, <2>4
         DEF Jobs, BackupJob, BasisJob, FuzzyJob, StageJob, OntoNothing, AtomicJob, FromFuzzy, Plain
    <3>2. Content(job.from) = Wanted
      BY <1>0, <2>1, <3>1, OptionFacts DEF FinalJob, CopyJob, From, Inputs, Received
    <3>3. Content("target")' = Wanted
      BY <1>0, <2>1, <2>4, <3>2, RenameFacts
    <3> QED
      BY <2>2, <2>3, <3>3 DEF Seen
  <2>5. CASE job.to # "target"
    <3>1. Content("target")' = Content("target")
      BY <1>0, <2>1, <2>5, RenameFacts
    <3> QED
      BY <2>2, <2>3, <3>1 DEF Seen
  <2> QED
    BY <2>4, <2>5
<1>5. CASE ReceiveOpen
  <2>1. /\ Fits("recv", NewInode) /\ Writes("recv", NewInode, <<>>) /\ pc = "receive" /\ pc' = "tokens"
        /\ names["target"] # NewInode /\ Keeps
    BY <1>0, <1>5, ReceiveForm, NewInodeFacts DEF Types
  <2>2. Content("target")' = Content("target")
    BY <1>0, <2>1, WriteFacts
  <2> QED
    BY <2>1, <2>2 DEF Seen, Wanted, Keeps, Rest
<1>6. CASE ReceiveToken
  <2>1. CASE Moves("append")
    BY <1>0, <1>6, <2>1, TokenForm, QuietView, ViewFacts DEF Moves, Rest
  <2>2. ASSUME NEW d \in File, Fits("recv", names["recv"]), Writes("recv", names["recv"], d), Keeps, pc' = "tokens"
        PROVE  Seen' = Seen /\ Wanted' = Wanted
    BY <1>0, <2>2, WriteFacts DEF Seen, Wanted, Keeps
  <2> QED
    BY <1>6, <2>1, <2>2, TokenForm
<1>7. CASE UnlinkForPeer \/ UnlinkForBasis
  BY <1>n, <1>p, <1>7 DEF UnlinkForPeer, UnlinkForBasis, Reached, Plain
<1>8. CASE LinkPeer \/ LinkBasis
  BY <1>n, <1>p, <1>8 DEF LinkPeer, LinkBasis, Reached, Plain
<1>9. CASE AppendChunk
  BY <1>p, <1>9 DEF AppendChunk, Reached, Plain
<1>10. CASE Rename
  <2>1. pc = "rename" /\ pc' = "stamp" /\ Keeps /\ data' = data
        /\ names' = [names EXCEPT !["target"] = names["staged"], !["staged"] = NoInode]
    BY <1>10 DEF Rename, Goto, history, Keeps
  <2>2. Has("staged") /\ Content("staged") = Wanted
    BY <1>p, <2>1 DEF Reached
  <2>3. Seen' = Wanted /\ Wanted' = Wanted
    BY <1>0, <2>1, <2>2, RenameFacts DEF Seen, Wanted, Keeps
  <2> QED
    BY <2>1, <2>3 DEF Rest
<1>11. CASE Stamp
  <2>1. pc = "stamp" /\ pc' = "done" /\ Wanted' = Wanted /\ Seen' = Seen
    BY <1>0, <1>11 DEF Stamp, Goto, Wanted, Seen, Content, Has, Types
  <2>2. Seen = Wanted
    BY <1>n, <1>p, <2>1 DEF Reached
  <2> QED
    BY <2>1, <2>2 DEF Rest
<1>12. CASE Fail \/ Kill
  <2>1. /\ names'["target"] = names["target"] /\ data' = data /\ version' = version
        /\ pc \notin Rest /\ pc' \in {"failed", "killed"}
    BY <1>0, <1>12 DEF Fail, Kill, Cleanup, disk
  <2> QED
    BY <2>1 DEF Seen, Content, Has, Wanted
<1>13. CASE NextRun
  <2>1. /\ names'["target"] = names["target"] /\ (Has("target") => names["target"] # names["source"])
        /\ pc \in Rest /\ pc' = "start" /\ version' \in DOMAIN Versions
        /\ data' = [data EXCEPT ![names["source"]] = Versions[version']]
    BY <1>0, <1>13 DEF NextRun, Temps, Unshared
  <2> QED
    BY <1>0, <2>1 DEF Seen, Content, Has, Types
<1>14. CASE UNCHANGED vars
  BY <1>14 DEF vars, disk, Seen, Content, Has, Wanted
<1> QED
  BY <1>1, <1>2, <1>3, <1>4, <1>5, <1>6, <1>7, <1>8, <1>9, <1>10, <1>11, <1>12, <1>13, <1>14
     DEF Next, Decision

\* A plain transfer is a put: whoever looks at the target finds the content
\* from before the run or the new one, a run that reports success has left
\* the new one, and so across failures, kills and later runs (transfer_file,
\* replace_file, preserve_transferred_mtime).
THEOREM PlainTransferIsPut == Spec => ImplementsFilePut
<1>1. Init => Abstract!Init
  <2> SUFFICES ASSUME Init PROVE Abstract!Init
    OBVIOUS
  <2>1. IInv /\ version = 1 /\ pc = "start" /\ before \in Targets
    BY InitInvariant DEF Init
  <2>2. Seen = before
    <3>1. Place = "start"
      BY <2>1 DEF Place, Copying
    <3>2. Reached("start")
      BY <2>1, <3>1, Zenon DEF IInv, Target
    <3> QED
      BY <3>2 DEF Reached
  <2>3. Status = "running"
    BY <2>1, StatusForms DEF Rest
  <2> QED
    BY <2>1, <2>2, <2>3, VersionFacts DEF Abstract!Init, Wanted
<1>2. ASSUME IInv, [Next]_vars
      PROVE  [Abstract!Next]_(Abstract!vars)
  <2>1. Plain' <=> Plain
    BY <1>2, PlainFixed
  <2>2. CASE ~Plain
    <3>1. Status = "running" /\ Status' = "running"
      BY <2>1, <2>2, StatusForms, StatusFormsNext
    <3> QED
      BY <2>1, <2>2, <3>1 DEF Abstract!vars
  <2>3. CASE Plain
    <3>1. CASE /\ Seen' \in {Seen, Wanted} /\ Wanted' = Wanted
               /\ pc' = pc \/ (pc \notin Rest /\ pc' \notin Rest)
               /\ pc' = pc /\ pc \in Rest => Seen' = Seen
      <4>1. Status' = Status
        <5>1. CASE pc' = pc
          BY <2>1, <5>1 DEF Status
        <5>2. CASE pc \notin Rest /\ pc' \notin Rest
          BY <5>2, StatusForms, StatusFormsNext
        <5> QED
          BY <3>1, <5>1, <5>2
      <4>2. CASE Seen' = Seen
        BY <2>1, <2>3, <3>1, <4>1, <4>2 DEF Abstract!vars
      <4>3. CASE Seen' = Wanted /\ pc \notin Rest
        BY <2>1, <2>3, <3>1, <4>1, <4>3, StatusForms DEF Abstract!Next, Abstract!Put
      <4> QED
        BY <3>1, <4>2, <4>3
    <3>2. CASE Seen' = Seen /\ Wanted' = Wanted /\ Seen = Wanted /\ pc \notin Rest /\ pc' = "done"
      BY <2>1, <2>3, <3>2, StatusForms, StatusFormsNext DEF Abstract!Next, Abstract!Succeed
    <3>3. CASE /\ Seen' = Seen /\ Wanted' = Wanted /\ pc \notin Rest
               /\ pc' \in {"failed", "killed"}
      BY <2>1, <2>3, <3>3, StatusForms, StatusFormsNext DEF Abstract!Next, Abstract!Fail
    <3>4. CASE Seen' = Seen /\ version' \in DOMAIN Versions /\ pc \in Rest /\ pc' = "start"
      <4>1. Status # "running" /\ Status' = "running"
        BY <2>1, <2>3, <3>4, StatusForms, StatusFormsNext DEF Rest
      <4> QED
        BY <2>1, <2>3, <3>4, <4>1 DEF Abstract!Next, Abstract!Rerun, Wanted
    <3> QED
      BY <1>2, <2>3, <3>1, <3>2, <3>3, <3>4, PlainSteps
  <2> QED
    BY <2>2, <2>3
<1> QED
  BY <1>1, <1>2, Invariant, PTL DEF Spec, ImplementsFilePut, Abstract!Spec
=============================================================================
