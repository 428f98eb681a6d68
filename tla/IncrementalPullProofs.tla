----------------------- MODULE IncrementalPullProofs ------------------------
(***************************************************************************)
(* NumbersSound is an invariant of IncrementalPull, whatever the sender    *)
(* acknowledges, and PullSound is one when it answers DONE once, for every *)
(* tree, every destination and every set of excluded paths.                *)
(***************************************************************************)
EXTENDS IncrementalPull, FiniteSetTheorems, TLAPS

-----------------------------------------------------------------------------
(* Sorting                                                                 *)

\* The number of members below p grows strictly with p.
LEMMA BelowGrows ==
    ASSUME NEW S \in SUBSET Nat, IsFiniteSet(S), NEW p \in S, NEW r \in S, p < r
    PROVE  /\ Cardinality({q \in S : q < p}) \in Nat
           /\ Cardinality({q \in S : q < r}) \in Nat
           /\ Cardinality({q \in S : q < p}) < Cardinality({q \in S : q < r})
<1> DEFINE A == {q \in S : q < p}
           B == {q \in S : q < r}
<1>1. A \in SUBSET S /\ B \in SUBSET S /\ p \notin A
  OBVIOUS
<1>1a. \A q \in A \cup {p} : q \in B
  OBVIOUS
<1>2. IsFiniteSet(A) /\ IsFiniteSet(B)
  BY <1>1, FS_Subset
<1>3. /\ IsFiniteSet(A \cup {p})
      /\ Cardinality(A \cup {p}) = Cardinality(A) + 1
  BY <1>1, <1>2, FS_AddElement
<1>4. Cardinality(A \cup {p}) <= Cardinality(B)
  BY <1>1a, <1>2, FS_Subset
<1>5. Cardinality(A) \in Nat /\ Cardinality(B) \in Nat
  BY <1>2, FS_CardinalityType
<1> HIDE DEF A, B
<1>6. Cardinality(A) < Cardinality(B)
  BY <1>3, <1>4, <1>5
<1> QED
  BY <1>5, <1>6 DEF A, B

\* Ascending lists exactly the members of the set.
LEMMA AscendingLists ==
    ASSUME NEW S \in SUBSET Nat, IsFiniteSet(S)
    PROVE  /\ Ascending(S) \in Seq(S)
           /\ Len(Ascending(S)) = Cardinality(S)
           /\ \A p \in S : \E k \in 1..Cardinality(S) : Ascending(S)[k] = p
<1> DEFINE n == Cardinality(S)
           below(p) == Cardinality({q \in S : q < p})
           f == [p \in S |-> below(p) + 1]
<1>1. n \in Nat
  BY FS_CardinalityType
<1>2. \A p \in S : below(p) \in Nat /\ below(p) < n
  <2> TAKE p \in S
  <2> DEFINE A == {q \in S : q < p}
  <2>1. A \in SUBSET S /\ p \in S /\ p \notin A
    OBVIOUS
  <2>2. IsFiniteSet(A) /\ Cardinality(A) \in Nat /\ A # S
    BY <2>1, FS_Subset, FS_CardinalityType
  <2>3. Cardinality(A) <= n /\ Cardinality(A) # n
    BY <2>1, <2>2, FS_Subset
  <2> HIDE DEF A, n
  <2>4. Cardinality(A) < n
    BY <2>2, <2>3, <1>1
  <2> QED
    BY <2>2, <2>4 DEF A
<1>3. \A p, r \in S : below(p) = below(r) => p = r
  <2> SUFFICES ASSUME NEW p \in S, NEW r \in S, below(p) = below(r), p # r PROVE FALSE
    OBVIOUS
  <2>1. p < r \/ r < p
    OBVIOUS
  <2>2. p < r => below(p) < below(r)
    BY BelowGrows
  <2>3. r < p => below(r) < below(p)
    BY BelowGrows
  <2> HIDE DEF below
  <2> QED
    BY <2>1, <2>2, <2>3, <1>2
<1> HIDE DEF below
<1>4. f \in Injection(S, 1..n)
  BY <1>1, <1>2, <1>3 DEF Injection, IsInjective
<1>5. IsFiniteSet(1..n) /\ Cardinality(1..n) = n
  BY <1>1, FS_Interval
<1>6. f \in Surjection(S, 1..n)
  BY <1>4, <1>5, FS_Injection
<1>7. \A k \in 1..n : \E p \in S : below(p) = k - 1
  <2> TAKE k \in 1..n
  <2>1. PICK p \in S : f[p] = k
    BY <1>6 DEF Surjection
  <2> QED
    BY <2>1, <1>1, <1>2
<1>8. \A k \in 1..n : /\ Ascending(S)[k] \in S
                      /\ below(Ascending(S)[k]) = k - 1
  BY <1>7 DEF Ascending, below
<1>9. Ascending(S) \in [1..n -> S]
  BY <1>8 DEF Ascending
<1> HIDE DEF n, f
<1>10. Ascending(S) \in Seq(S) /\ Len(Ascending(S)) = n
  <2> DEFINE t == Ascending(S)
  <2>1. t \in [1..n -> S]
    BY <1>9
  <2> HIDE DEF t
  <2>2. t \in Seq(S)
    BY <2>1, <1>1
  <2>3. Len(t) = n
    BY <2>1, <2>2, <1>1
  <2> QED
    BY <2>2, <2>3 DEF t
<1>11. \A p \in S : Ascending(S)[below(p) + 1] = p /\ below(p) + 1 \in 1..n
  <2> TAKE p \in S
  <2>1. below(p) + 1 \in 1..n /\ (below(p) + 1) - 1 = below(p)
    BY <1>1, <1>2
  <2>2. /\ Ascending(S)[below(p) + 1] \in S
        /\ below(Ascending(S)[below(p) + 1]) = below(p)
    BY <2>1, <1>8
  <2> QED
    BY <2>1, <2>2, <1>3
<1> QED
  BY <1>10, <1>11 DEF n

\* A sorted list of paths of the source has exactly those paths.
LEMMA SortLists ==
    ASSUME NEW list \in SUBSET Source
    PROVE  LET s == sort_remote_entries_for_sender_indexes(list)
           IN /\ s \in Seq(Source)
              /\ \A i \in 1..Len(s) : s[i] \in list
              /\ \A path \in list : \E i \in 1..Len(s) : s[i] = path
<1> DEFINE R == {i \in DOMAIN Order : Order[i] \in list}
           a == Ascending(R)
           s == sort_remote_entries_for_sender_indexes(list)
<1>1. DOMAIN Order = 1..Len(Order) /\ Len(Order) \in Nat
  BY OrderAssumption
<1>2. R \in SUBSET Nat /\ \A i \in R : i \in 1..Len(Order)
  BY <1>1
<1>3. IsFiniteSet(R)
  <2>1. IsFiniteSet(1..Len(Order))
    BY <1>1, FS_Interval
  <2> QED
    BY <1>2, <2>1, FS_Subset
<1>4. /\ a \in Seq(R) /\ Len(a) = Cardinality(R)
      /\ \A p \in R : \E k \in 1..Cardinality(R) : a[k] = p
  BY <1>2, <1>3, AscendingLists
<1>5. \A path \in list : \E p \in R : Order[p] = path
  BY OrderAssumption DEF ToSet
<1>6. \A p \in R : Order[p] \in list
  OBVIOUS
<1>7. s = [k \in DOMAIN a |-> Order[a[k]]]
  BY DEF sort_remote_entries_for_sender_indexes
<1> HIDE DEF R, a, s
<1>8. Len(a) \in Nat /\ DOMAIN a = 1..Len(a) /\ \A k \in 1..Len(a) : a[k] \in R
  BY <1>4
<1>9. s \in [1..Len(a) -> list]
  BY <1>6, <1>7, <1>8
<1>10. s \in Seq(Source) /\ Len(s) = Len(a)
  BY <1>8, <1>9
<1>11. \A path \in list : \E i \in 1..Len(s) : s[i] = path
  BY <1>4, <1>5, <1>7, <1>8, <1>10
<1> QED
  BY <1>9, <1>10, <1>11 DEF s

-----------------------------------------------------------------------------
(* Messages, and running totals over a stream                              *)

ListMsg == [type : {"list"}, parent : Nat, batch : SUBSET Source]
FileMsg == [type : {"file"}, index : Nat]
EofMsg == [type |-> "eof"]
DoneMsg == [type |-> "done"]
StatsMsg == [type |-> "stats"]
Msg == ListMsg \cup FileMsg \cup {EofMsg, DoneMsg, StatsMsg}

sorted(list) == sort_remote_entries_for_sender_indexes(list)

\* c[k] is c[0] and the weights of the first k elements of s.
Tally(s, w, c) ==
    /\ c \in [0..Len(s) -> Nat]
    /\ \A k \in 1..Len(s) : c[k] = c[k - 1] + w[s[k]]
    /\ \A i, j \in 0..Len(s) : i <= j => c[i] <= c[j]

DoneWeight == [x \in Nat |-> IF x = 0 THEN 1 ELSE 0]
ListWeight == [x \in Msg |-> IF x.type = "list" THEN 1 ELSE 0]
SizeWeight == [x \in Msg |-> IF x.type = "list" THEN Len(sorted(x.batch)) ELSE 0]

\* A message is known by its type.
LEMMA MsgKinds ==
    /\ \A x \in Msg : x.type = "list" <=> x \in ListMsg
    /\ \A x \in Msg : x.type = "file" <=> x \in FileMsg
    /\ \A x \in Msg : x.type = "done" <=> x = DoneMsg
    /\ \A x \in ListMsg : x \in Msg /\ x.type = "list" /\ x.batch \in SUBSET Source
    /\ \A x \in FileMsg : x \in Msg /\ x.type = "file" /\ x.index \in Nat
    /\ EofMsg \in Msg /\ DoneMsg \in Msg /\ StatsMsg \in Msg
    /\ EofMsg.type = "eof" /\ DoneMsg.type = "done" /\ StatsMsg.type = "stats"
<1>1. EofMsg.type = "eof" /\ DoneMsg.type = "done" /\ StatsMsg.type = "stats"
  BY DEF EofMsg, DoneMsg, StatsMsg
<1>2. \A x \in ListMsg : x.type = "list" /\ x.batch \in SUBSET Source
  BY DEF ListMsg
<1>3. \A x \in FileMsg : x.type = "file" /\ x.index \in Nat
  BY DEF FileMsg
<1> QED
  BY <1>1, <1>2, <1>3 DEF Msg

LEMMA WeightTypes ==
    /\ DoneWeight \in [Nat -> Nat]
    /\ ListWeight \in [Msg -> Nat]
    /\ SizeWeight \in [Msg -> Nat]
<1>1. DoneWeight \in [Nat -> Nat] /\ ListWeight \in [Msg -> Nat]
  BY DEF DoneWeight, ListWeight
<1>2. ASSUME NEW x \in Msg, x.type = "list" PROVE Len(sorted(x.batch)) \in Nat
  <2>1. x.batch \in SUBSET Source
    BY <1>2, MsgKinds
  <2>2. sorted(x.batch) \in Seq(Source)
    BY <2>1, SortLists DEF sorted
  <2> QED
    BY <2>2
<1> QED
  BY <1>1, <1>2 DEF SizeWeight

\* Reading the first element.
LEMMA TallyTail ==
    ASSUME NEW X, NEW s \in Seq(X), s # << >>, NEW w \in [X -> Nat], NEW c, Tally(s, w, c)
    PROVE  \E b : /\ Tally(Tail(s), w, b)
                  /\ b[0] = c[0] + w[Head(s)]
                  /\ \A k \in 0..(Len(s) - 1) : b[k] = c[k + 1]
<1>1. /\ Len(s) \in Nat /\ Len(s) >= 1 /\ Len(Tail(s)) = Len(s) - 1 /\ Head(s) = s[1]
      /\ \A k \in 1..(Len(s) - 1) : Tail(s)[k] = s[k + 1]
  OBVIOUS
<1> DEFINE b == [k \in 0..(Len(s) - 1) |-> c[k + 1]]
<1>2. b \in [0..Len(Tail(s)) -> Nat]
  BY <1>1 DEF Tally
<1>3. ASSUME NEW k \in 1..Len(Tail(s)) PROVE b[k] = b[k - 1] + w[Tail(s)[k]]
  <2>1. k + 1 \in 1..Len(s) /\ k - 1 \in 0..(Len(s) - 1) /\ k \in 0..(Len(s) - 1)
    BY <1>1
  <2>2. c[k + 1] = c[(k + 1) - 1] + w[s[k + 1]]
    BY <2>1 DEF Tally
  <2>3. b[k] = c[k + 1] /\ b[k - 1] = c[(k - 1) + 1] /\ (k - 1) + 1 = k /\ (k + 1) - 1 = k
    BY <2>1
  <2> HIDE DEF b
  <2> QED
    BY <2>2, <2>3, <1>1
<1>4. ASSUME NEW i \in 0..Len(Tail(s)), NEW j \in 0..Len(Tail(s)), i <= j PROVE b[i] <= b[j]
  BY <1>1, <1>4 DEF Tally
<1>5. b[0] = c[1] /\ c[1] = c[0] + w[s[1]]
  BY <1>1 DEF Tally
<1>6. \A k \in 0..(Len(s) - 1) : b[k] = c[k + 1]
  OBVIOUS
<1> HIDE DEF b
<1>7. Tally(Tail(s), w, b)
  BY <1>2, <1>3, <1>4 DEF Tally
<1> QED
  BY <1>1, <1>5, <1>6, <1>7

\* Writing one more.
LEMMA TallyAppend ==
    ASSUME NEW X, NEW s \in Seq(X), NEW x \in X, NEW w \in [X -> Nat], NEW c, Tally(s, w, c)
    PROVE  \E b : /\ Tally(Append(s, x), w, b)
                  /\ b[Len(s) + 1] = c[Len(s)] + w[x]
                  /\ \A k \in 0..Len(s) : b[k] = c[k]
<1>1. /\ Len(s) \in Nat /\ Len(Append(s, x)) = Len(s) + 1
      /\ \A k \in 1..Len(s) : Append(s, x)[k] = s[k]
      /\ Append(s, x)[Len(s) + 1] = x
  OBVIOUS
<1> DEFINE n == Len(s)
           b == [k \in 0..(n + 1) |-> IF k = n + 1 THEN c[n] + w[x] ELSE c[k]]
<1>2. /\ c \in [0..n -> Nat] /\ w[x] \in Nat /\ n \in Nat
      /\ \A i, j \in 0..n : i <= j => c[i] <= c[j]
  BY <1>1 DEF Tally
<1>3. b[n + 1] = c[n] + w[x] /\ \A k \in 0..n : b[k] = c[k]
  BY <1>2
<1>4. b \in [0..(n + 1) -> Nat]
  BY <1>2
<1> HIDE DEF b
<1>5. ASSUME NEW k \in 1..(n + 1) PROVE b[k] = b[k - 1] + w[Append(s, x)[k]]
  <2>1. CASE k = n + 1
    BY <2>1, <1>1, <1>2, <1>3
  <2>2. CASE k \in 1..n
    <3>1. k - 1 \in 0..n /\ k \in 0..n
      BY <2>2, <1>2
    <3>2. c[k] = c[k - 1] + w[s[k]]
      BY <2>2 DEF Tally
    <3> QED
      BY <3>1, <3>2, <2>2, <1>1, <1>3
  <2> QED
    BY <2>1, <2>2, <1>2
<1>6. ASSUME NEW i \in 0..(n + 1), NEW j \in 0..(n + 1), i <= j PROVE b[i] <= b[j]
  <2>1. CASE j \in 0..n
    BY <2>1, <1>2, <1>3, <1>6
  <2>2. CASE j = n + 1 /\ i \in 0..n
    <3>1. n \in 0..n /\ c[i] <= c[n] /\ c[i] \in Nat /\ c[n] \in Nat
      BY <2>2, <1>2
    <3>2. b[i] = c[i] /\ b[j] = c[n] + w[x]
      BY <2>2, <1>3
    <3> QED
      BY <3>1, <3>2, <1>2
  <2>3. CASE j = n + 1 /\ i = n + 1
    BY <2>3, <1>4
  <2> QED
    BY <2>1, <2>2, <2>3, <1>2
<1>7. Tally(Append(s, x), w, b)
  BY <1>1, <1>4, <1>5, <1>6 DEF Tally
<1> QED
  BY <1>3, <1>7

\* Writing some that do not count.
LEMMA TallyConcat ==
    ASSUME NEW X, NEW s \in Seq(X), NEW t \in Seq(X), NEW w \in [X -> Nat], NEW c,
           Tally(s, w, c), \A k \in 1..Len(t) : w[t[k]] = 0
    PROVE  \E b : /\ Tally(s \o t, w, b)
                  /\ b[0] = c[0]
                  /\ b[Len(s \o t)] = c[Len(s)]
<1>1. /\ Len(s) \in Nat /\ Len(t) \in Nat /\ Len(s \o t) = Len(s) + Len(t)
      /\ \A k \in 1..Len(s) : (s \o t)[k] = s[k]
      /\ \A k \in (Len(s) + 1)..(Len(s) + Len(t)) : (s \o t)[k] = t[k - Len(s)]
  OBVIOUS
<1> DEFINE n == Len(s)
           z == Len(s) + Len(t)
           b == [k \in 0..z |-> IF k <= n THEN c[k] ELSE c[n]]
<1>2. /\ c \in [0..n -> Nat] /\ n \in Nat /\ z \in Nat /\ n <= z
      /\ \A i, j \in 0..n : i <= j => c[i] <= c[j]
  BY <1>1 DEF Tally
<1>3. /\ b \in [0..z -> Nat]
      /\ \A k \in 0..n : b[k] = c[k]
      /\ \A k \in n..z : b[k] = c[n]
  BY <1>2
<1> HIDE DEF b
<1>4. ASSUME NEW k \in 1..z PROVE b[k] = b[k - 1] + w[(s \o t)[k]]
  <2>1. CASE k \in 1..n
    <3>1. k - 1 \in 0..n /\ k \in 0..n /\ c[k] = c[k - 1] + w[s[k]]
      BY <2>1, <1>2 DEF Tally
    <3> QED
      BY <3>1, <2>1, <1>1, <1>3
  <2>2. CASE k \in (n + 1)..z
    <3>1. k - 1 \in n..z /\ k \in n..z /\ k - n \in 1..Len(t)
      BY <2>2, <1>1, <1>2
    <3>2. w[(s \o t)[k]] = 0
      BY <3>1, <2>2, <1>1
    <3>3. b[k] = c[n] /\ b[k - 1] = c[n]
      BY <3>1, <1>3
    <3>4. n \in 0..n /\ c[n] \in Nat
      BY <1>2
    <3> QED
      BY <3>2, <3>3, <3>4
  <2> QED
    BY <2>1, <2>2, <1>2
<1>5. ASSUME NEW i \in 0..z, NEW j \in 0..z, i <= j PROVE b[i] <= b[j]
  <2>1. CASE j \in 0..n
    <3>1. i \in 0..n /\ c[i] <= c[j]
      BY <2>1, <1>2, <1>5
    <3> QED
      BY <3>1, <2>1, <1>3
  <2>2. CASE j \in n..z /\ i \in 0..n
    <3>1. n \in 0..n /\ c[i] <= c[n]
      BY <2>2, <1>2
    <3> QED
      BY <3>1, <2>2, <1>3
  <2>3. CASE j \in n..z /\ i \in n..z
    BY <2>3, <1>2, <1>3
  <2> QED
    BY <2>1, <2>2, <2>3, <1>2
<1>6. Tally(s \o t, w, b)
  BY <1>1, <1>3, <1>4, <1>5 DEF Tally
<1>7. Len(s \o t) = z /\ z \in n..z /\ 0 \in 0..n
  BY <1>1, <1>2
<1> QED
  BY <1>3, <1>6, <1>7

\* A total that has not moved has counted nothing.
LEMMA TallyNone ==
    ASSUME NEW X, NEW s \in Seq(X), NEW w \in [X -> Nat], NEW c, Tally(s, w, c),
           c[Len(s)] = c[0]
    PROVE  \A k \in 1..Len(s) : w[s[k]] = 0
<1> TAKE k \in 1..Len(s)
<1>1. /\ Len(s) \in Nat /\ k - 1 \in 0..Len(s) /\ k \in 0..Len(s)
      /\ 0 \in 0..Len(s) /\ Len(s) \in 0..Len(s) /\ 0 <= k - 1 /\ k <= Len(s) /\ s[k] \in X
  OBVIOUS
<1>2. c[0] <= c[k - 1] /\ c[k] <= c[Len(s)] /\ c[k] = c[k - 1] + w[s[k]]
  BY <1>1 DEF Tally
<1>3. c[0] \in Nat /\ c[k - 1] \in Nat /\ c[k] \in Nat /\ w[s[k]] \in Nat
  BY <1>1 DEF Tally
<1> QED
  BY <1>2, <1>3

-----------------------------------------------------------------------------
(* The lists under way                                                     *)

\* l[k] is the length of the client's list after the first k messages of rs:
\* each list under way is the part of the sender's list pl that comes next.
NumberedBy(rs, e, pl, l) ==
    /\ Tally(rs, SizeWeight, l)
    /\ l[0] = Len(e)
    /\ l[Len(rs)] = Len(pl)
    /\ \A k \in 1..Len(rs) : rs[k].type = "list" =>
           \A j \in 1..Len(sorted(rs[k].batch)) : pl[l[k - 1] + j] = sorted(rs[k].batch)[j]
Numbered(rs, e, pl) == \E l : NumberedBy(rs, e, pl, l)

\* The client's list is the beginning of the sender's.
Begins(e, pl) ==
    /\ Len(e) <= Len(pl)
    /\ \A i \in 1..Len(e) : e[i] = pl[i]

\* What a message weighs.
LEMMA Weights ==
    /\ \A x \in Msg : x.type # "list" => SizeWeight[x] = 0 /\ ListWeight[x] = 0
    /\ \A x \in Msg : x.type = "list" => /\ SizeWeight[x] = Len(sorted(x.batch))
                                         /\ ListWeight[x] = 1
                                         /\ sorted(x.batch) \in Seq(Source)
    /\ DoneWeight[0] = 1 /\ \A x \in Nat : x # 0 => DoneWeight[x] = 0
<1>1. \A x \in Msg : x.type = "list" => sorted(x.batch) \in Seq(Source)
  BY MsgKinds, SortLists DEF sorted
<1> QED
  BY <1>1 DEF SizeWeight, ListWeight, DoneWeight

\* A message that is not a list is written.
LEMMA NumberedWrite ==
    ASSUME NEW rs \in Seq(Msg), NEW e, NEW pl, Numbered(rs, e, pl),
           NEW x \in Msg, x.type # "list"
    PROVE  Numbered(Append(rs, x), e, pl)
<1>1. PICK l : NumberedBy(rs, e, pl, l)
  BY DEF Numbered
<1>2. Tally(rs, SizeWeight, l) /\ l[0] = Len(e) /\ l[Len(rs)] = Len(pl)
  BY <1>1 DEF NumberedBy
<1>3. PICK b : /\ Tally(Append(rs, x), SizeWeight, b)
               /\ b[Len(rs) + 1] = l[Len(rs)] + SizeWeight[x]
               /\ \A k \in 0..Len(rs) : b[k] = l[k]
  <2>1. SizeWeight \in [Msg -> Nat]
    BY WeightTypes
  <2> QED
    BY <2>1, <1>2, TallyAppend
<1>4. /\ Len(rs) \in Nat /\ Len(Append(rs, x)) = Len(rs) + 1
      /\ \A k \in 1..Len(rs) : Append(rs, x)[k] = rs[k]
      /\ Append(rs, x)[Len(rs) + 1] = x
  OBVIOUS
<1>5. l[Len(rs)] \in Nat
  BY <1>2, <1>4 DEF Tally
<1>6. b[0] = Len(e) /\ b[Len(rs) + 1] = Len(pl)
  BY <1>2, <1>3, <1>4, <1>5, Weights
<1>7. ASSUME NEW k \in 1..(Len(rs) + 1), Append(rs, x)[k].type = "list",
             NEW j \in 1..Len(sorted(Append(rs, x)[k].batch))
      PROVE  pl[b[k - 1] + j] = sorted(Append(rs, x)[k].batch)[j]
  <2>1. k \in 1..Len(rs)
    BY <1>4, <1>7
  <2>2. Append(rs, x)[k] = rs[k] /\ b[k - 1] = l[k - 1]
    BY <2>1, <1>3, <1>4
  <2> QED
    BY <2>1, <2>2, <1>1, <1>7 DEF NumberedBy
<1>8. NumberedBy(Append(rs, x), e, pl, b)
  BY <1>3, <1>4, <1>6, <1>7 DEF NumberedBy
<1> QED
  BY <1>8 DEF Numbered

\* The sender writes a list and counts its paths as the next ones.
LEMMA NumberedWriteList ==
    ASSUME NEW rs \in Seq(Msg), NEW e, NEW pl \in Seq(Source), Numbered(rs, e, pl),
           NEW x \in Msg, x.type = "list"
    PROVE  Numbered(Append(rs, x), e, pl \o sorted(x.batch))
<1>1. PICK l : NumberedBy(rs, e, pl, l)
  BY DEF Numbered
<1> DEFINE t == sorted(x.batch)
<1>0. t \in Seq(Source) /\ SizeWeight[x] = Len(t)
  BY Weights
<1> HIDE DEF t
<1>2. Tally(rs, SizeWeight, l) /\ l[0] = Len(e) /\ l[Len(rs)] = Len(pl)
  BY <1>1 DEF NumberedBy
<1>3. PICK b : /\ Tally(Append(rs, x), SizeWeight, b)
               /\ b[Len(rs) + 1] = l[Len(rs)] + SizeWeight[x]
               /\ \A k \in 0..Len(rs) : b[k] = l[k]
  <2>1. SizeWeight \in [Msg -> Nat]
    BY WeightTypes
  <2> QED
    BY <2>1, <1>2, TallyAppend
<1>4. /\ Len(rs) \in Nat /\ Len(Append(rs, x)) = Len(rs) + 1
      /\ \A k \in 1..Len(rs) : Append(rs, x)[k] = rs[k]
      /\ Append(rs, x)[Len(rs) + 1] = x
  OBVIOUS
<1>5. /\ Len(pl) \in Nat /\ Len(t) \in Nat /\ Len(pl \o t) = Len(pl) + Len(t)
      /\ \A i \in 1..Len(pl) : (pl \o t)[i] = pl[i]
      /\ \A i \in 1..Len(t) : (pl \o t)[Len(pl) + i] = t[i]
  BY <1>0
<1>6. b[0] = Len(e) /\ b[Len(rs) + 1] = Len(pl \o t)
  BY <1>0, <1>2, <1>3, <1>4, <1>5
<1>7. ASSUME NEW k \in 1..(Len(rs) + 1), Append(rs, x)[k].type = "list",
             NEW j \in 1..Len(sorted(Append(rs, x)[k].batch))
      PROVE  (pl \o t)[b[k - 1] + j] = sorted(Append(rs, x)[k].batch)[j]
  <2>1. CASE k \in 1..Len(rs)
    <3>1. Append(rs, x)[k] = rs[k] /\ b[k - 1] = l[k - 1] /\ k - 1 \in 0..Len(rs)
      BY <2>1, <1>3, <1>4
    <3>2. pl[l[k - 1] + j] = sorted(rs[k].batch)[j]
      BY <3>1, <2>1, <1>1, <1>7 DEF NumberedBy
    <3>3. /\ SizeWeight[rs[k]] = Len(sorted(rs[k].batch))
          /\ Len(sorted(rs[k].batch)) \in Nat
      BY <3>1, <2>1, <1>7, Weights
    <3>a. k \in 0..Len(rs) /\ Len(rs) \in 0..Len(rs) /\ k <= Len(rs)
      BY <2>1, <1>4
    <3>4. l[k] = l[k - 1] + SizeWeight[rs[k]] /\ l[k] <= l[Len(rs)] /\ l[k - 1] \in Nat
      BY <2>1, <3>1, <3>a, <1>2 DEF Tally
    <3>5. l[k - 1] + j \in 1..Len(pl)
      BY <3>1, <3>3, <3>4, <1>2, <1>5, <1>7
    <3> QED
      BY <3>1, <3>2, <3>5, <1>5
  <2>2. CASE k = Len(rs) + 1
    <3>1. k - 1 = Len(rs) /\ k - 1 \in 0..Len(rs) /\ Append(rs, x)[k] = x
      BY <2>2, <1>4
    <3>2. b[k - 1] = Len(pl) /\ j \in 1..Len(t)
      BY <3>1, <1>2, <1>3, <1>7 DEF t
    <3> QED
      BY <3>1, <3>2, <1>5 DEF t
  <2>3. k \in 1..Len(rs) \/ k = Len(rs) + 1
    BY <1>4
  <2> QED
    BY <2>1, <2>2, <2>3
<1>8. NumberedBy(Append(rs, x), e, pl \o t, b)
  BY <1>3, <1>4, <1>6, <1>7 DEF NumberedBy
<1> QED
  BY <1>8 DEF Numbered, t

\* What is behind the first message.
LEMMA NumberedTail ==
    ASSUME NEW rs \in Seq(Msg), rs # << >>, NEW e, NEW pl, NEW l, NumberedBy(rs, e, pl, l)
    PROVE  \E b : /\ Tally(Tail(rs), SizeWeight, b)
                  /\ b[0] = Len(e) + SizeWeight[Head(rs)]
                  /\ b[Len(Tail(rs))] = Len(pl)
                  /\ \A k \in 1..Len(Tail(rs)) : Tail(rs)[k].type = "list" =>
                         \A j \in 1..Len(sorted(Tail(rs)[k].batch)) :
                             pl[b[k - 1] + j] = sorted(Tail(rs)[k].batch)[j]
<1>1. /\ Len(rs) \in Nat /\ Len(rs) >= 1 /\ Len(Tail(rs)) = Len(rs) - 1
      /\ \A k \in 1..(Len(rs) - 1) : Tail(rs)[k] = rs[k + 1]
  OBVIOUS
<1>2. Tally(rs, SizeWeight, l) /\ l[0] = Len(e) /\ l[Len(rs)] = Len(pl)
  BY DEF NumberedBy
<1>3. PICK b : /\ Tally(Tail(rs), SizeWeight, b)
               /\ b[0] = l[0] + SizeWeight[Head(rs)]
               /\ \A k \in 0..(Len(rs) - 1) : b[k] = l[k + 1]
  <2>1. SizeWeight \in [Msg -> Nat]
    BY WeightTypes
  <2> QED
    BY <2>1, <1>2, TallyTail
<1>4. Len(rs) - 1 \in 0..(Len(rs) - 1) /\ (Len(rs) - 1) + 1 = Len(rs)
  BY <1>1
<1>5. b[Len(Tail(rs))] = Len(pl)
  BY <1>1, <1>2, <1>3, <1>4
<1>6. ASSUME NEW k \in 1..Len(Tail(rs)), Tail(rs)[k].type = "list",
             NEW j \in 1..Len(sorted(Tail(rs)[k].batch))
      PROVE  pl[b[k - 1] + j] = sorted(Tail(rs)[k].batch)[j]
  <2>1. k + 1 \in 1..Len(rs) /\ k - 1 \in 0..(Len(rs) - 1) /\ (k - 1) + 1 = (k + 1) - 1
    BY <1>1
  <2>2. Tail(rs)[k] = rs[k + 1] /\ b[k - 1] = l[(k + 1) - 1]
    BY <2>1, <1>1, <1>3
  <2> QED
    BY <2>1, <2>2, <1>6 DEF NumberedBy
<1> QED
  BY <1>2, <1>3, <1>5, <1>6

\* The client reads a message that is not a list.
LEMMA NumberedRead ==
    ASSUME NEW rs \in Seq(Msg), rs # << >>, NEW e \in Seq(Source), NEW pl,
           Numbered(rs, e, pl), Head(rs).type # "list"
    PROVE  Numbered(Tail(rs), e, pl)
<1>1. PICK l : NumberedBy(rs, e, pl, l)
  BY DEF Numbered
<1>2. PICK b : /\ Tally(Tail(rs), SizeWeight, b)
               /\ b[0] = Len(e) + SizeWeight[Head(rs)]
               /\ b[Len(Tail(rs))] = Len(pl)
               /\ \A k \in 1..Len(Tail(rs)) : Tail(rs)[k].type = "list" =>
                      \A j \in 1..Len(sorted(Tail(rs)[k].batch)) :
                          pl[b[k - 1] + j] = sorted(Tail(rs)[k].batch)[j]
  BY <1>1, NumberedTail
<1>3. Head(rs) \in Msg /\ Len(e) \in Nat
  OBVIOUS
<1>4. b[0] = Len(e)
  BY <1>2, <1>3, Weights
<1> QED
  BY <1>2, <1>4 DEF Numbered, NumberedBy

\* The client reads a list and appends it: its list still begins the sender's.
LEMMA NumberedReadList ==
    ASSUME NEW rs \in Seq(Msg), rs # << >>, NEW e \in Seq(Source), NEW pl \in Seq(Source),
           Numbered(rs, e, pl), Begins(e, pl), Head(rs).type = "list"
    PROVE  /\ Numbered(Tail(rs), e \o sorted(Head(rs).batch), pl)
           /\ Begins(e \o sorted(Head(rs).batch), pl)
<1>1. PICK l : NumberedBy(rs, e, pl, l)
  BY DEF Numbered
<1>2. PICK b : /\ Tally(Tail(rs), SizeWeight, b)
               /\ b[0] = Len(e) + SizeWeight[Head(rs)]
               /\ b[Len(Tail(rs))] = Len(pl)
               /\ \A k \in 1..Len(Tail(rs)) : Tail(rs)[k].type = "list" =>
                      \A j \in 1..Len(sorted(Tail(rs)[k].batch)) :
                          pl[b[k - 1] + j] = sorted(Tail(rs)[k].batch)[j]
  BY <1>1, NumberedTail
<1> DEFINE t == sorted(Head(rs).batch)
<1>3. Head(rs) \in Msg /\ Head(rs) = rs[1] /\ 1 \in 1..Len(rs) /\ Len(rs) \in Nat
  OBVIOUS
<1>4. t \in Seq(Source) /\ SizeWeight[Head(rs)] = Len(t)
  BY <1>3, Weights
<1>5. \A j \in 1..Len(t) : pl[l[1 - 1] + j] = t[j]
  BY <1>1, <1>3 DEF NumberedBy
<1> HIDE DEF t
<1>6. /\ Len(e) \in Nat /\ Len(t) \in Nat /\ Len(e \o t) = Len(e) + Len(t)
      /\ \A i \in 1..Len(e) : (e \o t)[i] = e[i]
      /\ \A i \in (Len(e) + 1)..(Len(e) + Len(t)) : (e \o t)[i] = t[i - Len(e)]
  BY <1>4
<1>7. b[0] = Len(e \o t)
  BY <1>2, <1>4, <1>6
<1>8. l[0] = Len(e) /\ 1 - 1 = 0
  BY <1>1 DEF NumberedBy
<1>9. \A j \in 1..Len(t) : pl[Len(e) + j] = t[j]
  BY <1>5, <1>8
<1>10. Len(e \o t) <= Len(pl)
  <2>1. /\ 0 \in 0..Len(Tail(rs)) /\ Len(Tail(rs)) \in 0..Len(Tail(rs))
        /\ 0 <= Len(Tail(rs))
    BY <1>3
  <2> QED
    BY <2>1, <1>2, <1>7 DEF Tally
<1>11. ASSUME NEW i \in 1..Len(e \o t) PROVE (e \o t)[i] = pl[i]
  <2>1. CASE i \in 1..Len(e)
    BY <2>1, <1>6 DEF Begins
  <2>2. CASE i \in (Len(e) + 1)..(Len(e) + Len(t))
    <3>1. i - Len(e) \in 1..Len(t) /\ Len(e) + (i - Len(e)) = i
      BY <2>2, <1>6
    <3> QED
      BY <3>1, <2>2, <1>6, <1>9
  <2> QED
    BY <2>1, <2>2, <1>6
<1>12. Begins(e \o t, pl)
  BY <1>10, <1>11 DEF Begins
<1>13. NumberedBy(Tail(rs), e \o t, pl, b)
  BY <1>2, <1>7 DEF NumberedBy
<1> QED
  BY <1>12, <1>13 DEF Numbered, t

-----------------------------------------------------------------------------
(* The lists that have not been finished                                   *)

\* Of the n lists sent, the sender has finished pd; for every other one there
\* is a DONE in rq or the list itself in rs.
CountedBy(rq, rs, pd, n, c, d) ==
    /\ Tally(rq, DoneWeight, c)
    /\ Tally(rs, ListWeight, d)
    /\ c[0] = pd
    /\ c[Len(rq)] = d[0]
    /\ d[Len(rs)] = n
Counted(rq, rs, pd, n) == \E c, d : CountedBy(rq, rs, pd, n, c, d)

\* The ends of a total.
LEMMA TallyEnds ==
    ASSUME NEW X, NEW s \in Seq(X), NEW w \in [X -> Nat], NEW c, Tally(s, w, c)
    PROVE  c[0] \in Nat /\ c[Len(s)] \in Nat /\ c[0] <= c[Len(s)]
<1>1. 0 \in 0..Len(s) /\ Len(s) \in 0..Len(s) /\ 0 <= Len(s)
  OBVIOUS
<1> QED
  BY <1>1 DEF Tally

\* The two totals that count, one step at a time.
LEMMA ListsTail ==
    ASSUME NEW rs \in Seq(Msg), rs # << >>, NEW d, Tally(rs, ListWeight, d)
    PROVE  \E b : /\ Tally(Tail(rs), ListWeight, b)
                  /\ b[0] = d[0] + ListWeight[Head(rs)]
                  /\ \A k \in 0..(Len(rs) - 1) : b[k] = d[k + 1]
<1>1. ListWeight \in [Msg -> Nat]
  BY WeightTypes
<1> QED
  BY <1>1, TallyTail

LEMMA DonesTail ==
    ASSUME NEW rq \in Seq(Nat), rq # << >>, NEW c, Tally(rq, DoneWeight, c)
    PROVE  \E b : /\ Tally(Tail(rq), DoneWeight, b)
                  /\ b[0] = c[0] + DoneWeight[Head(rq)]
                  /\ \A k \in 0..(Len(rq) - 1) : b[k] = c[k + 1]
<1> DEFINE X == Nat
<1>1. DoneWeight \in [X -> Nat] /\ rq \in Seq(X)
  BY WeightTypes
<1> HIDE DEF X
<1> QED
  BY <1>1, TallyTail

Number == Nat

LEMMA DonesConcat ==
    ASSUME NEW rq \in Seq(Number), NEW t \in Seq(Number),
           \A k \in 1..Len(t) : DoneWeight[t[k]] = 0,
           NEW c, Tally(rq, DoneWeight, c)
    PROVE  \E b : /\ Tally(rq \o t, DoneWeight, b)
                  /\ b[0] = c[0]
                  /\ b[Len(rq \o t)] = c[Len(rq)]
<1>1. DoneWeight \in [Number -> Nat]
  BY WeightTypes DEF Number
<1> QED
  BY <1>1, TallyConcat

LEMMA DonesAppend ==
    ASSUME NEW u \in Seq(Nat), NEW c, Tally(u, DoneWeight, c)
    PROVE  \E b : /\ Tally(Append(u, 0), DoneWeight, b)
                  /\ b[Len(u) + 1] = c[Len(u)] + DoneWeight[0]
                  /\ \A k \in 0..Len(u) : b[k] = c[k]
<1> DEFINE X == Nat
<1>1. DoneWeight \in [X -> Nat] /\ u \in Seq(X) /\ 0 \in X
  BY WeightTypes
<1> HIDE DEF X
<1> QED
  BY <1>1, TallyAppend

\* The sender writes a message.
LEMMA CountedWrite ==
    ASSUME NEW rq \in Seq(Nat), NEW rs \in Seq(Msg), NEW pd, NEW n \in Nat,
           Counted(rq, rs, pd, n), NEW x \in Msg
    PROVE  /\ x.type # "list" => Counted(rq, Append(rs, x), pd, n)
           /\ x.type = "list" => Counted(rq, Append(rs, x), pd, n + 1)
<1>1. PICK c, d : CountedBy(rq, rs, pd, n, c, d)
  BY DEF Counted
<1>2. Tally(rs, ListWeight, d)
  BY <1>1 DEF CountedBy
<1>3. ListWeight \in [Msg -> Nat]
  BY WeightTypes
<1>4. PICK b : /\ Tally(Append(rs, x), ListWeight, b)
               /\ b[Len(rs) + 1] = d[Len(rs)] + ListWeight[x]
               /\ \A k \in 0..Len(rs) : b[k] = d[k]
  BY <1>2, <1>3, TallyAppend
<1>5. Len(rs) \in Nat /\ Len(Append(rs, x)) = Len(rs) + 1 /\ 0 \in 0..Len(rs)
  OBVIOUS
<1>6. b[0] = d[0] /\ b[Len(Append(rs, x))] = n + ListWeight[x]
  BY <1>1, <1>4, <1>5 DEF CountedBy
<1>7. ASSUME x.type # "list" PROVE CountedBy(rq, Append(rs, x), pd, n, c, b)
  BY <1>1, <1>4, <1>6, <1>7, Weights DEF CountedBy
<1>8. ASSUME x.type = "list" PROVE CountedBy(rq, Append(rs, x), pd, n + 1, c, b)
  BY <1>1, <1>4, <1>6, <1>8, Weights DEF CountedBy
<1> QED
  BY <1>7, <1>8 DEF Counted

\* The client reads a message; a list makes it write requests and DONE.
LEMMA CountedRead ==
    ASSUME NEW rq \in Seq(Nat), NEW rs \in Seq(Msg), rs # << >>, NEW pd, NEW n \in Nat,
           Counted(rq, rs, pd, n)
    PROVE  /\ Head(rs).type # "list" => Counted(rq, Tail(rs), pd, n)
           /\ Head(rs).type = "list" =>
                  \A t \in Seq(Nat) : (\A k \in 1..Len(t) : t[k] # 0) =>
                      Counted(Append(rq \o t, 0), Tail(rs), pd, n)
<1>1. PICK c, d : CountedBy(rq, rs, pd, n, c, d)
  BY DEF Counted
<1>2. Tally(rs, ListWeight, d) /\ Tally(rq, DoneWeight, c)
  BY <1>1 DEF CountedBy
<1>3. ListWeight \in [Msg -> Nat]
  BY WeightTypes
<1>5. PICK b : /\ Tally(Tail(rs), ListWeight, b)
               /\ b[0] = d[0] + ListWeight[Head(rs)]
               /\ \A k \in 0..(Len(rs) - 1) : b[k] = d[k + 1]
  BY <1>2, ListsTail
<1>6. /\ Len(rs) \in Nat /\ Len(Tail(rs)) = Len(rs) - 1 /\ Head(rs) \in Msg
      /\ Len(rs) - 1 \in 0..(Len(rs) - 1) /\ (Len(rs) - 1) + 1 = Len(rs)
  OBVIOUS
<1>7. b[Len(Tail(rs))] = n
  BY <1>1, <1>5, <1>6 DEF CountedBy
<1>8. d[0] \in Nat
  BY <1>2, <1>3, TallyEnds
<1>9. ASSUME Head(rs).type # "list" PROVE CountedBy(rq, Tail(rs), pd, n, c, b)
  <2>1. b[0] = d[0]
    BY <1>5, <1>6, <1>8, <1>9, Weights
  <2> QED
    BY <2>1, <1>1, <1>5, <1>7 DEF CountedBy
<1>10. ASSUME Head(rs).type = "list", NEW t \in Seq(Nat), \A k \in 1..Len(t) : t[k] # 0
       PROVE  Counted(Append(rq \o t, 0), Tail(rs), pd, n)
  <2>1. b[0] = d[0] + 1
    BY <1>5, <1>6, <1>10, Weights
  <2>3. PICK f : /\ Tally(rq \o t, DoneWeight, f)
                 /\ f[0] = c[0]
                 /\ f[Len(rq \o t)] = c[Len(rq)]
    <3>1. \A k \in 1..Len(t) : DoneWeight[t[k]] = 0
      BY <1>10, Weights
    <3>2. rq \in Seq(Number) /\ t \in Seq(Number)
      BY DEF Number
    <3> QED
      BY <3>1, <3>2, <1>2, DonesConcat
  <2>4. rq \o t \in Seq(Nat)
    OBVIOUS
  <2> DEFINE u == rq \o t
  <2> HIDE DEF u
  <2>5. PICK g : /\ Tally(Append(u, 0), DoneWeight, g)
                 /\ g[Len(u) + 1] = f[Len(u)] + DoneWeight[0]
                 /\ \A k \in 0..Len(u) : g[k] = f[k]
    <3>1. u \in Seq(Nat) /\ Tally(u, DoneWeight, f)
      BY <2>3, <2>4 DEF u
    <3> QED
      BY <3>1, DonesAppend
  <2>6. /\ Len(u) \in Nat /\ Len(Append(u, 0)) = Len(u) + 1 /\ 0 \in 0..Len(u)
    BY <2>4 DEF u
  <2>7. g[0] = pd /\ g[Len(Append(u, 0))] = c[Len(rq)] + 1
    BY <2>3, <2>5, <2>6, <1>1, Weights DEF CountedBy, u
  <2>8. CountedBy(Append(u, 0), Tail(rs), pd, n, g, b)
    BY <2>1, <2>5, <2>7, <1>1, <1>5, <1>7 DEF CountedBy
  <2> QED
    BY <2>8 DEF Counted, u
<1> QED
  BY <1>9, <1>10 DEF Counted

\* The sender reads a request, or the DONE that finishes a list.
LEMMA CountedAnswer ==
    ASSUME NEW rq \in Seq(Nat), rq # << >>, NEW rs \in Seq(Msg), NEW pd \in Nat, NEW n \in Nat,
           Counted(rq, rs, pd, n)
    PROVE  /\ Head(rq) # 0 => Counted(Tail(rq), rs, pd, n)
           /\ Head(rq) = 0 => Counted(Tail(rq), rs, pd + 1, n)
<1>1. PICK c, d : CountedBy(rq, rs, pd, n, c, d)
  BY DEF Counted
<1>2. Tally(rq, DoneWeight, c)
  BY <1>1 DEF CountedBy
<1>4. PICK b : /\ Tally(Tail(rq), DoneWeight, b)
               /\ b[0] = c[0] + DoneWeight[Head(rq)]
               /\ \A k \in 0..(Len(rq) - 1) : b[k] = c[k + 1]
  BY <1>2, DonesTail
<1>5. /\ Len(rq) \in Nat /\ Len(Tail(rq)) = Len(rq) - 1 /\ Head(rq) \in Nat
      /\ Len(rq) - 1 \in 0..(Len(rq) - 1) /\ (Len(rq) - 1) + 1 = Len(rq)
  OBVIOUS
<1>6. b[Len(Tail(rq))] = d[0]
  BY <1>1, <1>4, <1>5 DEF CountedBy
<1>7. c[0] = pd
  BY <1>1 DEF CountedBy
<1>8. ASSUME Head(rq) # 0 PROVE CountedBy(Tail(rq), rs, pd, n, b, d)
  <2>1. b[0] = pd
    BY <1>4, <1>5, <1>7, <1>8, Weights
  <2> QED
    BY <2>1, <1>1, <1>4, <1>6 DEF CountedBy
<1>9. ASSUME Head(rq) = 0 PROVE CountedBy(Tail(rq), rs, pd + 1, n, b, d)
  <2>1. b[0] = pd + 1
    BY <1>4, <1>5, <1>7, <1>9, Weights
  <2> QED
    BY <2>1, <1>1, <1>4, <1>6 DEF CountedBy
<1> QED
  BY <1>8, <1>9 DEF Counted

\* When all lists are finished, none is under way and no DONE either.
LEMMA CountedAll ==
    ASSUME NEW rq \in Seq(Nat), NEW rs \in Seq(Msg), NEW n \in Nat, Counted(rq, rs, n, n)
    PROVE  /\ \A k \in 1..Len(rq) : rq[k] # 0
           /\ \A k \in 1..Len(rs) : rs[k].type # "list"
<1>1. PICK c, d : CountedBy(rq, rs, n, n, c, d)
  BY DEF Counted
<1>2. Tally(rq, DoneWeight, c) /\ Tally(rs, ListWeight, d)
  BY <1>1 DEF CountedBy
<1>3. DoneWeight \in [Nat -> Nat]
  BY WeightTypes
<1>4. ListWeight \in [Msg -> Nat]
  BY WeightTypes
<1>5. c[0] \in Nat /\ c[Len(rq)] \in Nat /\ c[0] <= c[Len(rq)]
  BY <1>2, <1>3, TallyEnds
<1>6. d[0] \in Nat /\ d[Len(rs)] \in Nat /\ d[0] <= d[Len(rs)]
  BY <1>2, <1>4, TallyEnds
<1>7. c[Len(rq)] = c[0] /\ d[Len(rs)] = d[0]
  BY <1>1, <1>5, <1>6 DEF CountedBy
<1>8. \A k \in 1..Len(rq) : DoneWeight[rq[k]] = 0
  BY <1>2, <1>3, <1>7, TallyNone
<1>9. \A k \in 1..Len(rs) : ListWeight[rs[k]] = 0
  BY <1>2, <1>4, <1>7, TallyNone
<1>10. \A k \in 1..Len(rs) : rs[k] \in Msg
  OBVIOUS
<1> QED
  BY <1>8, <1>9, <1>10, Weights

-----------------------------------------------------------------------------
(* What the client does with a part of the list                            *)

LEMMA AppendConcat ==
    ASSUME NEW u \in Seq(Nat)
    PROVE  u \o <<0>> = Append(u, 0)
<1>1. /\ u \o <<0>> \in Seq(Nat) /\ Append(u, 0) \in Seq(Nat)
      /\ Len(u) \in Nat
      /\ Len(u \o <<0>>) = Len(u) + 1 /\ Len(Append(u, 0)) = Len(u) + 1
  OBVIOUS
<1>2. ASSUME NEW k \in 1..(Len(u) + 1) PROVE (u \o <<0>>)[k] = Append(u, 0)[k]
  BY <1>2
<1> QED
  BY <1>1, <1>2

\* The requests for the entries behind start, and the directories made.
LEMMA RequestBatch ==
    ASSUME NEW list \in Seq(Source), NEW start \in Nat, req \in Seq(Nat),
           request_remote_pull_incremental_batch(list, start)
    PROVE  /\ requested \subseteq requested'
           /\ present \subseteq present'
           /\ \A path \in present' : path \in present \/ path \in Source \ Excluded
           /\ \A i \in DOMAIN list : i > start /\ list[i] \notin Excluded =>
                  IF IsDir(list[i]) THEN list[i] \in present'
                  ELSE i \in requested' \/ list[i] \in present \cap fresh
           /\ \E t \in Seq(Nat) :
                  /\ req' = Append(req \o t, 0)
                  /\ \A k \in 1..Len(t) : t[k] # 0 /\ t[k] \in requested'
                  /\ \A i \in requested' :
                         \/ i \in requested
                         \/ /\ i \in DOMAIN list /\ list[i] \notin Excluded
                            /\ \E k \in 1..Len(t) : t[k] = i
<1> DEFINE B == Batch(list, start)
           F == {i \in B : ~IsDir(list[i]) /\ needs_update(list[i])} \ requested
           t == Ascending(F)
<1>1. /\ present' = present \cup {list[i] : i \in {j \in B : IsDir(list[j])}}
      /\ requested' = requested \cup F
      /\ req' = req \o t \o <<0>>
  BY DEF request_remote_pull_incremental_batch
<1>2. /\ DOMAIN list = 1..Len(list) /\ Len(list) \in Nat
      /\ \A i \in B : i \in 1..Len(list) /\ list[i] \in Source /\ list[i] \notin Excluded
      /\ \A i \in DOMAIN list : i > start /\ list[i] \notin Excluded => i \in B
  BY DEF Batch, selected_remote_entry_indexes
<1> HIDE DEF B
<1>3. F \in SUBSET Nat /\ \A i \in F : i \in 1..Len(list)
  BY <1>2
<1>4. IsFiniteSet(F)
  <2>1. IsFiniteSet(1..Len(list))
    BY <1>2, FS_Interval
  <2> QED
    BY <1>3, <2>1, FS_Subset
<1>5. /\ t \in Seq(F) /\ Len(t) = Cardinality(F)
      /\ \A p \in F : \E k \in 1..Cardinality(F) : t[k] = p
  BY <1>3, <1>4, AscendingLists
<1>6. \A i \in F : i \in B /\ ~IsDir(list[i])
  OBVIOUS
<1>7. \A i \in B : ~IsDir(list[i]) => i \in requested \cup F \/ list[i] \in present \cap fresh
  BY DEF needs_update
<1> HIDE DEF t, F
<1>7a. t \in Seq(Nat)
  <2>1. Len(t) \in Nat /\ t \in [1..Len(t) -> F]
    BY <1>5
  <2>2. \A i \in F : i \in Nat
    BY <1>3
  <2>3. t \in [1..Len(t) -> Nat]
    BY <2>1, <2>2
  <2> QED
    BY <2>1, <2>3
<1>8. t \in Seq(Nat) /\ (\A k \in 1..Len(t) : t[k] \in F) /\ \A p \in F : \E k \in 1..Len(t) : t[k] = p
  BY <1>7a, <1>5
<1>9. req' = Append(req \o t, 0)
  <2>1. req \o t \in Seq(Nat)
    BY <1>8
  <2> QED
    BY <2>1, <1>1, AppendConcat
<1>10. \A k \in 1..Len(t) : t[k] # 0 /\ t[k] \in requested'
  BY <1>1, <1>3, <1>8
<1>11. \A i \in requested' :
           \/ i \in requested
           \/ /\ i \in DOMAIN list /\ list[i] \notin Excluded
              /\ \E k \in 1..Len(t) : t[k] = i
  BY <1>1, <1>2, <1>6, <1>8
<1>12. \A i \in DOMAIN list : i > start /\ list[i] \notin Excluded =>
           IF IsDir(list[i]) THEN list[i] \in present'
           ELSE i \in requested' \/ list[i] \in present \cap fresh
  BY <1>1, <1>2, <1>7
<1>13. \A path \in present' : path \in present \/ path \in Source \ Excluded
  BY <1>1, <1>2
<1>14. requested \subseteq requested' /\ present \subseteq present'
  BY <1>1
<1>15. \E u \in Seq(Nat) :
           /\ req' = Append(req \o u, 0)
           /\ \A k \in 1..Len(u) : u[k] # 0 /\ u[k] \in requested'
           /\ \A i \in requested' :
                  \/ i \in requested
                  \/ /\ i \in DOMAIN list /\ list[i] \notin Excluded
                     /\ \E k \in 1..Len(u) : u[k] = i
  <2> USE <1>7a
  <2> WITNESS t \in Seq(Nat)
  <2> QED
    BY <1>9, <1>10, <1>11
<1> QED
  BY <1>12, <1>13, <1>14, <1>15

-----------------------------------------------------------------------------
(* The invariant of the two lists                                          *)

Types ==
    /\ pc \in {"start", "loop", "ack1", "ack2", "stats", "ack3", "done", "failed"}
    /\ entries \in Seq(Source)
    /\ peerList \in Seq(Source)
    /\ req \in Seq(Nat)
    /\ resp \in Seq(Msg)
    /\ requested \subseteq DOMAIN entries
    /\ present \subseteq Source \cup Dest0
    /\ fresh \subseteq Source
    /\ expanded \subseteq DOMAIN Tree
    /\ IsFiniteSet(expanded)
    /\ eofSent \in BOOLEAN
    /\ peerDone \in Nat
    /\ peerPc \in {"serve", "ack1", "ack2", "ack3", "ack4", "end"}

\* The client has not read DONE yet.
Open == pc \in {"start", "loop"}

\* The first message is the list of the top; the requests of a part end with
\* DONE; the sender goes on only when it has finished all lists, and then it
\* waits for the client.
Phases ==
    /\ pc = "start" => /\ entries = << >> /\ req = << >>
                       /\ resp # << >> /\ Head(resp).type = "list"
    /\ pc = "loop" /\ req # << >> => req[Len(req)] = 0
    /\ Open /\ peerPc # "serve" => /\ peerPc = "ack1" /\ eofSent
                                   /\ peerDone = Lists /\ req = << >>

NumbersInv ==
    /\ Types
    /\ Begins(entries, peerList)
    /\ Open => Numbered(resp, entries, peerList) /\ Counted(req, resp, peerDone, Lists)
    /\ Phases

LEMMA ListsNat == ASSUME Types PROVE Lists \in Nat
BY FS_CardinalityType DEF Types, Lists

\* Reading the next message.
LEMMA ReadMessage ==
    ASSUME Types, Read
    PROVE  /\ resp # << >> /\ resp' = Tail(resp) /\ resp' \in Seq(Msg)
           /\ m = Head(resp) /\ m \in Msg
           /\ \A k \in 1..Len(resp') : resp'[k] = resp[k + 1]
           /\ Len(resp') = Len(resp) - 1 /\ Len(resp) \in Nat
           /\ UNCHANGED <<peerList, expanded, eofSent, peerDone, peerPc>>
           /\ UNCHANGED <<delete, trust_sender, collision_key>>
           /\ Lists' = Lists
BY DEF Types, Read, m, peerVars, Lists

\* The client gives up.
LEMMA RefuseNumbers ==
    ASSUME NumbersInv, Read, Refuse
    PROVE  NumbersInv'
<1>1. Types /\ Begins(entries, peerList)
  BY DEF NumbersInv
<1>2. /\ resp' \in Seq(Msg) /\ UNCHANGED <<peerList, expanded, eofSent, peerDone, peerPc>>
  BY <1>1, ReadMessage
<1>3. pc' = "failed" /\ UNCHANGED <<entries, requested, present, fresh, req>>
  BY DEF Refuse
<1>4. Types'
  BY <1>1, <1>2, <1>3 DEF Types
<1>5. Begins(entries, peerList)'
  BY <1>1, <1>2, <1>3 DEF Begins
<1>6. ~Open' /\ Phases'
  BY <1>3 DEF Open, Phases
<1> QED
  BY <1>4, <1>5, <1>6 DEF NumbersInv

\* A list that is accepted (the first, or one more) goes to the end.
LEMMA AcceptNumbers ==
    ASSUME NumbersInv, Open, Read, m.type = "list", pc' = "loop", UNCHANGED fresh,
           entries' = Extend(entries, m.batch),
           request_remote_pull_incremental_batch(entries', Len(entries))
    PROVE  NumbersInv'
<1>1. Types /\ Begins(entries, peerList) /\ Phases
      /\ Numbered(resp, entries, peerList) /\ Counted(req, resp, peerDone, Lists)
  BY DEF NumbersInv
<1>2. /\ resp # << >> /\ resp' = Tail(resp) /\ resp' \in Seq(Msg)
      /\ m = Head(resp) /\ m \in Msg
      /\ UNCHANGED <<peerList, expanded, eofSent, peerDone, peerPc>>
      /\ Lists' = Lists
  BY <1>1, ReadMessage
<1>3. entries' = entries \o sorted(m.batch) /\ sorted(m.batch) \in Seq(Source)
  BY <1>2, Weights DEF Extend, sorted
<1>4. /\ entries \in Seq(Source) /\ peerList \in Seq(Source) /\ req \in Seq(Nat)
      /\ resp \in Seq(Msg) /\ peerDone \in Nat
  BY <1>1 DEF Types
<1>5. entries' \in Seq(Source) /\ Len(entries) \in Nat /\ Len(entries) <= Len(entries')
  <2> DEFINE t == sorted(m.batch)
  <2>1. t \in Seq(Source) /\ entries' = entries \o t
    BY <1>3
  <2> HIDE DEF t
  <2> QED
    BY <2>1, <1>4
<1>6. /\ Numbered(Tail(resp), entries \o sorted(m.batch), peerList)
      /\ Begins(entries \o sorted(m.batch), peerList)
  BY <1>1, <1>2, <1>4, NumberedReadList
<1>7. Numbered(resp, entries, peerList)' /\ Begins(entries, peerList)'
  BY <1>2, <1>3, <1>6
<1> DEFINE e == entries'
<1>8. /\ requested \subseteq requested' /\ present \subseteq present'
      /\ \A path \in present' : path \in present \/ path \in Source \ Excluded
  BY <1>4, <1>5, RequestBatch
<1>9. PICK t \in Seq(Nat) :
          /\ req' = Append(req \o t, 0)
          /\ \A k \in 1..Len(t) : t[k] # 0 /\ t[k] \in requested'
          /\ \A i \in requested' :
                 \/ i \in requested
                 \/ /\ i \in DOMAIN entries' /\ entries'[i] \notin Excluded
                    /\ \E k \in 1..Len(t) : t[k] = i
  BY <1>4, <1>5, RequestBatch
<1>10. req' \in Seq(Nat) /\ req'[Len(req')] = 0
  <2> DEFINE u == req \o t
  <2>1. u \in Seq(Nat) /\ req' = Append(u, 0)
    BY <1>4, <1>9
  <2> HIDE DEF u
  <2> QED
    BY <2>1
<1>11. requested' \subseteq DOMAIN entries'
  <2>1. DOMAIN entries \subseteq DOMAIN entries'
    BY <1>4, <1>5
  <2> QED
    BY <2>1, <1>1, <1>9 DEF Types
<1>12. Types'
  BY <1>1, <1>2, <1>5, <1>8, <1>10, <1>11 DEF Types
<1>13. Counted(req, resp, peerDone, Lists)'
  <2>1. Lists \in Nat
    BY <1>1, ListsNat
  <2>2. Counted(Append(req \o t, 0), Tail(resp), peerDone, Lists)
    BY <2>1, <1>1, <1>2, <1>4, <1>9, CountedRead
  <2> QED
    BY <2>2, <1>2, <1>9
<1>14. peerPc = "serve"
  <2>1. SUFFICES ASSUME peerPc # "serve" PROVE FALSE
    OBVIOUS
  <2>2. peerDone = Lists
    BY <2>1, <1>1 DEF Phases
  <2>3. Lists \in Nat /\ Counted(req, resp, Lists, Lists)
    BY <2>2, <1>1, ListsNat
  <2>4. \A k \in 1..Len(resp) : resp[k].type # "list"
    BY <2>3, <1>4, CountedAll
  <2> QED
    BY <2>4, <1>2, <1>4
<1>15. Phases'
  BY <1>2, <1>10, <1>14 DEF Phases
<1> QED
  BY <1>7, <1>12, <1>13, <1>15 DEF NumbersInv

LEMMA StartNumbers ==
    ASSUME NumbersInv, execute_remote_pull_protocol31_incremental_with_entries
    PROVE  NumbersInv'
<1>1. pc = "start" /\ Read /\ entries = << >> /\ Head(resp).type = "list"
  BY DEF execute_remote_pull_protocol31_incremental_with_entries, NumbersInv, Phases
<1>2. CASE Acceptable(<< >>, m.batch)
  <2>1. /\ pc' = "loop" /\ entries' = Extend(<< >>, m.batch)
        /\ request_remote_pull_incremental_batch(entries', 0) /\ UNCHANGED fresh
    BY <1>2 DEF execute_remote_pull_protocol31_incremental_with_entries
  <2>2. Len(entries) = 0 /\ m.type = "list" /\ Open
    BY <1>1 DEF m, Open
  <2>3. /\ entries' = Extend(entries, m.batch)
        /\ request_remote_pull_incremental_batch(entries', Len(entries))
    BY <1>1, <2>1, <2>2
  <2> QED
    BY <1>1, <2>1, <2>2, <2>3, AcceptNumbers
<1>3. CASE ~Acceptable(<< >>, m.batch)
  <2>1. Refuse
    BY <1>3 DEF execute_remote_pull_protocol31_incremental_with_entries
  <2> QED
    BY <2>1, <1>1, RefuseNumbers
<1> QED
  BY <1>2, <1>3

LEMMA ExtraListNumbers ==
    ASSUME NumbersInv, ReadExtraFileList
    PROVE  NumbersInv'
<1>1. pc = "loop" /\ Read /\ m.type = "list" /\ Open
  BY DEF ReadExtraFileList, Open
<1>2. CASE entries' = Extend(entries, m.batch)
           /\ request_remote_pull_incremental_batch(entries', Len(entries))
           /\ UNCHANGED <<pc, fresh>>
  BY <1>1, <1>2, AcceptNumbers
<1>3. CASE Refuse
  BY <1>1, <1>3, RefuseNumbers
<1> QED
  BY <1>2, <1>3 DEF ReadExtraFileList

\* The client reads a message that is not a list and stays in its loop.
LEMMA OtherNumbers ==
    ASSUME NumbersInv, pc = "loop", Read, m.type # "list",
           UNCHANGED <<pc, entries, requested, req>>,
           present' \subseteq Source \cup Dest0, fresh' \subseteq Source
    PROVE  NumbersInv'
<1>1. /\ Types /\ Begins(entries, peerList) /\ Phases /\ Open
      /\ Numbered(resp, entries, peerList) /\ Counted(req, resp, peerDone, Lists)
  BY DEF NumbersInv, Open
<1>2. /\ resp # << >> /\ resp' = Tail(resp) /\ resp' \in Seq(Msg)
      /\ m = Head(resp) /\ m \in Msg
      /\ UNCHANGED <<peerList, expanded, eofSent, peerDone, peerPc>>
      /\ Lists' = Lists
  BY <1>1, ReadMessage
<1>3. /\ entries \in Seq(Source) /\ req \in Seq(Nat) /\ resp \in Seq(Msg) /\ Lists \in Nat
  BY <1>1, ListsNat DEF Types
<1>4. Numbered(Tail(resp), entries, peerList)
  BY <1>1, <1>2, <1>3, NumberedRead
<1>5. Counted(req, Tail(resp), peerDone, Lists)
  BY <1>1, <1>2, <1>3, CountedRead
<1>6. Numbered(resp, entries, peerList)' /\ Counted(req, resp, peerDone, Lists)'
  BY <1>2, <1>4, <1>5
<1>7. Types'
  BY <1>1, <1>2 DEF Types
<1>8. Begins(entries, peerList)'
  BY <1>1, <1>2 DEF Begins
<1>9. Phases'
  BY <1>1, <1>2 DEF Phases, Open
<1> QED
  BY <1>6, <1>7, <1>8, <1>9 DEF NumbersInv

LEMMA EofNumbers ==
    ASSUME NumbersInv, ReadFileListEof
    PROVE  NumbersInv'
<1>1. present \subseteq Source \cup Dest0 /\ fresh \subseteq Source
  BY DEF NumbersInv, Types
<1> QED
  BY <1>1, OtherNumbers DEF ReadFileListEof

LEMMA FileNumbers ==
    ASSUME NumbersInv, apply_remote_sender_file_response_protocol31
    PROVE  NumbersInv'
<1>1. pc = "loop" /\ Read /\ m.type # "list" /\ Types
  BY DEF apply_remote_sender_file_response_protocol31, NumbersInv
<1>2. CASE m.index \in DOMAIN entries
  <2>1. /\ present' = present \cup {entries[m.index]}
        /\ fresh' \subseteq fresh \cup {entries[m.index]}
        /\ UNCHANGED <<pc, entries, requested, req>>
    BY <1>2 DEF apply_remote_sender_file_response_protocol31
  <2>2. entries[m.index] \in Source
    BY <1>1, <1>2 DEF Types
  <2>3. present' \subseteq Source \cup Dest0 /\ fresh' \subseteq Source
    BY <2>1, <2>2, <1>1 DEF Types
  <2> QED
    BY <2>1, <2>3, <1>1, OtherNumbers
<1>3. CASE m.index \notin DOMAIN entries
  <2>1. Refuse
    BY <1>3 DEF apply_remote_sender_file_response_protocol31
  <2> QED
    BY <2>1, <1>1, RefuseNumbers
<1> QED
  BY <1>2, <1>3

\* DONE is read, or a message of the closing exchange.
LEMMA ClosedNumbers ==
    ASSUME NumbersInv, Read, pc' \in {"ack1", "ack2", "stats", "ack3", "done"},
           UNCHANGED <<entries, requested, fresh>>, present' \subseteq present,
           req' = Append(req, DONE) \/ req' = req
    PROVE  NumbersInv'
<1>1. Types /\ Begins(entries, peerList)
  BY DEF NumbersInv
<1>2. /\ resp' \in Seq(Msg) /\ UNCHANGED <<peerList, expanded, eofSent, peerDone, peerPc>>
  BY <1>1, ReadMessage
<1>3. req' \in Seq(Nat)
  <2>1. req \in Seq(Nat) /\ DONE \in Nat
    BY <1>1 DEF Types, DONE
  <2>2. Append(req, DONE) \in Seq(Nat)
    BY <2>1
  <2> QED
    BY <2>1, <2>2
<1>4. Types'
  BY <1>1, <1>2, <1>3 DEF Types
<1>5. Begins(entries, peerList)'
  BY <1>1, <1>2 DEF Begins
<1>6. ~Open' /\ Phases'
  BY DEF Open, Phases
<1> QED
  BY <1>4, <1>5, <1>6 DEF NumbersInv

LEMMA DoneNumbers ==
    ASSUME NumbersInv, ReadDone
    PROVE  NumbersInv'
<1>1. present' \subseteq present
  BY DEF ReadDone, delete_local_extras
<1> QED
  BY <1>1, ClosedNumbers DEF ReadDone

LEMMA ClosingNumbers ==
    ASSUME NumbersInv, ReadClosing
    PROVE  NumbersInv'
<1>1. Read
  BY DEF ReadClosing
<1>2. CASE Refuse
  BY <1>1, <1>2, RefuseNumbers
<1>3. CASE /\ pc' \in {"ack1", "ack2", "stats", "ack3", "done"}
           /\ req' = Append(req, DONE) \/ req' = req
           /\ UNCHANGED <<entries, requested, present, fresh>>
  BY <1>1, <1>3, ClosedNumbers
<1> QED
  BY <1>2, <1>3 DEF ReadClosing

\* The client does not move while the sender writes.
LEMMA SenderLeaves ==
    ASSUME UNCHANGED clientVars
    PROVE  UNCHANGED <<delete, trust_sender, collision_key, pc, entries, requested, present, fresh>>
BY DEF clientVars

LEMMA SendListNumbers ==
    ASSUME NumbersInv, SendExtraList
    PROVE  NumbersInv'
<1>1. /\ Types /\ Begins(entries, peerList) /\ Phases
      /\ Open => Numbered(resp, entries, peerList) /\ Counted(req, resp, peerDone, Lists)
  BY DEF NumbersInv
<1>2. PICK i \in Pending :
          /\ peerList[i] \notin expanded
          /\ Tell([type |-> "list", parent |-> i, batch |-> Tree[peerList[i]]])
          /\ peerList' = peerList \o sort_remote_entries_for_sender_indexes(Tree[peerList[i]])
          /\ expanded' = expanded \cup {peerList[i]}
  BY DEF SendExtraList
<1>3. /\ UNCHANGED <<req, eofSent, peerDone, peerPc>> /\ peerPc = "serve"
      /\ UNCHANGED <<pc, entries, requested, present, fresh>>
  BY SenderLeaves DEF SendExtraList
<1> DEFINE dir == peerList[i]
           x == [type |-> "list", parent |-> i, batch |-> Tree[dir]]
           t == sorted(x.batch)
<1>4. /\ entries \in Seq(Source) /\ peerList \in Seq(Source) /\ req \in Seq(Nat)
      /\ resp \in Seq(Msg) /\ IsFiniteSet(expanded) /\ Lists \in Nat
  BY <1>1, ListsNat DEF Types
<1>5. i \in Nat /\ dir \in DOMAIN Tree
  BY <1>4 DEF Pending, IsDir
<1>6. x \in ListMsg /\ x.batch = Tree[dir]
  BY <1>5 DEF ListMsg, Source
<1>7. x \in Msg /\ x.type = "list"
  BY <1>6, MsgKinds
<1>8. resp' = Append(resp, x) /\ peerList' = peerList \o t /\ expanded' = expanded \cup {dir}
  BY <1>2, <1>6 DEF Tell, sorted
<1>9. t \in Seq(Source)
  BY <1>7, Weights
<1> HIDE DEF x, t, dir
<1>10. resp' \in Seq(Msg) /\ peerList' \in Seq(Source)
  BY <1>4, <1>7, <1>8, <1>9
<1>11. IsFiniteSet(expanded') /\ Lists' = Lists + 1
  <2>1. dir \notin expanded
    BY <1>2 DEF dir
  <2> QED
    BY <2>1, <1>4, <1>8, FS_AddElement DEF Lists
<1>12. Types'
  BY <1>1, <1>3, <1>5, <1>8, <1>10, <1>11 DEF Types
<1>13. Begins(entries, peerList)'
  <2>1. /\ Len(entries) \in Nat /\ Len(peerList) \in Nat /\ Len(peerList') >= Len(peerList)
        /\ \A k \in 1..Len(peerList) : peerList'[k] = peerList[k]
    BY <1>4, <1>8, <1>9
  <2> QED
    BY <2>1, <1>1, <1>3, <1>10 DEF Begins
<1>14. ASSUME Open' PROVE Numbered(resp, entries, peerList)' /\ Counted(req, resp, peerDone, Lists)'
  <2>1. Numbered(resp, entries, peerList) /\ Counted(req, resp, peerDone, Lists)
    BY <1>1, <1>3, <1>14 DEF Open
  <2>2. Numbered(Append(resp, x), entries, peerList \o t)
    BY <2>1, <1>4, <1>7, NumberedWriteList DEF t
  <2>3. Counted(req, Append(resp, x), peerDone, Lists + 1)
    BY <2>1, <1>4, <1>7, CountedWrite
  <2> QED
    BY <2>2, <2>3, <1>3, <1>8, <1>11
<1>15. Phases'
  <2>1. pc = "start" => resp' # << >> /\ Head(resp') = Head(resp)
    BY <1>1, <1>4, <1>7, <1>8 DEF Phases
  <2> QED
    BY <2>1, <1>1, <1>3 DEF Phases, Open
<1> QED
  BY <1>12, <1>13, <1>14, <1>15 DEF NumbersInv

\* The sender writes a short message, or none, and reads at most one element.
LEMMA SenderNumbers ==
    ASSUME NumbersInv, UNCHANGED clientVars, UNCHANGED <<peerList, expanded>>,
           NEW x \in Msg, x.type # "list", resp' = Append(resp, x) \/ resp' = resp,
           eofSent' \in BOOLEAN, eofSent => eofSent',
           peerDone' \in Nat,
           \/ req' = req /\ peerDone' = peerDone
           \/ /\ req # << >> /\ req' = Tail(req)
              /\ peerDone' = IF Head(req) = 0 THEN peerDone + 1 ELSE peerDone,
           peerPc = "serve",
           peerPc' = "serve" \/ (peerPc' = "ack1" /\ eofSent' /\ peerDone' = Lists)
    PROVE  NumbersInv'
<1>1. /\ Types /\ Begins(entries, peerList) /\ Phases
      /\ Open => Numbered(resp, entries, peerList) /\ Counted(req, resp, peerDone, Lists)
  BY DEF NumbersInv
<1>2. UNCHANGED <<pc, entries, requested, present, fresh>> /\ Lists' = Lists
  BY SenderLeaves DEF Lists
<1>3. /\ entries \in Seq(Source) /\ peerList \in Seq(Source) /\ req \in Seq(Nat)
      /\ resp \in Seq(Msg) /\ Lists \in Nat /\ peerDone \in Nat
  BY <1>1, ListsNat DEF Types
<1>4. req' \in Seq(Nat) /\ resp' \in Seq(Msg)
  <2>1. req # << >> => Tail(req) \in Seq(Nat)
    BY <1>3
  <2>2. Append(resp, x) \in Seq(Msg)
    BY <1>3
  <2> QED
    BY <2>1, <2>2, <1>3
<1>5. Types'
  BY <1>1, <1>2, <1>4 DEF Types
<1>6. Begins(entries, peerList)'
  BY <1>1, <1>2 DEF Begins
<1>7. ASSUME Open' PROVE Numbered(resp, entries, peerList)' /\ Counted(req, resp, peerDone, Lists)'
  <2>1. Numbered(resp, entries, peerList) /\ Counted(req, resp, peerDone, Lists)
    BY <1>1, <1>2, <1>7 DEF Open
  <2>2. Numbered(Append(resp, x), entries, peerList) /\ Counted(req, Append(resp, x), peerDone, Lists)
    BY <2>1, <1>3, NumberedWrite, CountedWrite
  <2>3. Numbered(resp', entries, peerList) /\ Counted(req, resp', peerDone, Lists)
    BY <2>1, <2>2
  <2>4. Counted(req', resp', peerDone', Lists)
    <3>1. CASE req' = req /\ peerDone' = peerDone
      BY <3>1, <2>3
    <3>2. CASE /\ req # << >> /\ req' = Tail(req)
               /\ peerDone' = IF Head(req) = 0 THEN peerDone + 1 ELSE peerDone
      BY <3>2, <2>3, <1>3, <1>4, CountedAnswer
    <3> QED
      BY <3>1, <3>2
  <2> QED
    BY <2>3, <2>4, <1>2
<1>8. pc' = "start" => /\ entries' = << >> /\ req' = << >>
                       /\ resp' # << >> /\ Head(resp').type = "list"
  <2> SUFFICES ASSUME pc' = "start" PROVE /\ entries' = << >> /\ req' = << >>
                                          /\ resp' # << >> /\ Head(resp').type = "list"
    OBVIOUS
  <2>1. pc = "start" /\ entries = << >> /\ req = << >> /\ resp # << >> /\ Head(resp).type = "list"
    BY <1>1, <1>2 DEF Phases
  <2>2. resp' # << >> /\ Head(resp') = Head(resp)
    BY <2>1, <1>3
  <2> QED
    BY <2>1, <2>2, <1>2
<1>9. pc' = "loop" /\ req' # << >> => req'[Len(req')] = 0
  <2> SUFFICES ASSUME pc' = "loop", req' # << >> PROVE req'[Len(req')] = 0
    OBVIOUS
  <2>1. req # << >>
    BY <1>3
  <2>2. req[Len(req)] = 0
    BY <2>1, <1>1, <1>2 DEF Phases
  <2>3. CASE req' = req
    BY <2>2, <2>3
  <2>4. CASE req' = Tail(req)
    <3>1. Len(req') = Len(req) - 1 /\ Len(req) \in Nat /\ Len(req') >= 1
      BY <2>1, <2>4, <1>3
    <3>2. req'[Len(req')] = req[Len(req)]
      BY <3>1, <2>1, <2>4, <1>3
    <3> QED
      BY <3>2, <2>2
  <2> QED
    BY <2>3, <2>4
<1>10. Open' /\ peerPc' # "serve" => /\ peerPc' = "ack1" /\ eofSent'
                                     /\ peerDone' = Lists' /\ req' = << >>
  <2> SUFFICES ASSUME Open', peerPc' # "serve"
               PROVE  peerPc' = "ack1" /\ eofSent' /\ peerDone' = Lists' /\ req' = << >>
    OBVIOUS
  <2>1. Counted(req', resp', Lists, Lists)
    BY <1>2, <1>7
  <2>2. \A k \in 1..Len(req') : req'[k] # 0
    BY <2>1, <1>3, <1>4, CountedAll
  <2>3. req' = << >>
    <3>1. CASE pc' = "start"
      BY <3>1, <1>8
    <3>2. CASE pc' = "loop"
      <4>1. req' # << >> => Len(req') \in 1..Len(req')
        BY <1>4
      <4> QED
        BY <4>1, <3>2, <2>2, <1>9
    <3> QED
      BY <3>1, <3>2 DEF Open
  <2> QED
    BY <2>3, <1>2
<1>11. Phases'
  BY <1>8, <1>9, <1>10 DEF Phases, Open
<1> QED
  BY <1>5, <1>6, <1>7, <1>11 DEF NumbersInv

LEMMA SendEofNumbers ==
    ASSUME NumbersInv, SendListEof
    PROVE  NumbersInv'
<1>1. peerDone \in Nat
  BY DEF NumbersInv, Types
<1>2. EofMsg \in Msg /\ EofMsg.type # "list"
  BY MsgKinds
<1>3. resp' = Append(resp, EofMsg)
  BY DEF SendListEof, Tell, EofMsg
<1> QED
  BY <1>1, <1>2, <1>3, SenderNumbers DEF SendListEof

LEMMA AnswerNumbers ==
    ASSUME NumbersInv, Answer
    PROVE  NumbersInv'
<1> DEFINE x == [type |-> "file", index |-> Head(req)]
<1>1. peerDone \in Nat /\ req \in Seq(Nat) /\ eofSent \in BOOLEAN
  BY DEF NumbersInv, Types
<1>2. req # << >> /\ Head(req) # 0 /\ req' = Tail(req) /\ resp' = Append(resp, x)
  BY DEF Answer, Tell, DONE
<1>3. x \in FileMsg
  BY <1>1, <1>2 DEF FileMsg
<1>4. x \in Msg /\ x.type # "list"
  BY <1>3, MsgKinds
<1> HIDE DEF x
<1>5. /\ UNCHANGED clientVars /\ UNCHANGED <<peerList, expanded>> /\ eofSent' = eofSent
      /\ peerDone' = peerDone /\ peerPc = "serve" /\ peerPc' = "serve"
  BY DEF Answer
<1> QED
  BY <1>1, <1>2, <1>4, <1>5, SenderNumbers

LEMMA FinishNumbers ==
    ASSUME NumbersInv, FinishList
    PROVE  NumbersInv'
<1>1. peerDone \in Nat /\ req \in Seq(Nat) /\ eofSent \in BOOLEAN
  BY DEF NumbersInv, Types
<1>2. /\ req # << >> /\ Head(req) = 0 /\ req' = Tail(req) /\ peerDone' = peerDone + 1
      /\ UNCHANGED clientVars /\ UNCHANGED <<peerList, expanded>> /\ eofSent' = eofSent
      /\ peerPc = "serve"
  BY DEF FinishList, DONE
<1>3. resp' = Append(resp, DoneMsg) \/ resp' = resp
  BY DEF FinishList, Tell, DoneMsg
<1>4. peerPc' = "serve" \/ (peerPc' = "ack1" /\ eofSent' /\ peerDone' = Lists)
  BY <1>2 DEF FinishList
<1>5. DoneMsg \in Msg /\ DoneMsg.type # "list"
  BY MsgKinds
<1> QED
  BY <1>1, <1>2, <1>3, <1>4, <1>5, SenderNumbers

LEMMA LateNumbers ==
    ASSUME NumbersInv, FinishLate
    PROVE  NumbersInv'
<1>1. peerDone \in Nat /\ eofSent \in BOOLEAN
  BY DEF NumbersInv, Types
<1>2. /\ UNCHANGED <<req, peerDone>> /\ eofSent /\ peerDone = Lists
      /\ UNCHANGED clientVars /\ UNCHANGED <<peerList, expanded>> /\ eofSent' = eofSent
      /\ peerPc = "serve" /\ peerPc' = "ack1"
  BY DEF FinishLate
<1>3. resp' = Append(resp, DoneMsg) \/ resp' = resp
  BY DEF FinishLate, Tell, DoneMsg
<1>5. DoneMsg \in Msg /\ DoneMsg.type # "list"
  BY MsgKinds
<1> QED
  BY <1>1, <1>2, <1>3, <1>5, SenderNumbers

\* The sender closes only with a client that has read DONE or given up.
LEMMA PeerClosingNumbers ==
    ASSUME NumbersInv, PeerClosing
    PROVE  NumbersInv' /\ ~Open
<1>1. Types /\ Begins(entries, peerList) /\ Phases
  BY DEF NumbersInv
<1>2. /\ peerPc \in {"ack1", "ack2", "ack3", "ack4"} /\ req # << >> /\ req' = Tail(req)
      /\ UNCHANGED <<pc, entries, requested, present, fresh>>
      /\ UNCHANGED <<peerList, expanded, eofSent, peerDone>>
  BY SenderLeaves DEF PeerClosing
<1>3. ~Open
  BY <1>1, <1>2 DEF Phases
<1>4. resp' \in Seq(Msg)
  <2>1. resp \in Seq(Msg) /\ DoneMsg \in Msg /\ StatsMsg \in Msg
    BY <1>1, MsgKinds DEF Types
  <2>2. /\ resp \o <<DoneMsg>> \in Seq(Msg)
        /\ resp \o <<DoneMsg, StatsMsg>> \in Seq(Msg)
        /\ resp \o << >> \in Seq(Msg)
    BY <2>1
  <2>3. \/ resp' = resp \o <<DoneMsg>>
        \/ resp' = resp \o <<DoneMsg, StatsMsg>>
        \/ resp' = resp \o << >>
    BY <1>2 DEF PeerClosing, DoneMsg, StatsMsg
  <2> QED
    BY <2>2, <2>3
<1>5. peerPc' \in {"ack2", "ack3", "ack4", "end"}
  BY <1>2 DEF PeerClosing
<1>6. req' \in Seq(Nat)
  BY <1>1, <1>2 DEF Types
<1>7. Types'
  BY <1>1, <1>2, <1>4, <1>5, <1>6 DEF Types
<1>8. Begins(entries, peerList)'
  BY <1>1, <1>2 DEF Begins
<1>9. ~Open' /\ Phases'
  BY <1>2, <1>3 DEF Open, Phases
<1> QED
  BY <1>3, <1>7, <1>8, <1>9 DEF NumbersInv

LEMMA InitNumbers ==
    ASSUME Init
    PROVE  NumbersInv
<1> DEFINE x == [type |-> "list", parent |-> 0, batch |-> Tree[Top]]
           t == sorted(x.batch)
<1>1. /\ pc = "start" /\ entries = << >> /\ requested = {} /\ present = Dest0 /\ fresh = Current
      /\ req = << >> /\ resp = <<x>> /\ expanded = {Top} /\ eofSent = FALSE /\ peerDone = 0
      /\ peerPc = "serve"
  BY DEF Init
<1>2. x \in ListMsg /\ x.batch = Tree[Top]
  BY TreeAssumption DEF ListMsg, Source
<1>3. x \in Msg /\ x.type = "list"
  BY <1>2, MsgKinds
<1>4. t \in Seq(Source) /\ SizeWeight[x] = Len(t) /\ ListWeight[x] = 1 /\ Len(t) \in Nat
  BY <1>3, Weights
<1>5. peerList = t
  BY <1>2 DEF Init, sorted
<1>6. t = sorted(x.batch)
  OBVIOUS
<1> HIDE DEF x, t
<1>7. IsFiniteSet(expanded) /\ Lists = 1
  BY <1>1, FS_Singleton DEF Lists
<1>8. Types
  <2>1. << >> \in Seq(Source) /\ << >> \in Seq(Nat) /\ <<x>> \in Seq(Msg)
    BY <1>3
  <2> QED
    BY <2>1, <1>1, <1>4, <1>5, <1>7, TreeAssumption, DestAssumption DEF Types
<1>9. Begins(entries, peerList)
  BY <1>1, <1>4, <1>5 DEF Begins
<1>10. Len(resp) = 1 /\ resp[1] = x /\ Len(entries) = 0 /\ Len(req) = 0
  BY <1>1
<1>11. Numbered(resp, entries, peerList)
  <2> DEFINE l == [k \in 0..1 |-> IF k = 0 THEN 0 ELSE Len(t)]
  <2>1. l[0] = 0 /\ l[1] = Len(t) /\ l \in [0..1 -> Nat]
    BY <1>4
  <2> HIDE DEF l
  <2>2. Tally(resp, SizeWeight, l)
    BY <2>1, <1>4, <1>10 DEF Tally
  <2>3. \A k \in 1..Len(resp) : \A j \in 1..Len(sorted(resp[k].batch)) :
            peerList[l[k - 1] + j] = sorted(resp[k].batch)[j]
    <3> SUFFICES ASSUME NEW j \in 1..Len(t) PROVE peerList[l[1 - 1] + j] = t[j]
      BY <1>6, <1>10
    <3>1. l[1 - 1] + j = j
      BY <2>1, <1>4
    <3> QED
      BY <3>1, <1>5
  <2>4. NumberedBy(resp, entries, peerList, l)
    BY <2>1, <2>2, <2>3, <1>5, <1>10 DEF NumberedBy
  <2> QED
    BY <2>4 DEF Numbered
<1>12. Counted(req, resp, peerDone, Lists)
  <2> DEFINE c == [k \in 0..0 |-> 0]
             d == [k \in 0..1 |-> k]
  <2>1. c[0] = 0 /\ c \in [0..0 -> Nat] /\ d[0] = 0 /\ d[1] = 1 /\ d \in [0..1 -> Nat]
    OBVIOUS
  <2> HIDE DEF c, d
  <2>2. Tally(req, DoneWeight, c)
    BY <2>1, <1>10 DEF Tally
  <2>3. Tally(resp, ListWeight, d)
    BY <2>1, <1>4, <1>10 DEF Tally
  <2>4. CountedBy(req, resp, peerDone, Lists, c, d)
    BY <2>1, <2>2, <2>3, <1>1, <1>7, <1>10 DEF CountedBy
  <2> QED
    BY <2>4 DEF Counted
<1>13. Phases
  BY <1>1, <1>3 DEF Phases
<1> QED
  BY <1>8, <1>9, <1>11, <1>12, <1>13 DEF NumbersInv

LEMMA NextNumbers ==
    ASSUME NumbersInv, [Next]_vars
    PROVE  NumbersInv'
<1>1. CASE Client
  BY <1>1, StartNumbers, ExtraListNumbers, EofNumbers, FileNumbers, DoneNumbers, ClosingNumbers
     DEF Client
<1>2. CASE Sender
  BY <1>2, SendListNumbers, SendEofNumbers, AnswerNumbers, FinishNumbers, LateNumbers,
     PeerClosingNumbers DEF Sender
<1>3. CASE UNCHANGED vars
  BY <1>3 DEF vars, NumbersInv, Types, Begins, Open, Numbered, NumberedBy, Counted, CountedBy,
              Phases, Lists
<1> QED
  BY <1>1, <1>2, <1>3 DEF Next

LEMMA NumbersFollow ==
    ASSUME NumbersInv
    PROVE  NumbersSound
<1>1. Types /\ Begins(entries, peerList)
  BY DEF NumbersInv
<1>2. TypeOK
  BY <1>1 DEF Types, TypeOK, ToSet
<1>3. entries \in Seq(Source) /\ peerList \in Seq(Source)
  BY <1>1 DEF Types
<1>4. SameNumbers
  BY <1>1, <1>3 DEF SameNumbers, IsPrefix, Begins
<1> QED
  BY <1>2, <1>4 DEF NumbersSound

-----------------------------------------------------------------------------
(* The invariant of the destination                                        *)

\* The sender has listed what it says it has, and everything before the mark.
Told ==
    /\ Top \in expanded
    /\ \A d \in expanded : Tree[d] \subseteq ToSet(peerList)
    /\ eofSent => AllSent

\* A selected directory is there; a selected file is there with its contents,
\* or it has been asked for and the request or the answer is on its way.
Asked ==
    /\ \A i \in requested :
           /\ entries[i] \notin Excluded
           /\ \/ \E k \in 1..Len(req) : req[k] = i
              \/ \E k \in 1..Len(resp) : resp[k].type = "file" /\ resp[k].index = i
              \/ entries[i] \in present \cap fresh
    /\ \A i \in DOMAIN entries : entries[i] \notin Excluded =>
           IF IsDir(entries[i]) THEN entries[i] \in present
           ELSE i \in requested \/ entries[i] \in present \cap fresh
    /\ \A k \in 1..Len(resp) : resp[k].type = "file" => resp[k].index \in requested
    /\ \A k \in 1..Len(req) : req[k] # 0 => req[k] \in requested

\* Nothing has been deleted, and only selected paths have been added.
Holding ==
    /\ Dest0 \subseteq present
    /\ \A path \in present : path \in Dest0 \/ path \in Source \ Excluded

\* DONE is sent once, as the last message.
Dones ==
    IF peerPc = "serve" THEN \A k \in 1..Len(resp) : resp[k].type # "done"
    ELSE \A k \in 1..Len(resp) : resp[k].type = "done" => k = Len(resp)

\* What Mirrors says of a finished pull.
Mirrored ==
    /\ present = (Source \ Excluded) \cup (IF delete THEN Spared ELSE Dest0)
    /\ \A path \in Source \ (Excluded \cup DOMAIN Tree) : path \in fresh

PullInv ==
    /\ NumbersInv
    /\ Told
    /\ Open => Asked /\ Holding /\ Dones
    /\ pc \in {"ack1", "ack2", "stats", "ack3", "done"} => Mirrored
    /\ SourceKept

\* The client gives up.
LEMMA RefusePull ==
    ASSUME PullInv, Read, Refuse
    PROVE  PullInv'
<1>1. NumbersInv /\ Types
  BY DEF PullInv, NumbersInv
<1>2. NumbersInv'
  BY <1>1, RefuseNumbers
<1>3. UNCHANGED <<peerList, expanded, eofSent>>
  BY <1>1, ReadMessage
<1>4. pc' = "failed" /\ present' = present
  BY DEF Refuse
<1>5. Told'
  BY <1>3 DEF PullInv, Told, AllSent, Pending
<1>6. SourceKept'
  BY <1>4 DEF PullInv, SourceKept
<1>7. ~Open'
  BY <1>4 DEF Open
<1> QED
  BY <1>2, <1>4, <1>5, <1>6, <1>7 DEF PullInv

\* Reading leaves DONE where it is.
LEMMA ReadDones ==
    ASSUME Types, Dones, Read
    PROVE  Dones'
<1>1. /\ \A k \in 1..Len(resp') : resp'[k] = resp[k + 1]
      /\ Len(resp') = Len(resp) - 1 /\ Len(resp) \in Nat /\ peerPc' = peerPc
  BY ReadMessage
<1>2. ASSUME NEW k \in 1..Len(resp') PROVE k + 1 \in 1..Len(resp) /\ resp'[k] = resp[k + 1]
  BY <1>1
<1>3. CASE peerPc = "serve"
  BY <1>1, <1>2, <1>3 DEF Dones
<1>4. CASE peerPc # "serve"
  <2>1. ASSUME NEW k \in 1..Len(resp'), resp'[k].type = "done" PROVE k = Len(resp')
    <3>1. k + 1 = Len(resp)
      BY <2>1, <1>2, <1>4 DEF Dones
    <3> QED
      BY <3>1, <1>1
  <2> QED
    BY <2>1, <1>1, <1>4 DEF Dones
<1> QED
  BY <1>3, <1>4

\* A list is accepted: what it adds is made, current, or asked for.
LEMMA AcceptPull ==
    ASSUME PullInv, Open, Read, m.type = "list", pc' = "loop", UNCHANGED fresh,
           entries' = Extend(entries, m.batch),
           request_remote_pull_incremental_batch(entries', Len(entries))
    PROVE  PullInv'
<1>1. NumbersInv /\ Types /\ Told /\ Asked /\ Holding /\ Dones
  BY DEF PullInv, NumbersInv
<1>2. NumbersInv' /\ Types'
  BY <1>1, AcceptNumbers DEF NumbersInv
<1>3. /\ resp # << >> /\ resp' = Tail(resp) /\ m = Head(resp) /\ m \in Msg
      /\ \A k \in 1..Len(resp') : resp'[k] = resp[k + 1]
      /\ Len(resp') = Len(resp) - 1 /\ Len(resp) \in Nat
      /\ UNCHANGED <<peerList, expanded, eofSent, peerDone, peerPc>>
  BY <1>1, ReadMessage
<1>4. /\ entries \in Seq(Source) /\ req \in Seq(Nat) /\ resp \in Seq(Msg)
      /\ entries' \in Seq(Source) /\ requested \subseteq DOMAIN entries
  BY <1>1, <1>2 DEF Types
<1>5. /\ Len(entries) \in Nat /\ Len(entries) <= Len(entries')
      /\ \A i \in 1..Len(entries) : entries'[i] = entries[i]
  <2> DEFINE t == sorted(m.batch)
  <2>1. t \in Seq(Source) /\ entries' = entries \o t
    BY <1>3, Weights DEF Extend, sorted
  <2> HIDE DEF t
  <2> QED
    BY <2>1, <1>4
<1>6. /\ requested \subseteq requested' /\ present \subseteq present'
      /\ \A path \in present' : path \in present \/ path \in Source \ Excluded
      /\ \A i \in DOMAIN entries' : i > Len(entries) /\ entries'[i] \notin Excluded =>
             IF IsDir(entries'[i]) THEN entries'[i] \in present'
             ELSE i \in requested' \/ entries'[i] \in present \cap fresh
  BY <1>4, <1>5, RequestBatch
<1>7. PICK t \in Seq(Nat) :
          /\ req' = Append(req \o t, 0)
          /\ \A k \in 1..Len(t) : t[k] # 0 /\ t[k] \in requested'
          /\ \A i \in requested' :
                 \/ i \in requested
                 \/ /\ i \in DOMAIN entries' /\ entries'[i] \notin Excluded
                    /\ \E k \in 1..Len(t) : t[k] = i
  BY <1>4, <1>5, RequestBatch
<1>8. /\ Len(req) \in Nat /\ Len(t) \in Nat /\ Len(req') = Len(req) + Len(t) + 1
      /\ \A k \in 1..Len(req) : req'[k] = req[k]
      /\ \A k \in 1..Len(t) : req'[Len(req) + k] = t[k]
      /\ \A k \in 1..Len(req') : \/ k \in 1..Len(req)
                                 \/ k - Len(req) \in 1..Len(t) /\ req'[k] = t[k - Len(req)]
                                 \/ req'[k] = 0
  <2> DEFINE u == req \o t
  <2>1. u \in Seq(Nat) /\ req' = Append(u, 0)
    BY <1>4, <1>7
  <2>2. /\ Len(req) \in Nat /\ Len(t) \in Nat /\ Len(u) = Len(req) + Len(t)
        /\ \A k \in 1..Len(req) : u[k] = req[k]
        /\ \A k \in 1..Len(t) : u[Len(req) + k] = t[k]
        /\ \A k \in (Len(req) + 1)..(Len(req) + Len(t)) : u[k] = t[k - Len(req)]
    BY <1>4
  <2> HIDE DEF u
  <2>3. Len(req') = Len(u) + 1 /\ req'[Len(u) + 1] = 0 /\ \A k \in 1..Len(u) : req'[k] = u[k]
    BY <2>1
  <2>4. ASSUME NEW k \in 1..Len(req')
        PROVE  \/ k \in 1..Len(req)
               \/ k - Len(req) \in 1..Len(t) /\ req'[k] = t[k - Len(req)]
               \/ req'[k] = 0
    <3>0. k \in Nat /\ 1 <= k /\ k <= Len(req) + Len(t) + 1
      BY <2>2, <2>3
    <3>1. k \in 1..Len(req) \/ k \in (Len(req) + 1)..(Len(req) + Len(t)) \/ k = Len(u) + 1
      BY <2>2, <3>0
    <3>2. CASE k \in (Len(req) + 1)..(Len(req) + Len(t))
      <4>1. k - Len(req) \in 1..Len(t) /\ k \in 1..Len(u)
        BY <3>2, <2>2
      <4> QED
        BY <4>1, <3>2, <2>2, <2>3
    <3> QED
      BY <3>1, <3>2, <2>3
  <2>5. \A k \in 1..Len(req) : req'[k] = req[k]
    BY <2>2, <2>3
  <2>6. \A k \in 1..Len(t) : req'[Len(req) + k] = t[k]
    BY <2>2, <2>3
  <2> QED
    BY <2>2, <2>3, <2>4, <2>5, <2>6
<1>9. Told'
  BY <1>1, <1>3 DEF Told, AllSent, Pending
<1>10. Holding'
  BY <1>1, <1>6 DEF Holding
<1>11. Dones'
  BY <1>1, ReadDones
<1>12. ASSUME NEW i \in requested'
       PROVE  /\ entries'[i] \notin Excluded
              /\ \/ \E k \in 1..Len(req') : req'[k] = i
                 \/ \E k \in 1..Len(resp') : resp'[k].type = "file" /\ resp'[k].index = i
                 \/ entries'[i] \in present' \cap fresh'
  <2>1. CASE i \in requested
    <3>0. i \in 1..Len(entries) /\ entries[i] \notin Excluded
      BY <2>1, <1>1, <1>4 DEF Asked
    <3>1. entries'[i] = entries[i] /\ entries[i] \notin Excluded
      BY <3>0, <1>5
    <3>2. ASSUME NEW k \in 1..Len(req), req[k] = i PROVE \E j \in 1..Len(req') : req'[j] = i
      <4>1. k \in 1..Len(req') /\ req'[k] = i
        BY <3>2, <1>8
      <4> QED
        BY <4>1
    <3>3. ASSUME NEW k \in 1..Len(resp), resp[k].type = "file", resp[k].index = i
          PROVE  \E j \in 1..Len(resp') : resp'[j].type = "file" /\ resp'[j].index = i
      <4>1. k # 1
        BY <3>3, <1>3, <1>4
      <4>2. k - 1 \in 1..Len(resp') /\ (k - 1) + 1 = k
        BY <4>1, <1>3
      <4>3. resp'[k - 1] = resp[k]
        BY <4>2, <1>3
      <4> QED
        BY <4>2, <4>3, <3>3
    <3>4. entries[i] \in present \cap fresh => entries'[i] \in present' \cap fresh'
      BY <3>1, <1>6
    <3> QED
      BY <3>1, <3>2, <3>3, <3>4, <2>1, <1>1 DEF Asked
  <2>2. CASE i \notin requested
    <3>1. PICK k \in 1..Len(t) : t[k] = i
      BY <2>2, <1>7
    <3>2. Len(req) + k \in 1..Len(req') /\ req'[Len(req) + k] = i
      BY <3>1, <1>8
    <3> QED
      BY <3>2, <2>2, <1>7
  <2> QED
    BY <2>1, <2>2
<1>13. ASSUME NEW i \in DOMAIN entries', entries'[i] \notin Excluded
       PROVE  IF IsDir(entries'[i]) THEN entries'[i] \in present'
              ELSE i \in requested' \/ entries'[i] \in present' \cap fresh'
  <2>1. i \in 1..Len(entries) \/ i > Len(entries)
    BY <1>4, <1>5
  <2>2. CASE i \in 1..Len(entries)
    <3>1. i \in DOMAIN entries /\ entries'[i] = entries[i]
      BY <2>2, <1>4, <1>5
    <3> QED
      BY <3>1, <1>1, <1>6, <1>13 DEF Asked
  <2>3. CASE i > Len(entries)
    BY <2>3, <1>6, <1>13
  <2> QED
    BY <2>1, <2>2, <2>3
<1>14. ASSUME NEW k \in 1..Len(resp'), resp'[k].type = "file" PROVE resp'[k].index \in requested'
  <2>1. k + 1 \in 1..Len(resp) /\ resp'[k] = resp[k + 1]
    BY <1>3
  <2> QED
    BY <2>1, <1>1, <1>6, <1>14 DEF Asked
<1>15. ASSUME NEW k \in 1..Len(req'), req'[k] # 0 PROVE req'[k] \in requested'
  <2>1. CASE k \in 1..Len(req)
    BY <2>1, <1>1, <1>6, <1>8, <1>15 DEF Asked
  <2>2. CASE k - Len(req) \in 1..Len(t) /\ req'[k] = t[k - Len(req)]
    BY <2>2, <1>7
  <2> QED
    BY <2>1, <2>2, <1>8, <1>15
<1>16. Asked'
  BY <1>12, <1>13, <1>14, <1>15 DEF Asked
<1>17. SourceKept'
  BY <1>10 DEF SourceKept, Holding
<1> QED
  BY <1>2, <1>9, <1>10, <1>11, <1>16, <1>17 DEF PullInv

\* The client reads another message and stays in its loop.
LEMMA OtherPull ==
    ASSUME PullInv, NumbersInv', pc = "loop", Read, UNCHANGED <<pc, entries, requested, req>>,
           present \subseteq present', fresh \subseteq fresh',
           \A path \in present' : path \in present \/ path \in Source \ Excluded,
           m.type = "file" => entries[m.index] \in present' \cap fresh'
    PROVE  PullInv'
<1>1. NumbersInv /\ Types /\ Told /\ Asked /\ Holding /\ Dones /\ Open
  BY DEF PullInv, NumbersInv, Open
<1>2. /\ resp # << >> /\ m = Head(resp) /\ resp \in Seq(Msg)
      /\ \A k \in 1..Len(resp') : resp'[k] = resp[k + 1]
      /\ Len(resp') = Len(resp) - 1 /\ Len(resp) \in Nat
      /\ UNCHANGED <<peerList, expanded, eofSent, peerDone, peerPc>>
  BY <1>1, ReadMessage DEF Types
<1>3. Told'
  BY <1>1, <1>2 DEF Told, AllSent, Pending
<1>4. Holding' /\ SourceKept'
  BY <1>1 DEF Holding, SourceKept
<1>5. Dones'
  BY <1>1, ReadDones
<1>6. ASSUME NEW i \in requested
      PROVE  /\ entries[i] \notin Excluded
             /\ \/ \E k \in 1..Len(req) : req[k] = i
                \/ \E k \in 1..Len(resp') : resp'[k].type = "file" /\ resp'[k].index = i
                \/ entries[i] \in present' \cap fresh'
  <2>1. ASSUME NEW k \in 1..Len(resp), resp[k].type = "file", resp[k].index = i
        PROVE  \/ \E j \in 1..Len(resp') : resp'[j].type = "file" /\ resp'[j].index = i
               \/ entries[i] \in present' \cap fresh'
    <3>1. CASE k = 1
      <4>1. m.type = "file" /\ m.index = i
        BY <3>1, <2>1, <1>2
      <4> QED
        BY <4>1
    <3>2. CASE k # 1
      <4>1. k - 1 \in 1..Len(resp') /\ (k - 1) + 1 = k
        BY <3>2, <1>2
      <4>2. resp'[k - 1] = resp[k]
        BY <4>1, <1>2
      <4> QED
        BY <4>1, <4>2, <2>1
    <3> QED
      BY <3>1, <3>2
  <2> QED
    BY <2>1, <1>1 DEF Asked
<1>7. ASSUME NEW k \in 1..Len(resp'), resp'[k].type = "file" PROVE resp'[k].index \in requested
  <2>1. k + 1 \in 1..Len(resp) /\ resp'[k] = resp[k + 1]
    BY <1>2
  <2> QED
    BY <2>1, <1>1, <1>7 DEF Asked
<1>8. \A i \in DOMAIN entries : entries[i] \notin Excluded =>
          IF IsDir(entries[i]) THEN entries[i] \in present'
          ELSE i \in requested \/ entries[i] \in present' \cap fresh'
  BY <1>1 DEF Asked
<1>9. \A k \in 1..Len(req) : req[k] # 0 => req[k] \in requested
  BY <1>1 DEF Asked
<1>10. Asked'
  BY <1>6, <1>7, <1>8, <1>9 DEF Asked
<1> QED
  BY <1>3, <1>4, <1>5, <1>10 DEF PullInv

LEMMA StartPull ==
    ASSUME PullInv, execute_remote_pull_protocol31_incremental_with_entries
    PROVE  PullInv'
<1>1. pc = "start" /\ Read /\ entries = << >> /\ Head(resp).type = "list"
  BY DEF execute_remote_pull_protocol31_incremental_with_entries, PullInv, NumbersInv, Phases
<1>2. CASE Acceptable(<< >>, m.batch)
  <2>1. /\ pc' = "loop" /\ entries' = Extend(<< >>, m.batch)
        /\ request_remote_pull_incremental_batch(entries', 0) /\ UNCHANGED fresh
    BY <1>2 DEF execute_remote_pull_protocol31_incremental_with_entries
  <2>2. Len(entries) = 0 /\ m.type = "list" /\ Open
    BY <1>1 DEF m, Open
  <2>3. /\ entries' = Extend(entries, m.batch)
        /\ request_remote_pull_incremental_batch(entries', Len(entries))
    BY <1>1, <2>1, <2>2
  <2> QED
    BY <1>1, <2>1, <2>2, <2>3, AcceptPull
<1>3. CASE ~Acceptable(<< >>, m.batch)
  <2>1. Refuse
    BY <1>3 DEF execute_remote_pull_protocol31_incremental_with_entries
  <2> QED
    BY <2>1, <1>1, RefusePull
<1> QED
  BY <1>2, <1>3

LEMMA ExtraListPull ==
    ASSUME PullInv, ReadExtraFileList
    PROVE  PullInv'
<1>1. pc = "loop" /\ Read /\ m.type = "list" /\ Open
  BY DEF ReadExtraFileList, Open
<1>2. CASE entries' = Extend(entries, m.batch)
           /\ request_remote_pull_incremental_batch(entries', Len(entries))
           /\ UNCHANGED <<pc, fresh>>
  BY <1>1, <1>2, AcceptPull
<1>3. CASE Refuse
  BY <1>1, <1>3, RefusePull
<1> QED
  BY <1>2, <1>3 DEF ReadExtraFileList

LEMMA EofPull ==
    ASSUME PullInv, ReadFileListEof
    PROVE  PullInv'
<1>1. NumbersInv'
  BY EofNumbers DEF PullInv
<1>2. /\ pc = "loop" /\ Read /\ UNCHANGED <<pc, entries, requested, present, fresh, req>>
      /\ m.type # "file"
  BY DEF ReadFileListEof
<1> QED
  BY <1>1, <1>2, OtherPull

LEMMA FilePull ==
    ASSUME PullInv, apply_remote_sender_file_response_protocol31
    PROVE  PullInv'
<1>1. NumbersInv'
  BY FileNumbers DEF PullInv
<1>2. /\ pc = "loop" /\ Read /\ m.type = "file" /\ Types /\ Asked /\ Begins(entries, peerList)
  BY DEF apply_remote_sender_file_response_protocol31, PullInv, NumbersInv, Open
<1>3. CASE m.index \in DOMAIN entries
  <2> DEFINE p == entries[m.index]
  <2>1. /\ present' = present \cup {p}
        /\ fresh' = IF p = peerList[m.index] THEN fresh \cup {p} ELSE fresh \ {p}
        /\ UNCHANGED <<pc, entries, requested, req>>
    BY <1>3 DEF apply_remote_sender_file_response_protocol31
  <2>2. p = peerList[m.index] /\ p \in Source
    BY <1>2, <1>3 DEF Types, Begins
  <2>3. resp # << >> /\ m = Head(resp) /\ resp \in Seq(Msg)
    BY <1>2, ReadMessage DEF Types
  <2>4. m = resp[1] /\ 1 \in 1..Len(resp)
    BY <2>3
  <2>5. m.index \in requested
    BY <2>4, <1>2 DEF Asked
  <2>6. p \notin Excluded
    BY <2>5, <1>2 DEF Asked
  <2>7. /\ present \subseteq present' /\ fresh \subseteq fresh' /\ p \in present' \cap fresh'
        /\ \A path \in present' : path \in present \/ path \in Source \ Excluded
    BY <2>1, <2>2, <2>6
  <2> QED
    BY <2>1, <2>7, <1>1, <1>2, OtherPull
<1>4. CASE m.index \notin DOMAIN entries
  <2>1. Refuse
    BY <1>4 DEF apply_remote_sender_file_response_protocol31
  <2> QED
    BY <2>1, <1>2, RefusePull
<1> QED
  BY <1>3, <1>4

LEMMA MessagesTyped ==
    ASSUME NEW rs \in Seq(Msg)
    PROVE  \A k \in 1..Len(rs) : rs[k] \in Msg
OBVIOUS

\* With only one message under way, and no list, the two lists are the same.
LEMMA NumberedLast ==
    ASSUME NEW rs \in Seq(Msg), Len(rs) = 1, rs[1].type # "list",
           NEW e \in Seq(Source), NEW pl \in Seq(Source), Numbered(rs, e, pl)
    PROVE  Len(e) = Len(pl)
<1>1. PICK l : NumberedBy(rs, e, pl, l)
  BY DEF Numbered
<1>2. Tally(rs, SizeWeight, l) /\ l[0] = Len(e) /\ l[1] = Len(pl)
  BY <1>1 DEF NumberedBy
<1>3. l[1] = l[1 - 1] + SizeWeight[rs[1]] /\ 1 - 1 = 0
  BY <1>2 DEF Tally
<1>4. Len(e) \in Nat
  OBVIOUS
<1>4a. \A k \in 1..Len(rs) : rs[k] \in Msg
  BY MessagesTyped
<1>4b. 1 \in 1..Len(rs)
  OBVIOUS
<1>5. SizeWeight[rs[1]] = 0
  BY <1>4a, <1>4b, Weights
<1> QED
  BY <1>2, <1>3, <1>4, <1>5

\* When everything has been sent, the list has every path of the source.
LEMMA AllTold ==
    ASSUME Types, Told, eofSent
    PROVE  ToSet(peerList) = Source
<1> DEFINE S == ToSet(peerList)
<1>1. S \in SUBSET Source
  BY DEF Types, ToSet
<1>2. Tree[Top] \subseteq S
  BY DEF Told
<1>3. ASSUME NEW d \in S \cap DOMAIN Tree PROVE Tree[d] \subseteq S
  <2>1. PICK i \in DOMAIN peerList : peerList[i] = d
    BY DEF ToSet
  <2>2. d \in expanded
    BY <2>1 DEF Told, AllSent, Pending, IsDir
  <2> QED
    BY <2>2 DEF Told
<1> HIDE DEF S
<1>4. S = Source
  BY <1>1, <1>2, <1>3, TreeAssumption
<1> QED
  BY <1>4 DEF S

LEMMA DonePull ==
    ASSUME PullInv, ReadDone
    PROVE  PullInv'
<1>1. /\ NumbersInv /\ Types /\ Told /\ Asked /\ Holding /\ Dones /\ Open /\ Phases
      /\ Begins(entries, peerList) /\ Numbered(resp, entries, peerList)
  BY DEF PullInv, NumbersInv, Open, ReadDone
<1>2. /\ pc = "loop" /\ Read /\ m.type = "done" /\ pc' = "ack1" /\ fresh' = fresh
      /\ present' = IF delete THEN delete_local_extras ELSE present
  BY DEF ReadDone
<1>3. NumbersInv'
  BY <1>1, DoneNumbers
<1>4. /\ resp # << >> /\ m = Head(resp) /\ resp \in Seq(Msg)
      /\ UNCHANGED <<peerList, expanded, eofSent, peerDone, peerPc, delete>>
  BY <1>1, <1>2, ReadMessage DEF Types
<1>5. m = resp[1] /\ 1 \in 1..Len(resp) /\ Len(resp) \in Nat
  BY <1>4
<1>6. peerPc # "serve" /\ Len(resp) = 1
  BY <1>1, <1>2, <1>5 DEF Dones
<1>7. eofSent /\ req = << >>
  BY <1>1, <1>6 DEF Phases
<1>8. /\ entries \in Seq(Source) /\ peerList \in Seq(Source)
      /\ requested \subseteq DOMAIN entries
  BY <1>1 DEF Types
<1>9. Len(entries) = Len(peerList)
  BY <1>1, <1>2, <1>4, <1>5, <1>6, <1>8, NumberedLast
<1>10. ToSet(peerList) = Source
  BY <1>1, <1>7, AllTold
<1>11. ASSUME NEW path \in Source PROVE \E i \in DOMAIN entries : entries[i] = path
  <2>1. PICK i \in DOMAIN peerList : peerList[i] = path
    BY <1>10 DEF ToSet
  <2>2. i \in 1..Len(entries) /\ i \in DOMAIN entries
    BY <2>1, <1>8, <1>9
  <2> QED
    BY <2>1, <2>2, <1>1 DEF Begins
<1>12. ASSUME NEW i \in requested PROVE entries[i] \in present \cap fresh
  <2>1. ~ \E k \in 1..Len(req) : req[k] = i
    BY <1>7
  <2>2. ~ \E k \in 1..Len(resp) : resp[k].type = "file" /\ resp[k].index = i
    BY <1>2, <1>5, <1>6
  <2> QED
    BY <2>1, <2>2, <1>1 DEF Asked
<1>13. ASSUME NEW path \in Source \ Excluded
       PROVE  path \in present /\ path \in Keep /\ (path \notin DOMAIN Tree => path \in fresh)
  <2>1. PICK i \in DOMAIN entries : entries[i] = path
    BY <1>11
  <2>2. path \in Keep
    BY <2>1 DEF Keep, selected_remote_entry_indexes
  <2>3. CASE IsDir(path)
    BY <2>1, <2>2, <2>3, <1>1 DEF Asked, IsDir
  <2>4. CASE ~IsDir(path)
    <3>1. i \in requested \/ path \in present \cap fresh
      BY <2>1, <2>4, <1>1 DEF Asked
    <3> QED
      BY <3>1, <2>1, <2>2, <1>12
  <2> QED
    BY <2>3, <2>4
<1>14. ASSUME NEW path \in Keep PROVE path \in Source \ Excluded
  BY <1>8 DEF Keep, selected_remote_entry_indexes
<1>15. present' = (Source \ Excluded) \cup (IF delete' THEN Spared ELSE Dest0)
  <2>1. Dest0 \subseteq present /\ \A path \in present : path \in Dest0 \/ path \in Source \ Excluded
    BY <1>1 DEF Holding
  <2>2. delete' = delete
    BY <1>4
  <2>3. CASE delete
    <3> DEFINE extras == present \ (Keep \cup Excluded)
               inside == UNION {Below[path] : path \in extras}
    <3>1. extras = Dest0 \ (Source \cup Excluded)
      BY <2>1, <1>13, <1>14
    \* nothing of the source is inside an extra
    <3>2. inside \cap Source = {}
      BY <3>1, BelowAssumption
    <3>3. present' = present \ (extras \cup inside)
      BY <2>3, <1>2 DEF delete_local_extras
    <3>4. Spared = (Dest0 \cap Excluded) \ inside
      BY <3>1 DEF Spared
    <3> HIDE DEF inside
    <3> QED
      BY <2>1, <2>2, <2>3, <3>1, <3>2, <3>3, <3>4, <1>13
  <2>4. CASE ~delete
    BY <2>1, <2>2, <2>4, <1>2, <1>13
  <2> QED
    BY <2>3, <2>4
<1>16. \A path \in Source \ (Excluded \cup DOMAIN Tree) : path \in fresh'
  BY <1>2, <1>13
<1>17. Mirrored'
  BY <1>15, <1>16 DEF Mirrored
<1>18. SourceKept'
  BY <1>15 DEF SourceKept
<1>19. Told'
  BY <1>1, <1>4 DEF Told, AllSent, Pending
<1>20. ~Open'
  BY <1>2 DEF Open
<1> QED
  BY <1>3, <1>17, <1>18, <1>19, <1>20 DEF PullInv

LEMMA ClosingPull ==
    ASSUME PullInv, ReadClosing
    PROVE  PullInv'
<1>1. Read /\ NumbersInv /\ Types /\ Told /\ SourceKept
  BY DEF ReadClosing, PullInv, NumbersInv
<1>2. CASE Refuse
  BY <1>1, <1>2, RefusePull
<1>3. CASE pc' \in {"ack2", "stats", "ack3", "done"} /\ UNCHANGED <<entries, requested, present, fresh>>
  <2>1. Mirrored
    BY DEF ReadClosing, PullInv
  <2>2. UNCHANGED <<delete, peerList, expanded, eofSent>>
    BY <1>1, ReadMessage
  <2>3. NumbersInv'
    BY <1>1, ClosingNumbers
  <2>4. Mirrored' /\ SourceKept'
    BY <2>1, <2>2, <1>1, <1>3 DEF Mirrored, SourceKept
  <2>5. Told'
    BY <2>2, <1>1 DEF Told, AllSent, Pending
  <2>6. ~Open'
    BY <1>3 DEF Open
  <2> QED
    BY <2>3, <2>4, <2>5, <2>6 DEF PullInv
<1> QED
  BY <1>2, <1>3 DEF ReadClosing

\* A message is added behind the others.
LEMMA Written ==
    ASSUME NEW rs \in Seq(Msg), NEW x \in Msg
    PROVE  LET ns == Append(rs, x)
           IN /\ Len(rs) \in Nat /\ Len(ns) = Len(rs) + 1
              /\ \A k \in 1..Len(rs) : k \in 1..Len(ns) /\ ns[k] = rs[k]
              /\ ns[Len(rs) + 1] = x /\ Len(rs) + 1 \in 1..Len(ns)
              /\ \A k \in 1..Len(ns) : k \in 1..Len(rs) \/ k = Len(rs) + 1
OBVIOUS

\* The sender writes a message, or none, and reads nothing, DONE, or the
\* request that the message answers.
LEMMA SenderAsked ==
    ASSUME Types, Asked, UNCHANGED clientVars,
           NEW x \in Msg, x.type = "file" => x.index \in requested,
           resp' = Append(resp, x) \/ resp' = resp,
           \/ req' = req
           \/ /\ req # << >> /\ req' = Tail(req)
              /\ Head(req) # 0 => resp' = Append(resp, x) /\ x.type = "file" /\ x.index = Head(req)
    PROVE  Asked'
<1>1. UNCHANGED <<pc, entries, requested, present, fresh>>
  BY SenderLeaves
<1>2. req \in Seq(Nat) /\ resp \in Seq(Msg) /\ requested \subseteq DOMAIN entries /\ entries \in Seq(Source)
  BY DEF Types
<1> DEFINE ns == Append(resp, x)
<1>3. /\ Len(resp) \in Nat /\ Len(ns) = Len(resp) + 1
      /\ \A k \in 1..Len(resp) : k \in 1..Len(ns) /\ ns[k] = resp[k]
      /\ ns[Len(resp) + 1] = x /\ Len(resp) + 1 \in 1..Len(ns)
      /\ \A k \in 1..Len(ns) : k \in 1..Len(resp) \/ k = Len(resp) + 1
  BY <1>2, Written
<1>4. resp' = ns \/ resp' = resp
  OBVIOUS
<1> HIDE DEF ns
<1>5. \A k \in 1..Len(resp) : k \in 1..Len(resp') /\ resp'[k] = resp[k]
  BY <1>3, <1>4
<1>6. \A k \in 1..Len(resp') : k \in 1..Len(resp) \/ resp'[k] = x
  BY <1>3, <1>4
<1>7. ASSUME NEW i \in requested, NEW k \in 1..Len(req), req[k] = i
      PROVE  \/ \E j \in 1..Len(req') : req'[j] = i
             \/ \E j \in 1..Len(resp') : resp'[j].type = "file" /\ resp'[j].index = i
  <2>1. CASE req' = req
    BY <2>1, <1>7
  <2>2. CASE req # << >> /\ req' = Tail(req) /\ k = 1
    <3>1. Head(req) = i /\ i # 0
      BY <2>2, <1>2, <1>7
    <3>2. resp' = ns /\ x.type = "file" /\ x.index = i
      BY <3>1, <2>2, <1>2 DEF ns
    <3> QED
      BY <3>2, <1>3
  <2>3. CASE req # << >> /\ req' = Tail(req) /\ k # 1
    <3>1. k - 1 \in 1..Len(req') /\ req'[k - 1] = req[k]
      BY <2>3, <1>2
    <3> QED
      BY <3>1, <1>7
  <2> QED
    BY <2>1, <2>2, <2>3
<1>8. ASSUME NEW i \in requested
      PROVE  /\ entries[i] \notin Excluded
             /\ \/ \E k \in 1..Len(req') : req'[k] = i
                \/ \E k \in 1..Len(resp') : resp'[k].type = "file" /\ resp'[k].index = i
                \/ entries[i] \in present \cap fresh
  BY <1>5, <1>7 DEF Asked
<1>9. ASSUME NEW k \in 1..Len(resp'), resp'[k].type = "file" PROVE resp'[k].index \in requested
  <2>1. CASE resp'[k] = x
    BY <2>1, <1>9
  <2>2. CASE k \in 1..Len(resp)
    <3>1. resp'[k] = resp[k]
      BY <2>2, <1>5
    <3> QED
      BY <3>1, <2>2, <1>9 DEF Asked
  <2> QED
    BY <2>1, <2>2, <1>6
<1>10. ASSUME NEW k \in 1..Len(req'), req'[k] # 0 PROVE req'[k] \in requested
  <2>1. CASE req' = req
    BY <2>1, <1>10 DEF Asked
  <2>2. CASE req # << >> /\ req' = Tail(req)
    <3>1. k + 1 \in 1..Len(req) /\ req'[k] = req[k + 1]
      BY <2>2, <1>2
    <3> QED
      BY <3>1, <1>10 DEF Asked
  <2> QED
    BY <2>1, <2>2
<1>11. \A i \in DOMAIN entries : entries[i] \notin Excluded =>
           IF IsDir(entries[i]) THEN entries[i] \in present
           ELSE i \in requested \/ entries[i] \in present \cap fresh
  BY DEF Asked
<1> QED
  BY <1>1, <1>8, <1>9, <1>10, <1>11 DEF Asked

\* The client's side of the invariant when only the sender moves.
LEMMA SenderPull ==
    ASSUME PullInv, NumbersInv', UNCHANGED clientVars, Told', Open => Asked' /\ Dones'
    PROVE  PullInv'
<1>1. UNCHANGED <<delete, pc, present, fresh>>
  BY SenderLeaves
<1> QED
  BY <1>1 DEF PullInv, Open, Holding, Mirrored, SourceKept

LEMMA SendListPull ==
    ASSUME PullInv, SendExtraList
    PROVE  PullInv'
<1>2. NumbersInv' /\ Types' /\ NumbersInv /\ Types /\ Told
  BY SendListNumbers DEF PullInv, NumbersInv
<1>3. PICK i \in Pending :
          /\ peerList[i] \notin expanded
          /\ Tell([type |-> "list", parent |-> i, batch |-> Tree[peerList[i]]])
          /\ peerList' = peerList \o sort_remote_entries_for_sender_indexes(Tree[peerList[i]])
          /\ expanded' = expanded \cup {peerList[i]}
  BY DEF SendExtraList
<1>4. /\ UNCHANGED <<req, eofSent, peerDone, peerPc>> /\ peerPc = "serve" /\ UNCHANGED clientVars
  BY DEF SendExtraList
<1> DEFINE dir == peerList[i]
           x == [type |-> "list", parent |-> i, batch |-> Tree[dir]]
           t == sort_remote_entries_for_sender_indexes(Tree[dir])
<1>5. peerList \in Seq(Source) /\ resp \in Seq(Msg)
  BY <1>2 DEF Types
<1>6. i \in Nat /\ dir \in DOMAIN Tree
  BY <1>5 DEF Pending, IsDir
<1>7. Tree[dir] \in SUBSET Source
  BY <1>6 DEF Source
<1>8. x \in ListMsg
  BY <1>6, <1>7 DEF ListMsg
<1>9. x \in Msg /\ x.type = "list" /\ resp' = Append(resp, x)
  BY <1>3, <1>8, MsgKinds DEF Tell
<1>10. /\ t \in Seq(Source)
       /\ \A path \in Tree[dir] : \E k \in 1..Len(t) : t[k] = path
  BY <1>7, SortLists
<1>11. ~eofSent
  BY <1>2, <1>3 DEF Told, AllSent
<1>12. peerList' = peerList \o t /\ expanded' = expanded \cup {dir}
  BY <1>3
<1> HIDE DEF x, t, dir
<1>13. /\ ToSet(peerList) \subseteq ToSet(peerList')
       /\ Tree[dir] \subseteq ToSet(peerList')
  <2>1. /\ Len(peerList) \in Nat /\ Len(t) \in Nat /\ DOMAIN peerList' = 1..(Len(peerList) + Len(t))
        /\ DOMAIN peerList = 1..Len(peerList)
        /\ \A k \in 1..Len(peerList) : peerList'[k] = peerList[k]
        /\ \A k \in 1..Len(t) : peerList'[Len(peerList) + k] = t[k]
    BY <1>5, <1>10, <1>12
  <2>2. \A k \in 1..Len(peerList) : k \in DOMAIN peerList'
    BY <2>1
  <2>3. \A k \in 1..Len(t) : Len(peerList) + k \in DOMAIN peerList'
    BY <2>1
  <2> QED
    BY <2>1, <2>2, <2>3, <1>10 DEF ToSet
<1>14. Told'
  BY <1>2, <1>4, <1>11, <1>12, <1>13 DEF Told
<1>15. ASSUME Open PROVE Asked' /\ Dones'
  <2>1. Asked /\ Dones
    BY <1>15 DEF PullInv
  <2>2. Asked'
    BY <2>1, <1>2, <1>4, <1>9, SenderAsked
  <2>3. Dones'
    <3>1. \A k \in 1..Len(resp') : resp'[k].type # "done"
      BY <2>1, <1>4, <1>5, <1>9, Written DEF Dones
    <3> QED
      BY <3>1, <1>4 DEF Dones
  <2> QED
    BY <2>2, <2>3
<1> QED
  BY <1>2, <1>4, <1>14, <1>15, SenderPull

\* While the sender serves, a message that is not DONE goes behind the others.
LEMMA ServeDones ==
    ASSUME Types, Dones, peerPc = "serve", peerPc' = "serve", NEW x \in Msg, x.type # "done",
           resp' = Append(resp, x) \/ resp' = resp
    PROVE  Dones'
<1>1. resp \in Seq(Msg)
  BY DEF Types
<1>2. \A k \in 1..Len(resp') : resp'[k].type # "done"
  BY <1>1, Written DEF Dones
<1> QED
  BY <1>2 DEF Dones

\* DONE goes behind the others.
LEMMA LastDones ==
    ASSUME Types, Dones, peerPc = "serve", peerPc' # "serve", resp' = Append(resp, DoneMsg)
    PROVE  Dones'
<1>1. resp \in Seq(Msg) /\ DoneMsg \in Msg
  BY MsgKinds DEF Types
<1>2. \A k \in 1..Len(resp') : resp'[k].type = "done" => k = Len(resp')
  BY <1>1, Written DEF Dones
<1> QED
  BY <1>2 DEF Dones

\* The list of the sender stays as it is.
LEMMA SenderTold ==
    ASSUME Told, UNCHANGED <<peerList, expanded>>, eofSent' => eofSent \/ AllSent
    PROVE  Told'
BY DEF Told, AllSent, Pending

LEMMA SendEofPull ==
    ASSUME PullInv, SendListEof
    PROVE  PullInv'
<1>1. NumbersInv' /\ Types /\ Told
  BY SendEofNumbers DEF PullInv, NumbersInv
<1>2. /\ EofMsg \in Msg /\ EofMsg.type # "file" /\ EofMsg.type # "done"
      /\ resp' = Append(resp, EofMsg)
  BY MsgKinds DEF SendListEof, Tell, EofMsg
<1>3. /\ UNCHANGED clientVars /\ req' = req /\ peerPc = "serve" /\ peerPc' = "serve"
      /\ UNCHANGED <<peerList, expanded>> /\ AllSent
  BY DEF SendListEof
<1>4. Told'
  BY <1>1, <1>3, SenderTold
<1>5. ASSUME Open PROVE Asked' /\ Dones'
  <2>1. Asked /\ Dones
    BY <1>5 DEF PullInv
  <2> QED
    BY <2>1, <1>1, <1>2, <1>3, SenderAsked, ServeDones
<1> QED
  BY <1>1, <1>3, <1>4, <1>5, SenderPull

LEMMA AnswerPull ==
    ASSUME PullInv, Answer
    PROVE  PullInv'
<1> DEFINE x == [type |-> "file", index |-> Head(req)]
<1>1. NumbersInv' /\ Types /\ Told
  BY AnswerNumbers DEF PullInv, NumbersInv
<1>2. /\ req # << >> /\ Head(req) # 0 /\ req' = Tail(req) /\ resp' = Append(resp, x)
      /\ UNCHANGED clientVars /\ peerPc = "serve" /\ peerPc' = "serve"
      /\ UNCHANGED <<peerList, expanded>> /\ eofSent' = eofSent
  BY DEF Answer, Tell, DONE
<1>3. req \in Seq(Nat)
  BY <1>1 DEF Types
<1>4. x \in FileMsg /\ x.index = Head(req)
  BY <1>2, <1>3 DEF FileMsg
<1>5. x \in Msg /\ x.type = "file"
  BY <1>4, MsgKinds
<1> HIDE DEF x
<1>6. Told'
  BY <1>1, <1>2, SenderTold
<1>7. ASSUME Open PROVE Asked' /\ Dones'
  <2>1. Asked /\ Dones
    BY <1>7 DEF PullInv
  <2>2. req[1] = Head(req) /\ 1 \in 1..Len(req)
    BY <1>2, <1>3
  <2>3. x.index \in requested
    BY <2>1, <2>2, <1>2, <1>4 DEF Asked
  <2> QED
    BY <2>1, <2>3, <1>1, <1>2, <1>4, <1>5, SenderAsked, ServeDones
<1> QED
  BY <1>1, <1>2, <1>6, <1>7, SenderPull

LEMMA FinishPull ==
    ASSUME PullInv, FinishList, Acks = "last"
    PROVE  PullInv'
<1>1. NumbersInv' /\ Types /\ Told
  BY FinishNumbers DEF PullInv, NumbersInv
<1>2. /\ req # << >> /\ Head(req) = 0 /\ req' = Tail(req)
      /\ UNCHANGED clientVars /\ peerPc = "serve"
      /\ UNCHANGED <<peerList, expanded>> /\ eofSent' = eofSent
  BY DEF FinishList, DONE
<1>3. \/ peerPc' = "ack1" /\ resp' = Append(resp, DoneMsg)
      \/ peerPc' = "serve" /\ resp' = resp
  BY DEF FinishList, Tell, DoneMsg
<1>4. DoneMsg \in Msg /\ DoneMsg.type # "file" /\ EofMsg \in Msg /\ EofMsg.type # "done"
  BY MsgKinds
<1>5. Told'
  BY <1>1, <1>2, SenderTold
<1>6. ASSUME Open PROVE Asked' /\ Dones'
  <2>1. Asked /\ Dones
    BY <1>6 DEF PullInv
  <2>2. Asked'
    BY <2>1, <1>1, <1>2, <1>3, <1>4, SenderAsked
  <2>3. Dones'
    BY <2>1, <1>1, <1>2, <1>3, <1>4, LastDones, ServeDones
  <2> QED
    BY <2>2, <2>3
<1> QED
  BY <1>1, <1>2, <1>5, <1>6, SenderPull

LEMMA LatePull ==
    ASSUME PullInv, FinishLate, Acks = "last"
    PROVE  PullInv'
<1>1. NumbersInv' /\ Types /\ Told
  BY LateNumbers DEF PullInv, NumbersInv
<1>2. /\ req' = req /\ UNCHANGED clientVars /\ peerPc = "serve" /\ peerPc' = "ack1"
      /\ UNCHANGED <<peerList, expanded>> /\ eofSent' = eofSent
      /\ resp' = Append(resp, DoneMsg)
  BY DEF FinishLate, Tell, DoneMsg
<1>3. DoneMsg \in Msg /\ DoneMsg.type # "file"
  BY MsgKinds
<1>4. Told'
  BY <1>1, <1>2, SenderTold
<1>5. ASSUME Open PROVE Asked' /\ Dones'
  <2>1. Asked /\ Dones
    BY <1>5 DEF PullInv
  <2> QED
    BY <2>1, <1>1, <1>2, <1>3, SenderAsked, LastDones
<1> QED
  BY <1>1, <1>2, <1>4, <1>5, SenderPull

LEMMA PeerClosingPull ==
    ASSUME PullInv, PeerClosing
    PROVE  PullInv'
<1>1. NumbersInv' /\ ~Open /\ Told
  BY PeerClosingNumbers DEF PullInv
<1>2. UNCHANGED clientVars /\ UNCHANGED <<peerList, expanded, eofSent>>
  BY DEF PeerClosing
<1>3. Told'
  BY <1>1, <1>2, SenderTold
<1> QED
  BY <1>1, <1>2, <1>3, SenderPull

LEMMA InitPull ==
    ASSUME Init
    PROVE  PullInv
<1> DEFINE x == [type |-> "list", parent |-> 0, batch |-> Tree[Top]]
<1>1. /\ pc = "start" /\ entries = << >> /\ requested = {} /\ present = Dest0
      /\ req = << >> /\ resp = <<x>> /\ expanded = {Top} /\ eofSent = FALSE
      /\ peerPc = "serve" /\ peerList = sort_remote_entries_for_sender_indexes(Tree[Top])
  BY DEF Init
<1>2. NumbersInv
  BY InitNumbers
<1>3. x.type = "list" /\ Len(resp) = 1 /\ resp[1] = x
  BY <1>1
<1> HIDE DEF x
<1>4. Told
  <2>1. Tree[Top] \in SUBSET Source
    BY TreeAssumption DEF Source
  <2> DEFINE t == sort_remote_entries_for_sender_indexes(Tree[Top])
  <2>2. t \in Seq(Source) /\ \A path \in Tree[Top] : \E k \in 1..Len(t) : t[k] = path
    BY <2>1, SortLists
  <2> HIDE DEF t
  <2>3. Tree[Top] \subseteq ToSet(t)
    BY <2>2 DEF ToSet
  <2> QED
    BY <2>3, <1>1 DEF Told, t
<1>5. Asked
  BY <1>1, <1>3 DEF Asked
<1>6. Dones
  BY <1>1, <1>3 DEF Dones
<1>7. Holding /\ SourceKept
  BY <1>1 DEF Holding, SourceKept
<1> QED
  BY <1>1, <1>2, <1>4, <1>5, <1>6, <1>7 DEF PullInv

LEMMA NextPull ==
    ASSUME PullInv, [Next]_vars, Acks = "last"
    PROVE  PullInv'
<1>1. CASE Client
  BY <1>1, StartPull, ExtraListPull, EofPull, FilePull, DonePull, ClosingPull DEF Client
<1>2. CASE Sender
  BY <1>2, SendListPull, SendEofPull, AnswerPull, FinishPull, LatePull, PeerClosingPull DEF Sender
<1>3. CASE UNCHANGED vars
  <2>1. NumbersInv'
    BY <1>3, NextNumbers DEF PullInv
  <2> QED
    BY <2>1, <1>3 DEF vars, PullInv, Told, AllSent, Pending, Open, Asked, Holding, Dones,
                      Mirrored, SourceKept
<1> QED
  BY <1>1, <1>2, <1>3 DEF Next

-----------------------------------------------------------------------------
(* Theorems                                                                *)

\* An index names the same file for the client and for the sender all the
\* time, whatever is under way between them: the lists that arrive between
\* the answers extend the client's list in the order in which the sender
\* counted them (execute_remote_pull_protocol31_incremental_with_entries,
\* sort_remote_entries_for_sender_indexes).
THEOREM NumbersAgree == Spec => []NumbersSound
<1>1. Init => NumbersInv
  BY InitNumbers
<1>2. NumbersInv /\ [Next]_vars => NumbersInv'
  BY NextNumbers
<1>3. NumbersInv => NumbersSound
  BY NumbersFollow
<1> QED
  BY <1>1, <1>2, <1>3, PTL DEF Spec

\* With a sender that answers DONE once, at the end, the deletion removes no
\* path of the source, and a finished pull leaves every selected path, every
\* selected file with its contents, and of the rest what --delete spares
\* (delete_local_extras, request_remote_pull_incremental_batch_protocol31).
THEOREM PullMirrors == Acks = "last" => (Spec => []PullSound)
<1> SUFFICES ASSUME Acks = "last" PROVE Spec => []PullSound
  OBVIOUS
<1>1. Init => PullInv
  BY InitPull
<1>2. PullInv /\ [Next]_vars => PullInv'
  BY NextPull
<1>3. PullInv => PullSound
  BY DEF PullInv, PullSound, Mirrors, Mirrored
<1> QED
  BY <1>1, <1>2, <1>3, PTL DEF Spec

=============================================================================
