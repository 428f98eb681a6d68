------------------------ MODULE TransferSessionProofs -----------------------
(***************************************************************************)
(* TypeOK, PositionsRight, Delivered and MarkersAgree are invariants of    *)
(* TransferSession, and its steps have TreeKept, for every tree, every     *)
(* list, every capacity of the streams and any number of failures and      *)
(* edits.                                                                  *)
(***************************************************************************)
EXTENDS TransferSession, ReceiverTreeProofs

-----------------------------------------------------------------------------
(* Trees and messages                                                      *)

\* The filesystem primitives give trees.
LEMMA TreeOps ==
    ASSUME NEW f \in Tree, NEW p \in Path
    PROVE  /\ MakeDir(f, p) \in Tree
           /\ RemoveTree(f, p) \in Tree
           /\ \A n \in Node : Put(f, p, n) \in Tree
<1>1. f \in [Path -> Node] /\ MakeParents(f, p) \in [Path -> Node]
  BY NodeFacts DEF Tree, MakeParents
<1>2. MakeDir(f, p) \in Tree
  BY <1>1, NodeFacts DEF MakeDir, Tree
<1>3. RemoveTree(f, p) \in Tree
  BY <1>1, NodeFacts DEF RemoveTree, Tree
<1>4. \A n \in Node : Put(f, p, n) \in Tree
  BY <1>1 DEF Put, Tree
<1> QED
  BY <1>2, <1>3, <1>4

\* The short messages.
LEMMA ShortMessages ==
    /\ Marker \in ToSenderMsg /\ Done \in ToSenderMsg
    /\ Marker \in ToReceiverMsg /\ Done \in ToReceiverMsg /\ Stats \in ToReceiverMsg
BY DEF ToSenderMsg, ToReceiverMsg

\* A message is known by its type.
LEMMA MessageKinds ==
    /\ \A m \in ToReceiverMsg : m.type = "file" => m \in FileMsg
    /\ \A m \in ToReceiverMsg : m.type = "list" => m \in ListMsg
    /\ \A m \in ToSenderMsg : m.type = "request" => m \in RequestMsg
<1>1. Marker.type = "marker" /\ Done.type = "done" /\ Stats.type = "stats"
  BY DEF Marker, Done, Stats
<1>2. (\A m \in ListMsg : m.type = "list") /\ (\A m \in FileMsg : m.type = "file")
  BY DEF ListMsg, FileMsg
<1> QED
  BY <1>1, <1>2 DEF ToReceiverMsg, ToSenderMsg

\* What Jobs may hold.
LEMMA JobFacts ==
    ASSUME TypeOK
    PROVE  /\ job \in Job
           /\ job.dryRun \in BOOLEAN
           /\ Top \in Path /\ Dest \subseteq Path
BY SessionAssumption, TreeAssumption DEF TypeOK, Job

\* What is sorted is a sequence of the same entries.
LEMMA SortedType ==
    ASSUME NEW S, IsFiniteSet(S), S \subseteq Entry,
           NEW s \in SenderOrders(S) \cup ReceiverOrders(S)
    PROVE  s \in Seq(Entry)
<1>1. Cardinality(S) \in Nat
  BY FS_CardinalityType
<1>2. s \in [1 .. Cardinality(S) -> S]
  BY DEF SenderOrders, ReceiverOrders, InCollectedOrder, InIndexOrder, Sorted
<1>3. s \in [1 .. Cardinality(S) -> Entry]
  BY <1>2
<1> QED
  BY <1>1, <1>3

-----------------------------------------------------------------------------
(* Types                                                                   *)

SenderTypes ==
    /\ sPc \in {"marker", "collect", "serve", "goodbye", "adieu", "done", "failed"}
    /\ sOut \in Seq(ToReceiverMsg)
    /\ sEntries \in Seq(Entry)
    /\ sMarks \in Nat

ReceiverTypes ==
    /\ rPc \in {"marker", "list", "prepare", "request", "receive", "ack", "stats", "bye",
                "last", "done", "failed"}
    /\ rOut \in Seq(ToSenderMsg)
    /\ rEntries \in Seq(Entry)
    /\ rRound \in Nat
    /\ plan \in [extras : SUBSET Dest, dirs : SUBSET Nat, ask : SUBSET Nat]
    /\ plan.dirs \subseteq DOMAIN rEntries /\ plan.ask \subseteq want
    /\ want \subseteq DOMAIN rEntries

StreamTypes == toSender \in Seq(ToSenderMsg) /\ toReceiver \in Seq(ToReceiverMsg)

WorldTypes ==
    /\ job \in Jobs
    /\ src \in Tree /\ fs \in Tree
    /\ cut \in BOOLEAN
    /\ faults \in 0 .. MaxFaults /\ edits \in 0 .. MaxEdits

\* TypeOK speaks of the two ends, the streams and the world around them.
LEMMA TypeParts ==
    /\ TypeOK <=> SenderTypes /\ ReceiverTypes /\ StreamTypes /\ WorldTypes
    /\ TypeOK' <=> SenderTypes' /\ ReceiverTypes' /\ StreamTypes' /\ WorldTypes'
BY DEF TypeOK, SenderTypes, ReceiverTypes, StreamTypes, WorldTypes

\* A failing end keeps its types.
LEMMA FailTypes ==
    /\ SenderTypes /\ SenderFails => SenderTypes'
    /\ ReceiverTypes /\ ReceiverFails => ReceiverTypes'
<1>1. SenderTypes /\ SenderFails => SenderTypes'
  BY DEF SenderTypes, SenderFails
<1>2. ReceiverTypes /\ ReceiverFails => ReceiverTypes'
  BY DEF ReceiverTypes, ReceiverFails
<1> QED
  BY <1>1, <1>2

\* The head and the tail of a sequence that is not empty.
LEMMA SeqParts ==
    ASSUME NEW S, NEW s \in Seq(S), s # <<>>
    PROVE  Head(s) \in S /\ Tail(s) \in Seq(S) /\ Head(s) = s[1] /\ 1 \in DOMAIN s
OBVIOUS

\* What is taken from a stream is a message.
LEMMA TakeTypes ==
    ASSUME StreamTypes
    PROVE  /\ SenderTakes => Head(toSender) \in ToSenderMsg /\ toSender' \in Seq(ToSenderMsg)
           /\ ReceiverTakes => /\ Head(toReceiver) \in ToReceiverMsg
                               /\ toReceiver' \in Seq(ToReceiverMsg)
<1>1. SenderTakes => Head(toSender) \in ToSenderMsg /\ toSender' \in Seq(ToSenderMsg)
  BY SeqParts DEF StreamTypes, SenderTakes
<1>2. ReceiverTakes => /\ Head(toReceiver) \in ToReceiverMsg
                       /\ toReceiver' \in Seq(ToReceiverMsg)
  BY SeqParts DEF StreamTypes, ReceiverTakes
<1> QED
  BY <1>1, <1>2

\* Each step of the sender keeps the types.
LEMMA SenderStepTypes ==
    ASSUME TypeOK, SenderStep
    PROVE  TypeOK'
<1> USE TypeParts
<1>1. SenderTypes /\ ReceiverTypes /\ StreamTypes /\ WorldTypes
  OBVIOUS
<1>2. CASE SenderSendsMarker
  BY <1>1, <1>2, ShortMessages
     DEF SenderSendsMarker, SenderStays, SenderTypes, ReceiverTypes, StreamTypes, WorldTypes,
         receiver, env
<1>3. CASE SenderReadsMarker
  <2>1. SenderTypes'
    BY <1>1, <1>3, FailTypes DEF SenderReadsMarker, SenderTypes
  <2>2. StreamTypes'
    BY <1>1, <1>3, TakeTypes DEF SenderReadsMarker, SenderStays, StreamTypes
  <2> QED
    BY <1>1, <1>3, <2>1, <2>2
       DEF SenderReadsMarker, SenderStays, ReceiverTypes, WorldTypes, receiver, env
<1>4. CASE Collect
  <2>1. SenderTypes'
    <3>1. CASE SenderFails
      BY <1>1, <3>1, FailTypes
    <3>2. CASE ~SenderFails
      <4> DEFINE S == {EntryOf(src, p) : p \in Offered}
      <4>1. PICK list \in SenderOrders(S) :
              /\ sEntries' = list
              /\ sOut' = <<[type |-> "list", entries |-> S]>>
              /\ sPc' = "serve"
              /\ sMarks' = sMarks
        BY <1>4, <3>2 DEF Collect
      <4>2. Offered \subseteq Path
        BY JobFacts DEF Offered, SourceEntries
      <4>3. IsFiniteSet(S)
        <5>1. IsFiniteSet(Offered)
          BY <4>2, TreeAssumption, FS_Subset
        <5> DEFINE f == [p \in Offered |-> EntryOf(src, p)]
        <5>2. f \in Surjection(Offered, S)
          BY DEF Surjection
        <5> QED
          BY <5>1, <5>2, FS_Surjection
      <4>4. S \subseteq Entry
        <5>1. \A p \in Path : src[p] \in Node
          BY <1>1 DEF WorldTypes, Tree
        <5> QED
          BY <4>2, <5>1 DEF EntryOf, Entry, Node
      <4>5. list \in Seq(Entry)
        BY <4>1, <4>3, <4>4, SortedType
      <4>6. [type |-> "list", entries |-> S] \in ToReceiverMsg
        BY <4>3, <4>4 DEF ListMsg, ToReceiverMsg
      <4> HIDE DEF S
      <4> QED
        BY <1>1, <4>1, <4>5, <4>6 DEF SenderTypes
    <3> QED
      BY <3>1, <3>2
  <2> QED
    BY <1>1, <1>4, <2>1
       DEF Collect, SenderStays, ReceiverTypes, StreamTypes, WorldTypes, receiver, env
<1>5. CASE ServeDone
  <2>1. SenderTypes'
    BY <1>1, <1>5, ShortMessages DEF ServeDone, SenderTypes
  <2>2. StreamTypes'
    BY <1>1, <1>5, TakeTypes DEF ServeDone, SenderStays, StreamTypes
  <2> QED
    BY <1>1, <1>5, <2>1, <2>2
       DEF ServeDone, SenderStays, ReceiverTypes, WorldTypes, receiver, env
<1>6. CASE ServeRequest
  <2> DEFINE m == Head(toSender)
  <2>1. m \in ToSenderMsg
    BY <1>1, <1>6, TakeTypes DEF ServeRequest
  <2>2. SenderTypes'
    <3>1. CASE SenderFails
      BY <1>1, <3>1, FailTypes
    <3>2. CASE ~SenderFails
      <4> DEFINE e == sEntries[m.index]
      <4>1. /\ m.type = "request"
            /\ m.index \in DOMAIN sEntries
            /\ m.transfer => src[e.path].kind = "file"
            /\ IF m.transfer /\ ~job.dryRun
                  THEN \E a \in Answers(m, e.path) : sOut' = <<a>>
                  ELSE sOut' = <<Echo(m)>>
            /\ UNCHANGED <<sPc, sEntries, sMarks>>
        BY <1>6, <3>2 DEF ServeRequest
      <4>2. m \in RequestMsg
        BY <2>1, <4>1, MessageKinds
      <4>3. e \in Entry
        BY <1>1, <4>1 DEF SenderTypes
      <4>4. src[e.path] \in Node
        BY <1>1, <4>3 DEF Entry, WorldTypes, Tree
      <4>5. Echo(m) \in ToReceiverMsg
        BY <4>2, NodeFacts DEF Echo, FileMsg, RequestMsg, ToReceiverMsg, NoData
      <4>6. \A a \in Answers(m, e.path) : a \in ToReceiverMsg
        <5>1. /\ m.index \in Nat /\ m.basis \in Node
              /\ src[e.path].data \in Data \cup {Torn}
          BY <4>2, <4>4 DEF RequestMsg, Node
        <5>2. \A c \in BOOLEAN :
                [type |-> "file", index |-> m.index, transfer |-> TRUE,
                 data |-> src[e.path].data, copies |-> c, basis |-> m.basis] \in FileMsg
          BY <5>1 DEF FileMsg
        <5> QED
          BY <5>2 DEF Answers, ToReceiverMsg
      <4> QED
        BY <1>1, <4>1, <4>5, <4>6 DEF SenderTypes
    <3> QED
      BY <3>1, <3>2
  <2>3. StreamTypes'
    BY <1>1, <1>6, TakeTypes DEF ServeRequest, SenderStays, StreamTypes
  <2> QED
    BY <1>1, <1>6, <2>2, <2>3
       DEF ServeRequest, SenderStays, ReceiverTypes, WorldTypes, receiver, env
<1>7. CASE ReadGoodbye
  <2>1. SenderTypes'
    <3>1. CASE SenderFails
      BY <1>1, <3>1, FailTypes
    <3>2. CASE ~SenderFails
      <4>1. /\ sPc' = "adieu" \/ sPc' = "done"
            /\ sOut' = <<Done>> \/ sOut' = <<>>
            /\ UNCHANGED <<sEntries, sMarks>>
        BY <1>7, <3>2 DEF ReadGoodbye
      <4>2. sOut' \in Seq(ToReceiverMsg)
        <5>1. <<Done>> \in Seq(ToReceiverMsg) /\ <<>> \in Seq(ToReceiverMsg)
          BY ShortMessages
        <5> QED
          BY <4>1, <5>1
      <4> QED
        BY <1>1, <4>1, <4>2 DEF SenderTypes
    <3> QED
      BY <3>1, <3>2
  <2>2. StreamTypes'
    BY <1>1, <1>7, TakeTypes DEF ReadGoodbye, SenderStays, StreamTypes
  <2> QED
    BY <1>1, <1>7, <2>1, <2>2
       DEF ReadGoodbye, SenderStays, ReceiverTypes, WorldTypes, receiver, env
<1>8. CASE SenderWrites
  BY <1>1, <1>8
     DEF SenderWrites, SenderTypes, ReceiverTypes, StreamTypes, WorldTypes, receiver, env
<1>9. CASE SenderDisconnected
  BY <1>1, <1>9, FailTypes
     DEF SenderDisconnected, ReceiverTypes, StreamTypes, WorldTypes, receiver, env
<1> QED
  BY <1>2, <1>3, <1>4, <1>5, <1>6, <1>7, <1>8, <1>9 DEF SenderStep

\* Each step of the receiver that touches neither the tree nor the plan.
LEMMA ReceiverTalkTypes ==
    ASSUME TypeOK,
           \/ ReceiverSendsMarker \/ ReceiverExpectsList \/ ReceiverReadsMarker
           \/ Prepared \/ RequestsDone \/ ReceiveDone \/ ReadAck \/ ReadStats
           \/ ReadGoodbyeAck \/ ReceiverEnds \/ ReceiverWrites \/ ReceiverDisconnected
    PROVE  TypeOK'
<1> USE TypeParts
<1>1. SenderTypes /\ ReceiverTypes /\ StreamTypes /\ WorldTypes
  OBVIOUS
<1>2. <<Done>> \in Seq(ToSenderMsg) /\ <<Marker>> \in Seq(ToSenderMsg)
      /\ <<>> \in Seq(ToSenderMsg)
  BY ShortMessages
<1>3. /\ UNCHANGED <<job, src, fs, cut, sPc, sOut, sEntries, sMarks, faults, edits>>
      /\ \/ ReceiverTakes /\ toSender' = toSender
         \/ toReceiver' = toReceiver /\ toSender' = toSender
         \/ ReceiverWrites
  BY DEF ReceiverSendsMarker, ReceiverExpectsList, ReceiverReadsMarker, Prepared,
         RequestsDone, ReceiveDone, ReadAck, ReadStats, ReadGoodbyeAck, ReceiverEnds,
         ReceiverWrites, ReceiverDisconnected, ReceiverStays, sender, env
<1>4. SenderTypes' /\ WorldTypes'
  BY <1>1, <1>3 DEF SenderTypes, WorldTypes
<1>5. StreamTypes'
  <2>1. CASE ReceiverTakes /\ toSender' = toSender
    BY <1>1, <2>1, TakeTypes DEF StreamTypes
  <2>2. CASE toReceiver' = toReceiver /\ toSender' = toSender
    BY <1>1, <2>2 DEF StreamTypes
  <2>3. CASE ReceiverWrites
    <3>1. Head(rOut) \in ToSenderMsg
      BY <1>1, <2>3, SeqParts DEF ReceiverWrites, ReceiverTypes
    <3> QED
      BY <1>1, <2>3, <3>1 DEF ReceiverWrites, StreamTypes
  <2> QED
    BY <1>3, <2>1, <2>2, <2>3
<1>6. ReceiverTypes'
  <2>1. CASE ReceiverFails
    BY <1>1, <2>1, FailTypes
  <2>2. CASE ReceiverSendsMarker \/ ReceiverExpectsList \/ Prepared
             \/ RequestsDone \/ ReceiverEnds
    BY <1>1, <1>2, <2>2
       DEF ReceiverSendsMarker, ReceiverExpectsList, Prepared, RequestsDone, ReceiverEnds,
           ReceiverTypes
  <2>3. CASE ReceiverReadsMarker /\ ~ReceiverFails
    BY <1>1, <2>3 DEF ReceiverReadsMarker, ReceiverTypes
  <2>4. ASSUME NEW n \in Nat, AfterRound(n), UNCHANGED <<rEntries, plan, want>>
        PROVE  ReceiverTypes'
    <3>1. /\ rPc' = "ack" \/ rPc' = "stats" \/ rPc' = "bye"
          /\ rOut' = <<Done>> \/ rOut' = <<>>
          /\ rRound' = n \/ rRound' = n + 1
      BY <2>4 DEF AfterRound
    <3>2. rOut' \in Seq(ToSenderMsg)
      BY <1>2, <3>1
    <3>3. rRound' \in Nat
      BY <2>4, <3>1
    <3> QED
      BY <1>1, <2>4, <3>1, <3>2, <3>3 DEF ReceiverTypes
  <2>5. CASE ReceiveDone
    BY <2>4, <2>5 DEF ReceiveDone
  <2>6. CASE ReadAck /\ ~ReceiverFails
    <3>1. AfterRound(rRound) /\ UNCHANGED <<rEntries, plan, want>>
      BY <2>6 DEF ReadAck
    <3>2. rRound \in Nat
      BY <1>1 DEF ReceiverTypes
    <3> QED
      BY <2>4, <3>1, <3>2
  <2>7. CASE (ReadStats \/ ReadGoodbyeAck) /\ ~ReceiverFails
    <3>1. /\ rPc' = "bye" \/ rPc' = "last"
          /\ rOut' = <<Done>>
          /\ UNCHANGED <<rEntries, rRound, plan, want>>
      BY <2>7 DEF ReadStats, ReadGoodbyeAck
    <3> QED
      BY <1>1, <1>2, <3>1 DEF ReceiverTypes
  <2>8. CASE ReceiverWrites
    <3>1. Tail(rOut) \in Seq(ToSenderMsg)
      BY <1>1, <2>8, SeqParts DEF ReceiverWrites, ReceiverTypes
    <3> QED
      BY <1>1, <2>8, <3>1 DEF ReceiverWrites, ReceiverTypes
  <2>9. CASE ReceiverDisconnected
    BY <2>1, <2>9 DEF ReceiverDisconnected
  <2> QED
    BY <2>1, <2>2, <2>3, <2>5, <2>6, <2>7, <2>8, <2>9
<1> QED
  BY <1>4, <1>5, <1>6

\* An entry of the receiver's list names a path.
LEMMA ListedPath ==
    ASSUME TypeOK, NEW i \in DOMAIN rEntries
    PROVE  rEntries[i] \in Entry /\ rEntries[i].path \in Path /\ i \in Nat
<1>1. rEntries \in Seq(Entry)
  BY DEF TypeOK
<1>2. i \in Nat /\ rEntries[i] \in Entry
  BY <1>1
<1> QED
  BY <1>2 DEF Entry

\* An answer that rebuilds gives a node.
LEMMA ReceivedType ==
    ASSUME TypeOK, NEW m \in FileMsg, m.index \in DOMAIN rEntries
    PROVE  /\ Received(m, rEntries[m.index]) \in Tree
           /\ Put(fs, rEntries[m.index].path, File(m.data, Now)) \in Tree
           /\ Put(fs, rEntries[m.index].path, File(Torn, Now)) \in Tree
<1> DEFINE e == rEntries[m.index]
<1>1. e \in Entry /\ e.path \in Path
  BY ListedPath
<1>2. fs \in Tree
  BY DEF TypeOK
<1>3. m.data \in Data \cup {Torn} /\ Rebuilt(m, fs[e.path]) \in Data \cup {Torn}
  BY DEF FileMsg, Rebuilt
<1>4. e.mtime \in Stamp \cup {Now}
  BY <1>1 DEF Entry
<1>5. /\ File(Rebuilt(m, fs[e.path]), IF job.preserveTimes THEN e.mtime ELSE Now) \in Node
      /\ File(m.data, Now) \in Node
      /\ File(Torn, Now) \in Node
  BY <1>3, <1>4, NodeFacts
<1> QED
  BY <1>1, <1>2, <1>5, TreeOps DEF Received

\* Each step of the receiver that works on its tree or its plan.
LEMMA ReceiverWorkTypes ==
    ASSUME TypeOK,
           \/ ReadList \/ DeleteExtra \/ MakeListedDir \/ RequestFile \/ ReceiveFile
           \/ ReceiveFileFails
    PROVE  TypeOK'
<1> USE TypeParts
<1>1. SenderTypes /\ ReceiverTypes /\ StreamTypes /\ WorldTypes
  OBVIOUS
<1>2. /\ UNCHANGED <<job, src, cut, toSender, sPc, sOut, sEntries, sMarks, edits>>
      /\ ReceiverTakes \/ toReceiver' = toReceiver
      /\ faults' = faults \/ (faults' = faults + 1 /\ faults < MaxFaults)
  BY DEF ReadList, DeleteExtra, MakeListedDir, RequestFile, ReceiveFile, ReceiveFileFails,
         ReceiverStays, sender, env
<1>3. SenderTypes' /\ StreamTypes'
  BY <1>1, <1>2, TakeTypes DEF SenderTypes, StreamTypes
<1>4. ASSUME fs' \in Tree
      PROVE  WorldTypes'
  BY <1>1, <1>2, <1>4, SessionAssumption DEF WorldTypes
<1>5. fs \in Tree /\ Top \in Path /\ Dest \subseteq Path
  BY <1>1, JobFacts DEF WorldTypes
<1>6. \A f \in Tree : Effect(f) \in Tree
  BY <1>5 DEF Effect
<1>7. ReceiverTakes => Head(toReceiver) \in ToReceiverMsg
  BY <1>1, TakeTypes
<1>8. CASE ReceiverFails /\ ~ReceiveFileFails
  <2>1. fs' = fs
    <3>1. CASE ReadList
      BY <1>8, <3>1 DEF ReadList, ReceiverFails
    <3>2. CASE MakeListedDir
      BY <1>8, <3>2 DEF MakeListedDir, ReceiverFails
    <3>3. CASE ReceiveFile
      BY <1>8, <3>3 DEF ReceiveFile, ReceiverFails
    <3>4. CASE DeleteExtra
      BY <1>8, <3>4 DEF DeleteExtra, ReceiverFails
    <3>5. CASE RequestFile
      BY <1>8, <3>5 DEF RequestFile
    <3> QED
      BY <1>8, <3>1, <3>2, <3>3, <3>4, <3>5
  <2> QED
    BY <1>1, <1>3, <1>4, <1>5, <1>8, <2>1, FailTypes
<1>9. CASE ReadList /\ ~ReceiverFails
  <2> DEFINE m == Head(toReceiver)
  <2>1. PICK list \in ReceiverOrders(m.entries) :
          /\ m.type = "list"
          /\ rEntries' = list
          /\ want' = Needed(list)
          /\ plan' = [extras |-> IF job.delete THEN LocalExtras(m.entries) ELSE {},
                      dirs |-> {i \in DOMAIN list : /\ Selected(list[i])
                                                    /\ list[i].kind = "dir"
                                                    /\ list[i].path # Top},
                      ask |-> want']
          /\ rPc' = "prepare"
          /\ fs' = IF Exists(fs, Top) THEN fs ELSE Effect(MakeDir(fs, Top))
          /\ UNCHANGED <<rOut, rRound>>
    BY <1>9 DEF ReadList
  <2>2. m \in ListMsg
    BY <1>7, <1>9, <2>1, MessageKinds DEF ReadList
  <2>3. IsFiniteSet(m.entries) /\ m.entries \subseteq Entry
    BY <2>2 DEF ListMsg
  <2>4. list \in Seq(Entry)
    BY <2>1, <2>3, SortedType
  <2>5. Needed(list) \subseteq DOMAIN list /\ DOMAIN list \subseteq Nat
    BY <2>4 DEF Needed
  <2>6. LocalExtras(m.entries) \subseteq Dest
    BY DEF LocalExtras
  <2>7. ReceiverTypes'
    BY <1>1, <2>1, <2>4, <2>5, <2>6 DEF ReceiverTypes
  <2>8. fs' \in Tree
    BY <1>5, <1>6, <2>1, TreeOps
  <2> QED
    BY <1>3, <1>4, <2>7, <2>8
<1>10. CASE DeleteExtra
  <2>1. PICK p \in plan.extras :
          /\ fs' = Effect(RemoveTree(fs, p))
          /\ plan' = [plan EXCEPT !.extras = @ \ {p}]
          /\ UNCHANGED <<rPc, rOut, rEntries, rRound, want>>
    BY <1>10 DEF DeleteExtra
  <2>2. p \in Path
    BY <1>1, <1>5 DEF ReceiverTypes
  <2>3. fs' \in Tree
    BY <1>5, <1>6, <2>1, <2>2, TreeOps
  <2>4. ReceiverTypes'
    BY <1>1, <2>1 DEF ReceiverTypes
  <2> QED
    BY <1>3, <1>4, <2>3, <2>4
<1>11. CASE MakeListedDir /\ ~ReceiverFails
  <2>1. PICK i \in plan.dirs :
          /\ fs' = Effect(MakeDir(fs, rEntries[i].path))
          /\ plan' = [plan EXCEPT !.dirs = @ \ {i}]
          /\ UNCHANGED <<rPc, rOut, rEntries, rRound, want>>
    BY <1>11 DEF MakeListedDir
  <2>2. rEntries[i].path \in Path
    BY <1>1, ListedPath DEF ReceiverTypes
  <2>3. fs' \in Tree
    BY <1>5, <1>6, <2>1, <2>2, TreeOps
  <2>4. ReceiverTypes'
    BY <1>1, <2>1 DEF ReceiverTypes
  <2> QED
    BY <1>3, <1>4, <2>3, <2>4
<1>12. CASE RequestFile
  <2>1. PICK i \in plan.ask :
          /\ rOut' = <<[type |-> "request", index |-> i, transfer |-> ~job.dryRun,
                        basis |-> IF job.dryRun THEN Absent ELSE Basis(rEntries[i].path)]>>
          /\ plan' = [plan EXCEPT !.ask = @ \ {i}]
          /\ UNCHANGED <<rPc, rEntries, rRound, want, fs>>
    BY <1>12 DEF RequestFile
  <2>2. i \in Nat /\ rEntries[i].path \in Path
    BY <1>1, ListedPath DEF ReceiverTypes
  <2>3. Basis(rEntries[i].path) \in Node /\ Absent \in Node
    BY <1>5, <2>2, NodeFacts DEF Basis, Tree
  <2>4. [type |-> "request", index |-> i, transfer |-> ~job.dryRun,
         basis |-> IF job.dryRun THEN Absent ELSE Basis(rEntries[i].path)] \in ToSenderMsg
    BY <2>2, <2>3, JobFacts DEF RequestMsg, ToSenderMsg
  <2>5. rOut' \in Seq(ToSenderMsg)
    BY <2>1, <2>4
  <2>6. ReceiverTypes'
    BY <1>1, <2>1, <2>5 DEF ReceiverTypes
  <2> QED
    BY <1>3, <1>4, <1>5, <2>1, <2>6
<1>13. CASE ReceiveFile /\ ~ReceiverFails
  <2> DEFINE m == Head(toReceiver)
  <2>1. /\ m.type = "file" /\ m.index \in DOMAIN rEntries
        /\ fs' = IF m.transfer /\ ~job.dryRun THEN Received(m, rEntries[m.index]) ELSE fs
        /\ UNCHANGED <<rPc, rOut, rEntries, rRound, plan, want>>
    BY <1>13 DEF ReceiveFile
  <2>2. m \in FileMsg
    BY <1>7, <1>13, <2>1, MessageKinds DEF ReceiveFile
  <2>3. fs' \in Tree
    BY <1>5, <2>1, <2>2, ReceivedType
  <2>4. ReceiverTypes'
    BY <1>1, <2>1 DEF ReceiverTypes
  <2> QED
    BY <1>3, <1>4, <2>3, <2>4
<1>14. CASE ReceiveFileFails
  <2> DEFINE m == Head(toReceiver)
  <2>1. /\ m.type = "file" /\ m.index \in DOMAIN rEntries
        /\ \/ fs' = fs
           \/ fs' = Put(fs, rEntries[m.index].path, File(m.data, Now))
           \/ fs' = Put(fs, rEntries[m.index].path, File(Torn, Now))
        /\ ReceiverFails
    BY <1>14 DEF ReceiveFileFails
  <2>2. m \in FileMsg
    BY <1>7, <1>14, <2>1, MessageKinds DEF ReceiveFileFails
  <2>3. fs' \in Tree
    BY <1>5, <2>1, <2>2, ReceivedType
  <2> QED
    BY <1>1, <1>3, <1>4, <2>1, <2>3, FailTypes
<1> QED
  BY <1>8, <1>9, <1>10, <1>11, <1>12, <1>13, <1>14

\* What happens around the session keeps the types.
LEMMA AroundTypes ==
    ASSUME TypeOK, Cut \/ SenderAborts \/ ReceiverAborts \/ Edit
    PROVE  TypeOK'
<1> USE TypeParts
<1>1. SenderTypes /\ ReceiverTypes /\ StreamTypes /\ WorldTypes
  OBVIOUS
<1>2. CASE Cut
  BY <1>1, <1>2, SessionAssumption
     DEF Cut, SenderTypes, ReceiverTypes, StreamTypes, WorldTypes, sender, receiver
<1>3. CASE SenderAborts
  BY <1>1, <1>3, FailTypes, SessionAssumption
     DEF SenderAborts, ReceiverTypes, StreamTypes, WorldTypes, receiver
<1>4. CASE ReceiverAborts
  BY <1>1, <1>4, FailTypes, SessionAssumption
     DEF ReceiverAborts, SenderTypes, StreamTypes, WorldTypes, sender
<1>5. CASE Edit
  <2>0. PICK p \in Dest : \E d \in Versions[p], t \in Stamp :
          \/ src' = [src EXCEPT ![p] = File(d, t)] /\ UNCHANGED fs
          \/ fs' = [fs EXCEPT ![p] = File(d, t)] /\ UNCHANGED src
    BY <1>5 DEF Edit
  <2>1. PICK d \in Versions[p], t \in Stamp :
          \/ src' = [src EXCEPT ![p] = File(d, t)] /\ UNCHANGED fs
          \/ fs' = [fs EXCEPT ![p] = File(d, t)] /\ UNCHANGED src
    BY <2>0
  <2>2. File(d, t) \in Node
    <3>1. Versions[p] \subseteq Data
      BY JobFacts, SessionAssumption
    <3> QED
      BY <3>1, NodeFacts
  <2>3. src' \in Tree /\ fs' \in Tree
    BY <1>1, <2>1, <2>2 DEF WorldTypes, Tree
  <2>4. WorldTypes'
    BY <1>1, <1>5, <2>3, SessionAssumption DEF Edit, WorldTypes
  <2> QED
    BY <1>1, <1>5, <2>4
       DEF Edit, SenderTypes, ReceiverTypes, StreamTypes, sender, receiver
<1> QED
  BY <1>2, <1>3, <1>4, <1>5

\* No step leaves the types.
LEMMA TypeStep ==
    ASSUME TypeOK, [Next]_vars
    PROVE  TypeOK'
<1>1. CASE SenderStep
  BY <1>1, SenderStepTypes
<1>2. CASE ReceiverStep \/ ReceiveFileFails
  BY <1>2, ReceiverTalkTypes, ReceiverWorkTypes DEF ReceiverStep
<1>3. CASE Cut \/ SenderAborts \/ ReceiverAborts \/ Edit
  BY <1>3, AroundTypes
<1>4. CASE UNCHANGED vars
  BY <1>4 DEF vars, sender, receiver, env, TypeOK
<1> QED
  BY <1>1, <1>2, <1>3, <1>4 DEF Next

\* The types hold at the start.
LEMMA TypeInit == Init => TypeOK
<1> SUFFICES ASSUME Init
             PROVE  TypeOK
  OBVIOUS
<1>1. SenderTypes
  BY DEF Init, SenderTypes
<1>2. ReceiverTypes
  BY DEF Init, ReceiverTypes
<1>3. StreamTypes
  BY DEF Init, StreamTypes
<1>4. WorldTypes
  <2>1. /\ job \in Jobs /\ src \in Sources /\ fs \in Disks
        /\ cut = FALSE /\ faults = 0 /\ edits = 0
    BY DEF Init
  <2>2. Sources \subseteq Tree /\ Disks \subseteq Tree /\ MaxFaults \in Nat /\ MaxEdits \in Nat
    BY SessionAssumption
  <2>3. src \in Tree /\ fs \in Tree
    BY <2>1, <2>2
  <2>4. faults \in 0 .. MaxFaults /\ edits \in 0 .. MaxEdits
    BY <2>1, <2>2
  <2> QED
    BY <2>1, <2>3, <2>4 DEF WorldTypes
<1> QED
  BY <1>1, <1>2, <1>3, <1>4, TypeParts

\* Every variable keeps its type: in particular what the receiver still has to
\* make or to request lies within the list that it accepted, so no request names
\* a position out of range (request_remote_sender_files).
THEOREM TypeCorrect == Spec => []TypeOK
<1>1. Init => TypeOK
  BY TypeInit
<1>2. TypeOK /\ [Next]_vars => TypeOK'
  BY TypeStep
<1> QED
  BY <1>1, <1>2, PTL DEF Spec

-----------------------------------------------------------------------------
(* The right file                                                          *)

\* Neither end has a list before it made or read one.
Fresh ==
    /\ sPc \in {"marker", "collect"} => sEntries = <<>>
    /\ rPc \in {"marker", "list"} => rEntries = <<>>

\* Whoever edits the source, a file keeps to its contents.
SourceRight == \A p \in Path : src[p].kind = "file" => src[p].data \in Versions[p]

\* An answer with data carries a content of the file at its position of the
\* sender's list.
RightMsg ==
    {m \in ToReceiverMsg :
        m.type = "file" /\ m.transfer /\ ~job.dryRun =>
            m.index \in DOMAIN sEntries /\ m.data \in Versions[sEntries[m.index].path]}

AnswersRight == toReceiver \in Seq(RightMsg) /\ sOut \in Seq(RightMsg)

\* The inductive invariant.
RightInv == TypeOK /\ Fresh /\ SourceRight /\ AnswersRight /\ RightFileIfSameOrder

\* A list is made once, from an empty one, and a session never starts over.
LEMMA ListsMadeOnce ==
    ASSUME Next
    PROVE  /\ job' = job
           /\ sEntries' = sEntries \/ (sPc = "collect" /\ sPc' = "serve")
           /\ rEntries' = rEntries \/ (rPc = "list" /\ rPc' = "prepare")
           /\ sPc' \in {"marker", "collect"} => sPc \in {"marker", "collect"}
           /\ rPc' \in {"marker", "list"} => rPc \in {"marker", "list"}
<1>1. CASE SenderStep
  <2>1. UNCHANGED <<job, rPc, rEntries>>
    BY <1>1 DEF SenderStep, SenderSendsMarker, SenderReadsMarker, Collect, ServeDone,
         ServeRequest, ReadGoodbye, SenderWrites, SenderDisconnected, SenderStays, receiver
  <2>2. CASE SenderFails
    BY <2>1, <2>2 DEF SenderFails
  <2>3. CASE SenderSendsMarker \/ SenderReadsMarker \/ SenderWrites \/ SenderDisconnected
    BY <2>1, <2>2, <2>3
       DEF SenderSendsMarker, SenderReadsMarker, SenderWrites, SenderDisconnected
  <2>4. CASE Collect
    BY <2>1, <2>2, <2>4 DEF Collect
  <2>5. CASE ServeDone
    BY <2>1, <2>5 DEF ServeDone
  <2>6. CASE ServeRequest
    BY <2>1, <2>2, <2>6 DEF ServeRequest
  <2>7. CASE ReadGoodbye
    <3>1. SenderFails \/ ((sPc' = "adieu" \/ sPc' = "done") /\ sEntries' = sEntries)
      BY <2>7 DEF ReadGoodbye
    <3> QED
      BY <2>1, <2>2, <3>1
  <2> QED
    BY <1>1, <2>3, <2>4, <2>5, <2>6, <2>7 DEF SenderStep
<1>2. CASE ReceiverStep \/ ReceiveFileFails
  <2>1. UNCHANGED <<job, sPc, sEntries>>
    BY <1>2 DEF ReceiverStep, ReceiverSendsMarker, ReceiverExpectsList, ReceiverReadsMarker,
         ReadList, DeleteExtra, MakeListedDir, Prepared, RequestFile, RequestsDone,
         ReceiveFile, ReceiveFileFails, ReceiveDone, ReadAck, ReadStats, ReadGoodbyeAck,
         ReceiverEnds, ReceiverWrites, ReceiverDisconnected, ReceiverStays, sender
  <2>2. CASE ReceiverFails
    BY <2>1, <2>2 DEF ReceiverFails
  <2>3. CASE ReadList
    BY <2>1, <2>2, <2>3 DEF ReadList
  <2>4. CASE ReceiverSendsMarker \/ ReceiverExpectsList \/ ReceiverReadsMarker
             \/ DeleteExtra \/ Prepared \/ RequestFile \/ RequestsDone \/ ReceiverEnds
             \/ ReceiverWrites \/ ReceiverDisconnected \/ ReceiveFileFails
    BY <2>1, <2>2, <2>4
       DEF ReceiverSendsMarker, ReceiverExpectsList, ReceiverReadsMarker, DeleteExtra,
           Prepared, RequestFile, RequestsDone, ReceiverEnds, ReceiverWrites,
           ReceiverDisconnected, ReceiveFileFails
  <2>5. CASE MakeListedDir \/ ReceiveFile
    BY <2>1, <2>2, <2>5 DEF MakeListedDir, ReceiveFile
  <2>6. CASE ReceiveDone \/ ReadAck \/ ReadStats \/ ReadGoodbyeAck
    <3>1. ASSUME NEW n, AfterRound(n)
          PROVE  rPc' = "ack" \/ rPc' = "stats" \/ rPc' = "bye"
      BY <3>1 DEF AfterRound
    <3>2. \/ ReceiverFails
          \/ rEntries' = rEntries /\ (rPc' = "ack" \/ rPc' = "stats" \/ rPc' = "bye" \/ rPc' = "last")
      BY <2>6, <3>1 DEF ReceiveDone, ReadAck, ReadStats, ReadGoodbyeAck
    <3> QED
      BY <2>1, <2>2, <3>2
  <2> QED
    BY <1>2, <2>3, <2>4, <2>5, <2>6 DEF ReceiverStep
<1>3. CASE Cut \/ SenderAborts \/ ReceiverAborts \/ Edit
  BY <1>3 DEF Cut, SenderAborts, ReceiverAborts, Edit, SenderFails, ReceiverFails, sender,
       receiver
<1> QED
  BY <1>1, <1>2, <1>3 DEF Next

\* Lists that agree after a step agreed before it.
LEMMA OrderKept ==
    ASSUME Fresh, Next
    PROVE  Fresh' /\ (SameOrder' => SameOrder)
<1>1. Fresh'
  BY ListsMadeOnce DEF Fresh
<1>2. CASE sEntries' = sEntries /\ rEntries' = rEntries
  BY <1>1, <1>2 DEF SameOrder
<1>3. CASE sEntries = <<>> \/ rEntries = <<>>
  BY <1>1, <1>3 DEF SameOrder
<1> QED
  BY <1>2, <1>3, ListsMadeOnce DEF Fresh

\* Answers that were right stay so: the list they refer to does not change.
LEMMA AnswersKept ==
    ASSUME Fresh, Next
    PROVE  RightMsg \subseteq RightMsg'
<1>1. job' = job
  BY ListsMadeOnce
<1>2. sEntries' = sEntries \/ sEntries = <<>>
  BY ListsMadeOnce DEF Fresh
<1>3. DOMAIN <<>> = {}
  OBVIOUS
<1>4. SUFFICES ASSUME NEW m \in RightMsg
               PROVE  m \in RightMsg'
  OBVIOUS
<1>5. CASE sEntries' = sEntries
  BY <1>1, <1>5 DEF RightMsg
<1>6. CASE sEntries = <<>>
  BY <1>1, <1>3, <1>6 DEF RightMsg
<1> QED
  BY <1>2, <1>5, <1>6

\* Nothing is a sequence of anything.
LEMMA EmptySeq == \A S : <<>> \in Seq(S)
OBVIOUS

\* What is written or read keeps the streams right.
LEMMA StreamsKept ==
    ASSUME RightInv, Next,
           toReceiver' = toReceiver \/ toReceiver' = <<>> \/ ReceiverTakes \/ SenderWrites
    PROVE  toReceiver' \in Seq(RightMsg')
<1>1. RightMsg \subseteq RightMsg'
  BY AnswersKept DEF RightInv
<1>2. toReceiver \in Seq(RightMsg) /\ sOut \in Seq(RightMsg)
  BY DEF RightInv, AnswersRight
<1>3. toReceiver' \in Seq(RightMsg)
  <2>1. CASE ReceiverTakes
    BY <1>2, <2>1, SeqParts DEF ReceiverTakes
  <2>2. CASE SenderWrites
    <3>1. Head(sOut) \in RightMsg
      BY <1>2, <2>2, SeqParts DEF SenderWrites
    <3> QED
      BY <1>2, <2>2, <3>1 DEF SenderWrites
  <2>3. CASE toReceiver' = toReceiver \/ toReceiver' = <<>>
    BY <1>2, <2>3, EmptySeq
  <2> QED
    BY <2>1, <2>2, <2>3
<1> QED
  BY <1>1, <1>3

\* The short messages and a list carry no data.
LEMMA PlainMsg ==
    ASSUME NEW m \in ToReceiverMsg, m.type # "file"
    PROVE  m \in RightMsg /\ m \in RightMsg'
BY DEF RightMsg

\* What the sender puts out is right.
LEMMA OutKept ==
    ASSUME RightInv, Next, TypeOK'
    PROVE  sOut' \in Seq(RightMsg')
<1>1. RightMsg \subseteq RightMsg'
  BY AnswersKept DEF RightInv
<1>2. sOut \in Seq(RightMsg)
  BY DEF RightInv, AnswersRight
<1>3. sOut' \in Seq(ToReceiverMsg)
  BY DEF TypeOK
<1>4. CASE sOut' = sOut \/ sOut' = <<>>
  <2>1. sOut' \in Seq(RightMsg)
    BY <1>2, <1>4, EmptySeq
  <2> QED
    BY <1>1, <2>1
<1>5. CASE \A i \in DOMAIN sOut' : sOut'[i].type # "file"
  <2>1. \A i \in DOMAIN sOut' : sOut'[i] \in RightMsg'
    BY <1>3, <1>5, PlainMsg
  <2> QED
    BY <1>3, <2>1
<1>6. Done.type = "done" /\ Marker.type = "marker" /\ Stats.type = "stats"
  BY DEF Done, Marker, Stats
<1>7. CASE SenderFails
  BY <1>4, <1>7 DEF SenderFails
<1>8. CASE SenderSendsMarker
  BY <1>4, <1>5, <1>6, <1>8 DEF SenderSendsMarker
<1>9. CASE SenderReadsMarker \/ SenderDisconnected
  BY <1>4, <1>7, <1>9 DEF SenderReadsMarker, SenderDisconnected
<1>10. CASE Collect
  <2>1. SenderFails \/ \E S : sOut' = <<[type |-> "list", entries |-> S]>>
    BY <1>10 DEF Collect
  <2> QED
    BY <1>5, <1>7, <2>1
<1>11. CASE ServeDone
  <2> DEFINE D == {Done, Stats}
  <2>1. sOut' = <<Done>> \o <<Stats>> \/ sOut' = <<Done>> \o <<>>
    BY <1>11 DEF ServeDone
  <2>2. <<Done>> \in Seq(D) /\ <<Stats>> \in Seq(D) /\ <<>> \in Seq(D)
    OBVIOUS
  <2> HIDE DEF D
  <2>3. sOut' \in Seq(D)
    <3>1. \A s, t \in Seq(D) : s \o t \in Seq(D)
      OBVIOUS
    <3>2. <<Done>> \o <<Stats>> \in Seq(D) /\ <<Done>> \o <<>> \in Seq(D)
      BY <2>2, <3>1, Zenon
    <3> QED
      BY <2>1, <3>2, Zenon
  <2>4. \A i \in DOMAIN sOut' : sOut'[i] \in D
    BY <2>3
  <2> QED
    BY <1>5, <1>6, <2>4 DEF D
<1>12. CASE ServeRequest /\ ~SenderFails
  <2> DEFINE m == Head(toSender)
  <2> DEFINE e == sEntries[m.index]
  <2>1. /\ m.type = "request"
        /\ m.index \in DOMAIN sEntries
        /\ m.transfer => src[e.path].kind = "file"
        /\ IF m.transfer /\ ~job.dryRun
              THEN \E a \in Answers(m, e.path) : sOut' = <<a>>
              ELSE sOut' = <<Echo(m)>>
        /\ sEntries' = sEntries
    BY <1>12 DEF ServeRequest
  <2>2. PICK a : sOut' = <<a>> /\ (a = Echo(m) \/ a \in Answers(m, e.path))
                 /\ (m.transfer /\ ~job.dryRun => a \in Answers(m, e.path))
    BY <2>1
  <2>3. a \in ToReceiverMsg
    BY <1>3, <2>2
  <2>4. e.path \in Path
    <3>1. sEntries \in Seq(Entry)
      BY DEF RightInv, TypeOK
    <3>2. e \in Entry
      BY <2>1, <3>1
    <3> QED
      BY <3>2 DEF Entry
  <2>5. a \in RightMsg
    <3>1. CASE a = Echo(m) /\ ~(m.transfer /\ ~job.dryRun)
      BY <2>3, <3>1 DEF Echo, RightMsg
    <3>2. CASE m.transfer /\ ~job.dryRun
      <4>1. src[e.path].data \in Versions[e.path]
        BY <2>1, <2>4, <3>2 DEF RightInv, SourceRight
      <4>2. a.index = m.index /\ a.data = src[e.path].data
        BY <2>2, <3>2 DEF Answers
      <4> QED
        BY <2>1, <2>3, <4>1, <4>2 DEF RightMsg
    <3>3. CASE a \in Answers(m, e.path) /\ ~(m.transfer /\ ~job.dryRun)
      <4>1. sOut' = <<Echo(m)>>
        BY <2>1, <3>3
      <4>2. a = Echo(m)
        BY <2>2, <4>1
      <4> QED
        BY <3>1, <3>3, <4>2
    <3> QED
      BY <2>2, <3>1, <3>2, <3>3
  <2> QED
    BY <1>1, <2>2, <2>5
<1>13. CASE ReadGoodbye /\ ~SenderFails
  <2>1. sOut' = <<Done>> \/ sOut' = <<>>
    BY <1>13 DEF ReadGoodbye
  <2> QED
    BY <1>4, <1>5, <1>6, <2>1
<1>14. CASE SenderWrites
  <2>1. sOut' \in Seq(RightMsg)
    BY <1>2, <1>14, SeqParts DEF SenderWrites
  <2> QED
    BY <1>1, <2>1
<1>15. CASE ReceiverStep \/ ReceiveFileFails \/ Cut \/ SenderAborts \/ ReceiverAborts \/ Edit
  <2>1. SenderFails \/ sOut' = sOut
    BY <1>15 DEF ReceiverStep, ReceiverSendsMarker, ReceiverExpectsList, ReceiverReadsMarker,
         ReadList, DeleteExtra, MakeListedDir, Prepared, RequestFile, RequestsDone,
         ReceiveFile, ReceiveFileFails, ReceiveDone, ReadAck, ReadStats, ReadGoodbyeAck,
         ReceiverEnds, ReceiverWrites, ReceiverDisconnected, ReceiverStays, sender,
         Cut, SenderAborts, ReceiverAborts, Edit
  <2> QED
    BY <1>4, <1>7, <2>1
<1> QED
  BY <1>7, <1>8, <1>9, <1>10, <1>11, <1>12, <1>13, <1>14, <1>15 DEF Next, SenderStep

\* The primitives bring no file into being but the one that is put.
LEMMA NoOtherFile ==
    ASSUME NEW f \in Tree, NEW p \in Path
    PROVE  /\ \A q \in Path : MakeDir(f, p)[q].kind = "file" => MakeDir(f, p)[q] = f[q]
           /\ \A q \in Path : RemoveTree(f, p)[q].kind = "file" => RemoveTree(f, p)[q] = f[q]
           /\ \A n \in Node : \A q \in Path :
                Put(f, p, n)[q].kind = "file" => Put(f, p, n)[q] = f[q] \/ (q = p /\ Put(f, p, n)[q] = n)
<1>1. f \in [Path -> Node] /\ MakeParents(f, p) \in [Path -> Node]
  BY NodeFacts DEF Tree, MakeParents
<1>2. \A q \in Path : MakeParents(f, p)[q] = Dir \/ MakeParents(f, p)[q] = f[q]
  BY DEF MakeParents
<1>3. Dir.kind # "file" /\ Absent.kind # "file"
  BY DEF Dir, Absent
<1>4. \A q \in Path : MakeDir(f, p)[q].kind = "file" => MakeDir(f, p)[q] = f[q]
  BY <1>1, <1>2, <1>3 DEF MakeDir
<1>5. \A q \in Path : RemoveTree(f, p)[q].kind = "file" => RemoveTree(f, p)[q] = f[q]
  BY <1>3 DEF RemoveTree
<1>6. \A n \in Node : \A q \in Path :
        Put(f, p, n)[q].kind = "file" => Put(f, p, n)[q] = f[q] \/ (q = p /\ Put(f, p, n)[q] = n)
  BY <1>1, <1>2, <1>3 DEF Put
<1> QED
  BY <1>4, <1>5, <1>6

\* A tree in which every file has a content of its own.
RightTree(f) ==
    \A p \in Dest : f[p].kind = "file" =>
        f[p].data \in Versions[p] \cup (IF job.inPlace THEN {Torn} ELSE {})

\* An answer that the receiver accepts is for the file it is applied to.
LEMMA AnswerRight ==
    ASSUME RightInv, SameOrder, ReceiverTakes,
           Head(toReceiver).type = "file", Head(toReceiver).index \in DOMAIN rEntries,
           Head(toReceiver).transfer, ~job.dryRun
    PROVE  LET m == Head(toReceiver)
               e == rEntries[m.index]
           IN  /\ m \in FileMsg
               /\ e.path \in Path
               /\ m.data \in Versions[e.path]
<1> DEFINE m == Head(toReceiver)
<1>1. m \in RightMsg
  BY SeqParts DEF RightInv, AnswersRight, ReceiverTakes
<1>2. m \in FileMsg
  BY <1>1, MessageKinds DEF RightMsg
<1>3. m.index \in DOMAIN sEntries /\ m.data \in Versions[sEntries[m.index].path]
  BY <1>1 DEF RightMsg
<1>4. sEntries[m.index].path = rEntries[m.index].path
  BY <1>3 DEF SameOrder
<1>5. rEntries[m.index].path \in Path
  BY ListedPath DEF RightInv
<1> QED
  BY <1>2, <1>3, <1>4, <1>5

\* Every step keeps the receiver's files right.
LEMMA FilesKept ==
    ASSUME RightInv, SameOrder, RightFile, Next
    PROVE  RightFile'
<1>1. fs \in Tree /\ Top \in Path /\ Dest \subseteq Path
  BY JobFacts DEF RightInv, TypeOK
<1>2. RightTree(fs)
  BY DEF RightFile, RightTree
<1>3. ASSUME RightTree(fs')
      PROVE  RightFile'
  BY <1>3, ListsMadeOnce DEF RightTree, RightFile
<1>4. CASE fs' = fs
  BY <1>2, <1>3, <1>4
<1>5. ASSUME NEW p \in Path, fs' = Effect(MakeDir(fs, p)) \/ fs' = Effect(RemoveTree(fs, p))
      PROVE  RightFile'
  <2>1. \A q \in Path : fs'[q].kind = "file" => fs'[q] = fs[q]
    BY <1>1, <1>5, NoOtherFile DEF Effect
  <2> QED
    BY <1>1, <1>2, <1>3, <2>1 DEF RightTree
<1>6. ASSUME NEW p \in Path, NEW n \in Node, fs' = Put(fs, p, n),
             n.data \in Versions[p] \/ (job.inPlace /\ n.data = Torn)
      PROVE  RightFile'
  <2>1. \A q \in Path : fs'[q].kind = "file" => fs'[q] = fs[q] \/ (q = p /\ fs'[q] = n)
    BY <1>1, <1>6, NoOtherFile
  <2>2. ASSUME NEW q \in Dest, fs'[q].kind = "file"
        PROVE  fs'[q].data \in Versions[q] \cup (IF job.inPlace THEN {Torn} ELSE {})
    <3>1. CASE fs'[q] = fs[q]
      BY <1>2, <2>2, <3>1 DEF RightTree
    <3>2. CASE q = p /\ fs'[q] = n
      BY <1>6, <3>2
    <3> QED
      BY <1>1, <2>1, <2>2, <3>1, <3>2
  <2> QED
    BY <1>3, <2>2 DEF RightTree
<1>7. CASE ReadList
  <2>1. fs' = fs \/ fs' = Effect(MakeDir(fs, Top))
    BY <1>7 DEF ReadList
  <2> QED
    BY <1>1, <1>4, <1>5, <2>1
<1>8. CASE DeleteExtra
  <2>1. PICK p \in plan.extras : fs' = Effect(RemoveTree(fs, p))
    BY <1>8 DEF DeleteExtra
  <2>2. p \in Path
    BY <1>1 DEF RightInv, TypeOK
  <2> QED
    BY <1>5, <2>1, <2>2
<1>9. CASE MakeListedDir
  <2>1. PICK i \in plan.dirs : fs' = fs \/ fs' = Effect(MakeDir(fs, rEntries[i].path))
    BY <1>9 DEF MakeListedDir
  <2>2. rEntries[i].path \in Path
    BY ListedPath DEF RightInv, TypeOK
  <2> QED
    BY <1>4, <1>5, <2>1, <2>2
<1>10. CASE ReceiveFile /\ fs' # fs
  <2> DEFINE m == Head(toReceiver)
  <2> DEFINE e == rEntries[m.index]
  <2> DEFINE n == File(m.data, IF job.preserveTimes THEN e.mtime ELSE Now)
  <2>1. /\ m.type = "file" /\ m.index \in DOMAIN rEntries
        /\ m.transfer /\ ~job.dryRun
        /\ Rebuilds(m, e, fs[e.path])
        /\ fs' = Received(m, e)
        /\ ReceiverTakes
    BY <1>10 DEF ReceiveFile
  <2>2. m \in FileMsg /\ e.path \in Path /\ m.data \in Versions[e.path]
    BY <2>1, AnswerRight
  <2>3. Rebuilt(m, fs[e.path]) = m.data
    BY <2>1 DEF Rebuilds, Rebuilt
  <2>4. fs' = Put(fs, e.path, n)
    BY <2>1, <2>3 DEF Received
  <2>5. n \in Node /\ n.data = m.data
    <3>1. e.mtime \in Stamp \cup {Now}
      BY <2>1, ListedPath DEF RightInv, Entry
    <3>2. m.data \in Data \cup {Torn}
      BY <2>2 DEF FileMsg
    <3>3. n.data = m.data
      BY DEF File
    <3> QED
      BY <3>1, <3>2, <3>3, NodeFacts
  <2> HIDE DEF n
  <2> QED
    BY <1>6, <2>2, <2>4, <2>5
<1>11. CASE ReceiveFileFails /\ fs' # fs
  <2> DEFINE m == Head(toReceiver)
  <2> DEFINE e == rEntries[m.index]
  <2>1. /\ m.type = "file" /\ m.index \in DOMAIN rEntries
        /\ m.transfer /\ ~job.dryRun
        /\ \/ fs' = Put(fs, e.path, File(m.data, Now))
           \/ job.inPlace /\ fs' = Put(fs, e.path, File(Torn, Now))
        /\ ReceiverTakes
    BY <1>11 DEF ReceiveFileFails
  <2>2. m \in FileMsg /\ e.path \in Path /\ m.data \in Versions[e.path]
    BY <2>1, AnswerRight
  <2>3. /\ File(m.data, Now) \in Node /\ File(m.data, Now).data = m.data
        /\ File(Torn, Now) \in Node /\ File(Torn, Now).data = Torn
    <3>1. m.data \in Data \cup {Torn}
      BY <2>2 DEF FileMsg
    <3>2. File(m.data, Now).data = m.data /\ File(Torn, Now).data = Torn
      BY DEF File
    <3> QED
      BY <3>1, <3>2, NodeFacts
  <2> QED
    BY <1>6, <2>1, <2>2, <2>3
<1>12. CASE Edit
  <2>1. PICK p \in Dest : \E d \in Versions[p], t \in Stamp :
          fs' = fs \/ fs' = [fs EXCEPT ![p] = File(d, t)]
    BY <1>12 DEF Edit
  <2>2. PICK d \in Versions[p], t \in Stamp : fs' = fs \/ fs' = [fs EXCEPT ![p] = File(d, t)]
    BY <2>1
  <2>3. CASE fs' = [fs EXCEPT ![p] = File(d, t)]
    <3>1. \A q \in Path : fs'[q] = IF q = p THEN File(d, t) ELSE fs[q]
      BY <1>1, <2>3 DEF Tree
    <3>2. File(d, t).data = d
      BY DEF File
    <3> QED
      BY <1>1, <1>2, <1>3, <3>1, <3>2 DEF RightTree
  <2> QED
    BY <1>4, <2>2, <2>3
<1>13. CASE SenderStep \/ Cut \/ SenderAborts \/ ReceiverAborts
  <2>1. fs' = fs
    BY <1>13 DEF SenderStep, SenderSendsMarker, SenderReadsMarker, Collect, ServeDone,
         ServeRequest, ReadGoodbye, SenderWrites, SenderDisconnected, SenderStays,
         Cut, SenderAborts, ReceiverAborts
  <2> QED
    BY <1>4, <2>1
<1>14. CASE \/ ReceiverSendsMarker \/ ReceiverExpectsList \/ ReceiverReadsMarker \/ Prepared
            \/ RequestFile \/ RequestsDone \/ ReceiveDone \/ ReadAck \/ ReadStats
            \/ ReadGoodbyeAck \/ ReceiverEnds \/ ReceiverWrites \/ ReceiverDisconnected
  <2>1. fs' = fs
    BY <1>14 DEF ReceiverSendsMarker, ReceiverExpectsList, ReceiverReadsMarker, Prepared,
         RequestFile, RequestsDone, ReceiveDone, ReadAck, ReadStats, ReadGoodbyeAck,
         ReceiverEnds, ReceiverWrites, ReceiverDisconnected
  <2> QED
    BY <1>4, <2>1
<1> QED
  BY <1>4, <1>7, <1>8, <1>9, <1>10, <1>11, <1>12, <1>13, <1>14 DEF Next, ReceiverStep

\* The source only ever holds contents of its own.
LEMMA SourceKept ==
    ASSUME RightInv, Next
    PROVE  SourceRight'
<1>1. src \in Tree /\ Dest \subseteq Path
  BY JobFacts DEF RightInv, TypeOK
<1>2. CASE src' = src
  BY <1>2 DEF RightInv, SourceRight
<1>3. CASE Edit
  <2>1. PICK p \in Dest : \E d \in Versions[p], t \in Stamp :
          src' = src \/ src' = [src EXCEPT ![p] = File(d, t)]
    BY <1>3 DEF Edit
  <2>2. PICK d \in Versions[p], t \in Stamp : src' = src \/ src' = [src EXCEPT ![p] = File(d, t)]
    BY <2>1
  <2>3. CASE src' = [src EXCEPT ![p] = File(d, t)]
    <3>1. \A q \in Path : src'[q] = IF q = p THEN File(d, t) ELSE src[q]
      BY <1>1, <2>3 DEF Tree
    <3>2. File(d, t).data = d
      BY DEF File
    <3> QED
      BY <3>1, <3>2 DEF RightInv, SourceRight
  <2> QED
    BY <1>2, <2>2, <2>3
<1>4. CASE SenderStep \/ ReceiverStep \/ ReceiveFileFails \/ Cut \/ SenderAborts \/ ReceiverAborts
  <2>1. src' = src
    BY <1>4 DEF SenderStep, SenderSendsMarker, SenderReadsMarker, Collect, ServeDone,
         ServeRequest, ReadGoodbye, SenderWrites, SenderDisconnected, SenderStays,
         ReceiverStep, ReceiverSendsMarker, ReceiverExpectsList, ReceiverReadsMarker,
         ReadList, DeleteExtra, MakeListedDir, Prepared, RequestFile, RequestsDone,
         ReceiveFile, ReceiveFileFails, ReceiveDone, ReadAck, ReadStats, ReadGoodbyeAck,
         ReceiverEnds, ReceiverWrites, ReceiverDisconnected, ReceiverStays,
         Cut, SenderAborts, ReceiverAborts
  <2> QED
    BY <1>2, <2>1
<1> QED
  BY <1>3, <1>4 DEF Next

\* What a step does to the stream to the receiver.
LEMMA StreamSteps ==
    ASSUME Next
    PROVE  toReceiver' = toReceiver \/ toReceiver' = <<>> \/ ReceiverTakes \/ SenderWrites
BY DEF Next, SenderStep, SenderSendsMarker, SenderReadsMarker, Collect, ServeDone,
       ServeRequest, ReadGoodbye, SenderDisconnected, SenderStays,
       ReceiverStep, ReceiverSendsMarker, ReceiverExpectsList, ReceiverReadsMarker,
       ReadList, DeleteExtra, MakeListedDir, Prepared, RequestFile, RequestsDone,
       ReceiveFile, ReceiveFileFails, ReceiveDone, ReadAck, ReadStats, ReadGoodbyeAck,
       ReceiverEnds, ReceiverWrites, ReceiverDisconnected, Cut, SenderAborts,
       ReceiverAborts, Edit

\* The invariant is inductive.
LEMMA RightStep ==
    ASSUME RightInv, [Next]_vars
    PROVE  RightInv'
<1>1. TypeOK'
  BY TypeStep DEF RightInv
<1>2. CASE Next
  <2>1. Fresh' /\ (SameOrder' => SameOrder)
    BY <1>2, OrderKept DEF RightInv
  <2>2. SourceRight'
    BY <1>2, SourceKept
  <2>3. AnswersRight'
    BY <1>1, <1>2, StreamSteps, StreamsKept, OutKept DEF AnswersRight
  <2>4. RightFileIfSameOrder'
    BY <1>2, <2>1, FilesKept DEF RightInv, RightFileIfSameOrder
  <2> QED
    BY <1>1, <2>1, <2>2, <2>3, <2>4 DEF RightInv
<1>3. CASE UNCHANGED vars
  <2>1. Fresh' /\ SourceRight' /\ RightFileIfSameOrder'
    BY <1>3 DEF RightInv, Fresh, SourceRight, RightFileIfSameOrder, SameOrder, RightFile,
         vars, sender, receiver
  <2>2. AnswersRight'
    BY <1>3 DEF RightInv, AnswersRight, RightMsg, vars, sender
  <2> QED
    BY <1>1, <2>1, <2>2 DEF RightInv
<1> QED
  BY <1>2, <1>3

\* The invariant holds at the start.
LEMMA RightStart == Init => RightInv
<1> SUFFICES ASSUME Init
             PROVE  RightInv
  OBVIOUS
<1>1. TypeOK
  BY TypeInit
<1>2. Fresh
  BY DEF Init, Fresh
<1>3. SourceRight
  <2>1. src \in Sources \cup Disks
    BY DEF Init
  <2> QED
    BY <2>1, SessionAssumption DEF SourceRight
<1>4. AnswersRight
  BY EmptySeq DEF Init, AnswersRight
<1>5. RightFile
  <2>1. fs \in Sources \cup Disks /\ Dest \subseteq Path
    BY JobFacts, <1>1 DEF Init
  <2> QED
    BY <2>1, SessionAssumption DEF RightFile
<1> QED
  BY <1>1, <1>2, <1>3, <1>4, <1>5 DEF RightInv, RightFileIfSameOrder

\* Whatever is cut, aborted or edited while the session runs, a file of the
\* receiver never gets the content of another file or a mixture of two, as long
\* as both ends order the list alike: requests and answers name a file by its
\* position only (checked_file_index), and a delta is applied to a basis that may
\* have changed since it was described (read_file_tokens_to_path_with_basis).
THEOREM RightFiles == Spec => []RightFileIfSameOrder
<1>1. Init => RightInv
  BY RightStart
<1>2. RightInv /\ [Next]_vars => RightInv'
  BY RightStep
<1>3. RightInv => RightFileIfSameOrder
  BY DEF RightInv
<1> QED
  BY <1>1, <1>2, <1>3, PTL DEF Spec

-----------------------------------------------------------------------------
(* What is kept of the receiver's tree                                     *)

\* A list that is not empty and has, with an entry, the directories above it.
ClosedList(S) ==
    /\ S # {}
    /\ \A e \in S : \A q \in Dest : e.path \in Under[q] => \E d \in S : d.path = q

ClosedMsg == {m \in ToReceiverMsg : m.type = "list" => ClosedList(m.entries)}

ListsClosed == toReceiver \in Seq(ClosedMsg) /\ sOut \in Seq(ClosedMsg)

\* Nothing to delete is selected or has anything selected below it.
ExtrasApart ==
    \A p \in plan.extras : \A i \in DOMAIN rEntries :
        Selected(rEntries[i]) => rEntries[i].path \notin SelfAndUnder(p)

\* The inductive invariant.
KeptInv ==
    /\ TypeOK /\ Fresh
    /\ WellFormed(src)
    /\ ListsClosed
    /\ ExtrasApart
    /\ plan.extras # {} => rEntries # <<>>

\* The short messages and the answers are not lists.
LEMMA ClosedPlain ==
    ASSUME NEW m \in ToReceiverMsg, m.type # "list"
    PROVE  m \in ClosedMsg
BY DEF ClosedMsg

\* Selecting a path selects the directories above it.
LEMMA MatchesAbove ==
    ASSUME NEW p \in Path, NEW q \in Path, p \in Under[q], NEW S \in SUBSET Path,
           FilesFromMatches(p, S)
    PROVE  FilesFromMatches(q, S)
<1>1. PICK s \in S : p = s \/ p \in Under[s] \/ s \in Under[p]
  BY DEF FilesFromMatches
<1>2. s \in Path
  OBVIOUS
<1>3. CASE p = s
  BY <1>3 DEF FilesFromMatches
<1>4. CASE p \in Under[s]
  BY <1>2, <1>4, TreeAssumption DEF FilesFromMatches
<1>5. CASE s \in Under[p]
  <2>1. s \in Under[q]
    BY <1>5, TreeAssumption
  <2> QED
    BY <2>1 DEF FilesFromMatches
<1> QED
  BY <1>1, <1>3, <1>4, <1>5

\* What is not filtered is in directories that are not filtered.
LEMMA UnfilteredAbove ==
    ASSUME NEW p \in Path, NEW q \in Path, p \in Under[q], NEW f,
           ~SenderPathIsFiltered(p, f)
    PROVE  ~SenderPathIsFiltered(q, f)
<1>1. SelfAndAbove(q) \subseteq SelfAndAbove(p)
  BY AboveFacts DEF SelfAndAbove
<1> QED
  BY <1>1 DEF SenderPathIsFiltered

\* No location of the destination is above its root.
LEMMA TopOutside ==
    /\ Top \in Path /\ Top \notin Dest
    /\ \A q \in Dest : Top \notin Under[q]
<1>1. Top \in Path /\ Top \notin Dest /\ Dest \subseteq Path
  BY SessionAssumption, TreeAssumption
<1>2. ASSUME NEW q \in Dest, Top \in Under[q]
      PROVE  FALSE
  <2>1. Under[q] \subseteq Dest
    BY TreeAssumption
  <2> QED
    BY <1>1, <1>2, <2>1
<1> QED
  BY <1>1, <1>2

\* What a sender offers of a tree is a closed list.
LEMMA OfferClosed ==
    ASSUME TypeOK, WellFormed(src)
    PROVE  ClosedList({EntryOf(src, p) : p \in Offered})
<1> DEFINE S == {EntryOf(src, p) : p \in Offered}
<1> DEFINE sel == IF job.pull THEN Path ELSE job.selected
<1>1. sel \in SUBSET Path
  BY JobFacts DEF Job
<1>2. \A p : EntryOf(src, p).path = p
  BY DEF EntryOf
<1>3. Offered = {Top} \cup SourceEntries(src, job.filter, sel, job.recursive)
  BY DEF Offered
<1> HIDE DEF sel
<1>4. ASSUME NEW p \in Offered, NEW q \in Dest, p \in Under[q]
      PROVE  q \in Offered
  <2>1. p \in SourceEntries(src, job.filter, sel, job.recursive)
    BY <1>3, <1>4, TopOutside
  <2>2. q \in Above(p) \cap Dest
    BY <1>4, TreeAssumption DEF Above
  <2>3. src \in Tree /\ job.recursive \in BOOLEAN
    BY JobFacts DEF TypeOK, Job
  <2> QED
    BY <1>1, <1>3, <2>1, <2>2, <2>3, SourceEntriesClosed
<1>5. S # {}
  BY <1>3
<1>6. ASSUME NEW e \in S, NEW q \in Dest, e.path \in Under[q]
      PROVE  \E d \in S : d.path = q
  <2>1. PICK p \in Offered : e = EntryOf(src, p)
    OBVIOUS
  <2>2. q \in Offered
    BY <1>2, <1>4, <1>6, <2>1
  <2> QED
    BY <1>2, <2>2
<1> QED
  BY <1>5, <1>6 DEF ClosedList

\* The sender's tree stays well formed: others only change files.
LEMMA SourceWellFormed ==
    ASSUME KeptInv, Next
    PROVE  WellFormed(src)'
<1>1. src \in Tree /\ Dest \subseteq Path
  BY JobFacts DEF KeptInv, TypeOK
<1>2. CASE src' = src
  BY <1>2 DEF KeptInv, WellFormed, Exists
<1>3. CASE Edit
  <2>1. PICK p \in Dest : \E d \in Versions[p], t \in Stamp :
          \/ src' = src
          \/ src[p].kind = "file" /\ src' = [src EXCEPT ![p] = File(d, t)]
    BY <1>3 DEF Edit
  <2>2. PICK d \in Versions[p], t \in Stamp :
          \/ src' = src
          \/ src[p].kind = "file" /\ src' = [src EXCEPT ![p] = File(d, t)]
    BY <2>1
  <2>3. CASE src[p].kind = "file" /\ src' = [src EXCEPT ![p] = File(d, t)]
    <3>1. \A q \in Path : src'[q] = IF q = p THEN File(d, t) ELSE src[q]
      BY <1>1, <2>3 DEF Tree
    <3>2. \A q \in Path : src'[q].kind = src[q].kind
      BY <2>3, <3>1 DEF File
    <3>3. \A q \in Path : Above(q) \subseteq Path
      BY AboveFacts
    <3> QED
      BY <3>2, <3>3 DEF KeptInv, WellFormed, Exists
  <2> QED
    BY <1>2, <2>2, <2>3
<1>4. CASE SenderStep \/ ReceiverStep \/ ReceiveFileFails \/ Cut \/ SenderAborts \/ ReceiverAborts
  <2>1. src' = src
    BY <1>4 DEF SenderStep, SenderSendsMarker, SenderReadsMarker, Collect, ServeDone,
         ServeRequest, ReadGoodbye, SenderWrites, SenderDisconnected, SenderStays,
         ReceiverStep, ReceiverSendsMarker, ReceiverExpectsList, ReceiverReadsMarker,
         ReadList, DeleteExtra, MakeListedDir, Prepared, RequestFile, RequestsDone,
         ReceiveFile, ReceiveFileFails, ReceiveDone, ReadAck, ReadStats, ReadGoodbyeAck,
         ReceiverEnds, ReceiverWrites, ReceiverDisconnected, ReceiverStays,
         Cut, SenderAborts, ReceiverAborts
  <2> QED
    BY <1>2, <2>1
<1> QED
  BY <1>3, <1>4 DEF Next

\* What a step does to the sender's output.
LEMMA OutSteps ==
    ASSUME Next, TypeOK'
    PROVE  \/ sOut' = sOut \/ sOut' = <<>>
           \/ SenderWrites
           \/ Collect /\ ~SenderFails
           \/ \A i \in DOMAIN sOut' : sOut'[i].type # "list"
<1>1. Done.type = "done" /\ Marker.type = "marker" /\ Stats.type = "stats"
  BY DEF Done, Marker, Stats
<1>2. SenderFails => sOut' = <<>>
  BY DEF SenderFails
<1>3. CASE SenderSendsMarker
  <2>1. sOut' = <<Marker>> \/ sOut' = <<>>
    BY <1>3 DEF SenderSendsMarker
  <2> QED
    BY <1>1, <2>1
<1>4. CASE SenderReadsMarker \/ SenderDisconnected
  BY <1>2, <1>4 DEF SenderReadsMarker, SenderDisconnected
<1>5. CASE ServeDone
  <2> DEFINE D == {Done, Stats}
  <2>1. sOut' = <<Done>> \o <<Stats>> \/ sOut' = <<Done>> \o <<>>
    BY <1>5 DEF ServeDone
  <2>2. <<Done>> \in Seq(D) /\ <<Stats>> \in Seq(D) /\ <<>> \in Seq(D)
    OBVIOUS
  <2>3. \A d \in D : d.type # "list"
    BY <1>1
  <2> HIDE DEF D
  <2>4. sOut' \in Seq(D)
    <3>1. \A s, t \in Seq(D) : s \o t \in Seq(D)
      OBVIOUS
    <3>2. <<Done>> \o <<Stats>> \in Seq(D) /\ <<Done>> \o <<>> \in Seq(D)
      BY <2>2, <3>1, Zenon
    <3> QED
      BY <2>1, <3>2, Zenon
  <2> QED
    BY <2>3, <2>4
<1>6. CASE ServeRequest /\ ~SenderFails
  <2>1. PICK a : sOut' = <<a>> /\ a.type = "file"
    BY <1>6 DEF ServeRequest, Echo, Answers
  <2> QED
    BY <2>1
<1>7. CASE ReadGoodbye /\ ~SenderFails
  <2>1. sOut' = <<Done>> \/ sOut' = <<>>
    BY <1>7 DEF ReadGoodbye
  <2> QED
    BY <1>1, <2>1
<1>8. CASE ReceiverStep \/ ReceiveFileFails \/ Cut \/ SenderAborts \/ ReceiverAborts \/ Edit
  <2>1. SenderFails \/ sOut' = sOut
    BY <1>8 DEF ReceiverStep, ReceiverSendsMarker, ReceiverExpectsList, ReceiverReadsMarker,
         ReadList, DeleteExtra, MakeListedDir, Prepared, RequestFile, RequestsDone,
         ReceiveFile, ReceiveFileFails, ReceiveDone, ReadAck, ReadStats, ReadGoodbyeAck,
         ReceiverEnds, ReceiverWrites, ReceiverDisconnected, ReceiverStays, sender,
         Cut, SenderAborts, ReceiverAborts, Edit
  <2> QED
    BY <1>2, <2>1
<1> QED
  BY <1>2, <1>3, <1>4, <1>5, <1>6, <1>7, <1>8 DEF Next, SenderStep

\* Every list that the sender puts out is closed.
LEMMA ListsStayClosed ==
    ASSUME KeptInv, Next, TypeOK'
    PROVE  ListsClosed'
<1>1. toReceiver \in Seq(ClosedMsg) /\ sOut \in Seq(ClosedMsg)
  BY DEF KeptInv, ListsClosed
<1>2. toReceiver' \in Seq(ClosedMsg)
  <2>1. CASE ReceiverTakes
    BY <1>1, <2>1, SeqParts DEF ReceiverTakes
  <2>2. CASE SenderWrites
    <3>1. Head(sOut) \in ClosedMsg
      BY <1>1, <2>2, SeqParts DEF SenderWrites
    <3> QED
      BY <1>1, <2>2, <3>1 DEF SenderWrites
  <2>3. CASE toReceiver' = toReceiver \/ toReceiver' = <<>>
    BY <1>1, <2>3, EmptySeq
  <2> QED
    BY <2>1, <2>2, <2>3, StreamSteps
<1>3. sOut' \in Seq(ToReceiverMsg)
  BY DEF TypeOK
<1>4. CASE \A i \in DOMAIN sOut' : sOut'[i].type # "list"
  <2>1. \A i \in DOMAIN sOut' : sOut'[i] \in ClosedMsg
    BY <1>3, <1>4, ClosedPlain
  <2> QED
    BY <1>2, <1>3, <2>1 DEF ListsClosed
<1>5. CASE sOut' = sOut \/ sOut' = <<>>
  BY <1>1, <1>2, <1>5, EmptySeq DEF ListsClosed
<1>6. CASE SenderWrites
  <2>1. sOut' \in Seq(ClosedMsg)
    BY <1>1, <1>6, SeqParts DEF SenderWrites
  <2> QED
    BY <1>2, <2>1 DEF ListsClosed
<1>7. CASE Collect /\ ~SenderFails
  <2> DEFINE S == {EntryOf(src, p) : p \in Offered}
  <2> DEFINE m == [type |-> "list", entries |-> S]
  <2>1. sOut' = <<m>>
    BY <1>7 DEF Collect
  <2>2. ClosedList(S)
    BY OfferClosed DEF KeptInv
  <2>3. m.entries = S
    OBVIOUS
  <2> HIDE DEF m, S
  <2>4. m \in ToReceiverMsg
    BY <1>3, <2>1
  <2>5. m \in ClosedMsg
    BY <2>2, <2>3, <2>4 DEF ClosedMsg
  <2> QED
    BY <1>2, <2>1, <2>5 DEF ListsClosed
<1> QED
  BY <1>4, <1>5, <1>6, <1>7, OutSteps

\* A list that is put in order keeps its entries.
LEMMA OrderedList ==
    ASSUME NEW S, IsFiniteSet(S), S # {}, NEW list \in ReceiverOrders(S)
    PROVE  /\ list # <<>>
           /\ \A i \in DOMAIN list : list[i] \in S
<1>1. Cardinality(S) \in Nat /\ Cardinality(S) # 0
  BY FS_CardinalityType, FS_EmptySet
<1>2. list \in [1 .. Cardinality(S) -> S]
  BY DEF ReceiverOrders, InCollectedOrder, InIndexOrder, Sorted
<1>3. 1 \in DOMAIN list
  BY <1>1, <1>2
<1>4. DOMAIN <<>> = {}
  OBVIOUS
<1> QED
  BY <1>2, <1>3, <1>4

\* What is selected has the directories above it selected.
LEMMA SelectedAbove ==
    ASSUME TypeOK, NEW e \in Entry, NEW d \in Entry, Selected(e),
           d.path \in Dest, e.path \in Under[d.path]
    PROVE  Selected(d)
<1>1. e.path \in Path /\ d.path \in Path
  BY DEF Entry
<1>2. e.path # Top
  BY TopOutside
<1>3. job.selected \in SUBSET Path
  BY JobFacts DEF Job
<1> QED
  BY <1>1, <1>2, <1>3, MatchesAbove, UnfilteredAbove DEF Selected

\* What the receiver finds to delete is apart from a closed list.
LEMMA ExtrasApartFromList ==
    ASSUME TypeOK, NEW S \in SUBSET Entry, ClosedList(S), NEW p \in LocalExtras(S),
           NEW e \in S, Selected(e)
    PROVE  e.path \notin SelfAndUnder(p)
<1>1. p \in Dest /\ \A d \in S : Selected(d) => d.path # p
  BY DEF LocalExtras
<1>2. ASSUME e.path \in Under[p]
      PROVE  FALSE
  <2>1. PICK d \in S : d.path = p
    BY <1>1, <1>2 DEF ClosedList
  <2> QED
    BY <1>1, <1>2, <2>1, SelectedAbove
<1> QED
  BY <1>1, <1>2 DEF SelfAndUnder

\* What there is to delete is found when the list is read, and shrinks then.
LEMMA ExtrasShrink ==
    ASSUME TypeOK, Next
    PROVE  \/ plan'.extras \subseteq plan.extras /\ rEntries' = rEntries
           \/ ReadList /\ ~ReceiverFails
<1>1. CASE SenderStep \/ Cut \/ SenderAborts \/ Edit
  BY <1>1 DEF SenderStep, SenderSendsMarker, SenderReadsMarker, Collect, ServeDone,
       ServeRequest, ReadGoodbye, SenderWrites, SenderDisconnected, SenderStays,
       Cut, SenderAborts, Edit, receiver
<1>2. CASE ReceiverFails
  BY <1>2 DEF ReceiverFails
<1>3. CASE ReceiverAborts \/ ReceiverDisconnected \/ ReceiveFileFails
  BY <1>2, <1>3 DEF ReceiverAborts, ReceiverDisconnected, ReceiveFileFails
<1>4. CASE \/ ReceiverSendsMarker \/ ReceiverExpectsList \/ Prepared
           \/ RequestsDone \/ ReceiveDone \/ ReceiverEnds \/ ReceiverWrites
  BY <1>4 DEF ReceiverSendsMarker, ReceiverExpectsList, Prepared, RequestsDone, ReceiveDone,
       ReceiverEnds, ReceiverWrites
<1>5. CASE ReceiverReadsMarker \/ ReadAck \/ ReadStats \/ ReadGoodbyeAck \/ ReceiveFile
  BY <1>2, <1>5 DEF ReceiverReadsMarker, ReadAck, ReadStats, ReadGoodbyeAck, ReceiveFile
<1>6. plan \in [extras : SUBSET Dest, dirs : SUBSET Nat, ask : SUBSET Nat]
  BY DEF TypeOK
<1>7. CASE DeleteExtra
  BY <1>6, <1>7 DEF DeleteExtra
<1>8. CASE MakeListedDir
  BY <1>2, <1>6, <1>8 DEF MakeListedDir
<1>9. CASE RequestFile
  BY <1>6, <1>9 DEF RequestFile
<1> QED
  BY <1>1, <1>2, <1>3, <1>4, <1>5, <1>7, <1>8, <1>9 DEF Next, ReceiverStep

\* A list that the receiver accepts.
LEMMA ListRead ==
    ASSUME KeptInv, ReadList, ~ReceiverFails
    PROVE  \E S \in SUBSET Entry :
             /\ IsFiniteSet(S) /\ ClosedList(S)
             /\ rEntries' \in ReceiverOrders(S)
             /\ plan'.extras \subseteq LocalExtras(S)
             /\ fs' = fs \/ fs' = Effect(MakeDir(fs, Top))
<1> DEFINE m == Head(toReceiver)
<1>1. /\ m.type = "list"
      /\ rEntries' \in ReceiverOrders(m.entries)
      /\ plan'.extras = IF job.delete THEN LocalExtras(m.entries) ELSE {}
      /\ fs' = fs \/ fs' = Effect(MakeDir(fs, Top))
      /\ ReceiverTakes
  <2>1. ReceiverTakes /\ ~(m.type # "list" \/ ~Acceptable(m.entries))
    BY DEF ReadList
  <2>2. PICK list \in ReceiverOrders(m.entries) :
          /\ rEntries' = list
          /\ plan' = [extras |-> IF job.delete THEN LocalExtras(m.entries) ELSE {},
                      dirs |-> {i \in DOMAIN list : /\ Selected(list[i])
                                                    /\ list[i].kind = "dir"
                                                    /\ list[i].path # Top},
                      ask |-> want']
          /\ fs' = IF Exists(fs, Top) THEN fs ELSE Effect(MakeDir(fs, Top))
    BY <2>1 DEF ReadList
  <2>3. plan'.extras = IF job.delete THEN LocalExtras(m.entries) ELSE {}
    BY <2>2
  <2> QED
    BY <2>1, <2>2, <2>3
<1>2. m \in ClosedMsg
  BY <1>1, SeqParts DEF KeptInv, ListsClosed, ReceiverTakes
<1>3. m \in ListMsg /\ ClosedList(m.entries)
  BY <1>1, <1>2, MessageKinds DEF ClosedMsg
<1>4. m.entries \in SUBSET Entry /\ IsFiniteSet(m.entries)
  BY <1>3 DEF ListMsg
<1> QED
  BY <1>1, <1>3, <1>4

\* The invariant is inductive.
LEMMA KeptStep ==
    ASSUME KeptInv, [Next]_vars
    PROVE  KeptInv'
<1>1. TypeOK'
  BY TypeStep DEF KeptInv
<1>2. CASE Next
  <2>1. Fresh' /\ WellFormed(src)' /\ ListsClosed' /\ job' = job
    BY <1>1, <1>2, OrderKept, SourceWellFormed, ListsStayClosed, ListsMadeOnce DEF KeptInv
  <2>2. \A e : Selected(e)' <=> Selected(e)
    BY <2>1 DEF Selected
  <2>3. CASE plan'.extras \subseteq plan.extras /\ rEntries' = rEntries
    <3>1. ExtrasApart'
      BY <2>2, <2>3 DEF KeptInv, ExtrasApart
    <3>2. plan'.extras # {} => rEntries' # <<>>
      BY <2>3 DEF KeptInv
    <3> QED
      BY <1>1, <2>1, <3>1, <3>2 DEF KeptInv
  <2>4. CASE ReadList /\ ~ReceiverFails
    <3>1. PICK S \in SUBSET Entry :
            /\ IsFiniteSet(S) /\ ClosedList(S)
            /\ rEntries' \in ReceiverOrders(S)
            /\ plan'.extras \subseteq LocalExtras(S)
      BY <2>4, ListRead
    <3>2. rEntries' # <<>> /\ \A i \in DOMAIN rEntries' : rEntries'[i] \in S
      BY <3>1, OrderedList DEF ClosedList
    <3>3. ExtrasApart'
      BY <2>2, <3>1, <3>2, ExtrasApartFromList DEF KeptInv, ExtrasApart
    <3> QED
      BY <1>1, <2>1, <3>2, <3>3 DEF KeptInv
  <2> QED
    BY <1>2, <2>3, <2>4, ExtrasShrink DEF KeptInv
<1>3. CASE UNCHANGED vars
  BY <1>1, <1>3
     DEF KeptInv, Fresh, WellFormed, Exists, ListsClosed, ExtrasApart, Selected, vars, sender,
         receiver
<1> QED
  BY <1>2, <1>3

\* The invariant holds at the start.
LEMMA KeptStart == Init => KeptInv
<1> SUFFICES ASSUME Init
             PROVE  KeptInv
  OBVIOUS
<1>1. TypeOK
  BY TypeInit
<1>2. Fresh /\ ExtrasApart /\ plan.extras = {}
  BY DEF Init, Fresh, ExtrasApart
<1>3. WellFormed(src)
  BY SessionAssumption DEF Init
<1>4. ListsClosed
  BY EmptySeq DEF Init, ListsClosed
<1> QED
  BY <1>1, <1>2, <1>3, <1>4 DEF KeptInv

\* What a step does to the receiver's tree: one removal that was planned, one
\* file or directory that is listed, or an edit of somebody else.
LEMMA TreeSteps ==
    ASSUME KeptInv, Next
    PROVE  \/ fs' = fs
           \/ ~job.dryRun /\ ReadList /\ ~ReceiverFails /\ fs' = MakeDir(fs, Top)
           \/ ~job.dryRun /\ rEntries' = rEntries /\
              \E p \in plan.extras : fs' = RemoveTree(fs, p)
           \/ ~job.dryRun /\ rEntries' = rEntries /\
              \E i \in DOMAIN rEntries :
                \/ fs' = MakeDir(fs, rEntries[i].path)
                \/ \E d, t : fs' = Put(fs, rEntries[i].path, File(d, t))
           \/ /\ edits' # edits
              /\ \E p \in Dest : \E d, t : fs' = [fs EXCEPT ![p] = File(d, t)]
<1>1. CASE ReadList
  <2>1. \/ fs' = fs
        \/ ~ReceiverFails /\ fs' = Effect(MakeDir(fs, Top))
    <3>1. CASE ReceiverFails
      BY <1>1, <3>1 DEF ReadList, ReceiverFails
    <3> QED
      BY <1>1, <3>1, ListRead
  <2> QED
    BY <1>1, <2>1 DEF Effect
<1>2. CASE DeleteExtra
  BY <1>2 DEF DeleteExtra, Effect
<1>3. CASE MakeListedDir
  <2>1. PICK i \in plan.dirs :
          \/ fs' = fs
          \/ fs' = Effect(MakeDir(fs, rEntries[i].path)) /\ rEntries' = rEntries
    BY <1>3 DEF MakeListedDir
  <2>2. i \in DOMAIN rEntries
    BY DEF KeptInv, TypeOK
  <2> QED
    BY <2>1, <2>2 DEF Effect
<1>4. CASE ReceiveFile /\ fs' # fs
  <2> DEFINE m == Head(toReceiver)
  <2>1. /\ m.index \in DOMAIN rEntries
        /\ ~job.dryRun /\ rEntries' = rEntries
        /\ fs' = Received(m, rEntries[m.index])
    BY <1>4 DEF ReceiveFile
  <2> QED
    BY <2>1 DEF Received
<1>5. CASE ReceiveFileFails /\ fs' # fs
  <2> DEFINE m == Head(toReceiver)
  <2>1. /\ m.index \in DOMAIN rEntries
        /\ ~job.dryRun /\ rEntries' = rEntries
        /\ \/ fs' = Put(fs, rEntries[m.index].path, File(m.data, Now))
           \/ fs' = Put(fs, rEntries[m.index].path, File(Torn, Now))
    BY <1>5 DEF ReceiveFileFails, ReceiverFails
  <2> QED
    BY <2>1
<1>6. CASE Edit
  <2>1. edits' # edits
    BY <1>6 DEF Edit, KeptInv, TypeOK
  <2>2. fs' = fs \/ \E p \in Dest : \E d, t : fs' = [fs EXCEPT ![p] = File(d, t)]
    BY <1>6 DEF Edit
  <2> QED
    BY <2>1, <2>2
<1>7. CASE SenderStep \/ Cut \/ SenderAborts \/ ReceiverAborts
  BY <1>7 DEF SenderStep, SenderSendsMarker, SenderReadsMarker, Collect, ServeDone,
       ServeRequest, ReadGoodbye, SenderWrites, SenderDisconnected, SenderStays,
       Cut, SenderAborts, ReceiverAborts
<1>8. CASE \/ ReceiverSendsMarker \/ ReceiverExpectsList \/ ReceiverReadsMarker \/ Prepared
           \/ RequestFile \/ RequestsDone \/ ReceiveDone \/ ReadAck \/ ReadStats
           \/ ReadGoodbyeAck \/ ReceiverEnds \/ ReceiverWrites \/ ReceiverDisconnected
  BY <1>8 DEF ReceiverSendsMarker, ReceiverExpectsList, ReceiverReadsMarker, Prepared,
       RequestFile, RequestsDone, ReceiveDone, ReadAck, ReadStats, ReadGoodbyeAck,
       ReceiverEnds, ReceiverWrites, ReceiverDisconnected
<1> QED
  BY <1>1, <1>2, <1>3, <1>4, <1>5, <1>6, <1>7, <1>8 DEF Next, ReceiverStep

\* A step removes nothing that is selected of the list.
LEMMA OfferedStep ==
    ASSUME KeptInv, Next, NEW i \in DOMAIN rEntries, Selected(rEntries[i]),
           Exists(fs, rEntries[i].path)
    PROVE  Exists(fs', rEntries[i].path)
<1> DEFINE q == rEntries[i].path
<1>1. q \in Path /\ fs \in Tree /\ Top \in Path
  BY ListedPath, JobFacts DEF KeptInv, TypeOK
<1>2. CASE fs' = fs
  BY <1>2
<1>3. CASE fs' = MakeDir(fs, Top)
  BY <1>1, <1>3, NothingRemoved
<1>4. ASSUME NEW p \in plan.extras, fs' = RemoveTree(fs, p)
      PROVE  Exists(fs', q)
  <2>1. q \notin SelfAndUnder(p)
    BY DEF KeptInv, ExtrasApart
  <2> QED
    BY <1>1, <1>4, <2>1 DEF RemoveTree, Exists
<1>5. ASSUME NEW k \in DOMAIN rEntries,
             \/ fs' = MakeDir(fs, rEntries[k].path)
             \/ \E d, t : fs' = Put(fs, rEntries[k].path, File(d, t))
      PROVE  Exists(fs', q)
  <2>1. rEntries[k].path \in Path
    BY ListedPath DEF KeptInv
  <2> QED
    BY <1>1, <1>5, <2>1, NothingRemoved DEF File
<1>6. ASSUME NEW p \in Dest, NEW d, NEW t, fs' = [fs EXCEPT ![p] = File(d, t)]
      PROVE  Exists(fs', q)
  BY <1>1, <1>6 DEF Exists, File, Tree
<1> QED
  BY <1>2, <1>3, <1>4, <1>5, <1>6, TreeSteps

\* A step that touches the tree follows a list, and is none of a dry run.
LEMMA TouchedStep ==
    ASSUME KeptInv, Next, job.dryRun \/ rEntries' = <<>>
    PROVE  edits' # edits \/ fs' = fs
<1>1. DOMAIN <<>> = {}
  OBVIOUS
<1>2. ReadList /\ ~ReceiverFails => rEntries' # <<>>
  BY ListRead, OrderedList DEF ClosedList
<1>3. plan.extras # {} => rEntries # <<>>
  BY DEF KeptInv
<1> QED
  BY <1>1, <1>2, <1>3, TreeSteps

\* However the session ends and whoever interferes, the receiver removes nothing
\* that the list offers, for its deletions never reach above a listed entry
\* (delete_local_extras); and it touches its tree only once the whole list is
\* accepted, and never in a dry run.
THEOREM KeepsTree == Spec => TreeKept
<1>1. Init => KeptInv
  BY KeptStart
<1>2. KeptInv /\ [Next]_vars => KeptInv'
  BY KeptStep
<1>3. KeptInv /\ [Next]_vars =>
        [\A i \in DOMAIN rEntries :
          LET p == rEntries[i].path
          IN  Selected(rEntries[i]) /\ Exists(fs, p) => Exists(fs', p)]_vars
  BY OfferedStep
<1>4. KeptInv /\ [Next]_vars =>
        [job.dryRun \/ rEntries' = <<>> => edits' # edits \/ fs' = fs]_vars
  BY TouchedStep
<1> QED
  BY <1>1, <1>2, <1>3, <1>4, PTL DEF Spec, TreeKept, OfferedKept, NothingTouched


-----------------------------------------------------------------------------
(* Every answer arrives                                                    *)

\* An entry of a list, and as long as nobody edits the one of the file.
TrueEntry ==
    {e \in Entry : /\ e.path \in Dest \cup {Top}
                   /\ edits = 0 => e.path \in Offered /\ e = EntryOf(src, e.path)}

\* A list has such entries; an answer carries the content of the file at its
\* position of the sender's list.
TrueMsg ==
    {m \in ToReceiverMsg :
        /\ m.type = "list" => m.entries \subseteq TrueEntry
        /\ m.type = "file" /\ ~job.dryRun =>
             /\ m.transfer /\ m.index \in DOMAIN sEntries
             /\ edits = 0 => m.data = src[sEntries[m.index].path].data}

\* A request asks for data unless the run is dry.
AskMsg == {m \in ToSenderMsg : m.type = "request" => m.transfer = ~job.dryRun}

\* What either end has listed, sent or decided to transfer is so.
Truthful ==
    /\ toReceiver \in Seq(TrueMsg) /\ sOut \in Seq(TrueMsg)
    /\ toSender \in Seq(AskMsg) /\ rOut \in Seq(AskMsg)
    /\ sEntries \in Seq(TrueEntry) /\ rEntries \in Seq(TrueEntry)
    /\ \A i \in want : Selected(rEntries[i]) /\ rEntries[i].kind = "file"

\* A sequence holds a message; it does so at its end only.
Holds(s, m) == \E k \in DOMAIN s : s[k] = m
LastOnly(s, m) == \A k \in DOMAIN s : s[k] = m => k = Len(s)

\* Before its first marker has been answered the receiver has sent at most one,
\* as its last word; the sender's answer to it is its last word too.
OneMarker ==
    /\ sMarks \in {0, 1}
    /\ Len(rOut) <= 1 /\ Len(sOut) <= 1
    /\ sMarks = 1 => /\ sPc \in {"serve", "failed"} /\ rPc \in {"receive", "failed"}
                     /\ toSender = <<>> /\ rOut = <<>>
                     /\ sOut = <<>> \/ sOut = <<Done>>
    /\ LastOnly(toSender, Done) /\ LastOnly(toReceiver, Done)
    /\ Holds(toSender, Done) => rOut = <<>> /\ rPc \in {"receive", "failed"}
    /\ Holds(rOut, Done) => rPc = "receive"
    /\ Holds(sOut, Done) => sMarks = 1
    /\ Holds(toReceiver, Done) => sOut = <<>> /\ sMarks = 1

\* The receiver counts rounds from the first marker on, and the sender does not
\* part before; a lost connection is silent.
Rounds ==
    /\ cut => toSender = <<>> /\ toReceiver = <<>>
    /\ rRound # 0 => rPc \in {"ack", "stats", "bye", "last", "done", "failed"}
    /\ rRound = 0 => /\ rPc \in {"marker", "list", "prepare", "request", "receive", "failed"}
                     /\ sPc \notin {"goodbye", "adieu", "done"}
    /\ rRound = 0 /\ ~cut => OneMarker
    /\ rPc = "receive" => plan.ask = {}

\* The file at position i is as the list has it.
Written(i) ==
    LET e == rEntries[i]
    IN  fs[e.path] = File(e.data, IF job.preserveTimes THEN e.mtime ELSE Now)

\* The file at position i is up to date.
Current(i) ==
    LET e == rEntries[i]
        t == fs[e.path]
    IN  /\ t.kind = "file"
        /\ job.update # "IgnoreTimes" => Size[t.data] = Size[e.data]
        /\ job.update = "Checksum" => t.data = e.data

\* A request, or an answer, for position i is under way.
About(s, type, i) == \E k \in DOMAIN s : s[k].type = type /\ s[k].index = i
Asks(s, i) == About(s, "request", i)
Gives(s, i) == About(s, "file", i)

\* Where a file is that the receiver wants.
Placed(i) ==
    \/ Written(i)
    \/ Gives(toReceiver, i)
    \/ /\ sMarks = 0
       /\ \/ sPc = "failed"
          \/ i \in plan.ask \/ Asks(rOut, i) \/ Asks(toSender, i)
          \/ Gives(sOut, i)

\* Nobody edits, and the ends order the list alike.
Calmly == ~job.dryRun /\ edits = 0 /\ SameOrder

\* The receiver has a list and waits for the answers.
Working == rPc \in {"prepare", "request", "receive"}

\* What the receiver does not want is up to date; what it wants is on its way,
\* and written once the first marker has been answered.
Progress ==
    Calmly =>
        /\ Working \/ rRound # 0 =>
             \A i \in DOMAIN rEntries :
               Selected(rEntries[i]) /\ rEntries[i].kind = "file" /\ i \notin want => Current(i)
        /\ Working /\ ~cut => \A i \in want : Placed(i)
        /\ rRound # 0 => \A i \in want : Written(i)

\* The inductive invariant.
DelInv == KeptInv /\ Truthful /\ Rounds /\ Progress

\* What the sender's steps leave alone.
LEMMA SenderFrame ==
    ASSUME SenderStep
    PROVE  /\ UNCHANGED <<job, src, fs, cut, rPc, rOut, rEntries, rRound, plan, want, faults, edits>>
           /\ toReceiver' = toReceiver \/ SenderWrites
<1>1. CASE SenderWrites
  BY <1>1 DEF SenderWrites, receiver, env
<1>2. CASE SenderDisconnected
  BY <1>2 DEF SenderDisconnected, receiver, env
<1>3. CASE \/ SenderSendsMarker \/ SenderReadsMarker \/ Collect
           \/ ServeDone \/ ServeRequest \/ ReadGoodbye
  BY <1>3 DEF SenderSendsMarker, SenderReadsMarker, Collect, ServeDone, ServeRequest,
     ReadGoodbye, SenderStays, receiver, env
<1> QED
  BY <1>1, <1>2, <1>3 DEF SenderStep

\* What the receiver's steps leave alone.
LEMMA ReceiverFrame ==
    ASSUME ReceiverStep \/ ReceiveFileFails
    PROVE  /\ UNCHANGED <<job, src, cut, sPc, sOut, sEntries, sMarks, edits>>
           /\ toSender' = toSender \/ ReceiverWrites
<1>1. CASE ReceiverWrites
  BY <1>1 DEF ReceiverWrites, sender, env
<1>2. CASE ReceiverDisconnected
  BY <1>2 DEF ReceiverDisconnected, sender, env
<1>3. CASE \/ ReceiverSendsMarker \/ ReceiverExpectsList \/ ReceiverReadsMarker
           \/ ReadList \/ DeleteExtra \/ MakeListedDir \/ Prepared
           \/ RequestFile \/ RequestsDone
           \/ ReceiveFile \/ ReceiveDone
           \/ ReadAck \/ ReadStats \/ ReadGoodbyeAck \/ ReceiverEnds
  BY <1>3 DEF ReceiverSendsMarker, ReceiverExpectsList, ReceiverReadsMarker,
     ReadList, DeleteExtra, MakeListedDir, Prepared, RequestFile, RequestsDone,
     ReceiveFile, ReceiveDone, ReadAck, ReadStats, ReadGoodbyeAck, ReceiverEnds,
     ReceiverStays, sender, env
<1>4. CASE ReceiveFileFails
  BY <1>4 DEF ReceiveFileFails, sender
<1> QED
  BY <1>1, <1>2, <1>3, <1>4 DEF ReceiverStep

\* Only an edit changes the source, and it is counted.
LEMMA NobodyEdits ==
    ASSUME TypeOK, Next, edits' = 0
    PROVE  edits = 0 /\ src' = src
<1>1. CASE Edit
  <2>1. edits' = edits + 1 /\ edits \in Nat
    BY <1>1, SessionAssumption DEF Edit, TypeOK
  <2> QED
    BY <2>1
<1>2. CASE SenderStep
  BY <1>2, SenderFrame
<1>3. CASE ReceiverStep \/ ReceiveFileFails
  BY <1>3, ReceiverFrame
<1>4. CASE Cut \/ SenderAborts \/ ReceiverAborts
  BY <1>4 DEF Cut, SenderAborts, ReceiverAborts
<1> QED
  BY <1>1, <1>2, <1>3, <1>4 DEF Next

\* What was true of a message stays so.
LEMMA TruthKept ==
    ASSUME KeptInv, Next
    PROVE  /\ TrueMsg \subseteq TrueMsg'
           /\ AskMsg' = AskMsg
           /\ TrueEntry \subseteq TrueEntry'
<1>1. job' = job /\ (sEntries' = sEntries \/ sEntries = <<>>)
  BY ListsMadeOnce DEF KeptInv, Fresh
<1>2. edits' = 0 => edits = 0 /\ src' = src
  BY NobodyEdits DEF KeptInv
<1>3. AskMsg' = AskMsg
  BY <1>1 DEF AskMsg
<1>4. TrueEntry \subseteq TrueEntry'
  <2>1. edits' = 0 => edits = 0 /\ src' = src /\ Offered' = Offered
    BY <1>1, <1>2 DEF Offered
  <2> QED
    BY <2>1 DEF TrueEntry, EntryOf
<1>5. ASSUME NEW m \in TrueMsg
      PROVE  m \in TrueMsg'
  <2>1. m.type = "list" => m.entries \subseteq TrueEntry'
    BY <1>4, <1>5 DEF TrueMsg
  <2>2. DOMAIN <<>> = {}
    OBVIOUS
  <2>3. m.type = "file" /\ ~job'.dryRun =>
             /\ m.transfer /\ m.index \in DOMAIN sEntries'
             /\ edits' = 0 => m.data = src'[sEntries'[m.index].path].data
    BY <1>1, <1>2, <1>5, <2>2 DEF TrueMsg
  <2> QED
    BY <2>1, <2>3, <1>5 DEF TrueMsg
<1> QED
  BY <1>3, <1>4, <1>5

\* A message moves from one sequence to another.
LEMMA Moved ==
    ASSUME NEW S, NEW s \in Seq(S), NEW t \in Seq(S), t # <<>>
    PROVE  Append(s, Head(t)) \in Seq(S) /\ Tail(t) \in Seq(S) /\ Tail(s) \in Seq(S) \cup {Tail(<<>>)}
<1>1. Head(t) \in S /\ Tail(t) \in Seq(S)
  BY SeqParts
<1>2. CASE s # <<>>
  BY <1>1, <1>2, SeqParts
<1>3. CASE s = <<>>
  BY <1>1, <1>3
<1> QED
  BY <1>2, <1>3

\* What the streams hold stays true.
LEMMA StreamsTrue ==
    ASSUME KeptInv, Truthful, Next
    PROVE  toReceiver' \in Seq(TrueMsg') /\ toSender' \in Seq(AskMsg')
<1>1. /\ TrueMsg \subseteq TrueMsg'
      /\ AskMsg' = AskMsg
  BY TruthKept
<1>2. /\ toReceiver \in Seq(TrueMsg) /\ sOut \in Seq(TrueMsg)
      /\ toSender \in Seq(AskMsg) /\ rOut \in Seq(AskMsg)
  BY DEF Truthful
<1>3. toReceiver' \in Seq(TrueMsg)
  <2>1. CASE ReceiverTakes
    BY <1>2, <2>1, SeqParts DEF ReceiverTakes
  <2>2. CASE SenderWrites
    BY <1>2, <2>2, Moved DEF SenderWrites
  <2>3. CASE toReceiver' = toReceiver \/ toReceiver' = <<>>
    BY <1>2, <2>3, EmptySeq
  <2> QED
    BY <2>1, <2>2, <2>3, StreamSteps
<1>4. toSender' \in Seq(AskMsg)
  <2>1. CASE SenderTakes
    BY <1>2, <2>1, SeqParts DEF SenderTakes
  <2>2. CASE ReceiverWrites
    BY <1>2, <2>2, Moved DEF ReceiverWrites
  <2>3. CASE toSender' = toSender \/ toSender' = <<>>
    BY <1>2, <2>3, EmptySeq
  <2>4. CASE SenderStep
    BY <2>1, <2>3, <2>4 DEF SenderStep, SenderSendsMarker, SenderReadsMarker, Collect, ServeDone,
       ServeRequest, ReadGoodbye, SenderWrites, SenderDisconnected
  <2>5. CASE Cut \/ SenderAborts \/ ReceiverAborts \/ Edit
    BY <2>3, <2>5 DEF Cut, SenderAborts, ReceiverAborts, Edit
  <2> QED
    BY <2>2, <2>3, <2>4, <2>5, ReceiverFrame DEF Next
<1> QED
  BY <1>1, <1>3, <1>4

\* What the sender does not send as a list or an answer is true.
LEMMA PlainTrue ==
    ASSUME NEW m \in ToReceiverMsg, m.type \notin {"list", "file"}
    PROVE  m \in TrueMsg'
BY DEF TrueMsg

\* The list that the sender makes has the entries of the source.
LEMMA ListTrue ==
    ASSUME KeptInv, Collect, ~SenderFails
    PROVE  \E S \in SUBSET Entry :
             /\ IsFiniteSet(S)
             /\ sOut' = <<[type |-> "list", entries |-> S]>>
             /\ sEntries' \in SenderOrders(S)
             /\ sPc' = "serve" /\ sMarks' = sMarks
             /\ S \subseteq TrueEntry
<1> DEFINE S == {EntryOf(src, p) : p \in Offered}
<1>1. /\ \E list \in SenderOrders(S) : sEntries' = list
      /\ sOut' = <<[type |-> "list", entries |-> S]>>
      /\ sPc' = "serve" /\ sMarks' = sMarks
  BY DEF Collect
<1>2. Offered \subseteq Dest \cup {Top}
  BY DEF Offered, SourceEntries
<1>5. TypeOK'
  BY TypeStep DEF KeptInv, Next, SenderStep
<1>6. S \in SUBSET Entry /\ IsFiniteSet(S)
  <2> DEFINE m == [type |-> "list", entries |-> S]
  <2>1. sOut' \in Seq(ToReceiverMsg)
    BY <1>5 DEF TypeOK
  <2>2. m.type = "list" /\ m.entries = S
    OBVIOUS
  <2>3. sOut' = <<m>>
    BY <1>1
  <2> HIDE DEF S, m
  <2>4. m \in ToReceiverMsg
    BY <2>1, <2>3
  <2>5. m \in ListMsg
    BY <2>2, <2>4, MessageKinds
  <2> QED
    BY <2>2, <2>5 DEF ListMsg
<1>7. \A e \in S : e.path \in Dest \cup {Top} /\ e.path \in Offered /\ e = EntryOf(src, e.path)
  BY <1>2 DEF EntryOf
<1> HIDE DEF S
<1>4. S \subseteq TrueEntry
  BY <1>6, <1>7 DEF TrueEntry
<1> QED
  BY <1>1, <1>4, <1>6

\* The sender's answer.
LEMMA AnswerGiven ==
    ASSUME KeptInv, Truthful, ServeRequest, ~SenderFails
    PROVE  LET m == Head(toSender)
           IN  /\ m.type = "request"
               /\ m.index \in DOMAIN sEntries
               /\ UNCHANGED <<sPc, sEntries, sMarks>>
               /\ \E a \in TrueMsg : /\ sOut' = <<a>> /\ a.type = "file" /\ a.index = m.index
<1> DEFINE m == Head(toSender)
<1> DEFINE e == sEntries[m.index]
<1>1. /\ m.type = "request"
      /\ m.index \in DOMAIN sEntries
      /\ m.transfer => src[e.path].kind = "file"
      /\ IF m.transfer /\ ~job.dryRun
              THEN \E a \in Answers(m, e.path) : sOut' = <<a>>
              ELSE sOut' = <<Echo(m)>>
      /\ UNCHANGED <<sPc, sEntries, sMarks>>
  BY DEF ServeRequest
<1>2. m \in AskMsg
  BY SeqParts DEF ServeRequest, SenderTakes, Truthful
<1>3. m.transfer = ~job.dryRun
  BY <1>1, <1>2 DEF AskMsg
<1>4. PICK a : /\ sOut' = <<a>>
               /\ IF m.transfer /\ ~job.dryRun THEN a \in Answers(m, e.path) ELSE a = Echo(m)
  BY <1>1
<1>5. a.type = "file" /\ a.index = m.index
  BY <1>4 DEF Answers, Echo
<1>6. a \in ToReceiverMsg
  <2>1. TypeOK'
    BY TypeStep DEF KeptInv, Next, SenderStep
  <2> QED
    BY <1>4, <2>1 DEF TypeOK
<1>7. ~job.dryRun => a.transfer /\ a.data = src[e.path].data
  <2>1. ASSUME ~job.dryRun
        PROVE  m.transfer
    BY <1>3, <2>1
  <2>2. ASSUME ~job.dryRun
        PROVE  a \in Answers(m, e.path)
    BY <1>4, <2>1, <2>2
  <2>3. a \in Answers(m, e.path) => a.transfer = TRUE /\ a.data = src[e.path].data
    BY DEF Answers
  <2> QED
    BY <2>2, <2>3
<1>8. a \in TrueMsg
  BY <1>1, <1>5, <1>6, <1>7 DEF TrueMsg
<1> QED
  BY <1>1, <1>4, <1>5, <1>8

\* What the sender puts out is true.
LEMMA OutTrue ==
    ASSUME KeptInv, Truthful, Next
    PROVE  sOut' \in Seq(TrueMsg')
<1>1. TrueMsg \subseteq TrueMsg'
  BY TruthKept
<1>2. sOut \in Seq(TrueMsg)
  BY DEF Truthful
<1>3. sOut' \in Seq(ToReceiverMsg)
  BY TypeStep DEF TypeOK, KeptInv
<1>4. CASE sOut' = sOut \/ sOut' = <<>>
  <2>1. sOut' \in Seq(TrueMsg)
    BY <1>2, <1>4, EmptySeq
  <2> QED
    BY <1>1, <2>1
<1>5. CASE \A i \in DOMAIN sOut' : sOut'[i].type \notin {"list", "file"}
  <2>1. \A i \in DOMAIN sOut' : sOut'[i] \in TrueMsg'
    BY <1>3, <1>5, PlainTrue
  <2> QED
    BY <1>3, <2>1
<1>6. Done.type = "done" /\ Marker.type = "marker" /\ Stats.type = "stats"
  BY DEF Done, Marker, Stats
<1>7. CASE SenderFails
  BY <1>4, <1>7 DEF SenderFails
<1>8. CASE SenderSendsMarker
  BY <1>4, <1>5, <1>6, <1>8 DEF SenderSendsMarker
<1>9. CASE SenderReadsMarker \/ SenderDisconnected
  BY <1>4, <1>7, <1>9 DEF SenderReadsMarker, SenderDisconnected
<1>10. CASE Collect /\ ~SenderFails
  <2>1. PICK S \in SUBSET Entry : /\ sOut' = <<[type |-> "list", entries |-> S]>>
                                  /\ S \subseteq TrueEntry'
    BY <1>10, ListTrue, TruthKept
  <2>2. PICK m : m = [type |-> "list", entries |-> S]
    OBVIOUS
  <2>3. sOut' = <<m>> /\ m.type = "list" /\ m.entries = S
    BY <2>1, <2>2
  <2>4. m \in ToReceiverMsg
    BY <1>3, <2>3
  <2>5. m \in TrueMsg'
    BY <2>1, <2>3, <2>4 DEF TrueMsg
  <2> QED
    BY <2>3, <2>5
<1>11. CASE ServeDone
  <2> DEFINE D == {Done, Stats}
  <2>1. sOut' = <<Done>> \o <<Stats>> \/ sOut' = <<Done>> \o <<>>
    BY <1>11 DEF ServeDone
  <2>2. <<Done>> \in Seq(D) /\ <<Stats>> \in Seq(D) /\ <<>> \in Seq(D)
    OBVIOUS
  <2>3. \A x \in D : x.type \notin {"list", "file"}
    BY <1>6
  <2> HIDE DEF D
  <2>4. \A s, t \in Seq(D) : s \o t \in Seq(D)
    OBVIOUS
  <2>5. sOut' \in Seq(D)
    BY <2>1, <2>2, <2>4, Zenon
  <2>6. \A i \in DOMAIN sOut' : sOut'[i] \in D
    BY <2>5
  <2> QED
    BY <1>5, <2>3, <2>6
<1>12. CASE ServeRequest /\ ~SenderFails
  <2>1. PICK a \in TrueMsg : sOut' = <<a>>
    BY <1>12, AnswerGiven
  <2> QED
    BY <1>1, <2>1
<1>13. CASE ReadGoodbye /\ ~SenderFails
  <2>1. sOut' = <<Done>> \/ sOut' = <<>>
    BY <1>13 DEF ReadGoodbye
  <2> QED
    BY <1>4, <1>5, <1>6, <2>1
<1>14. CASE SenderWrites
  <2>1. sOut' \in Seq(TrueMsg)
    BY <1>2, <1>14, SeqParts DEF SenderWrites
  <2> QED
    BY <1>1, <2>1
<1>15. CASE ReceiverStep \/ ReceiveFileFails
  BY <1>4, <1>15, ReceiverFrame
<1>16. CASE Cut \/ SenderAborts \/ ReceiverAborts \/ Edit
  BY <1>4, <1>7, <1>16 DEF Cut, SenderAborts, ReceiverAborts, Edit, sender
<1> QED
  BY <1>7, <1>8, <1>9, <1>10, <1>11, <1>12, <1>13, <1>14, <1>15, <1>16 DEF Next, SenderStep

\* What a step may put out at the receiver.
ReceiverPuts ==
    \/ rOut' = rOut \/ rOut' = <<>> \/ rOut' = <<Done>>
    \/ ReceiverSendsMarker /\ rOut' = <<Marker>>
    \/ RequestFile
    \/ ReceiverWrites

\* It puts out nothing else.
LEMMA ReceiverSays ==
    ASSUME Next
    PROVE  ReceiverPuts
<1>1. CASE SenderStep
  BY <1>1, SenderFrame DEF ReceiverPuts
<1>2. CASE Cut \/ SenderAborts \/ ReceiverAborts \/ Edit
  BY <1>2 DEF Cut, SenderAborts, ReceiverAborts, Edit, receiver, ReceiverFails, ReceiverPuts
<1>3. CASE \/ ReceiverSendsMarker \/ ReceiverExpectsList \/ ReceiverReadsMarker
           \/ ReadList \/ DeleteExtra \/ MakeListedDir \/ Prepared
           \/ ReceiverWrites \/ ReceiverDisconnected
  BY <1>3 DEF ReceiverSendsMarker, ReceiverExpectsList, ReceiverReadsMarker, ReadList,
     DeleteExtra, MakeListedDir, Prepared, ReceiverDisconnected, ReceiverFails, ReceiverPuts
<1>4. CASE \/ RequestFile \/ RequestsDone \/ ReceiveFile \/ ReceiveDone
           \/ ReadAck \/ ReadStats \/ ReadGoodbyeAck \/ ReceiverEnds \/ ReceiveFileFails
  BY <1>4 DEF RequestsDone, ReceiveFile, ReceiveDone, ReadAck, ReadStats, ReadGoodbyeAck,
     ReceiverEnds, ReceiveFileFails, AfterRound, ReceiverFails, ReceiverPuts
<1> QED
  BY <1>1, <1>2, <1>3, <1>4 DEF Next, ReceiverStep

\* What the receiver puts out asks for data unless the run is dry.
LEMMA OutAsks ==
    ASSUME KeptInv, Truthful, Next
    PROVE  rOut' \in Seq(AskMsg')
<1>1. AskMsg' = AskMsg
  BY TruthKept
<1>2. rOut \in Seq(AskMsg)
  BY DEF Truthful
<1>3. Done \in AskMsg /\ Marker \in AskMsg
  BY ShortMessages DEF AskMsg, Done, Marker
<1>4. CASE rOut' = rOut \/ rOut' = <<>> \/ rOut' = <<Done>> \/ rOut' = <<Marker>>
  <2>1. <<Done>> \in Seq(AskMsg) /\ <<Marker>> \in Seq(AskMsg) /\ <<>> \in Seq(AskMsg)
    BY <1>3, EmptySeq
  <2>2. rOut' \in Seq(AskMsg)
    BY <1>2, <1>4, <2>1, Zenon
  <2> QED
    BY <1>1, <2>2
<1>5. CASE ReceiverWrites
  BY <1>1, <1>2, <1>5, SeqParts DEF ReceiverWrites
<1>6. CASE RequestFile
  <2>0. PICK i \in plan.ask :
          rOut' = <<[type |-> "request", index |-> i, transfer |-> ~job.dryRun,
                     basis |-> IF job.dryRun THEN Absent ELSE Basis(rEntries[i].path)]>>
    BY <1>6 DEF RequestFile
  <2>1. PICK m : rOut' = <<m>> /\ m.transfer = ~job.dryRun
    BY <2>0
  <2>2. rOut' \in Seq(ToSenderMsg)
    BY TypeStep DEF TypeOK, KeptInv
  <2>3. m \in ToSenderMsg
    BY <2>1, <2>2
  <2>4. m \in AskMsg
    BY <2>1, <2>3 DEF AskMsg
  <2> QED
    BY <1>1, <2>1, <2>4
<1> QED
  BY <1>4, <1>5, <1>6, ReceiverSays DEF ReceiverPuts

\* What ReadList makes of an acceptable list.
LEMMA ListTaken ==
    ASSUME KeptInv, Truthful, ReadList, ~ReceiverFails
    PROVE  /\ rPc = "list" /\ rPc' = "prepare" /\ rRound' = rRound /\ rOut' = rOut
           /\ ReceiverTakes /\ Head(toReceiver).type = "list"
           /\ want' = Needed(rEntries') /\ plan'.ask = want'
           /\ rEntries' \in Seq(TrueEntry)
           /\ \/ fs' = fs
              \/ ~Exists(fs, Top) /\ fs' = Effect(MakeDir(fs, Top))
<1> DEFINE m == Head(toReceiver)
<1>1. /\ rPc = "list" /\ rPc' = "prepare" /\ rRound' = rRound /\ rOut' = rOut
      /\ ReceiverTakes /\ m.type = "list"
      /\ rEntries' \in ReceiverOrders(m.entries)
      /\ want' = Needed(rEntries') /\ plan'.ask = want'
      /\ \/ fs' = fs
         \/ ~Exists(fs, Top) /\ fs' = Effect(MakeDir(fs, Top))
  BY DEF ReadList
<1>2. m \in TrueMsg
  BY <1>1, SeqParts DEF ReceiverTakes, Truthful
<1>3. m.entries \subseteq TrueEntry
  BY <1>1, <1>2 DEF TrueMsg
<1>4. m \in ListMsg
  BY <1>1, <1>2, MessageKinds DEF TrueMsg
<1>5. Cardinality(m.entries) \in Nat
  BY <1>4, FS_CardinalityType DEF ListMsg
<1>6. rEntries' \in [1 .. Cardinality(m.entries) -> m.entries]
  BY <1>1 DEF ReceiverOrders, InCollectedOrder, InIndexOrder, Sorted
<1>7. rEntries' \in Seq(TrueEntry)
  BY <1>3, <1>5, <1>6
<1> QED
  BY <1>1, <1>7

\* Both lists keep to the source.
LEMMA ListsTrue ==
    ASSUME KeptInv, Truthful, Next
    PROVE  sEntries' \in Seq(TrueEntry') /\ rEntries' \in Seq(TrueEntry')
<1>1. TrueEntry \subseteq TrueEntry'
  BY TruthKept
<1>2. sEntries \in Seq(TrueEntry) /\ rEntries \in Seq(TrueEntry)
  BY DEF Truthful
<1>3. sEntries' \in Seq(TrueEntry)
  <2>1. CASE sEntries' = sEntries
    BY <1>2, <2>1
  <2>2. CASE Collect /\ ~SenderFails
    <3>1. PICK S \in SUBSET Entry : /\ IsFiniteSet(S)
                                    /\ sEntries' \in SenderOrders(S)
                                    /\ S \subseteq TrueEntry
      BY <2>2, ListTrue
    <3>2. sEntries' \in [1 .. Cardinality(S) -> S] /\ Cardinality(S) \in Nat
      BY <3>1, FS_CardinalityType DEF SenderOrders, InCollectedOrder, InIndexOrder, Sorted
    <3> QED
      BY <3>1, <3>2
  <2>3. CASE SenderStep
    <3>1. sEntries' = sEntries \/ (Collect /\ ~SenderFails)
      BY <2>3 DEF SenderStep, SenderSendsMarker, SenderReadsMarker, Collect, ServeDone,
         ServeRequest, ReadGoodbye, SenderWrites, SenderDisconnected, SenderFails
    <3> QED
      BY <2>1, <2>2, <3>1
  <2>4. CASE Cut \/ SenderAborts \/ ReceiverAborts \/ Edit
    BY <2>1, <2>4 DEF Cut, SenderAborts, ReceiverAborts, Edit, sender, SenderFails
  <2> QED
    BY <2>1, <2>3, <2>4, ReceiverFrame DEF Next
<1>4. rEntries' \in Seq(TrueEntry)
  <2>1. CASE rEntries' = rEntries
    BY <1>2, <2>1
  <2>2. CASE ReadList /\ ~ReceiverFails
    BY <2>2, ListTaken
  <2> QED
    BY <2>1, <2>2, ExtrasShrink DEF KeptInv
<1> QED
  BY <1>1, <1>3, <1>4

\* What the receiver wants is settled when it has read the list.
LEMMA WantSettled ==
    ASSUME KeptInv, Truthful, Next
    PROVE  \/ want' = want /\ rEntries' = rEntries
           \/ ReadList /\ ~ReceiverFails
<1>1. CASE SenderStep
  BY <1>1, SenderFrame
<1>2. CASE Cut \/ SenderAborts \/ ReceiverAborts \/ Edit
  BY <1>2 DEF Cut, SenderAborts, ReceiverAborts, Edit, receiver, ReceiverFails
<1>3. CASE \/ ReceiverSendsMarker \/ ReceiverExpectsList \/ ReceiverReadsMarker
           \/ DeleteExtra \/ MakeListedDir \/ Prepared
           \/ ReceiverWrites \/ ReceiverDisconnected
  BY <1>3 DEF ReceiverSendsMarker, ReceiverExpectsList, ReceiverReadsMarker,
     DeleteExtra, MakeListedDir, Prepared, ReceiverWrites, ReceiverDisconnected, ReceiverFails
<1>4. CASE \/ RequestFile \/ RequestsDone \/ ReceiveFile \/ ReceiveDone
           \/ ReadAck \/ ReadStats \/ ReadGoodbyeAck \/ ReceiverEnds \/ ReceiveFileFails
  BY <1>4 DEF RequestFile, RequestsDone, ReceiveFile, ReceiveDone, ReadAck, ReadStats,
     ReadGoodbyeAck, ReceiverEnds, ReceiveFileFails, ReceiverFails
<1>5. CASE ReadList
  BY <1>5 DEF ReadList, ReceiverFails
<1> QED
  BY <1>1, <1>2, <1>3, <1>4, <1>5 DEF Next, ReceiverStep

\* Lists, requests and answers stay true.
LEMMA TruthStep ==
    ASSUME KeptInv, Truthful, Next
    PROVE  Truthful'
<1>1. job' = job
  BY ListsMadeOnce
<1>2. (\A i \in want : Selected(rEntries[i]) /\ rEntries[i].kind = "file")'
  <2>1. CASE want' = want /\ rEntries' = rEntries
    BY <1>1, <2>1 DEF Truthful, Selected
  <2>2. CASE ReadList /\ ~ReceiverFails
    <3>1. want' = Needed(rEntries')
      BY <2>2, ListTaken
    <3> QED
      BY <1>1, <3>1 DEF Needed, Selected
  <2> QED
    BY <2>1, <2>2, WantSettled
<1> QED
  BY <1>2, StreamsTrue, OutTrue, OutAsks, ListsTrue DEF Truthful

\* Sequences that hold a message at most at their end.
LEMMA LastWord ==
    ASSUME NEW S, NEW s \in Seq(S), NEW m
    PROVE  /\ ~Holds(<<>>, m) /\ LastOnly(<<>>, m)
           /\ \A a : Holds(<<a>>, m) <=> a = m
           /\ Len(s) <= 1 /\ s # <<>> => Tail(s) = <<>> /\ (Holds(s, m) <=> Head(s) = m)
           /\ s # <<>> => /\ Holds(Tail(s), m) => Holds(s, m)
                          /\ Head(s) = m => Holds(s, m)
                          /\ LastOnly(s, m) => /\ LastOnly(Tail(s), m)
                                               /\ Head(s) = m => Tail(s) = <<>>
           /\ \A x \in S : /\ ~Holds(s, m) => LastOnly(Append(s, x), m)
                           /\ Holds(Append(s, x), m) => Holds(s, m) \/ x = m
<1>1. ~Holds(<<>>, m) /\ LastOnly(<<>>, m) /\ \A a : Holds(<<a>>, m) <=> a = m
  BY DEF Holds, LastOnly
<1>2. Len(s) <= 1 /\ s # <<>> => Tail(s) = <<>> /\ (Holds(s, m) <=> Head(s) = m)
  BY DEF Holds
<1>3. ASSUME s # <<>>
      PROVE  /\ Holds(Tail(s), m) => Holds(s, m)
             /\ Head(s) = m => Holds(s, m)
             /\ LastOnly(s, m) => /\ LastOnly(Tail(s), m)
                                  /\ Head(s) = m => Tail(s) = <<>>
  <2>1. Tail(s) \in Seq(S) /\ Len(Tail(s)) = Len(s) - 1 /\ Len(s) \in Nat \ {0} /\ Head(s) = s[1]
    BY <1>3
  <2>2. \A k \in DOMAIN Tail(s) : Tail(s)[k] = s[k + 1] /\ k + 1 \in DOMAIN s
    <3>1. DOMAIN Tail(s) = 1 .. Len(s) - 1 /\ DOMAIN s = 1 .. Len(s)
      BY <1>3, <2>1
    <3>2. \A k \in 1 .. Len(s) - 1 : Tail(s)[k] = s[k + 1]
      BY <1>3
    <3> QED
      BY <2>1, <3>1, <3>2
  <2>3. 1 \in DOMAIN s /\ DOMAIN Tail(s) = 1 .. Len(Tail(s))
    BY <1>3, <2>1
  <2>4. Len(s) = 1 => Tail(s) = <<>>
    BY <1>2, <1>3
  <2>5. Holds(Tail(s), m) => Holds(s, m)
    BY <2>2 DEF Holds
  <2>6. Head(s) = m => Holds(s, m)
    BY <2>1, <2>3 DEF Holds
  <2>7. ASSUME LastOnly(s, m)
        PROVE  LastOnly(Tail(s), m)
    BY <2>1, <2>2, <2>3, <2>7 DEF LastOnly
  <2>8. ASSUME LastOnly(s, m), Head(s) = m
        PROVE  Tail(s) = <<>>
    BY <2>1, <2>3, <2>4, <2>8 DEF LastOnly
  <2> QED
    BY <2>5, <2>6, <2>7, <2>8
<1>4. ASSUME NEW x \in S
      PROVE  /\ ~Holds(s, m) => LastOnly(Append(s, x), m)
             /\ Holds(Append(s, x), m) => Holds(s, m) \/ x = m
  <2>1. /\ Len(Append(s, x)) = Len(s) + 1
        /\ DOMAIN Append(s, x) = 1 .. Len(s) + 1
        /\ \A k \in 1 .. Len(s) + 1 : Append(s, x)[k] = IF k = Len(s) + 1 THEN x ELSE s[k]
    OBVIOUS
  <2>2. DOMAIN s = 1 .. Len(s) /\ Len(s) \in Nat
    OBVIOUS
  <2> QED
    BY <2>1, <2>2 DEF Holds, LastOnly
<1> QED
  BY <1>1, <1>2, <1>3, <1>4

\* What the streams and the two ends hold.
LEMMA StreamFacts ==
    ASSUME TypeOK
    PROVE  /\ toSender \in Seq(ToSenderMsg) /\ rOut \in Seq(ToSenderMsg)
           /\ toReceiver \in Seq(ToReceiverMsg) /\ sOut \in Seq(ToReceiverMsg)
           /\ sMarks \in Nat /\ rRound \in Nat /\ Phases \in {2, 3}
           /\ Marker # Done /\ Stats # Done
<1>1. Marker # Done /\ Stats # Done
  BY DEF Marker, Done, Stats
<1> QED
  BY <1>1 DEF TypeOK, Phases

\* An end that fails says nothing more.
LEMMA MarkerFails ==
    ASSUME TypeOK, OneMarker, UNCHANGED <<toSender, toReceiver, sMarks>>
    PROVE  /\ SenderFails /\ UNCHANGED <<rPc, rOut>> => OneMarker'
           /\ ReceiverFails /\ UNCHANGED <<sPc, sOut>> => OneMarker'
<1>1. ~Holds(<<>>, Done) /\ Len(<<>>) = 0
  BY LastWord, EmptySeq
<1>2. ASSUME SenderFails, UNCHANGED <<rPc, rOut>>
      PROVE  OneMarker'
  BY <1>1, <1>2 DEF OneMarker, SenderFails
<1>3. ASSUME ReceiverFails, UNCHANGED <<sPc, sOut>>
      PROVE  OneMarker'
  BY <1>1, <1>3 DEF OneMarker, ReceiverFails
<1> QED
  BY <1>2, <1>3

\* The sender's steps while the receiver waits for its first marker.
LEMMA MarkerSender ==
    ASSUME TypeOK, OneMarker, SenderStep, sPc \notin {"goodbye", "adieu", "done"}
    PROVE  OneMarker' /\ sPc' \notin {"goodbye", "adieu", "done"}
<1>1. /\ toSender \in Seq(ToSenderMsg) /\ rOut \in Seq(ToSenderMsg)
      /\ toReceiver \in Seq(ToReceiverMsg) /\ sOut \in Seq(ToReceiverMsg)
      /\ Phases \in {2, 3} /\ Marker # Done /\ Stats # Done
  BY StreamFacts
<1>2. rPc' = rPc /\ rOut' = rOut
  BY SenderFrame
<1>3. /\ ~Holds(<<>>, Done) /\ LastOnly(<<>>, Done) /\ Len(<<>>) = 0
      /\ \A a : Len(<<a>>) = 1 /\ (Holds(<<a>>, Done) <=> a = Done)
  BY LastWord, EmptySeq
<1>4. ASSUME SenderTakes
      PROVE  /\ toSender # <<>> /\ sMarks = 0
             /\ Holds(toSender', Done) => Holds(toSender, Done)
             /\ LastOnly(toSender', Done)
             /\ Head(toSender) = Done => toSender' = <<>> /\ Holds(toSender, Done)
  BY <1>1, <1>4, LastWord DEF SenderTakes, OneMarker
<1>5. CASE SenderSendsMarker
  BY <1>1, <1>2, <1>3, <1>5 DEF SenderSendsMarker, SenderStays, OneMarker
<1>6. CASE SenderReadsMarker
  BY <1>1, <1>2, <1>3, <1>4, <1>6 DEF SenderReadsMarker, SenderStays, SenderFails, OneMarker
<1>7. CASE Collect
  <2>1. [type |-> "list", entries |-> {EntryOf(src, p) : p \in Offered}] # Done
    BY DEF Done
  <2>2. sPc = "collect" /\ toSender' = toSender /\ toReceiver' = toReceiver /\ sMarks' = sMarks
    BY <1>7 DEF Collect, SenderStays, SenderFails
  <2>3. \/ sPc' = "failed" /\ sOut' = <<>>
        \/ sPc' = "serve" /\ \E a : sOut' = <<a>> /\ a # Done
    BY <1>7, <2>1 DEF Collect, SenderFails
  <2>4. Len(sOut') <= 1 /\ ~Holds(sOut', Done) /\ sPc' \in {"serve", "failed"}
    <3>1. Len(sOut') \in {0, 1} /\ ~Holds(sOut', Done)
      BY <1>3, <2>3, Zenon
    <3> QED
      BY <2>3, <3>1
  <2>5. sMarks = 0 /\ ~Holds(toReceiver, Done)
    BY <2>2 DEF OneMarker
  <2> QED
    BY <1>2, <2>2, <2>4, <2>5 DEF OneMarker
<1>8. CASE ServeDone
  <2>1. toSender' = <<>> /\ sMarks = 0 /\ Holds(toSender, Done)
    BY <1>4, <1>8 DEF ServeDone
  <2>2. sMarks' = 1 /\ sPc' = "serve" /\ sOut' = <<Done>> \o <<>> /\ toReceiver' = toReceiver
    <3>1. sMarks' = 1 /\ sMarks' # Phases
      BY <1>1, <1>8, <2>1 DEF ServeDone
    <3> QED
      BY <1>8, <3>1 DEF ServeDone, SenderStays
  <2>3. sOut' = <<Done>>
    BY <2>2
  <2> QED
    BY <1>2, <1>3, <2>1, <2>2, <2>3 DEF OneMarker
<1>9. CASE ServeRequest
  <2>1. /\ toReceiver' = toReceiver /\ sMarks' = sMarks /\ sMarks = 0
        /\ Holds(toSender', Done) => Holds(toSender, Done)
        /\ LastOnly(toSender', Done)
    BY <1>4, <1>9 DEF ServeRequest, SenderStays, SenderFails
  <2>2. \/ sPc' = "failed" /\ sOut' = <<>>
        \/ sPc' = "serve" /\ \E a : sOut' = <<a>> /\ a.type = "file"
    BY <1>9 DEF ServeRequest, SenderFails, Echo, Answers
  <2>3. Done.type # "file"
    BY DEF Done
  <2>4. \/ sPc' = "failed" /\ sOut' = <<>>
        \/ sPc' = "serve" /\ \E a : sOut' = <<a>> /\ a # Done
    BY <2>2, <2>3
  <2>5. Len(sOut') <= 1 /\ ~Holds(sOut', Done) /\ sPc' \in {"serve", "failed"}
    <3>1. Len(sOut') \in {0, 1} /\ ~Holds(sOut', Done)
      BY <1>3, <2>4, Zenon
    <3> QED
      BY <2>4, <3>1
  <2>6. ~Holds(toReceiver, Done)
    BY <2>1 DEF OneMarker
  <2> QED
    BY <1>2, <2>1, <2>5, <2>6 DEF OneMarker
<1>10. CASE SenderWrites
  <2>1. /\ sOut # <<>> /\ sOut' = Tail(sOut) /\ toReceiver' = Append(toReceiver, Head(sOut))
        /\ UNCHANGED <<toSender, sPc, sMarks>>
    BY <1>10 DEF SenderWrites
  <2>2. Tail(sOut) = <<>> /\ (Holds(sOut, Done) <=> Head(sOut) = Done)
    BY <1>1, <2>1, LastWord DEF OneMarker
  <2>3. ~Holds(toReceiver, Done) /\ Head(sOut) \in ToReceiverMsg
    BY <1>1, <2>1, SeqParts DEF OneMarker
  <2>4. /\ LastOnly(toReceiver', Done)
        /\ Holds(toReceiver', Done) => Head(sOut) = Done
    BY <1>1, <2>1, <2>3, LastWord
  <2>5. Len(sOut') <= 1 /\ ~Holds(sOut', Done) /\ sOut' = <<>>
    <3>1. sOut' = <<>> /\ Len(sOut') = 0 /\ ~Holds(sOut', Done)
      BY <1>3, <2>1, <2>2, Zenon
    <3> QED
      BY <3>1
  <2>6. Holds(toReceiver', Done) => sMarks = 1
    BY <2>2, <2>4 DEF OneMarker
  <2> QED
    BY <1>2, <2>1, <2>4, <2>5, <2>6 DEF OneMarker
<1>11. CASE SenderDisconnected
  BY <1>11, MarkerFails DEF SenderDisconnected, SenderFails, receiver
<1>12. CASE ReadGoodbye
  BY <1>12 DEF ReadGoodbye
<1> QED
  BY <1>5, <1>6, <1>7, <1>8, <1>9, <1>10, <1>11, <1>12 DEF SenderStep

\* The receiver's steps before its first marker has been answered.
LEMMA MarkerReceiver ==
    ASSUME TypeOK, OneMarker, ReceiverStep \/ ReceiveFileFails, rRound' = 0,
           rPc \in {"marker", "list", "prepare", "request", "receive", "failed"}
    PROVE  OneMarker'
<1>1. /\ toSender \in Seq(ToSenderMsg) /\ rOut \in Seq(ToSenderMsg)
      /\ toReceiver \in Seq(ToReceiverMsg) /\ sOut \in Seq(ToReceiverMsg)
      /\ Phases \in {2, 3} /\ Marker # Done
  BY StreamFacts
<1>2. sPc' = sPc /\ sOut' = sOut /\ sMarks' = sMarks
  BY ReceiverFrame
<1>3. /\ ~Holds(<<>>, Done) /\ LastOnly(<<>>, Done) /\ Len(<<>>) = 0
      /\ \A a : Len(<<a>>) = 1 /\ (Holds(<<a>>, Done) <=> a = Done)
  BY LastWord, EmptySeq
<1>4. ASSUME ReceiverTakes
      PROVE  /\ Holds(toReceiver', Done) => Holds(toReceiver, Done)
             /\ LastOnly(toReceiver', Done)
  BY <1>1, <1>4, LastWord DEF ReceiverTakes, OneMarker
<1>5. ASSUME toReceiver' = toReceiver \/ ReceiverTakes
      PROVE  /\ Holds(toReceiver', Done) => Holds(toReceiver, Done)
             /\ LastOnly(toReceiver', Done)
  BY <1>4, <1>5 DEF OneMarker
\* An end that fails
<1>6. ASSUME ReceiverFails, toSender' = toSender, toReceiver' = toReceiver \/ ReceiverTakes
      PROVE  OneMarker'
  <2>1. rPc' = "failed" /\ rOut' = <<>>
    BY <1>6 DEF ReceiverFails
  <2>2. Len(rOut') = 0 /\ ~Holds(rOut', Done)
    BY <1>3, <2>1, Zenon
  <2> QED
    BY <1>2, <1>5, <1>6, <2>1, <2>2 DEF OneMarker
\* A step that says nothing
<1>7. ASSUME rOut' = rOut, toSender' = toSender, toReceiver' = toReceiver \/ ReceiverTakes,
             rPc' = rPc \/ rPc \in {"marker", "list", "prepare"}
      PROVE  OneMarker'
  BY <1>2, <1>5, <1>7 DEF OneMarker
<1>8. CASE \/ ReceiverExpectsList \/ ReceiverReadsMarker \/ ReadList \/ DeleteExtra
           \/ MakeListedDir \/ Prepared \/ ReceiveFile \/ ReceiveFileFails \/ ReceiverDisconnected
  <2>1. toSender' = toSender
    BY <1>8 DEF ReceiverExpectsList, ReceiverReadsMarker, ReadList, DeleteExtra, MakeListedDir,
       Prepared, ReceiveFile, ReceiveFileFails, ReceiverDisconnected, ReceiverStays
  <2>2. toReceiver' = toReceiver \/ ReceiverTakes
    BY <1>8 DEF ReceiverExpectsList, ReceiverReadsMarker, ReadList, DeleteExtra, MakeListedDir,
       Prepared, ReceiveFile, ReceiveFileFails, ReceiverDisconnected
  <2>3. \/ ReceiverFails
        \/ rOut' = rOut /\ (rPc' = rPc \/ rPc \in {"marker", "list", "prepare"})
    <3>1. CASE ReceiverExpectsList \/ ReceiverReadsMarker \/ ReadList \/ DeleteExtra
      BY <3>1 DEF ReceiverExpectsList, ReceiverReadsMarker, ReadList, DeleteExtra
    <3>2. CASE \/ MakeListedDir \/ Prepared \/ ReceiveFile \/ ReceiveFileFails
               \/ ReceiverDisconnected
      BY <3>2 DEF MakeListedDir, Prepared, ReceiveFile, ReceiveFileFails, ReceiverDisconnected
    <3> QED
      BY <1>8, <3>1, <3>2
  <2> QED
    BY <1>6, <1>7, <2>1, <2>2, <2>3
\* A message before the first marker
<1>9. ASSUME NEW m, rOut' = <<m>>, UNCHANGED <<toSender, toReceiver>>,
             rPc \in {"marker", "request"},
             m = Done => rPc' = "receive"
      PROVE  OneMarker'
  <2>1. Len(rOut') = 1 /\ (Holds(rOut', Done) <=> m = Done)
    BY <1>3, <1>9, Zenon
  <2>2. sMarks = 0 /\ ~Holds(toSender, Done)
    BY <1>9 DEF OneMarker
  <2> QED
    BY <1>2, <1>9, <2>1, <2>2 DEF OneMarker
<1>10. CASE ReceiverSendsMarker
  BY <1>1, <1>9, <1>10 DEF ReceiverSendsMarker, ReceiverStays
<1>11. CASE RequestFile
  <2>1. PICK i \in plan.ask :
          rOut' = <<[type |-> "request", index |-> i, transfer |-> ~job.dryRun,
                     basis |-> IF job.dryRun THEN Absent ELSE Basis(rEntries[i].path)]>>
    BY <1>11 DEF RequestFile
  <2>2. PICK m : rOut' = <<m>> /\ m.type = "request"
    BY <2>1
  <2>3. Done.type # "request"
    BY DEF Done
  <2> QED
    BY <1>9, <1>11, <2>2, <2>3 DEF RequestFile, ReceiverStays
<1>12. CASE RequestsDone
  BY <1>9, <1>12 DEF RequestsDone, ReceiverStays
<1>13. CASE ReceiveDone
  BY <1>1, <1>13 DEF ReceiveDone, AfterRound
<1>14. CASE ReadAck \/ ReadStats \/ ReadGoodbyeAck \/ ReceiverEnds
  BY <1>14 DEF ReadAck, ReadStats, ReadGoodbyeAck, ReceiverEnds
<1>15. CASE ReceiverWrites
  <2>1. /\ rOut # <<>> /\ rOut' = Tail(rOut) /\ toSender' = Append(toSender, Head(rOut))
        /\ UNCHANGED <<toReceiver, rPc>>
    BY <1>15 DEF ReceiverWrites
  <2>2. Tail(rOut) = <<>> /\ (Holds(rOut, Done) <=> Head(rOut) = Done)
    BY <1>1, <2>1, LastWord DEF OneMarker
  <2>3. ~Holds(toSender, Done) /\ Head(rOut) \in ToSenderMsg
    BY <1>1, <2>1, SeqParts DEF OneMarker
  <2>4. /\ LastOnly(toSender', Done)
        /\ Holds(toSender', Done) => Head(rOut) = Done
    BY <1>1, <2>1, <2>3, LastWord
  <2>5. Len(rOut') = 0 /\ ~Holds(rOut', Done) /\ rOut' = <<>>
    BY <1>3, <2>1, <2>2, Zenon
  <2>6. Holds(toSender', Done) => rPc = "receive"
    BY <2>2, <2>4 DEF OneMarker
  <2>7. sMarks = 0
    BY <2>1 DEF OneMarker
  <2> QED
    BY <1>2, <2>1, <2>4, <2>5, <2>6, <2>7 DEF OneMarker
<1> QED
  BY <1>8, <1>10, <1>11, <1>12, <1>13, <1>14, <1>15 DEF ReceiverStep

\* A lost connection is silent for good.
LEMMA SilenceKept ==
    ASSUME TypeOK, Rounds, Next
    PROVE  (cut => toSender = <<>> /\ toReceiver = <<>>)' /\ (cut => cut')
<1>1. CASE SenderStep
  <2>1. cut' = cut /\ (toReceiver' = toReceiver \/ SenderWrites)
    BY <1>1, SenderFrame
  <2>2. toSender' = toSender \/ SenderTakes
    BY <1>1 DEF SenderStep, SenderSendsMarker, SenderReadsMarker, Collect, ServeDone,
       ServeRequest, ReadGoodbye, SenderWrites, SenderDisconnected
  <2> QED
    BY <2>1, <2>2 DEF Rounds, SenderTakes, SenderWrites
<1>2. CASE ReceiverStep \/ ReceiveFileFails
  <2>1. cut' = cut /\ (toSender' = toSender \/ ReceiverWrites)
    BY <1>2, ReceiverFrame
  <2>2. toReceiver' = toReceiver \/ toReceiver' = <<>> \/ ReceiverTakes \/ SenderWrites
    BY <1>2, StreamSteps
  <2> QED
    BY <2>1, <2>2 DEF Rounds, ReceiverTakes, SenderWrites, ReceiverWrites
<1>3. CASE Cut
  BY <1>3 DEF Cut
<1>4. CASE SenderAborts \/ ReceiverAborts \/ Edit
  BY <1>4 DEF SenderAborts, ReceiverAborts, Edit, Rounds
<1> QED
  BY <1>1, <1>2, <1>3, <1>4 DEF Next

\* The receiver counts rounds from the first marker on.
LEMMA RoundsGoOn ==
    ASSUME TypeOK, Rounds, ReceiverStep \/ ReceiveFileFails
    PROVE  /\ rRound' = 0 => rRound = 0
           /\ rRound' # 0 => rPc' \in {"ack", "stats", "bye", "last", "done", "failed"}
           /\ rRound' = 0 => rPc' \in {"marker", "list", "prepare", "request", "receive", "failed"}
           /\ rPc' = "receive" => plan'.ask = {}
<1>1. rRound \in Nat /\ Phases \in {2, 3}
  BY StreamFacts
<1>2. ASSUME ReceiverFails
      PROVE  rPc' = "failed" /\ rRound' = rRound /\ plan' = plan
  BY <1>2 DEF ReceiverFails
<1>3. CASE ReceiverFails
  BY <1>2, <1>3
<1>4. CASE ReceiverSendsMarker \/ ReceiverExpectsList \/ ReceiverReadsMarker \/ ReadList
  BY <1>3, <1>4 DEF ReceiverSendsMarker, ReceiverExpectsList, ReceiverReadsMarker, ReadList, Rounds
<1>5. CASE DeleteExtra \/ MakeListedDir \/ Prepared
  BY <1>3, <1>5 DEF DeleteExtra, MakeListedDir, Prepared, Rounds
<1>6. CASE RequestFile \/ RequestsDone \/ ReceiveFile
  BY <1>3, <1>6 DEF RequestFile, RequestsDone, ReceiveFile, Rounds
<1>7. CASE ReceiveDone
  BY <1>1, <1>7 DEF ReceiveDone, AfterRound
<1>8. CASE ReadAck
  <2>1. rRound # 0
    BY <1>8 DEF ReadAck, Rounds
  <2> QED
    BY <1>1, <1>3, <1>8, <2>1 DEF ReadAck, AfterRound
<1>9. CASE ReadStats \/ ReadGoodbyeAck \/ ReceiverEnds
  BY <1>3, <1>9 DEF ReadStats, ReadGoodbyeAck, ReceiverEnds, Rounds
<1>10. CASE ReceiverWrites
  BY <1>10 DEF ReceiverWrites, Rounds
<1>11. CASE ReceiverDisconnected \/ ReceiveFileFails
  BY <1>3, <1>11 DEF ReceiverDisconnected, ReceiveFileFails
<1> QED
  BY <1>4, <1>5, <1>6, <1>7, <1>8, <1>9, <1>10, <1>11 DEF ReceiverStep

\* The rounds stay as they are described.
LEMMA RoundsStep ==
    ASSUME TypeOK, Rounds, Next
    PROVE  Rounds'
<1>1. (cut => toSender = <<>> /\ toReceiver = <<>>)' /\ (cut => cut')
  BY SilenceKept
<1>2. CASE SenderStep
  <2>1. UNCHANGED <<cut, rPc, rRound, plan>>
    BY <1>2, SenderFrame
  <2>2. ASSUME rRound = 0, cut
        PROVE  sPc' \notin {"goodbye", "adieu", "done"}
    <3>1. ~SenderTakes
      BY <2>2 DEF Rounds, SenderTakes
    <3>2. sPc' = sPc \/ sPc' \in {"collect", "serve", "failed"}
      BY <1>2, <3>1 DEF SenderStep, SenderSendsMarker, SenderReadsMarker, Collect, ServeDone,
         ServeRequest, ReadGoodbye, SenderWrites, SenderDisconnected, SenderFails
    <3> QED
      BY <2>2, <3>2 DEF Rounds
  <2>3. ASSUME rRound = 0, ~cut
        PROVE  OneMarker' /\ sPc' \notin {"goodbye", "adieu", "done"}
    BY <1>2, <2>3, MarkerSender DEF Rounds
  <2> QED
    BY <1>1, <2>1, <2>2, <2>3 DEF Rounds
<1>3. CASE ReceiverStep \/ ReceiveFileFails
  <2>1. sPc' = sPc /\ cut' = cut
    BY <1>3, ReceiverFrame
  <2>2. ASSUME rRound' = 0, ~cut
        PROVE  OneMarker'
    BY <1>3, <2>2, MarkerReceiver, RoundsGoOn DEF Rounds
  <2> QED
    BY <1>1, <1>3, <2>1, <2>2, RoundsGoOn DEF Rounds
<1>4. CASE Cut
  BY <1>1, <1>4 DEF Cut, Rounds, sender, receiver
<1>5. CASE SenderAborts
  <2>1. OneMarker => OneMarker'
    BY <1>5, MarkerFails DEF SenderAborts, SenderFails, receiver
  <2> QED
    BY <1>1, <1>5, <2>1 DEF SenderAborts, SenderFails, Rounds, receiver
<1>6. CASE ReceiverAborts
  <2>1. OneMarker => OneMarker'
    BY <1>6, MarkerFails DEF ReceiverAborts, ReceiverFails, sender
  <2> QED
    BY <1>1, <1>6, <2>1 DEF ReceiverAborts, ReceiverFails, Rounds, sender
<1>7. CASE Edit
  BY <1>1, <1>7 DEF Edit, Rounds, OneMarker, sender, receiver
<1> QED
  BY <1>2, <1>3, <1>4, <1>5, <1>6, <1>7 DEF Next

\* What is said of a position moves with the messages.
LEMMA AboutMoves ==
    ASSUME NEW S, NEW s \in Seq(S), NEW y, NEW i
    PROVE  /\ ~About(<<>>, y, i)
           /\ \A a : About(<<a>>, y, i) <=> a.type = y /\ a.index = i
           /\ s # <<>> /\ About(s, y, i) =>
                About(Tail(s), y, i) \/ (Head(s).type = y /\ Head(s).index = i)
           /\ \A x \in S : /\ About(s, y, i) => About(Append(s, x), y, i)
                           /\ x.type = y /\ x.index = i => About(Append(s, x), y, i)
<1>1. ~About(<<>>, y, i) /\ \A a : About(<<a>>, y, i) <=> a.type = y /\ a.index = i
  BY DEF About
<1>2. ASSUME s # <<>>, About(s, y, i)
      PROVE  About(Tail(s), y, i) \/ (Head(s).type = y /\ Head(s).index = i)
  <2>1. PICK k \in DOMAIN s : s[k].type = y /\ s[k].index = i
    BY <1>2 DEF About
  <2>2. CASE k = 1
    BY <1>2, <2>1, <2>2, SeqParts
  <2>3. CASE k # 1
    <3>1. DOMAIN s = 1 .. Len(s) /\ Len(s) \in Nat \ {0} /\ k - 1 \in 1 .. Len(s) - 1
      BY <1>2, <2>3
    <3>2. DOMAIN Tail(s) = 1 .. Len(s) - 1
      BY <1>2, <3>1
    <3>3. Tail(s)[k - 1] = s[k]
      BY <1>2, <3>1
    <3> QED
      BY <2>1, <3>1, <3>2, <3>3 DEF About
  <2> QED
    BY <2>2, <2>3
<1>3. ASSUME NEW x \in S
      PROVE  /\ About(s, y, i) => About(Append(s, x), y, i)
             /\ x.type = y /\ x.index = i => About(Append(s, x), y, i)
  <2>1. /\ DOMAIN Append(s, x) = 1 .. Len(s) + 1
        /\ \A k \in 1 .. Len(s) + 1 : Append(s, x)[k] = IF k = Len(s) + 1 THEN x ELSE s[k]
    OBVIOUS
  <2>2. DOMAIN s = 1 .. Len(s) /\ Len(s) \in Nat
    OBVIOUS
  <2>3. About(s, y, i) => About(Append(s, x), y, i)
    BY <2>1, <2>2 DEF About
  <2>4. Len(s) + 1 \in 1 .. Len(s) + 1
    BY <2>2
  <2>5. x.type = y /\ x.index = i => About(Append(s, x), y, i)
    BY <2>1, <2>4 DEF About
  <2> QED
    BY <2>3, <2>5
<1> QED
  BY <1>1, <1>2, <1>3

\* The primitives leave a file alone that is not theirs.
LEMMA FileStays ==
    ASSUME NEW f \in Tree, NEW p \in Path, NEW q \in Path, f[q].kind = "file"
    PROVE  /\ q \notin SelfAndUnder(p) => RemoveTree(f, p)[q] = f[q]
           /\ CanMakeDir(f, p) => MakeDir(f, p)[q] = f[q]
           /\ p \notin Under[q] /\ q # p => MakeDir(f, p)[q] = f[q]
           /\ \A n : Put(f, p, n)[p] = n
           /\ \A n : CanPut(f, p) /\ q # p => Put(f, p, n)[q] = f[q]
<1>1. f \in [Path -> Node] /\ MakeParents(f, p) \in [Path -> Node]
  BY NodeFacts DEF Tree, MakeParents
<1>2. q \notin SelfAndUnder(p) => RemoveTree(f, p)[q] = f[q]
  BY DEF RemoveTree
<1>3. p \notin Under[q] => MakeParents(f, p)[q] = f[q]
  BY DEF MakeParents
<1>4. CanMakeParents(f, p) => p \notin Under[q]
  BY DEF CanMakeParents, Above
<1>5. p \notin Under[q] /\ q # p => MakeDir(f, p)[q] = f[q]
  BY <1>1, <1>3 DEF MakeDir
<1>6. CanMakeDir(f, p) => MakeDir(f, p)[q] = f[q]
  BY <1>4, <1>5 DEF CanMakeDir
<1>7. \A n : Put(f, p, n)[p] = n
  BY <1>1 DEF Put
<1>8. \A n : CanPut(f, p) /\ q # p => Put(f, p, n)[q] = f[q]
  BY <1>1, <1>3, <1>4 DEF Put, CanPut
<1> QED
  BY <1>2, <1>5, <1>6, <1>7, <1>8

\* A session that is calm after a step was so before it.
LEMMA CalmBefore ==
    ASSUME KeptInv, Next, Calmly'
    PROVE  Calmly /\ ~Edit /\ src' = src /\ job' = job
<1>1. job' = job
  BY ListsMadeOnce
<1>2. edits = 0 /\ src' = src
  BY NobodyEdits DEF KeptInv, Calmly
<1>3. SameOrder
  BY OrderKept DEF KeptInv, Calmly
<1>4. ~Edit
  BY <1>2 DEF Edit, Calmly
<1> QED
  BY <1>1, <1>2, <1>3, <1>4 DEF Calmly

\* In a calm session an answer brings the content of the receiver's entry.
LEMMA ReceivesRight ==
    ASSUME KeptInv, Truthful, Calmly, ReceiveFile, ~ReceiverFails
    PROVE  LET m == Head(toReceiver)
               e == rEntries[m.index]
           IN  /\ m.type = "file" /\ m.index \in DOMAIN rEntries
               /\ CanPut(fs, e.path)
               /\ fs' = Put(fs, e.path, File(e.data, IF job.preserveTimes THEN e.mtime ELSE Now))
               /\ UNCHANGED <<rPc, rOut, rEntries, rRound, plan, want>>
<1> DEFINE m == Head(toReceiver)
<1> DEFINE e == rEntries[m.index]
<1>1. /\ m.type = "file" /\ m.index \in DOMAIN rEntries
      /\ m.transfer /\ ~job.dryRun => Rebuilds(m, e, fs[e.path]) /\ CanPut(fs, e.path)
      /\ fs' = IF m.transfer /\ ~job.dryRun THEN Received(m, e) ELSE fs
      /\ UNCHANGED <<rPc, rOut, rEntries, rRound, plan, want>>
  BY DEF ReceiveFile
<1>2. m \in TrueMsg
  BY SeqParts DEF ReceiveFile, ReceiverTakes, Truthful
<1>3. /\ m.transfer /\ m.index \in DOMAIN sEntries
      /\ m.data = src[sEntries[m.index].path].data
  BY <1>1, <1>2 DEF TrueMsg, Calmly
<1>4. sEntries[m.index].path = e.path
  BY <1>1, <1>3 DEF Calmly, SameOrder
<1>5. e \in TrueEntry
  BY <1>1 DEF Truthful
<1>6. e = EntryOf(src, e.path)
  BY <1>5 DEF TrueEntry, Calmly
<1>7. e.data = src[e.path].data
  BY <1>6 DEF EntryOf
<1>8. Rebuilt(m, fs[e.path]) = e.data
  BY <1>1, <1>3, <1>4, <1>7 DEF Rebuilds, Rebuilt, Calmly
<1> QED
  BY <1>1, <1>3, <1>8 DEF Received, Calmly

\* In a calm session the tree changes at a selected file only when an answer
\* brings its content.
LEMMA FileSettled ==
    ASSUME KeptInv, Truthful, Next, Calmly', ~ReceiveFileFails, rEntries' = rEntries,
           NEW i \in DOMAIN rEntries, Selected(rEntries[i]),
           fs[rEntries[i].path].kind = "file"
    PROVE  fs'[rEntries[i].path] = fs[rEntries[i].path] \/ Written(i)'
<1>1. Calmly /\ ~Edit /\ src' = src /\ job' = job
  BY CalmBefore
<1>2. PICK e \in Entry : e = rEntries[i] /\ e.path \in Path
  BY ListedPath DEF KeptInv
<1>3. fs \in Tree /\ ~job.dryRun /\ fs[e.path].kind = "file"
  BY <1>1, <1>2 DEF KeptInv, TypeOK, Calmly
<1>4. ASSUME fs' = fs \/ fs'[e.path] = fs[e.path]
      PROVE  fs'[rEntries[i].path] = fs[rEntries[i].path]
  BY <1>2, <1>4
<1>5. CASE SenderStep
  BY <1>4, <1>5, SenderFrame
<1>6. CASE Cut \/ SenderAborts \/ ReceiverAborts
  BY <1>4, <1>6 DEF Cut, SenderAborts, ReceiverAborts
<1>7. CASE \/ ReceiverSendsMarker \/ ReceiverExpectsList \/ ReceiverReadsMarker \/ Prepared
           \/ RequestFile \/ RequestsDone \/ ReceiveDone \/ ReadAck \/ ReadStats
           \/ ReadGoodbyeAck \/ ReceiverEnds \/ ReceiverWrites \/ ReceiverDisconnected
  BY <1>4, <1>7 DEF ReceiverSendsMarker, ReceiverExpectsList, ReceiverReadsMarker, Prepared,
       RequestFile, RequestsDone, ReceiveDone, ReadAck, ReadStats, ReadGoodbyeAck,
       ReceiverEnds, ReceiverWrites, ReceiverDisconnected
<1>8. CASE ReadList
  <2>1. CASE ReceiverFails
    BY <1>4, <1>8, <2>1 DEF ReadList, ReceiverFails
  <2>2. CASE ~ReceiverFails
    <3>1. rPc = "list"
      BY <1>8 DEF ReadList
    <3>2. rEntries = <<>>
      BY <3>1 DEF KeptInv, Fresh
    <3> QED
      BY <3>2
  <2> QED
    BY <2>1, <2>2
<1>9. CASE DeleteExtra
  <2>1. PICK p \in plan.extras : fs' = RemoveTree(fs, p)
    BY <1>3, <1>9 DEF DeleteExtra, Effect
  <2>2. p \in Path /\ e.path \notin SelfAndUnder(p)
    BY <1>2, JobFacts DEF KeptInv, TypeOK, ExtrasApart
  <2>3. RemoveTree(fs, p)[e.path] = fs[e.path]
    BY <1>2, <1>3, <2>2, FileStays
  <2> QED
    BY <1>4, <2>1, <2>3
<1>10. CASE MakeListedDir
  <2>1. PICK k \in plan.dirs :
          \/ fs' = fs
          \/ CanMakeDir(fs, rEntries[k].path) /\ fs' = MakeDir(fs, rEntries[k].path)
    BY <1>3, <1>10 DEF MakeListedDir, Effect
  <2>2. PICK p \in Path : p = rEntries[k].path
    BY ListedPath DEF KeptInv, TypeOK
  <2>3. CanMakeDir(fs, p) => MakeDir(fs, p)[e.path] = fs[e.path]
    BY <1>2, <1>3, FileStays
  <2> QED
    BY <1>4, <2>1, <2>2, <2>3
<1>11. CASE ReceiveFile
  <2>1. CASE ReceiverFails
    BY <1>4, <1>11, <2>1 DEF ReceiveFile, ReceiverFails
  <2>2. CASE ~ReceiverFails
    <3>1. PICK k \in DOMAIN rEntries :
            /\ CanPut(fs, rEntries[k].path)
            /\ fs' = Put(fs, rEntries[k].path,
                         File(rEntries[k].data, IF job.preserveTimes THEN rEntries[k].mtime ELSE Now))
      BY <1>1, <1>11, <2>2, ReceivesRight
    <3>2. PICK d \in Entry : d = rEntries[k] /\ d.path \in Path
      BY ListedPath DEF KeptInv
    <3>3. PICK n : n = File(d.data, IF job.preserveTimes THEN d.mtime ELSE Now)
      OBVIOUS
    <3>4. CanPut(fs, d.path) /\ fs' = Put(fs, d.path, n)
      BY <3>1, <3>2, <3>3
    <3>5. CASE e.path # d.path
      BY <1>2, <1>3, <1>4, <3>2, <3>4, <3>5, FileStays
    <3>6. CASE e.path = d.path
      <4>1. e = EntryOf(src, e.path) /\ d = EntryOf(src, d.path)
        BY <1>1, <1>2, <3>2 DEF Truthful, TrueEntry, Calmly
      <4>2. e = d
        BY <3>6, <4>1
      <4>3. fs'[e.path] = n
        BY <1>2, <1>3, <3>2, <3>4, <3>6, FileStays
      <4> QED
        BY <1>1, <1>2, <3>3, <4>2, <4>3 DEF Written
    <3> QED
      BY <3>5, <3>6
  <2> QED
    BY <2>1, <2>2
<1> QED
  BY <1>1, <1>5, <1>6, <1>7, <1>8, <1>9, <1>10, <1>11 DEF Next, ReceiverStep

\* So a file that is written stays so, and one that is up to date too.
LEMMA FilesKeptCalmly ==
    ASSUME KeptInv, Truthful, Next, Calmly', ~ReceiveFileFails, rEntries' = rEntries,
           NEW i \in DOMAIN rEntries, Selected(rEntries[i])
    PROVE  /\ Written(i) => Written(i)'
           /\ Current(i) => Current(i)'
<1>1. job' = job
  BY ListsMadeOnce
<1>2. Written(i) => fs[rEntries[i].path].kind = "file"
  BY DEF Written, File
<1>3. Current(i) => fs[rEntries[i].path].kind = "file"
  BY DEF Current
<1>4. Written(i)' => Current(i)'
  BY DEF Written, Current, File
<1>5. ASSUME Written(i)
      PROVE  Written(i)'
  <2>1. fs'[rEntries[i].path] = fs[rEntries[i].path] \/ Written(i)'
    BY <1>2, <1>5, FileSettled
  <2> QED
    BY <1>1, <1>5, <2>1 DEF Written
<1>6. ASSUME Current(i)
      PROVE  Current(i)'
  <2>1. fs'[rEntries[i].path] = fs[rEntries[i].path] \/ Written(i)'
    BY <1>3, <1>6, FileSettled
  <2> QED
    BY <1>1, <1>4, <1>6, <2>1 DEF Current
<1> QED
  BY <1>5, <1>6

\* What the receiver does not want is up to date when it has read the list.
LEMMA CurrentAtStart ==
    ASSUME KeptInv, Truthful, ReadList, ~ReceiverFails,
           NEW i \in DOMAIN rEntries', Selected(rEntries[i])', rEntries'[i].kind = "file",
           i \notin want'
    PROVE  Current(i)'
<1>1. job' = job
  BY ListsMadeOnce DEF Next, ReceiverStep
<1>2. /\ want' = Needed(rEntries') /\ rEntries' \in Seq(TrueEntry)
      /\ fs' = fs \/ (~Exists(fs, Top) /\ fs' = Effect(MakeDir(fs, Top)))
  BY ListTaken
<1>3. PICK e \in TrueEntry : e = rEntries'[i]
  BY <1>2
<1>4. e.path \in Path /\ e.path \in Dest \cup {Top} /\ fs \in Tree /\ Top \in Path
  BY <1>3, JobFacts DEF TrueEntry, Entry, KeptInv, TypeOK
<1>5. ~RemoteFileNeedsUpdate(e, fs[e.path])
  <2>1. Selected(e)
    BY <1>1, <1>3 DEF Selected
  <2> QED
    BY <1>2, <1>3, <2>1 DEF Needed
<1>6. fs[e.path].kind = "file"
  BY <1>5 DEF RemoteFileNeedsUpdate
<1>7. fs'[e.path] = fs[e.path]
  <2>1. CASE fs' = fs
    BY <2>1
  <2>2. CASE ~Exists(fs, Top) /\ fs' = MakeDir(fs, Top)
    <3>1. e.path # Top
      BY <1>6, <2>2 DEF Exists
    <3>2. Top \notin Under[e.path]
      BY <1>4, <3>1, TopOutside
    <3> QED
      BY <1>4, <1>6, <2>2, <3>1, <3>2, FileStays
  <2> QED
    BY <1>2, <2>1, <2>2 DEF Effect
<1>8. /\ job.update # "IgnoreTimes" => Size[fs[e.path].data] = Size[e.data]
      /\ job.update = "Checksum" => fs[e.path].data = e.data
  <2>1. job.update \in UpdateModes
    BY JobFacts DEF Job, KeptInv
  <2>2. job.update = "Checksum" => fs[e.path].data = e.data
    BY <1>5 DEF RemoteFileNeedsUpdate
  <2>3. job.update \in {"SizeOnly", "QuickCheck"} => Size[fs[e.path].data] = Size[e.data]
    BY <1>5 DEF RemoteFileNeedsUpdate
  <2> QED
    BY <2>1, <2>2, <2>3 DEF UpdateModes
<1> QED
  BY <1>1, <1>3, <1>6, <1>7, <1>8 DEF Current

\* The sender loses no file that the receiver waits for.
LEMMA PlacedSender ==
    ASSUME KeptInv, Truthful, Rounds, SenderStep, Calmly, Working, rRound = 0, ~cut,
           NEW i \in want, Placed(i)
    PROVE  Placed(i)'
<1>1. OneMarker /\ sPc \notin {"goodbye", "adieu", "done"}
  BY DEF Rounds
<1>2. /\ UNCHANGED <<job, fs, rPc, rOut, rEntries, plan, want>>
      /\ toReceiver' = toReceiver \/ SenderWrites
  BY SenderFrame
<1>3. Written(i)' <=> Written(i)
  BY <1>2 DEF Written
<1>4. /\ toSender \in Seq(ToSenderMsg) /\ rOut \in Seq(ToSenderMsg)
      /\ toReceiver \in Seq(ToReceiverMsg) /\ sOut \in Seq(ToReceiverMsg)
  BY StreamFacts DEF KeptInv
<1>5. ~Asks(<<>>, i) /\ ~Gives(<<>>, i)
  BY AboutMoves, EmptySeq DEF Asks, Gives
\* All that counts once the marker is answered is written or in the stream.
<1>6. ASSUME Written(i) \/ Gives(toReceiver, i), toReceiver' = toReceiver
      PROVE  Placed(i)'
  BY <1>3, <1>6 DEF Placed
<1>7. ASSUME SenderFails, toReceiver' = toReceiver
      PROVE  Placed(i)'
  BY <1>3, <1>7 DEF Placed, SenderFails
<1>8. ASSUME ~SenderFails, toReceiver' = toReceiver, sMarks' = sMarks,
             Asks(toSender, i) => Asks(toSender', i) \/ Gives(sOut', i),
             Gives(sOut, i) => Gives(sOut', i),
             sPc # "failed"
      PROVE  Placed(i)'
  BY <1>2, <1>3, <1>8 DEF Placed
<1>9. sPc \in {"marker", "collect"} => ~Gives(sOut, i)
  <2>1. ASSUME sPc \in {"marker", "collect"}, Gives(sOut, i)
        PROVE  FALSE
    <3>1. PICK k \in DOMAIN sOut : sOut[k].type = "file"
      BY <2>1 DEF Gives, About
    <3>2. sOut[k] \in TrueMsg
      BY DEF Truthful
    <3>3. sOut[k].index \in DOMAIN sEntries
      BY <3>1, <3>2 DEF TrueMsg, Calmly
    <3>4. sEntries = <<>>
      BY <2>1 DEF KeptInv, Fresh
    <3> QED
      BY <3>3, <3>4
  <2> QED
    BY <2>1
<1>10. CASE SenderSendsMarker
  BY <1>8, <1>9, <1>10 DEF SenderSendsMarker, SenderStays, SenderFails
<1>11. CASE SenderReadsMarker
  <2>1. CASE ~SenderFails
    <3>1. Head(toSender) = Marker /\ SenderTakes /\ sPc = "marker" /\ sOut' = sOut /\ sMarks' = sMarks
      BY <1>11, <2>1 DEF SenderReadsMarker
    <3>2. Asks(toSender, i) => Asks(toSender', i)
      <4>1. Head(toSender).type # "request"
        BY <3>1 DEF Marker
      <4> QED
        BY <1>4, <3>1, <4>1, AboutMoves DEF Asks, SenderTakes
    <3> QED
      BY <1>8, <1>11, <2>1, <3>1, <3>2 DEF SenderReadsMarker, SenderStays
  <2> QED
    BY <1>7, <1>11, <2>1 DEF SenderReadsMarker, SenderStays
<1>12. CASE Collect
  <2>1. CASE ~SenderFails
    BY <1>8, <1>9, <1>12, <2>1 DEF Collect, SenderStays
  <2> QED
    BY <1>7, <1>12, <2>1 DEF Collect, SenderStays
<1>13. CASE ServeDone
  <2>1. SenderTakes /\ Head(toSender) = Done /\ sOut = <<>> /\ toReceiver' = toReceiver /\ sPc = "serve"
    BY <1>13 DEF ServeDone, SenderTakes, SenderReading, SenderStays
  <2>2. toSender # <<>> /\ Holds(toSender, Done) /\ Tail(toSender) = <<>>
    BY <1>1, <1>4, <2>1, LastWord DEF SenderTakes, OneMarker
  <2>3. rOut = <<>> /\ rPc = "receive"
    BY <1>1, <2>2 DEF OneMarker, Working
  <2>4. plan.ask = {}
    BY <2>3 DEF Rounds
  <2>5. ~Asks(toSender, i)
    <3>1. Done.type # "request"
      BY DEF Done
    <3>2. Asks(toSender, i) => Asks(Tail(toSender), i) \/ Head(toSender).type = "request"
      BY <1>4, <2>2, AboutMoves DEF Asks
    <3> QED
      BY <1>5, <2>1, <2>2, <3>1, <3>2
  <2>6. Written(i) \/ Gives(toReceiver, i)
    BY <1>5, <2>1, <2>3, <2>4, <2>5 DEF Placed
  <2> QED
    BY <1>6, <2>1, <2>6
<1>14. CASE ServeRequest
  <2>1. CASE ~SenderFails
    <3>1. /\ Head(toSender).type = "request" /\ sMarks' = sMarks
          /\ \E a : sOut' = <<a>> /\ a.type = "file" /\ a.index = Head(toSender).index
      BY <1>14, <2>1, AnswerGiven
    <3>2. SenderTakes /\ sOut = <<>> /\ sPc # "failed"
      BY <1>14 DEF ServeRequest, SenderTakes, SenderReading
    <3>3. ASSUME Asks(toSender, i)
          PROVE  Asks(toSender', i) \/ Gives(sOut', i)
      <4>1. Asks(toSender', i) \/ Head(toSender).index = i
        BY <1>4, <3>2, <3>3, AboutMoves DEF Asks, SenderTakes
      <4>2. Head(toSender).index = i => Gives(sOut', i)
        <5>1. PICK a : sOut' = <<a>> /\ a.type = "file" /\ a.index = Head(toSender).index
          BY <3>1
        <5>2. Gives(<<a>>, i) <=> a.type = "file" /\ a.index = i
          <6>1. DOMAIN <<a>> = {1} /\ <<a>>[1] = a
            OBVIOUS
          <6> QED
            BY <6>1, Zenon DEF Gives, About
        <5> QED
          BY <5>1, <5>2
      <4> QED
        BY <4>1, <4>2
    <3> QED
      BY <1>5, <1>8, <1>14, <2>1, <3>1, <3>2, <3>3 DEF ServeRequest, SenderStays
  <2> QED
    BY <1>7, <1>14, <2>1 DEF ServeRequest, SenderStays
<1>15. CASE SenderWrites
  <2>1. /\ sOut # <<>> /\ sOut' = Tail(sOut) /\ toReceiver' = Append(toReceiver, Head(sOut))
        /\ UNCHANGED <<toSender, sPc, sMarks>>
    BY <1>15 DEF SenderWrites
  <2>2. Head(sOut) \in ToReceiverMsg
    BY <1>4, <2>1, SeqParts
  <2>3. Gives(toReceiver, i) => Gives(toReceiver', i)
    BY <1>4, <2>1, <2>2, AboutMoves DEF Gives
  <2>4. Gives(sOut, i) => Gives(sOut', i) \/ Gives(toReceiver', i)
    BY <1>4, <2>1, <2>2, AboutMoves DEF Gives
  <2> QED
    BY <1>2, <1>3, <2>1, <2>3, <2>4 DEF Placed
<1>16. CASE SenderDisconnected
  BY <1>7, <1>16 DEF SenderDisconnected
<1>17. CASE ReadGoodbye
  BY <1>1, <1>17 DEF ReadGoodbye
<1> QED
  BY <1>10, <1>11, <1>12, <1>13, <1>14, <1>15, <1>16, <1>17 DEF SenderStep

\* Neither does the receiver.
LEMMA PlacedReceiver ==
    ASSUME KeptInv, Truthful, Rounds, Next, ReceiverStep, Calmly', Working, Working', ~cut,
           rEntries' = rEntries, NEW i \in want, Placed(i)
    PROVE  Placed(i)'
<1>1. Calmly
  BY CalmBefore
<1>2. UNCHANGED <<sPc, sOut, sMarks>>
  BY ReceiverFrame
<1>3. /\ toSender \in Seq(ToSenderMsg) /\ rOut \in Seq(ToSenderMsg)
      /\ toReceiver \in Seq(ToReceiverMsg) /\ sOut \in Seq(ToReceiverMsg)
  BY StreamFacts DEF KeptInv
<1>4. ~Asks(<<>>, i)
  BY AboutMoves, EmptySeq DEF Asks
<1>5. ~ReceiverFails
  BY DEF ReceiverFails, Working
<1>6. Written(i) => Written(i)'
  <2>1. i \in DOMAIN rEntries /\ Selected(rEntries[i]) /\ ~ReceiveFileFails
    BY <1>5 DEF KeptInv, TypeOK, Truthful, ReceiveFileFails
  <2> QED
    BY <2>1, FilesKeptCalmly
<1>7. ASSUME UNCHANGED <<toSender, rOut, plan>>,
             Gives(toReceiver, i) => Written(i)' \/ Gives(toReceiver', i)
      PROVE  Placed(i)'
  BY <1>2, <1>6, <1>7 DEF Placed
<1>8. CASE DeleteExtra \/ MakeListedDir
  <2>1. /\ UNCHANGED <<sPc, sOut, sMarks, toSender, rOut, toReceiver>>
        /\ plan'.ask = plan.ask
    BY <1>2, <1>5, <1>8 DEF DeleteExtra, MakeListedDir, ReceiverStays, KeptInv, TypeOK
  <2> QED
    BY <1>6, <2>1 DEF Placed
<1>9. CASE Prepared
  BY <1>7, <1>9 DEF Prepared, ReceiverStays
<1>10. CASE RequestFile
  <2>1. PICK k \in plan.ask :
          /\ rOut' = <<[type |-> "request", index |-> k, transfer |-> ~job.dryRun,
                        basis |-> IF job.dryRun THEN Absent ELSE Basis(rEntries[k].path)]>>
          /\ plan' = [plan EXCEPT !.ask = @ \ {k}]
    BY <1>10 DEF RequestFile
  <2>2. rOut = <<>> /\ UNCHANGED <<toSender, toReceiver>>
    BY <1>10 DEF RequestFile, ReceiverStays
  <2>3. plan'.ask = plan.ask \ {k}
    BY <2>1 DEF KeptInv, TypeOK
  <2>4. PICK m : rOut' = <<m>> /\ m.type = "request" /\ m.index = k
    BY <2>1
  <2>5. k = i => Asks(rOut', i)
    BY <1>3, <2>4, AboutMoves DEF Asks
  <2> QED
    BY <1>2, <1>4, <1>6, <2>2, <2>3, <2>5 DEF Placed
<1>11. CASE RequestsDone
  <2>1. rOut = <<>> /\ UNCHANGED <<toSender, toReceiver, plan>>
    BY <1>11 DEF RequestsDone, ReceiverStays
  <2> QED
    BY <1>2, <1>4, <1>6, <2>1 DEF Placed
<1>12. CASE ReceiveFile
  <2>1. /\ Head(toReceiver).index \in DOMAIN rEntries
        /\ LET e == rEntries[Head(toReceiver).index]
           IN  fs' = Put(fs, e.path, File(e.data, IF job.preserveTimes THEN e.mtime ELSE Now))
        /\ UNCHANGED <<rOut, plan>>
    BY <1>1, <1>5, <1>12, ReceivesRight
  <2>2. ReceiverTakes /\ toSender' = toSender
    BY <1>12 DEF ReceiveFile, ReceiverStays
  <2>3. ASSUME Head(toReceiver).index = i
        PROVE  Written(i)'
    <3>1. i \in DOMAIN rEntries /\ job' = job
      BY <2>1, <2>3, ListsMadeOnce
    <3>2. PICK e \in Entry : e = rEntries[i] /\ e.path \in Path
      BY <3>1, ListedPath DEF KeptInv
    <3>3. fs' = Put(fs, e.path, File(e.data, IF job.preserveTimes THEN e.mtime ELSE Now))
      BY <2>1, <2>3, <3>2
    <3>4. \A n : Put(fs, e.path, n)[e.path] = n
      <4>1. MakeParents(fs, e.path) \in [Path -> Node]
        BY NodeFacts DEF MakeParents, Tree, KeptInv, TypeOK
      <4> QED
        BY <3>2, <4>1 DEF Put
    <3> QED
      BY <3>1, <3>2, <3>3, <3>4 DEF Written
  <2>4. Gives(toReceiver, i) => Gives(toReceiver', i) \/ Head(toReceiver).index = i
    BY <1>3, <2>2, AboutMoves DEF Gives, ReceiverTakes
  <2> QED
    BY <1>7, <2>1, <2>2, <2>3, <2>4
<1>13. CASE ReceiverWrites
  <2>1. /\ rOut # <<>> /\ rOut' = Tail(rOut) /\ toSender' = Append(toSender, Head(rOut))
        /\ UNCHANGED <<toReceiver, plan>>
    BY <1>13 DEF ReceiverWrites
  <2>2. Head(rOut) \in ToSenderMsg
    BY <1>3, <2>1, SeqParts
  <2>3. Asks(toSender, i) => Asks(toSender', i)
    BY <1>3, <2>1, <2>2, AboutMoves DEF Asks
  <2>4. Asks(rOut, i) => Asks(rOut', i) \/ Asks(toSender', i)
    BY <1>3, <2>1, <2>2, AboutMoves DEF Asks
  <2> QED
    BY <1>2, <1>6, <2>1, <2>3, <2>4 DEF Placed
<1>14. CASE ReceiverDisconnected
  BY <1>5, <1>14 DEF ReceiverDisconnected
<1>15. CASE \/ ReceiverSendsMarker \/ ReceiverExpectsList \/ ReceiverReadsMarker \/ ReadList
            \/ ReadAck \/ ReadStats \/ ReadGoodbyeAck \/ ReceiverEnds
  BY <1>15 DEF ReceiverSendsMarker, ReceiverExpectsList, ReceiverReadsMarker, ReadList,
     ReadAck, ReadStats, ReadGoodbyeAck, ReceiverEnds, Working
<1>16. CASE ReceiveDone
  BY <1>16 DEF ReceiveDone, AfterRound, Working
<1> QED
  BY <1>8, <1>9, <1>10, <1>11, <1>12, <1>13, <1>14, <1>15, <1>16 DEF ReceiverStep

\* When the first marker comes back, everything is written.
LEMMA AllWritten ==
    ASSUME KeptInv, Rounds, ReceiveDone, NEW i \in want, ~cut => Placed(i)
    PROVE  Written(i)
<1>1. rPc = "receive" /\ ReceiverTakes /\ Head(toReceiver) = Done
  BY DEF ReceiveDone
<1>2. toReceiver # <<>> /\ toReceiver \in Seq(ToReceiverMsg)
  BY <1>1, StreamFacts DEF ReceiverTakes, KeptInv
<1>3. ~cut /\ rRound = 0
  BY <1>1, <1>2 DEF Rounds
<1>4. OneMarker
  BY <1>3 DEF Rounds
<1>5. Holds(toReceiver, Done) /\ Tail(toReceiver) = <<>>
  BY <1>1, <1>2, <1>4, LastWord DEF OneMarker
<1>6. sMarks = 1
  BY <1>4, <1>5 DEF OneMarker
<1>7. ~Gives(toReceiver, i)
  <2>1. Done.type # "file"
    BY DEF Done
  <2>2. Gives(toReceiver, i) => Gives(Tail(toReceiver), i) \/ Head(toReceiver).type = "file"
    BY <1>2, AboutMoves DEF Gives
  <2>3. ~Gives(<<>>, i)
    BY <1>2, AboutMoves DEF Gives
  <2> QED
    BY <1>1, <1>5, <2>1, <2>2, <2>3
<1> QED
  BY <1>3, <1>6, <1>7 DEF Placed

\* Nothing that the receiver wants is lost.
LEMMA ProgressStep ==
    ASSUME KeptInv, Truthful, Rounds, Progress, Next, Calmly'
    PROVE  /\ Working' \/ rRound' # 0 =>
                (\A i \in DOMAIN rEntries :
                   Selected(rEntries[i]) /\ rEntries[i].kind = "file" /\ i \notin want
                     => Current(i))'
           /\ Working' /\ ~cut' => \A i \in want' : Placed(i)'
           /\ rRound' # 0 => \A i \in want' : Written(i)'
<1>1. Calmly /\ ~Edit /\ src' = src /\ job' = job
  BY CalmBefore
<1>2. want \subseteq DOMAIN rEntries /\ \A i \in want : Selected(rEntries[i])
  BY DEF KeptInv, TypeOK, Truthful
<1>3. ReceiveFileFails => ~Working' /\ rRound' = 0
  BY DEF ReceiveFileFails, ReceiverFails, Working, Rounds
<1>4. CASE ReadList /\ ~ReceiverFails
  <2>1. rPc = "list" /\ rPc' = "prepare" /\ rRound' = rRound /\ plan'.ask = want' /\ sMarks' = sMarks
    BY <1>4, ListTaken, ReceiverFrame DEF ReceiverStep
  <2>2. rRound = 0
    BY <2>1 DEF Rounds
  <2>3. (\A i \in DOMAIN rEntries :
           Selected(rEntries[i]) /\ rEntries[i].kind = "file" /\ i \notin want => Current(i))'
    BY <1>4, CurrentAtStart
  <2>4. ~cut' => sMarks' = 0
    <3>1. cut' = cut
      BY <1>4, ReceiverFrame DEF ReceiverStep
    <3> QED
      BY <2>1, <2>2, <3>1 DEF Rounds, OneMarker
  <2>5. ~cut' => \A i \in want' : Placed(i)'
    BY <2>1, <2>4 DEF Placed
  <2> QED
    BY <2>1, <2>2, <2>3, <2>5
<1>5. CASE want' = want /\ rEntries' = rEntries /\ ~(ReadList /\ ~ReceiverFails)
  <2>1. Working' => Working /\ rRound = 0 /\ rRound' = 0
    <3>1. rRound = 0 \/ rRound' # 0
      <4>1. CASE ReceiverStep \/ ReceiveFileFails
        BY <4>1, RoundsGoOn DEF KeptInv
      <4>2. CASE SenderStep
        BY <4>2, SenderFrame
      <4>3. CASE Cut \/ SenderAborts \/ ReceiverAborts
        BY <4>3 DEF Cut, SenderAborts, ReceiverAborts, ReceiverFails, receiver
      <4> QED
        BY <1>1, <4>1, <4>2, <4>3 DEF Next
    <3>2. Rounds'
      BY RoundsStep DEF KeptInv
    <3>3. Working' => rRound' = 0
      BY <3>2 DEF Rounds, Working
    <3>4. Working' => Working
      <4>1. CASE ReceiverFails
        BY <4>1 DEF ReceiverFails, Working
      <4>2. CASE SenderStep
        BY <4>2, SenderFrame DEF Working
      <4>3. CASE Cut \/ SenderAborts \/ ReceiverAborts
        BY <4>3 DEF Cut, SenderAborts, ReceiverAborts, ReceiverFails, receiver, Working
      <4>4. CASE \/ ReceiverSendsMarker \/ ReceiverExpectsList \/ ReceiverReadsMarker \/ ReadList
                 \/ DeleteExtra \/ MakeListedDir \/ Prepared \/ RequestFile \/ RequestsDone
        BY <1>5, <4>1, <4>4 DEF ReceiverSendsMarker, ReceiverExpectsList, ReceiverReadsMarker,
           DeleteExtra, MakeListedDir, Prepared, RequestFile, RequestsDone, Working
      <4>5. CASE \/ ReceiveFile \/ ReceiveDone \/ ReadAck \/ ReadStats \/ ReadGoodbyeAck
                 \/ ReceiverEnds \/ ReceiverWrites \/ ReceiverDisconnected \/ ReceiveFileFails
        BY <4>1, <4>5 DEF ReceiveFile, ReceiveDone, ReadAck, ReadStats, ReadGoodbyeAck,
           ReceiverEnds, ReceiverWrites, ReceiverDisconnected, ReceiveFileFails, AfterRound,
           Working
      <4> QED
        BY <1>1, <4>2, <4>3, <4>4, <4>5 DEF Next, ReceiverStep
    <3> QED
      BY <3>1, <3>3, <3>4
  <2>2. rRound' # 0 => rRound # 0 \/ ReceiveDone
    <3>1. CASE SenderStep
      BY <3>1, SenderFrame
    <3>2. CASE Cut \/ SenderAborts \/ ReceiverAborts \/ ReceiveFileFails \/ ReceiverDisconnected
      BY <3>2 DEF Cut, SenderAborts, ReceiverAborts, ReceiveFileFails, ReceiverDisconnected,
         ReceiverFails, receiver
    <3>3. CASE ReadAck
      BY <3>3 DEF ReadAck, Rounds
    <3>4. CASE ReceiverFails
      BY <3>4 DEF ReceiverFails
    <3>5. CASE \/ ReceiverSendsMarker \/ ReceiverExpectsList \/ ReceiverReadsMarker \/ ReadList
               \/ DeleteExtra \/ MakeListedDir \/ Prepared \/ RequestFile \/ RequestsDone
      BY <1>5, <3>4, <3>5 DEF ReceiverSendsMarker, ReceiverExpectsList, ReceiverReadsMarker,
         DeleteExtra, MakeListedDir, Prepared, RequestFile, RequestsDone
    <3>6. CASE \/ ReceiveFile \/ ReadStats \/ ReadGoodbyeAck \/ ReceiverEnds \/ ReceiverWrites
      BY <3>4, <3>6 DEF ReceiveFile, ReadStats, ReadGoodbyeAck, ReceiverEnds, ReceiverWrites
    <3> QED
      BY <1>1, <3>1, <3>2, <3>3, <3>5, <3>6 DEF Next, ReceiverStep
  <2>3. ASSUME Working' \/ rRound' # 0
        PROVE  (\A i \in DOMAIN rEntries :
                  Selected(rEntries[i]) /\ rEntries[i].kind = "file" /\ i \notin want
                    => Current(i))'
    <3>1. Working \/ rRound # 0
      BY <2>1, <2>2, <2>3 DEF ReceiveDone, Working
    <3>2. ~ReceiveFileFails
      BY <1>3, <2>3
    <3>3. SUFFICES ASSUME NEW i \in DOMAIN rEntries, Selected(rEntries[i]),
                          rEntries[i].kind = "file", i \notin want
                   PROVE  Current(i)'
      BY <1>1, <1>5 DEF Selected
    <3>4. Current(i)
      BY <1>1, <3>1, <3>3 DEF Progress
    <3> QED
      BY <1>5, <3>2, <3>3, <3>4, FilesKeptCalmly
  <2>4. ASSUME rRound' # 0, NEW i \in want
        PROVE  Written(i)'
    <3>1. CASE rRound # 0
      <4>1. Written(i)
        BY <1>1, <3>1 DEF Progress
      <4> QED
        BY <1>2, <1>3, <1>5, <2>4, <4>1, FilesKeptCalmly
    <3>2. CASE ReceiveDone
      <4>1. Working
        BY <3>2 DEF ReceiveDone, Working
      <4>2. ~cut => Placed(i)
        BY <1>1, <4>1 DEF Progress
      <4>3. Written(i)
        BY <3>2, <4>2, AllWritten
      <4> QED
        BY <1>2, <1>3, <1>5, <2>4, <4>3, FilesKeptCalmly
    <3> QED
      BY <2>2, <2>4, <3>1, <3>2
  <2>5. ASSUME Working', ~cut', NEW i \in want
        PROVE  Placed(i)'
    <3>1. Working /\ rRound = 0
      BY <2>1, <2>5
    <3>2. ~cut
      BY <2>5, SilenceKept DEF KeptInv
    <3>3. Placed(i)
      BY <1>1, <3>1, <3>2 DEF Progress
    <3>4. CASE SenderStep
      BY <1>1, <3>1, <3>2, <3>3, <3>4, PlacedSender
    <3>5. CASE ReceiverStep
      BY <1>5, <2>5, <3>1, <3>2, <3>3, <3>5, PlacedReceiver
    <3>6. CASE SenderAborts
      BY <3>3, <3>6 DEF SenderAborts, SenderFails, receiver, Placed, Written
    <3>7. CASE Cut \/ ReceiverAborts \/ ReceiveFileFails
      BY <1>3, <2>5, <3>7 DEF Cut, ReceiverAborts, ReceiverFails, Working
    <3> QED
      BY <1>1, <3>4, <3>5, <3>6, <3>7 DEF Next
  <2> QED
    BY <1>5, <2>3, <2>4, <2>5
<1> QED
  BY <1>4, <1>5, WantSettled

\* The invariant is inductive.
LEMMA DelStep ==
    ASSUME DelInv, [Next]_vars
    PROVE  DelInv'
<1>1. KeptInv'
  BY KeptStep DEF DelInv
<1>2. CASE Next
  <2>1. Truthful' /\ Rounds'
    BY <1>2, TruthStep, RoundsStep DEF DelInv, KeptInv
  <2>2. Progress'
    <3>1. Calmly' =>
            /\ Working' \/ rRound' # 0 =>
                (\A i \in DOMAIN rEntries :
                   Selected(rEntries[i]) /\ rEntries[i].kind = "file" /\ i \notin want
                     => Current(i))'
            /\ Working' /\ ~cut' => \A i \in want' : Placed(i)'
            /\ rRound' # 0 => \A i \in want' : Written(i)'
      BY <1>2, ProgressStep DEF DelInv
    <3> QED
      BY <3>1 DEF Progress
  <2> QED
    BY <1>1, <2>1, <2>2 DEF DelInv
<1>3. CASE UNCHANGED vars
  <2>1. Truthful' /\ Rounds'
    BY <1>3 DEF DelInv, vars, sender, receiver, env, Truthful, TrueMsg, AskMsg, TrueEntry,
       Offered, Selected, Rounds, OneMarker, Exists
  <2>2. Progress'
    BY <1>3 DEF DelInv, vars, sender, receiver, env, Progress, Calmly, Working, SameOrder,
       Selected, Placed, Written, Current
  <2> QED
    BY <1>1, <2>1, <2>2 DEF DelInv
<1> QED
  BY <1>2, <1>3

\* It holds at the start.
LEMMA DelStart == Init => DelInv
<1> SUFFICES ASSUME Init
             PROVE  DelInv
  OBVIOUS
<1>1. KeptInv
  BY KeptStart
<1>2. /\ toSender = <<>> /\ toReceiver = <<>> /\ sOut = <<>> /\ rOut = <<>>
      /\ sEntries = <<>> /\ rEntries = <<>> /\ want = {} /\ plan.ask = {}
      /\ sPc = "marker" /\ rPc = "marker" /\ sMarks = 0 /\ rRound = 0 /\ cut = FALSE
  BY DEF Init
<1>3. Truthful
  BY <1>2, EmptySeq DEF Truthful
<1>4. Rounds
  <2>1. ~Holds(<<>>, Done) /\ LastOnly(<<>>, Done) /\ Len(<<>>) = 0
    BY LastWord, EmptySeq
  <2> QED
    BY <1>2, <2>1 DEF Rounds, OneMarker
<1>5. Progress
  BY <1>2 DEF Progress, Working
<1> QED
  BY <1>1, <1>3, <1>4, <1>5 DEF DelInv

\* When either end reports success in a session that nobody edits under, every
\* file that the receiver selected is there and up to date, and one that it
\* decided to transfer has the content and the time of the list: whatever the
\* network does, no answer is lost or counted twice, for the marker that ends
\* the answers comes behind all of them (ReceiveDone, ServeDone).
THEOREM Delivers == Spec => []Delivered
<1>1. Init => DelInv
  BY DelStart
<1>2. DelInv /\ [Next]_vars => DelInv'
  BY DelStep
<1>3. DelInv => Delivered
  <2> SUFFICES ASSUME DelInv, sPc = "done" \/ rPc = "done", ~job.dryRun, edits = 0, SameOrder,
                      NEW i \in DOMAIN rEntries, Selected(rEntries[i]),
                      rEntries[i].kind = "file"
               PROVE  LET e == rEntries[i]
                          t == fs[e.path]
                      IN  /\ t.kind = "file"
                          /\ job.update # "IgnoreTimes" => Size[t.data] = Size[e.data]
                          /\ job.update = "Checksum" => t.data = e.data
                          /\ i \in want =>
                               t = File(e.data, IF job.preserveTimes THEN e.mtime ELSE Now)
    BY DEF Delivered
  <2>1. rRound # 0 /\ Calmly
    BY DEF DelInv, Rounds, Calmly
  <2>2. i \in want => Written(i)
    BY <2>1 DEF DelInv, Progress
  <2>3. i \notin want => Current(i)
    BY <2>1 DEF DelInv, Progress
  <2>4. Written(i) => Current(i)
    BY DEF Written, Current, File
  <2> QED
    BY <2>2, <2>3, <2>4 DEF Written, Current
<1> QED
  BY <1>1, <1>2, <1>3, PTL DEF Spec

-----------------------------------------------------------------------------
(* Both ends count alike                                                   *)

\* All that is on its way to the sender, and to the receiver.
Up == toSender \o rOut
Down == toReceiver \o sOut

\* The list that the sender made.
ListSent(m) == m.type = "list" /\ DOMAIN sEntries = 1 .. Cardinality(m.entries)

\* Markers and the list, until the receiver has read it.
Opening ==
    /\ sMarks = 0
    /\ job.pull =>
         \/ rPc = "marker" /\ sPc = "marker" /\ Up = <<>> /\ Down = <<>>
         \/ rPc = "list" /\ sPc = "marker" /\ Up = <<Marker>> /\ Down = <<>>
         \/ rPc = "list" /\ sPc = "collect" /\ Up = <<>> /\ Down = <<>>
         \/ rPc = "list" /\ sPc = "serve" /\ Up = <<>>
            /\ Len(Down) = 1 /\ ListSent(Down[1])
    /\ ~job.pull =>
         LET announced == rPc = "marker" /\ job.delete
         IN  /\ Up = <<>>
             /\ \/ sPc = "marker" /\ Down = <<>> /\ (rPc = "list" => ~job.delete)
                \/ sPc = "collect" /\ Down = IF announced THEN <<Marker>> ELSE <<>>
                \/ /\ sPc = "serve"
                   /\ IF announced
                        THEN Len(Down) = 2 /\ Down[1] = Marker /\ ListSent(Down[2])
                        ELSE Len(Down) = 1 /\ ListSent(Down[1])

\* The messages of a sequence, and the positions that they name.
Messages(s) == {s[k] : k \in DOMAIN s}
Indexed(m) == m.type \in {"request", "file"}
Indexes(s) == {m.index : m \in {x \in Messages(s) : Indexed(x)}}

\* The positions grow along a sequence, and from one set to the next.
Rising(s) ==
    \A j, k \in DOMAIN s : j < k /\ Indexed(s[j]) /\ Indexed(s[k]) => s[j].index < s[k].index
Below(M, N) == \A m \in M, n \in N : m < n

\* A basis that travels is the file that the receiver has.
BasisKept(m) ==
    /\ m.basis.kind = "file" => fs[rEntries[m.index].path] = m.basis
    /\ m.type = "file" /\ m.copies => m.basis.kind = "file"

\* Requests and answers: positions are asked for in their order, so that those
\* yet to be asked for come behind those under way, and these behind those
\* that are answered.
Serving ==
    /\ sPc = "serve"
    /\ DOMAIN sEntries = DOMAIN rEntries
    /\ rPc = "prepare" => Up = <<>> /\ Down = <<>>
    /\ \A m \in Messages(Up) : m = Done \/ m.type = "request"
    /\ \A m \in Messages(Down) : m = Done \/ m.type = "file"
    /\ Indexes(Up) \cup Indexes(Down) \subseteq want
    /\ Rising(Up) /\ Rising(Down)
    /\ Below(Indexes(Down), Indexes(Up)) /\ Below(Indexes(Up) \cup Indexes(Down), plan.ask)
    /\ edits = 0 => \A m \in Messages(Up) \cup Messages(Down) : Indexed(m) => BasisKept(m)

\* Markers, statistics and goodbyes, after the last answer.
Closing ==
    \/ /\ rPc = "ack" /\ rRound \in 2 .. Phases
       /\ \/ sPc = "serve" /\ sMarks = rRound - 1 /\ Up = <<Done>> /\ Down = <<>>
          \/ /\ sMarks = rRound /\ Up = <<>>
             /\ IF rRound < Phases
                  THEN sPc = "serve" /\ Down = <<Done>>
                  ELSE sPc = "goodbye" /\ Down = IF HasStats THEN <<Done, Stats>> ELSE <<Done>>
    \/ rPc = "stats" /\ HasStats /\ sPc = "goodbye" /\ Up = <<>> /\ Down = <<Stats>>
    \/ /\ rPc = "bye" /\ job.protocol = 31
       /\ \/ sPc = "goodbye" /\ Up = <<Done>> /\ Down = <<>>
          \/ sPc = "adieu" /\ Up = <<>> /\ Down = <<Done>>
    \/ /\ rPc \in {"last", "done"} /\ Down = <<>> /\ (rPc = "done" => rOut = <<>>)
       /\ \/ Up = <<Done>> /\ sPc = IF job.protocol = 31 THEN "adieu" ELSE "goodbye"
          \/ Up = <<>> /\ sPc = "done"

\* Both ends run or are through, and are connected.
Healthy == ~cut /\ sPc # "failed" /\ rPc # "failed"

\* While they do, what is on its way is what the two have yet to say.
Talking ==
    Healthy => /\ rPc \in {"marker", "list"} => Opening
               /\ Working => Serving
               /\ rRound # 0 => Closing

\* Nobody disturbs the session, and the list is acceptable.
Peace ==
    /\ faults = 0 /\ edits = 0 /\ SameOrder
    /\ \A p \in Walked : src[p].kind \in {"dir", "file"}
    /\ \A p \in Offered : Acceptable({EntryOf(src, p)})

\* The list fits the receiver's tree.
Fits ==
    \A p \in Offered :
        /\ src[p].kind = "dir" => fs[p].kind \in {"absent", "dir"}
        /\ src[p].kind = "file" => fs[p].kind \in {"absent", "file"}

\* What the ends know, and that a peaceful session fails only at the receiver,
\* over a list that does not fit.
NoAlarm ==
    /\ cut => faults # 0
    /\ sPc = "done" => sOut = <<>>
    /\ rPc = "done" => rOut = <<>>
    /\ \A i \in plan.dirs : rEntries[i].kind = "dir"
    /\ \A p \in Above(Top) : fs[p].kind \in {"absent", "dir"}
    /\ \A i, k \in DOMAIN rEntries : rEntries[i].path = rEntries[k].path => i = k
    /\ Peace => /\ sPc = "failed" => rPc = "failed"
                /\ rPc = "failed" => ~Fits

\* The inductive invariant.
AgreeInv == DelInv /\ Talking /\ NoAlarm

\* Two sequences, one behind the other.
LEMMA Joined ==
    ASSUME NEW S, NEW a \in Seq(S), NEW b \in Seq(S)
    PROVE  /\ a \o b \in Seq(S) /\ a \o <<>> = a /\ <<>> \o b = b
           /\ a \o b = <<>> <=> a = <<>> /\ b = <<>>
           /\ a # <<>> => Head(a \o b) = Head(a) /\ Tail(a \o b) = Tail(a) \o b
           /\ b # <<>> => Append(a, Head(b)) \o Tail(b) = a \o b
           /\ \A x \in S : a \o <<x>> = Append(a, x)
<1>1. a \o b \in Seq(S) /\ a \o <<>> = a /\ <<>> \o b = b
  OBVIOUS
<1>2. a \o b = <<>> <=> a = <<>> /\ b = <<>>
  OBVIOUS
<1>3. ASSUME a # <<>>
      PROVE  Head(a \o b) = Head(a) /\ Tail(a \o b) = Tail(a) \o b
  <2>1. Head(a \o b) = Head(a)
    BY <1>3
  <2>2. Tail(a \o b) = Tail(a) \o b
    BY <1>3
  <2> QED
    BY <2>1, <2>2
<1>4. ASSUME b # <<>>
      PROVE  Append(a, Head(b)) \o Tail(b) = a \o b
  BY <1>4
<1>5. \A x \in S : a \o <<x>> = Append(a, x)
  OBVIOUS
<1> QED
  BY <1>1, <1>2, <1>3, <1>4, <1>5

\* Sequences of one or two messages.
LEMMA Short ==
    ASSUME NEW S, NEW x \in S, NEW y \in S
    PROVE  /\ <<x>> # <<>> /\ Head(<<x>>) = x /\ Tail(<<x>>) = <<>>
           /\ Len(<<x>>) = 1 /\ <<x>>[1] = x /\ <<>> \o <<x>> = <<x>>
           /\ <<x>> \o <<y>> = <<x, y>> /\ Len(<<x, y>>) = 2
           /\ <<x, y>>[1] = x /\ <<x, y>>[2] = y
           /\ <<x, y>> # <<>> /\ Head(<<x, y>>) = x /\ Tail(<<x, y>>) = <<y>>
<1>1. <<x>> \in Seq(S) /\ <<y>> \in Seq(S) /\ <<x, y>> \in Seq(S)
  OBVIOUS
<1>2. <<x>> # <<>> /\ Head(<<x>>) = x /\ Tail(<<x>>) = <<>>
  OBVIOUS
<1>3. Len(<<x>>) = 1 /\ <<x>>[1] = x /\ <<>> \o <<x>> = <<x>>
  OBVIOUS
<1>4. Len(<<x, y>>) = 2 /\ <<x, y>>[1] = x /\ <<x, y>>[2] = y
  OBVIOUS
<1>5. <<x, y>> # <<>> /\ Head(<<x, y>>) = x
  OBVIOUS
<1>6. Tail(<<x, y>>) = <<y>>
  OBVIOUS
<1>7. <<x>> \o <<y>> = <<x, y>>
  <2>1. <<x>> \o <<y>> = Append(<<x>>, y)
    BY <1>1, Joined
  <2>2. PICK s \in Seq(S) : s = <<x>> /\ Len(s) = 1 /\ s[1] = x
    BY <1>1, <1>3
  <2>3. PICK t \in Seq(S) : t = <<x, y>> /\ Len(t) = 2 /\ t[1] = x /\ t[2] = y
    BY <1>1, <1>4
  <2>4. PICK u \in Seq(S) : u = Append(s, y) /\ Len(u) = 2 /\ u[1] = x /\ u[2] = y
    <3>1. Append(s, y) \in Seq(S)
      OBVIOUS
    <3>2. Len(Append(s, y)) = 2
      BY <2>2
    <3>3. Append(s, y)[1] = s[1]
      BY <2>2
    <3>4. Append(s, y)[2] = y
      BY <2>2
    <3> QED
      BY <2>2, <3>1, <3>2, <3>3, <3>4
  <2>5. u = t
    <3>1. \A k \in 1 .. 2 : u[k] = t[k]
      <4>1. \A k \in 1 .. 2 : k = 1 \/ k = 2
        OBVIOUS
      <4> QED
        BY <2>3, <2>4, <4>1
    <3>2. \A w \in Seq(S) : DOMAIN w = 1 .. Len(w) /\ w = [k \in DOMAIN w |-> w[k]]
      OBVIOUS
    <3>3. DOMAIN u = 1 .. 2 /\ DOMAIN t = 1 .. 2
      BY <2>3, <2>4, <3>2
    <3>4. u = [k \in 1 .. 2 |-> u[k]] /\ t = [k \in 1 .. 2 |-> t[k]]
      BY <3>2, <3>3
    <3> QED
      BY <3>1, <3>4
  <2> QED
    BY <2>1, <2>2, <2>3, <2>4, <2>5
<1> QED
  BY <1>2, <1>3, <1>4, <1>5, <1>6, <1>7

\* What a step does to what is on its way.
LEMMA UpAndDown ==
    ASSUME TypeOK
    PROVE  /\ Up \in Seq(ToSenderMsg) /\ Down \in Seq(ToReceiverMsg)
           /\ Up = <<>> => toSender = <<>> /\ rOut = <<>>
           /\ Down = <<>> => toReceiver = <<>> /\ sOut = <<>>
           /\ SenderWrites => Down' = Down /\ Up' = Up
           /\ ReceiverWrites => Up' = Up /\ Down' = Down
           /\ rOut = <<>> => Up = toSender
           /\ sOut = <<>> => Down = toReceiver
<1>1. /\ toSender \in Seq(ToSenderMsg) /\ rOut \in Seq(ToSenderMsg)
      /\ toReceiver \in Seq(ToReceiverMsg) /\ sOut \in Seq(ToReceiverMsg)
  BY StreamFacts
<1>2. /\ Up \in Seq(ToSenderMsg) /\ Down \in Seq(ToReceiverMsg)
      /\ Up = <<>> => toSender = <<>> /\ rOut = <<>>
      /\ Down = <<>> => toReceiver = <<>> /\ sOut = <<>>
  BY <1>1, Joined DEF Up, Down
<1>3. SenderWrites => Down' = Down /\ Up' = Up
  BY <1>1, Joined DEF SenderWrites, Up, Down, receiver
<1>4. ReceiverWrites => Up' = Up /\ Down' = Down
  BY <1>1, Joined DEF ReceiverWrites, Up, Down, sender
<1>5. rOut = <<>> => Up = toSender
  BY <1>1, Joined DEF Up
<1>6. sOut = <<>> => Down = toReceiver
  BY <1>1, Joined DEF Down
<1> QED
  BY <1>2, <1>3, <1>4, <1>5, <1>6

\* The sender takes what comes first, and says nothing else before.
LEMMA UpTaken ==
    ASSUME TypeOK, SenderTakes, rOut' = rOut, toReceiver' = toReceiver
    PROVE  /\ Up # <<>> /\ Head(Up) = Head(toSender) /\ Up' = Tail(Up)
           /\ Down = toReceiver /\ sOut = <<>> /\ Down' = Down \o sOut'
<1>1. /\ toSender \in Seq(ToSenderMsg) /\ rOut \in Seq(ToSenderMsg)
      /\ toReceiver \in Seq(ToReceiverMsg) /\ sOut \in Seq(ToReceiverMsg)
  BY StreamFacts
<1>2. toSender # <<>> /\ toSender' = Tail(toSender) /\ sOut = <<>>
  BY DEF SenderTakes, SenderReading
<1>3. Up # <<>> /\ Head(Up) = Head(toSender) /\ Up' = Tail(Up)
  BY <1>1, <1>2, Joined DEF Up
<1>4. Down = toReceiver /\ Down' = Down \o sOut'
  BY <1>1, <1>2, Joined DEF Down
<1> QED
  BY <1>2, <1>3, <1>4

\* So does the receiver.
LEMMA DownTaken ==
    ASSUME TypeOK, ReceiverTakes, sOut' = sOut, toSender' = toSender
    PROVE  /\ Down # <<>> /\ Head(Down) = Head(toReceiver) /\ Down' = Tail(Down)
           /\ Up = toSender /\ rOut = <<>> /\ Up' = Up \o rOut'
<1>1. /\ toSender \in Seq(ToSenderMsg) /\ rOut \in Seq(ToSenderMsg)
      /\ toReceiver \in Seq(ToReceiverMsg) /\ sOut \in Seq(ToReceiverMsg)
  BY StreamFacts
<1>2. toReceiver # <<>> /\ toReceiver' = Tail(toReceiver) /\ rOut = <<>>
  BY DEF ReceiverTakes, ReceiverReading
<1>3. Down # <<>> /\ Head(Down) = Head(toReceiver) /\ Down' = Tail(Down)
  BY <1>1, <1>2, Joined DEF Down
<1>4. Up = toSender /\ Up' = Up \o rOut'
  BY <1>1, <1>2, Joined DEF Up
<1> QED
  BY <1>2, <1>3, <1>4

\* The sender's steps until it has sent the list.
LEMMA OpeningSender ==
    ASSUME KeptInv, Opening, rPc \in {"marker", "list"}, SenderStep, sPc' # "failed"
    PROVE  Opening'
<1>1. rPc' = rPc /\ job' = job /\ rOut' = rOut /\ (toReceiver' = toReceiver \/ SenderWrites)
  BY SenderFrame
<1>2. TypeOK /\ ~SenderFails
  BY DEF KeptInv, SenderFails
<1>3. Tail(<<Marker>>) = <<>> /\ <<Marker>> # <<>>
  OBVIOUS
<1>4. CASE SenderSendsMarker
  <2>1. /\ ~job.pull /\ sPc = "marker" /\ sPc' = "collect" /\ sMarks' = sMarks
        /\ sOut' = IF job.delete THEN <<Marker>> ELSE <<>>
        /\ toSender' = toSender /\ toReceiver' = toReceiver
    BY <1>4 DEF SenderSendsMarker, SenderStays
  <2>2. Up = <<>> /\ Down = <<>> /\ (rPc = "list" => ~job.delete)
    BY <2>1 DEF Opening
  <2>3. Up' = <<>>
    BY <1>1, <2>1, <2>2 DEF Up
  <2>4. toReceiver = <<>>
    BY <1>2, <2>2, UpAndDown
  <2>5. Down' = IF job.delete THEN <<Marker>> ELSE <<>>
    <3>1. <<>> \o <<Marker>> = <<Marker>> /\ <<>> \o <<>> = <<>>
      OBVIOUS
    <3> QED
      BY <2>1, <2>4, <3>1 DEF Down
  <2> QED
    BY <1>1, <2>1, <2>2, <2>3, <2>5 DEF Opening
<1>5. CASE SenderReadsMarker
  <2>1. /\ sPc = "marker" /\ job.pull /\ SenderTakes
        /\ sPc' = "collect" /\ sOut' = sOut /\ sMarks' = sMarks /\ toReceiver' = toReceiver
    BY <1>2, <1>5 DEF SenderReadsMarker, SenderTakes, SenderReading, SenderStays
  <2>2. Up # <<>> /\ Up' = Tail(Up) /\ Down' = Down
    BY <1>1, <1>2, <2>1, UpTaken DEF Down
  <2>3. rPc = "list" /\ Up = <<Marker>> /\ Down = <<>>
    BY <2>1, <2>2 DEF Opening
  <2> QED
    BY <1>1, <1>3, <2>1, <2>2, <2>3 DEF Opening
<1>6. CASE Collect
  <2>1. PICK S \in SUBSET Entry :
          /\ IsFiniteSet(S)
          /\ sOut' = <<[type |-> "list", entries |-> S]>>
          /\ sEntries' \in SenderOrders(S)
          /\ sPc' = "serve" /\ sMarks' = sMarks
    BY <1>2, <1>6, ListTrue
  <2>2. PICK m : m = [type |-> "list", entries |-> S]
    OBVIOUS
  <2>3. ListSent(m)'
    <3>1. DOMAIN sEntries' = 1 .. Cardinality(S)
      BY <2>1 DEF SenderOrders, InCollectedOrder, InIndexOrder, Sorted
    <3> QED
      BY <2>2, <3>1 DEF ListSent
  <2>4. sPc = "collect" /\ sOut = <<>> /\ toSender' = toSender /\ toReceiver' = toReceiver
    BY <1>6 DEF Collect, SenderStays
  <2>5. Up' = Up /\ Down' = Down \o <<m>>
    BY <1>1, <1>2, <2>1, <2>2, <2>4, UpAndDown DEF Up, Down
  <2>6. /\ <<>> \o <<m>> = <<m>> /\ Len(<<m>>) = 1 /\ <<m>>[1] = m
        /\ <<Marker>> \o <<m>> = <<Marker, m>> /\ Len(<<Marker, m>>) = 2
        /\ <<Marker, m>>[1] = Marker /\ <<Marker, m>>[2] = m
    <3>1. m \in {Marker, m} /\ Marker \in {Marker, m}
      OBVIOUS
    <3> QED
      BY <3>1, Short
  <2>7. CASE job.pull
    <3>1. rPc = "list" /\ Up = <<>> /\ Down = <<>>
      BY <2>4, <2>7 DEF Opening
    <3>2. Down' = <<m>>
      BY <2>5, <2>6, <3>1
    <3>3. Len(Down') = 1 /\ Down'[1] = m
      BY <2>6, <3>2
    <3>4. (ListSent(Down[1]))'
      BY <2>3, <3>3 DEF ListSent
    <3> QED
      BY <1>1, <2>1, <2>5, <2>7, <3>1, <3>3, <3>4 DEF Opening
  <2>8. CASE ~job.pull
    <3>1. Up = <<>> /\ Down = IF rPc = "marker" /\ job.delete THEN <<Marker>> ELSE <<>>
      BY <2>4, <2>8 DEF Opening
    <3>2. CASE rPc = "marker" /\ job.delete
      <4>1. Down' = <<Marker, m>>
        BY <2>5, <2>6, <3>1, <3>2
      <4>2. Len(Down') = 2 /\ Down'[1] = Marker /\ Down'[2] = m
        BY <2>6, <4>1
      <4>3. (ListSent(Down[2]))'
        BY <2>3, <4>2 DEF ListSent
      <4> QED
        BY <1>1, <2>1, <2>5, <2>8, <3>1, <3>2, <4>2, <4>3 DEF Opening
    <3>3. CASE ~(rPc = "marker" /\ job.delete)
      <4>1. Down' = <<m>>
        BY <2>5, <2>6, <3>1, <3>3
      <4>2. Len(Down') = 1 /\ Down'[1] = m
        BY <2>6, <4>1
      <4>3. (ListSent(Down[1]))'
        BY <2>3, <4>2 DEF ListSent
      <4> QED
        BY <1>1, <2>1, <2>5, <2>8, <3>1, <3>3, <4>2, <4>3 DEF Opening
    <3> QED
      BY <3>2, <3>3
  <2> QED
    BY <2>7, <2>8
<1>7. CASE ServeDone \/ ServeRequest
  <2>1. SenderTakes /\ sPc = "serve" /\ toReceiver' = toReceiver
    BY <1>7 DEF ServeDone, ServeRequest, SenderStays
  <2>2. Up # <<>>
    BY <1>1, <1>2, <2>1, UpTaken
  <2> QED
    BY <2>1, <2>2 DEF Opening
<1>8. CASE SenderWrites
  <2>1. UNCHANGED <<Up, Down, sPc, sMarks, sEntries>>
    BY <1>2, <1>8, UpAndDown DEF SenderWrites
  <2> QED
    BY <1>1, <2>1 DEF Opening, ListSent
<1>9. CASE ReadGoodbye
  BY <1>9 DEF ReadGoodbye, Opening
<1>10. CASE SenderDisconnected
  BY <1>2, <1>10 DEF SenderDisconnected
<1> QED
  BY <1>4, <1>5, <1>6, <1>7, <1>8, <1>9, <1>10 DEF SenderStep

\* The receiver's steps until it has read the list.
LEMMA OpeningReceiver ==
    ASSUME KeptInv, Opening, rPc \in {"marker", "list"}, ReceiverStep, rPc' # "failed",
           rPc' \in {"marker", "list"}
    PROVE  Opening'
<1>1. /\ sPc' = sPc /\ job' = job /\ sOut' = sOut /\ sEntries' = sEntries /\ sMarks' = sMarks
      /\ toSender' = toSender \/ ReceiverWrites
  BY ReceiverFrame
<1>2. TypeOK /\ ~ReceiverFails
  BY DEF KeptInv, ReceiverFails
<1>3. Up \in Seq(ToSenderMsg) /\ Down \in Seq(ToReceiverMsg)
  BY <1>2, UpAndDown
<1>4. Marker \in ToSenderMsg /\ Marker \in ToReceiverMsg
  BY ShortMessages
<1>5. CASE ReceiverSendsMarker
  <2>1. /\ job.pull /\ rPc = "marker" /\ rPc' = "list" /\ rOut' = <<Marker>>
        /\ toSender' = toSender /\ toReceiver' = toReceiver
    BY <1>5 DEF ReceiverSendsMarker, ReceiverStays
  <2>2. Up = <<>> /\ Down = <<>> /\ sPc = "marker"
    BY <2>1 DEF Opening
  <2>3. Down' = <<>>
    BY <1>1, <2>1, <2>2 DEF Down
  <2>4. toSender = <<>>
    BY <1>2, <2>2, UpAndDown
  <2>5. Up' = <<Marker>>
    BY <1>4, <2>1, <2>4, Short DEF Up
  <2> QED
    BY <1>1, <2>1, <2>2, <2>3, <2>5 DEF Opening
<1>6. CASE ReceiverExpectsList
  <2>1. ~job.pull /\ ~job.delete /\ UNCHANGED <<rOut, toSender, toReceiver>>
    BY <1>6 DEF ReceiverExpectsList, ReceiverStays
  <2>2. Up' = Up /\ Down' = Down
    BY <1>1, <2>1 DEF Up, Down
  <2> QED
    BY <1>1, <2>1, <2>2 DEF Opening, ListSent
<1>7. CASE ReceiverReadsMarker
  <2>1. /\ rPc = "marker" /\ job.delete /\ ~job.pull /\ ReceiverTakes
        /\ rPc' = "list" /\ rOut' = rOut /\ toSender' = toSender
    BY <1>2, <1>7 DEF ReceiverReadsMarker, ReceiverTakes, ReceiverReading, ReceiverStays
  <2>2. Down # <<>> /\ Down' = Tail(Down) /\ Up' = Up
    BY <1>1, <1>2, <2>1, DownTaken DEF Up
  <2>3. Up = <<>>
    BY <2>1 DEF Opening
  <2>4. CASE sPc = "collect"
    <3>1. Down = <<Marker>>
      BY <2>1, <2>4 DEF Opening
    <3>2. Down' = <<>>
      BY <1>4, <2>2, <3>1, Short
    <3> QED
      BY <1>1, <2>1, <2>2, <2>3, <2>4, <3>2 DEF Opening
  <2>5. CASE sPc = "serve"
    <3>1. Len(Down) = 2 /\ ListSent(Down[2])
      BY <2>1, <2>5 DEF Opening
    <3>2. Len(Tail(Down)) = 1 /\ Tail(Down)[1] = Down[2]
      <4>1. \A s \in Seq(ToReceiverMsg) : Len(s) = 2 => Len(Tail(s)) = 1 /\ Tail(s)[1] = s[2]
        OBVIOUS
      <4> QED
        BY <1>3, <3>1, <4>1
    <3>3. Len(Down') = 1 /\ Down'[1] = Down[2]
      BY <2>2, <3>2
    <3>4. (ListSent(Down[1]))'
      BY <1>1, <3>1, <3>3 DEF ListSent
    <3> QED
      BY <1>1, <2>1, <2>2, <2>3, <2>5, <3>3, <3>4 DEF Opening
  <2> QED
    BY <2>1, <2>2, <2>4, <2>5 DEF Opening
<1>8. CASE ReadList
  BY <1>2, <1>8 DEF ReadList
<1>9. CASE ReceiverWrites
  <2>1. UNCHANGED <<Up, Down, rPc, sPc, sMarks, sEntries>>
    BY <1>1, <1>2, <1>9, UpAndDown DEF ReceiverWrites
  <2> QED
    BY <1>1, <2>1 DEF Opening, ListSent
<1>10. CASE \/ DeleteExtra \/ MakeListedDir \/ Prepared \/ RequestFile \/ RequestsDone
            \/ ReceiveFile \/ ReceiveDone \/ ReadAck \/ ReadStats \/ ReadGoodbyeAck
            \/ ReceiverEnds
  BY <1>10 DEF DeleteExtra, MakeListedDir, Prepared, RequestFile, RequestsDone, ReceiveFile,
       ReceiveDone, ReadAck, ReadStats, ReadGoodbyeAck, ReceiverEnds
<1>11. CASE ReceiverDisconnected
  BY <1>2, <1>11 DEF ReceiverDisconnected
<1> QED
  BY <1>5, <1>6, <1>7, <1>8, <1>9, <1>10, <1>11 DEF ReceiverStep

\* Nothing is in an empty sequence.
LEMMA NoMessages == Messages(<<>>) = {} /\ Indexes(<<>>) = {} /\ Rising(<<>>)
BY DEF Messages, Indexes, Rising

\* What is in a sequence when its first message is gone.
LEMMA HeadGone ==
    ASSUME NEW S, NEW s \in Seq(S), s # <<>>
    PROVE  /\ Messages(s) = Messages(Tail(s)) \cup {Head(s)}
           /\ Indexes(Tail(s)) \subseteq Indexes(s)
           /\ Indexed(Head(s)) => Head(s).index \in Indexes(s)
           /\ Rising(s) => /\ Rising(Tail(s))
                           /\ Indexed(Head(s)) => Below({Head(s).index}, Indexes(Tail(s)))
<1>1. PICK t \in Seq(S) : t = Tail(s)
  BY SeqParts
<1>2. Len(t) = Len(s) - 1 /\ \A k \in DOMAIN t : t[k] = s[k + 1] /\ k + 1 \in DOMAIN s /\ k \in Nat
  BY <1>1
<1>3. Head(s) = s[1] /\ 1 \in DOMAIN s /\ \A k \in DOMAIN s : k = 1 \/ k - 1 \in DOMAIN t
  BY <1>2
<1>4. \A k \in DOMAIN s : k # 1 => t[k - 1] = s[k]
  BY <1>2, <1>3
<1>5. Messages(s) = Messages(t) \cup {Head(s)}
  <2>1. \A m \in Messages(s) : m \in Messages(t) \cup {Head(s)}
    BY <1>3, <1>4 DEF Messages
  <2>2. \A m \in Messages(t) \cup {Head(s)} : m \in Messages(s)
    BY <1>2, <1>3 DEF Messages
  <2> QED
    BY <2>1, <2>2
<1>6. Indexes(t) \subseteq Indexes(s) /\ (Indexed(Head(s)) => Head(s).index \in Indexes(s))
  BY <1>5 DEF Indexes
<1>7. ASSUME Rising(s)
      PROVE  Rising(t) /\ (Indexed(Head(s)) => Below({Head(s).index}, Indexes(t)))
  <2>1. ASSUME NEW j \in DOMAIN t, NEW k \in DOMAIN t, j < k, Indexed(t[j]), Indexed(t[k])
        PROVE  t[j].index < t[k].index
    <3>1. j + 1 < k + 1
      BY <1>2, <2>1
    <3>2. j + 1 \in DOMAIN s /\ k + 1 \in DOMAIN s /\ t[j] = s[j + 1] /\ t[k] = s[k + 1]
      BY <1>2
    <3> QED
      BY <1>7, <2>1, <3>1, <3>2 DEF Rising
  <2>2. ASSUME Indexed(Head(s)), NEW n \in Indexes(t)
        PROVE  Head(s).index < n
    <3>1. PICK k \in DOMAIN t : Indexed(t[k]) /\ n = t[k].index
      BY <2>2 DEF Indexes, Messages
    <3>2. 1 < k + 1 /\ k + 1 \in DOMAIN s /\ t[k] = s[k + 1]
      BY <1>2
    <3> QED
      BY <1>3, <1>7, <2>2, <3>1, <3>2 DEF Rising
  <2> QED
    BY <2>1, <2>2 DEF Rising, Below
<1> QED
  BY <1>1, <1>5, <1>6, <1>7

\* What is in a sequence when one more message comes.
LEMMA OneMore ==
    ASSUME NEW S, NEW s \in Seq(S), NEW x \in S
    PROVE  /\ Append(s, x) \in Seq(S) /\ Len(Append(s, x)) = Len(s) + 1
           /\ Len(s) + 1 \in DOMAIN Append(s, x) /\ Append(s, x)[Len(s) + 1] = x
           /\ \A k \in DOMAIN s : Append(s, x)[k] = s[k] /\ k \in DOMAIN Append(s, x)
           /\ \A k \in DOMAIN Append(s, x) : k = Len(s) + 1 \/ k \in DOMAIN s
           /\ Messages(Append(s, x)) = Messages(s) \cup {x}
<1>1. PICK t \in Seq(S) : t = Append(s, x)
  <2>1. Append(s, x) \in Seq(S)
    OBVIOUS
  <2> QED
    BY <2>1
<1>2. /\ Len(t) = Len(s) + 1 /\ Len(t) \in DOMAIN t /\ t[Len(t)] = x
      /\ \A k \in DOMAIN s : t[k] = s[k] /\ k \in DOMAIN t
      /\ \A k \in DOMAIN t : k = Len(t) \/ k \in DOMAIN s
  BY <1>1
<1>3. Messages(t) = Messages(s) \cup {x}
  <2>1. \A m \in Messages(t) : m \in Messages(s) \cup {x}
    BY <1>2 DEF Messages
  <2>2. \A m \in Messages(s) \cup {x} : m \in Messages(t)
    BY <1>2 DEF Messages
  <2> QED
    BY <2>1, <2>2
<1> QED
  BY <1>1, <1>2, <1>3

\* A message without a position changes no positions.
LEMMA MarkerMore ==
    ASSUME NEW S, NEW s \in Seq(S), NEW x \in S, ~Indexed(x), Rising(s)
    PROVE  /\ Messages(Append(s, x)) = Messages(s) \cup {x}
           /\ Indexes(Append(s, x)) = Indexes(s)
           /\ Rising(Append(s, x))
<1>1. PICK t : t = Append(s, x)
  OBVIOUS
<1>2. /\ Messages(t) = Messages(s) \cup {x}
      /\ t[Len(s) + 1] = x
      /\ \A k \in DOMAIN s : t[k] = s[k]
      /\ \A k \in DOMAIN t : k = Len(s) + 1 \/ k \in DOMAIN s
  BY <1>1, OneMore
<1>3. Indexes(t) = Indexes(s)
  <2>1. ASSUME NEW m \in Messages(t), Indexed(m)
        PROVE  m \in Messages(s)
    BY <1>2, <2>1
  <2>2. Messages(s) \subseteq Messages(t)
    BY <1>2
  <2> QED
    BY <2>1, <2>2 DEF Indexes
<1>4. Rising(t)
  BY <1>2 DEF Rising
<1> QED
  BY <1>1, <1>2, <1>3, <1>4

\* A message with a position beyond the others adds it.
LEMMA IndexMore ==
    ASSUME NEW S, NEW s \in Seq(S), NEW x \in S, Indexed(x), Rising(s), NEW i, i = x.index,
           Below(Indexes(s), {i})
    PROVE  /\ Messages(Append(s, x)) = Messages(s) \cup {x}
           /\ Indexes(Append(s, x)) = Indexes(s) \cup {i}
           /\ Rising(Append(s, x))
<1>1. PICK t \in Seq(S) : t = Append(s, x)
  BY OneMore
<1>2. /\ Messages(t) = Messages(s) \cup {x}
      /\ Len(t) = Len(s) + 1 /\ t[Len(t)] = x
      /\ \A k \in DOMAIN s : t[k] = s[k]
      /\ \A k \in DOMAIN t : k = Len(t) \/ k \in DOMAIN s
  BY <1>1, OneMore
<1>3. Indexes(t) = Indexes(s) \cup {i}
  BY <1>2 DEF Indexes
<1>4. ASSUME NEW j \in DOMAIN t, NEW k \in DOMAIN t, j < k, Indexed(t[j]), Indexed(t[k])
      PROVE  t[j].index < t[k].index
  <2>1. j \in DOMAIN s
    <3>1. j \in 1 .. Len(t) /\ k \in 1 .. Len(t) /\ Len(t) \in Nat
      OBVIOUS
    <3> QED
      BY <1>2, <1>4, <3>1
  <2>2. t[j] = s[j] /\ s[j].index \in Indexes(s)
    BY <1>2, <1>4, <2>1 DEF Indexes, Messages
  <2>3. CASE k \in DOMAIN s
    BY <1>2, <1>4, <2>1, <2>3 DEF Rising
  <2>4. CASE k = Len(t)
    BY <1>2, <1>4, <2>2, <2>4 DEF Below
  <2> QED
    BY <1>2, <2>3, <2>4
<1> QED
  BY <1>1, <1>2, <1>3, <1>4 DEF Rising

\* A list in order has every path once.
LEMMA PathsOnce ==
    ASSUME NEW S, IsFiniteSet(S), S \subseteq Entry, NEW s \in ReceiverOrders(S),
           NEW i \in DOMAIN s, NEW k \in DOMAIN s, s[i].path = s[k].path
    PROVE  i = k
<1>1. /\ s \in [1 .. Cardinality(S) -> S] /\ Cardinality(S) \in Nat
      /\ \A a, b \in 1 .. Cardinality(S) : a < b =>
           PlainBefore(s[a], s[b], Directories(S)) \/ SenderBefore(s[a], s[b], Directories(S))
  BY FS_CardinalityType DEF ReceiverOrders, InCollectedOrder, InIndexOrder, Sorted
<1>2. ASSUME NEW l \in Entry, NEW r \in Entry,
             PlainBefore(l, r, Directories(S)) \/ SenderBefore(l, r, Directories(S))
      PROVE  l.path # r.path
  <2>1. l.path \in Path /\ r.path \in Path
    BY DEF Entry
  <2>2. Rank[l.path] \in Nat /\ l.path \notin Under[l.path]
    BY <2>1, TreeAssumption, AboveFacts
  <2> QED
    BY <1>2, <2>2 DEF PlainBefore, SenderBefore
<1>3. \A a, b \in 1 .. Cardinality(S) : a < b => s[a].path # s[b].path
  BY <1>1, <1>2
<1>4. i \in 1 .. Cardinality(S) /\ k \in 1 .. Cardinality(S)
  BY <1>1
<1>5. i \in Nat /\ k \in Nat /\ (i < k \/ k < i \/ i = k)
  BY <1>1, <1>4
<1> QED
  BY <1>3, <1>4, <1>5

\* Where the list is when the receiver can read it.
LEMMA ListAwaits ==
    ASSUME TypeOK, Opening, rPc = "list", Down # <<>>
    PROVE  sPc = "serve" /\ Up = <<>> /\ Len(Down) = 1 /\ ListSent(Down[1]) /\ Down[1] = Head(Down)
<1>1. sPc = "serve" /\ Up = <<>> /\ Len(Down) = 1 /\ ListSent(Down[1])
  BY DEF Opening
<1>2. Down \in Seq(ToReceiverMsg)
  BY UpAndDown
<1> QED
  BY <1>1, <1>2, SeqParts

\* What the receiver makes of the list.
LEMMA ListSettled ==
    ASSUME TypeOK, ReadList, ~ReceiverFails
    PROVE  /\ \A i, k \in DOMAIN rEntries' : rEntries'[i].path = rEntries'[k].path => i = k
           /\ \A i \in plan'.dirs : rEntries'[i].kind = "dir"
           /\ DOMAIN rEntries' = 1 .. Cardinality(Head(toReceiver).entries)
<1>1. PICK m : m = Head(toReceiver) /\ m \in ListMsg
  BY TakeTypes, TypeParts, MessageKinds DEF ReadList
<1>2. IsFiniteSet(m.entries) /\ m.entries \subseteq Entry
  BY <1>1 DEF ListMsg
<1>3. /\ rEntries' \in ReceiverOrders(m.entries)
      /\ plan'.dirs \subseteq {i \in DOMAIN rEntries' : rEntries'[i].kind = "dir"}
  BY <1>1 DEF ReadList
<1>4. DOMAIN rEntries' = 1 .. Cardinality(m.entries)
  BY <1>3 DEF ReceiverOrders, InCollectedOrder, InIndexOrder, Sorted
<1>5. \A i, k \in DOMAIN rEntries' : rEntries'[i].path = rEntries'[k].path => i = k
  BY <1>2, <1>3, PathsOnce
<1> QED
  BY <1>1, <1>3, <1>4, <1>5

\* When it has read it, both have lists of the same length, and nothing is on
\* its way.
LEMMA ServingStarts ==
    ASSUME KeptInv, Truthful, Opening, ReadList, ~ReceiverFails
    PROVE  Serving'
<1>1. /\ sPc' = sPc /\ sOut' = sOut /\ sEntries' = sEntries
      /\ toSender' = toSender \/ ReceiverWrites
  BY ReceiverFrame DEF ReceiverStep
<1>2. TypeOK /\ rPc = "list" /\ ReceiverTakes /\ rOut' = rOut /\ toSender' = toSender
  BY ListTaken DEF KeptInv, ReadList, ReceiverStays
<1>3. Down # <<>> /\ Head(Down) = Head(toReceiver) /\ Down' = Tail(Down) /\ Up' = Up
  BY <1>1, <1>2, DownTaken DEF Up
<1>4. sPc = "serve" /\ Up = <<>> /\ Len(Down) = 1 /\ ListSent(Head(Down))
  BY <1>2, <1>3, ListAwaits
<1>5. Down \in Seq(ToReceiverMsg)
  BY <1>2, UpAndDown
<1>6. Down' = <<>>
  <2>1. Tail(Down) = <<>>
    BY <1>3, <1>4, <1>5, LastWord
  <2> QED
    BY <1>3, <2>1
<1>7. DOMAIN sEntries' = DOMAIN rEntries'
  BY <1>1, <1>2, <1>3, <1>4, ListSettled DEF ListSent
<1>8. /\ Messages(Up)' = {} /\ Messages(Down)' = {} /\ Indexes(Up)' = {} /\ Indexes(Down)' = {}
      /\ Rising(Up)' /\ Rising(Down)'
  BY <1>3, <1>4, <1>6, NoMessages
<1> QED
  BY <1>1, <1>3, <1>4, <1>6, <1>7, <1>8 DEF Serving, Below

\* An answer has the basis of the request, or none.
LEMMA AnswerBasis ==
    ASSUME TypeOK, ServeRequest, ~SenderFails
    PROVE  \E a \in ToReceiverMsg :
             /\ sOut' = <<a>> /\ a.type = "file" /\ a.index = Head(toSender).index
             /\ a.basis = Head(toSender).basis \/ a.basis = Absent
             /\ a.copies => a.basis.kind = "file"
             /\ Head(toSender).type = "request"
<1> DEFINE m == Head(toSender)
<1> DEFINE p == sEntries[m.index].path
<1>1. /\ m.type = "request"
      /\ IF m.transfer /\ ~job.dryRun
              THEN \E a \in Answers(m, p) : sOut' = <<a>>
              ELSE sOut' = <<Echo(m)>>
  BY DEF ServeRequest
<1>2. PICK a : sOut' = <<a>> /\ (a \in Answers(m, p) \/ a = Echo(m))
  BY <1>1
<1>3. a \in ToReceiverMsg
  <2>1. TypeOK'
    BY TypeStep DEF Next, SenderStep
  <2> QED
    BY <1>2, <2>1 DEF TypeOK
<1>4. a.type = "file" /\ a.index = m.index /\ (a.basis = m.basis \/ a.basis = Absent)
  BY <1>2 DEF Answers, Echo
<1>5. a.copies => a.basis.kind = "file"
  <2>1. CASE a = Echo(m)
    BY <2>1 DEF Echo
  <2>2. CASE a \in Answers(m, p)
    <3>1. PICK c \in BOOLEAN :
            /\ c => m.basis.kind = "file"
            /\ a = [type |-> "file", index |-> m.index, transfer |-> TRUE, data |-> src[p].data,
                    copies |-> c, basis |-> m.basis]
      BY <2>2 DEF Answers
    <3>2. a.copies = c /\ a.basis = m.basis
      BY <3>1
    <3> QED
      BY <3>1, <3>2
  <2> QED
    BY <1>2, <2>1, <2>2
<1> QED
  BY <1>1, <1>2, <1>3, <1>4, <1>5

\* While files are asked for, the sender answers every request in turn.
LEMMA ServingSender ==
    ASSUME DelInv, ~cut, Working, Serving, SenderStep, sPc' # "failed"
    PROVE  Serving'
<1>1. /\ UNCHANGED <<fs, rPc, rOut, rEntries, plan, want, edits>>
      /\ toReceiver' = toReceiver \/ SenderWrites
  BY SenderFrame
<1>2. TypeOK /\ ~SenderFails /\ sPc = "serve" /\ OneMarker
  BY DEF DelInv, KeptInv, SenderFails, Serving, Rounds, Working
<1>3. Up \in Seq(ToSenderMsg) /\ Down \in Seq(ToReceiverMsg)
  BY <1>2, UpAndDown
<1>4. CASE SenderWrites
  <2>1. UNCHANGED <<Up, Down, sPc, sEntries>>
    BY <1>2, <1>4, UpAndDown DEF SenderWrites
  <2> QED
    BY <1>1, <2>1 DEF Serving, BasisKept
<1>5. ASSUME ServeDone \/ ServeRequest
      PROVE  /\ SenderTakes /\ toReceiver' = toReceiver /\ sEntries' = sEntries
             /\ Up # <<>> /\ Head(Up) = Head(toSender) /\ Up' = Tail(Up)
             /\ Down' = Down \o sOut'
             /\ rPc # "prepare"
             /\ Messages(Up)' \subseteq Messages(Up) /\ Indexes(Up)' \subseteq Indexes(Up)
             /\ Rising(Up)'
  <2>1. SenderTakes /\ toReceiver' = toReceiver /\ sEntries' = sEntries
    BY <1>2, <1>5 DEF ServeDone, ServeRequest, SenderStays
  <2>2. Up # <<>> /\ Head(Up) = Head(toSender) /\ Up' = Tail(Up) /\ Down' = Down \o sOut'
    BY <1>1, <1>2, <2>1, UpTaken
  <2>3. rPc # "prepare"
    BY <2>2 DEF Serving
  <2>4. Messages(Tail(Up)) \subseteq Messages(Up) /\ Indexes(Tail(Up)) \subseteq Indexes(Up)
        /\ Rising(Tail(Up))
    <3>1. Rising(Up) /\ Up \in Seq(ToSenderMsg) /\ Up # <<>>
      BY <1>3, <2>2 DEF Serving
    <3>2. Messages(Up) = Messages(Tail(Up)) \cup {Head(Up)}
      BY <3>1, HeadGone
    <3>3. Indexes(Tail(Up)) \subseteq Indexes(Up) /\ Rising(Tail(Up))
      BY <3>1, HeadGone
    <3> QED
      BY <3>2, <3>3
  <2> QED
    BY <2>1, <2>2, <2>3, <2>4
<1>6. CASE ServeDone
  <2>1. sMarks' = sMarks + 1 /\ Head(toSender) = Done
    BY <1>6 DEF ServeDone
  <2>2. Holds(toSender, Done) /\ toSender # <<>> /\ toSender \in Seq(ToSenderMsg)
    BY <1>2, <1>5, <1>6, <2>1, StreamFacts, LastWord DEF SenderTakes
  <2>3. sMarks = 0
    BY <1>2, <2>2 DEF OneMarker
  <2>4. sPc' = "serve" /\ sOut' = <<Done>> \o <<>>
    <3>1. sMarks' # Phases
      BY <1>2, <2>1, <2>3, StreamFacts
    <3> QED
      BY <1>6, <3>1 DEF ServeDone
  <2>5. Done \in ToReceiverMsg /\ ~Indexed(Done)
    BY ShortMessages DEF Indexed, Done
  <2>6. sOut' = <<Done>>
    <3>1. <<Done>> \in Seq(ToReceiverMsg)
      BY <2>5
    <3> QED
      BY <2>4, <3>1, Joined
  <2>7. /\ Messages(Append(Down, Done)) = Messages(Down) \cup {Done}
        /\ Indexes(Append(Down, Done)) = Indexes(Down)
        /\ Rising(Append(Down, Done))
    <3>1. Rising(Down)
      BY DEF Serving
    <3> QED
      BY <1>3, <2>5, <3>1, MarkerMore
  <2>8. Messages(Down)' = Messages(Down) \cup {Done} /\ Indexes(Down)' = Indexes(Down) /\ Rising(Down)'
    <3>1. Down' = Append(Down, Done)
      BY <1>3, <1>5, <1>6, <2>5, <2>6, Joined
    <3> QED
      BY <2>7, <3>1
  <2> QED
    BY <1>1, <1>5, <1>6, <2>4, <2>5, <2>8 DEF Serving, Below, BasisKept
<1>7. CASE ServeRequest
  <2>1. PICK a \in ToReceiverMsg :
          /\ sOut' = <<a>> /\ a.type = "file" /\ a.index = Head(toSender).index
          /\ a.basis = Head(toSender).basis \/ a.basis = Absent
          /\ a.copies => a.basis.kind = "file"
          /\ Head(toSender).type = "request"
    BY <1>2, <1>7, AnswerBasis
  <2>2. PICK m : m = Head(toSender) /\ m = Head(Up)
    BY <1>5, <1>7
  <2>3. Indexed(a) /\ Indexed(m) /\ m \in Messages(Up) /\ m.index \in Indexes(Up)
    BY <1>3, <1>5, <1>7, <2>1, <2>2, HeadGone DEF Indexed
  <2>4. sPc' = "serve"
    BY <1>2, <1>7 DEF ServeRequest
  <2>5. Below(Indexes(Down), {a.index})
    BY <2>1, <2>2, <2>3 DEF Serving, Below
  <2>6. /\ Messages(Append(Down, a)) = Messages(Down) \cup {a}
        /\ Indexes(Append(Down, a)) = Indexes(Down) \cup {m.index}
        /\ Rising(Append(Down, a))
    <3>1. Rising(Down) /\ m.index = a.index
      BY <2>1, <2>2 DEF Serving
    <3> QED
      BY <1>3, <2>3, <2>5, <3>1, IndexMore
  <2>7. /\ Messages(Down)' = Messages(Down) \cup {a}
        /\ Indexes(Down)' = Indexes(Down) \cup {m.index}
        /\ Rising(Down)'
    <3>1. Down' = Append(Down, a)
      BY <1>3, <1>5, <1>7, <2>1, Joined
    <3> QED
      BY <2>6, <3>1
  <2>8. Below({m.index}, Indexes(Up)')
    <3>1. Below({m.index}, Indexes(Tail(Up)))
      BY <1>3, <1>5, <1>7, <2>2, <2>3, HeadGone DEF Serving
    <3> QED
      BY <1>5, <1>7, <3>1
  <2>9. edits = 0 => BasisKept(a)
    <3>1. edits = 0 => BasisKept(m)
      BY <2>3 DEF Serving
    <3>2. a.basis.kind = "file" => a.basis = m.basis
      BY <2>1, <2>2 DEF Absent
    <3> QED
      BY <2>1, <2>2, <3>1, <3>2 DEF BasisKept
  <2>10. Below(Indexes(Down)', Indexes(Up)')
    BY <1>5, <1>7, <2>7, <2>8 DEF Serving, Below
  <2>11. Indexes(Up)' \cup Indexes(Down)' \subseteq Indexes(Up) \cup Indexes(Down)
    BY <1>5, <1>7, <2>3, <2>7
  <2>12. Below(Indexes(Up)' \cup Indexes(Down)', plan'.ask)
    BY <1>1, <2>11 DEF Serving, Below
  <2>13. edits = 0 => \A x \in Messages(Up)' \cup Messages(Down)' : Indexed(x) => BasisKept(x)
    BY <1>5, <1>7, <2>7, <2>9 DEF Serving
  <2>14. (edits = 0 => \A x \in Messages(Up) \cup Messages(Down) : Indexed(x) => BasisKept(x))'
    BY <1>1, <2>13 DEF BasisKept
  <2>15. /\ \A x \in Messages(Up)' : x = Done \/ x.type = "request"
         /\ \A x \in Messages(Down)' : x = Done \/ x.type = "file"
    BY <1>5, <1>7, <2>1, <2>7 DEF Serving
  <2>16. Indexes(Up)' \cup Indexes(Down)' \subseteq want'
    BY <1>1, <2>11 DEF Serving
  <2>17. DOMAIN sEntries' = DOMAIN rEntries' /\ rPc' # "prepare" /\ Rising(Up)'
    BY <1>1, <1>5, <1>7 DEF Serving
  <2> QED
    BY <2>4, <2>7, <2>10, <2>12, <2>14, <2>15, <2>16, <2>17 DEF Serving
<1>8. CASE SenderSendsMarker \/ SenderReadsMarker \/ Collect \/ ReadGoodbye
  BY <1>2, <1>8 DEF SenderSendsMarker, SenderReadsMarker, Collect, ReadGoodbye
<1>9. CASE SenderDisconnected
  BY <1>2, <1>9 DEF SenderDisconnected
<1> QED
  BY <1>4, <1>6, <1>7, <1>8, <1>9 DEF SenderStep

\* An answer that is taken leaves the bases of the others.
LEMMA BasesKept ==
    ASSUME DelInv, Serving, edits = 0, rPc = "receive", ReceiveFile, ~ReceiverFails,
           \A j, k \in DOMAIN rEntries : rEntries[j].path = rEntries[k].path => j = k,
           Down # <<>>, Head(Down) = Head(toReceiver),
           NEW m, m \in Messages(Up) \cup Messages(Tail(Down)), Indexed(m)
    PROVE  BasisKept(m)'
<1> DEFINE a == Head(toReceiver)
<1>1. TypeOK /\ fs \in Tree /\ want \subseteq DOMAIN rEntries
  BY DEF DelInv, KeptInv, TypeOK
<1>2. Down \in Seq(ToReceiverMsg)
  BY <1>1, UpAndDown
<1>3. /\ a.type = "file" /\ a.index \in DOMAIN rEntries
      /\ a.transfer /\ ~job.dryRun => CanPut(fs, rEntries[a.index].path)
      /\ fs' = IF a.transfer /\ ~job.dryRun THEN Received(a, rEntries[a.index]) ELSE fs
      /\ rEntries' = rEntries
  BY DEF ReceiveFile
<1>4. Indexed(a) /\ a \in Messages(Down) /\ a.index \in Indexes(Down)
  <2>1. Indexed(Head(Down))
    BY <1>3 DEF Indexed
  <2>2. Messages(Down) = Messages(Tail(Down)) \cup {Head(Down)}
    BY <1>2, HeadGone
  <2>3. Head(Down).index \in Indexes(Down)
    BY <1>2, <2>1, HeadGone
  <2> QED
    BY <2>1, <2>2, <2>3
<1>5. BasisKept(m)
  <2>1. Messages(Tail(Down)) \subseteq Messages(Down)
    BY <1>2, HeadGone
  <2> QED
    BY <2>1 DEF Serving
<1>6. a.index < m.index /\ m.index \in want /\ a.index \in want
  <2>1. CASE m \in Messages(Up)
    <3>1. m.index \in Indexes(Up)
      BY <2>1 DEF Indexes
    <3> QED
      BY <1>4, <3>1 DEF Serving, Below
  <2>2. CASE m \in Messages(Tail(Down))
    <3>1. m.index \in Indexes(Tail(Down))
      BY <2>2 DEF Indexes
    <3>2. Indexes(Tail(Down)) \subseteq Indexes(Down) /\ Below({a.index}, Indexes(Tail(Down)))
      <4>1. Rising(Down) /\ Indexed(Head(Down))
        BY <1>4 DEF Serving
      <4> QED
        BY <1>2, <4>1, HeadGone
    <3> QED
      BY <1>4, <3>1, <3>2 DEF Serving, Below
  <2> QED
    BY <2>1, <2>2
<1>7. PICK i \in DOMAIN rEntries, k \in DOMAIN rEntries : i = a.index /\ k = m.index /\ i # k
  <2>1. a.index \in Nat /\ m.index \in Nat
    BY <1>1, <1>6, ListedPath
  <2> QED
    BY <1>1, <1>6, <2>1
<1>8. PICK p \in Path, q \in Path : p = rEntries[i].path /\ q = rEntries[k].path /\ p # q
  BY <1>1, <1>7, ListedPath
<1>9. m.basis.kind = "file" => fs'[q] = m.basis
  <2>1. SUFFICES ASSUME m.basis.kind = "file" PROVE fs'[q] = m.basis
    OBVIOUS
  <2>2. fs[q] = m.basis /\ fs[q].kind = "file"
    BY <1>5, <1>7, <1>8, <2>1 DEF BasisKept
  <2>3. CASE a.transfer /\ ~job.dryRun
    <3>1. PICK n : fs' = Put(fs, p, n) /\ CanPut(fs, p)
      BY <1>3, <1>7, <1>8, <2>3 DEF Received
    <3> QED
      BY <1>1, <1>8, <2>2, <3>1, FileStays
  <2>4. CASE ~(a.transfer /\ ~job.dryRun)
    BY <1>3, <2>2, <2>4
  <2> QED
    BY <2>3, <2>4
<1> QED
  BY <1>3, <1>5, <1>7, <1>8, <1>9 DEF BasisKept

\* While files are asked for, the receiver asks in order and takes the answers
\* in order.
LEMMA ServingReceiver ==
    ASSUME DelInv, ~cut, Working, Working', Serving, ReceiverStep, rPc' # "failed",
           \A j, k \in DOMAIN rEntries : rEntries[j].path = rEntries[k].path => j = k
    PROVE  Serving'
<1>1. /\ UNCHANGED <<sPc, sOut, sEntries, sMarks, edits>>
      /\ toSender' = toSender \/ ReceiverWrites
  BY ReceiverFrame
<1>2. TypeOK /\ ~ReceiverFails /\ sPc = "serve" /\ OneMarker
  BY DEF DelInv, KeptInv, ReceiverFails, Serving, Rounds, Working
<1>3. Up \in Seq(ToSenderMsg) /\ Down \in Seq(ToReceiverMsg)
  BY <1>2, UpAndDown
<1>4. CASE ReceiverWrites
  <2>1. UNCHANGED <<Up, Down, rPc, rEntries, plan, want, fs>>
    BY <1>2, <1>4, UpAndDown DEF ReceiverWrites
  <2> QED
    BY <1>1, <2>1 DEF Serving, BasisKept
<1>5. CASE DeleteExtra \/ MakeListedDir \/ Prepared
  <2>1. /\ rPc = "prepare" /\ UNCHANGED <<rOut, rEntries, want, toReceiver, toSender>>
        /\ plan'.ask = plan.ask
    BY <1>2, <1>5 DEF DeleteExtra, MakeListedDir, Prepared, ReceiverStays, TypeOK
  <2>2. Up = <<>> /\ Down = <<>> /\ Up' = <<>> /\ Down' = <<>>
    BY <1>1, <2>1 DEF Serving, Up, Down
  <2>3. /\ Messages(Up)' = {} /\ Messages(Down)' = {} /\ Indexes(Up)' = {} /\ Indexes(Down)' = {}
        /\ Rising(Up)' /\ Rising(Down)'
    BY <2>2, NoMessages
  <2> QED
    BY <1>1, <2>1, <2>2, <2>3 DEF Serving, Below
<1>6. CASE RequestsDone
  <2>1. /\ rOut = <<>> /\ rOut' = <<Done>> /\ rPc' = "receive"
        /\ UNCHANGED <<rEntries, plan, want, fs, toReceiver, toSender>>
    BY <1>6 DEF RequestsDone, ReceiverStays
  <2>2. Done \in ToSenderMsg /\ ~Indexed(Done)
    BY ShortMessages DEF Indexed, Done
  <2>3. Up = toSender /\ Down' = Down
    BY <1>1, <1>2, <2>1, UpAndDown DEF Down
  <2>4. Up' = Append(Up, Done)
    BY <1>3, <2>1, <2>2, <2>3, Joined DEF Up
  <2>5. /\ Messages(Append(Up, Done)) = Messages(Up) \cup {Done}
        /\ Indexes(Append(Up, Done)) = Indexes(Up)
        /\ Rising(Append(Up, Done))
    <3>1. Rising(Up)
      BY DEF Serving
    <3> QED
      BY <1>3, <2>2, <3>1, MarkerMore
  <2>6. Messages(Up)' = Messages(Up) \cup {Done} /\ Indexes(Up)' = Indexes(Up) /\ Rising(Up)'
    BY <2>4, <2>5
  <2> QED
    BY <1>1, <2>1, <2>2, <2>3, <2>6 DEF Serving, BasisKept
<1>7. CASE RequestFile
  <2>1. PICK i \in plan.ask :
          /\ Earliest(plan.ask, i)
          /\ rOut' = <<[type |-> "request", index |-> i, transfer |-> ~job.dryRun,
                       basis |-> IF job.dryRun THEN Absent ELSE Basis(rEntries[i].path)]>>
          /\ plan' = [plan EXCEPT !.ask = @ \ {i}]
    BY <1>7 DEF RequestFile
  <2>2. /\ rOut = <<>> /\ rPc = "request" /\ rPc' = rPc
        /\ UNCHANGED <<rEntries, want, fs, toReceiver, toSender>>
    BY <1>7 DEF RequestFile, ReceiverStays
  <2>3. PICK m : m = [type |-> "request", index |-> i, transfer |-> ~job.dryRun,
                      basis |-> IF job.dryRun THEN Absent ELSE Basis(rEntries[i].path)]
    OBVIOUS
  <2>4. m \in ToSenderMsg /\ rOut' = <<m>>
    <3>1. TypeOK'
      BY <1>2, <1>7, TypeStep DEF Next, ReceiverStep
    <3> QED
      BY <2>1, <2>3, <3>1 DEF TypeOK
  <2>5. m.type = "request" /\ m.index = i /\ Indexed(m)
    BY <2>3 DEF Indexed
  <2>6. BasisKept(m)
    <3>1. m.basis.kind = "file" => m.basis = fs[rEntries[i].path]
      BY <2>3 DEF Basis, Absent
    <3> QED
      BY <2>5, <3>1 DEF BasisKept
  <2>7. Up = toSender /\ Down' = Down
    BY <1>1, <1>2, <2>2, UpAndDown DEF Down
  <2>8. Up' = Append(Up, m)
    BY <1>3, <2>2, <2>4, <2>7, Joined DEF Up
  <2>9. plan.ask \subseteq Nat /\ plan.ask \subseteq want /\ i \in Nat /\ plan'.ask = plan.ask \ {i}
    BY <1>2, <2>1 DEF TypeOK
  <2>10. Below(Indexes(Up), {i}) /\ Rising(Up) /\ i = m.index
    BY <2>5 DEF Serving, Below
  <2>11. /\ Messages(Append(Up, m)) = Messages(Up) \cup {m}
         /\ Indexes(Append(Up, m)) = Indexes(Up) \cup {i}
         /\ Rising(Append(Up, m))
    BY <1>3, <2>4, <2>5, <2>10, IndexMore
  <2>12. Messages(Up)' = Messages(Up) \cup {m} /\ Indexes(Up)' = Indexes(Up) \cup {i} /\ Rising(Up)'
    BY <2>8, <2>11
  <2>13. Below({i}, plan'.ask)
    BY <2>1, <2>9 DEF Below, Earliest
  <2>14. Below(Indexes(Down), Indexes(Up)')
    BY <2>12 DEF Serving, Below
  <2>15. Below(Indexes(Up)' \cup Indexes(Down), plan'.ask)
    BY <2>9, <2>12, <2>13 DEF Serving, Below
  <2>16. edits = 0 => \A x \in Messages(Up)' \cup Messages(Down) : Indexed(x) => BasisKept(x)
    BY <2>6, <2>12 DEF Serving
  <2>17. (edits = 0 => \A x \in Messages(Up) \cup Messages(Down) : Indexed(x) => BasisKept(x))'
    BY <1>1, <2>2, <2>7, <2>16 DEF BasisKept
  <2>18. \A x \in Messages(Up)' : x = Done \/ x.type = "request"
    BY <2>5, <2>12 DEF Serving
  <2>19. Indexes(Up)' \cup Indexes(Down) \subseteq want'
    BY <2>2, <2>9, <2>12 DEF Serving
  <2> QED
    BY <1>1, <2>2, <2>7, <2>12, <2>14, <2>15, <2>17, <2>18, <2>19 DEF Serving
<1>8. CASE ReceiveFile
  <2>1. /\ rPc = "receive" /\ UNCHANGED <<rPc, rOut, rEntries, plan, want, toSender>>
        /\ ReceiverTakes
    BY <1>2, <1>8 DEF ReceiveFile, ReceiverStays
  <2>2. Down # <<>> /\ Head(Down) = Head(toReceiver) /\ Down' = Tail(Down) /\ Up' = Up
    BY <1>1, <1>2, <2>1, DownTaken DEF Up
  <2>3. Messages(Tail(Down)) \subseteq Messages(Down) /\ Indexes(Tail(Down)) \subseteq Indexes(Down)
        /\ Rising(Tail(Down))
    <3>1. Rising(Down)
      BY DEF Serving
    <3>2. Messages(Down) = Messages(Tail(Down)) \cup {Head(Down)}
      BY <1>3, <2>2, HeadGone
    <3>3. Indexes(Tail(Down)) \subseteq Indexes(Down) /\ Rising(Tail(Down))
      BY <1>3, <2>2, <3>1, HeadGone
    <3> QED
      BY <3>2, <3>3
  <2>4. /\ Messages(Down)' \subseteq Messages(Down) /\ Indexes(Down)' \subseteq Indexes(Down)
        /\ Rising(Down)' /\ Messages(Down)' = Messages(Tail(Down))
    BY <2>2, <2>3
  <2>5. edits = 0 => \A x \in Messages(Up) \cup Messages(Tail(Down)) : Indexed(x) => BasisKept(x)'
    BY <1>2, <1>8, <2>1, <2>2, BasesKept
  <2>6. (edits = 0 => \A x \in Messages(Up) \cup Messages(Down) : Indexed(x) => BasisKept(x))'
    BY <1>1, <2>2, <2>4, <2>5
  <2> QED
    BY <1>1, <2>1, <2>2, <2>4, <2>6 DEF Serving, Below
<1>9. CASE \/ ReceiverSendsMarker \/ ReceiverExpectsList \/ ReceiverReadsMarker \/ ReadList
           \/ ReadAck \/ ReadStats \/ ReadGoodbyeAck \/ ReceiverEnds
  BY <1>9 DEF Working, ReceiverSendsMarker, ReceiverExpectsList, ReceiverReadsMarker, ReadList,
       ReadAck, ReadStats, ReadGoodbyeAck, ReceiverEnds
<1>10. CASE ReceiveDone
  BY <1>10 DEF Working, ReceiveDone, AfterRound
<1>11. CASE ReceiverDisconnected
  BY <1>2, <1>11 DEF ReceiverDisconnected
<1> QED
  BY <1>4, <1>5, <1>6, <1>7, <1>8, <1>9, <1>10, <1>11 DEF ReceiverStep

\* The short messages, alone and in pairs.
LEMMA Parting ==
    /\ <<Done>> # <<>> /\ Head(<<Done>>) = Done /\ Tail(<<Done>>) = <<>> /\ <<>> \o <<Done>> = <<Done>>
    /\ <<Done>> \o <<>> = <<Done>> /\ <<>> \o <<>> = <<>>
    /\ <<Stats>> # <<>> /\ Head(<<Stats>>) = Stats /\ Tail(<<Stats>>) = <<>>
    /\ <<Done>> \o <<Stats>> = <<Done, Stats>> /\ <<>> \o <<Done, Stats>> = <<Done, Stats>>
    /\ <<Done, Stats>> # <<>> /\ Head(<<Done, Stats>>) = Done /\ Tail(<<Done, Stats>>) = <<Stats>>
    /\ Stats # Done
<1>1. Done \in ToReceiverMsg /\ Stats \in ToReceiverMsg
  BY ShortMessages
<1>2. /\ <<Done>> # <<>> /\ Head(<<Done>>) = Done /\ Tail(<<Done>>) = <<>> /\ <<>> \o <<Done>> = <<Done>>
      /\ <<Stats>> # <<>> /\ Head(<<Stats>>) = Stats /\ Tail(<<Stats>>) = <<>>
      /\ <<Done>> \o <<Stats>> = <<Done, Stats>>
      /\ <<Done, Stats>> # <<>> /\ Head(<<Done, Stats>>) = Done /\ Tail(<<Done, Stats>>) = <<Stats>>
  BY <1>1, Short
<1>3. <<Done>> \in Seq(ToReceiverMsg) /\ <<Done, Stats>> \in Seq(ToReceiverMsg)
  BY <1>1
<1>4. <<Done>> \o <<>> = <<Done>> /\ <<>> \o <<Done, Stats>> = <<Done, Stats>> /\ <<>> \o <<>> = <<>>
  BY <1>3, Joined, EmptySeq
<1>5. Stats # Done
  BY DEF Stats, Done
<1> QED
  BY <1>2, <1>4, <1>5

\* The first marker has been answered: nothing is on its way but the next one.
LEMMA ClosingStarts ==
    ASSUME DelInv, ~cut, Serving, ReceiveDone
    PROVE  Closing'
<1>1. /\ rPc = "receive" /\ ReceiverTakes /\ Head(toReceiver) = Done /\ AfterRound(1)
      /\ UNCHANGED <<job, toSender, sPc, sOut, sMarks>>
  BY DEF ReceiveDone, ReceiverStays, sender
<1>2. TypeOK /\ OneMarker /\ sPc = "serve"
  BY <1>1 DEF DelInv, KeptInv, Rounds, Serving
<1>3. Phases \in {2, 3} /\ toReceiver # <<>> /\ toReceiver \in Seq(ToReceiverMsg)
  BY <1>1, <1>2, StreamFacts DEF ReceiverTakes
<1>4. Holds(toReceiver, Done) /\ (LastOnly(toReceiver, Done) => Tail(toReceiver) = <<>>)
  BY <1>1, <1>3, LastWord
<1>5. Tail(toReceiver) = <<>> /\ sOut = <<>> /\ sMarks = 1 /\ toSender = <<>>
  BY <1>2, <1>4 DEF OneMarker
<1>6. rPc' = "ack" /\ rRound' = 2 /\ rOut' = <<Done>>
  BY <1>1, <1>3 DEF AfterRound
<1>7. Up' = <<Done>> /\ Down' = <<>>
  BY <1>1, <1>5, <1>6, Parting DEF Up, Down, ReceiverTakes
<1>8. Phases' = Phases /\ 2 \in 2 .. Phases
  BY <1>1, <1>3 DEF Phases
<1> QED
  BY <1>1, <1>2, <1>5, <1>6, <1>7, <1>8 DEF Closing

\* The sender's steps from then on.
LEMMA ClosingSender ==
    ASSUME TypeOK, Closing, SenderStep, sPc' # "failed"
    PROVE  Closing'
<1>1. /\ UNCHANGED <<job, rPc, rOut, rRound>>
      /\ toReceiver' = toReceiver \/ SenderWrites
  BY SenderFrame
<1>2. ~SenderFails /\ Phases' = Phases /\ HasStats' = HasStats
  BY <1>1 DEF SenderFails, Phases, HasStats
<1>3. sMarks \in Nat /\ rRound \in Nat /\ Phases \in {2, 3} /\ job.protocol \in {27, 31}
  BY StreamFacts, JobFacts DEF Job
<1>4. CASE SenderWrites
  <2>1. UNCHANGED <<Up, Down, sPc, sMarks>>
    BY <1>4, UpAndDown DEF SenderWrites
  <2> QED
    BY <1>1, <1>2, <2>1 DEF Closing
<1>5. ASSUME ServeDone \/ ServeRequest \/ ReadGoodbye
      PROVE  /\ SenderTakes /\ Up # <<>> /\ Head(Up) = Head(toSender) /\ Up' = Tail(Up)
             /\ Down' = Down \o sOut'
  <2>1. SenderTakes /\ toReceiver' = toReceiver
    BY <1>5 DEF ServeDone, ServeRequest, ReadGoodbye, SenderStays
  <2> QED
    BY <1>1, <2>1, UpTaken
<1>6. CASE ServeDone
  <2>1. sPc = "serve" /\ sMarks' = sMarks + 1
    BY <1>6 DEF ServeDone
  <2>2. rPc = "ack" /\ rRound \in 2 .. Phases /\ sMarks = rRound - 1 /\ Up = <<Done>> /\ Down = <<>>
    BY <1>5, <1>6, <2>1 DEF Closing
  <2>3. sMarks' = rRound /\ Up' = <<>>
    BY <1>3, <1>5, <1>6, <2>1, <2>2, Parting
  <2>4. CASE rRound < Phases
    <3>1. sMarks' # Phases
      BY <1>3, <2>3, <2>4
    <3>2. sPc' = "serve" /\ sOut' = <<Done>>
      BY <1>6, <3>1, Parting DEF ServeDone
    <3>3. Down' = <<Done>>
      BY <1>5, <1>6, <2>2, <3>2, Parting
    <3> QED
      BY <1>1, <1>2, <2>2, <2>3, <2>4, <3>2, <3>3 DEF Closing
  <2>5. CASE ~(rRound < Phases)
    <3>1. sMarks' = Phases
      BY <1>3, <2>2, <2>3, <2>5
    <3>2. sPc' = "goodbye" /\ sOut' = IF HasStats THEN <<Done, Stats>> ELSE <<Done>>
      BY <1>6, <3>1, Parting DEF ServeDone
    <3>3. Down' = IF HasStats THEN <<Done, Stats>> ELSE <<Done>>
      BY <1>5, <1>6, <2>2, <3>2, Parting
    <3> QED
      BY <1>1, <1>2, <2>2, <2>3, <2>5, <3>2, <3>3 DEF Closing
  <2> QED
    BY <2>4, <2>5
<1>7. CASE ServeRequest
  <2>1. sPc = "serve" /\ Head(toSender) # Done
    BY <1>7 DEF ServeRequest
  <2>2. Up = <<Done>>
    BY <1>5, <1>7, <2>1 DEF Closing
  <2> QED
    BY <1>5, <1>7, <2>1, <2>2, Parting
<1>8. CASE ReadGoodbye
  <2>1. /\ sPc \in {"goodbye", "adieu"}
        /\ sPc' = IF sPc = "goodbye" /\ job.protocol = 31 THEN "adieu" ELSE "done"
        /\ sOut' = IF sPc = "goodbye" /\ job.protocol = 31 THEN <<Done>> ELSE <<>>
    BY <1>2, <1>8 DEF ReadGoodbye
  <2>2. Up = <<Done>> /\ Down = <<>>
    BY <1>5, <1>8, <2>1 DEF Closing
  <2>3. Up' = <<>> /\ Down' = sOut'
    BY <1>5, <1>8, <2>1, <2>2, Parting
  <2>4. \/ rPc = "bye" /\ job.protocol = 31 /\ sPc = "goodbye"
        \/ /\ rPc \in {"last", "done"} /\ (rPc = "done" => rOut = <<>>)
           /\ sPc = IF job.protocol = 31 THEN "adieu" ELSE "goodbye"
    BY <1>5, <1>8, <2>1, <2>2 DEF Closing
  <2> QED
    BY <1>1, <2>1, <2>3, <2>4 DEF Closing
<1>9. CASE SenderSendsMarker \/ SenderReadsMarker \/ Collect
  BY <1>9 DEF SenderSendsMarker, SenderReadsMarker, Collect, Closing
<1>10. CASE SenderDisconnected
  BY <1>2, <1>10 DEF SenderDisconnected
<1> QED
  BY <1>4, <1>6, <1>7, <1>8, <1>9, <1>10 DEF SenderStep

\* The receiver's steps from then on.
LEMMA ClosingReceiver ==
    ASSUME TypeOK, Closing, ReceiverStep, rPc' # "failed"
    PROVE  Closing'
<1>1. /\ UNCHANGED <<job, sPc, sOut, sMarks>>
      /\ toSender' = toSender \/ ReceiverWrites
  BY ReceiverFrame
<1>2. ~ReceiverFails /\ Phases' = Phases /\ HasStats' = HasStats
  BY <1>1 DEF ReceiverFails, Phases, HasStats
<1>3. sMarks \in Nat /\ rRound \in Nat /\ Phases \in {2, 3} /\ job.protocol \in {27, 31}
  BY StreamFacts, JobFacts DEF Job
<1>4. CASE ReceiverWrites
  <2>1. UNCHANGED <<Up, Down, rPc, rRound>> /\ rOut # <<>>
    BY <1>4, UpAndDown DEF ReceiverWrites
  <2> QED
    BY <1>1, <1>2, <2>1 DEF Closing
<1>5. ASSUME ReadAck \/ ReadStats \/ ReadGoodbyeAck
      PROVE  /\ Down # <<>> /\ Head(Down) = Head(toReceiver) /\ Down' = Tail(Down)
             /\ Up' = Up \o rOut'
  <2>1. ReceiverTakes /\ toSender' = toSender
    BY <1>5 DEF ReadAck, ReadStats, ReadGoodbyeAck, ReceiverStays
  <2> QED
    BY <1>1, <2>1, DownTaken
<1>6. CASE ReadAck
  <2>1. rPc = "ack" /\ AfterRound(rRound)
    BY <1>2, <1>6 DEF ReadAck
  <2>2. /\ rRound \in 2 .. Phases /\ sMarks = rRound /\ Up = <<>>
        /\ IF rRound < Phases
             THEN sPc = "serve" /\ Down = <<Done>>
             ELSE sPc = "goodbye" /\ Down = IF HasStats THEN <<Done, Stats>> ELSE <<Done>>
    BY <1>5, <1>6, <2>1 DEF Closing
  <2>3. CASE rRound < Phases
    <3>1. rPc' = "ack" /\ rRound' = rRound + 1 /\ rOut' = <<Done>>
      BY <2>1, <2>3 DEF AfterRound
    <3>2. Up' = <<Done>> /\ Down' = <<>>
      BY <1>5, <1>6, <2>2, <2>3, <3>1, Parting
    <3>3. rRound' \in 2 .. Phases /\ sMarks = rRound' - 1
      BY <1>3, <2>2, <2>3, <3>1
    <3> QED
      BY <1>1, <1>2, <2>2, <2>3, <3>1, <3>2, <3>3 DEF Closing
  <2>4. CASE ~(rRound < Phases) /\ HasStats
    <3>1. rPc' = "stats" /\ rOut' = <<>>
      BY <2>1, <2>4 DEF AfterRound
    <3>2. Up' = <<>> /\ Down' = <<Stats>>
      BY <1>5, <1>6, <2>2, <2>4, <3>1, Parting
    <3> QED
      BY <1>1, <1>2, <2>2, <2>4, <3>1, <3>2 DEF Closing
  <2>5. CASE ~(rRound < Phases) /\ ~HasStats
    <3>1. rPc' = "bye" /\ rOut' = <<Done>>
      BY <2>1, <2>5 DEF AfterRound
    <3>2. Up' = <<Done>> /\ Down' = <<>>
      BY <1>5, <1>6, <2>2, <2>5, <3>1, Parting
    <3>3. job.protocol = 31
      BY <1>3, <2>5 DEF HasStats
    <3> QED
      BY <1>1, <1>2, <2>2, <2>5, <3>1, <3>2, <3>3 DEF Closing
  <2> QED
    BY <2>3, <2>4, <2>5
<1>7. CASE ReadStats
  <2>1. rPc = "stats" /\ rPc' = (IF job.protocol = 31 THEN "bye" ELSE "last") /\ rOut' = <<Done>>
    BY <1>2, <1>7 DEF ReadStats
  <2>2. sPc = "goodbye" /\ Up = <<>> /\ Down = <<Stats>>
    BY <2>1 DEF Closing
  <2>3. Up' = <<Done>> /\ Down' = <<>>
    BY <1>5, <1>7, <2>1, <2>2, Parting
  <2> QED
    BY <1>1, <2>1, <2>2, <2>3 DEF Closing
<1>8. CASE ReadGoodbyeAck
  <2>1. rPc = "bye" /\ rPc' = "last" /\ rOut' = <<Done>>
    BY <1>2, <1>8 DEF ReadGoodbyeAck
  <2>2. job.protocol = 31 /\ sPc = "adieu" /\ Up = <<>> /\ Down = <<Done>>
    BY <1>5, <1>8, <2>1 DEF Closing
  <2>3. Up' = <<Done>> /\ Down' = <<>>
    BY <1>5, <1>8, <2>1, <2>2, Parting
  <2> QED
    BY <1>1, <2>1, <2>2, <2>3 DEF Closing
<1>9. CASE ReceiverEnds
  <2>1. rPc = "last" /\ rOut = <<>> /\ rPc' = "done" /\ UNCHANGED <<rOut, toSender, toReceiver>>
    BY <1>9 DEF ReceiverEnds, ReceiverStays
  <2>2. Up' = Up /\ Down' = Down
    BY <1>1, <2>1 DEF Up, Down
  <2> QED
    BY <1>1, <2>1, <2>2 DEF Closing
<1>10. CASE \/ ReceiverSendsMarker \/ ReceiverExpectsList \/ ReceiverReadsMarker \/ ReadList
            \/ DeleteExtra \/ MakeListedDir \/ Prepared \/ RequestFile \/ RequestsDone
            \/ ReceiveFile \/ ReceiveDone
  BY <1>10 DEF ReceiverSendsMarker, ReceiverExpectsList, ReceiverReadsMarker, ReadList,
       DeleteExtra, MakeListedDir, Prepared, RequestFile, RequestsDone, ReceiveFile,
       ReceiveDone, Closing
<1>11. CASE ReceiverDisconnected
  BY <1>2, <1>11 DEF ReceiverDisconnected
<1> QED
  BY <1>4, <1>6, <1>7, <1>8, <1>9, <1>10, <1>11 DEF ReceiverStep

\* An end that has failed does nothing any more.
LEMMA FailedStays ==
    ASSUME Next
    PROVE  /\ sPc = "failed" => sPc' = "failed"
           /\ rPc = "failed" => rPc' = "failed" /\ (fs' = fs \/ Edit)
<1>1. CASE SenderStep
  <2>1. sPc = "failed" => sPc' = "failed"
    BY <1>1 DEF SenderStep, SenderSendsMarker, SenderReadsMarker, Collect, ServeDone, ServeRequest,
         ReadGoodbye, SenderWrites, SenderDisconnected, Ended
  <2> QED
    BY <1>1, <2>1, SenderFrame
<1>2. CASE ReceiverStep \/ ReceiveFileFails
  <2>1. rPc = "failed" => rPc' = "failed" /\ fs' = fs
    BY <1>2 DEF ReceiverStep, ReceiverSendsMarker, ReceiverExpectsList, ReceiverReadsMarker,
         ReadList, DeleteExtra, MakeListedDir, Prepared, RequestFile, RequestsDone, ReceiveFile,
         ReceiveDone, ReadAck, ReadStats, ReadGoodbyeAck, ReceiverEnds, ReceiverWrites,
         ReceiverDisconnected, ReceiveFileFails, Ended
  <2> QED
    BY <1>2, <2>1, ReceiverFrame
<1>3. CASE Cut \/ SenderAborts \/ ReceiverAborts \/ Edit
  BY <1>3 DEF Cut, SenderAborts, ReceiverAborts, Edit, Ended, SenderFails, sender, receiver
<1> QED
  BY <1>1, <1>2, <1>3 DEF Next

\* The receiver comes to its first round by the first marker.
LEMMA RoundsBegin ==
    ASSUME Rounds, ReceiverStep, rRound = 0, rRound' # 0
    PROVE  ReceiveDone
<1>1. rPc # "ack"
  BY DEF Rounds
<1> QED
  BY <1>1 DEF ReceiverStep, ReceiverSendsMarker, ReceiverExpectsList, ReceiverReadsMarker,
       ReceiverFails, ReadList, DeleteExtra, MakeListedDir, Prepared, RequestFile, RequestsDone,
       ReceiveFile, ReadAck, ReadStats, ReadGoodbyeAck, ReceiverEnds, ReceiverWrites,
       ReceiverDisconnected

\* It comes to its work by the list.
LEMMA WorkBegins ==
    ASSUME ReceiverStep, Working', ~Working
    PROVE  ReadList /\ ~ReceiverFails
BY DEF ReceiverStep, ReceiverSendsMarker, ReceiverExpectsList, ReceiverReadsMarker,
       ReceiverFails, ReadList, DeleteExtra, MakeListedDir, Prepared, RequestFile, RequestsDone,
       ReceiveFile, ReceiveDone, AfterRound, ReadAck, ReadStats, ReadGoodbyeAck, ReceiverEnds,
       ReceiverWrites, ReceiverDisconnected, Working

\* Both ends stay in step.
LEMMA TalkingStep ==
    ASSUME DelInv, Talking, Next,
           \A j, k \in DOMAIN rEntries : rEntries[j].path = rEntries[k].path => j = k
    PROVE  Talking'
<1>1. SUFFICES ASSUME Healthy'
               PROVE  /\ rPc' \in {"marker", "list"} => Opening'
                      /\ Working' => Serving'
                      /\ rRound' # 0 => Closing'
  BY DEF Talking
<1>2. KeptInv /\ TypeOK /\ Truthful /\ Rounds
  BY DEF DelInv, KeptInv
<1>3. Healthy /\ sPc' # "failed" /\ rPc' # "failed" /\ ~cut /\ ~cut'
  BY <1>1, <1>2, FailedStays, SilenceKept DEF Healthy
<1>4. /\ rPc \in {"marker", "list"} => Opening
      /\ Working => Serving
      /\ rRound # 0 => Closing
  BY <1>3 DEF Talking
<1>5. CASE SenderStep
  <2>1. rPc' = rPc /\ rRound' = rRound
    BY <1>5, SenderFrame
  <2>2. rPc' \in {"marker", "list"} => Opening'
    BY <1>2, <1>3, <1>4, <1>5, <2>1, OpeningSender
  <2>3. Working' => Serving'
    BY <1>3, <1>4, <1>5, <2>1, ServingSender DEF Working
  <2>4. rRound' # 0 => Closing'
    BY <1>2, <1>3, <1>4, <1>5, <2>1, ClosingSender
  <2> QED
    BY <2>2, <2>3, <2>4
<1>6. CASE ReceiverStep
  <2>1. rPc' \in {"marker", "list"} => Opening'
    BY <1>2, <1>3, <1>4, <1>6, ListsMadeOnce, OpeningReceiver
  <2>2. ASSUME Working'
        PROVE  Serving'
    <3>1. CASE Working
      BY <1>3, <1>4, <1>6, <2>2, <3>1, ServingReceiver
    <3>2. CASE ~Working
      <4>1. ReadList /\ ~ReceiverFails
        BY <1>6, <2>2, <3>2, WorkBegins
      <4>2. Opening
        BY <1>4, <4>1 DEF ReadList
      <4> QED
        BY <1>2, <4>1, <4>2, ServingStarts
    <3> QED
      BY <3>1, <3>2
  <2>3. ASSUME rRound' # 0
        PROVE  Closing'
    <3>1. CASE rRound # 0
      BY <1>2, <1>3, <1>4, <1>6, <3>1, ClosingReceiver
    <3>2. CASE rRound = 0
      <4>1. ReceiveDone
        BY <1>2, <1>6, <2>3, <3>2, RoundsBegin
      <4>2. Working
        BY <4>1 DEF ReceiveDone, Working
      <4> QED
        BY <1>3, <1>4, <4>1, <4>2, ClosingStarts
    <3> QED
      BY <3>1, <3>2
  <2> QED
    BY <2>1, <2>2, <2>3
<1>7. CASE Edit
  <2>1. UNCHANGED <<job, toSender, toReceiver, cut, sender, receiver>> /\ edits' # 0
    BY <1>2, <1>7 DEF Edit, TypeOK
  <2>2. /\ UNCHANGED <<Up, Down, sPc, sMarks, sEntries, rPc, rOut, rEntries, rRound, plan, want, job>>
        /\ Working' = Working /\ Phases' = Phases /\ HasStats' = HasStats
    BY <2>1 DEF Up, Down, sender, receiver, Working, Phases, HasStats
  <2>3. Opening => Opening'
    BY <2>2 DEF Opening, ListSent
  <2>4. Serving => Serving'
    BY <2>1, <2>2 DEF Serving
  <2>5. Closing => Closing'
    BY <2>2 DEF Closing
  <2> QED
    BY <1>4, <2>2, <2>3, <2>4, <2>5
<1>8. CASE ReceiveFileFails \/ Cut \/ SenderAborts \/ ReceiverAborts
  BY <1>3, <1>8 DEF ReceiveFileFails, Cut, SenderAborts, ReceiverAborts, SenderFails, ReceiverFails
<1> QED
  BY <1>5, <1>6, <1>7, <1>8 DEF Next

\* What is peaceful after a step was so before, and one of the ends took it.
LEMMA PeaceBefore ==
    ASSUME KeptInv, Next, Peace'
    PROVE  /\ Peace /\ src' = src /\ job' = job
           /\ SenderStep \/ ReceiverStep
<1>1. TypeOK /\ Fresh /\ faults' = 0 /\ edits' = 0
  BY DEF KeptInv, Peace
<1>2. edits = 0 /\ src' = src
  BY <1>1, NobodyEdits
<1>3. job' = job
  BY ListsMadeOnce
<1>4. SameOrder
  BY <1>1, OrderKept DEF Peace
<1>5. faults \in Nat
  BY <1>1, SessionAssumption DEF TypeOK
<1>6. SenderStep \/ ReceiverStep
  BY <1>1, <1>2, <1>5 DEF Next, ReceiveFileFails, Cut, SenderAborts, ReceiverAborts, Edit
<1>7. faults = 0
  BY <1>1, <1>6, SenderFrame DEF ReceiverStep, ReceiverSendsMarker, ReceiverExpectsList,
       ReceiverReadsMarker, ReadList, DeleteExtra, MakeListedDir, Prepared, RequestFile,
       RequestsDone, ReceiveFile, ReceiveDone, ReadAck, ReadStats, ReadGoodbyeAck, ReceiverEnds,
       ReceiverWrites, ReceiverDisconnected, ReceiverStays, env
<1>8. /\ \A p \in Walked : src[p].kind \in {"dir", "file"}
      /\ \A p \in Offered : Acceptable({EntryOf(src, p)})
  BY <1>2, <1>3 DEF Peace, Walked, Offered, Acceptable
<1> QED
  BY <1>2, <1>3, <1>4, <1>6, <1>7, <1>8 DEF Peace

\* The entries of a peaceful session are those of the sender's tree.
LEMMA EntriesTrue ==
    ASSUME Truthful, edits = 0
    PROVE  /\ \A i \in DOMAIN rEntries : /\ rEntries[i].path \in Offered
                                         /\ rEntries[i] = EntryOf(src, rEntries[i].path)
           /\ \A i \in DOMAIN sEntries : sEntries[i] = EntryOf(src, sEntries[i].path)
BY DEF Truthful, TrueEntry

\* A list that fits leaves room for the directories above what it has.
LEMMA ParentsFit ==
    ASSUME TypeOK, WellFormed(src), Fits,
           \A q \in Above(Top) : fs[q].kind \in {"absent", "dir"},
           NEW p \in Offered
    PROVE  CanMakeParents(fs, p)
<1>1. SUFFICES ASSUME NEW q \in Above(p)
               PROVE  fs[q].kind \in {"absent", "dir"}
  BY DEF CanMakeParents
<1>2. q \in Path /\ p \in Under[q]
  BY DEF Above
<1>3. CASE p = Top
  BY <1>1, <1>3
<1>4. CASE p # Top
  <2>1. p \in Dest /\ p \in Path /\ Exists(src, p)
    BY <1>4, TreeAssumption DEF Offered, SourceEntries
  <2>2. p \in Under[Top] /\ Top \in Path /\ Under[Top] = Dest
    BY <2>1, SessionAssumption
  <2>3. q = Top \/ q \in Dest \/ Top \in Under[q]
    BY <1>2, <2>1, <2>2, TreeAssumption
  <2>4. src[q].kind = "dir"
    BY <1>1, <2>1 DEF WellFormed
  <2>5. CASE q = Top
    BY <2>4, <2>5 DEF Fits, Offered
  <2>6. CASE q \in Dest
    <3>1. ClosedList({EntryOf(src, r) : r \in Offered}) /\ \A r : EntryOf(src, r).path = r
      BY OfferClosed DEF EntryOf
    <3>2. q \in Offered
      BY <1>2, <2>6, <3>1 DEF ClosedList
    <3> QED
      BY <2>4, <3>2 DEF Fits
  <2>7. CASE Top \in Under[q]
    BY <1>2, <2>7 DEF Above
  <2> QED
    BY <2>3, <2>5, <2>6, <2>7
<1> QED
  BY <1>3, <1>4

\* In peace the sender has no reason to fail.
LEMMA SenderPeaceful ==
    ASSUME AgreeInv, Peace, Healthy, SenderStep
    PROVE  sPc' # "failed"
<1>1. SUFFICES ASSUME sPc' = "failed" PROVE FALSE
  OBVIOUS
<1>2. /\ DelInv /\ KeptInv /\ TypeOK /\ Truthful /\ Rounds
      /\ ~cut /\ sPc # "failed" /\ rPc # "failed"
      /\ rPc \in {"marker", "list"} => Opening
      /\ Working => Serving
      /\ rRound # 0 => Closing
  BY DEF AgreeInv, DelInv, KeptInv, Healthy, Talking
<1>3. \/ rPc \in {"marker", "list"} /\ Opening
      \/ Working /\ Serving
      \/ rRound # 0 /\ Closing
  <2>1. CASE rRound = 0
    <3>1. rPc \in {"marker", "list"} \/ Working
      BY <1>2, <2>1 DEF Rounds, Working
    <3> QED
      BY <1>2, <3>1
  <2>2. CASE rRound # 0
    BY <1>2, <2>2
  <2> QED
    BY <2>1, <2>2
<1>4. Up \in Seq(ToSenderMsg)
  BY <1>2, UpAndDown
<1>5. ASSUME SenderReadsMarker \/ ServeRequest \/ ReadGoodbye
      PROVE  Up # <<>> /\ Head(Up) = Head(toSender)
  <2>1. SenderTakes /\ rOut' = rOut /\ toReceiver' = toReceiver
    BY <1>5 DEF SenderReadsMarker, ServeRequest, ReadGoodbye, SenderStays, receiver
  <2> QED
    BY <1>2, <2>1, UpTaken
<1>6. CASE SenderReadsMarker
  <2>1. sPc = "marker" /\ job.pull /\ Head(toSender) # Marker
    BY <1>1, <1>6 DEF SenderReadsMarker, SenderTakes, SenderReading
  <2>2. Up = <<Marker>>
    BY <1>3, <1>5, <1>6, <2>1 DEF Opening, Serving, Closing
  <2>3. Head(<<Marker>>) = Marker
    BY ShortMessages, Short
  <2> QED
    BY <1>5, <1>6, <2>1, <2>2, <2>3
<1>7. CASE Collect
  BY <1>1, <1>7 DEF Collect, Peace
<1>8. CASE ServeRequest
  <2>1. sPc = "serve" /\ Head(Up) # Done
    BY <1>5, <1>8 DEF ServeRequest
  <2>2. Working /\ Serving
    <3>1. ~(rPc \in {"marker", "list"} /\ Opening)
      BY <1>5, <1>8, <2>1 DEF Opening
    <3>2. ~Closing
      BY <1>5, <1>8, <2>1, Parting DEF Closing
    <3> QED
      BY <1>3, <3>1, <3>2
  <2>3. PICK m : m = Head(toSender) /\ m = Head(Up) /\ m # Done
    BY <1>5, <1>8, <2>1
  <2>4. m \in Messages(Up)
    BY <1>4, <1>5, <1>8, <2>3, HeadGone
  <2>5. m.type = "request" /\ Indexed(m)
    BY <2>2, <2>3, <2>4 DEF Serving, Indexed
  <2>6. m.index \in want
    <3>1. m.index \in Indexes(Up)
      BY <2>4, <2>5 DEF Indexes
    <3> QED
      BY <2>2, <3>1 DEF Serving
  <2>7. m.index \in DOMAIN rEntries /\ m.index \in DOMAIN sEntries
    BY <1>2, <2>2, <2>6 DEF TypeOK, Serving
  <2>8. PICK i : i = m.index
    OBVIOUS
  <2>9. rEntries[i].kind = "file" /\ sEntries[i].path = rEntries[i].path
    BY <1>2, <2>6, <2>7, <2>8 DEF Truthful, Peace, SameOrder
  <2>10. sEntries[i] = EntryOf(src, sEntries[i].path) /\ rEntries[i] = EntryOf(src, rEntries[i].path)
    BY <1>2, <2>7, <2>8, EntriesTrue DEF Peace
  <2>11. sEntries[i].kind = "file" /\ src[sEntries[i].path].kind = "file"
    BY <2>9, <2>10 DEF EntryOf
  <2> QED
    BY <1>1, <1>2, <1>8, <2>3, <2>5, <2>7, <2>8, <2>11 DEF ServeRequest
<1>9. CASE ReadGoodbye
  <2>1. sPc \in {"goodbye", "adieu"} /\ Head(Up) # Done
    BY <1>1, <1>5, <1>9 DEF ReadGoodbye
  <2>2. Closing
    BY <1>3, <2>1 DEF Opening, Serving
  <2>3. Up = <<Done>>
    BY <1>5, <1>9, <2>1, <2>2 DEF Closing
  <2> QED
    BY <2>1, <2>3, Parting
<1>10. CASE SenderDisconnected
  <2>1. /\ rPc = "done" /\ sPc # "done"
        /\ sOut # <<>> \/ toSender = <<>>
    BY <1>2, <1>10 DEF SenderDisconnected, Ended
  <2>2. Closing
    BY <1>3, <2>1 DEF Working
  <2>3. Down = <<>> /\ rOut = <<>> /\ Up # <<>>
    BY <2>1, <2>2 DEF Closing
  <2>4. sOut = <<>> /\ Up = toSender
    BY <1>2, <2>3, UpAndDown
  <2> QED
    BY <2>1, <2>3, <2>4
<1>11. CASE SenderSendsMarker \/ ServeDone \/ SenderWrites
  BY <1>1, <1>2, <1>11 DEF SenderSendsMarker, ServeDone, SenderWrites
<1> QED
  BY <1>6, <1>7, <1>8, <1>9, <1>10, <1>11 DEF SenderStep

\* In peace an answer fits when the list does.
LEMMA AnswerFits ==
    ASSUME AgreeInv, Peace, Fits, Working, Serving, ReceiveFile
    PROVE  ~ReceiverFails
<1>1. DelInv /\ TypeOK /\ Truthful /\ WellFormed(src) /\ edits = 0
  BY DEF AgreeInv, DelInv, KeptInv, Peace
<1>2. ReceiverTakes /\ sOut' = sOut /\ toSender' = toSender /\ rPc = "receive"
  BY DEF ReceiveFile, ReceiverStays, sender
<1>3. Down # <<>> /\ Head(Down) = Head(toReceiver)
  BY <1>1, <1>2, DownTaken
<1>4. PICK m : m = Head(toReceiver) /\ m = Head(Down) /\ m # Done
  BY <1>3 DEF ReceiveFile
<1>5. Down \in Seq(ToReceiverMsg)
  BY <1>1, UpAndDown
<1>6. m \in Messages(Down)
  BY <1>3, <1>4, <1>5, HeadGone
<1>7. m.type = "file" /\ Indexed(m) /\ BasisKept(m)
  <2>1. m.type = "file"
    BY <1>4, <1>6 DEF Serving
  <2>2. Indexed(m)
    BY <2>1 DEF Indexed
  <2> QED
    BY <1>1, <1>6, <2>1, <2>2 DEF Serving
<1>8. m.index \in want
  <2>1. m.index \in Indexes(Down)
    BY <1>6, <1>7 DEF Indexes
  <2> QED
    BY <2>1 DEF Serving
<1>9. PICK i : i = m.index
  OBVIOUS
<1>10. i \in DOMAIN rEntries /\ i \in DOMAIN sEntries
  BY <1>1, <1>8, <1>9 DEF TypeOK, Serving
<1>11. PICK e : e = rEntries[i]
  OBVIOUS
<1>12. e.kind = "file" /\ e.path \in Offered /\ e = EntryOf(src, e.path)
  BY <1>1, <1>8, <1>9, <1>10, <1>11, EntriesTrue DEF Truthful
<1>13. src[e.path].kind = "file" /\ e.data = src[e.path].data
  BY <1>12 DEF EntryOf
<1>14. CanPut(fs, e.path)
  <2>1. fs[e.path].kind # "dir"
    BY <1>12, <1>13 DEF Fits
  <2>2. \A q \in Above(Top) : fs[q].kind \in {"absent", "dir"}
    BY DEF AgreeInv, NoAlarm
  <2>3. CanMakeParents(fs, e.path)
    BY <1>1, <1>12, <2>2, ParentsFit
  <2> QED
    BY <2>1, <2>3 DEF CanPut
<1>15. ~job.dryRun => Rebuilds(m, e, fs[e.path])
  <2>1. SUFFICES ASSUME ~job.dryRun PROVE Rebuilds(m, e, fs[e.path])
    OBVIOUS
  <2>2. m \in TrueMsg
    BY <1>2, <1>4, SeqParts, <1>1 DEF ReceiverTakes, Truthful
  <2>3. m.data = src[sEntries[i].path].data
    BY <1>1, <1>7, <1>9, <2>1, <2>2 DEF TrueMsg
  <2>4. sEntries[i].path = e.path
    BY <1>10, <1>11 DEF Peace, SameOrder
  <2>5. m.data = e.data
    BY <1>13, <2>3, <2>4
  <2>6. /\ m.basis.kind = "file" => fs[e.path] = m.basis
        /\ m.copies => m.basis.kind = "file"
    BY <1>7, <1>9, <1>11 DEF BasisKept
  <2> QED
    BY <2>5, <2>6 DEF Rebuilds
<1>16. rPc' = rPc
  BY <1>4, <1>7, <1>9, <1>10, <1>11, <1>12, <1>14, <1>15 DEF ReceiveFile
<1> QED
  BY <1>2, <1>16 DEF ReceiverFails

\* In peace the receiver fails only over a list that does not fit.
LEMMA ReceiverPeaceful ==
    ASSUME AgreeInv, Peace, Healthy, ReceiverStep, rPc' = "failed"
    PROVE  ~Fits /\ fs' = fs
<1>1. /\ DelInv /\ KeptInv /\ TypeOK /\ Truthful /\ Rounds /\ WellFormed(src) /\ edits = 0
      /\ ~cut /\ sPc # "failed" /\ rPc # "failed"
      /\ rPc \in {"marker", "list"} => Opening
      /\ Working => Serving
      /\ rRound # 0 => Closing
  BY DEF AgreeInv, DelInv, KeptInv, Healthy, Talking, Peace
<1>2. Down \in Seq(ToReceiverMsg)
  BY <1>1, UpAndDown
<1>3. ASSUME ReceiverReadsMarker \/ ReadList \/ ReadAck \/ ReadStats \/ ReadGoodbyeAck
      PROVE  Down # <<>> /\ Head(Down) = Head(toReceiver) /\ ReceiverTakes
  <2>1. ReceiverTakes /\ sOut' = sOut /\ toSender' = toSender
    BY <1>3 DEF ReceiverReadsMarker, ReadList, ReadAck, ReadStats, ReadGoodbyeAck, ReceiverStays, sender
  <2> QED
    BY <1>1, <2>1, DownTaken
<1>4. CASE ReceiverReadsMarker
  <2>1. rPc = "marker" /\ job.delete /\ ~job.pull /\ Head(Down) # Marker
    BY <1>3, <1>4 DEF ReceiverReadsMarker, ReceiverTakes, ReceiverReading
  <2>2. Down = <<Marker>> \/ Down[1] = Marker
    BY <1>1, <1>3, <1>4, <2>1 DEF Opening
  <2>3. Head(<<Marker>>) = Marker
    BY ShortMessages, Short
  <2>4. Head(Down) = Down[1]
    BY <1>2, <1>3, <1>4, SeqParts
  <2> QED
    BY <2>1, <2>2, <2>3, <2>4
<1>5. CASE ReadList
  <2>1. rPc = "list" /\ Opening
    BY <1>1, <1>5 DEF ReadList
  <2>2. PICK m : m = Head(toReceiver) /\ m.type = "list"
    BY <1>1, <1>3, <1>5, <2>1, ListAwaits DEF ListSent
  <2>3. m \in TrueMsg
    BY <1>1, <1>3, <1>5, <2>2, SeqParts DEF ReceiverTakes, Truthful
  <2>4. \A e \in m.entries : e.path \in Offered /\ e = EntryOf(src, e.path)
    BY <1>1, <2>2, <2>3 DEF TrueMsg, TrueEntry
  <2>5. \A e \in m.entries : Acceptable({e})
    BY <2>4 DEF Peace
  <2>6. Acceptable(m.entries)
    BY <2>5 DEF Acceptable
  <2> QED
    BY <1>5, <2>2, <2>6 DEF ReadList
<1>6. CASE MakeListedDir
  <2>1. PICK i \in plan.dirs :
          /\ ~CanMakeDir(fs, rEntries[i].path)
          /\ fs' = fs
    BY <1>1, <1>6 DEF MakeListedDir
  <2>2. i \in DOMAIN rEntries /\ rEntries[i].kind = "dir"
    BY <1>1 DEF TypeOK, AgreeInv, NoAlarm
  <2>3. PICK p : p = rEntries[i].path /\ p \in Offered /\ rEntries[i] = EntryOf(src, p)
    BY <1>1, <2>2, EntriesTrue
  <2>4. src[p].kind = "dir"
    BY <2>2, <2>3 DEF EntryOf
  <2>5. ASSUME Fits
        PROVE  CanMakeDir(fs, p)
    <3>1. \A q \in Above(Top) : fs[q].kind \in {"absent", "dir"}
      BY DEF AgreeInv, NoAlarm
    <3>2. CanMakeParents(fs, p)
      BY <1>1, <2>3, <2>5, <3>1, ParentsFit
    <3> QED
      BY <2>3, <2>4, <2>5, <3>2 DEF CanMakeDir, Fits
  <2> QED
    BY <2>1, <2>3, <2>5
<1>7. CASE ReceiveFile
  <2>1. Working /\ Serving
    BY <1>1, <1>7 DEF ReceiveFile, Working
  <2>2. ReceiverFails /\ fs' = fs
    BY <1>1, <1>7 DEF ReceiveFile
  <2> QED
    BY <1>7, <2>1, <2>2, AnswerFits
<1>8. CASE ReadAck \/ ReadStats \/ ReadGoodbyeAck
  <2>1. \/ rPc = "ack" /\ Head(Down) # Done
        \/ rPc = "stats" /\ Head(Down) # Stats
        \/ rPc = "bye" /\ Head(Down) # Done
    BY <1>3, <1>8 DEF ReadAck, ReadStats, ReadGoodbyeAck, AfterRound
  <2>2. Closing /\ Down # <<>>
    BY <1>1, <1>3, <1>8, <2>1 DEF Rounds
  <2> QED
    BY <2>1, <2>2, Parting DEF Closing
<1>9. CASE ReceiverDisconnected
  <2>1. /\ sPc = "done" /\ rPc # "done"
        /\ rOut # <<>> \/ rPc # "last"
    BY <1>1, <1>9 DEF ReceiverDisconnected, Ended, ReceiverReading
  <2>2. Closing
    BY <1>1, <2>1 DEF Rounds
  <2>3. rPc = "last" /\ Up = <<>>
    BY <2>1, <2>2 DEF Closing
  <2> QED
    BY <1>1, <2>1, <2>3, UpAndDown
<1>10. CASE \/ ReceiverSendsMarker \/ ReceiverExpectsList \/ DeleteExtra \/ Prepared \/ RequestFile
            \/ RequestsDone \/ ReceiveDone \/ ReceiverEnds \/ ReceiverWrites
  BY <1>1, <1>10 DEF ReceiverSendsMarker, ReceiverExpectsList, DeleteExtra, Prepared, RequestFile,
       RequestsDone, ReceiveDone, AfterRound, ReceiverEnds, ReceiverWrites
<1> QED
  BY <1>4, <1>5, <1>6, <1>7, <1>8, <1>9, <1>10 DEF ReceiverStep

\* A cut is a fault, and an end that is through has said everything.
LEMMA QuietEnds ==
    ASSUME TypeOK, Next,
           cut => faults # 0, sPc = "done" => sOut = <<>>, rPc = "done" => rOut = <<>>
    PROVE  /\ cut' => faults' # 0
           /\ sPc' = "done" => sOut' = <<>>
           /\ rPc' = "done" => rOut' = <<>>
<1>1. faults \in Nat
  BY SessionAssumption DEF TypeOK
<1>2. CASE SenderStep
  <2>1. UNCHANGED <<cut, faults, rPc, rOut>>
    BY <1>2, SenderFrame
  <2>2. sPc' = "done" => sOut' = <<>>
    <3>1. CASE SenderWrites
      BY <3>1 DEF SenderWrites
    <3>2. CASE ReadGoodbye
      BY <3>2 DEF ReadGoodbye, SenderFails
    <3>3. CASE ServeDone
      BY <3>3 DEF ServeDone
    <3>4. CASE SenderSendsMarker \/ SenderReadsMarker \/ Collect \/ ServeRequest \/ SenderDisconnected
      BY <3>4 DEF SenderSendsMarker, SenderReadsMarker, Collect, ServeRequest, SenderDisconnected,
           SenderFails
    <3> QED
      BY <1>2, <3>1, <3>2, <3>3, <3>4 DEF SenderStep
  <2> QED
    BY <2>1, <2>2
<1>3. CASE ReceiverStep
  <2>1. UNCHANGED <<cut, sPc, sOut>>
    BY <1>3, ReceiverFrame
  <2>2. faults' = faults
    BY <1>3 DEF ReceiverStep, ReceiverSendsMarker, ReceiverExpectsList,
       ReceiverReadsMarker, ReadList, DeleteExtra, MakeListedDir, Prepared, RequestFile,
       RequestsDone, ReceiveFile, ReceiveDone, ReadAck, ReadStats, ReadGoodbyeAck, ReceiverEnds,
       ReceiverWrites, ReceiverDisconnected, ReceiverStays, env
  <2>3. rPc' = "done" => rOut' = <<>>
    BY <1>3 DEF ReceiverStep, ReceiverSendsMarker, ReceiverExpectsList, ReceiverFails,
       ReceiverReadsMarker, ReadList, DeleteExtra, MakeListedDir, Prepared, RequestFile,
       RequestsDone, ReceiveFile, ReceiveDone, AfterRound, ReadAck, ReadStats, ReadGoodbyeAck,
       ReceiverEnds, ReceiverWrites, ReceiverDisconnected
  <2> QED
    BY <2>1, <2>2, <2>3
<1>4. CASE ReceiveFileFails \/ Cut \/ SenderAborts \/ ReceiverAborts
  <2>1. faults' # 0
    BY <1>1, <1>4 DEF ReceiveFileFails, Cut, SenderAborts, ReceiverAborts
  <2>2. (sPc' = "done" => sOut' = <<>>) /\ (rPc' = "done" => rOut' = <<>>)
    BY <1>4 DEF ReceiveFileFails, Cut, SenderAborts, ReceiverAborts, SenderFails, ReceiverFails,
       sender, receiver
  <2> QED
    BY <2>1, <2>2
<1>5. CASE Edit
  BY <1>5 DEF Edit, sender, receiver
<1> QED
  BY <1>2, <1>3, <1>4, <1>5 DEF Next

\* Nothing is put in the way above the destination.
LEMMA WayFree ==
    ASSUME KeptInv, Truthful, Next, NEW q \in Above(Top), fs[q].kind \in {"absent", "dir"}
    PROVE  fs'[q].kind \in {"absent", "dir"}
<1>1. fs \in [Path -> Node] /\ q \in Path /\ Top \in Under[q] /\ Top \in Path /\ Dest \subseteq Path
  BY TopOutside, JobFacts DEF KeptInv, TypeOK, Tree, Above
<1>2. q # Top /\ q \notin Dest
  BY <1>1, TopOutside, AboveFacts
<1>3. \A i \in DOMAIN rEntries : rEntries[i].path \in Path /\ rEntries[i].path # q
  BY <1>1, <1>2 DEF Truthful, TrueEntry
<1>4. ASSUME NEW p \in Path, p # q, NEW n
      PROVE  Put(fs, p, n)[q].kind \in {"absent", "dir"} /\ MakeDir(fs, p)[q].kind \in {"absent", "dir"}
  <2>1. MakeParents(fs, p) \in [Path -> Node] /\ MakeParents(fs, p)[q].kind \in {"absent", "dir"}
    BY <1>1, NodeFacts DEF MakeParents, Dir
  <2> QED
    BY <1>1, <1>4, <2>1 DEF Put, MakeDir
<1>5. CASE fs' = fs
  BY <1>5
<1>6. CASE fs' = MakeDir(fs, Top)
  BY <1>1, <1>2, <1>4, <1>6
<1>7. CASE \E p \in plan.extras : fs' = RemoveTree(fs, p)
  BY <1>1, <1>7 DEF RemoveTree, Absent
<1>8. ASSUME NEW i \in DOMAIN rEntries,
             \/ fs' = MakeDir(fs, rEntries[i].path)
             \/ \E d, t : fs' = Put(fs, rEntries[i].path, File(d, t))
      PROVE  fs'[q].kind \in {"absent", "dir"}
  <2>1. PICK p \in Path : p = rEntries[i].path /\ p # q
    BY <1>3
  <2>2. CASE fs' = MakeDir(fs, p)
    BY <1>4, <2>1, <2>2
  <2>3. CASE \E d, t : fs' = Put(fs, p, File(d, t))
    BY <1>4, <2>1, <2>3
  <2> QED
    BY <1>8, <2>1, <2>2, <2>3
<1>9. CASE \E p \in Dest : \E d, t : fs' = [fs EXCEPT ![p] = File(d, t)]
  BY <1>1, <1>2, <1>9
<1> QED
  BY <1>5, <1>6, <1>7, <1>8, <1>9, TreeSteps

\* The receiver's list stays as it was read.
LEMMA NamesKept ==
    ASSUME KeptInv, Truthful, Next,
           \A i \in plan.dirs : rEntries[i].kind = "dir",
           \A i, k \in DOMAIN rEntries : rEntries[i].path = rEntries[k].path => i = k
    PROVE  /\ \A i \in plan'.dirs : rEntries'[i].kind = "dir"
           /\ \A i, k \in DOMAIN rEntries' : rEntries'[i].path = rEntries'[k].path => i = k
<1>1. CASE ReadList /\ ~ReceiverFails
  BY <1>1, ListSettled DEF KeptInv
<1>2. CASE ~(ReadList /\ ~ReceiverFails)
  <2>1. rEntries' = rEntries
    BY <1>2, WantSettled
  <2>2. plan'.dirs \subseteq plan.dirs
    <3>1. plan \in [extras : SUBSET Dest, dirs : SUBSET Nat, ask : SUBSET Nat]
      BY DEF KeptInv, TypeOK
    <3>2. CASE plan' = plan
      BY <3>2
    <3>3. CASE DeleteExtra \/ RequestFile
      BY <3>1, <3>3 DEF DeleteExtra, RequestFile
    <3>4. CASE MakeListedDir
      BY <3>1, <3>4 DEF MakeListedDir, ReceiverFails
    <3>5. CASE ReadList
      BY <1>2, <3>5 DEF ReceiverFails
    <3>6. plan' = plan \/ DeleteExtra \/ RequestFile \/ MakeListedDir \/ ReadList
      BY SenderFrame DEF Next, ReceiverStep, ReceiverSendsMarker, ReceiverExpectsList, ReceiverFails,
         ReceiverReadsMarker, Prepared, RequestsDone, ReceiveFile, ReceiveDone, ReadAck, ReadStats,
         ReadGoodbyeAck, ReceiverEnds, ReceiverWrites, ReceiverDisconnected, ReceiveFileFails, Cut,
         SenderAborts, ReceiverAborts, Edit, receiver
    <3> QED
      BY <3>2, <3>3, <3>4, <3>5, <3>6
  <2> QED
    BY <2>1, <2>2
<1> QED
  BY <1>1, <1>2

\* In peace a failure is the receiver's, over a list that does not fit.
LEMMA PeaceStep ==
    ASSUME AgreeInv, Next, Peace'
    PROVE  /\ sPc' = "failed" => rPc' = "failed"
           /\ rPc' = "failed" => ~Fits'
<1>1. KeptInv /\ TypeOK /\ NoAlarm
  BY DEF AgreeInv, DelInv, KeptInv
<1>2. Peace /\ src' = src /\ job' = job /\ (SenderStep \/ ReceiverStep)
  BY <1>1, PeaceBefore
<1>3. /\ sPc = "failed" => rPc = "failed"
      /\ rPc = "failed" => ~Fits
      /\ ~cut
  BY <1>1, <1>2 DEF NoAlarm, Peace
<1>4. fs' = fs /\ ~Fits => ~Fits'
  BY <1>2 DEF Fits, Offered
<1>5. CASE rPc = "failed"
  <2>1. rPc' = "failed" /\ (fs' = fs \/ Edit)
    BY <1>5, FailedStays
  <2>2. ~Edit
    <3>1. edits' = 0 /\ edits \in Nat
      BY <1>1, SessionAssumption DEF Peace, TypeOK
    <3> QED
      BY <3>1 DEF Edit
  <2> QED
    BY <1>3, <1>4, <1>5, <2>1, <2>2
<1>6. CASE rPc # "failed"
  <2>1. Healthy
    BY <1>3, <1>6 DEF Healthy
  <2>2. CASE SenderStep
    BY <1>2, <1>6, <2>1, <2>2, SenderPeaceful, SenderFrame
  <2>3. CASE ReceiverStep
    <3>1. sPc' # "failed"
      BY <2>1, <2>3, ReceiverFrame DEF Healthy
    <3> QED
      BY <1>2, <1>4, <2>1, <2>3, <3>1, ReceiverPeaceful
  <2> QED
    BY <1>2, <2>2, <2>3
<1> QED
  BY <1>5, <1>6

\* Every step keeps the invariant.
LEMMA AgreeStep ==
    ASSUME AgreeInv, [Next]_vars
    PROVE  AgreeInv'
<1>1. DelInv /\ KeptInv /\ TypeOK /\ Truthful /\ Talking /\ NoAlarm
  BY DEF AgreeInv, DelInv, KeptInv
<1>2. DelInv'
  BY <1>1, DelStep
<1>3. CASE Next
  <2>1. Talking'
    BY <1>1, <1>3, TalkingStep DEF NoAlarm
  <2>2. NoAlarm'
    <3>1. /\ cut' => faults' # 0
          /\ sPc' = "done" => sOut' = <<>>
          /\ rPc' = "done" => rOut' = <<>>
      BY <1>1, <1>3, QuietEnds DEF NoAlarm
    <3>2. /\ \A i \in plan'.dirs : rEntries'[i].kind = "dir"
          /\ \A i, k \in DOMAIN rEntries' : rEntries'[i].path = rEntries'[k].path => i = k
      BY <1>1, <1>3, NamesKept DEF NoAlarm
    <3>3. \A q \in Above(Top) : fs'[q].kind \in {"absent", "dir"}
      BY <1>1, <1>3, WayFree DEF NoAlarm
    <3>4. Peace' => (sPc' = "failed" => rPc' = "failed") /\ (rPc' = "failed" => ~Fits')
      BY <1>3, PeaceStep
    <3> QED
      BY <3>1, <3>2, <3>3, <3>4 DEF NoAlarm
  <2> QED
    BY <1>2, <2>1, <2>2 DEF AgreeInv
<1>4. CASE UNCHANGED vars
  <2>1. UNCHANGED <<job, src, fs, toSender, toReceiver, cut, sPc, sOut, sEntries, sMarks, rPc, rOut,
                    rEntries, rRound, plan, want, faults, edits>>
    BY <1>4 DEF vars, sender, receiver, env
  <2>2. Talking'
    BY <1>1, <2>1 DEF Talking, Healthy, Opening, Serving, Closing, Working, Up, Down, ListSent,
         BasisKept, Phases, HasStats
  <2>3. NoAlarm'
    BY <1>1, <2>1 DEF NoAlarm, Peace, Fits, SameOrder, Walked, Offered, Acceptable
  <2> QED
    BY <1>2, <2>2, <2>3 DEF AgreeInv
<1> QED
  BY <1>3, <1>4

\* It holds at the start.
LEMMA AgreeStart == Init => AgreeInv
<1> SUFFICES ASSUME Init PROVE AgreeInv
  OBVIOUS
<1>1. DelInv
  BY DelStart
<1>2. Up = <<>> /\ Down = <<>>
  BY Parting DEF Init, Up, Down
<1>3. Talking
  BY <1>2 DEF Init, Talking, Opening, Working
<1>4. NoAlarm
  <2>1. \A q \in Above(Top) : fs[q].kind \in {"absent", "dir"}
    BY SessionAssumption DEF Init
  <2> QED
    BY <2>1 DEF Init, NoAlarm
<1> QED
  BY <1>1, <1>3, <1>4 DEF AgreeInv

\* Both ends count markers, statistics and goodbyes alike (phase_markers,
\* InvalidPhaseAck, InvalidFinalAck), whatever the list and the streams: a
\* session that nothing disturbs and whose list is acceptable and fits fails
\* at neither end, and when both are through the streams are empty.
THEOREM MarkersCount == Spec => []MarkersAgree
<1>1. AgreeInv => MarkersAgree
  <2>1. AgreeInv => NoFalseAlarm
    BY DEF AgreeInv, NoAlarm, NoFalseAlarm, Peace, Fits
  <2>2. ASSUME AgreeInv, sPc = "done", rPc = "done"
        PROVE  toSender = <<>> /\ toReceiver = <<>> /\ sOut = <<>> /\ rOut = <<>>
    <3>1. /\ DelInv /\ TypeOK /\ Talking /\ Rounds
          /\ sOut = <<>> /\ rOut = <<>>
      BY <2>2 DEF AgreeInv, DelInv, KeptInv, NoAlarm
    <3>2. CASE cut
      BY <3>1, <3>2 DEF Rounds
    <3>3. CASE ~cut
      <4>1. rRound # 0 /\ Healthy
        BY <2>2, <3>1, <3>3 DEF Rounds, Healthy
      <4>2. Up = <<>> /\ Down = <<>>
        BY <2>2, <3>1, <4>1 DEF Talking, Closing
      <4> QED
        BY <3>1, <4>2, UpAndDown
    <3> QED
      BY <3>1, <3>2, <3>3
  <2> QED
    BY <2>1, <2>2 DEF MarkersAgree, NothingLeftOver
<1>2. AgreeInv /\ [Next]_vars => AgreeInv'
  BY AgreeStep
<1> QED
  BY <1>1, <1>2, AgreeStart, PTL DEF Spec

-----------------------------------------------------------------------------
(* The same order                                                          *)

\* The sender's list is S in order.
Served(S) ==
    /\ sEntries # <<>>
    /\ S \subseteq Entry /\ IsFiniteSet(S) /\ OnePerPath(S)
    /\ sEntries \in SenderOrders(S)

\* The list that travels is the one that the sender serves.
ServedMsg == {m \in ToReceiverMsg : m.type = "list" => Served(m.entries)}

\* The inductive invariant.
OrderInv ==
    /\ RightInv
    /\ toReceiver \in Seq(ServedMsg) /\ sOut \in Seq(ServedMsg)
    /\ rEntries # <<>> => \E S : Served(S) /\ rEntries \in ReceiverOrders(S)

\* A list that is served stays so.
LEMMA ServedStays ==
    ASSUME Fresh, Next
    PROVE  /\ \A S : Served(S) => Served(S)' /\ ReceiverOrders(S)' = ReceiverOrders(S)
           /\ ServedMsg \subseteq ServedMsg'
<1>1. job' = job /\ (sEntries' = sEntries \/ sEntries = <<>>)
  BY ListsMadeOnce DEF Fresh
<1>2. ASSUME NEW S, Served(S)
      PROVE  Served(S)' /\ ReceiverOrders(S)' = ReceiverOrders(S)
  BY <1>1, <1>2 DEF Served, SenderOrders, ReceiverOrders, Unsorted
<1>3. ASSUME NEW m \in ServedMsg
      PROVE  m \in ServedMsg'
  BY <1>2 DEF ServedMsg
<1> QED
  BY <1>2, <1>3

\* What Collect sends is what it serves.
LEMMA CollectServes ==
    ASSUME TypeOK, TypeOK', Collect, ~SenderFails
    PROVE  sOut' \in Seq(ServedMsg')
<1>1. PICK S, m : /\ S = {EntryOf(src, p) : p \in Offered} /\ m = [type |-> "list", entries |-> S]
                  /\ sOut' = <<m>> /\ sEntries' \in SenderOrders(S) /\ job' = job
  BY DEF Collect, SenderStays
<1>2. Top \in Offered
  BY DEF Offered
<1>3. \A p : EntryOf(src, p).path = p
  BY DEF EntryOf
<1>4. S # {} /\ m.entries = S /\ m.type = "list"
  BY <1>1, <1>2
<1>5. OnePerPath(S)
  BY <1>1, <1>3 DEF OnePerPath
<1>6. m \in ToReceiverMsg
  <2>1. sOut' \in Seq(ToReceiverMsg)
    BY DEF TypeOK
  <2>2. sOut' = <<m>>
    BY <1>1
  <2> QED
    BY <2>1, <2>2
<1>7. m \in ListMsg
  BY <1>4, <1>6, MessageKinds
<1>8. S \subseteq Entry /\ IsFiniteSet(S)
  BY <1>4, <1>7 DEF ListMsg
<1>9. sEntries' # <<>>
  <2>1. sEntries' \in [1 .. Cardinality(S) -> S]
    BY <1>1 DEF SenderOrders, InCollectedOrder, InIndexOrder, Sorted
  <2>2. Cardinality(S) \in Nat /\ Cardinality(S) # 0
    BY <1>4, <1>8, FS_CardinalityType, FS_EmptySet
  <2>3. 1 \in DOMAIN sEntries'
    BY <2>1, <2>2
  <2> QED
    BY <2>3
<1>10. Served(S)'
  BY <1>1, <1>5, <1>8, <1>9 DEF Served, SenderOrders, Unsorted
<1>11. m \in ServedMsg'
  BY <1>4, <1>6, <1>10 DEF ServedMsg
<1> QED
  BY <1>1, <1>11

\* The streams keep to the list that is served.
LEMMA StreamsServed ==
    ASSUME OrderInv, Next, TypeOK'
    PROVE  toReceiver' \in Seq(ServedMsg') /\ sOut' \in Seq(ServedMsg')
<1>1. toReceiver \in Seq(ServedMsg) /\ sOut \in Seq(ServedMsg) /\ TypeOK /\ Fresh
  BY DEF OrderInv, RightInv
<1>2. ServedMsg \subseteq ServedMsg'
  BY <1>1, ServedStays
<1>3. toReceiver \in Seq(ServedMsg') /\ sOut \in Seq(ServedMsg')
  BY <1>1, <1>2
<1> HIDE DEF ServedMsg
<1>4. toReceiver' \in Seq(ServedMsg')
  <2>1. CASE ReceiverTakes
    BY <1>3, <2>1, SeqParts DEF ReceiverTakes
  <2>2. CASE SenderWrites
    <3>1. Head(sOut) \in ServedMsg'
      BY <1>3, <2>2, SeqParts DEF SenderWrites
    <3> QED
      BY <1>3, <2>2, <3>1 DEF SenderWrites
  <2>3. CASE toReceiver' = toReceiver \/ toReceiver' = <<>>
    BY <1>3, <2>3, EmptySeq
  <2> QED
    BY <2>1, <2>2, <2>3, StreamSteps
<1>5. CASE sOut' = sOut \/ sOut' = <<>>
  BY <1>3, <1>4, <1>5, EmptySeq
<1>6. CASE SenderWrites
  BY <1>3, <1>4, <1>6, SeqParts DEF SenderWrites
<1>7. CASE Collect /\ ~SenderFails
  BY <1>1, <1>4, <1>7, CollectServes
<1>8. CASE \A i \in DOMAIN sOut' : sOut'[i].type # "list"
  <2>1. sOut' \in Seq(ToReceiverMsg)
    BY DEF TypeOK
  <2>2. \A i \in DOMAIN sOut' : sOut'[i] \in ServedMsg'
    BY <1>8, <2>1 DEF ServedMsg
  <2> QED
    BY <1>4, <2>1, <2>2
<1> QED
  BY <1>5, <1>6, <1>7, <1>8, OutSteps

\* The receiver orders the list that the sender serves.
LEMMA OrderStep ==
    ASSUME OrderInv, [Next]_vars
    PROVE  OrderInv'
<1>1. RightInv' /\ TypeOK'
  BY RightStep DEF OrderInv, RightInv
<1>2. CASE Next
  <2>1. toReceiver' \in Seq(ServedMsg') /\ sOut' \in Seq(ServedMsg')
    BY <1>1, <1>2, StreamsServed
  <2>2. \A S : Served(S) => Served(S)' /\ ReceiverOrders(S)' = ReceiverOrders(S)
    BY <1>2, ServedStays DEF OrderInv, RightInv
  <2>3. CASE rEntries' = rEntries
    BY <1>1, <2>1, <2>2, <2>3 DEF OrderInv
  <2>4. CASE ReadList /\ ~ReceiverFails
    <3> DEFINE m == Head(toReceiver)
    <3>1. m.type = "list" /\ rEntries' \in ReceiverOrders(m.entries) /\ toReceiver # <<>>
      BY <2>4 DEF ReadList, ReceiverTakes
    <3>2. m \in ServedMsg
      BY <3>1, SeqParts DEF OrderInv
    <3>3. Served(m.entries)
      BY <3>1, <3>2 DEF ServedMsg
    <3> QED
      BY <1>1, <2>1, <2>2, <3>1, <3>3 DEF OrderInv
  <2>5. rEntries' = rEntries \/ (ReadList /\ ~ReceiverFails)
    <3>1. rEntries' = rEntries \/ (rPc = "list" /\ rPc' = "prepare")
      BY <1>2, ListsMadeOnce
    <3> QED
      BY <1>2, <3>1, ExtrasShrink DEF OrderInv, RightInv
  <2> QED
    BY <2>3, <2>4, <2>5
<1>3. CASE UNCHANGED vars
  <2>1. UNCHANGED <<job, sEntries, rEntries, toReceiver, sOut>>
    BY <1>3 DEF vars, sender, receiver
  <2>2. ServedMsg' = ServedMsg /\ \A S : Served(S)' = Served(S) /\ ReceiverOrders(S)' = ReceiverOrders(S)
    BY <2>1 DEF ServedMsg, Served, SenderOrders, ReceiverOrders, Unsorted
  <2> QED
    BY <1>1, <2>1, <2>2 DEF OrderInv
<1> QED
  BY <1>2, <1>3

\* Whatever the tree and the list, and whatever happens on the way, over a remote
\* shell both ends put the same file at the same position, so that no file of
\* the receiver ever has another file's content: each sorts by itself, and there
\* is one way to (remote_sender_entry_cmp,
\* sort_remote_source_entries_for_sender_indexes).
THEOREM SortsAlike == Spec => []PositionsRight
<1>1. Init => OrderInv
  BY RightStart, EmptySeq DEF Init, OrderInv
<1>2. OrderInv /\ [Next]_vars => OrderInv'
  BY OrderStep
<1>3. OrderInv => ShellSorts
  <2> SUFFICES ASSUME OrderInv, job.peer = "shell"
               PROVE  SameOrder
    BY DEF ShellSorts
  <2>1. CASE rEntries = <<>>
    BY <2>1 DEF SameOrder
  <2>2. CASE rEntries # <<>>
    <3>1. PICK S : Served(S) /\ rEntries \in ReceiverOrders(S)
      BY <2>2 DEF OrderInv
    <3>2. sEntries \in ReceiverOrders(S)
      BY <3>1 DEF Served, SenderOrders, ReceiverOrders
    <3>3. sEntries = rEntries
      BY <3>1, <3>2, SortedOnce DEF Served, ReceiverOrders
    <3> QED
      BY <3>3 DEF SameOrder
  <2> QED
    BY <2>1, <2>2
<1>4. OrderInv => PositionsRight
  BY <1>3 DEF OrderInv, RightInv, PositionsRight
<1> QED
  BY <1>1, <1>2, <1>4, PTL DEF Spec
=============================================================================
