------------------------- MODULE RemoteShellProofs -------------------------
(***************************************************************************)
(* Proofs about a remote transfer from the outside: the second try starts   *)
(* on an untouched destination, both sides agree on protocol and checksum,  *)
(* and what is reported is what happened; for every client and peer, every  *)
(* capacity of the pipes and every number of frames.                        *)
(*                                                                         *)
(* The invariant counts messages.  Both sides of a session follow a script: *)
(* Out(k) is the k-th message of the peer and In(k) the k-th of the client. *)
(* A pipe holds the part of its script between what has been written and    *)
(* what has been read, and where a process is tells how much that is.       *)
(***************************************************************************)
EXTENDS RemoteShell, TLAPS

Bit(b) == IF b THEN 1 ELSE 0

\* The peer answers with flags, and lets the client choose a checksum.
Modern == attempt = 31 /\ (peer.version = 0 \/ peer.version >= 30)
Negotiated == Modern /\ peer.negotiates

\* How many messages of each kind the two scripts have.
Prefixes == Bit(client.via = "shell")
Flags == Bit(Modern)
Lists == Bit(Negotiated)
Args == Bit(client.via = "shell" /\ client.secluded)
Filters == Bit(~(Push /\ ~client.delete))

\* The last message before the seed, the seed, and the end of the whole.
Early == Prefixes + Flags + Lists
Seed == Early + 1
Total == IF Push THEN Seed + 2 ELSE Seed + 2 + DataFrames

Out(k) ==
    IF k <= Prefixes THEN <<"prefix", peer.prefix>>
    ELSE IF k <= Prefixes + Flags THEN <<"flags", peer.negotiates>>
    ELSE IF k <= Early THEN <<"names", peer.sums>>
    ELSE IF k = Seed THEN "seed"
    ELSE IF Push THEN (IF k = Seed + 1 THEN "request" ELSE "done")
    ELSE IF k = Seed + 1 THEN "list"
    ELSE IF k <= Seed + 1 + DataFrames THEN "data"
    ELSE "done"

\* The client's answer to the list of checksums, and the last message of its set-up.
Offer == IF NamesFirst THEN protocol31_client_checksum_list ELSE <<sum>>
Hello == Args + Prefixes
Agreed == Hello + Lists
Asked == Agreed + Filters + 1

In(k) ==
    IF k <= Args THEN "args"
    ELSE IF k <= Hello THEN <<"version", attempt>>
    ELSE IF k <= Agreed THEN <<"names", Offer>>
    ELSE IF k <= Agreed + Filters THEN "filter"
    ELSE IF ~Push THEN "request"
    ELSE IF k = Asked THEN "list"
    ELSE "data"

\* Everything that either side ever says.
Spoken == {Out(k) : k \in Nat}
Written == {In(k) : k \in Nat}

-----------------------------------------------------------------------------
\* Where the processes are

Opening == {"args", "version", "prefix"}
Settling == {"flags", "offer", "names", "choice", "seed"}
Moving == {"algorithm", "request", "receive", "serve", "send"}
Ending == {"close", "wait", "reported"}
Active == pc \notin Ending
Places == Opening \cup Settling \cup Moving \cup Ending \cup {"filter", "list", "apply"}

PeerPlaces ==
    {"noise", "args", "prefix", "version", "flags", "names", "choice", "seed", "filter", "list",
     "request", "data", "ask", "take", "bye", "leave", "exited"}

\* What the client has read, and what it has written.
Got ==
    IF pc \in Opening THEN 0
    ELSE IF pc = "flags" THEN Prefixes
    ELSE IF pc \in {"offer", "names"} THEN Prefixes + Flags
    ELSE IF pc \in {"choice", "seed"} THEN Early
    ELSE IF pc \in {"filter", "list"} THEN Seed
    ELSE IF pc = "receive" THEN Seed + 1 + frames
    ELSE IF Push /\ frames = 0 /\ pc # "send" THEN Seed
    ELSE Seed + 1

Put ==
    IF pc = "args" THEN 0
    ELSE IF pc = "version" THEN Args
    ELSE IF pc \in {"prefix", "flags", "offer", "choice"} THEN Hello
    ELSE IF pc = "names" THEN (IF NamesFirst THEN Agreed ELSE Hello)
    ELSE IF pc \in {"seed", "filter"} THEN Agreed
    ELSE IF pc \in {"list", "apply"} THEN Agreed + Filters
    ELSE IF Push THEN Asked + frames
    ELSE IF pc = "receive" THEN Asked ELSE Agreed + Filters

\* What the peer has written, and what it has read.
Said ==
    IF p.pc \in {"noise", "args", "prefix"} THEN 0
    ELSE IF p.pc \in {"version", "flags"} \/ peer.version = 0 THEN Prefixes
    ELSE IF p.pc = "names" THEN Prefixes + Flags
    ELSE IF p.pc \in {"choice", "seed"} THEN Early
    ELSE IF p.pc \in {"filter", "list", "ask"} THEN Seed
    ELSE IF p.pc \in {"request", "take"} THEN Seed + 1
    ELSE IF p.pc = "data" THEN Seed + 1 + p.frames
    ELSE IF p.pc = "bye" THEN Total - 1
    ELSE Total

Taken ==
    IF p.pc \in {"noise", "args"} THEN 0
    ELSE IF p.pc \in {"prefix", "version"} \/ peer.version = 0 THEN Args
    ELSE IF p.pc \in {"flags", "names", "choice"} THEN Hello
    ELSE IF p.pc \in {"seed", "filter"} THEN Agreed
    ELSE IF p.pc \in {"list", "request"} THEN Agreed + Filters
    ELSE IF Push THEN Asked + p.frames
    ELSE Asked

-----------------------------------------------------------------------------
\* The invariant

PeerSums == NamesOf(peer.sums) \cup {NoName}

Types ==
    /\ client \in Clients /\ peer \in Peers
    /\ client.via = "daemon" => peer.version = 31
    /\ attempt \in {27, 31}
    /\ client.via = "daemon" => attempt = 31
    /\ pc \in Places
    /\ err \in [kind : ErrorKinds, setup : BOOLEAN]
    /\ sel \in 0 .. 32
    /\ sum \in PeerSums
    /\ frames \in 0 .. DataFrames
    /\ stderr \in 0 .. PipeCap
    /\ stdin_open \in BOOLEAN
    /\ p \in [pc : PeerPlaces, sel : Nat, sum : PeerSums, frames : 0 .. DataFrames,
              noise : Nat, code : Nat]
    /\ Len(toPeer) <= PipeCap /\ Len(toClient) <= PipeCap
    /\ effects \subseteq {attempt}
    /\ result \in {"none", "ok", "failed"}

\* The pipes hold what lies between the two places in the scripts.
Incoming ==
    /\ toClient \in Seq(Spoken)
    /\ Active => \A i \in 1 .. Len(toClient) : toClient[i] = Out(Got + i)
    /\ Active /\ Alive => Got + Len(toClient) = Said

Outgoing ==
    /\ Alive => /\ toPeer \in Seq(Written)
                /\ \A i \in 1 .. Len(toPeer) : toPeer[i] = In(Taken + i)
    /\ Active /\ Alive => Taken + Len(toPeer) = Put

\* A login shell that does not start rsync says nothing but its first bytes.
Mute == Active /\ peer.version = 0 => Got + Len(toClient) <= Prefixes

\* What a process knows where it is.
ClientKnows ==
    /\ pc \in {"flags", "offer", "names", "choice"} => attempt = 31 /\ Modern
    /\ pc \in {"offer", "names", "choice"} => Negotiated
    /\ pc = "offer" => NamesFirst
    /\ pc = "choice" => ~NamesFirst
    /\ Active /\ pc \notin Opening /\ peer.version # 0 =>
         /\ sel = Lesser(attempt, peer.version)
         /\ attempt = 31 => sel = 31
    /\ pc \in {"filter", "list", "apply"} \cup Moving =>
         peer.version # 0 /\ (attempt = 27 => sel = 27)
    /\ pc \in Opening \cup {"flags", "offer", "names"} => sum = NoName
    /\ Active /\ pc \notin Opening \cup {"flags", "offer", "names"} /\ Negotiated =>
         /\ sum # NoName /\ sum \in NamesOf(peer.sums)
         /\ NamesFirst => sum = FirstOf(Offer, NamesOf(peer.sums))
    /\ ~Negotiated => sum = NoName
    /\ pc \in {"serve", "send"} => Push
    /\ pc \in {"apply", "request", "receive"} => ~Push
    /\ Active /\ pc \notin {"receive", "serve", "send"} => frames = 0
    /\ pc = "serve" => frames \in {0, DataFrames}
    /\ pc = "send" => frames < DataFrames
    /\ client.via = "daemon" => pc \notin Opening \cup {"wait"}
    /\ Active \/ pc = "close" => stdin_open
    /\ Active => err = NoError

PeerKnows ==
    /\ p.pc = "args" => client.via = "shell" /\ client.secluded
    /\ p.pc \in {"prefix", "version"} => client.via = "shell"
    /\ p.pc \notin {"noise", "args", "prefix", "leave", "exited"} => peer.version # 0
    /\ p.pc \in {"flags", "names", "choice"} => Modern
    /\ p.pc \in {"names", "choice"} => peer.negotiates
    /\ p.pc \notin {"noise", "args", "prefix", "version", "exited"} /\ peer.version # 0 =>
         p.sel = Lesser(attempt, peer.version)
    /\ p.pc \in {"noise", "args", "prefix", "version", "flags", "names", "choice"} => p.sum = NoName
    /\ p.pc \notin {"noise", "args", "prefix", "version", "flags", "names", "choice", "exited"}
         /\ peer.version # 0 =>
         p.sum = IF Negotiated THEN FirstOf(Offer, NamesOf(peer.sums)) ELSE NoName
    /\ p.pc = "filter" => Filters = 1
    /\ p.pc \in {"request", "data"} => ~Push
    /\ p.pc \in {"ask", "take"} => Push
    /\ p.pc \notin {"data", "take", "bye", "leave", "exited"} => p.frames = 0
    /\ p.pc \in {"data", "take"} => p.frames < DataFrames
    /\ p.pc \in {"bye", "leave"} /\ peer.version # 0 => p.frames = DataFrames

\* Nothing has been changed before the list is applied; what was sent by a client
\* that may try again does not bring the peer that far.
Clean ==
    /\ Active /\ pc \notin Moving => effects = {}
    /\ Active /\ pc \in Moving /\ ~Push => effects = {attempt}
    /\ ~Active /\ attempt = 31 /\ should_fallback_to_protocol27(err) =>
         effects = {} /\ (Alive => Taken + Len(toPeer) <= Agreed)
    /\ Push /\ Active /\ Got + Len(toClient) > Seed => effects = {attempt}
    /\ Push /\ peer.version # 0 /\ p.pc \in {"ask", "take", "bye", "leave"} => effects = {attempt}

\* The end of a session.
Outcome ==
    /\ ~Active /\ err = NoError => frames = DataFrames /\ effects = {attempt}
    /\ result # "none" => pc = "reported"
    /\ pc = "reported" /\ client.via = "shell" => ~Alive
    /\ result = "ok" => err = NoError /\ (client.via = "shell" => p.code = 0)
    /\ result = "failed" /\ client.via = "shell" =>
         (err = NoError => p.code # 0) /\ (err # NoError => ~MayRetry)

\* Without a fault: a peer that knows the protocol leaves after its last message,
\* and a client that has not forced one stops at what the second try is for.
Faultless ==
    client.via = "shell" /\ client.protocol = 0 /\ peer.version \in 27 .. 32 /\ faults = {} =>
      /\ Active /\ ~Alive =>
           /\ p.code = 0
           /\ Got + Len(toClient) = Total
           /\ pc = "receive" \/ (pc = "serve" /\ frames = DataFrames)
      /\ ~Active =>
           \/ err = NoError /\ (p.pc = "leave" \/ (~Alive /\ p.code = 0))
           \/ err.kind = "UnknownAlgorithm"
           \/ attempt = 31 /\ should_fallback_to_protocol27(err)

IInv == /\ Types /\ Incoming /\ Outgoing /\ Mute /\ ClientKnows /\ PeerKnows
        /\ Clean /\ Outcome /\ Faultless

-----------------------------------------------------------------------------
\* The scripts and the pipes

\* The numbers of messages are numbers, each at most one.
LEMMA Numbers ==
    ASSUME Types
    PROVE  /\ Prefixes \in {0, 1} /\ Flags \in {0, 1} /\ Lists \in {0, 1}
           /\ Args \in {0, 1} /\ Filters \in {0, 1}
           /\ Args <= Prefixes /\ Lists <= Flags
           /\ Early \in Nat /\ Seed \in Nat /\ Total \in Nat
           /\ Hello \in Nat /\ Agreed \in Nat /\ Asked \in Nat
           /\ Got \in Nat /\ Put \in Nat /\ Said \in Nat /\ Taken \in Nat
<1>1. /\ Prefixes \in {0, 1} /\ Flags \in {0, 1} /\ Lists \in {0, 1}
      /\ Args \in {0, 1} /\ Filters \in {0, 1}
      /\ Args <= Prefixes /\ Lists <= Flags
  BY DEF Prefixes, Flags, Lists, Args, Filters, Bit, Negotiated
<1>2. DataFrames \in Nat /\ frames \in Nat /\ p.frames \in Nat
  BY ShellAssumption DEF Types
<1>3. /\ Early \in Nat /\ Seed \in Nat /\ Total \in Nat
      /\ Hello \in Nat /\ Agreed \in Nat /\ Asked \in Nat
      /\ Total >= 1
  BY <1>1, <1>2 DEF Early, Seed, Total, Hello, Agreed, Asked
<1>4. Got \in Nat /\ Put \in Nat
  BY <1>1, <1>2, <1>3 DEF Got, Put
<1>5. Said \in Nat /\ Taken \in Nat
  BY <1>1, <1>2, <1>3 DEF Said, Taken
<1> QED BY <1>1, <1>3, <1>4, <1>5

\* Within a session neither script changes, up to the name of the checksum.
LEMMA SameScripts ==
    ASSUME UNCHANGED <<client, peer, attempt>>
    PROVE  /\ Prefixes' = Prefixes /\ Flags' = Flags /\ Lists' = Lists
           /\ Args' = Args /\ Filters' = Filters
           /\ Early' = Early /\ Seed' = Seed /\ Total' = Total
           /\ Hello' = Hello /\ Agreed' = Agreed /\ Asked' = Asked
           /\ Push' = Push /\ NamesFirst' = NamesFirst
           /\ Modern' = Modern /\ Negotiated' = Negotiated
           /\ PeerSums' = PeerSums
           /\ protocol31_client_checksum_list' = protocol31_client_checksum_list
           /\ \A k \in Nat : Out(k)' = Out(k)
           /\ Spoken' = Spoken
<1>1. /\ Push' = Push /\ NamesFirst' = NamesFirst
      /\ Modern' = Modern /\ Negotiated' = Negotiated
      /\ PeerSums' = PeerSums
      /\ protocol31_client_checksum_list' = protocol31_client_checksum_list
  BY DEF Push, NamesFirst, Modern, Negotiated, PeerSums, protocol31_client_checksum_list
<1>2. /\ Prefixes' = Prefixes /\ Flags' = Flags /\ Lists' = Lists
      /\ Args' = Args /\ Filters' = Filters
  BY <1>1 DEF Prefixes, Flags, Lists, Args, Filters
<1>3. /\ Early' = Early /\ Seed' = Seed /\ Total' = Total
      /\ Hello' = Hello /\ Agreed' = Agreed /\ Asked' = Asked
  BY <1>1, <1>2 DEF Early, Seed, Total, Hello, Agreed, Asked
<1>4. \A k \in Nat : Out(k)' = Out(k)
  BY <1>1, <1>2, <1>3 DEF Out
<1>5. Spoken' = Spoken
  BY <1>4, Zenon DEF Spoken
<1> QED BY <1>1, <1>2, <1>3, <1>4, <1>5

\* The script of the client does not change once the checksum is chosen.
LEMMA SameAnswers ==
    ASSUME UNCHANGED <<client, peer, attempt>>, NamesFirst \/ UNCHANGED sum
    PROVE  /\ Offer' = Offer
           /\ \A k \in Nat : In(k)' = In(k)
           /\ Written' = Written
<1>1. Offer' = Offer
  BY SameScripts DEF Offer
<1>2. \A k \in Nat : In(k)' = In(k)
  BY <1>1, SameScripts DEF In
<1>3. Written' = Written
  BY <1>2, Zenon DEF Written
<1> QED BY <1>1, <1>2, <1>3

\* A pipe is a queue.
LEMMA TailOf ==
    ASSUME NEW S, NEW q \in Seq(S), q # << >>
    PROVE  /\ Len(q) \in Nat /\ Len(q) >= 1 /\ Head(q) = q[1]
           /\ Tail(q) \in Seq(S) /\ Len(Tail(q)) = Len(q) - 1
           /\ \A i \in 1 .. Len(Tail(q)) : i + 1 \in 1 .. Len(q) /\ Tail(q)[i] = q[i + 1]
  OBVIOUS

\* What is written comes last.
LEMMA AppendTo ==
    ASSUME NEW S, NEW q \in Seq(S), NEW x \in S
    PROVE  /\ Len(q) \in Nat
           /\ Append(q, x) \in Seq(S) /\ Len(Append(q, x)) = Len(q) + 1
           /\ \A i \in 1 .. Len(Append(q, x)) :
                IF i <= Len(q) THEN i \in 1 .. Len(q) /\ Append(q, x)[i] = q[i]
                ELSE i = Len(q) + 1 /\ Append(q, x)[i] = x
  OBVIOUS

\* The client reads one message of the script and goes on, or gives up.
LEMMA ClientReads ==
    ASSUME Types, Incoming, Active, Receive,
           UNCHANGED <<client, peer, attempt, p>>,
           Active' => Got' = Got + 1
    PROVE  /\ Incoming'
           /\ m0 = Out(Got + 1)
           /\ Got + 1 \in Nat
           /\ Alive => Got + 1 <= Said
           /\ Got + Len(toClient) >= Got + 1
           /\ Len(toClient)' = Len(toClient) - 1 /\ Len(toClient) \in Nat
<1>1. /\ Len(toClient) \in Nat /\ Len(toClient) >= 1 /\ Head(toClient) = toClient[1]
      /\ toClient' \in Seq(Spoken) /\ Len(toClient') = Len(toClient) - 1
      /\ \A i \in 1 .. Len(toClient') : i + 1 \in 1 .. Len(toClient) /\ toClient'[i] = toClient[i + 1]
  BY TailOf DEF Incoming, Receive
<1>2. Got \in Nat /\ Said \in Nat
  BY Numbers
<1>3. Said' = Said /\ (Alive' <=> Alive)
  BY SameScripts DEF Said, Alive
<1>4. m0 = Out(Got + 1)
  BY <1>1, <1>2 DEF m0, Incoming
<1>5. Alive => Got + Len(toClient) = Said
  BY DEF Incoming
<1>6. ASSUME Active'
      PROVE  \A i \in 1 .. Len(toClient') : toClient'[i] = Out(Got + 1 + i)
  <2>1. TAKE i \in 1 .. Len(toClient')
  <2>2. i + 1 \in 1 .. Len(toClient) /\ toClient'[i] = toClient[i + 1]
    BY <1>1
  <2>3. toClient[i + 1] = Out(Got + (i + 1))
    BY <2>2 DEF Incoming
  <2>4. Got + (i + 1) = Got + 1 + i
    BY <2>2, <1>2
  <2> QED BY <2>2, <2>3, <2>4
<1>7. ASSUME Active' PROVE \A i \in 1 .. Len(toClient') : toClient'[i] = Out(Got + i)'
  <2>1. TAKE i \in 1 .. Len(toClient')
  <2>2. PICK k \in Nat : k = Got + 1 + i
    BY <1>1, <1>2
  <2>3. Out(k)' = Out(k)
    BY SameScripts
  <2>4. Got' + i = k
    BY <1>2, <1>7, <2>2
  <2>5. Out(Got + i)' = Out(k)'
    BY <2>4 DEF Out
  <2> QED BY <1>6, <1>7, <2>2, <2>3, <2>5
<1>8. ASSUME Active', Alive' PROVE Got' + Len(toClient') = Said'
  <2>1. Got + Len(toClient) = Said /\ Got' = Got + 1
    BY <1>3, <1>5, <1>8
  <2>2. Len(toClient') = Len(toClient) - 1 /\ Len(toClient) \in Nat /\ Said' = Said
    BY <1>1, <1>3
  <2> QED BY <1>2, <2>1, <2>2
<1>9. Incoming'
  BY <1>1, <1>7, <1>8, SameScripts DEF Incoming
<1> QED BY <1>1, <1>2, <1>4, <1>5, <1>9

\* The client leaves its input alone.
LEMMA ClientReadsNothing ==
    ASSUME Types, Incoming, Active, UNCHANGED <<client, peer, attempt, p, toClient>>,
           Active' => Got' = Got
    PROVE  Incoming'
<1>1. Got \in Nat /\ Said' = Said /\ Alive' = Alive
  BY Numbers, SameScripts DEF Said, Alive
<1>2. ASSUME Active' PROVE \A i \in 1 .. Len(toClient') : toClient'[i] = Out(Got + i)'
  <2>1. TAKE i \in 1 .. Len(toClient')
  <2>2. PICK k \in Nat : k = Got + i
    BY <1>1
  <2>3. Out(k)' = Out(k)
    BY SameScripts
  <2>4. Out(Got + i)' = Out(k)'
    BY <1>2, <2>2 DEF Out
  <2> QED BY <2>2, <2>3, <2>4 DEF Incoming
<1> QED BY <1>1, <1>2, SameScripts DEF Incoming

\* The client writes the next message of its script.
LEMMA ClientWrites ==
    ASSUME Types, Outgoing, Active, Alive, UNCHANGED <<client, peer, attempt, p, sum>>,
           NEW m, m = In(Put + 1), toPeer' = Append(toPeer, m),
           Active' => Put' = Put + 1
    PROVE  Outgoing' /\ Len(toPeer') = Len(toPeer) + 1 /\ Len(toPeer) \in Nat
<1>1. Put \in Nat /\ Taken \in Nat /\ Taken' = Taken /\ Alive'
  BY Numbers, SameScripts DEF Taken, Alive
<1>2. m \in Written
  BY <1>1 DEF Written
<1>3. /\ Len(toPeer) \in Nat
      /\ toPeer' \in Seq(Written) /\ Len(toPeer') = Len(toPeer) + 1
      /\ \A i \in 1 .. Len(toPeer') :
           IF i <= Len(toPeer) THEN i \in 1 .. Len(toPeer) /\ toPeer'[i] = toPeer[i]
           ELSE i = Len(toPeer) + 1 /\ toPeer'[i] = m
  BY <1>2, AppendTo DEF Outgoing
<1>4. Taken + Len(toPeer) = Put
  BY DEF Outgoing
<1>5. \A i \in 1 .. Len(toPeer') : toPeer'[i] = In(Taken + i)'
  <2>1. TAKE i \in 1 .. Len(toPeer')
  <2>2. PICK k \in Nat : k = Taken + i
    BY <1>1
  <2>3. In(k)' = In(k)
    BY SameAnswers
  <2>4. In(Taken + i)' = In(k)'
    BY <1>1, <2>2 DEF In
  <2>5. toPeer'[i] = In(k)
    <3>1. CASE i <= Len(toPeer)
      BY <1>3, <2>2, <3>1 DEF Outgoing
    <3>2. CASE ~(i <= Len(toPeer))
      <4>1. i = Len(toPeer) + 1 /\ toPeer'[i] = m
        BY <1>3, <3>2
      <4>2. k = Put + 1
        BY <1>1, <1>3, <1>4, <2>2, <4>1
      <4> QED BY <4>1, <4>2
    <3> QED BY <3>1, <3>2
  <2> QED BY <2>3, <2>4, <2>5
<1>6. Active' => Taken' + Len(toPeer') = Put'
  BY <1>1, <1>3, <1>4
<1> QED BY <1>1, <1>3, <1>5, <1>6, SameAnswers DEF Outgoing

\* The client leaves its output alone.
LEMMA ClientWritesNothing ==
    ASSUME Types, Outgoing, Active, UNCHANGED <<client, peer, attempt, p, toPeer>>,
           NamesFirst \/ UNCHANGED sum \/ (Alive => Put <= Hello),
           Active' => Put' = Put
    PROVE  Outgoing'
<1>1. /\ Put \in Nat /\ Taken \in Nat /\ Hello \in Nat /\ Taken' = Taken /\ (Alive' <=> Alive)
      /\ Args \in Nat /\ Hello' = Hello
  BY Numbers, SameScripts DEF Taken, Alive
<1>2. CASE NamesFirst \/ UNCHANGED sum
  <2>1. \A i \in 1 .. Len(toPeer') : In(Taken + i)' = In(Taken + i)
    <3>1. TAKE i \in 1 .. Len(toPeer')
    <3>2. PICK k \in Nat : k = Taken + i
      BY <1>1
    <3>3. In(k)' = In(k)
      BY <1>2, SameAnswers
    <3>4. In(Taken + i)' = In(k)'
      BY <1>1, <3>2 DEF In
    <3> QED BY <3>2, <3>3, <3>4
  <2>2. Alive' => \A i \in 1 .. Len(toPeer') : toPeer'[i] = In(Taken + i)'
    BY <1>1, <2>1 DEF Outgoing
  <2>3. Alive' => toPeer' \in Seq(Written)'
    BY <1>1, <1>2, SameAnswers DEF Outgoing
  <2> QED BY <1>1, <2>2, <2>3 DEF Outgoing
<1>3. CASE ~NamesFirst /\ sum' # sum /\ (Alive => Put <= Hello)
  <2>1. ASSUME Alive PROVE /\ toPeer' \in Seq(Written)'
                          /\ \A i \in 1 .. Len(toPeer') : toPeer'[i] = In(Taken + i)'
    <3>1. /\ toPeer \in Seq(Written) /\ Taken + Len(toPeer) = Put /\ Put <= Hello
          /\ \A i \in 1 .. Len(toPeer) : toPeer[i] = In(Taken + i)
      BY <1>3, <2>1 DEF Outgoing
    <3>2. \A i \in 1 .. Len(toPeer) : Taken + i \in Nat /\ Taken + i <= Hello
      BY <1>1, <3>1
    <3>3. \A i \in 1 .. Len(toPeer) : toPeer[i] = In(Taken + i)'
      <4>1. TAKE i \in 1 .. Len(toPeer)
      <4>2. In(Taken + i)' = In(Taken + i)
        BY <1>1, <3>2, SameScripts DEF In
      <4> QED BY <3>1, <4>2
    <3>4. \A i \in 1 .. Len(toPeer) : In(Taken + i)' \in Written'
      BY <1>1, <3>2 DEF Written
    <3>5. toPeer \in Seq(Written)'
      BY <3>1, <3>3, <3>4
    <3> QED BY <3>3, <3>5
  <2> QED BY <1>1, <2>1 DEF Outgoing
<1> QED BY <1>2, <1>3

\* The peer writes the next message of its script.
LEMMA PeerWrites ==
    ASSUME Types, Incoming, Alive, UNCHANGED <<client, peer, attempt, pc, frames>>,
           NEW m, m = Out(Said + 1), toClient' = Append(toClient, m),
           Alive' => Said' = Said + 1
    PROVE  Incoming' /\ Len(toClient') = Len(toClient) + 1 /\ Len(toClient) \in Nat
<1>1. /\ Got \in Nat /\ Said \in Nat /\ Got' = Got /\ (Active' <=> Active)
  BY Numbers, SameScripts DEF Got, Active
<1>2. m \in Spoken
  BY <1>1 DEF Spoken
<1>3. /\ Len(toClient) \in Nat
      /\ toClient' \in Seq(Spoken) /\ Len(toClient') = Len(toClient) + 1
      /\ \A i \in 1 .. Len(toClient') :
           IF i <= Len(toClient) THEN i \in 1 .. Len(toClient) /\ toClient'[i] = toClient[i]
           ELSE i = Len(toClient) + 1 /\ toClient'[i] = m
  BY <1>2, AppendTo DEF Incoming
<1>4. Active => Got + Len(toClient) = Said
  BY DEF Incoming
<1>5. ASSUME Active PROVE \A i \in 1 .. Len(toClient') : toClient'[i] = Out(Got + i)'
  <2>1. TAKE i \in 1 .. Len(toClient')
  <2>2. PICK k \in Nat : k = Got + i
    BY <1>1
  <2>3. Out(k)' = Out(k)
    BY SameScripts
  <2>4. Out(Got + i)' = Out(k)'
    BY <1>1, <2>2 DEF Out
  <2>5. toClient'[i] = Out(k)
    <3>1. CASE i <= Len(toClient)
      BY <1>3, <1>5, <2>2, <3>1 DEF Incoming
    <3>2. CASE ~(i <= Len(toClient))
      <4>1. i = Len(toClient) + 1 /\ toClient'[i] = m
        BY <1>3, <3>2
      <4>2. k = Said + 1
        BY <1>1, <1>3, <1>4, <1>5, <2>2, <4>1
      <4> QED BY <4>1, <4>2
    <3> QED BY <3>1, <3>2
  <2> QED BY <2>3, <2>4, <2>5
<1>6. ASSUME Active, Alive' PROVE Got' + Len(toClient') = Said'
  <2>1. Got + Len(toClient) = Said /\ Said' = Said + 1
    BY <1>4, <1>6
  <2>2. Len(toClient') = Len(toClient) + 1 /\ Len(toClient) \in Nat
    BY <1>3
  <2> QED BY <1>1, <2>1, <2>2
<1> QED BY <1>1, <1>3, <1>5, <1>6, SameScripts DEF Incoming

\* The peer leaves its output alone.
LEMMA PeerWritesNothing ==
    ASSUME Types, Incoming, UNCHANGED <<client, peer, attempt, pc, frames, toClient>>,
           Alive' => Alive /\ Said' = Said
    PROVE  Incoming'
<1>1. /\ Got \in Nat /\ Said \in Nat /\ Got' = Got /\ (Active' <=> Active)
  BY Numbers, SameScripts DEF Got, Active
<1>2. ASSUME Active PROVE \A i \in 1 .. Len(toClient') : toClient'[i] = Out(Got + i)'
  <2>1. TAKE i \in 1 .. Len(toClient')
  <2>2. PICK k \in Nat : k = Got + i
    BY <1>1
  <2>3. Out(k)' = Out(k)
    BY SameScripts
  <2>4. Out(Got + i)' = Out(k)'
    BY <1>1, <2>2 DEF Out
  <2> QED BY <1>2, <2>2, <2>3, <2>4 DEF Incoming
<1> QED BY <1>1, <1>2, SameScripts DEF Incoming

\* The peer reads one message of the client.
LEMMA PeerReads ==
    ASSUME Types, Outgoing, Alive, Hear,
           UNCHANGED <<client, peer, attempt, pc, frames, sum>>,
           Alive' => Taken' = Taken + 1
    PROVE  /\ Outgoing'
           /\ heard = In(Taken + 1)
           /\ Active => Taken + 1 <= Put
           /\ Len(toPeer) \in Nat /\ Len(toPeer) >= 1
           /\ Len(toPeer') = Len(toPeer) - 1
<1>1. /\ Len(toPeer) \in Nat /\ Len(toPeer) >= 1 /\ Head(toPeer) = toPeer[1]
      /\ toPeer' \in Seq(Written) /\ Len(toPeer') = Len(toPeer) - 1
      /\ \A i \in 1 .. Len(toPeer') : i + 1 \in 1 .. Len(toPeer) /\ toPeer'[i] = toPeer[i + 1]
  BY TailOf DEF Outgoing, Hear
<1>2. Taken \in Nat /\ Put \in Nat
  BY Numbers
<1>3. Put' = Put /\ (Active' <=> Active)
  BY SameScripts DEF Put, Active
<1>4. heard = In(Taken + 1)
  BY <1>1, <1>2 DEF heard, Outgoing
<1>5. Active => Taken + Len(toPeer) = Put
  BY DEF Outgoing
<1>6. ASSUME Alive' PROVE \A i \in 1 .. Len(toPeer') : toPeer'[i] = In(Taken + i)'
  <2>1. TAKE i \in 1 .. Len(toPeer')
  <2>2. i + 1 \in 1 .. Len(toPeer) /\ toPeer'[i] = toPeer[i + 1]
    BY <1>1
  <2>3. PICK k \in Nat : k = Taken + (i + 1)
    BY <1>1, <1>2
  <2>4. In(k)' = In(k)
    BY SameAnswers
  <2>5. Taken' + i = k
    BY <1>2, <1>6, <2>3
  <2>6. In(Taken + i)' = In(k)'
    BY <2>5 DEF In
  <2>7. toPeer[i + 1] = In(k)
    BY <2>2, <2>3 DEF Outgoing
  <2> QED BY <2>2, <2>4, <2>6, <2>7
<1>7. ASSUME Active, Alive' PROVE Taken' + Len(toPeer') = Put'
  <2>1. Taken + Len(toPeer) = Put /\ Taken' = Taken + 1 /\ Put' = Put
    BY <1>3, <1>5, <1>7
  <2>2. Len(toPeer') = Len(toPeer) - 1 /\ Len(toPeer) \in Nat
    BY <1>1
  <2> QED BY <1>2, <2>1, <2>2
<1>8. Outgoing'
  BY <1>1, <1>3, <1>6, <1>7, SameAnswers DEF Outgoing
<1> QED BY <1>1, <1>2, <1>4, <1>5, <1>8

\* The peer leaves its input alone.
LEMMA PeerReadsNothing ==
    ASSUME Types, Outgoing, UNCHANGED <<client, peer, attempt, pc, frames, sum, toPeer>>,
           Alive' => Alive /\ Taken' = Taken
    PROVE  Outgoing'
<1>1. /\ Taken \in Nat /\ Put' = Put /\ (Active' <=> Active)
  BY Numbers, SameScripts DEF Put, Active
<1>2. ASSUME Alive' PROVE \A i \in 1 .. Len(toPeer') : toPeer'[i] = In(Taken + i)'
  <2>1. TAKE i \in 1 .. Len(toPeer')
  <2>2. PICK k \in Nat : k = Taken + i
    BY <1>1
  <2>3. In(k)' = In(k)
    BY SameAnswers
  <2>4. In(Taken + i)' = In(k)'
    BY <1>2, <2>2 DEF In
  <2> QED BY <1>2, <2>2, <2>3, <2>4 DEF Outgoing
<1> QED BY <1>1, <1>2, SameAnswers DEF Outgoing

-----------------------------------------------------------------------------
\* The steps of the client

\* The variables that only the peer, or the end of a session, changes.
Session == <<client, peer, attempt, stderr, stdin_open, p, result>>

\* What the peer knows does not depend on the client, once a checksum is chosen.
LEMMA PeerKnowsStill ==
    ASSUME PeerKnows, UNCHANGED <<client, peer, attempt, p>>, NamesFirst \/ UNCHANGED sum
    PROVE  PeerKnows'
  BY SameScripts, SameAnswers DEF PeerKnows

\* The client ends with an error.
LEMMA ClientFails ==
    ASSUME IInv, Active, UNCHANGED <<Session, toPeer, sel, sum, frames, effects>>,
           Receive \/ UNCHANGED toClient,
           pc' = "close", err' \in [kind : ErrorKinds \ {"none"}, setup : BOOLEAN],
           attempt = 31 /\ should_fallback_to_protocol27(err') =>
             effects = {} /\ (Alive => Put <= Agreed),
           client.via = "shell" /\ client.protocol = 0 /\ peer.version \in 27 .. 32 /\ faults' = {} =>
             err'.kind = "UnknownAlgorithm" \/ (attempt = 31 /\ should_fallback_to_protocol27(err'))
    PROVE  IInv'
<1> USE DEF Session
<1>1. ~Active' /\ err' # NoError /\ (Alive' <=> Alive) /\ Taken' = Taken /\ Agreed' = Agreed
  BY SameScripts DEF Active, Ending, NoError, Alive, Taken
<1>2. Incoming'
  BY <1>1, ClientReads, ClientReadsNothing DEF IInv
<1>3. Outgoing'
  BY <1>1, ClientWritesNothing DEF IInv
<1>4. PeerKnows'
  BY PeerKnowsStill DEF IInv
<1>5. Types'
  <2>1. Len(toClient') <= PipeCap
    <3>1. CASE Receive
      <4>1. Len(toClient)' = Len(toClient) - 1 /\ Len(toClient) \in Nat
        BY <1>1, <3>1, ClientReads DEF IInv
      <4> QED BY <4>1, ShellAssumption DEF IInv, Types
    <3>2. CASE UNCHANGED toClient
      BY <3>2 DEF IInv, Types
    <3> QED BY <3>1, <3>2
  <2> QED BY <2>1, SameScripts DEF IInv, Types, Places, Ending
<1>6. ClientKnows'
  BY <1>1, SameScripts DEF IInv, ClientKnows, Active, Ending, Opening, Moving
<1>7. Clean'
  <2>1. Alive => Taken + Len(toPeer) = Put
    BY DEF IInv, Outgoing
  <2>2. ~Active' /\ attempt' = 31 /\ should_fallback_to_protocol27(err)' =>
          effects' = {} /\ (Alive' => (Taken + Len(toPeer))' <= Agreed')
    BY <1>1, <2>1 DEF should_fallback_to_protocol27
  <2> QED BY <1>1, <2>2, SameScripts DEF IInv, Clean
<1>8. Outcome'
  BY <1>1 DEF IInv, Outcome, Active, Ending
<1>9. Faultless'
  BY <1>1 DEF Faultless, should_fallback_to_protocol27
<1>10. Mute'
  BY <1>1 DEF Mute
<1> QED BY <1>2, <1>3, <1>4, <1>5, <1>6, <1>7, <1>8, <1>9, <1>10 DEF IInv

\* A client that is at work has not been left by its peer, where nothing went wrong.
LEMMA NotLeft ==
    ASSUME IInv, Active, ~Alive, toClient = << >> \/ pc \notin {"receive", "serve"},
           client.via = "shell", client.protocol = 0, peer.version \in 27 .. 32
    PROVE  faults # {}
<1> SUFFICES ASSUME faults = {} PROVE FALSE
  OBVIOUS
<1>1. /\ Got + Len(toClient) = Total
      /\ pc = "receive" \/ (pc = "serve" /\ frames = DataFrames)
  BY DEF IInv, Faultless
<1>2. toClient = << >>
  BY <1>1
<1>3. Got = Total
  BY <1>1, <1>2, Numbers DEF IInv
<1>4. /\ Seed \in Nat /\ frames \in 0 .. DataFrames /\ DataFrames \in Nat /\ DataFrames # 0
      /\ pc = "serve" => Push
      /\ pc = "receive" => ~Push
  BY Numbers, ShellAssumption DEF IInv, Types, ClientKnows
<1> QED BY <1>1, <1>3, <1>4 DEF Got, Total, Opening

\* The client finds its input at an end.
LEMMA ClientAtEof ==
    ASSUME IInv, Active, UNCHANGED Session, faults' = faults,
           NEW kind \in ErrorKinds \ {"none"}, NEW setup \in BOOLEAN, Eof(kind, setup),
           kind = "UnexpectedEof" => effects = {},
           kind \notin NegotiationErrors
    PROVE  IInv'
<1>1. err' = [kind |-> kind, setup |-> setup] /\ ~Alive /\ toClient = << >> /\ pc' = "close"
  BY DEF Eof, AtEof, Fail
<1>2. client.via = "shell" /\ client.protocol = 0 /\ peer.version \in 27 .. 32 => faults' # {}
  BY <1>1, NotLeft
<1> QED BY <1>1, <1>2, ClientFails DEF Eof, should_fallback_to_protocol27

\* The client finds the pipe broken.
LEMMA ClientAtBrokenPipe ==
    ASSUME IInv, Active, UNCHANGED <<Session, sel, sum, frames, effects>>, faults' = faults,
           pc \notin {"receive", "serve"}, ~Alive,
           NEW m, NEW next, NEW setup \in BOOLEAN, Send(m, next, setup)
    PROVE  IInv'
<1>1. err' = [kind |-> "BrokenPipe", setup |-> setup] /\ pc' = "close" /\ UNCHANGED <<toPeer, toClient>>
  BY DEF Send
<1>2. client.via = "shell" /\ client.protocol = 0 /\ peer.version \in 27 .. 32 => faults' # {}
  BY NotLeft
<1>3. err' \in [kind : ErrorKinds \ {"none"}, setup : BOOLEAN] /\ ~should_fallback_to_protocol27(err')
  BY <1>1 DEF ErrorKinds, should_fallback_to_protocol27, NegotiationErrors
<1> QED BY <1>1, <1>2, <1>3, ClientFails

\* The client goes on: what has to be shown of a step that does not end the session.
LEMMA ClientGoesOn ==
    ASSUME IInv, Active, Active', UNCHANGED Session, UNCHANGED err, faults' = faults,
           NamesFirst \/ UNCHANGED sum \/ Put <= Hello,
           Incoming', Outgoing', ClientKnows',
           pc' \in Places, sel' \in 0 .. 32, sum' \in PeerSums, frames' \in 0 .. DataFrames,
           Len(toPeer') <= PipeCap, Len(toClient') <= PipeCap,
           Got' + Len(toClient') = Got + Len(toClient),
           Push => UNCHANGED effects,
           pc \notin Moving /\ pc' \notin Moving => UNCHANGED effects,
           pc \in Moving => pc' \in Moving /\ UNCHANGED effects,
           pc \notin Moving /\ pc' \in Moving /\ ~Push => effects' = {attempt},
           pc = "serve" => frames # DataFrames,
           pc = "receive" => pc' = "receive"
    PROVE  IInv'
<1> USE DEF Session
<1>1. /\ (Alive' <=> Alive) /\ Taken' = Taken /\ Said' = Said
  BY SameScripts DEF Alive, Taken, Said
<1>2. Types'
  <2>1. effects' \subseteq {attempt}
    BY DEF IInv, Types, Active, Places, Ending
  <2> QED BY <2>1, SameScripts DEF IInv, Types
<1>3. PeerKnows'
  <2>1. CASE NamesFirst \/ UNCHANGED sum
    BY <2>1, PeerKnowsStill DEF IInv
  <2>2. CASE Put <= Hello
    <3>1. ASSUME Negotiated, peer.version # 0
          PROVE  p.pc \in {"noise", "args", "prefix", "version", "flags", "names", "choice", "exited"}
      <4>1. Lists = 1
        BY <3>1 DEF Lists, Bit
      <4>2. ASSUME Alive PROVE Taken <= Hello
        <5>1. Taken + Len(toPeer) = Put /\ toPeer \in Seq(Written)
          BY <4>2 DEF IInv, Outgoing
        <5> QED BY <2>2, <5>1, Numbers DEF IInv
      <4>3. /\ Hello \in Nat /\ Agreed = Hello + 1 /\ Asked = Agreed + Filters + 1
            /\ Filters \in {0, 1} /\ p.frames \in Nat
        BY <4>1, Numbers DEF IInv, Types, Agreed, Asked
      <4> QED BY <3>1, <4>2, <4>3 DEF Taken, Alive, IInv, Types, PeerPlaces
    <3> QED BY <3>1, SameScripts DEF IInv, PeerKnows
  <2> QED BY <2>1, <2>2
<1>4. Clean'
  BY <1>1, SameScripts DEF IInv, Clean
<1>5. Outcome'
  BY <1>1 DEF IInv, Outcome, Active, Ending
<1>6. Faultless'
  BY <1>1, SameScripts DEF IInv, Faultless
<1>7. Mute'
  BY SameScripts DEF IInv, Mute
<1> QED BY <1>2, <1>3, <1>4, <1>5, <1>6, <1>7 DEF IInv

\* A step that sends the next message of the script.
LEMMA ClientSends ==
    ASSUME IInv, Active, pc \notin {"receive", "serve"},
           UNCHANGED <<Session, sel, sum, effects>>, faults' = faults,
           NEW m, NEW next \in Places \ Ending, NEW setup \in BOOLEAN, Send(m, next, setup),
           m = In(Put + 1),
           pc \notin Moving /\ next \in Moving => Push,
           pc \in Moving => next \in Moving,
           ~Alive => UNCHANGED frames,
           Alive => /\ frames' \in 0 .. DataFrames
                    /\ Put' = Put + 1 /\ Got' = Got
                    /\ ClientKnows'
    PROVE  IInv'
<1>1. CASE ~Alive
  BY <1>1, ClientAtBrokenPipe
<1>2. CASE Alive
  <2>1. pc' = next /\ UNCHANGED <<err, toClient>> /\ toPeer' = Append(toPeer, m) /\ Len(toPeer) < PipeCap
    BY <1>2 DEF Send, CanWrite, Room
  <2>2. Active'
    BY <2>1 DEF Active
  <2>3. Outgoing' /\ Len(toPeer') = Len(toPeer) + 1 /\ Len(toPeer) \in Nat
    BY <1>2, <2>1, ClientWrites DEF IInv, Session
  <2>4. Incoming'
    BY <1>2, <2>1, ClientReadsNothing DEF IInv, Session
  <2>5. Len(toPeer') <= PipeCap /\ Len(toClient') <= PipeCap
    BY <2>1, <2>3, ShellAssumption DEF IInv, Types
  <2>6. sum' \in PeerSums /\ sel' \in 0 .. 32
    BY DEF IInv, Types
  <2>7. Got' + Len(toClient') = Got + Len(toClient)
    BY <1>2, <2>1
  <2> QED BY <1>2, <2>1, <2>2, <2>3, <2>4, <2>5, <2>6, <2>7, ClientGoesOn
<1> QED BY <1>1, <1>2

\* A step that reads a message and sends none.
LEMMA ClientTakes ==
    ASSUME IInv, Active, UNCHANGED <<Session, err, effects>>, faults' = faults, Receive,
           pc' \in Places \ Ending,
           sel' \in 0 .. 32, sum' \in PeerSums, frames' \in 0 .. DataFrames,
           NamesFirst \/ UNCHANGED sum \/ Put <= Hello,
           pc \notin Moving => pc' \notin Moving,
           pc \in Moving => pc' \in Moving,
           pc = "serve" => frames # DataFrames,
           pc = "receive" => pc' = "receive",
           Put' = Put, Got' = Got + 1, ClientKnows'
    PROVE  IInv'
<1>1. Active'
  BY DEF Active
<1>2. /\ Incoming'
      /\ Len(toClient)' = Len(toClient) - 1 /\ Len(toClient) \in Nat
  BY ClientReads DEF IInv, Session
<1>3. UNCHANGED toPeer
  BY DEF Receive
<1>4. Outgoing'
  BY <1>3, ClientWritesNothing DEF IInv, Session
<1>5. Len(toPeer') <= PipeCap /\ Len(toClient') <= PipeCap
  BY <1>2, <1>3, ShellAssumption DEF IInv, Types
<1>6. Got' + Len(toClient') = Got + Len(toClient)
  BY <1>2, Numbers DEF IInv
<1> QED BY <1>1, <1>2, <1>4, <1>5, <1>6, ClientGoesOn

\* A step that neither reads nor sends.
LEMMA ClientMoves ==
    ASSUME IInv, Active, UNCHANGED <<Session, err, toPeer, toClient, sel, sum, frames>>, faults' = faults,
           pc' \in Places \ Ending, pc \notin {"receive", "serve"},
           Push => UNCHANGED effects,
           pc \notin Moving /\ pc' \notin Moving => UNCHANGED effects,
           pc \in Moving => pc' \in Moving /\ UNCHANGED effects,
           pc \notin Moving /\ pc' \in Moving /\ ~Push => effects' = {attempt},
           Put' = Put, Got' = Got, ClientKnows'
    PROVE  IInv'
<1>1. Active'
  BY DEF Active
<1>2. Incoming' /\ Outgoing'
  BY ClientWritesNothing, ClientReadsNothing DEF IInv, Session
<1>3. /\ Len(toPeer') <= PipeCap /\ Len(toClient') <= PipeCap
      /\ sum' \in PeerSums /\ sel' \in 0 .. 32 /\ frames' \in 0 .. DataFrames
  BY DEF IInv, Types
<1> QED BY <1>1, <1>2, <1>3, ClientGoesOn

\* The protected arguments, if there are any.
LEMMA ArgsStep ==
    ASSUME IInv, write_remote_shell_protected_args
    PROVE  IInv'
<1> USE DEF Session
<1>1. /\ pc = "args" /\ Active /\ UNCHANGED <<Session, sel, sum, frames, effects>> /\ faults' = faults
      /\ client.via = "shell"
  BY ShellAssumption
  DEF write_remote_shell_protected_args, ClientFrame, Active, Ending, IInv, ClientKnows, Opening, Types
<1>2. CASE client.secluded
  <2>1. Send("args", "version", FALSE)
    BY <1>2 DEF write_remote_shell_protected_args
  <2>2. Args = 1 /\ Put = 0
    BY <1>1, <1>2 DEF Args, Bit, Put
  <2>3. In(Put + 1) = "args"
    BY <2>2 DEF In
  <2>4. ASSUME Alive PROVE Put' = Put + 1 /\ Got' = Got /\ ClientKnows' /\ frames' \in 0 .. DataFrames
    <3>1. pc' = "version" /\ UNCHANGED err
      BY <2>1, <2>4 DEF Send
    <3>2. Put' = Put + 1 /\ Got' = Got
      BY <1>1, <2>2, <3>1, SameScripts DEF Put, Got, Opening
    <3>3. ClientKnows'
      BY <1>1, <3>1, SameScripts DEF IInv, ClientKnows, Active, Opening, Moving, Ending
    <3> QED BY <1>1, <3>2, <3>3 DEF IInv, Types
  <2> QED BY <1>1, <2>1, <2>3, <2>4, ClientSends DEF Places, Opening, Ending, Moving, Settling
<1>3. CASE ~client.secluded
  <2>1. pc' = "version" /\ UNCHANGED <<err, toPeer, toClient>>
    BY <1>3 DEF write_remote_shell_protected_args
  <2>2. Put' = Put /\ Got' = Got
    BY <1>1, <1>3, <2>1, SameScripts DEF Put, Got, Opening, Args, Bit
  <2>3. ClientKnows'
    BY <1>1, <2>1, SameScripts DEF IInv, ClientKnows, Active, Opening, Moving, Ending
  <2> QED BY <1>1, <2>1, <2>2, <2>3, ClientMoves DEF Places, Opening, Ending, Moving, Settling
<1> QED BY <1>2, <1>3

\* The client's version.
LEMMA VersionStep ==
    ASSUME IInv, write_local_version
    PROVE  IInv'
<1> USE DEF Session
<1>1. /\ pc = "version" /\ Active /\ UNCHANGED <<Session, sel, sum, frames, effects>> /\ faults' = faults
      /\ client.via = "shell" /\ Setup \in BOOLEAN
      /\ Send(<<"version", attempt>>, "prefix", Setup)
  BY ShellAssumption
  DEF write_local_version, ClientFrame, Active, Ending, IInv, ClientKnows, Opening, Types, Setup
<1>2. Put = Args /\ Prefixes = 1 /\ Hello = Args + 1 /\ Args \in {0, 1}
  BY <1>1, Numbers DEF Prefixes, Bit, Put, Hello, IInv
<1>3. In(Put + 1) = <<"version", attempt>>
  BY <1>2 DEF In
<1>4. ASSUME Alive PROVE Put' = Put + 1 /\ Got' = Got /\ ClientKnows' /\ frames' \in 0 .. DataFrames
  <2>1. pc' = "prefix" /\ UNCHANGED err
    BY <1>1, <1>4 DEF Send
  <2>2. Put' = Put + 1 /\ Got' = Got
    BY <1>1, <1>2, <2>1, SameScripts DEF Put, Got, Opening
  <2>3. ClientKnows'
    BY <1>1, <2>1, SameScripts DEF IInv, ClientKnows, Active, Opening, Moving, Ending
  <2> QED BY <1>1, <2>2, <2>3 DEF IInv, Types
<1> QED BY <1>1, <1>3, <1>4, ClientSends DEF Places, Opening, Ending, Moving, Settling

\* What the first four bytes tell.
LEMMA PrefixTold ==
    ASSUME Types, client.via = "shell"
    PROVE  LET verdict == validate_protocol_stream_prefix(peer.prefix)
               chosen  == negotiate_protocol_version_with_local(peer.prefix[1], attempt)
           IN /\ verdict \in {"ok", "NonProtocolOutput", "InvalidProtocolPrefix"}
              /\ verdict = "ok" => chosen \in 0 .. 32
              /\ verdict = "ok" /\ peer.version # 0 => chosen = Lesser(attempt, peer.version)
              /\ peer.version \in 27 .. 32 => verdict = "ok"
<1>1. /\ peer.prefix \in [1 .. 4 -> 0 .. 255] /\ peer.version \in 0 .. 255 /\ attempt \in {27, 31}
      /\ peer.version # 0 => peer.prefix = <<peer.version, 0, 0, 0>>
  BY ShellAssumption DEF Types
<1>2. /\ peer.prefix[1] \in 0 .. 255 /\ peer.prefix[2] \in 0 .. 255
      /\ peer.prefix[3] \in 0 .. 255 /\ peer.prefix[4] \in 0 .. 255
  BY <1>1
<1>3. validate_protocol_stream_prefix(peer.prefix) \in {"ok", "NonProtocolOutput", "InvalidProtocolPrefix"}
  BY DEF validate_protocol_stream_prefix
<1>4. negotiate_protocol_version_with_local(peer.prefix[1], attempt) \in 0 .. 32
  BY <1>1, <1>2 DEF negotiate_protocol_version_with_local, Lesser, MAX_PROTOCOL_VERSION
<1>5. ASSUME peer.version # 0 PROVE peer.prefix[1] = peer.version
  BY <1>1, <1>5
<1>6. ASSUME peer.version # 0
      PROVE  negotiate_protocol_version_with_local(peer.prefix[1], attempt) = Lesser(attempt, peer.version)
  BY <1>1, <1>5, <1>6 DEF negotiate_protocol_version_with_local, Lesser, MAX_PROTOCOL_VERSION
<1>7. ASSUME peer.version \in 27 .. 32 PROVE validate_protocol_stream_prefix(peer.prefix) = "ok"
  <2>1. /\ peer.prefix[1] = peer.version /\ peer.prefix[2] = 0
        /\ peer.prefix[3] = 0 /\ peer.prefix[4] = 0
    BY <1>1, <1>7
  <2>2. U32(peer.prefix) = peer.version
    BY <1>7, <2>1 DEF U32
  <2>3. ~IsGraphic(peer.prefix[1])
    BY <1>7, <2>1 DEF IsGraphic
  <2>4. \A i \in 1 .. 4 : ~IsAlphabetic(peer.prefix[i])
    BY <1>7, <2>1 DEF IsAlphabetic
  <2> QED BY <1>7, <2>1, <2>2, <2>3, <2>4
      DEF validate_protocol_stream_prefix, MIN_PROTOCOL_VERSION, MAX_PROTOCOL_VERSION
<1> QED BY <1>3, <1>4, <1>6, <1>7

\* The message that the client reads next.
LEMMA NextIn ==
    ASSUME IInv, Active, Receive
    PROVE  m0 = Out(Got + 1)
<1>1. toClient # << >> /\ Len(toClient) >= 1 /\ toClient \in Seq(Spoken) /\ Head(toClient) = toClient[1]
  BY TailOf DEF Receive, IInv, Incoming
<1>2. toClient[1] = Out(Got + 1)
  BY <1>1 DEF IInv, Incoming
<1> QED BY <1>1, <1>2 DEF m0

\* The peer's version, or what a login shell printed.
LEMMA PrefixStep ==
    ASSUME IInv, ReadPrefix
    PROVE  IInv'
<1> USE DEF Session
<1>1. /\ pc = "prefix" /\ Active /\ UNCHANGED Session /\ faults' = faults
      /\ client.via = "shell" /\ Setup \in BOOLEAN /\ effects = {} /\ sum = NoName
      /\ (Setup <=> attempt = 31) /\ attempt \in {27, 31}
  BY ShellAssumption
  DEF ReadPrefix, ClientFrame, Active, Ending, IInv, ClientKnows, Opening, Types, Setup, Clean, Moving,
      REMOTE_SHELL_MODERN_PROTOCOL
<1>2. CASE Eof("UnexpectedEof", Setup)
  BY <1>1, <1>2, ClientAtEof DEF ErrorKinds, NegotiationErrors
<1>3. CASE Receive /\ ~Eof("UnexpectedEof", Setup)
  <2> DEFINE verdict == validate_protocol_stream_prefix(peer.prefix)
             chosen == negotiate_protocol_version_with_local(peer.prefix[1], attempt)
  <2>1. Prefixes = 1 /\ Got = 0 /\ Put = Hello /\ Hello \in Nat /\ Agreed \in Nat /\ Hello <= Agreed
    BY <1>1, Numbers DEF Prefixes, Bit, Got, Put, Opening, IInv, Agreed
  <2>2. Out(1) = <<"prefix", peer.prefix>>
    BY <2>1 DEF Out
  <2>4. m0 = <<"prefix", peer.prefix>>
    BY <1>1, <1>3, <2>1, <2>2, NextIn
  <2>5. /\ verdict \in {"ok", "NonProtocolOutput", "InvalidProtocolPrefix"}
        /\ verdict = "ok" => chosen \in 0 .. 32
        /\ verdict = "ok" /\ peer.version # 0 => chosen = Lesser(attempt, peer.version)
        /\ peer.version \in 27 .. 32 => verdict = "ok"
    BY <1>1, PrefixTold DEF IInv
  <2>6. /\ UNCHANGED <<sum, frames, effects>>
        /\ IF verdict # "ok" THEN Fail(verdict, Setup) /\ UNCHANGED sel
           ELSE IF Setup /\ chosen # 31
           THEN Fail("UnsupportedProtocol", TRUE) /\ UNCHANGED sel
           ELSE sel' = chosen /\ pc' = (IF Setup THEN "flags" ELSE "seed") /\ UNCHANGED err
    BY <1>1, <1>3, <2>4 DEF ReadPrefix, REMOTE_SHELL_MODERN_PROTOCOL
  <2> HIDE DEF verdict, chosen
  <2>7. CASE verdict # "ok"
    <3>1. pc' = "close" /\ err' = [kind |-> verdict, setup |-> Setup] /\ UNCHANGED sel
      BY <2>6, <2>7 DEF Fail
    <3>2. err' \in [kind : ErrorKinds \ {"none"}, setup : BOOLEAN]
      BY <1>1, <2>5, <2>7, <3>1 DEF ErrorKinds
    <3>3. ~(peer.version \in 27 .. 32)
      BY <2>5, <2>7
    <3> QED BY <1>1, <1>3, <2>1, <2>6, <3>1, <3>2, <3>3, ClientFails DEF Receive
  <2>8. CASE verdict = "ok" /\ Setup /\ chosen # 31
    <3>1. pc' = "close" /\ err' = [kind |-> "UnsupportedProtocol", setup |-> TRUE] /\ UNCHANGED sel
      BY <2>6, <2>8 DEF Fail
    <3>2. err' \in [kind : ErrorKinds \ {"none"}, setup : BOOLEAN] /\ should_fallback_to_protocol27(err')
      BY <3>1 DEF ErrorKinds, should_fallback_to_protocol27, NegotiationErrors
    <3> QED BY <1>1, <1>3, <2>1, <2>6, <2>8, <3>1, <3>2, ClientFails DEF Receive
  <2>9. CASE verdict = "ok" /\ ~(Setup /\ chosen # 31)
    <3>1. sel' = chosen /\ pc' = (IF Setup THEN "flags" ELSE "seed") /\ UNCHANGED err
      BY <2>6, <2>9
    <3>2. ASSUME Setup PROVE Modern
      <4>1. attempt = 31 /\ chosen = 31 /\ peer.version \in Nat
        <5>1. attempt = 31 /\ chosen = 31
          BY <1>1, <2>9, <3>2
        <5>2. peer.version \in 0 .. 255
          BY ShellAssumption DEF IInv, Types
        <5> QED BY <5>1, <5>2
      <4>2. peer.version = 0 \/ 31 = Lesser(31, peer.version)
        BY <2>5, <2>9, <4>1
      <4> QED BY <4>1, <4>2 DEF Modern, Lesser
    <3>3. ~Setup => ~Modern /\ ~Negotiated /\ Flags = 0 /\ Lists = 0
      BY <1>1 DEF Modern, Negotiated, Flags, Lists, Bit
    <3>4. Put' = Put /\ Got' = Got + 1
      BY <1>1, <2>1, <3>1, <3>3, SameScripts DEF Put, Got, Opening, Agreed, Early
    <3>5. ClientKnows'
      BY <1>1, <2>5, <2>6, <2>9, <3>1, <3>2, <3>3, SameScripts
      DEF IInv, ClientKnows, Active, Opening, Moving, Ending
    <3>6. frames' \in 0 .. DataFrames /\ sum' \in PeerSums /\ sel' \in 0 .. 32
      BY <2>5, <2>6, <2>9, <3>1 DEF IInv, Types
    <3> QED BY <1>1, <1>3, <2>6, <3>1, <3>4, <3>5, <3>6, ClientTakes
        DEF Places, Opening, Ending, Moving, Settling
  <2> QED BY <2>7, <2>8, <2>9
<1> QED BY <1>2, <1>3 DEF ReadPrefix

\* The compatibility flags decide whether checksums are negotiated.
LEMMA FlagsStep ==
    ASSUME IInv, ReadCompatFlags
    PROVE  IInv'
<1> USE DEF Session
<1>1. /\ pc = "flags" /\ Active /\ UNCHANGED Session /\ faults' = faults
      /\ Setup = TRUE /\ effects = {} /\ sum = NoName
      /\ attempt = 31 /\ Modern
  BY DEF ReadCompatFlags, ClientFrame, Active, Ending, IInv, ClientKnows, Opening, Types, Setup, Clean,
      Moving, REMOTE_SHELL_MODERN_PROTOCOL
<1>2. CASE Eof("UnexpectedEof", Setup)
  BY <1>1, <1>2, ClientAtEof DEF ErrorKinds, NegotiationErrors
<1>3. CASE Receive /\ ~Eof("UnexpectedEof", Setup)
  <2>1. /\ Got = Prefixes /\ Flags = 1 /\ Prefixes \in {0, 1} /\ Lists \in {0, 1}
        /\ Put = Hello /\ Hello \in Nat /\ Agreed = Hello + Lists
    BY <1>1, Numbers DEF Flags, Bit, Got, Put, Opening, IInv, Agreed
  <2>2. Out(Got + 1) = <<"flags", peer.negotiates>>
    BY <2>1 DEF Out
  <2>3. m0 = <<"flags", peer.negotiates>>
    BY <1>1, <1>3, <2>2, NextIn
  <2>4. /\ pc' = IF ~peer.negotiates THEN "seed" ELSE IF NamesFirst THEN "offer" ELSE "names"
        /\ UNCHANGED <<err, sel, sum, frames, effects>>
    BY <1>3, <2>3 DEF ReadCompatFlags
  <2>5. Negotiated <=> peer.negotiates
    BY <1>1 DEF Negotiated
  <2>6. Put' = Put /\ Got' = Got + 1
    <3>1. CASE peer.negotiates
      BY <1>1, <2>1, <2>4, <3>1, SameScripts DEF Put, Got, Opening
    <3>2. CASE ~peer.negotiates
      <4>1. Lists = 0 /\ pc' = "seed"
        BY <2>4, <2>5, <3>2 DEF Lists, Bit
      <4> QED BY <1>1, <2>1, <4>1, SameScripts DEF Put, Got, Opening, Early
    <3> QED BY <3>1, <3>2
  <2>7. ClientKnows'
    BY <1>1, <2>4, <2>5, SameScripts DEF IInv, ClientKnows, Active, Opening, Moving, Ending
  <2>8. frames' \in 0 .. DataFrames /\ sum' \in PeerSums /\ sel' \in 0 .. 32
    BY <2>4 DEF IInv, Types
  <2>9. pc' \in {"seed", "offer", "names"}
    BY <2>4
  <2> QED BY <1>1, <1>3, <2>4, <2>6, <2>7, <2>8, <2>9, ClientTakes
      DEF Places, Opening, Ending, Moving, Settling
<1> QED BY <1>2, <1>3 DEF ReadCompatFlags

\* FirstOf finds an element, or none.
LEMMA FirstFound ==
    ASSUME NEW list, NEW S
    PROVE  /\ FirstOf(list, S) \in S \cup {NoName}
           /\ FirstOf(list, S) # NoName => FirstOf(list, S) \in S
<1> DEFINE first == {i \in DOMAIN list : list[i] \in S /\ \A j \in DOMAIN list : list[j] \in S => i <= j}
<1>1. CASE first = {}
  BY <1>1 DEF FirstOf
<1>2. CASE first # {}
  <2>1. (CHOOSE i \in first : TRUE) \in first
    BY <1>2
  <2>2. list[CHOOSE i \in first : TRUE] \in S
    BY <2>1
  <2>3. FirstOf(list, S) = list[CHOOSE i \in first : TRUE]
    BY <1>2 DEF FirstOf
  <2> QED BY <2>2, <2>3
<1> QED BY <1>1, <1>2

\* No server calls a checksum "auto".
LEMMA NoAuto ==
    ASSUME Types
    PROVE  NamesOf(peer.sums) \ {"auto"} = NamesOf(peer.sums)
<1>1. peer.sums \in Seq({peer.sums[i] : i \in DOMAIN peer.sums} \ {"auto"})
  BY ShellAssumption DEF Types
<1>2. \A i \in DOMAIN peer.sums : peer.sums[i] # "auto"
  BY <1>1
<1> QED BY <1>2 DEF NamesOf

\* A daemon client that pushes names its checksums first.
LEMMA OfferStep ==
    ASSUME IInv, OfferChecksums
    PROVE  IInv'
<1> USE DEF Session
<1>1. /\ pc = "offer" /\ Active /\ UNCHANGED <<Session, sel, sum, frames, effects>> /\ faults' = faults
      /\ Send(<<"names", protocol31_client_checksum_list>>, "names", TRUE)
      /\ NamesFirst /\ Negotiated
  BY DEF OfferChecksums, ClientFrame, Active, Ending, IInv, ClientKnows
<1>2. Put = Hello /\ Lists = 1 /\ Agreed = Hello + 1 /\ Hello \in Nat /\ Args <= Hello /\ Args \in Nat
  BY <1>1, Numbers DEF Lists, Bit, Put, Hello, Agreed, IInv
<1>3. In(Put + 1) = <<"names", protocol31_client_checksum_list>>
  BY <1>1, <1>2 DEF In, Offer
<1>4. ASSUME Alive PROVE Put' = Put + 1 /\ Got' = Got /\ ClientKnows' /\ frames' \in 0 .. DataFrames
  <2>1. pc' = "names" /\ UNCHANGED err
    BY <1>1, <1>4 DEF Send
  <2>2. Put' = Put + 1 /\ Got' = Got
    BY <1>1, <1>2, <2>1, SameScripts DEF Put, Got, Opening
  <2>3. ClientKnows'
    BY <1>1, <2>1, SameScripts DEF IInv, ClientKnows, Active, Opening, Moving, Ending
  <2> QED BY <1>1, <2>2, <2>3 DEF IInv, Types
<1> QED BY <1>1, <1>3, <1>4, ClientSends DEF Places, Opening, Ending, Moving, Settling

\* The peer's checksums: one of them is chosen, or there is none in common.
LEMMA NamesStep ==
    ASSUME IInv, ReadChecksumList
    PROVE  IInv'
<1> USE DEF Session
<1>1. /\ pc = "names" /\ Active /\ UNCHANGED Session /\ faults' = faults
      /\ effects = {} /\ sum = NoName /\ attempt = 31 /\ Negotiated
  BY DEF ReadChecksumList, ClientFrame, Active, Ending, IInv, ClientKnows, Opening, Clean, Moving
<1>2. CASE Eof("UnexpectedEof", TRUE)
  BY <1>1, <1>2, ClientAtEof DEF ErrorKinds, NegotiationErrors
<1>3. CASE Receive /\ ~Eof("UnexpectedEof", TRUE)
  <2> DEFINE name == FirstOf(protocol31_client_checksum_list, NamesOf(peer.sums))
  <2>1. /\ Got = Prefixes + Flags /\ Lists = 1 /\ Prefixes \in {0, 1} /\ Flags \in {0, 1}
        /\ Put = (IF NamesFirst THEN Agreed ELSE Hello) /\ Hello \in Nat /\ Agreed = Hello + 1
    BY <1>1, Numbers DEF Lists, Bit, Got, Put, Opening, IInv, Agreed
  <2>2. Out(Got + 1) = <<"names", peer.sums>>
    BY <2>1 DEF Out, Early
  <2>3. m0 = <<"names", peer.sums>>
    BY <1>1, <1>3, <2>2, NextIn
  <2>4. select_protocol31_checksum(protocol31_client_checksum_list, m0[2]) = name
    BY <2>3, NoAuto DEF select_protocol31_checksum, IInv
  <2>5. /\ UNCHANGED <<sel, frames, effects>>
        /\ IF m0[2] = <<"not_utf8">> THEN Fail("InvalidChecksumList", TRUE) /\ UNCHANGED sum
           ELSE IF name = NoName THEN Fail("UnsupportedChecksumNegotiation", TRUE) /\ UNCHANGED sum
           ELSE sum' = name /\ pc' = (IF NamesFirst THEN "seed" ELSE "choice") /\ UNCHANGED err
    BY <1>3, <2>4 DEF ReadChecksumList
  <2>6. name # NoName => name \in NamesOf(peer.sums)
    BY FirstFound
  <2> HIDE DEF name
  <2>7. ASSUME NEW kind \in {"InvalidChecksumList", "UnsupportedChecksumNegotiation"},
               Fail(kind, TRUE), UNCHANGED sum
        PROVE  IInv'
    <3>1. pc' = "close" /\ err' = [kind |-> kind, setup |-> TRUE]
      BY <2>7 DEF Fail
    <3>2. err' \in [kind : ErrorKinds \ {"none"}, setup : BOOLEAN] /\ should_fallback_to_protocol27(err')
      BY <3>1 DEF ErrorKinds, should_fallback_to_protocol27, NegotiationErrors
    <3>3. Put <= Agreed
      BY <2>1
    <3> QED BY <1>1, <1>3, <2>5, <2>7, <3>1, <3>2, <3>3, ClientFails DEF Receive
  <2>8. ASSUME sum' = name, name # NoName, pc' = (IF NamesFirst THEN "seed" ELSE "choice"), UNCHANGED err
        PROVE  IInv'
    <3>1. Put' = Put /\ Got' = Got + 1
      BY <1>1, <2>1, <2>8, SameScripts DEF Put, Got, Opening, Early
    <3>2. NamesFirst => name = FirstOf(Offer', NamesOf(peer.sums))
      BY <1>1, SameScripts DEF name, Offer
    <3>3. ClientKnows'
      BY <1>1, <2>5, <2>6, <2>8, <3>2, SameScripts
      DEF IInv, ClientKnows, Active, Opening, Moving, Ending
    <3>4. frames' \in 0 .. DataFrames /\ sum' \in PeerSums /\ sel' \in 0 .. 32
      BY <2>5, <2>6, <2>8 DEF IInv, Types, PeerSums
    <3>5. pc' \in {"seed", "choice"}
      BY <2>8
    <3>6. NamesFirst \/ Put <= Hello
      BY <2>1
    <3> QED BY <1>1, <1>3, <2>5, <2>8, <3>1, <3>3, <3>4, <3>5, <3>6, ClientTakes
        DEF Places, Opening, Ending, Moving, Settling
  <2> QED BY <2>5, <2>7, <2>8
<1> QED BY <1>2, <1>3 DEF ReadChecksumList

\* The client of a shell answers with the name it has chosen.
LEMMA ChoiceStep ==
    ASSUME IInv, WriteChosenChecksum
    PROVE  IInv'
<1> USE DEF Session
<1>1. /\ pc = "choice" /\ Active /\ UNCHANGED <<Session, sel, sum, frames, effects>> /\ faults' = faults
      /\ Send(<<"names", <<sum>>>>, "seed", TRUE)
      /\ ~NamesFirst /\ Negotiated
  BY DEF WriteChosenChecksum, ClientFrame, Active, Ending, IInv, ClientKnows
<1>2. Put = Hello /\ Lists = 1 /\ Agreed = Hello + 1 /\ Hello \in Nat /\ Args <= Hello /\ Args \in Nat
  BY <1>1, Numbers DEF Lists, Bit, Put, Hello, Agreed, IInv
<1>3. In(Put + 1) = <<"names", <<sum>>>>
  BY <1>1, <1>2 DEF In, Offer
<1>4. ASSUME Alive PROVE Put' = Put + 1 /\ Got' = Got /\ ClientKnows' /\ frames' \in 0 .. DataFrames
  <2>1. pc' = "seed" /\ UNCHANGED err
    BY <1>1, <1>4 DEF Send
  <2>2. Put' = Put + 1 /\ Got' = Got
    BY <1>1, <1>2, <2>1, SameScripts DEF Put, Got, Opening
  <2>3. ClientKnows'
    BY <1>1, <2>1, SameScripts, SameAnswers DEF IInv, ClientKnows, Active, Opening, Moving, Ending
  <2> QED BY <1>1, <2>2, <2>3 DEF IInv, Types
<1> QED BY <1>1, <1>3, <1>4, ClientSends DEF Places, Opening, Ending, Moving, Settling

\* The seed ends the set-up.
LEMMA SeedStep ==
    ASSUME IInv, ReadSeed
    PROVE  IInv'
<1> USE DEF Session
<1>1. /\ pc = "seed" /\ Active /\ UNCHANGED Session /\ faults' = faults
      /\ Setup \in BOOLEAN /\ (Setup <=> attempt = 31) /\ effects = {} /\ attempt \in {27, 31}
  BY DEF ReadSeed, ClientFrame, Active, Ending, IInv, Types, Setup, Clean, Moving,
      REMOTE_SHELL_MODERN_PROTOCOL
<1>2. CASE Eof("UnexpectedEof", Setup)
  BY <1>1, <1>2, ClientAtEof DEF ErrorKinds, NegotiationErrors
<1>3. CASE Receive /\ ~Eof("UnexpectedEof", Setup)
  <2>1. /\ Got = Early /\ Put = Agreed /\ Seed = Early + 1
        /\ Got \in Nat /\ Got + Len(toClient) >= Got + 1
    <3>1. toClient # << >> /\ Len(toClient) >= 1
      BY <1>3, TailOf DEF Receive, IInv, Incoming
    <3> QED BY <1>1, <3>1, Numbers DEF Got, Put, Opening, IInv, Seed
  <2>2. UNCHANGED <<sel, sum, frames, effects>>
        /\ IF ~Setup /\ sel # 27 THEN Fail("UnsupportedProtocol", FALSE)
           ELSE pc' = "filter" /\ UNCHANGED err
    BY <1>3 DEF ReadSeed, REMOTE_SHELL_MVP_PROTOCOL
  <2>3. peer.version # 0
    <3>1. Prefixes <= Early /\ Early \in Nat /\ Prefixes \in Nat
      BY Numbers DEF IInv, Early
    <3> QED BY <1>1, <2>1, <3>1 DEF IInv, Mute
  <2>4. CASE ~Setup /\ sel # 27
    <3>1. pc' = "close" /\ err' = [kind |-> "UnsupportedProtocol", setup |-> FALSE]
      BY <2>2, <2>4 DEF Fail
    <3>2. err' \in [kind : ErrorKinds \ {"none"}, setup : BOOLEAN]
      BY <3>1 DEF ErrorKinds
    <3>3. attempt = 27 /\ ~(peer.version \in 27 .. 32)
      <4>1. attempt = 27
        BY <1>1, <2>4
      <4>2. peer.version # 0 => sel = Lesser(27, peer.version)
        BY <1>1, <4>1 DEF IInv, ClientKnows, Opening
      <4> QED BY <2>4, <4>1, <4>2 DEF Lesser
    <3> QED BY <1>1, <1>3, <2>2, <3>1, <3>2, <3>3, ClientFails DEF Receive
  <2>5. CASE ~(~Setup /\ sel # 27)
    <3>1. pc' = "filter" /\ UNCHANGED err
      BY <2>2, <2>5
    <3>2. Put' = Put /\ Got' = Got + 1
      BY <1>1, <2>1, <3>1, SameScripts DEF Put, Got, Opening
    <3>4. ClientKnows'
      BY <1>1, <2>2, <2>3, <2>5, <3>1, SameScripts, SameAnswers
      DEF IInv, ClientKnows, Active, Opening, Moving, Ending
    <3>5. frames' \in 0 .. DataFrames /\ sum' \in PeerSums /\ sel' \in 0 .. 32
      BY <2>2 DEF IInv, Types
    <3> QED BY <1>1, <1>3, <2>2, <3>1, <3>2, <3>4, <3>5, ClientTakes
        DEF Places, Opening, Ending, Moving, Settling
  <2> QED BY <2>4, <2>5
<1> QED BY <1>2, <1>3 DEF ReadSeed

\* The empty filter list.
LEMMA FilterStep ==
    ASSUME IInv, WriteFilterEnd
    PROVE  IInv'
<1> USE DEF Session
<1>1. /\ pc = "filter" /\ Active /\ UNCHANGED <<Session, sel, sum, frames, effects>> /\ faults' = faults
      /\ Setup \in BOOLEAN
  BY DEF WriteFilterEnd, ClientFrame, Active, Ending, Setup
<1>2. Put = Agreed /\ Agreed \in Nat /\ Hello <= Agreed /\ Args <= Hello /\ Args \in Nat /\ Hello \in Nat
  BY <1>1, Numbers DEF Put, Hello, Agreed, IInv
<1>3. CASE Push /\ ~client.delete
  <2>1. pc' = "list" /\ UNCHANGED <<err, toPeer, toClient>>
    BY <1>3 DEF WriteFilterEnd
  <2>2. Filters = 0
    BY <1>3 DEF Filters, Bit
  <2>3. Put' = Put /\ Got' = Got
    BY <1>1, <1>2, <2>1, <2>2, SameScripts DEF Put, Got, Opening
  <2>4. ClientKnows'
    BY <1>1, <2>1, SameScripts, SameAnswers DEF IInv, ClientKnows, Active, Opening, Moving, Ending
  <2> QED BY <1>1, <2>1, <2>3, <2>4, ClientMoves DEF Places, Opening, Ending, Moving, Settling
<1>4. CASE ~(Push /\ ~client.delete)
  <2>1. Send("filter", "list", Setup)
    BY <1>4 DEF WriteFilterEnd
  <2>2. Filters = 1
    BY <1>4 DEF Filters, Bit
  <2>3. In(Put + 1) = "filter"
    BY <1>2, <2>2 DEF In
  <2>4. ASSUME Alive PROVE Put' = Put + 1 /\ Got' = Got /\ ClientKnows' /\ frames' \in 0 .. DataFrames
    <3>1. pc' = "list" /\ UNCHANGED err
      BY <2>1, <2>4 DEF Send
    <3>2. Put' = Put + 1 /\ Got' = Got
      BY <1>1, <1>2, <2>2, <3>1, SameScripts DEF Put, Got, Opening
    <3>3. ClientKnows'
      BY <1>1, <3>1, SameScripts, SameAnswers DEF IInv, ClientKnows, Active, Opening, Moving, Ending
    <3> QED BY <1>1, <3>2, <3>3 DEF IInv, Types
  <2> QED BY <1>1, <2>1, <2>3, <2>4, ClientSends DEF Places, Opening, Ending, Moving, Settling
<1> QED BY <1>3, <1>4

\* The file list of a push.
LEMMA SendListStep ==
    ASSUME IInv, WriteFileList
    PROVE  IInv'
<1> USE DEF Session
<1>1. /\ pc = "list" /\ Push /\ Active /\ UNCHANGED <<Session, sel, sum, frames, effects>>
      /\ faults' = faults /\ Setup \in BOOLEAN /\ Send("list", "algorithm", Setup) /\ frames = 0
  BY DEF WriteFileList, ClientFrame, Active, Ending, Setup, IInv, ClientKnows
<1>2. /\ Put = Agreed + Filters /\ Asked = Agreed + Filters + 1
      /\ Agreed \in Nat /\ Hello <= Agreed /\ Args <= Hello /\ Args \in Nat /\ Hello \in Nat
      /\ Filters \in {0, 1} /\ Seed \in Nat
  BY <1>1, Numbers DEF Put, Hello, Agreed, Asked, IInv
<1>3. In(Put + 1) = "list"
  BY <1>1, <1>2 DEF In
<1>4. ASSUME Alive PROVE Put' = Put + 1 /\ Got' = Got /\ ClientKnows' /\ frames' \in 0 .. DataFrames
  <2>1. pc' = "algorithm" /\ UNCHANGED err
    BY <1>1, <1>4 DEF Send
  <2>2. Put' = Put + 1 /\ Got' = Got
    BY <1>1, <1>2, <2>1, SameScripts DEF Put, Got, Opening
  <2>3. ClientKnows'
    BY <1>1, <2>1, SameScripts, SameAnswers DEF IInv, ClientKnows, Active, Opening, Moving, Ending
  <2> QED BY <1>1, <2>2, <2>3 DEF IInv, Types
<1> QED BY <1>1, <1>3, <1>4, ClientSends DEF Places, Opening, Ending, Moving, Settling

\* The file list of a pull, which may be refused.
LEMMA ReadListStep ==
    ASSUME IInv, ReadFileList
    PROVE  IInv'
<1> USE DEF Session
<1>1. /\ pc = "list" /\ ~Push /\ Active /\ UNCHANGED Session /\ Setup \in BOOLEAN /\ frames = 0
  BY DEF ReadFileList, Active, Ending, Setup, IInv, ClientKnows
<1>2. CASE Eof("FileListError", Setup) /\ UNCHANGED faults
  BY <1>1, <1>2, ClientAtEof DEF ErrorKinds, NegotiationErrors
<1>3. CASE /\ Receive /\ Fail("BadFileList", FALSE) /\ faults' = faults \cup {"list"}
           /\ UNCHANGED <<sel, sum, frames, effects>>
  <2>1. pc' = "close" /\ err' = [kind |-> "BadFileList", setup |-> FALSE]
    BY <1>3 DEF Fail
  <2>2. err' \in [kind : ErrorKinds \ {"none"}, setup : BOOLEAN] /\ ~should_fallback_to_protocol27(err')
    BY <2>1 DEF ErrorKinds, should_fallback_to_protocol27, NegotiationErrors
  <2>3. faults' # {}
    BY <1>3
  <2> QED BY <1>1, <1>3, <2>1, <2>2, <2>3, ClientFails DEF Receive
<1>4. CASE /\ Receive /\ pc' = "apply" /\ UNCHANGED <<err, faults>>
           /\ UNCHANGED <<sel, sum, frames, effects>>
  <2>1. Got = Seed /\ Seed \in Nat
    BY <1>1, Numbers DEF Got, Opening, IInv
  <2>2. Put' = Put /\ Got' = Got + 1
    BY <1>1, <1>4, <2>1, SameScripts DEF Put, Got, Opening
  <2>3. ClientKnows'
    BY <1>1, <1>4, SameScripts, SameAnswers DEF IInv, ClientKnows, Active, Opening, Moving, Ending
  <2>4. frames' \in 0 .. DataFrames /\ sum' \in PeerSums /\ sel' \in 0 .. 32
    BY <1>4 DEF IInv, Types
  <2> QED BY <1>1, <1>4, <2>2, <2>3, <2>4, ClientTakes DEF Places, Opening, Ending, Moving, Settling
<1> QED BY <1>2, <1>3, <1>4 DEF ReadFileList

\* The first effect of a pull.
LEMMA ApplyStep ==
    ASSUME IInv, ApplyFileList
    PROVE  IInv'
<1> USE DEF Session
<1>1. /\ pc = "apply" /\ ~Push /\ Active /\ UNCHANGED <<Session, err, toPeer, toClient, sel, sum, frames>>
      /\ faults' = faults /\ frames = 0 /\ effects = {} /\ effects' = {attempt} /\ pc' = "algorithm"
  BY DEF ApplyFileList, ClientFrame, Active, Ending, IInv, ClientKnows, Clean, Moving
<1>2. Put' = Put /\ Got' = Got
  BY <1>1, SameScripts DEF Put, Got, Opening
<1>3. ClientKnows'
  BY <1>1, SameScripts, SameAnswers DEF IInv, ClientKnows, Active, Opening, Moving, Ending
<1> QED BY <1>1, <1>2, <1>3, ClientMoves DEF Places, Opening, Ending, Moving, Settling

\* The checksum may be one that the client cannot compute.
LEMMA LookUpStep ==
    ASSUME IInv, LookUpChecksum
    PROVE  IInv'
<1> USE DEF Session
<1>1. /\ pc = "algorithm" /\ Active /\ UNCHANGED <<Session, toPeer, toClient, sel, sum, frames, effects>>
      /\ faults' = faults /\ frames = 0
  BY DEF LookUpChecksum, ClientFrame, Active, Ending, IInv, ClientKnows
<1>2. CASE Fail("UnknownAlgorithm", FALSE)
  <2>1. pc' = "close" /\ err' = [kind |-> "UnknownAlgorithm", setup |-> FALSE]
    BY <1>2 DEF Fail
  <2>2. err' \in [kind : ErrorKinds \ {"none"}, setup : BOOLEAN] /\ ~should_fallback_to_protocol27(err')
    BY <2>1 DEF ErrorKinds, should_fallback_to_protocol27, NegotiationErrors
  <2> QED BY <1>1, <2>1, <2>2, ClientFails
<1>3. CASE pc' = (IF Push THEN "serve" ELSE "request") /\ UNCHANGED err
  <2>1. Put' = Put /\ Got' = Got
    BY <1>1, <1>3, SameScripts DEF Put, Got, Opening
  <2>2. ClientKnows'
    BY <1>1, <1>3, SameScripts, SameAnswers DEF IInv, ClientKnows, Active, Opening, Moving, Ending
  <2>3. pc' \in {"serve", "request"}
    BY <1>3
  <2> QED BY <1>1, <1>3, <2>1, <2>2, <2>3, ClientMoves DEF Places, Opening, Ending, Moving, Settling
<1> QED BY <1>2, <1>3 DEF LookUpChecksum

\* The request of a pull.
LEMMA RequestStep ==
    ASSUME IInv, RequestFiles
    PROVE  IInv'
<1> USE DEF Session
<1>1. /\ pc = "request" /\ ~Push /\ Active /\ UNCHANGED <<Session, sel, sum, frames, effects>>
      /\ faults' = faults /\ Send("request", "receive", FALSE) /\ frames = 0
  BY DEF RequestFiles, ClientFrame, Active, Ending, IInv, ClientKnows
<1>2. /\ Put = Agreed + Filters /\ Asked = Agreed + Filters + 1
      /\ Agreed \in Nat /\ Hello <= Agreed /\ Args <= Hello /\ Args \in Nat /\ Hello \in Nat
      /\ Filters \in {0, 1} /\ Seed \in Nat
  BY <1>1, Numbers DEF Put, Hello, Agreed, Asked, IInv
<1>3. In(Put + 1) = "request"
  BY <1>1, <1>2 DEF In
<1>4. ASSUME Alive PROVE Put' = Put + 1 /\ Got' = Got /\ ClientKnows' /\ frames' \in 0 .. DataFrames
  <2>1. pc' = "receive" /\ UNCHANGED err
    BY <1>1, <1>4 DEF Send
  <2>2. Put' = Put + 1 /\ Got' = Got
    BY <1>1, <1>2, <2>1, SameScripts DEF Put, Got, Opening
  <2>3. ClientKnows'
    BY <1>1, <2>1, SameScripts, SameAnswers DEF IInv, ClientKnows, Active, Opening, Moving, Ending
  <2> QED BY <1>1, <2>2, <2>3 DEF IInv, Types
<1> QED BY <1>1, <1>3, <1>4, ClientSends DEF Places, Opening, Ending, Moving, Settling

\* The client has heard the goodbye.
LEMMA ClientEnds ==
    ASSUME IInv, Active, UNCHANGED <<Session, err, sel, sum, frames, effects>>, faults' = faults,
           Receive, pc' = "close", frames = DataFrames, effects = {attempt},
           Got + 1 = Total
    PROVE  IInv'
<1> USE DEF Session
<1>1. ~Active' /\ (Alive' <=> Alive) /\ Taken' = Taken /\ err = NoError /\ err' = NoError /\ UNCHANGED toPeer
  BY SameScripts DEF Active, Ending, Alive, Taken, IInv, ClientKnows, Receive
<1>2. /\ Incoming'
      /\ Alive => Got + 1 <= Said
      /\ Len(toClient)' = Len(toClient) - 1 /\ Len(toClient) \in Nat
  BY <1>1, ClientReads DEF IInv
<1>3. Outgoing'
  BY <1>1, ClientWritesNothing DEF IInv
<1>4. PeerKnows'
  BY PeerKnowsStill DEF IInv
<1>5. Types'
  <2>1. Len(toClient') <= PipeCap
    BY <1>2, ShellAssumption DEF IInv, Types
  <2> QED BY <1>1, <2>1, SameScripts DEF IInv, Types, Places, Ending
<1>6. ClientKnows'
  BY <1>1, SameScripts DEF IInv, ClientKnows, Active, Ending, Opening, Moving
<1>7. ~should_fallback_to_protocol27(err')
  BY <1>1 DEF should_fallback_to_protocol27, NoError, NegotiationErrors
<1>8. Clean'
  <2>1. ~should_fallback_to_protocol27(err)'
    BY <1>7 DEF should_fallback_to_protocol27
  <2> QED BY <1>1, <2>1, SameScripts DEF IInv, Clean
<1>9. Outcome'
  BY <1>1 DEF IInv, Outcome, Active, Ending
<1>10. Faultless'
  <2>1. ASSUME client.via = "shell" /\ client.protocol = 0 /\ peer.version \in 27 .. 32 /\ faults = {}, ~Alive
        PROVE  p.code = 0
    BY <2>1 DEF IInv, Faultless
  <2>2. ASSUME Alive, peer.version # 0 PROVE p.pc = "leave"
    <3>1. Said >= Total
      BY <1>2, <2>2, Numbers DEF IInv
    <3>2. /\ Prefixes \in {0, 1} /\ Flags \in {0, 1} /\ Lists \in {0, 1}
          /\ DataFrames \in Nat /\ p.frames \in Nat
      BY Numbers, ShellAssumption DEF IInv, Types
    <3>3. /\ p.pc \in PeerPlaces /\ p.pc # "exited"
          /\ p.pc \in {"data", "take"} => p.frames < DataFrames
          /\ p.pc = "data" => ~Push
          /\ p.pc = "request" => ~Push
          /\ DataFrames > 0
      BY <2>2, ShellAssumption DEF IInv, Types, PeerKnows, Alive
    <3>4. Seed = Prefixes + Flags + Lists + 1 /\ Early = Prefixes + Flags + Lists
          /\ (Push => Total = Seed + 2) /\ (~Push => Total = Seed + 2 + DataFrames)
      BY DEF Seed, Early, Total
    <3> QED BY <2>2, <3>1, <3>2, <3>3, <3>4 DEF Said, PeerPlaces
  <2> QED BY <1>1, <2>1, <2>2, SameScripts DEF Faultless, Alive
<1>11. Mute'
  BY <1>1 DEF Mute
<1> QED BY <1>2, <1>3, <1>4, <1>5, <1>6, <1>8, <1>9, <1>10, <1>11 DEF IInv

\* The data of a pull, and its goodbye.
LEMMA ReceiveStep ==
    ASSUME IInv, ReceiveFiles
    PROVE  IInv'
<1> USE DEF Session
<1>1. /\ pc = "receive" /\ ~Push /\ Active /\ UNCHANGED Session /\ effects = {attempt}
      /\ frames \in Nat /\ DataFrames \in Nat /\ frames <= DataFrames
  BY ShellAssumption DEF ReceiveFiles, Active, Ending, IInv, ClientKnows, Clean, Moving, Types
<1>2. /\ Got = Seed + 1 + frames /\ Seed \in Nat /\ Total = Seed + 2 + DataFrames
      /\ Prefixes <= Early /\ Prefixes + Flags <= Early /\ Seed = Early + 1 /\ Early \in Nat
      /\ Prefixes \in Nat /\ Flags \in Nat
  BY <1>1, Numbers DEF Got, Opening, IInv, Total, Seed, Early
<1>3. /\ frames < DataFrames => Out(Got + 1) = "data"
      /\ frames = DataFrames => Out(Got + 1) = "done"
  BY <1>1, <1>2 DEF Out
<1>4. CASE Eof("TransferEof", FALSE) /\ UNCHANGED faults
  BY <1>1, <1>4, ClientAtEof DEF ErrorKinds, NegotiationErrors
<1>5. CASE /\ Receive /\ m0 = "data" /\ frames' = frames + 1 /\ UNCHANGED <<pc, err, faults>>
           /\ UNCHANGED <<sel, sum, effects>>
  <2>1. frames < DataFrames
    BY <1>1, <1>3, <1>5, NextIn
  <2>2. frames' \in 0 .. DataFrames /\ frames' \in Nat
    BY <1>1, <1>5, <2>1
  <2>3. Put' = Put /\ Got' = Got + 1
    BY <1>1, <1>2, <1>5, <2>2, SameScripts DEF Put, Got, Opening
  <2>4. ClientKnows'
    BY <1>1, <1>5, SameScripts, SameAnswers DEF IInv, ClientKnows, Active, Opening, Moving, Ending
  <2>5. sum' \in PeerSums /\ sel' \in 0 .. 32
    BY <1>5 DEF IInv, Types
  <2> QED BY <1>1, <1>5, <2>2, <2>3, <2>4, <2>5, ClientTakes DEF Places, Opening, Ending, Moving, Settling
<1>6. CASE /\ Receive /\ Fail("LocalError", FALSE) /\ faults' = faults \cup {"local"}
           /\ UNCHANGED <<sel, sum, frames, effects>>
  <2>1. pc' = "close" /\ err' = [kind |-> "LocalError", setup |-> FALSE]
    BY <1>6 DEF Fail
  <2>2. err' \in [kind : ErrorKinds \ {"none"}, setup : BOOLEAN] /\ ~should_fallback_to_protocol27(err')
    BY <2>1 DEF ErrorKinds, should_fallback_to_protocol27, NegotiationErrors
  <2>3. faults' # {}
    BY <1>6
  <2> QED BY <1>1, <1>6, <2>1, <2>2, <2>3, ClientFails DEF Receive
<1>7. CASE /\ Receive /\ m0 = "done" /\ pc' = "close" /\ UNCHANGED <<err, frames, faults>>
           /\ UNCHANGED <<sel, sum, effects>>
  <2>1. frames = DataFrames
    BY <1>1, <1>3, <1>7, NextIn
  <2>2. Got + 1 = Total
    BY <1>1, <1>2, <2>1
  <2> QED BY <1>1, <1>7, <2>1, <2>2, ClientEnds
<1> QED BY <1>4, <1>5, <1>6, <1>7 DEF ReceiveFiles

\* The request of a push, and its goodbye.
LEMMA ServeStep ==
    ASSUME IInv, ServeRequests
    PROVE  IInv'
<1> USE DEF Session
<1>1. /\ pc = "serve" /\ Push /\ Active /\ UNCHANGED Session /\ faults' = faults
      /\ frames \in {0, DataFrames} /\ DataFrames \in Nat \ {0} /\ frames \in Nat
  BY ShellAssumption DEF ServeRequests, ClientFrame, Active, Ending, IInv, ClientKnows
<1>2. /\ frames = 0 => Got = Seed
      /\ frames = DataFrames => Got = Seed + 1
      /\ Seed \in Nat /\ Total = Seed + 2
      /\ Prefixes <= Early /\ Prefixes + Flags <= Early /\ Seed = Early + 1 /\ Early \in Nat
      /\ Prefixes \in Nat /\ Flags \in Nat
  BY <1>1, Numbers DEF Got, Opening, IInv, Total, Seed, Early
<1>3. /\ frames = 0 => Out(Got + 1) = "request"
      /\ frames = DataFrames => Out(Got + 1) = "done"
  BY <1>1, <1>2 DEF Out
<1>4. CASE Eof("TransferEof", FALSE)
  BY <1>1, <1>4, ClientAtEof DEF ErrorKinds, NegotiationErrors
<1>5. CASE /\ Receive /\ pc' = (IF m0 = "request" THEN "send" ELSE "close")
           /\ UNCHANGED <<err, sel, sum, frames, effects>>
  <2>1. CASE frames = 0
    <3>1. pc' = "send"
      BY <1>1, <1>3, <1>5, <2>1, NextIn
    <3>2. Put' = Put /\ Got' = Got + 1
      BY <1>1, <1>2, <1>5, <2>1, <3>1, SameScripts DEF Put, Got, Opening
    <3>3. ClientKnows'
      BY <1>1, <1>5, <2>1, <3>1, SameScripts, SameAnswers
      DEF IInv, ClientKnows, Active, Opening, Moving, Ending
    <3>4. frames' \in 0 .. DataFrames /\ sum' \in PeerSums /\ sel' \in 0 .. 32
      BY <1>5 DEF IInv, Types
    <3> QED BY <1>1, <1>5, <2>1, <3>1, <3>2, <3>3, <3>4, ClientTakes
        DEF Places, Opening, Ending, Moving, Settling
  <2>2. CASE frames = DataFrames
    <3>1. pc' = "close"
      BY <1>1, <1>3, <1>5, <2>2, NextIn
    <3>2. Got + 1 = Total /\ Got \in Nat
      BY <1>2, <2>2
    <3>3. toClient # << >> /\ Len(toClient) >= 1 /\ Len(toClient) \in Nat
      BY <1>5, TailOf DEF Receive, IInv, Incoming
    <3>4. effects = {attempt}
      <4>1. Got + Len(toClient) > Seed
        BY <1>2, <2>2, <3>3
      <4> QED BY <1>1, <4>1 DEF IInv, Clean
    <3> QED BY <1>1, <1>5, <2>2, <3>1, <3>2, <3>4, ClientEnds
  <2> QED BY <1>1, <2>1, <2>2
<1> QED BY <1>4, <1>5 DEF ServeRequests

\* The data of a push.
LEMMA FrameStep ==
    ASSUME IInv, SendFrame
    PROVE  IInv'
<1> USE DEF Session
<1> DEFINE next == IF frames + 1 = DataFrames THEN "serve" ELSE "send"
<1>1. /\ pc = "send" /\ Push /\ Active /\ UNCHANGED <<Session, sel, sum, effects>>
      /\ faults' = faults /\ Send("data", next, FALSE)
      /\ frames' = (IF Alive THEN frames + 1 ELSE frames)
      /\ frames < DataFrames /\ frames \in Nat /\ DataFrames \in Nat
  <2>1. Send("data", next, FALSE) /\ frames' = (IF Alive THEN frames + 1 ELSE frames) /\ pc = "send"
    BY DEF SendFrame
  <2>2. UNCHANGED <<Session, sel, sum, effects>> /\ faults' = faults
    BY DEF SendFrame, ClientFrame
  <2>3. Push /\ Active /\ frames < DataFrames
    BY <2>1 DEF Active, Ending, IInv, ClientKnows
  <2>4. frames \in Nat /\ DataFrames \in Nat
    BY ShellAssumption DEF IInv, Types
  <2> QED BY <2>1, <2>2, <2>3, <2>4
<1>2. /\ Put = Asked + frames /\ Asked = Agreed + Filters + 1
      /\ Agreed \in Nat /\ Hello <= Agreed /\ Args <= Hello /\ Args \in Nat /\ Hello \in Nat
      /\ Filters \in {0, 1} /\ Seed \in Nat
  BY <1>1, Numbers DEF Put, Hello, Agreed, Asked, IInv
<1>3. In(Put + 1) = "data"
  BY <1>1, <1>2 DEF In
<1>4. next \in {"serve", "send"} /\ (next = "serve" => frames + 1 = DataFrames)
      /\ (next = "send" => frames + 1 < DataFrames)
  BY <1>1
<1> HIDE DEF next
<1>5. ASSUME Alive PROVE Put' = Put + 1 /\ Got' = Got /\ ClientKnows' /\ frames' \in 0 .. DataFrames
  <2>1. pc' = next /\ UNCHANGED err /\ frames' = frames + 1
    BY <1>1, <1>5 DEF Send
  <2>2. Put' = Put + 1 /\ Got' = Got
    BY <1>1, <1>2, <1>4, <2>1, SameScripts DEF Put, Got, Opening
  <2>3. ClientKnows'
    BY <1>1, <1>4, <2>1, SameScripts, SameAnswers DEF IInv, ClientKnows, Active, Opening, Moving, Ending
  <2> QED BY <1>1, <2>1, <2>2, <2>3
<1>6. next \in Places \ Ending /\ next \in Moving
  BY <1>4 DEF Places, Ending, Moving
<1> QED BY <1>1, <1>3, <1>5, <1>6, ClientSends

-----------------------------------------------------------------------------
\* The end of a session

\* The client is done with the pipes.
LEMMA ClosedMoves ==
    ASSUME IInv, ~Active, pc' \in Ending, pc' # "close",
           UNCHANGED <<client, peer, attempt, err, sel, sum, frames, toPeer, toClient, stderr, p,
                       effects, faults>>,
           stdin_open' \in BOOLEAN, result' \in {"none", "ok", "failed"},
           client.via = "daemon" => pc' # "wait",
           Outcome'
    PROVE  IInv'
<1>1. ~Active' /\ (Alive' <=> Alive) /\ Taken' = Taken /\ Agreed' = Agreed
  BY SameScripts DEF Active, Alive, Taken
<1>2. Incoming'
  BY <1>1, SameScripts DEF IInv, Incoming
<1>3. Outgoing'
  <2>1. Taken \in Nat
    BY Numbers DEF IInv
  <2>2. ASSUME Alive PROVE \A i \in 1 .. Len(toPeer') : toPeer'[i] = In(Taken + i)'
    <3>1. TAKE i \in 1 .. Len(toPeer')
    <3>2. PICK k \in Nat : k = Taken + i
      BY <2>1
    <3>3. In(k)' = In(k)
      BY SameAnswers
    <3>4. In(Taken + i)' = In(k)'
      BY <1>1, <3>2 DEF In
    <3> QED BY <2>2, <3>2, <3>3, <3>4 DEF IInv, Outgoing
  <2> QED BY <1>1, <2>2, SameAnswers DEF IInv, Outgoing
<1>4. PeerKnows'
  BY PeerKnowsStill DEF IInv
<1>5. Types'
  BY SameScripts DEF IInv, Types, Places
<1>6. ClientKnows'
  BY <1>1, SameScripts DEF IInv, ClientKnows, Active, Ending, Opening, Moving
<1>7. Clean'
  <2>1. should_fallback_to_protocol27(err)' <=> should_fallback_to_protocol27(err)
    BY DEF should_fallback_to_protocol27
  <2> QED BY <1>1, <2>1, SameScripts DEF IInv, Clean
<1>8. Faultless'
  BY <1>1 DEF IInv, Faultless, should_fallback_to_protocol27
<1>9. Mute'
  BY <1>1 DEF Mute
<1> QED BY <1>2, <1>3, <1>4, <1>5, <1>6, <1>7, <1>8, <1>9 DEF IInv

\* The end of input; a daemon session is over with it.
LEMMA CloseStep ==
    ASSUME IInv, finish_input
    PROVE  IInv'
<1>1. /\ pc = "close" /\ ~Active
      /\ UNCHANGED <<client, peer, attempt, err, sel, sum, frames, toPeer, toClient, stderr, p,
                     effects, faults>>
      /\ stdin_open' = FALSE
      /\ result = "none"
      /\ client.via \in {"shell", "daemon"}
  BY ShellAssumption DEF finish_input, Active, Ending, IInv, Outcome, Types
<1>2. /\ client.via = "daemon" => /\ pc' = "reported"
                                  /\ result' = (IF err = NoError THEN "ok" ELSE "failed")
      /\ client.via = "shell" => pc' = "wait" /\ UNCHANGED result
  BY DEF finish_input
<1>3. ~Active' /\ pc' \in Ending /\ pc' # "close" /\ (client.via = "daemon" => pc' # "wait")
  BY <1>1, <1>2 DEF Active, Ending
<1>4. result' \in {"none", "ok", "failed"}
  BY <1>1, <1>2
<1>5. Outcome'
  BY <1>1, <1>2, <1>3 DEF IInv, Outcome
<1> QED BY <1>1, <1>3, <1>4, <1>5, ClosedMoves

\* The report, when the child has ended.
LEMMA ReportStep ==
    ASSUME IInv, Report
    PROVE  IInv'
<1>1. /\ pc = "wait" /\ ~Active /\ ~Alive /\ pc' = "reported"
      /\ UNCHANGED <<client, peer, attempt, err, sel, sum, frames, toPeer, toClient, stderr, p,
                     effects, faults, stdin_open>>
      /\ err = NoError \/ ~MayRetry
      /\ result' = (IF Succeeded THEN "ok" ELSE "failed")
  BY DEF Report, ChildEnded, Active, Ending
<1>2. ~Active' /\ ~Alive' /\ (MayRetry' <=> MayRetry)
  BY <1>1 DEF Active, Ending, Alive, MayRetry, should_fallback_to_protocol27
<1>3. Outcome'
  BY <1>1, <1>2 DEF IInv, Outcome, Succeeded
<1>4. stdin_open' \in BOOLEAN /\ result' \in {"none", "ok", "failed"} /\ pc' \in Ending
  BY <1>1 DEF IInv, Types, Ending
<1> QED BY <1>1, <1>3, <1>4, ClosedMoves

\* The second try starts as the first one did.
LEMMA RetryStep ==
    ASSUME IInv, execute_remote_shell_protocol27_fallback
    PROVE  IInv'
<1>1. /\ pc = "wait" /\ ~Active /\ attempt = 31 /\ should_fallback_to_protocol27(err)
      /\ attempt' = 27 /\ pc' = "args" /\ err' = NoError
      /\ sel' = 0 /\ sum' = NoName /\ frames' = 0
      /\ toPeer' = << >> /\ toClient' = << >> /\ stdin_open' = TRUE
      /\ p' = [pc |-> "noise", sel |-> 0, sum |-> NoName, frames |-> 0, noise |-> peer.noise, code |-> 0]
      /\ UNCHANGED <<client, peer, stderr, effects, faults, result>>
  BY DEF execute_remote_shell_protocol27_fallback, MayRetry, Active, Ending, Fresh,
     REMOTE_SHELL_MODERN_PROTOCOL, REMOTE_SHELL_MVP_PROTOCOL
<1>2. effects = {} /\ result = "none" /\ client.via = "shell"
  BY <1>1, ShellAssumption DEF IInv, Clean, Outcome, ClientKnows, Types
<1>3. Active' /\ Alive' /\ Got' = 0 /\ Put' = 0 /\ Said' = 0 /\ Taken' = 0
  BY <1>1 DEF Active, Ending, Alive, Got, Put, Said, Taken, Opening
<1>4. Incoming' /\ Outgoing'
  BY <1>1, <1>3 DEF Incoming, Outgoing
<1>5. Mute'
  BY <1>1, <1>3 DEF Mute, Prefixes, Bit
<1>6. Types'
  <2>1. PeerSums' = PeerSums /\ NoName \in PeerSums
    BY <1>1 DEF PeerSums
  <2>2. err' \in [kind : ErrorKinds, setup : BOOLEAN]
    BY <1>1 DEF NoError, ErrorKinds
  <2>3. peer.noise \in Nat /\ DataFrames \in Nat /\ PipeCap \in Nat
    BY ShellAssumption DEF IInv, Types
  <2>4. p' \in [pc : PeerPlaces, sel : Nat, sum : PeerSums, frames : 0 .. DataFrames,
                noise : Nat, code : Nat]
    BY <1>1, <2>1, <2>3 DEF PeerPlaces
  <2> QED BY <1>1, <1>2, <2>1, <2>2, <2>3, <2>4 DEF IInv, Types, Places, Opening
<1>7. ~Modern' /\ ~Negotiated'
  BY <1>1 DEF Modern, Negotiated
<1>8. ClientKnows'
  BY <1>1, <1>2, <1>3, <1>7 DEF ClientKnows, Opening, Moving
<1>9. PeerKnows'
  BY <1>1, <1>7 DEF PeerKnows
<1>10. Clean'
  BY <1>1, <1>2, <1>3 DEF Clean, Moving, Seed, Early, Prefixes, Flags, Lists, Bit
<1>11. Outcome' /\ Faultless'
  BY <1>1, <1>2, <1>3 DEF Outcome, Faultless
<1> QED BY <1>4, <1>5, <1>6, <1>8, <1>9, <1>10, <1>11 DEF IInv

\* A step that only the pipe of stderr notices.
LEMMA StderrMoves ==
    ASSUME IInv, stderr' \in 0 .. PipeCap,
           UNCHANGED <<client, peer, attempt, pc, err, sel, sum, frames, toPeer, toClient,
                       stdin_open, p, effects, faults, result>>
    PROVE  IInv'
<1>1. /\ (Active' <=> Active) /\ (Alive' <=> Alive) /\ Got' = Got /\ Said' = Said /\ Taken' = Taken
  BY SameScripts DEF Active, Alive, Got, Said, Taken
<1>2. Incoming' /\ Outgoing' /\ PeerKnows'
  BY <1>1, PeerWritesNothing, PeerReadsNothing, PeerKnowsStill DEF IInv
<1>3. Types'
  BY SameScripts DEF IInv, Types
<1>4. ClientKnows'
  BY <1>1, SameScripts, SameAnswers DEF IInv, ClientKnows
<1>5. should_fallback_to_protocol27(err)' <=> should_fallback_to_protocol27(err)
  BY DEF should_fallback_to_protocol27
<1>6. Clean' /\ Mute' /\ Faultless'
  BY <1>1, <1>5, SameScripts DEF IInv, Clean, Mute, Faultless
<1>7. Outcome'
  BY <1>1, <1>5 DEF IInv, Outcome, MayRetry
<1> QED BY <1>2, <1>3, <1>4, <1>6, <1>7 DEF IInv

\* The thread that drains stderr.
LEMMA DrainStep ==
    ASSUME IInv, drain_stderr
    PROVE  IInv'
<1>1. stderr' \in 0 .. PipeCap
  BY ShellAssumption DEF drain_stderr, IInv, Types
<1> QED BY <1>1, StderrMoves DEF drain_stderr

-----------------------------------------------------------------------------
\* The steps of the peer

PeerTypes == [pc : PeerPlaces, sel : Nat, sum : PeerSums, frames : 0 .. DataFrames,
              noise : Nat, code : Nat]
Receiving == {"ask", "take", "bye", "leave"}

\* What is left of the invariant when the peer moves in a way that fits the scripts.
LEMMA PeerGoesOn ==
    ASSUME IInv, Alive, Alive', p.pc # "leave", PeerFrame, faults' = faults,
           p' \in PeerTypes, stderr' \in 0 .. PipeCap,
           Incoming', Outgoing', PeerKnows',
           Len(toPeer') <= PipeCap, Len(toClient') <= PipeCap,
           Taken' + Len(toPeer') = Taken + Len(toPeer),
           \/ effects' = effects
           \/ /\ effects' = {attempt} /\ Push
              /\ Active => pc \in Moving
              /\ ~Active => ~(attempt = 31 /\ should_fallback_to_protocol27(err)),
           Push /\ peer.version # 0 /\ p'.pc \in Receiving => p.pc \in Receiving \/ effects' = {attempt}
    PROVE  IInv'
<1> USE DEF PeerFrame
<1>1. Got' = Got /\ (Active' <=> Active) /\ Agreed' = Agreed /\ Seed' = Seed
  BY SameScripts DEF Got, Active
<1>2. Types'
  <2>1. effects' \subseteq {attempt}
    BY DEF IInv, Types
  <2> QED BY <2>1, SameScripts DEF IInv, Types, PeerTypes
<1>3. ClientKnows'
  BY <1>1, SameScripts, SameAnswers DEF IInv, ClientKnows
<1>4. Active' => Got' + Len(toClient') = Said'
  BY DEF Incoming
<1>5. Mute'
  <2>1. peer.version = 0 => Said' \in {0, Prefixes'}
    BY DEF Said
  <2>2. Prefixes' \in {0, 1}
    BY DEF Prefixes, Bit
  <2> QED BY <1>4, <2>1, <2>2 DEF Mute
<1>6. Clean'
  <2>1. should_fallback_to_protocol27(err)' <=> should_fallback_to_protocol27(err)
    BY DEF should_fallback_to_protocol27
  <2>2. Push /\ peer.version # 0 /\ p'.pc \in Receiving => effects' = {attempt}
    BY DEF IInv, Clean, Receiving, Types
  <2>3. ASSUME Push', Active', Got' + Len(toClient') > Seed' PROVE effects' = {attempt}
    <3>1. Said' > Seed'
      BY <1>4, <2>3
    <3>2. /\ Prefixes' \in {0, 1} /\ Flags' \in {0, 1} /\ Lists' \in {0, 1}
          /\ Seed' = Prefixes' + Flags' + Lists' + 1 /\ Early' = Prefixes' + Flags' + Lists'
      BY DEF Seed, Early, Prefixes, Flags, Lists, Bit
    <3>3. p'.pc \in PeerPlaces /\ p'.pc # "exited" /\ p'.pc \notin {"data", "request"}
      BY <2>3 DEF PeerTypes, Alive, PeerKnows
    <3>4. p'.pc \in Receiving /\ peer.version # 0
      BY <3>1, <3>2, <3>3 DEF Said, PeerPlaces, Receiving
    <3> QED BY <2>2, <2>3, <3>4, SameScripts
  <2>4. (Taken + Len(toPeer))' = Taken + Len(toPeer)
    OBVIOUS
  <2> QED BY <1>1, <2>1, <2>2, <2>3, <2>4, SameScripts DEF IInv, Clean, Receiving
<1>7. Outcome'
  BY <1>1 DEF IInv, Outcome
<1>8. Faultless'
  <2>1. should_fallback_to_protocol27(err)' <=> should_fallback_to_protocol27(err)
    BY DEF should_fallback_to_protocol27
  <2> QED BY <1>1, <2>1 DEF IInv, Faultless
<1> QED BY <1>2, <1>3, <1>5, <1>6, <1>7, <1>8 DEF IInv

\* The peer says the next message of its script.
LEMMA PeerSays ==
    ASSUME IInv, Alive, Alive', p.pc # "leave", PeerFrame, UNCHANGED <<stderr, effects, faults, toPeer>>,
           NEW m, m = Out(Said + 1), Len(toClient) < PipeCap, toClient' = Append(toClient, m),
           p' \in PeerTypes, Said' = Said + 1, Taken' = Taken, PeerKnows',
           Push /\ peer.version # 0 /\ p'.pc \in Receiving => p.pc \in Receiving
    PROVE  IInv'
<1>1. Incoming' /\ Len(toClient') = Len(toClient) + 1 /\ Len(toClient) \in Nat
  BY PeerWrites DEF PeerFrame, IInv
<1>2. Outgoing'
  BY PeerReadsNothing DEF PeerFrame, IInv
<1>3. Len(toPeer') <= PipeCap /\ Len(toClient') <= PipeCap /\ stderr' \in 0 .. PipeCap
  BY <1>1, ShellAssumption DEF IInv, Types
<1>4. Taken' + Len(toPeer') = Taken + Len(toPeer)
  OBVIOUS
<1> QED BY <1>1, <1>2, <1>3, <1>4, PeerGoesOn

\* The peer hears the next message of the client.
LEMMA PeerHears ==
    ASSUME IInv, Alive, Alive', p.pc # "leave", PeerFrame, UNCHANGED <<stderr, faults>>, Hear,
           p' \in PeerTypes, Said' = Said, Taken' = Taken + 1, PeerKnows',
           \/ effects' = effects
           \/ /\ effects' = {attempt} /\ Push
              /\ Active => pc \in Moving
              /\ ~Active => ~(attempt = 31 /\ should_fallback_to_protocol27(err)),
           Push /\ peer.version # 0 /\ p'.pc \in Receiving => p.pc \in Receiving \/ effects' = {attempt}
    PROVE  IInv'
<1>1. Outgoing' /\ Len(toPeer') = Len(toPeer) - 1 /\ Len(toPeer) \in Nat
  BY PeerReads DEF PeerFrame, IInv
<1>2. Incoming'
  BY PeerWritesNothing DEF PeerFrame, IInv, Hear
<1>3. Len(toPeer') <= PipeCap /\ Len(toClient') <= PipeCap /\ stderr' \in 0 .. PipeCap
  BY <1>1, ShellAssumption DEF IInv, Types, Hear
<1>4. Taken' + Len(toPeer') = Taken + Len(toPeer)
  <2>1. Taken \in Nat
    BY Numbers DEF IInv
  <2> QED BY <1>1, <2>1
<1> QED BY <1>1, <1>2, <1>3, <1>4, PeerGoesOn

\* The peer's process ends.
LEMMA PeerExits ==
    ASSUME IInv, Alive, PeerFrame, UNCHANGED <<stderr, effects, toClient>>, Hear \/ UNCHANGED toPeer,
           NEW code \in Nat, Exit(code), Faultless'
    PROVE  IInv'
<1> USE DEF PeerFrame
<1>1. /\ p' = [p EXCEPT !.pc = "exited", !.code = code] /\ p \in PeerTypes
  BY DEF Exit, IInv, Types, PeerTypes
<1>2. /\ p'.pc = "exited" /\ p' \in PeerTypes /\ ~Alive'
  BY <1>1 DEF PeerTypes, PeerPlaces, Alive
<1>3. Got' = Got /\ (Active' <=> Active)
  BY SameScripts DEF Got, Active
<1>4. Incoming'
  BY <1>2, PeerWritesNothing DEF IInv
<1>5. Outgoing'
  BY <1>2 DEF Outgoing
<1>6. Types'
  <2>1. Len(toPeer') <= PipeCap
    <3>1. CASE Hear
      <4>1. Len(toPeer') = Len(toPeer) - 1 /\ Len(toPeer) \in Nat
        BY <3>1, TailOf DEF Hear, IInv, Outgoing
      <4> QED BY <4>1, ShellAssumption DEF IInv, Types
    <3>2. CASE UNCHANGED toPeer
      BY <3>2 DEF IInv, Types
    <3> QED BY <3>1, <3>2
  <2> QED BY <1>2, <2>1, SameScripts DEF IInv, Types, PeerTypes
<1>7. ClientKnows'
  BY <1>3, SameScripts, SameAnswers DEF IInv, ClientKnows
<1>8. PeerKnows'
  BY <1>2 DEF PeerKnows
<1>9. Clean'
  <2>1. should_fallback_to_protocol27(err)' <=> should_fallback_to_protocol27(err)
    BY DEF should_fallback_to_protocol27
  <2> QED BY <1>2, <1>3, <2>1, SameScripts DEF IInv, Clean
<1>10. Outcome'
  BY <1>2, <1>3 DEF IInv, Outcome
<1>11. Mute'
  BY <1>3, SameScripts DEF IInv, Mute
<1> QED BY <1>4, <1>5, <1>6, <1>7, <1>8, <1>9, <1>10, <1>11 DEF IInv

\* The peer starts up, with or without noise.
LEMMA NoiseStep ==
    ASSUME IInv, PeerNoise
    PROVE  IInv'
<1>1. /\ p.pc = "noise" /\ Alive /\ p \in PeerTypes /\ PeerFrame
      /\ UNCHANGED <<toPeer, toClient, effects, faults>>
      /\ client.via \in {"shell", "daemon"} /\ stderr \in 0 .. PipeCap /\ PipeCap \in Nat
      /\ client.secluded \in BOOLEAN
  BY ShellAssumption DEF PeerNoise, Alive, IInv, Types, PeerTypes
<1>2. /\ p'.pc \in {"noise", "flags", "args", "prefix"}
      /\ p'.pc = "flags" => client.via = "daemon"
      /\ p'.pc = "args" => client.via = "shell" /\ client.secluded
      /\ p'.pc = "prefix" => client.via = "shell" /\ ~client.secluded
      /\ p'.pc = "flags" => p'.sel = 31
      /\ p'.sum = p.sum /\ p'.frames = p.frames
      /\ p' \in PeerTypes /\ stderr' \in 0 .. PipeCap
  <2>1. CASE p.noise > 0
    <3>1. stderr < PipeCap /\ stderr' = stderr + 1 /\ p' = [p EXCEPT !.noise = @ - 1]
      BY <2>1 DEF PeerNoise
    <3>2. stderr' \in 0 .. PipeCap
      BY <1>1, <3>1
    <3> QED BY <1>1, <2>1, <3>1, <3>2 DEF PeerTypes
  <2>2. CASE ~(p.noise > 0)
    <3>1. /\ p' = [p EXCEPT !.pc = IF client.via = "daemon" THEN "flags"
                                   ELSE IF client.secluded THEN "args" ELSE "prefix",
                            !.sel = IF client.via = "daemon" THEN 31 ELSE 0]
          /\ UNCHANGED stderr
      BY <2>2 DEF PeerNoise
    <3> QED BY <1>1, <3>1 DEF PeerTypes, PeerPlaces
  <2> QED BY <2>1, <2>2
<1>3. Alive'
  BY <1>2 DEF Alive
<1>4. Said' = Said /\ Taken' = Taken
  <2>1. client.via = "daemon" => Prefixes = 0 /\ Args = 0 /\ Hello = 0 /\ peer.version = 31
    BY DEF Prefixes, Args, Hello, Bit, IInv, Types
  <2>2. ~client.secluded => Args = 0
    BY DEF Args, Bit
  <2>3. Prefixes' = Prefixes /\ Args' = Args /\ Hello' = Hello /\ peer' = peer
    BY <1>1, SameScripts DEF PeerFrame
  <2> QED BY <1>1, <1>2, <2>1, <2>2, <2>3 DEF Said, Taken
<1>5. Incoming' /\ Outgoing'
  BY <1>1, <1>3, <1>4, PeerWritesNothing, PeerReadsNothing DEF PeerFrame, IInv
<1>6. PeerKnows'
  <2>1. client.via = "daemon" => Modern /\ peer.version = 31 /\ Lesser(attempt, peer.version) = 31
    BY DEF Modern, IInv, Types, Lesser
  <2>2. p.sum = NoName /\ p.frames = 0
    BY <1>1 DEF IInv, PeerKnows
  <2> QED BY <1>1, <1>2, <2>1, <2>2, SameScripts DEF PeerKnows, PeerFrame
<1>7. Len(toPeer') <= PipeCap /\ Len(toClient') <= PipeCap /\ Taken' + Len(toPeer') = Taken + Len(toPeer)
  BY <1>1, <1>4 DEF IInv, Types
<1> QED BY <1>1, <1>2, <1>3, <1>5, <1>6, <1>7, PeerGoesOn DEF Receiving

\* Where the peer goes on after a message.
LEMMA SayTo ==
    ASSUME IInv, NEW m, NEW next \in PeerPlaces \ {"exited"}, Say(m, next), Alive
    PROVE  /\ p'.pc = next /\ Alive' /\ p' \in PeerTypes /\ UNCHANGED toPeer
           /\ p'.sel = p.sel /\ p'.sum = p.sum /\ p'.frames = p.frames
           /\ Len(toClient) < PipeCap /\ toClient' = Append(toClient, m)
  BY SameScripts DEF Say, IInv, Types, PeerTypes, Alive

\* The messages of the peer.
LEMMA SpeakStep ==
    ASSUME IInv, PeerSpeaks
    PROVE  IInv'
<1>1. /\ PeerFrame /\ UNCHANGED <<stderr, effects, faults>>
      /\ UNCHANGED <<client, peer, attempt, sum>>
      /\ p.pc \notin {"leave", "exited"} /\ Alive
  BY DEF PeerSpeaks, PeerFrame, Alive
<1>2. /\ Prefixes \in {0, 1} /\ Flags \in {0, 1} /\ Lists \in {0, 1} /\ DataFrames \in Nat \ {0}
      /\ Args \in {0, 1} /\ Filters \in {0, 1}
      /\ Early = Prefixes + Flags + Lists /\ Seed = Early + 1
      /\ Push => Total = Seed + 2
      /\ ~Push => Total = Seed + 2 + DataFrames
      /\ Hello = Args + Prefixes /\ Agreed = Hello + Lists /\ Asked = Agreed + Filters + 1
  BY Numbers, ShellAssumption DEF IInv, Early, Seed, Total, Hello, Agreed, Asked
<1>3. /\ Prefixes' = Prefixes /\ Flags' = Flags /\ Lists' = Lists
      /\ Args' = Args /\ Filters' = Filters
      /\ Early' = Early /\ Seed' = Seed /\ Total' = Total
      /\ Hello' = Hello /\ Agreed' = Agreed /\ Asked' = Asked
      /\ Push' = Push /\ Modern' = Modern /\ Negotiated' = Negotiated /\ Offer' = Offer
      /\ peer' = peer /\ client' = client /\ attempt' = attempt
  BY <1>1, SameScripts, SameAnswers
<1>4. CASE p.pc = "prefix" /\ Say(<<"prefix", peer.prefix>>, AfterPrefix)
  <2>1. /\ AfterPrefix \in {"leave", "version"}
        /\ (AfterPrefix = "leave" <=> peer.version = 0)
    BY DEF AfterPrefix
  <2>2. /\ p'.pc = AfterPrefix /\ Alive' /\ p' \in PeerTypes /\ UNCHANGED toPeer
        /\ p'.sel = p.sel /\ p'.sum = p.sum /\ p'.frames = p.frames
        /\ Len(toClient) < PipeCap /\ toClient' = Append(toClient, <<"prefix", peer.prefix>>)
    BY <1>1, <1>4, <2>1, SayTo DEF PeerPlaces
  <2>3. client.via = "shell" /\ Prefixes = 1 /\ p.sum = NoName /\ p.frames = 0
    BY <1>4 DEF IInv, PeerKnows, Prefixes, Bit
  <2>4. Said = 0 /\ Taken = Args /\ Said' = 1 /\ Taken' = Args
    BY <1>3, <1>4, <2>1, <2>2, <2>3 DEF Said, Taken
  <2>5. Out(Said + 1) = <<"prefix", peer.prefix>>
    BY <2>3, <2>4 DEF Out
  <2>6. PeerKnows'
    BY <1>3, <2>1, <2>2, <2>3 DEF PeerKnows
  <2>7. Push /\ peer.version # 0 => p'.pc \notin Receiving
    BY <2>1, <2>2 DEF Receiving
  <2> QED BY <1>1, <2>2, <2>4, <2>5, <2>6, <2>7, PeerSays
<1>5. CASE p.pc = "flags" /\ Say(<<"flags", peer.negotiates>>, IF peer.negotiates THEN "names" ELSE "seed")
  <2>1. PICK next \in {"names", "seed"} : next = IF peer.negotiates THEN "names" ELSE "seed"
    OBVIOUS
  <2>2. /\ p'.pc = next /\ Alive' /\ p' \in PeerTypes /\ UNCHANGED toPeer
        /\ p'.sel = p.sel /\ p'.sum = p.sum /\ p'.frames = p.frames
        /\ Len(toClient) < PipeCap /\ toClient' = Append(toClient, <<"flags", peer.negotiates>>)
    BY <1>1, <1>5, <2>1, SayTo DEF PeerPlaces
  <2>3. /\ peer.version # 0 /\ Modern /\ Flags = 1 /\ (Negotiated <=> peer.negotiates)
        /\ p.sum = NoName /\ p.frames = 0 /\ p.sel = Lesser(attempt, peer.version)
        /\ peer.negotiates \in BOOLEAN
    BY <1>5, ShellAssumption DEF IInv, PeerKnows, Flags, Bit, Negotiated, Types
  <2>4. (next = "seed" <=> ~Negotiated) /\ (~Negotiated => Lists = 0)
    BY <2>1, <2>3 DEF Lists, Bit
  <2>5. Said = Prefixes /\ Taken = Hello /\ Said' = Prefixes + 1 /\ Taken' = Hello
    BY <1>2, <1>3, <1>5, <2>2, <2>3, <2>4 DEF Said, Taken
  <2>6. Out(Said + 1) = <<"flags", peer.negotiates>>
    BY <1>2, <2>3, <2>5 DEF Out
  <2>7. PeerKnows'
    BY <1>3, <2>1, <2>2, <2>3, <2>4 DEF PeerKnows
  <2>8. p'.pc \notin Receiving
    BY <2>1, <2>2 DEF Receiving
  <2> QED BY <1>1, <1>2, <2>2, <2>5, <2>6, <2>7, <2>8, PeerSays
<1>6. CASE p.pc = "names" /\ Say(<<"names", peer.sums>>, "choice")
  <2>2. /\ p'.pc = "choice" /\ Alive' /\ p' \in PeerTypes /\ UNCHANGED toPeer
        /\ p'.sel = p.sel /\ p'.sum = p.sum /\ p'.frames = p.frames
        /\ Len(toClient) < PipeCap /\ toClient' = Append(toClient, <<"names", peer.sums>>)
    BY <1>1, <1>6, SayTo DEF PeerPlaces
  <2>3. /\ peer.version # 0 /\ Modern /\ Negotiated /\ Lists = 1 /\ peer.negotiates
        /\ p.sum = NoName /\ p.frames = 0 /\ p.sel = Lesser(attempt, peer.version)
    BY <1>6 DEF IInv, PeerKnows, Lists, Bit, Negotiated
  <2>4. Said = Prefixes + Flags /\ Taken = Hello /\ Said' = Said + 1 /\ Taken' = Hello
    BY <1>2, <1>3, <1>6, <2>2, <2>3 DEF Said, Taken
  <2>5. Out(Said + 1) = <<"names", peer.sums>>
    BY <1>2, <2>3, <2>4 DEF Out
  <2>6. PeerKnows'
    BY <1>3, <2>2, <2>3 DEF PeerKnows
  <2>7. p'.pc \notin Receiving
    BY <2>2 DEF Receiving
  <2> QED BY <1>1, <2>2, <2>4, <2>5, <2>6, <2>7, PeerSays
<1>7. CASE p.pc = "seed" /\ Say("seed", IF Push /\ ~client.delete THEN "list" ELSE "filter")
  <2>1. PICK next \in {"list", "filter"} : next = IF Push /\ ~client.delete THEN "list" ELSE "filter"
    OBVIOUS
  <2>2. /\ p'.pc = next /\ Alive' /\ p' \in PeerTypes /\ UNCHANGED toPeer
        /\ p'.sel = p.sel /\ p'.sum = p.sum /\ p'.frames = p.frames
        /\ Len(toClient) < PipeCap /\ toClient' = Append(toClient, "seed")
    BY <1>1, <1>7, <2>1, SayTo DEF PeerPlaces
  <2>3. /\ peer.version # 0 /\ p.frames = 0 /\ p.sel = Lesser(attempt, peer.version)
        /\ p.sum = IF Negotiated THEN FirstOf(Offer, NamesOf(peer.sums)) ELSE NoName
    BY <1>7 DEF IInv, PeerKnows
  <2>4. (next = "list" => Filters = 0) /\ (next = "filter" => Filters = 1)
    BY <2>1 DEF Filters, Bit
  <2>5. Said = Early /\ Taken = Agreed /\ Said' = Early + 1 /\ Taken' = Agreed
    BY <1>2, <1>3, <1>7, <2>1, <2>2, <2>3, <2>4 DEF Said, Taken
  <2>6. Out(Said + 1) = "seed"
    BY <1>2, <2>5 DEF Out
  <2>7. PeerKnows'
    BY <1>3, <2>1, <2>2, <2>3, <2>4 DEF PeerKnows
  <2>8. p'.pc \notin Receiving
    BY <2>1, <2>2 DEF Receiving
  <2> QED BY <1>1, <1>2, <2>2, <2>5, <2>6, <2>7, <2>8, PeerSays
<1>8. CASE p.pc = "list" /\ ~Push /\ Say("list", "request")
  <2>2. /\ p'.pc = "request" /\ Alive' /\ p' \in PeerTypes /\ UNCHANGED toPeer
        /\ p'.sel = p.sel /\ p'.sum = p.sum /\ p'.frames = p.frames
        /\ Len(toClient) < PipeCap /\ toClient' = Append(toClient, "list")
    BY <1>1, <1>8, SayTo DEF PeerPlaces
  <2>3. /\ peer.version # 0 /\ p.frames = 0 /\ p.sel = Lesser(attempt, peer.version)
        /\ p.sum = IF Negotiated THEN FirstOf(Offer, NamesOf(peer.sums)) ELSE NoName
    BY <1>8 DEF IInv, PeerKnows
  <2>4. Said = Seed /\ Taken = Agreed + Filters /\ Said' = Said + 1 /\ Taken' = Taken
    BY <1>2, <1>3, <1>8, <2>2, <2>3 DEF Said, Taken
  <2>5. Out(Said + 1) = "list"
    BY <1>2, <1>8, <2>4 DEF Out
  <2>6. PeerKnows'
    BY <1>3, <1>8, <2>2, <2>3 DEF PeerKnows
  <2>7. p'.pc \notin Receiving
    BY <2>2 DEF Receiving
  <2> QED BY <1>1, <2>2, <2>4, <2>5, <2>6, <2>7, PeerSays
<1>9. CASE p.pc = "ask" /\ Say("request", "take")
  <2>2. /\ p'.pc = "take" /\ Alive' /\ p' \in PeerTypes /\ UNCHANGED toPeer
        /\ p'.sel = p.sel /\ p'.sum = p.sum /\ p'.frames = p.frames
        /\ Len(toClient) < PipeCap /\ toClient' = Append(toClient, "request")
    BY <1>1, <1>9, SayTo DEF PeerPlaces
  <2>3. /\ peer.version # 0 /\ p.frames = 0 /\ p.sel = Lesser(attempt, peer.version) /\ Push
        /\ p.sum = IF Negotiated THEN FirstOf(Offer, NamesOf(peer.sums)) ELSE NoName
    BY <1>9 DEF IInv, PeerKnows
  <2>4. Said = Seed /\ Taken = Asked /\ Said' = Said + 1 /\ Taken' = Taken
    BY <1>2, <1>3, <1>9, <2>2, <2>3 DEF Said, Taken
  <2>5. Out(Said + 1) = "request"
    BY <1>2, <2>3, <2>4 DEF Out
  <2>6. PeerKnows'
    BY <1>2, <1>3, <2>2, <2>3 DEF PeerKnows
  <2>7. p.pc \in Receiving
    BY <1>9 DEF Receiving
  <2> QED BY <1>1, <2>2, <2>4, <2>5, <2>6, <2>7, PeerSays
<1>10. CASE p.pc = "bye" /\ Say("done", "leave")
  <2>2. /\ p'.pc = "leave" /\ Alive' /\ p' \in PeerTypes /\ UNCHANGED toPeer
        /\ p'.sel = p.sel /\ p'.sum = p.sum /\ p'.frames = p.frames
        /\ Len(toClient) < PipeCap /\ toClient' = Append(toClient, "done")
    BY <1>1, <1>10, SayTo DEF PeerPlaces
  <2>3. /\ peer.version # 0 /\ p.frames = DataFrames /\ p.sel = Lesser(attempt, peer.version)
        /\ p.sum = IF Negotiated THEN FirstOf(Offer, NamesOf(peer.sums)) ELSE NoName
    BY <1>10 DEF IInv, PeerKnows
  <2>4. Said = Total - 1 /\ Said' = Total /\ Taken' = Taken
    BY <1>2, <1>3, <1>10, <2>2, <2>3 DEF Said, Taken
  <2>5. Out(Said + 1) = "done" /\ Said' = Said + 1
    BY <1>2, <2>4 DEF Out
  <2>6. PeerKnows'
    BY <1>3, <2>2, <2>3 DEF PeerKnows
  <2>7. p.pc \in Receiving
    BY <1>10 DEF Receiving
  <2> QED BY <1>1, <2>2, <2>4, <2>5, <2>6, <2>7, PeerSays
<1> QED BY <1>4, <1>5, <1>6, <1>7, <1>8, <1>9, <1>10 DEF PeerSpeaks

\* The data that the peer sends.
LEMMA PeerFrameStep ==
    ASSUME IInv, PeerSendsFrame
    PROVE  IInv'
<1>1. /\ PeerFrame /\ UNCHANGED <<stderr, effects, faults, toPeer>>
      /\ UNCHANGED <<client, peer, attempt, sum>>
      /\ p.pc = "data" /\ Alive /\ p \in PeerTypes
      /\ Len(toClient) < PipeCap /\ toClient' = Append(toClient, "data")
  BY DEF PeerSendsFrame, PeerFrame, Alive, IInv, Types, PeerTypes
<1>2. /\ peer.version # 0 /\ ~Push /\ p.frames < DataFrames /\ p.frames \in Nat /\ DataFrames \in Nat
      /\ p.sel = Lesser(attempt, peer.version)
      /\ p.sum = IF Negotiated THEN FirstOf(Offer, NamesOf(peer.sums)) ELSE NoName
  <2>1. p.frames \in 0 .. DataFrames /\ DataFrames \in Nat
    BY <1>1, ShellAssumption DEF PeerTypes
  <2>2. p.frames \in Nat
    BY <2>1
  <2> QED BY <1>1, <2>1, <2>2 DEF IInv, PeerKnows
<1>3. /\ p'.pc \in {"bye", "data"} /\ p'.frames = p.frames + 1
      /\ p'.pc = "bye" => p.frames + 1 = DataFrames
      /\ p'.pc = "data" => p.frames + 1 # DataFrames
      /\ p'.sel = p.sel /\ p'.sum = p.sum
      /\ p' \in PeerTypes
  <2>1. p' = [p EXCEPT !.frames = p.frames + 1,
                       !.pc = IF p.frames + 1 = DataFrames THEN "bye" ELSE "data"]
    BY DEF PeerSendsFrame
  <2>2. p.frames + 1 \in 0 .. DataFrames
    BY <1>2
  <2> QED BY <1>1, <2>1, <2>2 DEF PeerTypes, PeerPlaces
<1>4. /\ Said = Seed + 1 + p.frames /\ Seed \in Nat /\ Total = Seed + 2 + DataFrames
      /\ Prefixes <= Early /\ Prefixes + Flags <= Early /\ Seed = Early + 1 /\ Early \in Nat
      /\ Prefixes \in Nat /\ Flags \in Nat
  <2>1. Said = Seed + 1 + p.frames /\ Total = Seed + 2 + DataFrames
    BY <1>1, <1>2 DEF Said, Total
  <2>2. Prefixes \in {0, 1} /\ Flags \in {0, 1} /\ Lists \in {0, 1}
    BY Numbers DEF IInv
  <2> QED BY <2>1, <2>2 DEF Seed, Early
<1>5. Out(Said + 1) = "data"
  BY <1>2, <1>4 DEF Out
<1>6. Said' = Said + 1 /\ Taken' = Taken
  <2>1. Seed' = Seed /\ Total' = Total /\ Asked' = Asked /\ peer' = peer /\ ~Push'
    BY <1>1, <1>2, SameScripts
  <2>2. Taken' = Taken
    BY <1>1, <1>2, <1>3, <2>1 DEF Taken
  <2>3. CASE p'.pc = "bye"
    <3>1. Said' = Total - 1
      BY <1>2, <2>1, <2>3 DEF Said
    <3> QED BY <1>2, <1>3, <1>4, <2>2, <2>3, <3>1
  <2>4. CASE p'.pc = "data"
    <3>1. Said' = Seed + 1 + (p.frames + 1)
      BY <1>2, <1>3, <2>1, <2>4 DEF Said
    <3> QED BY <1>2, <1>4, <2>2, <3>1
  <2> QED BY <1>3, <2>3, <2>4
<1>7. PeerKnows'
  BY <1>1, <1>2, <1>3, SameScripts, SameAnswers DEF PeerKnows
<1>8. Alive'
  BY <1>3 DEF Alive
<1> QED BY <1>1, <1>2, <1>3, <1>5, <1>6, <1>7, <1>8, PeerSays

\* The message that the peer reads next.
LEMMA NextHeard ==
    ASSUME IInv, Alive, Hear
    PROVE  /\ heard = In(Taken + 1)
           /\ Len(toPeer) \in Nat /\ Len(toPeer) >= 1
           /\ Active => Taken + 1 <= Put
<1>1. Len(toPeer) \in Nat /\ Len(toPeer) >= 1 /\ Head(toPeer) = toPeer[1]
  BY TailOf DEF Hear, IInv, Outgoing
<1>2. toPeer[1] = In(Taken + 1)
  BY <1>1 DEF IInv, Outgoing
<1>3. Active => Taken + Len(toPeer) = Put
  BY DEF IInv, Outgoing
<1>4. Taken \in Nat /\ Put \in Nat
  BY Numbers DEF IInv
<1> QED BY <1>1, <1>2, <1>3, <1>4 DEF heard

\* The only name of a list is its first.
LEMMA OnlyName ==
    ASSUME NEW name, NEW S, name \in S
    PROVE  FirstOf(<<name>>, S) = name
<1> DEFINE list == <<name>>
           first == {i \in DOMAIN list : list[i] \in S /\ \A j \in DOMAIN list : list[j] \in S => i <= j}
<1>1. DOMAIN list = {1} /\ list[1] = name
  OBVIOUS
<1> HIDE DEF list
<1>2. first = {1}
  BY <1>1
<1>3. (CHOOSE i \in first : TRUE) = 1
  BY <1>2
<1>4. FirstOf(list, S) = list[CHOOSE i \in first : TRUE]
  BY <1>2 DEF FirstOf
<1> QED BY <1>1, <1>3, <1>4 DEF list

\* A client of a shell that has answered the list has chosen one of the peer's checksums.
LEMMA Chosen ==
    ASSUME IInv, Active, Negotiated, Put >= Hello + 1, ~NamesFirst
    PROVE  sum # NoName /\ FirstOf(Offer, NamesOf(peer.sums)) = sum
<1>1. pc \notin {"args", "version", "prefix", "flags", "offer", "names"}
  <2>1. Hello \in Nat /\ Args \in Nat /\ Args <= Hello
    BY Numbers DEF IInv, Hello
  <2> QED BY <2>1 DEF Put
<1>2. sum # NoName /\ sum \in NamesOf(peer.sums)
  BY <1>1 DEF IInv, ClientKnows, Opening
<1>3. Offer = <<sum>>
  BY DEF Offer
<1> QED BY <1>2, <1>3, OnlyName

\* The messages that the peer waits for.
LEMMA ListenStep ==
    ASSUME IInv, PeerListens
    PROVE  IInv'
<1>1. /\ PeerFrame /\ UNCHANGED <<stderr, effects, faults>> /\ Hear
      /\ UNCHANGED <<client, peer, attempt, sum>>
      /\ p.pc \notin {"leave", "exited"} /\ Alive /\ p \in PeerTypes
  BY DEF PeerListens, PeerFrame, Alive, IInv, Types, PeerTypes
<1>2. /\ Prefixes \in {0, 1} /\ Flags \in {0, 1} /\ Lists \in {0, 1} /\ DataFrames \in Nat \ {0}
      /\ Args \in {0, 1} /\ Filters \in {0, 1}
      /\ Early = Prefixes + Flags + Lists /\ Seed = Early + 1
      /\ Push => Total = Seed + 2
      /\ ~Push => Total = Seed + 2 + DataFrames
      /\ Hello = Args + Prefixes /\ Agreed = Hello + Lists /\ Asked = Agreed + Filters + 1
  BY Numbers, ShellAssumption DEF IInv, Early, Seed, Total, Hello, Agreed, Asked
<1>3. /\ Prefixes' = Prefixes /\ Flags' = Flags /\ Lists' = Lists
      /\ Args' = Args /\ Filters' = Filters
      /\ Early' = Early /\ Seed' = Seed /\ Total' = Total
      /\ Hello' = Hello /\ Agreed' = Agreed /\ Asked' = Asked
      /\ Push' = Push /\ Modern' = Modern /\ Negotiated' = Negotiated /\ Offer' = Offer
      /\ peer' = peer /\ client' = client /\ attempt' = attempt /\ PeerSums' = PeerSums
  BY <1>1, SameScripts, SameAnswers
<1>4. CASE p.pc = "args" /\ p' = [p EXCEPT !.pc = "prefix"]
  <2>1. /\ p'.pc = "prefix" /\ Alive' /\ p' \in PeerTypes
        /\ p'.sel = p.sel /\ p'.sum = p.sum /\ p'.frames = p.frames
    BY <1>1, <1>4 DEF PeerTypes, PeerPlaces, Alive
  <2>2. client.via = "shell" /\ Args = 1 /\ p.sum = NoName /\ p.frames = 0
    BY <1>4 DEF IInv, PeerKnows, Args, Bit
  <2>3. Said' = Said /\ Taken = 0 /\ Taken' = 1
    BY <1>3, <1>4, <2>1, <2>2 DEF Said, Taken
  <2>4. PeerKnows'
    BY <1>3, <2>1, <2>2 DEF PeerKnows
  <2>5. p'.pc \notin Receiving
    BY <2>1 DEF Receiving
  <2> QED BY <1>1, <2>1, <2>3, <2>4, <2>5, PeerHears
<1>5. CASE p.pc = "version" /\ HearVersion
  <2>1. peer.version # 0 /\ client.via = "shell" /\ Prefixes = 1 /\ p.sum = NoName /\ p.frames = 0
    BY <1>5 DEF IInv, PeerKnows, Prefixes, Bit
  <2>2. Taken = Args /\ Said = Prefixes
    BY <1>5 DEF Taken, Said
  <2>3. heard = <<"version", attempt>>
    <3>1. In(Taken + 1) = <<"version", attempt>>
      BY <1>2, <2>1, <2>2 DEF In
    <3> QED BY <1>1, <3>1, NextHeard
  <2>4. PICK s : s = Lesser(attempt, peer.version)
    OBVIOUS
  <2>5. p' = [p EXCEPT !.sel = s, !.pc = IF s >= 30 THEN "flags" ELSE "seed"]
    BY <1>5, <2>3, <2>4 DEF HearVersion
  <2>6. attempt \in {27, 31} /\ peer.version \in Nat /\ s \in Nat /\ (s >= 30 <=> Modern)
    <3>1. attempt \in {27, 31} /\ peer.version \in 0 .. 255
      BY ShellAssumption DEF IInv, Types
    <3> QED BY <2>1, <2>4, <3>1 DEF Lesser, Modern
  <2>7. /\ p'.pc \in {"flags", "seed"} /\ (p'.pc = "flags" <=> Modern) /\ Alive' /\ p' \in PeerTypes
        /\ p'.sel = s /\ p'.sum = p.sum /\ p'.frames = p.frames
    BY <1>1, <2>5, <2>6 DEF PeerTypes, PeerPlaces, Alive
  <2>8. ~Modern => ~Negotiated /\ Flags = 0 /\ Lists = 0
    BY DEF Negotiated, Flags, Lists, Bit
  <2>9. Said' = Prefixes /\ Taken' = Hello
    BY <1>2, <1>3, <2>1, <2>7, <2>8 DEF Said, Taken
  <2>10. PeerKnows'
    BY <1>3, <2>1, <2>4, <2>7, <2>8 DEF PeerKnows
  <2>11. p'.pc \notin Receiving
    BY <2>7 DEF Receiving
  <2>12. Taken' = Taken + 1
    BY <1>2, <2>1, <2>2, <2>9
  <2> QED BY <1>1, <2>2, <2>7, <2>9, <2>10, <2>11, <2>12, PeerHears
<1>6. CASE p.pc = "choice" /\ HearNames
  <2>1. /\ peer.version # 0 /\ Modern /\ Negotiated /\ Lists = 1 /\ peer.negotiates
        /\ p.sum = NoName /\ p.frames = 0 /\ p.sel = Lesser(attempt, peer.version)
    BY <1>6 DEF IInv, PeerKnows, Lists, Bit, Negotiated
  <2>2. Taken = Hello /\ Said = Early
    BY <1>6, <2>1 DEF Taken, Said
  <2>3. heard = <<"names", Offer>>
    <3>1. In(Taken + 1) = <<"names", Offer>>
      BY <1>2, <2>1, <2>2 DEF In
    <3> QED BY <1>1, <3>1, NextHeard
  <2>4. PICK name : name = FirstOf(Offer, NamesOf(peer.sums))
    OBVIOUS
  <2>5. IF name = NoName THEN Exit(2) ELSE p' = [p EXCEPT !.sum = name, !.pc = "seed"]
    BY <1>6, <2>3, <2>4 DEF HearNames
  <2>6. CASE name = NoName
    <3>1. Exit(2) /\ ~Alive' /\ p'.pc = "exited"
      BY <1>1, <2>5, <2>6 DEF Exit, Alive, PeerTypes
    <3>2. ASSUME Active, client.via = "shell" PROVE FALSE
      <4>1. ~NamesFirst
        BY <3>2 DEF NamesFirst
      <4>2. Put >= Hello + 1
        <5>1. Taken + 1 <= Put /\ Put \in Nat
          BY <1>1, <3>2, NextHeard, Numbers DEF IInv
        <5> QED BY <2>2, <5>1
      <4> QED BY <2>1, <2>4, <2>6, <3>2, <4>1, <4>2, Chosen
    <3>3. (Active' <=> Active) /\ (should_fallback_to_protocol27(err)' <=> should_fallback_to_protocol27(err))
      BY <1>1 DEF PeerFrame, Active, should_fallback_to_protocol27
    <3>4. Faultless'
      BY <1>1, <1>6, <3>1, <3>2, <3>3 DEF IInv, Faultless, PeerFrame
    <3> QED BY <1>1, <3>1, <3>4, PeerExits DEF Hear
  <2>7. CASE name # NoName
    <3>1. name \in PeerSums
      BY <2>4, FirstFound DEF PeerSums
    <3>2. /\ p'.pc = "seed" /\ Alive' /\ p' \in PeerTypes
          /\ p'.sel = p.sel /\ p'.sum = name /\ p'.frames = p.frames
      BY <1>1, <1>3, <2>5, <2>7, <3>1 DEF PeerTypes, PeerPlaces, Alive
    <3>3. Said' = Early /\ Taken' = Agreed
      BY <1>3, <2>1, <3>2 DEF Said, Taken
    <3>4. Taken' = Taken + 1
      BY <1>2, <2>1, <2>2, <3>3
    <3>5. PeerKnows'
      BY <1>3, <2>1, <2>4, <3>2 DEF PeerKnows
    <3>6. p'.pc \notin Receiving
      BY <3>2 DEF Receiving
    <3> QED BY <1>1, <2>2, <3>2, <3>3, <3>4, <3>5, <3>6, PeerHears
  <2> QED BY <2>6, <2>7
<1>7. CASE p.pc = "filter" /\ p' = [p EXCEPT !.pc = "list"]
  <2>1. /\ p'.pc = "list" /\ Alive' /\ p' \in PeerTypes
        /\ p'.sel = p.sel /\ p'.sum = p.sum /\ p'.frames = p.frames
    BY <1>1, <1>7 DEF PeerTypes, PeerPlaces, Alive
  <2>2. /\ peer.version # 0 /\ p.frames = 0 /\ p.sel = Lesser(attempt, peer.version) /\ Filters = 1
        /\ p.sum = IF Negotiated THEN FirstOf(Offer, NamesOf(peer.sums)) ELSE NoName
    BY <1>7 DEF IInv, PeerKnows
  <2>3. Said' = Said /\ Taken = Agreed /\ Taken' = Agreed + Filters
    BY <1>3, <1>7, <2>1, <2>2 DEF Said, Taken
  <2>4. PeerKnows'
    BY <1>3, <2>1, <2>2 DEF PeerKnows
  <2>5. p'.pc \notin Receiving
    BY <2>1 DEF Receiving
  <2> QED BY <1>1, <2>1, <2>2, <2>3, <2>4, <2>5, PeerHears
<1>8. CASE p.pc = "request" /\ p' = [p EXCEPT !.pc = "data"]
  <2>1. /\ p'.pc = "data" /\ Alive' /\ p' \in PeerTypes
        /\ p'.sel = p.sel /\ p'.sum = p.sum /\ p'.frames = p.frames
    BY <1>1, <1>8 DEF PeerTypes, PeerPlaces, Alive
  <2>2. /\ peer.version # 0 /\ p.frames = 0 /\ p.sel = Lesser(attempt, peer.version) /\ ~Push
        /\ p.sum = IF Negotiated THEN FirstOf(Offer, NamesOf(peer.sums)) ELSE NoName
    BY <1>8 DEF IInv, PeerKnows
  <2>3. Said = Seed + 1 /\ Said' = Seed + 1 + 0 /\ Taken = Agreed + Filters /\ Taken' = Asked
    BY <1>3, <1>8, <2>1, <2>2 DEF Said, Taken
  <2>4. PeerKnows'
    BY <1>2, <1>3, <2>1, <2>2 DEF PeerKnows
  <2>5. p'.pc \notin Receiving
    BY <2>1 DEF Receiving
  <2>6. Said' = Said /\ Taken' = Taken + 1
    BY <1>2, <2>3
  <2> QED BY <1>1, <2>1, <2>4, <2>5, <2>6, PeerHears
<1>9. CASE p.pc = "take" /\ HearFrame
  <2>1. /\ peer.version # 0 /\ p.sel = Lesser(attempt, peer.version) /\ Push
        /\ p.sum = IF Negotiated THEN FirstOf(Offer, NamesOf(peer.sums)) ELSE NoName
        /\ p.frames < DataFrames
    BY <1>9 DEF IInv, PeerKnows
  <2>2. p.frames \in Nat /\ p.frames + 1 \in 0 .. DataFrames
    BY <1>1, <1>2, <2>1 DEF PeerTypes
  <2>3. p' = [p EXCEPT !.frames = p.frames + 1,
                       !.pc = IF p.frames + 1 = DataFrames THEN "bye" ELSE "take"]
    BY <1>9 DEF HearFrame
  <2>4. /\ p'.pc \in {"bye", "take"} /\ Alive' /\ p' \in PeerTypes
        /\ p'.sel = p.sel /\ p'.sum = p.sum /\ p'.frames = p.frames + 1
        /\ p'.pc = "bye" => p.frames + 1 = DataFrames
        /\ p'.pc = "take" => p.frames + 1 # DataFrames
    BY <1>1, <2>2, <2>3 DEF PeerTypes, PeerPlaces, Alive
  <2>5. Said = Seed + 1 /\ Taken = Asked + p.frames /\ Taken' = Asked + (p.frames + 1)
    BY <1>3, <1>9, <2>1, <2>4 DEF Said, Taken
  <2>6. Said' = Seed + 1
    <3>1. Said' \in {Seed + 1, Total - 1}
      BY <1>3, <2>1, <2>4 DEF Said
    <3> QED BY <1>2, <2>1, <3>1
  <2>7. PeerKnows'
    <3>1. p'.pc = "take" => p'.frames < DataFrames
      BY <1>2, <2>2, <2>4
    <3> QED BY <1>3, <2>1, <2>4, <3>1 DEF PeerKnows
  <2>8. p.pc \in Receiving
    BY <1>9 DEF Receiving
  <2>9. Taken' = Taken + 1
    BY <1>2, <2>2, <2>5
  <2> QED BY <1>1, <2>4, <2>5, <2>6, <2>7, <2>8, <2>9, PeerHears
<1> QED BY <1>4, <1>5, <1>6, <1>7, <1>8, <1>9 DEF PeerListens

\* The first effect of a push: no client that may try again has sent the list.
LEMMA TakesListStep ==
    ASSUME IInv, PeerTakesList
    PROVE  IInv'
<1>1. /\ PeerFrame /\ UNCHANGED <<stderr, faults>> /\ Hear
      /\ UNCHANGED <<client, peer, attempt, sum>>
      /\ p.pc = "list" /\ Push /\ Alive /\ p \in PeerTypes
      /\ p' = [p EXCEPT !.pc = "ask"] /\ effects' = {attempt}
  BY DEF PeerTakesList, PeerFrame, Alive, IInv, Types, PeerTypes
<1>2. /\ p'.pc = "ask" /\ Alive' /\ p' \in PeerTypes
      /\ p'.sel = p.sel /\ p'.sum = p.sum /\ p'.frames = p.frames
  BY <1>1 DEF PeerTypes, PeerPlaces, Alive
<1>3. /\ peer.version # 0 /\ p.frames = 0 /\ p.sel = Lesser(attempt, peer.version)
      /\ p.sum = IF Negotiated THEN FirstOf(Offer, NamesOf(peer.sums)) ELSE NoName
  BY <1>1 DEF IInv, PeerKnows
<1>4. /\ Hello \in Nat /\ Args \in Nat /\ Args <= Hello /\ Hello <= Agreed
      /\ Agreed \in Nat /\ Filters \in {0, 1} /\ Asked = Agreed + Filters + 1
  BY Numbers DEF IInv, Hello, Agreed, Asked
<1>5. Said' = Said /\ Taken = Agreed + Filters /\ Taken' = Asked + 0
  BY <1>1, <1>2, <1>3, SameScripts DEF Said, Taken
<1>6. PeerKnows'
  BY <1>1, <1>2, <1>3, SameScripts, SameAnswers DEF PeerKnows
<1>7. Len(toPeer) \in Nat /\ Len(toPeer) >= 1 /\ (Active => Taken + 1 <= Put)
  BY <1>1, NextHeard
<1>8. ASSUME Active PROVE pc \in Moving
  <2>1. Put > Agreed + Filters
    BY <1>4, <1>5, <1>7, <1>8, Numbers DEF IInv
  <2>2. pc \notin {"args", "version", "prefix", "flags", "offer", "choice", "names", "seed", "filter",
                  "list", "apply"}
    BY <1>4, <2>1 DEF Put
  <2> QED BY <1>8, <2>2 DEF IInv, Types, Places, Active, Opening, Settling
<1>9. ASSUME ~Active PROVE ~(attempt = 31 /\ should_fallback_to_protocol27(err))
  <2>1. ~(Taken + Len(toPeer) <= Agreed)
    BY <1>4, <1>5, <1>7
  <2> QED BY <1>1, <1>9, <2>1 DEF IInv, Clean
<1>10. Taken' = Taken + 1
  BY <1>4, <1>5
<1> QED BY <1>1, <1>2, <1>5, <1>6, <1>8, <1>9, <1>10, PeerHears

\* The peer's process ends while the client is closing, or with a fault.
LEMMA ExitedFaultless ==
    ASSUME IInv, Alive, PeerFrame, NEW code, Exit(code),
           \/ p.pc # "leave" /\ ~Active /\ faults' = faults
           \/ faults' # {}
           \/ peer.version = 0
    PROVE  Faultless'
<1>1. (Active' <=> Active) /\ (should_fallback_to_protocol27(err)' <=> should_fallback_to_protocol27(err))
  BY DEF PeerFrame, Active, should_fallback_to_protocol27
<1> QED BY <1>1 DEF IInv, Faultless, PeerFrame

\* The peer gives up on a client that has closed the pipe.
LEMMA InputEndsStep ==
    ASSUME IInv, PeerInputEnds
    PROVE  IInv'
<1>1. /\ PeerFrame /\ UNCHANGED <<toPeer, toClient, stderr, effects, faults>> /\ Exit(12)
      /\ p.pc \notin {"leave", "exited"} /\ Alive /\ ~stdin_open
  BY DEF PeerInputEnds, Alive
<1>2. ~Active
  BY <1>1 DEF IInv, ClientKnows
<1>3. Faultless'
  BY <1>1, <1>2, ExitedFaultless
<1> QED BY <1>1, <1>3, PeerExits

\* The peer leaves; a client that has not finished has everything in its pipe.
LEMMA LeaveStep ==
    ASSUME IInv, PeerLeaves
    PROVE  IInv'
<1>1. PICK code \in (IF peer.version = 0 THEN {127} ELSE {0, 23}) :
        Exit(code) /\ faults' = IF code = 23 THEN faults \cup {"partial"} ELSE faults
  BY DEF PeerLeaves
<1>2. /\ PeerFrame /\ UNCHANGED <<toPeer, toClient, stderr, effects>>
      /\ p.pc = "leave" /\ Alive /\ p \in PeerTypes /\ code \in Nat
  BY <1>1 DEF PeerLeaves, Alive, IInv, Types, PeerTypes
<1>3. CASE peer.version = 0 \/ code = 23
  <2>1. Faultless'
    BY <1>1, <1>2, <1>3, ExitedFaultless
  <2> QED BY <1>1, <1>2, <2>1, PeerExits
<1>4. CASE peer.version # 0 /\ code = 0
  <2>1. ~Alive' /\ p'.code = 0 /\ faults' = faults
    BY <1>1, <1>2, <1>4 DEF Exit, Alive, PeerTypes
  <2>2. /\ Got' = Got /\ (Active' <=> Active) /\ Total' = Total /\ UNCHANGED <<pc, frames>>
        /\ (should_fallback_to_protocol27(err)' <=> should_fallback_to_protocol27(err))
    BY <1>2, SameScripts DEF PeerFrame, Got, Active, should_fallback_to_protocol27
  <2>3. Active => Got + Len(toClient) = Total
    BY <1>2, <1>4 DEF IInv, Incoming, Said
  <2>4. ASSUME Active PROVE pc = "receive" \/ (pc = "serve" /\ frames = DataFrames)
    <3>1. p.frames = DataFrames
      BY <1>2, <1>4 DEF IInv, PeerKnows
    <3>2. Taken = IF Push THEN Asked + DataFrames ELSE Asked
      BY <1>2, <1>4, <3>1 DEF Taken
    <3>3. Taken + Len(toPeer) = Put /\ toPeer \in Seq(Written)
      BY <1>2, <2>4 DEF IInv, Outgoing
    <3>4. Put >= Taken
      BY <3>3, Numbers DEF IInv
    <3>5. /\ Hello \in Nat /\ Args \in Nat /\ Args <= Hello /\ Hello <= Agreed
          /\ Agreed \in Nat /\ Filters \in {0, 1} /\ Asked = Agreed + Filters + 1
          /\ DataFrames \in Nat \ {0} /\ frames \in Nat
      <4>1. DataFrames \in Nat \ {0} /\ frames \in Nat
        BY ShellAssumption DEF IInv, Types
      <4>2. Args \in {0, 1} /\ Prefixes \in {0, 1} /\ Lists \in {0, 1} /\ Filters \in {0, 1}
        BY Numbers DEF IInv
      <4> QED BY <4>1, <4>2 DEF Hello, Agreed, Asked
    <3>6. pc \notin {"args", "version", "prefix", "flags", "offer", "choice", "names", "seed", "filter",
                    "list", "apply"}
      <4>1. Put >= Asked
        <5>1. Put \in Nat /\ Asked \in Nat
          BY Numbers DEF IInv
        <5> QED BY <3>2, <3>4, <3>5, <5>1
      <4> QED BY <3>5, <4>1 DEF Put
    <3>7. pc \in Moving
      BY <2>4, <3>6 DEF IInv, Types, Places, Active, Opening, Settling
    <3>8. /\ pc = "send" => frames < DataFrames
          /\ pc \in {"algorithm", "request"} => frames = 0
          /\ pc \in {"serve", "send"} => Push
          /\ pc = "serve" => frames \in {0, DataFrames}
          /\ pc \in {"request", "receive"} => ~Push
      BY <2>4 DEF IInv, ClientKnows
    <3>9. Push => Put = Asked + frames
      BY <3>6, <3>8 DEF Put
    <3>10. ~Push /\ pc # "receive" => Put = Agreed + Filters
      BY <3>6 DEF Put
    <3>11. CASE Push
      BY <3>2, <3>4, <3>5, <3>7, <3>8, <3>9, <3>11 DEF Moving
    <3>12. CASE ~Push
      BY <3>2, <3>4, <3>5, <3>7, <3>10, <3>12
    <3> QED BY <3>11, <3>12
  <2>5. Faultless'
    BY <1>2, <2>1, <2>2, <2>3, <2>4 DEF IInv, Faultless, PeerFrame
  <2> QED BY <1>1, <1>2, <2>5, PeerExits
<1> QED BY <1>1, <1>3, <1>4

\* The peer dies.
LEMMA DieStep ==
    ASSUME IInv, PeerDies
    PROVE  IInv'
<1>1. /\ PeerFrame /\ UNCHANGED <<toPeer, toClient, stderr, effects>> /\ Exit(255) /\ Alive
      /\ faults' = faults \cup {"died"}
  BY DEF PeerDies
<1>2. Faultless'
  BY <1>1, ExitedFaultless
<1> QED BY <1>1, <1>2, PeerExits

-----------------------------------------------------------------------------
\* The theorems

\* The invariant holds at the start.
LEMMA Start ==
    ASSUME Init
    PROVE  IInv
<1>1. /\ client \in Clients /\ peer \in Peers
      /\ client.via = "daemon" => peer.version = 31
      /\ client.via \in {"shell", "daemon"}
      /\ client.via = "daemon" => attempt = 31 /\ pc = "flags" /\ sel = 31
      /\ client.via = "shell" => pc = "args" /\ sel = 0
      /\ attempt \in {27, 31} /\ pc \in {"flags", "args"} /\ sel \in {0, 31}
      /\ err = NoError /\ sum = NoName /\ frames = 0 /\ toPeer = << >> /\ toClient = << >>
      /\ stderr = 0 /\ stdin_open = TRUE /\ effects = {} /\ faults = {} /\ result = "none"
      /\ p = [pc |-> "noise", sel |-> 0, sum |-> NoName, frames |-> 0, noise |-> peer.noise, code |-> 0]
      /\ peer.noise \in Nat /\ DataFrames \in Nat /\ PipeCap \in Nat
  BY ShellAssumption DEF Init, Fresh
<1>2. Active /\ Alive /\ Said = 0 /\ Taken = 0
  BY <1>1 DEF Active, Ending, Alive, Said, Taken
<1>3. client.via = "daemon" => Prefixes = 0 /\ Args = 0 /\ Modern
  BY <1>1 DEF Prefixes, Args, Bit, Modern
<1>4. Got = 0 /\ Put = 0
  BY <1>1, <1>3 DEF Got, Put, Opening, Hello
<1>5. Types
  <2>1. NoName \in PeerSums /\ NoError \in [kind : ErrorKinds, setup : BOOLEAN]
    BY DEF PeerSums, NoError, ErrorKinds
  <2>2. p \in [pc : PeerPlaces, sel : Nat, sum : PeerSums, frames : 0 .. DataFrames, noise : Nat, code : Nat]
    BY <1>1, <2>1 DEF PeerPlaces
  <2> QED BY <1>1, <2>1, <2>2 DEF Types, Places, Opening, Settling
<1>6. Incoming /\ Outgoing
  BY <1>1, <1>2, <1>4 DEF Incoming, Outgoing
<1>7. Mute
  BY <1>1, <1>4, <1>5, Numbers DEF Mute
<1>8. ClientKnows
  <2>1. client.via = "daemon" => sel = Lesser(attempt, peer.version)
    BY <1>1 DEF Lesser
  <2> QED BY <1>1, <1>2, <1>3, <2>1 DEF ClientKnows, Opening, Moving
<1>9. PeerKnows
  BY <1>1 DEF PeerKnows
<1>10. Clean
  <2>1. ~(Got + Len(toClient) > Seed)
    BY <1>1, <1>4, <1>5, Numbers
  <2> QED BY <1>1, <1>2, <2>1 DEF Clean, Moving
<1>11. Outcome /\ Faultless
  BY <1>1, <1>2 DEF Outcome, Faultless
<1> QED BY <1>5, <1>6, <1>7, <1>8, <1>9, <1>10, <1>11 DEF IInv

\* Every step keeps the invariant.
LEMMA Step ==
    ASSUME IInv, [Next]_vars
    PROVE  IInv'
<1>1. CASE Client
  BY <1>1, ArgsStep, VersionStep, PrefixStep, FlagsStep, OfferStep, NamesStep, ChoiceStep, SeedStep,
     FilterStep, SendListStep, ReadListStep, ApplyStep, LookUpStep, RequestStep, ReceiveStep, ServeStep,
     FrameStep, CloseStep, RetryStep, ReportStep
  DEF Client
<1>2. CASE drain_stderr
  BY <1>2, DrainStep
<1>3. CASE Peer
  BY <1>3, NoiseStep, SpeakStep, PeerFrameStep, ListenStep, TakesListStep, InputEndsStep, LeaveStep
  DEF Peer
<1>4. CASE PeerDies
  BY <1>4, DieStep
<1>5. CASE UNCHANGED vars
  <2>1. stderr' \in 0 .. PipeCap
    BY <1>5 DEF vars, IInv, Types
  <2> QED BY <1>5, <2>1, StderrMoves DEF vars
<1> QED BY <1>1, <1>2, <1>3, <1>4, <1>5 DEF Next

(* The inductive invariant holds in every state of every run. *)
THEOREM Invariant == Spec => []IInv
<1>1. Init => IInv
  BY Start
<1>2. IInv /\ [Next]_vars => IInv'
  BY Step
<1> QED BY <1>1, <1>2, PTL DEF Spec

(* For every client, every peer and all capacities the second session starts *)
(* on an untouched destination: when should_fallback_to_protocol27 says yes, *)
(* nothing that would bring the peer to its first effect is on its way.      *)
THEOREM RetriesAreClean == Spec => []RetryIsClean
<1>1. IInv => RetryIsClean
  BY DEF IInv, Types, RetryIsClean
<1> QED BY <1>1, Invariant, PTL

(* Two sides that move data have agreed on the protocol and on the checksum, *)
(* whichever of them named its checksums first.                              *)
THEOREM SidesAgree == Spec => []InAgreement
<1>1. IInv => InAgreement
  <2> SUFFICES ASSUME IInv, pc \in {"request", "receive", "serve", "send"}, Alive
               PROVE  sel = p.sel /\ sum = p.sum
    BY DEF InAgreement
  <2>1. Active /\ pc \in Moving /\ pc \notin Opening
    BY DEF Active, Ending, Moving, Opening
  <2>2. peer.version # 0 /\ sel = Lesser(attempt, peer.version)
    BY <2>1 DEF IInv, ClientKnows
  <2>3. Got >= Seed /\ Got \in Nat /\ Seed \in Nat
    <3>1. Seed \in Nat /\ frames \in Nat
      BY Numbers, ShellAssumption DEF IInv, Types
    <3> QED BY <2>1, <3>1 DEF Got
  <2>4. Got + Len(toClient) = Said /\ toClient \in Seq(Spoken)
    BY <2>1 DEF IInv, Incoming
  <2>5. Said >= Seed
    BY <2>3, <2>4
  <2>6. /\ Prefixes \in {0, 1} /\ Flags \in {0, 1} /\ Lists \in {0, 1}
        /\ Early = Prefixes + Flags + Lists /\ Seed = Early + 1
    BY Numbers DEF IInv, Early, Seed
  <2>7. p.pc \notin {"noise", "args", "prefix", "version", "flags", "names", "choice", "exited"}
    BY <2>2, <2>5, <2>6 DEF Said, Alive
  <2>8. /\ p.sel = Lesser(attempt, peer.version)
        /\ p.sum = IF Negotiated THEN FirstOf(Offer, NamesOf(peer.sums)) ELSE NoName
    BY <2>2, <2>7 DEF IInv, PeerKnows
  <2>9. CASE ~Negotiated
    BY <2>2, <2>8, <2>9 DEF IInv, ClientKnows
  <2>10. CASE Negotiated
    <3>1. sum \in NamesOf(peer.sums) /\ (NamesFirst => sum = FirstOf(Offer, NamesOf(peer.sums)))
      BY <2>1, <2>10 DEF IInv, ClientKnows
    <3>2. ~NamesFirst => Offer = <<sum>>
      BY DEF Offer
    <3> QED BY <2>2, <2>8, <2>10, <3>1, <3>2, OnlyName
  <2> QED BY <2>9, <2>10
<1> QED BY <1>1, Invariant, PTL

(* What Report and finish_input say is what happened: success means that the *)
(* data went over, and failure against a peer of version 27 to 32 that       *)
(* something went wrong outside the negotiation.                             *)
THEOREM OutcomesAreSound == Spec => []OutcomeSound
<1>1. IInv => TypeOK
  BY DEF IInv, Types, TypeOK
<1>2. IInv => OkMeansDone
  BY DEF IInv, Outcome, OkMeansDone, Active, Ending
<1>3. IInv => FailsForAReason
  <2> SUFFICES ASSUME IInv, result = "failed", client.via = "shell", client.protocol = 0,
                      peer.version \in 27 .. 32, faults = {}, err.kind # "UnknownAlgorithm"
               PROVE  FALSE
    BY DEF FailsForAReason
  <2>1. pc = "reported" /\ ~Active /\ ~Alive
    BY DEF IInv, Outcome, Active, Ending
  <2>2. \/ err = NoError /\ p.code = 0
        \/ attempt = 31 /\ should_fallback_to_protocol27(err)
    BY <2>1 DEF IInv, Faultless, Alive
  <2>3. /\ err = NoError => p.code # 0
        /\ err # NoError => ~MayRetry
    BY DEF IInv, Outcome
  <2>4. ~should_fallback_to_protocol27(NoError)
    BY DEF should_fallback_to_protocol27, NoError, NegotiationErrors
  <2> QED BY <2>2, <2>3, <2>4 DEF MayRetry, REMOTE_SHELL_MODERN_PROTOCOL
<1>4. IInv => OutcomeSound
  BY <1>1, <1>2, <1>3 DEF OutcomeSound
<1> QED BY <1>4, Invariant, PTL

=============================================================================
