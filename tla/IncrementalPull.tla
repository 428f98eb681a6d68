-------------------------- MODULE IncrementalPull --------------------------
(***************************************************************************)
(* A protocol 31 pull with incremental recursion (rsync-cli/src/remote/    *)
(* pull.rs, receive.rs, send.rs).  The sender announces the top level      *)
(* first and one further list per directory later, between the answers to  *)
(* the requests it already has.  The client checks, extends and numbers    *)
(* its list as the parts arrive, asks for what it needs of each part, and  *)
(* deletes the extras when it reads DONE.                                  *)
(*                                                                         *)
(* A path is a model value; Tree gives every directory its children, Order *)
(* is the order of the file list (FileListOrder), collision_key what a     *)
(* name is in lower case and normalised: paths with the same key cannot    *)
(* both exist on Windows.  The sender is outside this repository.  It      *)
(* answers DONE either once, when everything has been sent (Acks = "last", *)
(* the sender of the repository's tests), or for every list the client has *)
(* finished (Acks = "each", rsync).                                        *)
(***************************************************************************)
EXTENDS Naturals, Sequences, FiniteSets, SequencesExt

CONSTANTS
    Top,        \* "."
    Tree,       \* [directories -> SUBSET paths]
    Order,      \* all paths, in file-list order
    Keys,       \* the collision keys that the names may have, [paths -> keys]
    Excluded,   \* paths the client's filters leave out
    Dest0,      \* what the destination holds
    Below,      \* [paths -> SUBSET paths]: what is in a directory, at any depth
    Current,    \* the files of it that are up to date
    Acks        \* "last" | "each"

VARIABLES
    delete, trust_sender,   \* --delete, --trust-sender
    collision_key,
    pc,         \* the client: start, loop, ack1, ack2, stats, ack3, done, failed
    entries,    \* the client's file list
    requested,  \* indexes asked for
    present,    \* paths in the destination
    fresh,      \* those with the source's contents
    req, resp,  \* the two streams
    peerList,   \* the sender's numbering
    expanded,   \* directories whose list has been sent
    eofSent, peerDone, peerPc

vars == <<delete, trust_sender, collision_key, pc, entries, requested, present, fresh, req,
          resp, peerList, expanded, eofSent, peerDone, peerPc>>
clientVars == <<delete, trust_sender, collision_key, pc, entries, requested, present, fresh>>
peerVars == <<peerList, expanded, eofSent, peerDone, peerPc>>

IsDir(path) == path \in DOMAIN Tree
Source == UNION {Tree[d] : d \in DOMAIN Tree}

ASSUME TreeAssumption ==
    /\ Top \in DOMAIN Tree
    /\ DOMAIN Tree \ {Top} \subseteq Source
    /\ Top \notin Source
    \* every path is below Top
    /\ \A S \in SUBSET Source :
           Tree[Top] \subseteq S /\ (\A d \in S \cap DOMAIN Tree : Tree[d] \subseteq S) => S = Source

ASSUME OrderAssumption ==
    /\ Order \in Seq(Source \cup Dest0)
    /\ Source \subseteq ToSet(Order)

\* A file that is up to date has the contents of a file of the source.
ASSUME DestAssumption == Current \subseteq Source

\* A path of the source is below directories of the source only.
ASSUME BelowAssumption ==
    /\ Below \in [Source \cup Dest0 -> SUBSET (Source \cup Dest0)]
    /\ \A d \in DOMAIN Tree \ {Top} : Tree[d] \subseteq Below[d]
    /\ \A path \in DOMAIN Below : Below[path] \cap Source # {} => path \in Source

--------------------------------------------------------------------------
(* The file list. *)

\* A finite set of numbers, the smallest first.
Ascending(S) ==
    [k \in 1..Cardinality(S) |-> CHOOSE p \in S : Cardinality({q \in S : q < p}) = k - 1]

sort_remote_entries_for_sender_indexes(list) ==
    LET ranks == Ascending({i \in DOMAIN Order : Order[i] \in list})
    IN [k \in DOMAIN ranks |-> Order[ranks[k]]]

\* Mutant: a later list is sorted into the old one.
MutExtendSorted(old, list) == sort_remote_entries_for_sender_indexes(ToSet(old) \cup list)

\* A later list is sorted by itself and goes to the end.
Extend(old, list) == old \o sort_remote_entries_for_sender_indexes(list)

preflight_destination_paths(list) ==
    \A i, j \in DOMAIN list : collision_key[list[i]] = collision_key[list[j]] => i = j

validate_remote_file_list_paths(list) == preflight_destination_paths(list)

\* The sender was told the filters; a list that ignores them is not believed.
validate_remote_sender_claims(list) == trust_sender \/ list \cap Excluded = {}

Acceptable(old, list) == /\ validate_remote_file_list_paths(Extend(old, list))
                         /\ validate_remote_sender_claims(list)

selected_remote_entry_indexes(list) == {i \in DOMAIN list : list[i] \notin Excluded}
needs_update(path) == path \notin present \/ path \notin fresh

--------------------------------------------------------------------------
(* The client. *)

\* Mutant: the first entry of a part is passed over.
MutBatch(list, start) == {i \in selected_remote_entry_indexes(list) : i > start + 1}

\* The part of the list from Start on: its directories are made and the files
\* that differ are asked for; DONE ends the requests of this part.
Batch(list, start) == {i \in selected_remote_entry_indexes(list) : i > start}

\* Mutant: only the first part is ended by DONE.
MutRequestWithoutDone(list, start) ==
    LET batch == Batch(list, start)
        files == {i \in batch : ~IsDir(list[i]) /\ needs_update(list[i])} \ requested
    IN /\ present' = present \cup {list[i] : i \in {j \in batch : IsDir(list[j])}}
       /\ requested' = requested \cup files
       /\ req' = req \o Ascending(files) \o IF start = 0 THEN <<0>> ELSE << >>

request_remote_pull_incremental_batch(list, start) ==
    LET batch == Batch(list, start)
        files == {i \in batch : ~IsDir(list[i]) /\ needs_update(list[i])} \ requested
    IN /\ present' = present \cup {list[i] : i \in {j \in batch : IsDir(list[j])}}
       /\ requested' = requested \cup files
       /\ req' = req \o Ascending(files) \o <<0>>

DONE == 0

Refuse == /\ pc' = "failed"
          /\ UNCHANGED <<entries, requested, present, fresh, req>>

Read == /\ resp # << >>
        /\ resp' = Tail(resp)
        /\ UNCHANGED <<delete, trust_sender, collision_key>>
        /\ UNCHANGED peerVars
m == Head(resp)

execute_remote_pull_protocol31_incremental_with_entries ==
    /\ pc = "start"
    /\ Read
    /\ IF Acceptable(<< >>, m.batch)
       THEN /\ pc' = "loop"
            /\ entries' = Extend(<< >>, m.batch)
            /\ request_remote_pull_incremental_batch(entries', 0)
            /\ UNCHANGED fresh
       ELSE Refuse

ReadExtraFileList ==
    /\ pc = "loop"
    /\ Read
    /\ m.type = "list"
    /\ IF /\ m.parent \in DOMAIN entries
          /\ IsDir(entries[m.parent])
          /\ Acceptable(entries, m.batch)
       THEN /\ entries' = Extend(entries, m.batch)
            /\ request_remote_pull_incremental_batch(entries', Len(entries))
            /\ UNCHANGED <<pc, fresh>>
       ELSE Refuse

\* The mark is read and nothing is remembered of it.
ReadFileListEof ==
    /\ pc = "loop"
    /\ Read
    /\ m.type = "eof"
    /\ UNCHANGED <<pc, entries, requested, present, fresh, req>>

apply_remote_sender_file_response_protocol31 ==
    /\ pc = "loop"
    /\ Read
    /\ m.type = "file"
    /\ IF m.index \in DOMAIN entries
       THEN /\ present' = present \cup {entries[m.index]}
            \* the contents are those of the file the sender means by the index
            /\ fresh' = IF entries[m.index] = peerList[m.index]
                        THEN fresh \cup {entries[m.index]} ELSE fresh \ {entries[m.index]}
            /\ UNCHANGED <<pc, entries, requested, req>>
       ELSE Refuse

\* Mutant: the deletions go by the last list only.
MutKeepLastList == {entries[i] : i \in {j \in selected_remote_entry_indexes(entries) :
                                         j > Cardinality(Tree[Top])}}

\* What the deletion is told to keep: the selected entries received so far.
Keep == {entries[i] : i \in selected_remote_entry_indexes(entries)}

\* Mutant: the filters do not protect.
MutDeleteUnprotected == present \cap Keep

\* A path that is neither kept nor under an exclude goes, a directory of this
\* kind with all that is below it, excluded or not (remove_dir_all).
delete_local_extras ==
    LET extras == present \ (Keep \cup Excluded)
    IN present \ (extras \cup UNION {Below[path] : path \in extras})

\* DONE ends the loop; the extras go, and the closing exchange begins.
ReadDone ==
    /\ pc = "loop"
    /\ Read
    /\ m.type = "done"
    /\ present' = IF delete THEN delete_local_extras ELSE present
    /\ req' = Append(req, DONE)
    /\ pc' = "ack1"
    /\ UNCHANGED <<entries, requested, fresh>>

\* Two acknowledgements, the statistics, the goodbye; anything else is an error.
ReadClosing ==
    /\ pc \in {"ack1", "ack2", "stats", "ack3"}
    /\ Read
    /\ LET wanted == IF pc = "stats" THEN "stats" ELSE "done"
           next == CASE pc = "ack1" -> "ack2" [] pc = "ack2" -> "stats"
                     [] pc = "stats" -> "ack3" [] pc = "ack3" -> "done"
       IN IF m.type # wanted THEN Refuse
          ELSE /\ pc' = next
               /\ req' = IF pc \in {"ack1", "stats", "ack3"} THEN Append(req, DONE) ELSE req
               /\ UNCHANGED <<entries, requested, present, fresh>>

Client == \/ execute_remote_pull_protocol31_incremental_with_entries
          \/ ReadExtraFileList
          \/ ReadFileListEof
          \/ apply_remote_sender_file_response_protocol31
          \/ ReadDone
          \/ ReadClosing

--------------------------------------------------------------------------
(* The sender. *)

Tell(msg) == resp' = Append(resp, msg)
Pending == {i \in DOMAIN peerList : IsDir(peerList[i])}

\* One more directory, at any moment of the transfer.
SendExtraList ==
    /\ peerPc = "serve"
    /\ \E i \in Pending :
           /\ peerList[i] \notin expanded
           /\ Tell([type |-> "list", parent |-> i, batch |-> Tree[peerList[i]]])
           /\ peerList' = peerList \o sort_remote_entries_for_sender_indexes(Tree[peerList[i]])
           /\ expanded' = expanded \cup {peerList[i]}
    /\ UNCHANGED <<req, eofSent, peerDone, peerPc>>
    /\ UNCHANGED clientVars

AllSent == \A i \in Pending : peerList[i] \in expanded

SendListEof ==
    /\ peerPc = "serve" /\ AllSent /\ ~eofSent
    /\ Tell([type |-> "eof"])
    /\ eofSent' = TRUE
    /\ UNCHANGED <<req, peerList, expanded, peerDone, peerPc>>
    /\ UNCHANGED clientVars

Answer ==
    /\ peerPc = "serve" /\ req # << >> /\ Head(req) # DONE
    /\ Tell([type |-> "file", index |-> Head(req)])
    /\ req' = Tail(req)
    /\ UNCHANGED <<peerList, expanded, eofSent, peerDone, peerPc>>
    /\ UNCHANGED clientVars

Lists == Cardinality(expanded)

\* A list is finished; the last one, when there are no more to come, ends the phase.
FinishList ==
    /\ peerPc = "serve" /\ req # << >> /\ Head(req) = DONE
    /\ peerDone' = peerDone + 1
    /\ req' = Tail(req)
    /\ LET last == eofSent /\ peerDone + 1 = Lists
       IN /\ peerPc' = IF last THEN "ack1" ELSE "serve"
          /\ IF last \/ Acks = "each" THEN Tell([type |-> "done"]) ELSE UNCHANGED resp
    /\ UNCHANGED <<peerList, expanded, eofSent>>
    /\ UNCHANGED clientVars

\* The last list was finished before the sender knew that it was the last.
FinishLate ==
    /\ peerPc = "serve" /\ eofSent /\ peerDone = Lists
    /\ peerPc' = "ack1"
    /\ IF Acks = "each" THEN UNCHANGED resp ELSE Tell([type |-> "done"])
    /\ UNCHANGED <<req, peerList, expanded, eofSent, peerDone>>
    /\ UNCHANGED clientVars

PeerClosing ==
    /\ peerPc \in {"ack1", "ack2", "ack3", "ack4"}
    /\ req # << >> /\ req' = Tail(req)
    /\ resp' = resp \o (CASE peerPc \in {"ack1", "ack3"} -> <<[type |-> "done"]>>
                          [] peerPc = "ack2" -> <<[type |-> "done"], [type |-> "stats"]>>
                          [] peerPc = "ack4" -> << >>)
    /\ peerPc' = CASE peerPc = "ack1" -> "ack2" [] peerPc = "ack2" -> "ack3"
                   [] peerPc = "ack3" -> "ack4" [] peerPc = "ack4" -> "end"
    /\ UNCHANGED <<peerList, expanded, eofSent, peerDone>>
    /\ UNCHANGED clientVars

Sender == SendExtraList \/ SendListEof \/ Answer \/ FinishList \/ FinishLate \/ PeerClosing

--------------------------------------------------------------------------

Init ==
    /\ delete \in BOOLEAN
    /\ trust_sender \in BOOLEAN
    /\ collision_key \in Keys
    /\ pc = "start"
    /\ entries = << >>
    /\ requested = {}
    /\ present = Dest0
    /\ fresh = Current
    /\ req = << >>
    /\ peerList = sort_remote_entries_for_sender_indexes(Tree[Top])
    /\ resp = <<[type |-> "list", parent |-> 0, batch |-> Tree[Top]]>>
    /\ expanded = {Top}
    /\ eofSent = FALSE
    /\ peerDone = 0
    /\ peerPc = "serve"

Next == Client \/ Sender

Spec == Init /\ [][Next]_vars
FairSpec == Spec /\ WF_vars(Client) /\ WF_vars(Sender)

--------------------------------------------------------------------------
(* Properties. *)

TypeOK ==
    /\ pc \in {"start", "loop", "ack1", "ack2", "stats", "ack3", "done", "failed"}
    /\ ToSet(entries) \subseteq Source
    /\ requested \subseteq DOMAIN entries
    /\ present \subseteq Source \cup Dest0
    /\ fresh \subseteq Source

(* An index names the same file on both sides, although the two lists grow  *)
(* at different times: what one side has not seen yet only extends the list.*)
SameNumbers == IsPrefix(entries, peerList)

(* The client's list is well formed, and numbered as the sender's.          *)
NumbersSound == TypeOK /\ SameNumbers

(* --delete never removes a file that the source has.  The client deletes   *)
(* by what it has been told so far, so it must have been told everything.   *)
SourceKept == (Dest0 \cap Source) \ Excluded \subseteq present

(* What --delete spares: what the filters exclude, unless it is inside a     *)
(* directory that has no counterpart and is not excluded itself.            *)
Spared == (Dest0 \cap Excluded) \ UNION {Below[path] : path \in Dest0 \ (Source \cup Excluded)}

(* A finished pull leaves the selected part of the source with its          *)
(* contents, and of what was there everything, or what --delete spares.     *)
Mirrors ==
    pc = "done" =>
        /\ present = (Source \ Excluded) \cup (IF delete THEN Spared ELSE Dest0)
        /\ \A path \in Source \ (Excluded \cup DOMAIN Tree) : path \in fresh

(* The destination during and after a pull (delete_local_extras).           *)
PullSound == SourceKept /\ Mirrors

(* The exchange comes to an end: every list, request and DONE is matched.   *)
Finishes == <>(pc \in {"done", "failed"})

==========================================================================
