-------------------------- MODULE FileListBatches ---------------------------
(***************************************************************************)
(* How a push sends its file list (remote/flist.rs): the walk hands one    *)
(* entry after the other to RemoteSourceEntryBatchBuilder, which groups    *)
(* them into batches under --max-alloc; every batch is checked, written to *)
(* the stream and appended to the entries by which requests are later      *)
(* looked up.  (TransferSession takes the list as one message; the sort    *)
(* that follows is its SenderOrders.)                                      *)
(***************************************************************************)
EXTENDS FileListOrder, SequencesExt

CONSTANTS
    Walks,      \* the sequences of entries that a walk may produce
    Alloc,      \* Alloc[p]: the estimated size of the entry for p
    Limits      \* records: max_entries, and max_alloc (0: no limit)

VARIABLES
    limits,
    todo,       \* what the walk has not reached
    current,    \* current_entries
    currentAlloc,
    nextBase,   \* next_base_index
    sent,       \* the batches on the wire
    entries,    \* the entries that requests are looked up in
    total,      \* total_alloc
    pc          \* "walk", "done", "failed"

builder == <<current, currentAlloc, nextBase>>
vars == <<limits, todo, builder, sent, entries, total, pc>>

AllocOf(seq) == FoldFunction(+, 0, [i \in DOMAIN seq |-> Alloc[seq[i].path]])

\* AllocationBudget::check
WithinBudget(n) == limits.alloc > 0 => n <= limits.alloc

\* Mutant: one entry too many
FullLate(seq) == Len(seq) > limits.entries

\* current_entries.len() >= max_entries
Full(seq) == Len(seq) >= limits.entries

\* should_flush_before
ShouldFlushBefore(n) ==
    /\ current # <<>>
    /\ \/ Full(current)
       \/ ~WithinBudget(currentAlloc + n)

\* Mutant: the rest is forgotten at the end
BatchLeftover(final) ==
    [base |-> nextBase, entries |-> IF final THEN <<>> ELSE current, final |-> final]

\* emit
Batch(final) == [base |-> nextBase, entries |-> current, final |-> final]

\* Mutant: the base index counts batches
OnBatchMiscounted(batch) ==
    /\ sent' = Append(sent, [batch EXCEPT !.base = Len(sent)])
    /\ entries' = entries \o batch.entries
    /\ total' = total + AllocOf(batch.entries)

\* The callback of collect_local_push_source_entries_with_batches: check the
\* total, write the batch, keep its entries.
OnBatch(batch) ==
    /\ sent' = Append(sent, batch)
    /\ entries' = entries \o batch.entries
    /\ total' = total + AllocOf(batch.entries)

Refused(batch) == ~WithinBudget(total + AllocOf(batch.entries))

Fail ==
    /\ pc' = "failed"
    /\ UNCHANGED <<limits, todo, builder, sent, entries, total>>

\* push: flush first when the entry would not fit, flush afterwards when the
\* batch is full.
PushEntry ==
    /\ pc = "walk" /\ todo # <<>>
    /\ LET e == Head(todo)
           n == Alloc[e.path]
       IN  IF ~WithinBudget(n) THEN Fail
           ELSE \/ /\ ShouldFlushBefore(n)
                   /\ IF Refused(Batch(FALSE)) THEN Fail
                      ELSE /\ OnBatch(Batch(FALSE))
                           /\ nextBase' = nextBase + Len(current)
                           /\ current' = <<e>> /\ currentAlloc' = n
                           /\ todo' = Tail(todo)
                           /\ UNCHANGED <<limits, pc>>
                \/ /\ ~ShouldFlushBefore(n)
                   /\ LET filled == [Batch(FALSE) EXCEPT !.entries = Append(current, e)]
                      IN  IF ~Full(filled.entries)
                            THEN /\ current' = filled.entries
                                 /\ currentAlloc' = currentAlloc + n
                                 /\ todo' = Tail(todo)
                                 /\ UNCHANGED <<limits, nextBase, sent, entries, total, pc>>
                            ELSE IF Refused(filled) THEN Fail
                            ELSE /\ OnBatch(filled)
                                 /\ nextBase' = nextBase + Len(filled.entries)
                                 /\ current' = <<>> /\ currentAlloc' = 0
                                 /\ todo' = Tail(todo)
                                 /\ UNCHANGED <<limits, pc>>

\* finish: what is left is the last batch, even when it is empty
Finish ==
    /\ pc = "walk" /\ todo = <<>>
    /\ IF Refused(Batch(TRUE)) THEN Fail
       ELSE /\ OnBatch(Batch(TRUE))
            /\ nextBase' = nextBase + Len(current)
            /\ current' = <<>> /\ currentAlloc' = 0
            /\ pc' = "done"
            /\ UNCHANGED <<limits, todo>>

Init ==
    /\ limits \in Limits
    /\ todo \in Walks
    /\ current = <<>> /\ currentAlloc = 0 /\ nextBase = 0
    /\ sent = <<>> /\ entries = <<>> /\ total = 0
    /\ pc = "walk"

Next == PushEntry \/ Finish

Spec == Init /\ [][Next]_vars

-----------------------------------------------------------------------------
(* Properties                                                              *)

OnWire == FlattenSeq([i \in DOMAIN sent |-> sent[i].entries])

\* What is on the wire is what requests are looked up in: the position of an
\* entry is its batch's base index plus its place in the batch, so nothing is
\* skipped or repeated where one batch ends and the next begins.
\* (emit, collect_local_push_source_entries_with_batches)
WireMatchesEntries ==
    /\ OnWire = entries
    /\ \A i \in DOMAIN sent : \A k \in DOMAIN sent[i].entries :
         entries[sent[i].base + k] = sent[i].entries[k]

\* A step that loses an entry between the walk, the builder and the wire.
Skips == pc' # "failed" /\ entries' \o current' \o todo' # entries \o current \o todo

\* A batch never exceeds max_entries or --max-alloc, only the last one may be
\* empty, and only the last one is final.
BatchesBounded ==
    \A i \in DOMAIN sent :
        /\ Len(sent[i].entries) <= limits.entries
        /\ WithinBudget(AllocOf(sent[i].entries))
        /\ sent[i].entries = <<>> => sent[i].final
        /\ sent[i].final <=> (i = Len(sent) /\ pc = "done")

\* The comparison that the entries are sorted with is a strict total order of
\* the entries of any list that is being sent: sort_by may panic when it is
\* not, and the two ends could end up with different positions.
\* (remote_sender_entry_cmp)
OrderIsTotal ==
    LET S == Range(entries)
        dirs == Directories(S)
    IN  /\ \A x, y \in S : SenderBefore(x, y, dirs) =>
                             x # y /\ ~SenderBefore(y, x, dirs)
        /\ \A x, y \in S : x = y \/ SenderBefore(x, y, dirs) \/ SenderBefore(y, x, dirs)
        /\ \A x, y, z \in S : SenderBefore(x, y, dirs) /\ SenderBefore(y, z, dirs) =>
                                SenderBefore(x, z, dirs)
=============================================================================
