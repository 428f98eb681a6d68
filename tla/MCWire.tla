------------------------------- MODULE MCWire -------------------------------
(***************************************************************************)
(* What travels between the two ends, layer by layer: the numbers          *)
(* (WireNumbers), the frames (Multiplex), the file list (FileListCodec and *)
(* the batches it is sent in, FileListBatches), the delta of a file        *)
(* (DeltaTransfer) and the tokens of compressed file data (DeflatedTokens).*)
(* A behaviour is of one of the six layers; the others are at rest in it.  *)
(***************************************************************************)
EXTENDS FileListOrder, SequencesExt

CONSTANTS MaxWrites, MaxTokens, MaxEntries, MaxBytes

VARIABLES
    nsent, nwire, nwprev, nrprev, ngot, nfailed,                              \* of WireNumbers
    written, frames, noted, remaining, messages, want, read, broken,          \* of Multiplex
    opts, listed, wlast, items, rlast, decoded, writer, reader,               \* of FileListCodec
    limits, todo, current, currentAlloc, nextBase, batches, entries, total, pc, \* of FileListBatches
    mode, tokens, w, deflated, r, returned,                                   \* of DeflatedTokens
    case, basis, source, edit, head, sigs, phase, s, passing, passed, out, result \* of DeltaTransfer

numberVars == <<nsent, nwire, nwprev, nrprev, ngot, nfailed>>
frameVars == <<written, frames, noted, remaining, messages, want, read, broken>>
listVars == <<opts, listed, wlast, items, rlast, decoded, writer, reader>>
batchVars == <<limits, todo, current, currentAlloc, nextBase, batches, entries, total, pc>>
tokenVars == <<mode, tokens, w, deflated, r, returned>>
deltaVars == <<case, basis, source, edit, head, sigs, phase, s, passing, passed, out, result>>

-----------------------------------------------------------------------------
\* Numbers: the boundaries of every form.  Number(n, top) has one top byte at
\* place n, above a low byte.
Number(n, top) == [i \in 1 .. 8 |-> IF i = n THEN top ELSE IF i = 1 THEN 5 ELSE 0]

Numbers == INSTANCE WireNumbers WITH
    Indexes <- {-1, -2, -102, 0, 253, 254, 32768, 2147483647},
    Values <- {[i \in 1 .. 8 |-> 0], [i \in 1 .. 8 |-> 255], Number(1, 127), Number(1, 128),
               Number(4, 127), Number(4, 128), Number(8, 3), Number(8, 4), Number(8, 8)},
    Lengths <- {0, 128, 1024, 1025, 32768},
    MaxString <- 1024, MaxOthers <- 2,
    sent <- nsent, wire <- nwire, wprev <- nwprev, rprev <- nrprev, got <- ngot, failed <- nfailed

\* Frames of two bytes, reads and writes of up to three.
Stream == INSTANCE Multiplex WITH
    FrameSize <- 2, MaxPart <- 3, MaxMessages <- 2,
    wire <- frames, got <- read, failed <- broken

-----------------------------------------------------------------------------
\* File lists: a byte counts to two, so that shared prefixes and suffixes meet
\* its limit.
None == -1
Plain == [path |-> <<"a">>, mode |-> <<"file", 6>>, len |-> 1, mtime |-> 5, checksum |-> 7, group |-> None,
          uid |-> None, user |-> "root", gid |-> 0, grp |-> "root", atime |-> None, crtime |-> None, xattrs |-> 0]

Deep(n) == [i \in 1 .. n |-> "a"]

Ordinary ==
    {[Plain EXCEPT !.path = p] : p \in {Deep(3), Deep(4) \o <<"b">>, <<"a", "\\", "b">>}} \cup
    {[Plain EXCEPT !.path = <<"b">>, !.uid = 1, !.user = "u", !.mtime = 4],
     [Plain EXCEPT !.path = <<".">>, !.mode = <<"dir", 7>>, !.atime = 9],
     [Plain EXCEPT !.path = <<"l">>, !.mode = <<"link", 7>>, !.gid = 1, !.grp = "g"],
     [Plain EXCEPT !.path = <<"t">>, !.atime = 9, !.crtime = 3, !.xattrs = 2],
     [Plain EXCEPT !.path = <<"h">>, !.group = 1, !.mtime = 4, !.uid = 1, !.user = "u"],
     [Plain EXCEPT !.path = <<"i">>, !.group = 1, !.mtime = 4, !.uid = 1, !.user = "u"],
     [Plain EXCEPT !.path = <<"n">>, !.uid = 3, !.user = ""],
     [Plain EXCEPT !.path = <<"o">>, !.mtime = -2]}

Odd == {[Plain EXCEPT !.path = p] : p \in {<<"a", "/", "b", ".">>, <<"a", ":">>, <<"CON", ".", "a">>, Deep(6)}}

Settings ==
    {{"p27"}, {"p27", "checksum"}, {}, {"checksum"}, {"owner", "group"}, {"owner", "numeric", "atimes"},
     {"acls", "xattrs", "fake_super"}, {"fake_super"}, {"atimes", "crtimes"},
     {"owner", "group", "acls", "xattrs", "atimes", "crtimes", "checksum"}}

Codec == INSTANCE FileListCodec WITH
    Entries <- Ordinary \cup Odd, U8Max <- 2, MaxPathLen <- 5,
    sent <- listed, wire <- items, got <- decoded

-----------------------------------------------------------------------------
\* Batches: the walks of every tree over six names, three of which can be
\* directories, with entries of different sizes.
MCDest == {"a", "ab", "abx", "ay", "b", "c"}
MCPath == MCDest \cup {"."}
MCUnder ==
    [p \in MCPath |-> CASE p = "." -> MCDest
                        [] p = "a" -> {"ab", "abx", "ay"}
                        [] p = "ab" -> {"abx"}
                        [] OTHER -> {}]
MCRank ==
    [p \in MCPath |-> CASE p = "." -> 0 [] p = "a" -> 1 [] p = "ab" -> 2 [] p = "abx" -> 3
                        [] p = "ay" -> 4 [] p = "b" -> 5 [] p = "c" -> 6]
MCSize == [d \in {"d", "torn"} |-> 1]

\* The trees in which everything sits in directories.
Trees ==
    {f \in [MCPath -> {Absent, Dir, File("d", 1)}] :
        f["."] = Dir /\ \A p \in MCPath : Exists(f, p) => \A q \in Above(p) : f[q] = Dir}

\* The walk of f, in the order of the names.
WalkOf(f) ==
    SetToSortSeq({EntryOf(f, p) : p \in {q \in MCPath : Exists(f, q)}},
                 LAMBDA x, y : Rank[x.path] < Rank[y.path])

Batches == INSTANCE FileListBatches WITH
    Walks <- {WalkOf(f) : f \in Trees},
    Alloc <- [p \in MCPath |-> CASE p \in {"abx", "c"} -> 3 [] p = "ay" -> 2 [] OTHER -> 1],
    Limits <- [entries : {1, 2, 3}, alloc : {0, 2, 4, 7}],
    sent <- batches

-----------------------------------------------------------------------------
\* Tokens: runs of two blocks, relative numbers to two.
Tokens == INSTANCE DeflatedTokens WITH
    Data <- {"x", "y"}, Blocks <- 0 .. 4,
    BlockData <- [b \in 0 .. 4 |-> IF b % 2 = 0 THEN "x" ELSE "y"],
    Modes <- {"zlib", "zlibx"}, RunLimit <- 2, RelMax <- 2, MaxHeld <- 2,
    sent <- tokens, wire <- deflated, got <- returned

-----------------------------------------------------------------------------
\* Deltas: bytes of one bit, checksums modulo two, literals of two bytes; all
\* files of up to four bytes against each other in blocks of two and three,
\* shorter ones with an edit, with a limit, appended to and sent whole.
FilesUpTo(n) == UNION {[1 .. k -> {0, 1}] : k \in 0 .. n}
Transfers(olds, news, blocks, modes, bounds, edited) ==
    [basis : olds, source : news, block : blocks, mode : modes, limit : bounds, edits : edited]

Delta == INSTANCE DeltaTransfer WITH
    Cases <- Transfers(FilesUpTo(4), FilesUpTo(4), {2, 3}, {"delta", "short"}, {0}, {FALSE}) \cup
             Transfers(FilesUpTo(3), FilesUpTo(4), {2}, {"append", "whole"}, {0}, {FALSE}) \cup
             Transfers(FilesUpTo(3), FilesUpTo(3), {2}, {"delta", "append"}, {0}, {TRUE}) \cup
             Transfers(FilesUpTo(3), FilesUpTo(2), 1 .. 3, {"delta"}, 1 .. 4, {FALSE}),
    Modulus <- 2, ByteTop <- 1, LiteralMax <- 2, SigSize <- 1,
    tokens <- passing, sent <- passed

-----------------------------------------------------------------------------
\* A layer at rest: Numbers after an error of the reader, the frames of a
\* stream that is full, a list that is read, batches that are sent, tokens
\* that are all read, an empty file that is transferred.
NumbersRest ==
    /\ nsent = <<>> /\ nwire = <<>> /\ ngot = <<>> /\ nfailed = "writer"
    /\ nwprev = Numbers!Default /\ nrprev = Numbers!Default
StreamRest ==
    /\ written = [i \in 1 .. MaxBytes |-> i] /\ read = written
    /\ frames = <<>> /\ noted = <<"empty", "empty">>
    /\ remaining = 0 /\ messages = <<>> /\ want = 0 /\ broken = FALSE
CodecRest ==
    /\ opts = {} /\ listed = <<>> /\ items = <<>> /\ decoded = <<>>
    /\ wlast = Codec!NoLast /\ rlast = Codec!NoLast
    /\ writer = "finished" /\ reader = "done"
BatchesRest ==
    /\ limits = [entries |-> 1, alloc |-> 0] /\ todo = <<>>
    /\ current = <<>> /\ currentAlloc = 0 /\ nextBase = 0
    /\ batches = << [base |-> 0, entries |-> <<>>, final |-> TRUE] >>
    /\ entries = <<>> /\ total = 0 /\ pc = "done"
TokensRest ==
    /\ mode = "zlibx" /\ tokens = [i \in 1 .. MaxTokens |-> <<"end", Tokens!End>>]
    /\ returned = tokens /\ deflated = <<>>
    /\ w = Tokens!NewWriter /\ r = Tokens!NewReader

DeltaRest ==
    /\ case = [basis |-> <<>>, source |-> <<>>, block |-> 2, mode |-> "whole", limit |-> 0, edits |-> FALSE]
    /\ basis = <<>> /\ source = <<>> /\ edit = "none"
    /\ head = Delta!EmptyHead(2) /\ sigs = <<>> /\ phase = "sent"
    /\ s = [pos |-> 0, window |-> <<>>, literal |-> <<>>, eof |-> FALSE, prefix |-> 0, sum |-> <<>>]
    /\ passing = <<>> /\ passed = Delta!EndToken(<<>>) /\ out = <<>> /\ result = "done"

Init ==
    \/ Numbers!Init /\ StreamRest /\ CodecRest /\ BatchesRest /\ TokensRest /\ DeltaRest
    \/ NumbersRest /\ Stream!Init /\ CodecRest /\ BatchesRest /\ TokensRest /\ DeltaRest
    \/ NumbersRest /\ StreamRest /\ Codec!Init /\ BatchesRest /\ TokensRest /\ DeltaRest
    \/ NumbersRest /\ StreamRest /\ CodecRest /\ Batches!Init /\ TokensRest /\ DeltaRest
    \/ NumbersRest /\ StreamRest /\ CodecRest /\ BatchesRest /\ Tokens!Init /\ DeltaRest
    \/ NumbersRest /\ StreamRest /\ CodecRest /\ BatchesRest /\ TokensRest /\ Delta!Init

Next ==
    \/ Numbers!Next /\ UNCHANGED <<frameVars, listVars, batchVars, tokenVars, deltaVars>>
    \/ Stream!Next /\ UNCHANGED <<numberVars, listVars, batchVars, tokenVars, deltaVars>>
    \/ Codec!Next /\ UNCHANGED <<numberVars, frameVars, batchVars, tokenVars, deltaVars>>
    \/ Batches!Next /\ UNCHANGED <<numberVars, frameVars, listVars, tokenVars, deltaVars>>
    \/ Tokens!Next /\ UNCHANGED <<numberVars, frameVars, listVars, batchVars, deltaVars>>
    \/ Delta!Next /\ UNCHANGED <<numberVars, frameVars, listVars, batchVars, tokenVars>>

\* A read goes on as long as bytes arrive; everything else may stop.
Spec ==
    /\ Init /\ [][Next]_<<numberVars, frameVars, listVars, batchVars, tokenVars, deltaVars>>
    /\ WF_frameVars(Stream!ReadFrame) /\ WF_frameVars(Stream!Fill)

-----------------------------------------------------------------------------
\* Properties, each put together from those of the modules

\* Numbers and frames: every number is read as it was written, the two index
\* states never part, only what is too large for its form is refused (io.rs);
\* the bytes and messages of a stream arrive in their order, and all of them
\* (MultiplexedReader::read, read_next_multiplex_frame).
LinkSound ==
    /\ Numbers!TypeOK /\ Numbers!RoundTrip /\ Numbers!InStep /\ Numbers!RefusesOnlyHuge
    /\ Stream!TypeOK /\ Stream!InOrder /\ Stream!NothingLost

\* File lists: every entry is read as it was written and only bad paths are
\* refused (flist.rs); the batches on the wire are the entries that requests
\* are looked up in, within their limits and in a total order
\* (collect_local_push_source_entries_with_batches, remote_sender_entry_cmp).
ListArrives ==
    /\ Codec!TypeOK /\ Codec!RoundTrip /\ Codec!RefusesOnlyPaths
    /\ Batches!WireMatchesEntries /\ Batches!BatchesBounded /\ Batches!OrderIsTotal

\* Compressed tokens are read as they were written, and nothing of a file is
\* left behind its end (RsyncDeflatedTokenReader::next_token,
\* RsyncDeflatedTokenWriter::finish).
TokensArrive == Tokens!TypeOK /\ Tokens!RoundTrip /\ Tokens!NothingHeldBack

\* A delta is refused only for a reason, a file that is accepted is what the
\* sender read, and --max-alloc is kept (local_basis_signature_request,
\* read_file_tokens_to_path_with_basis, ensure_allocation_within_limit).  And it
\* costs what it should: the window finds what the library finds in the whole
\* file, an unchanged file costs no literal data, an append sends what is
\* missing, and a rolled checksum is the one of its window
\* (write_delta_tokens_from_reader_with_checksum, generate_delta_with, roll).
DeltaExact ==
    /\ Delta!TypeOK /\ Delta!FailsForAReason /\ Delta!AcceptedIsSent /\ Delta!WithinMaxAlloc
    /\ Delta!StreamsAsLibrary /\ Delta!SameFileNoData
    /\ Delta!AppendSendsTheRest /\ Delta!RollAgrees

\* Nothing stays on the way: a read ends once its bytes are there
\* (MultiplexedReader::read), and no step between walk and wire loses an entry
\* (RemoteSourceEntryBatchBuilder::push).
NothingStays == Stream!ReadEnds /\ [][~Batches!Skips]_batchVars
=============================================================================
