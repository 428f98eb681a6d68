--------------------------- MODULE DeltaTransfer ---------------------------
(***************************************************************************)
(* One file from sender to receiver: the signatures of the old file        *)
(* (local_basis_signature_request), the search for its blocks in the new   *)
(* one (write_delta_tokens_from_path), the tokens, and the file that is    *)
(* rebuilt from them (read_file_tokens_to_path_with_basis), all in         *)
(* rsync-cli/src/transfer; and the checksum, matcher and apply functions   *)
(* of rsync-delta.                                                         *)
(*                                                                         *)
(* A file is a sequence of small numbers.  The weak checksum is computed   *)
(* as in the code, modulo a small number, so that it collides.  A strong   *)
(* checksum of full length is taken to tell any two blocks apart; one that *)
(* a peer cuts short (which real receivers do, ours never) tells nothing.  *)
(* Another program may edit one of the two files once.                     *)
(***************************************************************************)
EXTENDS Integers, Sequences, SequencesExt

CONSTANTS
    Cases,       \* [basis, source, block, mode, limit, edits]: what is transferred and how
    Modulus,     \* of the two halves of the weak checksum, 65536 in the code
    ByteTop,     \* half of the values of a byte, 128 in the code
    LiteralMax,  \* longest literal token, 32 KiB in the code
    SigSize      \* memory of one signature

VARIABLES
    case,
    basis, source,  \* the files, as they are now
    edit,           \* "none", "early" (the old file, before it is signed) or "late"
    head,           \* RemoteSumHead
    sigs,           \* signatures: as computed, then as the sender holds them
    phase,          \* "stat", "sign", "read", "send", "sent"
    s,              \* the sender: its place in the file and its buffers
    tokens,         \* tokens under way
    sent,           \* tokens written
    out,            \* the file that is rebuilt
    result          \* "running", "done" or what failed

vars == <<case, basis, source, edit, head, sigs, phase, s, tokens, sent, out, result>>

-----------------------------------------------------------------------------
\* rollsum.rs

signed_byte(b) == IF b >= ByteTop THEN b - 2 * ByteTop ELSE b

from_block(block) ==
    LET add(c, byte) == LET a == (c.a + signed_byte(byte)) % Modulus
                        IN  [a |-> a, b |-> (c.b + a) % Modulus, len |-> c.len + 1]
    IN  FoldLeft(add, [a |-> 0, b |-> 0, len |-> 0], block)

\* Mutant: the outgoing byte is taken from b once.
RollKeepsLength(c, outgoing, incoming) ==
    LET a == (c.a - signed_byte(outgoing) + signed_byte(incoming)) % Modulus
    IN  [c EXCEPT !.a = a, !.b = (c.b - signed_byte(outgoing) + a) % Modulus]

roll(c, outgoing, incoming) ==
    LET a == (c.a - signed_byte(outgoing) + signed_byte(incoming)) % Modulus
    IN  [c EXCEPT !.a = a, !.b = (c.b - c.len * signed_byte(outgoing) + a) % Modulus]

rolling_checksum(block) == LET c == from_block(block) IN <<c.b, c.a>>

(* RsyncStrongChecksum::digest: a checksum of full length, or a short one. *)
Full == 16
Short == 2
digest(block, checksum_len) == IF checksum_len = Full THEN block ELSE <<>>

Signature(index, offset, block, checksum_len) ==
    [index |-> index, offset |-> offset, len |-> Len(block),
     weak |-> rolling_checksum(block), strong |-> digest(block, checksum_len)]

-----------------------------------------------------------------------------
\* The library's matcher on whole files: signature.rs, matcher.rs, apply.rs

(* A read of up to size bytes at offset, which is not behind the end.      *)
ChunkAt(file, offset, size) ==
    SubSeq(file, offset + 1, IF offset + size < Len(file) THEN offset + size ELSE Len(file))

generate_signatures_with(file, block_size, checksum_len) ==
    [i \in 1 .. (Len(file) + block_size - 1) \div block_size |->
        Signature(i - 1, (i - 1) * block_size, ChunkAt(file, (i - 1) * block_size, block_size), checksum_len)]

(* The blocks of one length that a window starts with.                     *)
Matches(table, window, len, checksum_len) ==
    {i \in DOMAIN table :
        /\ table[i].len = len /\ len <= Len(window)
        /\ table[i].weak = rolling_checksum(SubSeq(window, 1, len))
        /\ table[i].strong = digest(SubSeq(window, 1, len), checksum_len)}

Lengths(table) == {table[i].len : i \in DOMAIN table} \ {0}

(* find_match: of the longest blocks that match, the first; 0 if none.     *)
find_match(table, window, checksum_len) ==
    LET found == {n \in Lengths(table) : Matches(table, window, n, checksum_len) # {}}
    IN  IF found = {} THEN 0 ELSE Min(Matches(table, window, Max(found), checksum_len))

generate_delta_with(table, target, checksum_len) ==
    LET delta[pos \in 1 .. Len(target) + 1] ==
            LET i == find_match(table, SubSeq(target, pos, Len(target)), checksum_len)
            IN  IF pos > Len(target) THEN <<>>
                ELSE IF i = 0 THEN << <<"literal", target[pos]>> >> \o delta[pos + 1]
                ELSE << <<"copy", table[i].offset, table[i].len>> >> \o delta[pos + table[i].len]
    IN  delta[1]

apply_delta(file, delta) ==
    FlattenSeq([i \in DOMAIN delta |->
        IF delta[i][1] = "literal" THEN << delta[i][2] >>
        ELSE SubSeq(file, delta[i][2] + 1, delta[i][2] + delta[i][3])])

-----------------------------------------------------------------------------
\* sum_head.rs and limits.rs

EmptyHead(block_size) == [block_count |-> 0, block_len |-> block_size, checksum_len |-> Full, remainder |-> 0]

validate_sum_head(h) == h.block_count = 0 \/ (h.block_len > 0 /\ h.remainder <= h.block_len)

\* Mutant: the last block counts as a whole one.
IgnoreRemainder(h, block_index) == h.block_len

(* block_span: block_index * block_len is where a block starts, and the    *)
(* last one may be shorter.                                                *)
block_span(h, block_index) ==
    IF block_index + 1 = h.block_count /\ h.remainder # 0 THEN h.remainder ELSE h.block_len

remote_sum_head_file_len(h) ==
    IF h.block_count = 0 THEN 0
    ELSE h.block_count * h.block_len - (IF h.remainder = 0 THEN 0 ELSE h.block_len - h.remainder)

block_index_to_copy_token(block_index) == -(block_index + 1)

\* Mutant: token -1 stands for block 1.
CopyTokenOffByOne(token) == -token

copy_token_to_block_index(token) == -token - 1

\* Mutant: no limit.
Unlimited(bytes, limit) == TRUE

ensure_allocation_within_limit(bytes, limit) == limit = 0 \/ bytes <= limit

-----------------------------------------------------------------------------
Init ==
    /\ case \in Cases
    /\ basis = case.basis /\ source = case.source /\ edit = "none"
    /\ head = EmptyHead(case.block) /\ sigs = <<>> /\ phase = "stat"
    /\ s = [pos |-> 0, window |-> <<>>, literal |-> <<>>, eof |-> FALSE, prefix |-> 0, sum |-> <<>>]
    /\ tokens = <<>> /\ sent = <<>> /\ out = <<>> /\ result = "running"

Expected == Len(case.source)
ChecksumLen == IF case.mode = "short" THEN Short ELSE Full
Fail(why) == result' = why

(* The old file's length decides the head; then it is read block by block. *)
local_basis_signature_request ==
    /\ result = "running" /\ phase = "stat" /\ case.mode # "append"
    /\ LET block_count == (Len(basis) + case.block - 1) \div case.block
           fits == /\ ensure_allocation_within_limit(block_count * SigSize, case.limit)
                   /\ ensure_allocation_within_limit(case.block, case.limit)
       IN  IF case.mode = "whole"
           THEN phase' = "read" /\ UNCHANGED <<head, result>>
           ELSE /\ phase' = "sign"
                /\ head' = [head EXCEPT !.remainder = Len(basis) % case.block, !.checksum_len = ChecksumLen]
                /\ IF fits THEN UNCHANGED result ELSE Fail("limit")
    /\ UNCHANGED <<case, basis, source, edit, sigs, s, tokens, sent, out>>

generate_signatures_from_path ==
    /\ result = "running" /\ phase = "sign"
    /\ LET offset == Len(sigs) * case.block
           block == IF offset >= Len(basis) THEN <<>> ELSE ChunkAt(basis, offset, case.block)
           all == IF block = <<>> THEN sigs
                  ELSE Append(sigs, Signature(Len(sigs), offset, block, head.checksum_len))
           ended == Len(block) < case.block
       IN  /\ sigs' = all
           /\ phase' = IF ended THEN "read" ELSE "sign"
           /\ head' = IF ~ended THEN head
                      ELSE IF all = <<>> THEN EmptyHead(case.block)
                      ELSE [head EXCEPT !.block_count = Len(all)]
    /\ UNCHANGED <<case, basis, source, edit, s, tokens, sent, out, result>>

(* A receiver that appends sends the head of its old file, and keeps it.   *)
AppendRequest ==
    /\ result = "running" /\ phase = "stat" /\ case.mode = "append"
    /\ head' = IF basis = <<>> THEN EmptyHead(case.block)
               ELSE [block_count |-> (Len(basis) + case.block - 1) \div case.block, block_len |-> case.block,
                     checksum_len |-> Full, remainder |-> Len(basis) % case.block]
    /\ out' = basis /\ phase' = "read"
    /\ UNCHANGED <<case, basis, source, edit, sigs, s, tokens, sent, result>>

-----------------------------------------------------------------------------
\* The sender

(* fill_delta_window: the window holds max_len bytes while the file lasts. *)
fill_delta_window(v, max_len) ==
    LET some == IF v.eof \/ v.pos >= Len(source) THEN <<>> ELSE ChunkAt(source, v.pos, max_len - Len(v.window))
    IN  [v EXCEPT !.pos = @ + Len(some), !.window = @ \o some, !.sum = @ \o some,
                  !.eof = @ \/ Len(v.window) + Len(some) < max_len]

MaxLen(table) == Max(Lengths(table))

(* read_remote_block_signatures: where a block is, and how long, follows   *)
(* from the head.  Then the file is opened.                                *)
read_remote_block_signatures ==
    /\ result = "running" /\ phase = "read"
    /\ LET table == [i \in DOMAIN sigs |-> [sigs[i] EXCEPT !.offset = (i - 1) * head.block_len,
                                                           !.len = block_span(head, i - 1)]]
           budget == {MaxLen(table), LiteralMax, Len(sigs) * SigSize}
           prefix == IF case.mode = "append" THEN remote_sum_head_file_len(head) ELSE 0
       IN  /\ sigs' = table /\ phase' = "send"
           /\ IF ~validate_sum_head(head) THEN Fail("basis") /\ UNCHANGED s
              ELSE IF prefix > Expected THEN Fail("append") /\ UNCHANGED s
              ELSE IF table = <<>> THEN s' = [s EXCEPT !.prefix = prefix] /\ UNCHANGED result
              ELSE IF \E bytes \in budget : ~ensure_allocation_within_limit(bytes, case.limit)
              THEN Fail("limit") /\ UNCHANGED s
              ELSE s' = fill_delta_window(s, MaxLen(table)) /\ UNCHANGED result
    /\ UNCHANGED <<case, basis, source, edit, head, tokens, sent, out>>

Write(new) == tokens' = tokens \o new /\ sent' = sent \o new

Literal(bytes) == IF bytes = <<>> THEN <<>> ELSE << [n |-> Len(bytes), data |-> bytes] >>
Copy(block_index) == << [n |-> block_index_to_copy_token(block_index), data |-> <<>>] >>
EndToken(sum) == << [n |-> 0, data |-> sum] >>

\* Mutant: the copy overtakes the pending literal.
LiteralAfterCopy(bytes, block_index) == Copy(block_index) \o Literal(bytes)

(* write_pending_literal_token before write_copy_token.                    *)
CopyAfterLiteral(bytes, block_index) == Literal(bytes) \o Copy(block_index)

(* A block that matches is copied, after what is pending; else the first   *)
(* byte of the window is literal.                                          *)
write_delta_tokens_from_reader_with_checksum ==
    /\ result = "running" /\ phase = "send" /\ sigs # <<>>
    /\ LET i == find_match(sigs, s.window, head.checksum_len)
           grown == Append(s.literal, Head(s.window))
           max_len == MaxLen(sigs)
       IN  IF s.window = <<>>
           THEN Write(Literal(s.literal) \o EndToken(s.sum)) /\ phase' = "sent" /\ UNCHANGED s
           ELSE IF i # 0
           THEN /\ Write(CopyAfterLiteral(s.literal, sigs[i].index))
                /\ s' = fill_delta_window([s EXCEPT !.window = SubSeq(@, sigs[i].len + 1, Len(@)),
                                                    !.literal = <<>>], max_len)
                /\ UNCHANGED phase
           ELSE /\ IF Len(grown) >= LiteralMax THEN Write(Literal(grown)) ELSE UNCHANGED <<tokens, sent>>
                /\ s' = fill_delta_window([s EXCEPT !.window = Tail(@),
                                                    !.literal = IF Len(grown) >= LiteralMax THEN <<>> ELSE grown],
                                          max_len)
                /\ UNCHANGED phase
    /\ UNCHANGED <<case, basis, source, edit, head, sigs, out, result>>

\* Mutant: the chunk in which the prefix ends is passed over.
DropPrefixChunk(chunk, prefix) == IF prefix > 0 THEN <<>> ELSE chunk

(* What of a chunk is behind the prefix that the receiver has.             *)
BehindPrefix(chunk, prefix) == SubSeq(chunk, prefix + 1, Len(chunk))

(* write_literal_tokens_from_reader_with_checksum, and with a prefix,      *)
(* which is read for the checksum only,                                    *)
(* write_append_verify_literal_tokens_from_reader_with_checksum.           *)
WriteLiterals ==
    /\ result = "running" /\ phase = "send" /\ sigs = <<>>
    /\ IF s.pos >= Len(source)
       THEN /\ phase' = "sent" /\ UNCHANGED s
            /\ IF s.prefix > 0 THEN Fail("append") /\ UNCHANGED <<tokens, sent>>
               ELSE Write(EndToken(s.sum)) /\ UNCHANGED result
       ELSE \E n \in 1 .. LiteralMax :
              LET chunk == ChunkAt(source, s.pos, n)
              IN  /\ n = Len(chunk)
                  /\ s' = [s EXCEPT !.pos = @ + n, !.sum = @ \o chunk, !.prefix = IF @ < n THEN 0 ELSE @ - n]
                  /\ Write(Literal(BehindPrefix(chunk, s.prefix)))
                  /\ UNCHANGED <<phase, result>>
    /\ UNCHANGED <<case, basis, source, edit, head, sigs, out>>

-----------------------------------------------------------------------------
\* The receiver

(* read_basis_block: why a block cannot be read, and what it holds.        *)
NoBasisBlock(index) ==
    CASE head.block_count = 0 -> "token"
      [] ~validate_sum_head(head) \/ index >= head.block_count
           \/ index * head.block_len + block_span(head, index) > Len(basis) -> "basis"
      [] OTHER -> "none"

BasisBlock(index) ==
    SubSeq(basis, index * head.block_len + 1, index * head.block_len + block_span(head, index))

\* Mutant: the checksum at the end is not compared.
ChecksumUnread(token) == IF Len(out) # Expected THEN "length" ELSE "done"

(* The end of a file: its length, then its checksum.                       *)
AtEnd(token) ==
    IF Len(out) # Expected THEN "length" ELSE IF token.data # out THEN "checksum" ELSE "done"

read_file_tokens_to_path_with_basis ==
    /\ result = "running" /\ tokens # <<>>
    /\ LET token == Head(tokens)
           index == copy_token_to_block_index(token.n)
           more == IF token.n < 0 THEN BasisBlock(index) ELSE token.data
       IN  IF head.block_count > 0 /\ ~ensure_allocation_within_limit(head.block_len, case.limit)
           THEN Fail("limit") /\ UNCHANGED out
           ELSE IF token.n = 0 THEN result' = AtEnd(token) /\ UNCHANGED out
           ELSE IF token.n < 0 /\ NoBasisBlock(index) # "none" THEN Fail(NoBasisBlock(index)) /\ UNCHANGED out
           ELSE IF Len(out) + Len(more) > Expected THEN Fail("length") /\ UNCHANGED out
           ELSE out' = out \o more /\ UNCHANGED result
    /\ tokens' = Tail(tokens)
    /\ UNCHANGED <<case, basis, source, edit, head, sigs, phase, s, sent>>

-----------------------------------------------------------------------------
(* Another program: cuts the last byte off, adds one, or changes the first.*)
Edited(f) ==
    {Append(f, 0)} \cup (IF f = <<>> THEN {} ELSE {Front(f), [f EXCEPT ![1] = 1 - @]})

EditFile ==
    /\ result = "running" /\ case.edits /\ edit = "none"
    /\ \/ basis' \in Edited(basis) /\ UNCHANGED source
          /\ edit' = IF sigs = <<>> /\ phase \in {"stat", "sign"} THEN "early" ELSE "late"
       \/ source' \in Edited(source) /\ UNCHANGED basis /\ edit' = "late"
    /\ UNCHANGED <<case, head, sigs, phase, s, tokens, sent, out, result>>

Next ==
    \/ local_basis_signature_request \/ generate_signatures_from_path \/ AppendRequest
    \/ read_remote_block_signatures
    \/ write_delta_tokens_from_reader_with_checksum \/ WriteLiterals
    \/ read_file_tokens_to_path_with_basis
    \/ EditFile

-----------------------------------------------------------------------------
\* Properties

TypeOK ==
    /\ edit \in {"none", "early", "late"}
    /\ phase \in {"stat", "sign", "read", "send", "sent"}
    /\ s.pos \in Nat /\ s.prefix \in Nat /\ s.eof \in BOOLEAN
    /\ head.block_count \in Nat /\ head.remainder \in 0 .. head.block_len
    /\ result \in {"running", "done", "limit", "append", "token", "basis", "length", "checksum"}

\* The limit leaves the transfer enough memory.
Roomy == case.limit = 0
\* What is rebuilt must be the file sent.
Extends == case.mode = "append" => IsPrefix(case.basis, case.source)

\* A transfer only fails for a reason: without a limit, an edit or a cut
\* checksum it never does.  An edit of the old file between its stat and its
\* first signature is harmless although the head then does not fit the
\* signatures (local_basis_signature_request).
FailsForAReason ==
    (Roomy /\ edit # "late" /\ case.mode # "short" /\ (edit = "early" => case.mode # "append") /\ Extends)
        => result \in {"running", "done"}

\* A file that is accepted is what the sender read, and has the length of the
\* list, whatever was edited and however blocks were confused
\* (read_file_tokens_to_path_with_basis).
AcceptedIsSent == result = "done" => out = s.sum /\ Len(out) = Expected

\* A file that has not changed costs no literal data
\* (write_delta_tokens_from_reader_with_checksum).
SameFileNoData ==
    (case.mode = "delta" /\ edit = "none" /\ case.basis = case.source)
        => \A i \in DOMAIN sent : sent[i].n <= 0

\* An append sends what is missing and nothing else
\* (write_append_verify_literal_tokens_from_reader_with_checksum).
AppendSendsTheRest ==
    (case.mode = "append" /\ edit = "none" /\ phase = "sent" /\ result \in {"running", "done"})
        => FlattenSeq([i \in 1 .. Len(sent) - 1 |-> sent[i].data])
             = SubSeq(case.source, Len(case.basis) + 1, Len(case.source))

(* The tokens sent, as the library would name them.                        *)
AsLibrary(token) ==
    IF token.n > 0 THEN [i \in 1 .. token.n |-> <<"literal", token.data[i]>>]
    ELSE << <<"copy", sigs[-token.n].offset, sigs[-token.n].len>> >>

\* The sender that reads through a window finds what the library finds in the
\* whole file, and the library rebuilds the file from it
\* (write_delta_tokens_from_reader_with_checksum, generate_delta_with).
StreamsAsLibrary ==
    (phase = "sent" /\ edit = "none" /\ case.mode = "delta" /\ sigs # <<>>) =>
        LET library == generate_delta_with(generate_signatures_with(basis, case.block, Full), source, Full)
        IN  /\ FlattenSeq([i \in 1 .. Len(sent) - 1 |-> AsLibrary(sent[i])]) = library
            /\ apply_delta(basis, library) = source

\* A checksum that is rolled over a file is the one of every window of it
\* (RollingChecksum::roll).
RollAgrees ==
    phase = "stat" =>
        \A n \in 1 .. Len(source) - 1 : \A i \in 1 .. Len(source) - n :
            roll(from_block(SubSeq(source, i, i + n - 1)), source[i], source[i + n])
                = from_block(SubSeq(source, i + 1, i + n))

\* With --max-alloc the buffers of both ends stay below it
\* (ensure_allocation_within_limit).
WithinMaxAlloc ==
    (case.limit > 0 /\ result = "running") =>
        /\ Len(s.window) <= case.limit /\ Len(s.literal) <= case.limit
        /\ phase = "send" => Len(sigs) * SigSize <= case.limit
        /\ \A i \in DOMAIN tokens :
             tokens[i].n < 0 => block_span(head, copy_token_to_block_index(tokens[i].n)) <= case.limit
=============================================================================
