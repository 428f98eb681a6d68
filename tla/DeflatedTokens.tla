--------------------------- MODULE DeflatedTokens ---------------------------
(***************************************************************************)
(* Compressed file data: RsyncDeflatedTokenWriter and                      *)
(* RsyncDeflatedTokenReader of rsync-protocol/src/session.rs.  Literals go *)
(* through a deflate stream, references to blocks of the old file are      *)
(* joined into runs and written between pieces of that stream.             *)
(*                                                                         *)
(* The deflate library is modelled by what the code relies on: data given  *)
(* to it comes out at any later time, all of it at a sync flush, and a     *)
(* literal may be coded as the distance to an equal one in the window of   *)
(* what was coded before.  The tail that ends a sync flush is stripped by  *)
(* the writer and put back by the reader.                                  *)
(***************************************************************************)
EXTENDS Integers, Sequences

CONSTANTS
    Data,       \* pieces of literal data
    Blocks,     \* indexes of blocks
    BlockData,  \* BlockData[b]: what block b of the old file holds
    Modes,      \* RsyncDeflatedTokenMode: "zlib" or "zlibx"
    RunLimit,   \* length of a run, 65536 in the code
    RelMax,     \* largest relative block number, 63 in the code
    MaxTokens,  \* bound: tokens
    MaxHeld     \* bound: pieces that the compressor holds back

VARIABLES
    mode,
    sent,     \* tokens handed to the writer
    w,        \* RsyncDeflatedTokenWriter
    wire,     \* items under way
    r,        \* RsyncDeflatedTokenReader
    got       \* tokens that the reader returned

vars == <<mode, sent, w, wire, r, got>>

Literal == -2
End == -1

NewWriter == [last |-> End, run_start |-> 0, last_run_end |-> 0, flush_pending |-> FALSE,
              held |-> <<>>, window |-> <<>>]
NewReader == [rx_token |-> 0, rx_run |-> 0, needs_sync_tail |-> FALSE, inside |-> <<>>, window |-> <<>>]

(* A piece of data in the deflate stream: itself, or a distance back.      *)
Codes(d, window) ==
    {<<"raw", d>>} \cup
    {<<"back", Len(window) + 1 - i>> : i \in {k \in DOMAIN window : window[k] = d}}

Decode(c, window) ==
    IF c[1] = "raw" THEN c[2]
    ELSE IF c[2] > Len(window) THEN <<>> ELSE window[Len(window) + 1 - c[2]]

write_pending_run(v) ==
    LET relative == v.run_start - v.last_run_end
        run_len == v.last - v.run_start
    IN  IF relative \in 0 .. RelMax
        THEN << [flag |-> "rel", n |-> relative, run |-> run_len] >>
        ELSE << [flag |-> "long", n |-> v.run_start, run |-> run_len] >>

\* Mutant: a run grows past its 16-bit length.
EndsRunNoLimit(v, token, data) ==
    /\ v.last \notin {End, Literal}
    /\ data # <<>> \/ v.last + 1 # token

(* The run that a token ends: a literal, a gap, or a run at its limit.     *)
EndsRun(v, token, data) ==
    /\ v.last \notin {End, Literal}
    /\ data # <<>> \/ v.last + 1 # token \/ token >= v.run_start + RunLimit

(* send_token before it deflates anything.                                 *)
Started(v, token, data) ==
    CASE v.last = End -> [v EXCEPT !.last = token, !.run_start = token, !.last_run_end = 0,
                                   !.flush_pending = FALSE, !.held = <<>>, !.window = <<>>]
      [] v.last = Literal -> [v EXCEPT !.last = token, !.run_start = token]
      [] EndsRun(v, token, data) -> [v EXCEPT !.last = token, !.run_start = token, !.last_run_end = v.last]
      [] OTHER -> [v EXCEPT !.last = token]

Pending(v, token, data) == IF EndsRun(v, token, data) THEN write_pending_run(v) ELSE <<>>

DataItem(pieces) == IF pieces = <<>> THEN <<>> ELSE << [flag |-> "data", pieces |-> pieces] >>

-----------------------------------------------------------------------------
Init ==
    /\ mode \in Modes
    /\ sent = <<>> /\ wire = <<>> /\ got = <<>>
    /\ w = NewWriter /\ r = NewReader

(* write_deflated without a flush: any part of what is held comes out.     *)
send_literal(d) ==
    LET v == Started(w, Literal, <<d>>)
    IN  /\ Len(sent) < MaxTokens
        /\ \E c \in Codes(d, v.window) : \E n \in 0 .. Len(v.held) + 1 :
              LET all == Append(v.held, c)
              IN  /\ Len(all) - n <= MaxHeld
                  /\ w' = [v EXCEPT !.held = SubSeq(all, n + 1, Len(all)),
                                    !.window = Append(@, d), !.flush_pending = TRUE]
                  /\ wire' = wire \o Pending(w, Literal, <<d>>) \o DataItem(SubSeq(all, 1, n))
        /\ sent' = Append(sent, <<"literal", d>>)
        /\ UNCHANGED <<mode, r, got>>

\* Mutant: what the flush wrote stays in the compressor.
FlushedKeeps(v) == [v EXCEPT !.flush_pending = FALSE]

Flushed(v) == IF v.flush_pending THEN [v EXCEPT !.held = <<>>, !.flush_pending = FALSE] ELSE v
Flushing(v) == IF v.flush_pending THEN DataItem(v.held) ELSE <<>>

send_copy(b) ==
    LET v == Started(w, b, <<>>)
    IN  /\ Len(sent) < MaxTokens
        /\ w' = Flushed(v)
        /\ wire' = wire \o Pending(w, b, <<>>) \o Flushing(v)
        /\ sent' = Append(sent, <<"copy", b>>)
        /\ UNCHANGED <<mode, r, got>>

finish ==
    LET v == Started(w, End, <<>>)
    IN  /\ Len(sent) < MaxTokens
        /\ w' = Flushed(v)
        /\ wire' = wire \o Pending(w, End, <<>>) \o Flushing(v) \o << [flag |-> "end"] >>
        /\ sent' = Append(sent, <<"end", End>>)
        /\ UNCHANGED <<mode, r, got>>

-----------------------------------------------------------------------------
(* What inflating the pieces yields, and the window after it.              *)
Inflate(pieces, window) ==
    LET out[n \in 0 .. Len(pieces)] ==
            IF n = 0 THEN window ELSE Append(out[n - 1], Decode(pieces[n], out[n - 1]))
    IN  out[Len(pieces)]

Literals(pieces) == [i \in DOMAIN pieces |-> <<"literal", pieces[i]>>]

(* observe_copy_data: in zlib mode the block joins the reader's window.    *)
observe_copy_data(window, b) == IF mode = "zlib" THEN Append(window, BlockData[b]) ELSE window

ReturnCopy(b) ==
    /\ got' = Append(got, <<"copy", b>>)
    /\ UNCHANGED <<mode, sent, w>>

ContinueRun ==
    /\ r.rx_run > 0
    /\ r' = [r EXCEPT !.rx_token = @ + 1, !.rx_run = @ - 1,
                      !.window = observe_copy_data(@, r.rx_token + 1)]
    /\ ReturnCopy(r.rx_token + 1)
    /\ UNCHANGED wire

(* Inflating returns what it can; the rest stays inside until more comes.  *)
ReadData ==
    /\ r.rx_run = 0 /\ wire # <<>> /\ Head(wire).flag = "data"
    /\ LET window == Inflate(Head(wire).pieces, r.window)
           inside == r.inside \o SubSeq(window, Len(r.window) + 1, Len(window))
       IN  \E n \in 0 .. Len(inside) :
              /\ got' = got \o Literals(SubSeq(inside, 1, n))
              /\ r' = [r EXCEPT !.inside = SubSeq(inside, n + 1, Len(inside)), !.window = window,
                                !.needs_sync_tail = TRUE]
    /\ wire' = Tail(wire)
    /\ UNCHANGED <<mode, sent, w>>

NoData == r.rx_run = 0 /\ wire # <<>> /\ Head(wire).flag # "data"

(* The tail flushes the inflater; the flag that was read waits (saved_flag).*)
ReadTail ==
    /\ NoData /\ r.needs_sync_tail
    /\ got' = got \o Literals(r.inside)
    /\ r' = [r EXCEPT !.inside = <<>>, !.needs_sync_tail = FALSE]
    /\ UNCHANGED <<mode, sent, w, wire>>

ReadCopy ==
    /\ NoData /\ ~ r.needs_sync_tail /\ Head(wire).flag \in {"rel", "long"}
    /\ LET item == Head(wire)
           b == IF item.flag = "rel" THEN r.rx_token + item.n ELSE item.n
       IN  /\ r' = [r EXCEPT !.rx_token = b, !.rx_run = item.run % RunLimit,
                             !.window = IF b \in Blocks THEN observe_copy_data(@, b) ELSE @]
           /\ ReturnCopy(b)
    /\ wire' = Tail(wire)

ReadEnd ==
    /\ NoData /\ ~ r.needs_sync_tail /\ Head(wire).flag = "end"
    /\ r' = NewReader
    /\ got' = Append(got, <<"end", End>>)
    /\ wire' = Tail(wire)
    /\ UNCHANGED <<mode, sent, w>>

Next ==
    \/ \E d \in Data : send_literal(d)
    \/ \E b \in Blocks : send_copy(b)
    \/ finish
    \/ ContinueRun \/ ReadData \/ ReadTail \/ ReadCopy \/ ReadEnd

Spec == Init /\ [][Next]_vars

-----------------------------------------------------------------------------
(* Type invariant of the two codecs' fields.                               *)
TypeOK ==
    /\ mode \in Modes
    /\ w.last \in Blocks \cup {End, Literal} /\ w.flush_pending \in BOOLEAN
    /\ w.last_run_end \in Blocks \cup {0}
    /\ Len(w.held) <= MaxHeld
    /\ r.rx_token \in Nat /\ r.rx_run \in 0 .. RunLimit - 1

(* A literal of a file of which a block was copied before, in zlib mode:   *)
(* the reader has put the block into its window and the writer has not, so *)
(* a distance across it leads elsewhere.                                   *)
AcrossBlock(i) ==
    /\ mode = "zlib" /\ sent[i][1] = "literal"
    /\ \E k \in 1 .. i : sent[k][1] = "copy" /\ \A m \in k .. i : sent[m][1] # "end"

(* The reader returns the tokens of the writer, in their order: no literal *)
(* slips behind a block although the compressor, the inflater and the      *)
(* pending run all hold something back, runs and relative numbers expand   *)
(* to the blocks they stand for, and distances lead to the data they meant *)
(* (except across a block in zlib mode).                                   *)
RoundTrip ==
    /\ Len(got) <= Len(sent)
    /\ \A i \in DOMAIN got : got[i][1] = sent[i][1] /\ (AcrossBlock(i) \/ got[i][2] = sent[i][2])

(* After the end of a file nothing is left behind, in the writer, on the   *)
(* wire or in the reader: every token arrives before its end.              *)
NothingHeldBack ==
    (sent # <<>> /\ sent[Len(sent)][1] = "end") =>
        /\ w.held = <<>>
        /\ wire = <<>> => Len(got) = Len(sent) /\ r = NewReader
=============================================================================
