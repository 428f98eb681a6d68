----------------------------- MODULE Multiplex -----------------------------
(***************************************************************************)
(* The multiplexed stream of rsync-protocol/src/session.rs: data frames    *)
(* with messages between them.  MultiplexedWriter cuts what it is given    *)
(* into frames, MultiplexedReader puts it together again; what is left of  *)
(* a frame is kept in MultiplexReadState from one reader to the next.      *)
(*                                                                         *)
(* Reads and writes are of any size, and their borders do not agree.  The  *)
(* peer may put messages, empty frames and unknown frames between frames.  *)
(***************************************************************************)
EXTENDS Naturals, Sequences

CONSTANTS
    FrameSize,    \* frame_size of the writer
    MaxPart,      \* bound: bytes of one write or read
    MaxBytes,     \* bound: bytes of a stream
    MaxMessages   \* bound: messages between the frames

VARIABLES
    written,    \* bytes handed to the writer
    wire,       \* frames: a tag, a payload
    noted,      \* messages that the peer sent
    remaining,  \* state.remaining
    messages,   \* state.messages
    want,       \* bytes that the present read still has to fill, 0 between reads
    got,        \* bytes that reads have filled
    failed      \* the reader returned an error

vars == <<written, wire, noted, remaining, messages, want, got, failed>>

Init ==
    /\ written = <<>> /\ wire = <<>> /\ noted = <<>>
    /\ remaining = 0 /\ messages = <<>>
    /\ want = 0 /\ got = <<>> /\ failed = FALSE

Least(a, b) == IF a < b THEN a ELSE b
Frame(tag, payload) == [tag |-> tag, payload |-> payload]

(* chunks(frame_size): the last frame may be short.                        *)
Frames(bytes) ==
    [i \in 1 .. (Len(bytes) + FrameSize - 1) \div FrameSize |->
        Frame("data", SubSeq(bytes, (i - 1) * FrameSize + 1, Least(i * FrameSize, Len(bytes))))]

(* Bytes are numbered, so that each can be told from the others.           *)
write(n) ==
    /\ Len(written) + n <= MaxBytes
    /\ LET bytes == [i \in 1 .. n |-> Len(written) + i]
       IN  written' = written \o bytes /\ wire' = wire \o Frames(bytes)
    /\ UNCHANGED <<noted, remaining, messages, want, got, failed>>

(* What a peer puts between its frames.                                    *)
PeerSends(tag) ==
    /\ Len(noted) < MaxMessages
    /\ noted' = Append(noted, tag)
    /\ wire' = Append(wire, Frame(tag, <<>>))
    /\ UNCHANGED <<written, remaining, messages, want, got, failed>>

StartRead(n) ==
    /\ want = 0 /\ ~ failed /\ Len(got) + n <= MaxBytes
    /\ want' = n
    /\ UNCHANGED <<written, wire, noted, remaining, messages, got, failed>>

\* Mutant: an empty data frame is not consumed.
ReadFrameStays ==
    /\ want > 0 /\ remaining = 0 /\ wire # <<>> /\ ~ failed
    /\ LET f == Head(wire)
       IN  /\ remaining' = IF f.tag = "data" THEN Len(f.payload) ELSE 0
           /\ messages' = IF f.tag = "info" THEN Append(messages, f.tag) ELSE messages
           /\ failed' = (f.tag \in {"error", "low"})
           /\ wire' = IF f.tag = "data" THEN wire ELSE Tail(wire)
    /\ want' = IF failed' THEN 0 ELSE want
    /\ UNCHANGED <<written, noted, got>>

(* read_next_multiplex_frame, one frame: its header, then for anything     *)
(* but data its payload as well.                                           *)
ReadFrame ==
    /\ want > 0 /\ remaining = 0 /\ wire # <<>> /\ ~ failed
    /\ LET f == Head(wire)
       IN  /\ remaining' = IF f.tag = "data" THEN Len(f.payload) ELSE 0
           /\ messages' = IF f.tag = "info" THEN Append(messages, f.tag) ELSE messages
           /\ failed' = (f.tag \in {"error", "low"})
           /\ wire' = IF f.tag = "data" /\ f.payload # <<>> THEN wire ELSE Tail(wire)
    /\ want' = IF failed' THEN 0 ELSE want
    /\ UNCHANGED <<written, noted, got>>

\* Mutant: the rest of a frame is dropped with its reader.
FillForgets ==
    /\ want > 0 /\ remaining > 0
    /\ LET n == Least(remaining, want)
       IN  /\ got' = got \o SubSeq(Head(wire).payload, 1, n)
           /\ want' = want - n
           /\ remaining' = IF want = n THEN 0 ELSE remaining - n
           /\ wire' = IF want = n \/ n = remaining THEN Tail(wire)
                      ELSE <<Frame("data", SubSeq(Head(wire).payload, n + 1, remaining))>> \o Tail(wire)
    /\ UNCHANGED <<written, noted, messages, failed>>

\* Mutant: bytes are taken from the end of the frame.
FillFromEnd ==
    /\ want > 0 /\ remaining > 0
    /\ LET n == Least(remaining, want)
       IN  /\ got' = got \o SubSeq(Head(wire).payload, remaining - n + 1, remaining)
           /\ want' = want - n
           /\ remaining' = remaining - n
           /\ wire' = IF n = remaining THEN Tail(wire)
                      ELSE <<Frame("data", SubSeq(Head(wire).payload, 1, remaining - n))>> \o Tail(wire)
    /\ UNCHANGED <<written, noted, messages, failed>>

(* read fills its buffer from the rest of the frame.                       *)
Fill ==
    /\ want > 0 /\ remaining > 0
    /\ LET n == Least(remaining, want)
       IN  /\ got' = got \o SubSeq(Head(wire).payload, 1, n)
           /\ want' = want - n
           /\ remaining' = remaining - n
           /\ wire' = IF n = remaining THEN Tail(wire)
                      ELSE <<Frame("data", SubSeq(Head(wire).payload, n + 1, remaining))>> \o Tail(wire)
    /\ UNCHANGED <<written, noted, messages, failed>>

(* Data without a byte, text, text without a character, an error, a tag    *)
(* below the one of data.                                                  *)
Tags == {"data", "info", "empty", "error", "low"}

Next ==
    \/ \E n \in 1 .. MaxPart : write(n) \/ StartRead(n)
    \/ \E tag \in Tags : PeerSends(tag)
    \/ ReadFrame \/ Fill

Spec == Init /\ [][Next]_vars /\ WF_vars(ReadFrame) /\ WF_vars(Fill)

-----------------------------------------------------------------------------
(* Type invariant: what remains of a frame is what is left of it.          *)
TypeOK ==
    /\ written \in Seq(Nat) /\ got \in Seq(Nat)
    /\ remaining > 0 => wire # <<>> /\ Head(wire).tag = "data" /\ Len(Head(wire).payload) = remaining
    /\ want \in 0 .. MaxPart /\ failed \in BOOLEAN

(* The reader returns the bytes that were written, in their order, none    *)
(* missing and none twice, however writes, frames and reads are cut and    *)
(* whatever messages lie between.                                          *)
InOrder == got = SubSeq(written, 1, Len(got))

(* No byte and no message is lost: what was written is either read or      *)
(* still under way, and the messages that were passed are all recorded.    *)
Payloads == [i \in DOMAIN wire |-> IF wire[i].tag = "data" THEN Len(wire[i].payload) ELSE 0]
PayloadUpTo[n \in 0 .. 20] == IF n = 0 THEN 0 ELSE PayloadUpTo[n - 1] + (IF n <= Len(wire) THEN Payloads[n] ELSE 0)
Infos(s) == Len(SelectSeq(s, LAMBDA t : t = "info"))
NothingLost ==
    /\ Len(got) + PayloadUpTo[Len(wire)] = Len(written)
    /\ Len(messages) + Len(SelectSeq(wire, LAMBDA f : f.tag = "info")) = Infos(noted)

(* A read ends once its bytes are written, if only because the peer        *)
(* reported an error: messages and empty frames never hold it up.          *)
ReadEnds == (want > 0 /\ Len(got) + want <= Len(written)) ~> (want = 0)
=============================================================================
