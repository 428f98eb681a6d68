---------------------------- MODULE WireNumbers ----------------------------
(***************************************************************************)
(* The numbers of the wire: rsync-protocol/src/io.rs and the 64-bit longs  *)
(* of flist.rs.  A writer puts values on a byte stream in some order of    *)
(* kinds, a reader that expects the same kinds takes them off.  Indexes    *)
(* are coded as differences, so each side keeps the previous positive and  *)
(* the previous negative index, and the two must never part.               *)
(*                                                                         *)
(* Values other than indexes are little-endian sequences of bytes.  A      *)
(* block of n payload bytes is one element, Block(n), of the stream.       *)
(***************************************************************************)
EXTENDS Integers, Sequences

CONSTANTS
    Indexes,     \* i32 file indexes: DONE, FLIST_EOF, offsets and positions
    Values,      \* 8-byte numbers, functions from 1 .. 8 to bytes
    Lengths,     \* lengths of counted strings
    MaxString,   \* the reader's limit on such a length
    MaxWrites,   \* bound: values written
    MaxOthers    \* bound: writes after which only indexes follow

RSYNC_INDEX_DONE == -1
MaxI32 == 2147483647

VARIABLES
    sent,    \* values written, <<kind, value>>
    wire,    \* bytes under way
    wprev,   \* the writer's RsyncIndexState
    rprev,   \* the reader's
    got,     \* values read
    failed   \* "no", or the side that returned an error

vars == <<sent, wire, wprev, rprev, got, failed>>

Default == [positive |-> -1, negative |-> 1]
Block(n) == IF n = 0 THEN <<>> ELSE <<256 + n>>
Refused == <<-1>>

(***************************************************************************)
(* varint and varlong: the top byte that is not zero is joined with the    *)
(* count of the bytes that follow the first min ones, if it is small       *)
(* enough, and otherwise is a byte of its own.                             *)
(***************************************************************************)
LeadingOf(v, width, min) ==
    CHOOSE n \in min .. width :
        /\ n > min => v[n] # 0
        /\ \A m \in n + 1 .. width : v[m] = 0

\* Mutant: off by one where the leading byte no longer fits.
write_varnumWide(v, width, min) ==
    LET n == LeadingOf(v, width, min)
        bit == 2 ^ (7 - n + min)
    IN  IF v[n] > bit THEN <<256 - bit>> \o SubSeq(v, 1, n)
        ELSE IF n > min THEN <<v[n] + 256 - 2 * bit>> \o SubSeq(v, 1, n - 1)
        ELSE <<v[n]>> \o SubSeq(v, 1, n - 1)

write_varnum(v, width, min) ==
    LET n == LeadingOf(v, width, min)
        bit == 2 ^ (7 - n + min)
    IN  IF v[n] >= bit THEN <<256 - bit>> \o SubSeq(v, 1, n)
        ELSE IF n > min THEN <<v[n] + 256 - 2 * bit>> \o SubSeq(v, 1, n - 1)
        ELSE <<v[n]>> \o SubSeq(v, 1, n - 1)

varint_extra_bytes(first) ==
    Len(SelectSeq(<<128, 192, 224, 240, 248, 252>>, LAMBDA least : first >= least))

write_varint(v) ==
    IF v[4] >= 128 \/ \E i \in 5 .. 8 : v[i] # 0 THEN Refused
    ELSE write_varnum(v, 4, 1)

write_varlong(v, min) == write_varnum(v, 8, min)

(* A read: the value and the number of bytes it took; took 0 is an error.  *)
Read(v, n) == [value |-> v, took |-> n]
Error == Read(<<>>, 0)
Fails(r) == r.took = 0
Padded(s) == [i \in 1 .. 8 |-> IF i <= Len(s) THEN s[i] ELSE 0]

read_varnum(w, width, min) ==
    LET extra == varint_extra_bytes(w[1])
        top == w[1] % 2 ^ (8 - extra)
    IN  IF min + extra > width \/ min + extra > Len(w) THEN Error
        ELSE IF extra = 0 THEN Read(Padded(SubSeq(w, 2, min) \o <<w[1]>>), min)
        ELSE Read(Padded(SubSeq(w, 2, min + extra) \o <<top>>), min + extra)

read_varint(w) ==
    LET r == read_varnum(w, 5, 1)
    IN  IF Fails(r) THEN Error ELSE Read(Padded(SubSeq(r.value, 1, 4)), r.took)

read_varlong(w, min) == read_varnum(w, 8, min)

(***************************************************************************)
(* The 64-bit long of protocol 27: an i32, or -1 and an i64.               *)
(***************************************************************************)
AllOnes == <<255, 255, 255, 255>>

write_rsync_long(v) ==
    IF v[4] < 128 /\ \A i \in 5 .. 8 : v[i] = 0 THEN SubSeq(v, 1, 4)
    ELSE IF v[8] >= 128 THEN Refused
    ELSE AllOnes \o SubSeq(v, 1, 8)

read_rsync_long(w) ==
    IF Len(w) < 4 THEN Error
    ELSE IF w[4] < 128 THEN Read(Padded(SubSeq(w, 1, 4)), 4)
    ELSE IF SubSeq(w, 1, 4) # AllOnes \/ Len(w) < 12 \/ w[12] >= 128 THEN Error
    ELSE Read(SubSeq(w, 5, 12), 12)

(***************************************************************************)
(* Counted strings: a length of one byte, or of two with the high bit set. *)
(***************************************************************************)
write_vstring(n) ==
    IF n > 32767 THEN Refused
    ELSE (IF n >= 128 THEN <<128 + n \div 256>> ELSE <<>>) \o <<n % 256>> \o Block(n)

read_vstring(w) ==
    LET two == w[1] >= 128
        n == IF two THEN (w[1] % 128) * 256 + w[2] ELSE w[1]
        head == IF two THEN 2 ELSE 1
    IN  IF n > MaxString \/ SubSeq(w, head + 1, head + Len(Block(n))) # Block(n) THEN Error
        ELSE Read(n, head + Len(Block(n)))

(***************************************************************************)
(* Indexes.  checked_sub and checked_add report an overflow of i32.        *)
(***************************************************************************)
Bytes(n) == <<n % 256, (n \div 256) % 256, (n \div 65536) % 256, n \div 16777216>>
Side(i) == IF i >= 0 THEN "positive" ELSE "negative"
Magnitude(i) == IF i >= 0 THEN i ELSE -i
Overflows(a, b) == b < 0 /\ a > MaxI32 + b

\* Mutant: a difference of 0 is written as the byte of DONE.
write_rsync_indexZeroAsByte(prev, i) ==
    LET n == Magnitude(i)
        diff == n - prev[Side(i)]
        code == IF diff >= 0 /\ diff < 254 THEN <<diff>>
                ELSE IF diff < 0 \/ diff > 32767
                     THEN <<254, Bytes(n)[4] + 128, Bytes(n)[1], Bytes(n)[2], Bytes(n)[3]>>
                     ELSE <<254, diff \div 256, diff % 256>>
    IN  IF i = RSYNC_INDEX_DONE THEN <<0>>
        ELSE IF Overflows(n, prev[Side(i)]) THEN Refused
        ELSE (IF i < 0 THEN <<255>> ELSE <<>>) \o code

write_rsync_index(prev, i) ==
    LET n == Magnitude(i)
        diff == n - prev[Side(i)]
        code == IF diff > 0 /\ diff < 254 THEN <<diff>>
                ELSE IF diff < 0 \/ diff > 32767
                     THEN <<254, Bytes(n)[4] + 128, Bytes(n)[1], Bytes(n)[2], Bytes(n)[3]>>
                     ELSE <<254, diff \div 256, diff % 256>>
    IN  IF i = RSYNC_INDEX_DONE THEN <<0>>
        ELSE IF Overflows(n, prev[Side(i)]) THEN Refused
        ELSE (IF i < 0 THEN <<255>> ELSE <<>>) \o code

\* Mutant: DONE is remembered as the previous index.
WriterAdvanceAlways(prev, i) == [prev EXCEPT ![Side(i)] = Magnitude(i)]

WriterAdvance(prev, i) ==
    IF i = RSYNC_INDEX_DONE THEN prev ELSE [prev EXCEPT ![Side(i)] = Magnitude(i)]

ReaderAdvance(prev, i) ==
    IF i = RSYNC_INDEX_DONE THEN prev ELSE [prev EXCEPT ![Side(i)] = Magnitude(i)]

read_rsync_index(prev, w) ==
    LET side == IF w[1] = 255 THEN "negative" ELSE "positive"
        at == IF w[1] = 255 THEN 1 ELSE 0
        sum(diff) == IF prev[side] > MaxI32 - diff THEN -1 ELSE prev[side] + diff
        n == IF w[at + 1] # 254 THEN sum(w[at + 1])
             ELSE IF w[at + 2] < 128 THEN sum(w[at + 2] * 256 + w[at + 3])
             ELSE w[at + 3] + 256 * w[at + 4] + 65536 * w[at + 5] + 16777216 * (w[at + 2] - 128)
        took == at + (IF w[at + 1] # 254 THEN 1 ELSE IF w[at + 2] < 128 THEN 3 ELSE 5)
    IN  IF w[1] = 0 THEN Read(RSYNC_INDEX_DONE, 1)
        ELSE IF n < 0 THEN Error
        ELSE Read(IF side = "positive" THEN n ELSE -n, took)

-----------------------------------------------------------------------------
Kinds == {"index", "varint", "varlong3", "varlong4", "long", "vstring"}
Domain(kind) == CASE kind = "index" -> Indexes [] kind = "vstring" -> Lengths [] OTHER -> Values

Coded(kind, v) ==
    CASE kind = "index" -> write_rsync_index(wprev, v)
      [] kind = "varint" -> write_varint(v)
      [] kind = "varlong3" -> write_varlong(v, 3)
      [] kind = "varlong4" -> write_varlong(v, 4)
      [] kind = "long" -> write_rsync_long(v)
      [] kind = "vstring" -> write_vstring(v)

Decoded(kind) ==
    CASE kind = "index" -> read_rsync_index(rprev, wire)
      [] kind = "varint" -> read_varint(wire)
      [] kind = "varlong3" -> read_varlong(wire, 3)
      [] kind = "varlong4" -> read_varlong(wire, 4)
      [] kind = "long" -> read_rsync_long(wire)
      [] kind = "vstring" -> read_vstring(wire)

Init ==
    /\ sent = <<>> /\ wire = <<>> /\ got = <<>>
    /\ wprev = Default /\ rprev = Default
    /\ failed = "no"

Write(kind, v) ==
    /\ failed = "no" /\ Len(sent) < (IF kind = "index" THEN MaxWrites ELSE MaxOthers)
    /\ LET bytes == Coded(kind, v)
       IN  IF bytes = Refused
           THEN failed' = "writer" /\ UNCHANGED <<sent, wire, wprev>>
           ELSE /\ wire' = wire \o bytes
                /\ sent' = Append(sent, <<kind, v>>)
                /\ wprev' = IF kind = "index" THEN WriterAdvance(wprev, v) ELSE wprev
                /\ UNCHANGED failed
    /\ UNCHANGED <<rprev, got>>

ReadNext ==
    /\ failed # "reader" /\ Len(got) < Len(sent) /\ wire # <<>>
    /\ LET kind == sent[Len(got) + 1][1]
           r == Decoded(kind)
       IN  IF Fails(r)
           THEN failed' = "reader" /\ UNCHANGED <<wire, rprev, got>>
           ELSE /\ wire' = SubSeq(wire, r.took + 1, Len(wire))
                /\ got' = Append(got, <<kind, r.value>>)
                /\ rprev' = IF kind = "index" THEN ReaderAdvance(rprev, r.value) ELSE rprev
                /\ UNCHANGED failed
    /\ UNCHANGED <<sent, wprev>>

Next == (\E kind \in Kinds : \E v \in Domain(kind) : Write(kind, v)) \/ ReadNext

Spec == Init /\ [][Next]_vars

-----------------------------------------------------------------------------
(* Type invariant: the stream carries bytes and blocks, each side's        *)
(* RsyncIndexState holds i32 values.                                       *)
TypeOK ==
    /\ \A i \in DOMAIN wire : wire[i] \in Nat
    /\ Len(got) <= Len(sent) /\ Len(sent) <= MaxWrites
    /\ wprev \in [{"positive", "negative"} -> -1 .. MaxI32]
    /\ rprev \in [{"positive", "negative"} -> -1 .. MaxI32]
    /\ failed \in {"no", "writer", "reader"}

(* What read_varint, read_varlong, read_rsync_long, read_vstring and       *)
(* read_rsync_index return is what was written, value by value, however    *)
(* kinds and indexes follow each other.                                    *)
RoundTrip == got = SubSeq(sent, 1, Len(got))

(* The reader never starves and never keeps a byte: a value that was       *)
(* written whole can be read whole, and when the reader has caught up no   *)
(* byte is left and both RsyncIndexStates agree, after DONE, after jumps   *)
(* back and after negative indexes too.                                    *)
InStep ==
    failed # "reader" =>
        /\ (Len(got) < Len(sent)) = (wire # <<>>)
        /\ Len(got) = Len(sent) => wprev = rprev

(* A varlong of min bytes cannot hold every u64: the reader refuses what   *)
(* the writer wrote when the top byte no longer fits beside the count.     *)
Huge(v, min) == v[8] >= 2 ^ (min - 1)

(* The readers refuse nothing that the writers of this project wrote,      *)
(* except a varlong too long for its form (2^58 and up with three bytes)   *)
(* and a string above the reader's limit.                                  *)
RefusesOnlyHuge ==
    failed = "reader" =>
        LET next == sent[Len(got) + 1]
        IN  \/ next[1] = "varlong3" /\ Huge(next[2], 3)
            \/ next[1] = "varlong4" /\ Huge(next[2], 4)
            \/ next[1] = "vstring" /\ next[2] > MaxString
=============================================================================
