------------------------------ MODULE Framing ------------------------------
(***************************************************************************)
(* The record framing of src/pkg/encoding.go: every record is written as  *)
(* a big-endian int32 byte count followed by its protobuf encoding, and    *)
(* read back by binary.Read of the count, io.ReadFull of that many bytes   *)
(* and proto.Unmarshal.                                                    *)
(*                                                                         *)
(* Bytes are naturals below 256 and a file is a sequence of them.  The    *)
(* protobuf messages (internal/protobuf, not under src/) are taken with    *)
(* their fields numbered in the order encoding.go lists them; the wire    *)
(* format is the real one: varint and length-delimited fields, zero       *)
(* values omitted, unknown fields skipped, the last occurrence of a field *)
(* winning.  Groups are treated as malformed input.                       *)
(***************************************************************************)
EXTENDS Naturals, Sequences

Take(s, n) == SubSeq(s, 1, n)
Drop(s, n) == SubSeq(s, n + 1, Len(s))

-----------------------------------------------------------------------------
(* Protobuf wire format.                                                   *)

RECURSIVE Varint(_)
Varint(v) == IF v < 128 THEN <<v>> ELSE <<(v % 128) + 128>> \o Varint(v \div 128)

VarintField(fn, v) == IF v = 0 THEN <<>> ELSE Varint(fn * 8) \o Varint(v)
BytesField(fn, bs) == IF bs = <<>> THEN <<>>
                      ELSE Varint(fn * 8 + 2) \o Varint(Len(bs)) \o bs

Fail == [ok |-> FALSE]

(* A varint at the head of buf: its value and the bytes after it.         *)
RECURSIVE ReadVarint(_)
ReadVarint(buf) ==
    IF buf = <<>> THEN Fail
    ELSE IF buf[1] < 128 THEN [ok |-> TRUE, val |-> buf[1], rest |-> Tail(buf)]
    ELSE LET r == ReadVarint(Tail(buf))
         IN IF ~r.ok THEN Fail
            ELSE [ok |-> TRUE, val |-> (buf[1] - 128) + 128 * r.val, rest |-> r.rest]

(* The fields of a message, in order, as <<number, wire type, value>>.     *)
RECURSIVE ParseFields(_, _)
ParseFields(buf, acc) ==
    IF buf = <<>> THEN [ok |-> TRUE, fields |-> acc]
    ELSE LET t == ReadVarint(buf)
             fn == t.val \div 8
             wt == t.val % 8
         IN IF ~t.ok \/ fn = 0 THEN Fail
            ELSE IF wt = 0
              THEN LET v == ReadVarint(t.rest)
                   IN IF ~v.ok THEN Fail
                      ELSE ParseFields(v.rest, Append(acc, <<fn, 0, v.val>>))
            ELSE IF wt = 2
              THEN LET l == ReadVarint(t.rest)
                   IN IF ~l.ok \/ l.val > Len(l.rest) THEN Fail
                      ELSE ParseFields(Drop(l.rest, l.val),
                                       Append(acc, <<fn, 2, Take(l.rest, l.val)>>))
            ELSE IF wt = 1 /\ Len(t.rest) >= 8 THEN ParseFields(Drop(t.rest, 8), acc)
            ELSE IF wt = 5 /\ Len(t.rest) >= 4 THEN ParseFields(Drop(t.rest, 4), acc)
            ELSE Fail

(* The value of field fn with wire type wt: its last occurrence, or the   *)
(* zero value when the field is absent.                                   *)
Field(fields, fn, wt, zero) ==
    LET at == {k \in DOMAIN fields : fields[k][1] = fn /\ fields[k][2] = wt}
    IN IF at = {} THEN zero
       ELSE fields[CHOOSE k \in at : \A l \in at : l <= k][3]

-----------------------------------------------------------------------------
(* The three records and their encodings.                                  *)

(* Mutant of MarshalSnapshot: the term is left out of the message.       *)
MarshalSnapshotNoTerm(s) ==
    VarintField(1, s.index) \o BytesField(3, s.data)

(* pb.Snapshot{LastIncludedIndex, LastIncludedTerm, Data}                 *)
MarshalSnapshot(s) ==
    VarintField(1, s.index) \o VarintField(2, s.term) \o BytesField(3, s.data)
UnmarshalSnapshot(buf) ==
    LET p == ParseFields(buf, <<>>)
    IN IF ~p.ok THEN Fail
       ELSE [ok |-> TRUE, rec |-> [index |-> Field(p.fields, 1, 0, 0),
                                   term |-> Field(p.fields, 2, 0, 0),
                                   data |-> Field(p.fields, 3, 2, <<>>)]]

(* pb.StorageState{Term, VotedFor}; a vote is a short byte string.         *)
MarshalState(st) == VarintField(1, st.term) \o BytesField(2, st.votedFor)
UnmarshalState(buf) ==
    LET p == ParseFields(buf, <<>>)
    IN IF ~p.ok THEN Fail
       ELSE [ok |-> TRUE, rec |-> [term |-> Field(p.fields, 1, 0, 0),
                                   votedFor |-> Field(p.fields, 2, 2, <<>>)]]

(* Mutant of MarshalEntry: the offset is left out of the message.        *)
MarshalEntryNoOffset(e) ==
    VarintField(1, e.index) \o VarintField(2, e.term) \o BytesField(3, e.data)

(* pb.LogEntry{Index, Term, Data, Offset}                                  *)
MarshalEntry(e) ==
    VarintField(1, e.index) \o VarintField(2, e.term) \o BytesField(3, e.data)
        \o VarintField(4, e.offset)
UnmarshalEntry(buf) ==
    LET p == ParseFields(buf, <<>>)
    IN IF ~p.ok THEN Fail
       ELSE [ok |-> TRUE, rec |-> [index |-> Field(p.fields, 1, 0, 0),
                                   term |-> Field(p.fields, 2, 0, 0),
                                   data |-> Field(p.fields, 3, 2, <<>>),
                                   offset |-> Field(p.fields, 4, 0, 0)]]

-----------------------------------------------------------------------------
(* The frame: int32(len(buf)) written big-endian, then buf.                *)
Int32BE(n) == <<(n \div 16777216) % 256, (n \div 65536) % 256, (n \div 256) % 256, n % 256>>
ReadInt32BE(b) ==
    LET hi == IF b[1] >= 128 THEN b[1] - 256 ELSE b[1]   \* two's complement
    IN ((hi * 256 + b[2]) * 256 + b[3]) * 256 + b[4]

Frame(buf) == Int32BE(Len(buf)) \o buf

EncodeSnapshot(s) == Frame(MarshalSnapshot(s))
EncodeState(st) == Frame(MarshalState(st))
EncodeEntry(e) == Frame(MarshalEntry(e))

(* The framing half of one Decode call on the bytes s left in the file.  *)
(* binary.Read returns io.EOF on no byte and ErrUnexpectedEOF on one to   *)
(* three; make panics on a negative count; io.ReadFull returns io.EOF     *)
(* when it reads no byte of a non-empty buffer and ErrUnexpectedEOF when  *)
(* it reads some.  On success: the record's bytes and what follows.       *)
ReadFrame(s) ==
    LET Stop(k) == [kind |-> k, body |-> <<>>, rest |-> <<>>]
    IN IF s = <<>> THEN Stop("eof")
       ELSE IF Len(s) < 4 THEN Stop("err")
       ELSE LET size == ReadInt32BE(Take(s, 4))
                body == Drop(s, 4)
            IN IF size < 0 THEN Stop("panic")
               ELSE IF size > 0 /\ body = <<>> THEN Stop("eof")
               ELSE IF Len(body) < size THEN Stop("err")
               ELSE [kind |-> "ok", body |-> Take(body, size), rest |-> Drop(body, size)]

(* The rest of Decode: proto.Unmarshal's result u of the frame f's bytes. *)
Decoded(f, u) ==
    IF f.kind /= "ok" THEN [kind |-> f.kind]
    ELSE IF ~u.ok THEN [kind |-> "err"]
    ELSE [kind |-> "ok", rec |-> u.rec, rest |-> f.rest]

DecodeSnapshot(s) == Decoded(ReadFrame(s), UnmarshalSnapshot(ReadFrame(s).body))
DecodeState(s) == Decoded(ReadFrame(s), UnmarshalState(ReadFrame(s).body))
DecodeEntry(s) == Decoded(ReadFrame(s), UnmarshalEntry(ReadFrame(s).body))

=============================================================================
