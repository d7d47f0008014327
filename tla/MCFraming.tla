----------------------------- MODULE MCFraming -----------------------------
(* The log entry codec of src/pkg/encoding.go checked against the entries *)
(* it was given: entries are encoded one after another into a stream, as  *)
(* the log store writes them, and the stream is decoded back until EOF.   *)
(* Indices and offsets reach two-byte varints; data holds a byte > 127.   *)
EXTENDS Framing, TLC

CONSTANT MaxEntries     \* bound on the length of the stream, in entries

MCEntries ==
    [index : {1, 130}, term : {1}, data : {<<>>, <<200>>}, offset : {0, 300}]

VARIABLES stream, written

(* Decode until io.EOF, as the log store's replay loop does.              *)
RECURSIVE DecodeAll(_)
DecodeAll(s) ==
    LET d == DecodeEntry(s)
    IN IF d.kind = "eof" THEN <<>>
       ELSE IF d.kind = "ok" THEN <<d.rec>> \o DecodeAll(d.rest)
       ELSE <<d.kind>>

Init == stream = <<>> /\ written = <<>>

(* ProtoLogEncoder.Encode of one more entry onto the stream.              *)
EncodeNext(e) ==
    /\ Len(written) < MaxEntries
    /\ stream' = stream \o EncodeEntry(e)
    /\ written' = Append(written, e)

Next == \E e \in MCEntries : EncodeNext(e)

Spec == Init /\ [][Next]_<<stream, written>>

(* ProtoLogDecoder.Decode, run until io.EOF over what ProtoLogEncoder     *)
(* wrote, gives back exactly the entries written, in order: no field is   *)
(* lost or misread and no frame boundary drifts.                          *)
EntriesRoundTrip == DecodeAll(stream) = written

=============================================================================
