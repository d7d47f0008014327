--------------------------- MODULE MCStateStore ---------------------------
(* The TLC instance of StateStore: terms 1 and 200 (a two-byte varint),  *)
(* no vote or a vote for "s1", two SetState calls and two crashes.         *)
EXTENDS StateStore, TLC

F == INSTANCE Framing

(* The codec of src/pkg/encoding.go, as Framing models it.                 *)
MCEncodeState(st) == F!EncodeState(st)

(* Every string of bytes a file of these runs can hold: a prefix of the   *)
(* frame of a pair.  Their decodings are computed once, since TLC         *)
(* re-evaluates the recursive decoder from scratch under a prime.         *)
MCFrameBytes ==
    UNION {{SubSeq(F!EncodeState(p), 1, n) : n \in 0..Len(F!EncodeState(p))} : p \in Pairs}
MCDecodeTable == [s \in MCFrameBytes |-> F!DecodeState(s)]
MCDecodeState(s) ==
    IF s \in MCFrameBytes THEN MCDecodeTable[s] ELSE F!DecodeState(s)

MCTerms == {1, 200}
MCVotes == {<<>>, <<115, 49>>}

=============================================================================
