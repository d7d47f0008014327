------------------------- MODULE StateStoreProofs -------------------------
(***************************************************************************)
(* Proofs about StateStore for every set of terms and votes, every bound  *)
(* and every codec that satisfies CodecAssumption.                        *)
(*                                                                         *)
(* The argument: every file the directory entry state.bin has named since *)
(* the last metadata commit is whole, synced in full, and holds the frame *)
(* of some pair a SetState call wrote (or is the empty file of a fresh    *)
(* directory).  The temporary file is renamed only after its Sync, so a   *)
(* file joins that log whole; a crash keeps at least the synced bytes of  *)
(* one of them, which is all of it.  So Replay always decodes io.EOF or a *)
(* written pair.                                                          *)
(***************************************************************************)
EXTENDS StateStore, SequenceTheorems, TLAPS

Files == [bytes : Seq(0..255), synced : Nat]

(* The bytes b are the empty file or the frame of a pair of history att.  *)
HoldsIn(b, att) == b = <<>> \/ \E j \in DOMAIN att : b = EncodeState(att[j].pair)

(* A file that is synced in full and holds a pair of history att.         *)
WholeIn(f, att) == f \in Files /\ f.synced = Len(f.bytes) /\ HoldsIn(f.bytes, att)

TypeInv ==
    /\ dirLog \in Seq(Files) /\ dirLog # <<>>
    /\ attempts \in Seq([pair : Pairs, acked : BOOLEAN])
    /\ pc \in {"idle", "written", "synced", "closed", "renamed"}
    /\ lastReplay \in [kind : {"none", "ok", "err"}, pair : Pairs, at : Nat]
    /\ crashes \in Nat

FilesWhole == \A k \in 1..Len(dirLog) : WholeIn(dirLog[k], attempts)

(* The temporary file of a SetState in progress holds the frame of the   *)
(* pair that call wrote, synced in full once Sync has returned.          *)
TmpHolds ==
    pc \in {"written", "synced", "closed"} =>
        /\ attempts # <<>>
        /\ tmp \in Files
        /\ tmp.bytes = EncodeState(attempts[Len(attempts)].pair)
        /\ pc \in {"synced", "closed"} => tmp.synced = Len(tmp.bytes)

(* Replay never meets a torn record, and recovers the zero state or a   *)
(* pair some SetState call wrote, whole.                                  *)
ReplayedWritten ==
    /\ lastReplay.kind /= "err"
    /\ Started =>
          \/ lastReplay.pair = Zero
          \/ \E k \in DOMAIN attempts : attempts[k].pair = lastReplay.pair

IInv == TypeInv /\ FilesWhole /\ TmpHolds /\ ReplayedWritten

(* Between the rename and the reopen, state.bin names the frame of the  *)
(* pair the call wrote.                                                  *)
RenamedLive ==
    pc = "renamed" =>
        /\ attempts # <<>>
        /\ Live.bytes = EncodeState(attempts[Len(attempts)].pair)

SInv == IInv /\ RenamedLive

-----------------------------------------------------------------------------
(* Every call of the history wrote a pair.                                *)
LEMMA PairOfSeq ==
    ASSUME NEW att \in Seq([pair : Pairs, acked : BOOLEAN]), NEW j \in DOMAIN att
    PROVE  att[j].pair \in Pairs
<1>1. j \in 1..Len(att)
    BY SMT
<1>2. att[j] \in [pair : Pairs, acked : BOOLEAN]
    BY <1>1, ElementOfSeq, Zenon
<1>. QED
    BY <1>2, Zenon

(* A history that only grows, keeping the pairs it had, keeps every file  *)
(* holding a pair of it.                                                  *)
LEMMA HoldsGrow ==
    ASSUME NEW att, NEW att2, DOMAIN att \subseteq DOMAIN att2,
           \A j \in DOMAIN att : att2[j].pair = att[j].pair,
           NEW b, HoldsIn(b, att)
    PROVE  HoldsIn(b, att2)
<1>1. CASE b = <<>>
    BY <1>1 DEF HoldsIn
<1>2. CASE \E j \in DOMAIN att : b = EncodeState(att[j].pair)
    <2>1. PICK j \in DOMAIN att : b = EncodeState(att[j].pair)
        BY <1>2
    <2>2. j \in DOMAIN att2 /\ att2[j].pair = att[j].pair
        BY <2>1
    <2>. QED
        BY <2>1, <2>2 DEF HoldsIn
<1>. QED
    BY <1>1, <1>2 DEF HoldsIn

(* A whole file of the log, replayed, decodes as io.EOF or a pair of the *)
(* history.                                                               *)
LEMMA ReplayWhole ==
    ASSUME NEW att \in Seq([pair : Pairs, acked : BOOLEAN]), NEW f, WholeIn(f, att)
    PROVE  \/ DecodeState(f.bytes).kind = "eof"
           \/ /\ DecodeState(f.bytes).kind = "ok"
              /\ \E j \in DOMAIN att : att[j].pair = DecodeState(f.bytes).rec
<1>1. CASE f.bytes = <<>>
    BY <1>1, CodecAssumption
<1>2. CASE \E j \in DOMAIN att : f.bytes = EncodeState(att[j].pair)
    <2>1. PICK j \in DOMAIN att : f.bytes = EncodeState(att[j].pair)
        BY <1>2
    <2>2. att[j].pair \in Pairs
        BY PairOfSeq
    <2>. QED
        BY <2>1, <2>2, CodecAssumption
<1>. QED
    BY <1>1, <1>2 DEF WholeIn, HoldsIn

(* The zero state is a pair.                                              *)
LEMMA ZeroPair == Zero \in Pairs
BY StateStoreAssumption DEF Zero, Pairs

-----------------------------------------------------------------------------
(* One lemma per action: each keeps IInv.                                 *)

LEMMA InitIInv == Init => IInv
<1>. SUFFICES ASSUME Init PROVE IInv
    OBVIOUS
<1>1. TypeInv
    BY ZeroPair DEF Init, TypeInv, Files, NoReplay
<1>2. FilesWhole
    <2>1. Len(dirLog) = 1 /\ dirLog[1] = [bytes |-> <<>>, synced |-> 0]
        BY DEF Init
    <2>2. WholeIn(dirLog[1], attempts)
        BY <2>1 DEF WholeIn, Files, HoldsIn
    <2>. QED
        BY <2>1, <2>2 DEF FilesWhole
<1>3. TmpHolds /\ ReplayedWritten
    BY DEF Init, TmpHolds, ReplayedWritten, NoReplay, Started
<1>. QED
    BY <1>1, <1>2, <1>3 DEF IInv

(* The steps that leave the files, the history and the SetState step     *)
(* alone and only reset the replay.                                       *)
LEMMA OpenCloseIInv ==
    ASSUME IInv, Open \/ Close
    PROVE  IInv'
<1>1. UNCHANGED <<dirLog, tmp, pc, attempts, crashes>> /\ lastReplay' = NoReplay
    BY DEF Open, Close
<1>. QED
    BY <1>1, ZeroPair DEF IInv, TypeInv, FilesWhole, TmpHolds, ReplayedWritten,
       NoReplay, Started

LEMMA ReplayIInv ==
    ASSUME IInv, Replay
    PROVE  IInv'
<1>. DEFINE d == DecodeState(Live.bytes)
<1>1. Len(dirLog) \in 1..Len(dirLog)
    BY DEF IInv, TypeInv
<1>2. WholeIn(Live, attempts)
    BY <1>1 DEF IInv, FilesWhole, Live
<1>3. \/ d.kind = "eof"
      \/ d.kind = "ok" /\ \E j \in DOMAIN attempts : attempts[j].pair = d.rec
    BY <1>2, ReplayWhole DEF IInv, TypeInv
<1>4. PICK r : /\ r = IF d.kind = "ok" THEN d.rec ELSE Zero
               /\ lastReplay' = [kind |-> "ok", pair |-> r, at |-> Len(attempts)]
    BY <1>3 DEF Replay
<1>5. r = Zero \/ \E j \in DOMAIN attempts : attempts[j].pair = r
    BY <1>3, <1>4
<1>6. r \in Pairs
    <2>1. \A j \in DOMAIN attempts : attempts[j].pair \in Pairs
        BY PairOfSeq DEF IInv, TypeInv
    <2>. QED
        BY <1>5, <2>1, ZeroPair
<1>7. UNCHANGED <<dirLog, tmp, pc, attempts, crashes>>
    BY DEF Replay
<1>. QED
    BY <1>4, <1>5, <1>6, <1>7 DEF IInv, TypeInv, FilesWhole, TmpHolds,
       ReplayedWritten, Started

(* A SetState call appends its pair to the history; the files still hold *)
(* pairs of the longer history, and the new temporary file is its frame. *)
LEMMA WriteIInv ==
    ASSUME IInv, NEW t \in Terms, NEW v \in Votes, SetStateWrite(t, v)
    PROVE  IInv'
<1>. DEFINE R == [pair : Pairs, acked : BOOLEAN]
            p == [term |-> t, votedFor |-> v]
<1>1. p \in Pairs
    BY DEF Pairs
<1>2. attempts \in Seq(R) /\ attempts' = Append(attempts, [pair |-> p, acked |-> FALSE])
    BY DEF IInv, TypeInv, SetStateWrite
<1>3. attempts' \in Seq(R) /\ Len(attempts') = Len(attempts) + 1
    BY <1>1, <1>2
<1>4. /\ DOMAIN attempts \subseteq DOMAIN attempts'
      /\ \A j \in DOMAIN attempts : attempts'[j].pair = attempts[j].pair
    BY <1>2
<1>5. attempts'[Len(attempts')].pair = p
    BY <1>2
<1>6. FilesWhole'
    <2>. SUFFICES ASSUME NEW k \in 1..Len(dirLog) PROVE WholeIn(dirLog[k], attempts')
        BY DEF SetStateWrite, FilesWhole
    <2>1. WholeIn(dirLog[k], attempts)
        BY DEF IInv, FilesWhole
    <2>2. HoldsIn(dirLog[k].bytes, attempts')
        BY <2>1, <1>4, HoldsGrow, Zenon DEF WholeIn
    <2>. QED
        BY <2>1, <2>2 DEF WholeIn
<1>7. TmpHolds'
    <2>1. EncodeState(p) \in Seq(0..255)
        BY <1>1, CodecAssumption
    <2>2. tmp' = [bytes |-> EncodeState(p), synced |-> 0] /\ pc' = "written"
        BY DEF SetStateWrite
    <2>. QED
        BY <2>1, <2>2, <1>3, <1>5 DEF TmpHolds, Files
<1>8. TypeInv'
    BY <1>3 DEF IInv, TypeInv, SetStateWrite
<1>9. ReplayedWritten'
    <2>1. UNCHANGED lastReplay
        BY DEF SetStateWrite
    <2>. QED
        BY <2>1, <1>4 DEF IInv, ReplayedWritten, Started
<1>. QED
    BY <1>6, <1>7, <1>8, <1>9 DEF IInv

LEMMA SyncIInv ==
    ASSUME IInv, SetStateSync
    PROVE  IInv'
<1>1. tmp \in Files /\ tmp' = [tmp EXCEPT !.synced = Len(tmp.bytes)]
    BY DEF IInv, TmpHolds, SetStateSync
<1>2. tmp' \in Files /\ tmp'.bytes = tmp.bytes /\ tmp'.synced = Len(tmp.bytes)
    BY <1>1 DEF Files
<1>. QED
    BY <1>2 DEF IInv, TypeInv, FilesWhole, TmpHolds, ReplayedWritten, Started,
       SetStateSync

LEMMA CloseStepIInv ==
    ASSUME IInv, SetStateClose
    PROVE  IInv'
BY DEF IInv, TypeInv, FilesWhole, TmpHolds, ReplayedWritten, Started, SetStateClose

(* The rename makes the synced temporary file the newest file of the log. *)
LEMMA RenameIInv ==
    ASSUME IInv, SetStateRename
    PROVE  IInv'
<1>1. WholeIn(tmp, attempts)
    <2>1. attempts # <<>> /\ attempts \in Seq([pair : Pairs, acked : BOOLEAN])
        BY DEF IInv, TypeInv, TmpHolds, SetStateRename
    <2>2. Len(attempts) \in DOMAIN attempts
        BY <2>1
    <2>. QED
        BY <2>2 DEF IInv, TmpHolds, SetStateRename, WholeIn, HoldsIn
<1>2. dirLog' = Append(dirLog, tmp) /\ dirLog \in Seq(Files)
    BY DEF IInv, TypeInv, SetStateRename
<1>3. dirLog' \in Seq(Files) /\ dirLog' # <<>>
    BY <1>1, <1>2 DEF WholeIn
<1>4. FilesWhole'
    <2>. SUFFICES ASSUME NEW k \in 1..Len(dirLog') PROVE WholeIn(dirLog'[k], attempts)
        BY DEF SetStateRename, FilesWhole
    <2>1. CASE k = Len(dirLog')
        BY <2>1, <1>1, <1>2
    <2>2. CASE k # Len(dirLog')
        BY <2>2, <1>2 DEF IInv, FilesWhole
    <2>. QED
        BY <2>1, <2>2
<1>. QED
    BY <1>3, <1>4 DEF IInv, TypeInv, TmpHolds, ReplayedWritten, Started,
       SetStateRename

(* The reopen acknowledges the last call; the pairs stay as they were.   *)
LEMMA ReopenIInv ==
    ASSUME IInv, SetStateReopen
    PROVE  IInv'
<1>. DEFINE R == [pair : Pairs, acked : BOOLEAN]
<1>1. attempts \in Seq(R)
    BY DEF IInv, TypeInv
<1>2. attempts' = [attempts EXCEPT ![Len(attempts)].acked = TRUE]
    BY DEF SetStateReopen
<1>3. attempts' \in Seq(R) /\ DOMAIN attempts' = DOMAIN attempts
      /\ \A j \in DOMAIN attempts : attempts'[j].pair = attempts[j].pair
    <2>1. DOMAIN attempts' = 1..Len(attempts)
        BY <1>1, <1>2
    <2>2. ASSUME NEW j \in 1..Len(attempts)
          PROVE  attempts'[j] \in R /\ attempts'[j].pair = attempts[j].pair
        <3>1. attempts[j] \in R
            BY <1>1, ElementOfSeq, Zenon
        <3>2. j \in DOMAIN attempts
            BY <1>1
        <3>3. CASE j = Len(attempts)
            <4>1. attempts'[j] = [attempts[j] EXCEPT !.acked = TRUE]
                BY <1>2, <3>2, <3>3, Zenon
            <4>. QED
                BY <3>1, <4>1
        <3>4. CASE j # Len(attempts)
            <4>1. attempts'[j] = attempts[j]
                BY <1>2, <3>2, <3>4, Zenon
            <4>. QED
                BY <3>1, <4>1
        <3>. QED
            BY <3>3, <3>4
    <2>3. attempts' \in [1..Len(attempts) -> R]
        BY <1>1, <1>2, <2>1, <2>2
    <2>. QED
        BY <1>1, <2>1, <2>2, <2>3
<1>4. FilesWhole'
    <2>. SUFFICES ASSUME NEW k \in 1..Len(dirLog) PROVE WholeIn(dirLog[k], attempts')
        BY DEF SetStateReopen, FilesWhole
    <2>1. WholeIn(dirLog[k], attempts)
        BY DEF IInv, FilesWhole
    <2>2. HoldsIn(dirLog[k].bytes, attempts')
        BY <2>1, <1>3, HoldsGrow, Zenon DEF WholeIn
    <2>. QED
        BY <2>1, <2>2 DEF WholeIn
<1>5. ReplayedWritten'
    BY <1>3 DEF IInv, ReplayedWritten, Started, SetStateReopen
<1>. QED
    BY <1>3, <1>4, <1>5 DEF IInv, TypeInv, TmpHolds, SetStateReopen

LEMMA FailsIInv ==
    ASSUME IInv, SetStateFails
    PROVE  IInv'
BY DEF IInv, TypeInv, FilesWhole, TmpHolds, ReplayedWritten, Started, SetStateFails

(* The metadata commit keeps the newest file, which is whole already.    *)
LEMMA DirCommitIInv ==
    ASSUME IInv, DirCommit
    PROVE  IInv'
<1>1. Len(dirLog) \in 1..Len(dirLog)
    BY DEF IInv, TypeInv
<1>2. WholeIn(Live, attempts)
    BY <1>1 DEF IInv, FilesWhole, Live
<1>3. [Live EXCEPT !.synced = Len(Live.bytes)] = Live
    BY <1>2 DEF WholeIn, Files
<1>4. dirLog' = <<Live>>
    BY <1>3 DEF DirCommit
<1>5. dirLog' \in Seq(Files) /\ dirLog' # <<>> /\ FilesWhole'
    BY <1>2, <1>4 DEF FilesWhole, WholeIn, DirCommit
<1>. QED
    BY <1>5 DEF IInv, TypeInv, TmpHolds, ReplayedWritten, Started, DirCommit

(* A crash keeps a file of the log with at least its synced bytes: since *)
(* every file is synced in full, that is the whole file.                 *)
LEMMA CrashIInv ==
    ASSUME IInv, Crash
    PROVE  IInv'
<1>1. PICK k \in 1..Len(dirLog) :
         \E n \in dirLog[k].synced..Len(dirLog[k].bytes) :
           dirLog' = <<[bytes |-> SubSeq(dirLog[k].bytes, 1, n), synced |-> n]>>
    BY DEF Crash
<1>2. WholeIn(dirLog[k], attempts)
    BY DEF IInv, FilesWhole
<1>3. PICK n \in dirLog[k].synced..Len(dirLog[k].bytes) :
           dirLog' = <<[bytes |-> SubSeq(dirLog[k].bytes, 1, n), synced |-> n]>>
    BY <1>1
<1>4. n = Len(dirLog[k].bytes) /\ dirLog[k].bytes \in Seq(0..255)
    BY <1>2 DEF WholeIn, Files
<1>5. SubSeq(dirLog[k].bytes, 1, n) = dirLog[k].bytes
    BY <1>4, SubSeqFull
<1>6. dirLog' = <<[bytes |-> dirLog[k].bytes, synced |-> Len(dirLog[k].bytes)]>>
    BY <1>3, <1>4, <1>5
<1>7. WholeIn([bytes |-> dirLog[k].bytes, synced |-> Len(dirLog[k].bytes)], attempts)
    BY <1>2, <1>4 DEF WholeIn, Files
<1>8. dirLog' \in Seq(Files) /\ dirLog' # <<>>
    BY <1>6, <1>7 DEF WholeIn
<1>9. FilesWhole'
    BY <1>6, <1>7 DEF FilesWhole, Crash
<1>. QED
    BY <1>8, <1>9, ZeroPair DEF IInv, TypeInv, TmpHolds, ReplayedWritten, Started, Crash,
       NoReplay

LEMMA StutterIInv ==
    ASSUME IInv, UNCHANGED vars
    PROVE  IInv'
BY DEF IInv, TypeInv, FilesWhole, TmpHolds, ReplayedWritten, Started, vars

LEMMA NextIInv ==
    ASSUME IInv, [Next]_vars
    PROVE  IInv'
BY OpenCloseIInv, ReplayIInv, WriteIInv, SyncIInv, CloseStepIInv, RenameIInv,
   ReopenIInv, FailsIInv, DirCommitIInv, CrashIInv, StutterIInv DEF Next

-----------------------------------------------------------------------------
(* What Replay reads from a file depends on its bytes alone: the frame  *)
(* of a pair is that pair, the empty file the zero state.                *)
LEMMA FileStateFrame ==
    ASSUME NEW f, NEW p \in Pairs, f.bytes = EncodeState(p)
    PROVE  FileState(f) = p
BY CodecAssumption DEF FileState

LEMMA FileStateEmpty ==
    ASSUME NEW f, f.bytes = <<>>
    PROVE  FileState(f) = Zero
BY CodecAssumption DEF FileState

(* The last call of a non-empty history wrote a pair.                     *)
LEMMA LastPair ==
    ASSUME NEW att \in Seq([pair : Pairs, acked : BOOLEAN]), att # <<>>
    PROVE  Len(att) \in DOMAIN att /\ att[Len(att)].pair \in Pairs
<1>1. Len(att) \in DOMAIN att
    BY SMT
<1>. QED
    BY <1>1, PairOfSeq

LEMMA InitSInv == Init => SInv
BY InitIInv DEF SInv, RenamedLive, Init

(* Only the rename moves pc to "renamed", and it makes the temporary     *)
(* file, the frame of the last call, the newest of the log; the metadata *)
(* commit keeps that newest file.                                         *)
LEMMA NextRenamedLive ==
    ASSUME IInv, RenamedLive, [Next]_vars
    PROVE  RenamedLive'
<1>1. CASE SetStateRename
    <2>1. dirLog' = Append(dirLog, tmp) /\ dirLog \in Seq(Files)
        BY <1>1 DEF IInv, TypeInv, SetStateRename
    <2>2. Live' = tmp
        BY <2>1 DEF Live
    <2>. QED
        BY <1>1, <2>2 DEF IInv, TmpHolds, SetStateRename, RenamedLive
<1>2. CASE DirCommit
    <2>1. Len(dirLog) \in 1..Len(dirLog)
        BY DEF IInv, TypeInv
    <2>2. WholeIn(Live, attempts)
        BY <2>1 DEF IInv, FilesWhole, Live
    <2>3. dirLog' = <<[Live EXCEPT !.synced = Len(Live.bytes)]>>
        BY <1>2 DEF DirCommit
    <2>4. Live'.bytes = Live.bytes
        BY <2>2, <2>3 DEF WholeIn, Files, Live
    <2>. QED
        BY <1>2, <2>4 DEF DirCommit, RenamedLive
<1>3. CASE UNCHANGED vars
    BY <1>3 DEF vars, RenamedLive, Live
<1>4. CASE ~SetStateRename /\ ~DirCommit /\ ~UNCHANGED vars
    <2>1. pc' # "renamed"
        BY <1>4 DEF Next, Open, Close, Replay, SetStateWrite, SetStateSync,
           SetStateClose, SetStateReopen, SetStateFails, Crash
    <2>. QED
        BY <2>1 DEF RenamedLive
<1>. QED
    BY <1>1, <1>2, <1>3, <1>4

LEMMA NextSInv ==
    ASSUME SInv, [Next]_vars
    PROVE  SInv'
BY NextIInv, NextRenamedLive DEF SInv

(* The step AckedIsLive constrains.                                       *)
AckStep ==
    \A j \in DOMAIN attempts :
        ~attempts[j].acked /\ attempts'[j].acked => FileState(Live') = attempts[j].pair

(* Only the reopen acknowledges a call: every other step keeps the       *)
(* acknowledgements of the calls already made.                           *)
LEMMA AckStepNext ==
    ASSUME SInv, [Next]_vars
    PROVE  AckStep
<1>. DEFINE R == [pair : Pairs, acked : BOOLEAN]
<1>1. attempts \in Seq(R)
    BY DEF SInv, IInv, TypeInv
<1>2. CASE SetStateReopen
    <2>. SUFFICES ASSUME NEW j \in DOMAIN attempts, ~attempts[j].acked, attempts'[j].acked
                  PROVE  FileState(Live') = attempts[j].pair
        BY DEF AckStep
    <2>1. attempts' = [attempts EXCEPT ![Len(attempts)].acked = TRUE]
        BY <1>2 DEF SetStateReopen
    <2>2. j = Len(attempts)
        <3>0. j \in 1..Len(attempts)
            BY <1>1
        <3>1. attempts[j] \in R
            BY <1>1, <3>0, ElementOfSeq, Zenon
        <3>2. j # Len(attempts) => attempts'[j] = attempts[j]
            BY <2>1, Zenon
        <3>. QED
            BY <3>1, <3>2
    <2>3. attempts # <<>> /\ Live.bytes = EncodeState(attempts[Len(attempts)].pair)
        BY <1>2 DEF SInv, RenamedLive, SetStateReopen
    <2>4. attempts[Len(attempts)].pair \in Pairs
        BY <1>1, <2>3, LastPair
    <2>5. Live' = Live
        BY <1>2 DEF SetStateReopen, Live
    <2>. QED
        BY <2>2, <2>3, <2>4, <2>5, FileStateFrame
<1>3. CASE \E t \in Terms, v \in Votes : SetStateWrite(t, v)
    <2>1. PICK t \in Terms, v \in Votes : SetStateWrite(t, v)
        BY <1>3
    <2>2. \E e : attempts' = Append(attempts, e)
        BY <2>1 DEF SetStateWrite
    <2>3. \A j \in DOMAIN attempts : attempts'[j] = attempts[j]
        BY <1>1, <2>2
    <2>. QED
        BY <2>3 DEF AckStep
<1>4. CASE ~SetStateReopen /\ ~\E t \in Terms, v \in Votes : SetStateWrite(t, v)
    <2>1. UNCHANGED attempts
        BY <1>4 DEF Next, vars, Open, Close, Replay, SetStateSync, SetStateClose,
           SetStateRename, SetStateFails, DirCommit, Crash
    <2>. QED
        BY <2>1 DEF AckStep
<1>. QED
    BY <1>2, <1>3, <1>4

(* SetState returns nil only once state.bin names the file that holds the *)
(* pair of that call: the reopen of line 134 follows the rename of line  *)
(* 129, and nothing replaces the file in between.                        *)
THEOREM AckedIsLiveThm == Spec => AckedIsLive
<1>1. Init => SInv
    BY InitSInv
<1>2. SInv /\ [Next]_vars => SInv'
    BY NextSInv
<1>3. SInv /\ [Next]_vars => [AckStep]_vars
    BY AckStepNext
<1>. QED
    BY <1>1, <1>2, <1>3, PTL DEF Spec, AckedIsLive, AckStep

-----------------------------------------------------------------------------
(* The refinement of StateFile under the mapping of StateStore.           *)
absVars == <<Versions, Written, Recovered>>

LEMMA InitFile == Init => File!Init
<1>. SUFFICES ASSUME Init PROVE File!Init
    OBVIOUS
<1>1. Versions = <<Zero>>
    <2>1. dirLog = <<[bytes |-> <<>>, synced |-> 0]>>
        BY DEF Init
    <2>2. FileState(dirLog[1]) = Zero
        BY <2>1, FileStateEmpty
    <2>. QED
        BY <2>1, <2>2 DEF Versions
<1>2. Written = <<>> /\ Recovered = <<>>
    BY DEF Init, Written, Recovered, Started, NoReplay
<1>. QED
    BY <1>1, <1>2 DEF File!Init

(* Steps that leave the log, the history and the replay alone.           *)
LEMMA QuietFile ==
    ASSUME UNCHANGED <<dirLog, attempts, lastReplay>>
    PROVE  UNCHANGED absVars
BY DEF absVars, Versions, Written, Recovered, Started

(* Open and Close drop what was recovered.                                *)
LEMMA ForgetFile ==
    ASSUME IInv, Open \/ Close
    PROVE  File!Forget
<1>1. UNCHANGED <<dirLog, attempts>> /\ lastReplay' = NoReplay
    BY DEF Open, Close
<1>. QED
    BY <1>1 DEF File!Forget, Versions, Written, Recovered, Started, NoReplay

(* Replay recovers what the newest file of the log holds.                 *)
LEMMA ReplayFile ==
    ASSUME IInv, Replay
    PROVE  File!Recover
<1>. DEFINE d == DecodeState(Live.bytes)
<1>1. Len(dirLog) \in 1..Len(dirLog)
    BY DEF IInv, TypeInv
<1>2. d.kind \in {"eof", "ok"}
    <2>1. WholeIn(Live, attempts)
        BY <1>1 DEF IInv, FilesWhole, Live
    <2>. QED
        BY <2>1, ReplayWhole DEF IInv, TypeInv
<1>3. lastReplay' = [kind |-> "ok", pair |-> FileState(Live), at |-> Len(attempts)]
    BY <1>2 DEF Replay, FileState
<1>4. Versions[Len(Versions)] = FileState(Live)
    BY <1>1 DEF Versions, Live
<1>5. UNCHANGED <<dirLog, attempts>>
    BY DEF Replay
<1>. QED
    BY <1>3, <1>4, <1>5 DEF File!Recover, Versions, Written, Recovered, Started

(* A SetState call adds its pair to the history.                          *)
LEMMA WriteFile ==
    ASSUME IInv, NEW t \in Terms, NEW v \in Votes, SetStateWrite(t, v)
    PROVE  File!Write([term |-> t, votedFor |-> v])
<1>. DEFINE p == [term |-> t, votedFor |-> v]
<1>1. p \in Pairs
    BY DEF Pairs
<1>2. attempts \in Seq([pair : Pairs, acked : BOOLEAN])
      /\ attempts' = Append(attempts, [pair |-> p, acked |-> FALSE])
    BY DEF IInv, TypeInv, SetStateWrite
<1>3. Written' = Append(Written, p)
    BY <1>2 DEF Written
<1>4. UNCHANGED <<dirLog, lastReplay>>
    BY DEF SetStateWrite
<1>. QED
    BY <1>1, <1>3, <1>4 DEF File!Write, Versions, Recovered, Started

(* The rename publishes the pair of the last call.                        *)
LEMMA RenameFile ==
    ASSUME IInv, SetStateRename
    PROVE  File!Publish
<1>1. attempts # <<>> /\ attempts \in Seq([pair : Pairs, acked : BOOLEAN])
      /\ tmp.bytes = EncodeState(attempts[Len(attempts)].pair)
    BY DEF IInv, TypeInv, TmpHolds, SetStateRename
<1>2. attempts[Len(attempts)].pair \in Pairs
    BY <1>1, LastPair
<1>3. FileState(tmp) = attempts[Len(attempts)].pair
    BY <1>1, <1>2, FileStateFrame
<1>4. Written /= <<>> /\ Written[Len(Written)] = attempts[Len(attempts)].pair
    BY <1>1 DEF Written
<1>5. dirLog' = Append(dirLog, tmp) /\ dirLog \in Seq(Files)
    BY DEF IInv, TypeInv, SetStateRename
<1>6. Versions' = Append(Versions, FileState(tmp))
    BY <1>5 DEF Versions
<1>7. UNCHANGED <<attempts, lastReplay>>
    BY DEF SetStateRename
<1>. QED
    BY <1>3, <1>4, <1>6, <1>7 DEF File!Publish, Written, Recovered, Started

(* The reopen acknowledges the last call; the pairs written stay.        *)
LEMMA ReopenFile ==
    ASSUME IInv, SetStateReopen
    PROVE  UNCHANGED absVars
<1>1. attempts \in Seq([pair : Pairs, acked : BOOLEAN])
    BY DEF IInv, TypeInv
<1>2. attempts' = [attempts EXCEPT ![Len(attempts)].acked = TRUE]
    BY DEF SetStateReopen
<1>3. DOMAIN attempts' = DOMAIN attempts /\ Len(attempts') = Len(attempts)
    BY <1>1, <1>2
<1>4. \A j \in 1..Len(attempts) : attempts'[j].pair = attempts[j].pair
    <2>. SUFFICES ASSUME NEW j \in 1..Len(attempts) PROVE attempts'[j].pair = attempts[j].pair
        OBVIOUS
    <2>1. attempts[j] \in [pair : Pairs, acked : BOOLEAN]
        BY <1>1, ElementOfSeq, Zenon
    <2>2. j \in DOMAIN attempts
        BY <1>1
    <2>3. CASE j = Len(attempts)
        <3>1. attempts'[j] = [attempts[j] EXCEPT !.acked = TRUE]
            BY <1>2, <2>2, <2>3, Zenon
        <3>. QED
            BY <2>1, <3>1
    <2>4. CASE j # Len(attempts)
        <3>1. attempts'[j] = attempts[j]
            BY <1>2, <2>2, <2>4, Zenon
        <3>. QED
            BY <3>1
    <2>. QED
        BY <2>3, <2>4
<1>5. Written' = Written
    BY <1>3, <1>4 DEF Written
<1>. QED
    BY <1>5 DEF SetStateReopen, absVars, Versions, Recovered, Started

(* The metadata commit keeps the newest file of the log, bytes unchanged. *)
LEMMA DirCommitFile ==
    ASSUME IInv, DirCommit
    PROVE  File!Commit
<1>1. Len(dirLog) \in 1..Len(dirLog) /\ Live \in Files
    BY DEF IInv, TypeInv, Live
<1>2. dirLog' = <<[Live EXCEPT !.synced = Len(Live.bytes)]>>
    BY DEF DirCommit
<1>3. FileState([Live EXCEPT !.synced = Len(Live.bytes)]) = FileState(Live)
    BY <1>1 DEF FileState, Files
<1>4. Versions' = <<Versions[Len(Versions)]>> /\ Len(Versions) > 1
    BY <1>1, <1>2, <1>3 DEF DirCommit, Versions, Live
<1>. QED
    BY <1>4 DEF DirCommit, File!Commit, Written, Recovered, Started

(* A crash keeps one file of the log whole and forgets the replay.       *)
LEMMA CrashFile ==
    ASSUME IInv, Crash
    PROVE  File!Crash
<1>1. PICK k \in 1..Len(dirLog) :
         \E n \in dirLog[k].synced..Len(dirLog[k].bytes) :
           dirLog' = <<[bytes |-> SubSeq(dirLog[k].bytes, 1, n), synced |-> n]>>
    BY DEF Crash
<1>2. PICK n \in dirLog[k].synced..Len(dirLog[k].bytes) :
           dirLog' = <<[bytes |-> SubSeq(dirLog[k].bytes, 1, n), synced |-> n]>>
    BY <1>1
<1>3. WholeIn(dirLog[k], attempts)
    BY DEF IInv, FilesWhole
<1>4. n = Len(dirLog[k].bytes) /\ dirLog[k].bytes \in Seq(0..255)
    BY <1>3 DEF WholeIn, Files
<1>5. SubSeq(dirLog[k].bytes, 1, n) = dirLog[k].bytes
    BY <1>4, SubSeqFull
<1>6. FileState(dirLog'[1]) = FileState(dirLog[k])
    BY <1>2, <1>5 DEF FileState
<1>7. Versions' = <<Versions[k]>> /\ k \in 1..Len(Versions)
    <2>1. dirLog \in Seq(Files) /\ Len(dirLog') = 1
        BY <1>2 DEF IInv, TypeInv
    <2>2. Versions' = <<FileState(dirLog'[1])>>
        BY <2>1 DEF Versions
    <2>3. Versions[k] = FileState(dirLog[k]) /\ Len(Versions) = Len(dirLog)
        BY <2>1 DEF Versions
    <2>. QED
        BY <1>6, <2>2, <2>3
<1>8. Recovered' = <<>> /\ UNCHANGED Written
    BY DEF Crash, Recovered, Started, NoReplay, Written
<1>. QED
    BY <1>7, <1>8 DEF File!Crash

LEMMA NextFile ==
    ASSUME IInv, [Next]_vars
    PROVE  [File!Next]_absVars
<1>1. CASE Open \/ Close
    BY <1>1, ForgetFile DEF File!Next
<1>2. CASE Replay
    BY <1>2, ReplayFile DEF File!Next
<1>3. CASE \E t \in Terms, v \in Votes : SetStateWrite(t, v)
    <2>1. PICK t \in Terms, v \in Votes : SetStateWrite(t, v)
        BY <1>3
    <2>2. [term |-> t, votedFor |-> v] \in Pairs
        BY DEF Pairs
    <2>. QED
        BY <2>1, <2>2, WriteFile DEF File!Next
<1>4. CASE SetStateSync \/ SetStateClose \/ SetStateFails \/ UNCHANGED vars
    <2>1. UNCHANGED <<dirLog, attempts, lastReplay>>
        BY <1>4 DEF SetStateSync, SetStateClose, SetStateFails, vars
    <2>. QED
        BY <2>1, QuietFile
<1>5. CASE SetStateRename
    BY <1>5, RenameFile DEF File!Next
<1>6. CASE SetStateReopen
    BY <1>6, ReopenFile
<1>7. CASE DirCommit
    BY <1>7, DirCommitFile DEF File!Next
<1>8. CASE Crash
    BY <1>8, CrashFile DEF File!Next
<1>. QED
    BY <1>1, <1>2, <1>3, <1>4, <1>5, <1>6, <1>7, <1>8 DEF Next

(* SetState's temporary file, its Sync and the rename (lines 106-131),  *)
(* with Replay (lines 70-95), implement StateFile: state.bin is a log   *)
(* of whole versions, each rename publishes the last pair written, a    *)
(* crash keeps one version whole and Replay recovers the newest.        *)
THEOREM StateFileRefinement == Spec => StateFileRefined
<1>1. Init => File!Init
    BY InitFile
<1>2. Init => IInv
    BY InitIInv
<1>3. IInv /\ [Next]_vars => IInv'
    BY NextIInv
<1>4. IInv /\ [Next]_vars => [File!Next]_absVars
    BY NextFile
<1>. QED
    BY <1>1, <1>2, <1>3, <1>4, PTL DEF Spec, StateFileRefined, File!Spec, File!fileVars, absVars

=============================================================================
