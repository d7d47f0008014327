---------------------------- MODULE StateStore ----------------------------
(***************************************************************************)
(* persistentStateStorage of src/state_storage.go: the term and vote kept  *)
(* in D/state/state.bin and replaced by write-temp, fsync, close, rename,  *)
(* reopen.  The record framing of ProtoStorageEncoder (src/pkg/encoding.go)*)
(* is a parameter: EncodeState and DecodeState, which MCStateStore takes   *)
(* from Framing.  CodecAssumption is all this module relies on about them. *)
(*                                                                         *)
(* SetState is split at each system call, since a crash may come between  *)
(* any two, and any call may fail with an I/O error (SetStateFails).  The *)
(* disk: every file is its bytes and how many of them are synced; the     *)
(* directory entry state.bin is a log of the files it has named since the *)
(* last time the file system committed its metadata.  Nothing in the code *)
(* fsyncs the directory, so a crash may undo any suffix of the renames    *)
(* in that log; the kernel's own commit (DirCommit) makes them durable.   *)
(***************************************************************************)
EXTENDS Naturals, Sequences

CONSTANTS
    Terms,          \* terms SetState is called with
    Votes,          \* votes SetState is called with, as byte strings
    NoFile,         \* no temporary file
    MaxCalls,       \* bound on the SetState calls of a behaviour
    MaxCrashes,     \* bound on the crashes of a behaviour
    EncodeState(_), \* the frame encodePersistentState writes for a pair
    DecodeState(_)  \* one decodePersistentState on the bytes left in the file

ASSUME StateStoreAssumption ==
    /\ Terms \subseteq Nat /\ <<>> \in Votes
    /\ MaxCalls \in Nat /\ MaxCrashes \in Nat

Zero == [term |-> 0, votedFor |-> <<>>]
Pairs == [term : Terms \cup {0}, votedFor : Votes]

(* The codec: an empty file decodes as io.EOF, and the frame of a pair is *)
(* a string of bytes that decodes to that pair.                           *)
ASSUME CodecAssumption ==
    /\ DecodeState(<<>>).kind = "eof"
    /\ \A p \in Pairs :
          /\ EncodeState(p) \in Seq(0..255)
          /\ DecodeState(EncodeState(p)).kind = "ok"
          /\ DecodeState(EncodeState(p)).rec = p

VARIABLES
    dirLog,     \* the files state.bin has named since the last metadata commit
    tmp,        \* the temporary file of a SetState in progress
    handle,     \* p.file: "nil", an "open" file, or a "closed" one
    atStart,    \* the file offset of p.file is 0
    state,      \* p.state
    pc,         \* the step SetState has reached
    lastReplay, \* the last Replay: "ok", "err" or "none", the pair it
                \* recovered and after how many SetState calls
    attempts,   \* history: every SetState call, and whether it returned nil
    crashes     \* number of crashes so far

vars == <<dirLog, tmp, handle, atStart, state, pc, lastReplay, attempts, crashes>>

(* The file state.bin names now, as the running process sees it.         *)
Live == dirLog[Len(dirLog)]

NoReplay == [kind |-> "none", pair |-> Zero, at |-> 0]

(* State(): errStateStorageNotOpen while p.file is nil, else p.state.    *)
StateResult ==
    IF handle = "nil" THEN [err |-> TRUE] ELSE [err |-> FALSE, pair |-> state]

(* The node has started: Replay returned nil since the last Open.        *)
Started == lastReplay.kind = "ok"

-----------------------------------------------------------------------------
Init ==
    /\ dirLog = <<[bytes |-> <<>>, synced |-> 0]>>
    /\ tmp = NoFile
    /\ handle = "nil"
    /\ atStart = FALSE
    /\ state = Zero
    /\ pc = "idle"
    /\ lastReplay = NoReplay
    /\ attempts = <<>>
    /\ crashes = 0

(* Open: state.bin is opened at offset 0; an open handle is replaced.     *)
Open ==
    /\ pc = "idle"
    /\ handle' = "open"
    /\ atStart' = TRUE
    /\ lastReplay' = NoReplay
    /\ UNCHANGED <<dirLog, tmp, state, pc, attempts, crashes>>

(* Close: the file is closed and p.state reset; p.file is not set to nil. *)
Close ==
    /\ pc = "idle"
    /\ handle = "open"
    /\ handle' = "closed"
    /\ state' = Zero
    /\ lastReplay' = NoReplay
    /\ UNCHANGED <<dirLog, tmp, atStart, pc, attempts, crashes>>

(* Replay, called by NewRaft right after Open: one record is decoded from *)
(* the current offset; io.EOF counts as the zero state, any other error   *)
(* is returned and p.state is left alone.                                 *)
Replay ==
    /\ pc = "idle"
    /\ handle = "open"
    /\ atStart
    /\ LET d == DecodeState(Live.bytes)
       IN IF d.kind \in {"eof", "ok"}
          THEN LET r == IF d.kind = "ok" THEN d.rec ELSE Zero
               IN /\ state' = r
                  /\ lastReplay' = [kind |-> "ok", pair |-> r, at |-> Len(attempts)]
          ELSE /\ lastReplay' = [NoReplay EXCEPT !.kind = "err"]
               /\ UNCHANGED state
    /\ atStart' = FALSE
    /\ UNCHANGED <<dirLog, tmp, handle, pc, attempts, crashes>>

(* Mutant of SetStateWrite: the record is encoded from p.state before the *)
(* new pair is assigned to it.                                            *)
SetStateWriteOld(t, v) ==
    /\ pc = "idle"
    /\ handle /= "nil"
    /\ Started
    /\ Len(attempts) < MaxCalls
    /\ state' = [term |-> t, votedFor |-> v]
    /\ tmp' = [bytes |-> EncodeState(state), synced |-> 0]
    /\ pc' = "written"
    /\ attempts' = Append(attempts, [pair |-> state', acked |-> FALSE])
    /\ UNCHANGED <<dirLog, handle, atStart, lastReplay, crashes>>

(* SetState up to the encode: os.CreateTemp, then p.state is assigned     *)
(* and the record written to the temporary file.  The node calls it only *)
(* once it has started, after a Replay that succeeded.                    *)
SetStateWrite(t, v) ==
    /\ pc = "idle"
    /\ handle /= "nil"
    /\ Started
    /\ Len(attempts) < MaxCalls
    /\ state' = [term |-> t, votedFor |-> v]
    /\ tmp' = [bytes |-> EncodeState(state'), synced |-> 0]
    /\ pc' = "written"
    /\ attempts' = Append(attempts, [pair |-> state', acked |-> FALSE])
    /\ UNCHANGED <<dirLog, handle, atStart, lastReplay, crashes>>

(* tmpFile.Sync()                                                          *)
SetStateSync ==
    /\ pc = "written"
    /\ tmp' = [tmp EXCEPT !.synced = Len(tmp.bytes)]
    /\ pc' = "synced"
    /\ UNCHANGED <<dirLog, handle, atStart, state, lastReplay, attempts, crashes>>

(* tmpFile.Close() and p.file.Close(); closing a closed p.file fails, and *)
(* that failure is SetStateFails.                                         *)
SetStateClose ==
    /\ pc = "synced"
    /\ handle = "open"
    /\ handle' = "closed"
    /\ pc' = "closed"
    /\ UNCHANGED <<dirLog, tmp, atStart, state, lastReplay, attempts, crashes>>

(* os.Rename(tmpFile.Name(), p.file.Name())                               *)
SetStateRename ==
    /\ pc = "closed"
    /\ dirLog' = Append(dirLog, tmp)
    /\ tmp' = NoFile
    /\ pc' = "renamed"
    /\ UNCHANGED <<handle, atStart, state, lastReplay, attempts, crashes>>

(* Mutant of SetStateReopen: the store is reopened and SetState returns   *)
(* nil as soon as the files are closed, whether or not the rename ran.   *)
SetStateReopenEarly ==
    /\ pc \in {"closed", "renamed"}
    /\ handle' = "open"
    /\ atStart' = FALSE
    /\ pc' = "idle"
    /\ attempts' = [attempts EXCEPT ![Len(attempts)].acked = TRUE]
    /\ UNCHANGED <<dirLog, tmp, state, lastReplay, crashes>>

(* os.OpenFile and Seek to the end; SetState returns nil.                 *)
SetStateReopen ==
    /\ pc = "renamed"
    /\ handle' = "open"
    /\ atStart' = FALSE
    /\ pc' = "idle"
    /\ attempts' = [attempts EXCEPT ![Len(attempts)].acked = TRUE]
    /\ UNCHANGED <<dirLog, tmp, state, lastReplay, crashes>>

(* The step SetState has reached fails and the error is returned; what   *)
(* the earlier steps did stays done, the temporary file is left behind.  *)
SetStateFails ==
    /\ pc /= "idle"
    /\ pc' = "idle"
    /\ tmp' = NoFile
    /\ UNCHANGED <<dirLog, handle, atStart, state, lastReplay, attempts, crashes>>

(* The file system commits its metadata and write-back reaches the disk. *)
DirCommit ==
    /\ Len(dirLog) > 1
    /\ dirLog' = <<[Live EXCEPT !.synced = Len(Live.bytes)]>>
    /\ UNCHANGED <<tmp, handle, atStart, state, pc, lastReplay, attempts, crashes>>

(* A crash: state.bin names a file of the log, with its synced bytes and *)
(* any prefix of the rest; the process and its storage object are gone.  *)
Crash ==
    /\ crashes < MaxCrashes
    /\ \E k \in 1..Len(dirLog) :
         \E n \in dirLog[k].synced..Len(dirLog[k].bytes) :
           dirLog' = <<[bytes |-> SubSeq(dirLog[k].bytes, 1, n), synced |-> n]>>
    /\ tmp' = NoFile
    /\ handle' = "nil"
    /\ atStart' = FALSE
    /\ state' = Zero
    /\ pc' = "idle"
    /\ lastReplay' = NoReplay
    /\ crashes' = crashes + 1
    /\ UNCHANGED attempts

Next ==
    \/ Open
    \/ Close
    \/ Replay
    \/ \E t \in Terms, v \in Votes : SetStateWrite(t, v)
    \/ SetStateSync
    \/ SetStateClose
    \/ SetStateRename
    \/ SetStateReopen
    \/ SetStateFails
    \/ DirCommit
    \/ Crash

Spec == Init /\ [][Next]_vars

-----------------------------------------------------------------------------
(* The pair a file holds, as Replay would read it; the error it returns *)
(* on a torn file.                                                        *)
FileState(f) ==
    LET d == DecodeState(f.bytes)
    IN IF d.kind = "ok" THEN d.rec ELSE IF d.kind = "eof" THEN Zero ELSE [kind |-> d.kind]

(* Spec line 218 and the durability contract of §7: a vote is persisted  *)
(* before it is granted, so once SetState has returned nil, what a later *)
(* restart recovers is that pair or one set after it.                     *)
AckedDurable ==
    Started =>
        \A k \in 1..lastReplay.at :
            attempts[k].acked =>
                \E j \in k..lastReplay.at : attempts[j].pair = lastReplay.pair

(* SetState returns nil (line 147) only once state.bin names a file that *)
(* holds the pair of that very call: the rename of line 129 has run and  *)
(* nothing has replaced the file since.                                  *)
AckedIsLive ==
    [][\A j \in DOMAIN attempts :
          ~attempts[j].acked /\ attempts'[j].acked =>
              FileState(Live') = attempts[j].pair]_vars

-----------------------------------------------------------------------------
(* The refinement: state.bin seen as whole versions (StateFile).  Each   *)
(* file of the log is read as Replay would decode it.                    *)
Versions == [k \in 1..Len(dirLog) |-> FileState(dirLog[k])]

Written == [j \in 1..Len(attempts) |-> attempts[j].pair]

Recovered == IF Started THEN <<lastReplay.pair>> ELSE <<>>

File == INSTANCE StateFile WITH
            Pair <- Pairs, versions <- Versions, history <- Written,
            recovered <- Recovered

(* The temporary file, the Sync before the rename and the rename itself *)
(* (lines 106-131) implement an atomic replacement of state.bin: every  *)
(* step of SetState, Replay, Open, Close and of a crash is a step of    *)
(* StateFile or leaves its versions, history and recovery alone.        *)
StateFileRefined == File!Spec

=============================================================================
