--------------------------- MODULE SnapshotStore ---------------------------
(***************************************************************************)
(* PersistentSnapshotStorage of src/pkg/snapshot_storage.go, with the      *)
(* file it writes and a machine that may crash at any moment.             *)
(*                                                                         *)
(* The file is append-only.  `file` is its content as the running process *)
(* sees it, and its first `durable` bytes have reached the disk.  A crash  *)
(* (a power loss, or the process dying on a Fatalf and the machine going  *)
(* down before write-back) keeps the durable bytes and any prefix of the   *)
(* others.  A SaveSnapshot is two steps: Encode and Flush put the frame in *)
(* the file, then Sync and the in-memory append; the node holds its mutex *)
(* across both, so the only thing that can come between them is a crash.  *)
(***************************************************************************)
EXTENDS Naturals, Sequences, Framing

CONSTANTS
    Snapshots,      \* the snapshots SaveSnapshot may be handed
    NoSnapshot,     \* no save in progress
    SyncMayFail,    \* whether p.file.Sync() may fail
    MaxSaves,       \* bound on the SaveSnapshot calls of a behaviour
    MaxCrashes      \* bound on the crashes of a behaviour

ASSUME StoreAssumption ==
    /\ NoSnapshot \notin Snapshots
    /\ SyncMayFail \in BOOLEAN
    /\ MaxSaves \in Nat /\ MaxCrashes \in Nat

VARIABLES
    file,       \* the bytes of the snapshot file
    durable,    \* how many of them are on disk
    isOpen,     \* p.file != nil
    snapshots,  \* p.snapshots
    pending,    \* the snapshot of a SaveSnapshot between Flush and Sync
    lastOpen,   \* what the last Open returned: "ok", "err", "panic", or "none"
    attempts,   \* history: every SaveSnapshot call, and whether it returned nil
    crashes     \* number of crashes so far

(* What p.file.Sync() may report: TRUE when the bytes reached the disk.   *)
SyncResults == IF SyncMayFail THEN BOOLEAN ELSE {TRUE}

vars == <<file, durable, isOpen, snapshots, pending, lastOpen, attempts, crashes>>

-----------------------------------------------------------------------------
(* The decode loop of Open: Decode until io.EOF; any other error ends the *)
(* loop with the snapshots decoded so far kept in p.snapshots.            *)
RECURSIVE ReadAll(_, _)
ReadAll(s, acc) ==
    LET d == DecodeSnapshot(s)
    IN IF d.kind = "eof" THEN [kind |-> "ok", snaps |-> acc]
       ELSE IF d.kind = "ok" THEN ReadAll(d.rest, Append(acc, d.rec))
       ELSE [kind |-> d.kind, snaps |-> acc]

(* LastSnapshot and ListSnapshots read p.snapshots.                       *)
LastSnapshot == IF snapshots = <<>> THEN [valid |-> FALSE]
                ELSE [valid |-> TRUE, snapshot |-> snapshots[Len(snapshots)]]
ListSnapshots == snapshots

-----------------------------------------------------------------------------
Init ==
    /\ file = <<>>
    /\ durable = 0
    /\ isOpen = FALSE
    /\ snapshots = <<>>
    /\ pending = NoSnapshot
    /\ lastOpen = "none"
    /\ attempts = <<>>
    /\ crashes = 0

(* Open, called by NewRaft.  p.file is set before the decode loop, so it  *)
(* stays set when the loop fails.  A negative count panics in make, and   *)
(* the process dies: the store is closed again.                           *)
Open ==
    /\ ~isOpen
    /\ LET r == ReadAll(file, <<>>)
       IN /\ isOpen' = (r.kind /= "panic")
          /\ snapshots' = IF r.kind = "panic" THEN <<>> ELSE r.snaps
          /\ lastOpen' = r.kind
    /\ UNCHANGED <<file, durable, pending, attempts, crashes>>

(* Close, called by Stop.  The node runs, and so saves and stops, only   *)
(* after NewRaft's Open returned nil (part_003 line 295).                 *)
Close ==
    /\ isOpen
    /\ lastOpen = "ok"
    /\ pending = NoSnapshot
    /\ isOpen' = FALSE
    /\ snapshots' = <<>>
    /\ lastOpen' = "none"
    /\ UNCHANGED <<file, durable, pending, attempts, crashes>>

(* SaveSnapshot up to writer.Flush(): the frame reaches the file.         *)
SaveSnapshotWrite(s) ==
    /\ isOpen
    /\ lastOpen = "ok"
    /\ pending = NoSnapshot
    /\ Len(attempts) < MaxSaves
    /\ file' = file \o EncodeSnapshot(s)
    /\ pending' = s
    /\ attempts' = Append(attempts, [snap |-> s, acked |-> FALSE])
    /\ UNCHANGED <<durable, isOpen, snapshots, lastOpen, crashes>>

(* Mutant of SaveSnapshotSync: p.snapshots is not appended to.           *)
SaveSnapshotSyncNoAppend ==
    /\ pending /= NoSnapshot
    /\ \E synced \in SyncResults :
          durable' = IF synced THEN Len(file) ELSE durable
    /\ attempts' = [attempts EXCEPT ![Len(attempts)].acked = TRUE]
    /\ pending' = NoSnapshot
    /\ UNCHANGED <<file, isOpen, snapshots, lastOpen, crashes>>

(* The rest of SaveSnapshot: p.file.Sync(), whose error is dropped, then  *)
(* the append to p.snapshots and a nil return.                            *)
SaveSnapshotSync ==
    /\ pending /= NoSnapshot
    /\ \E synced \in SyncResults :
          durable' = IF synced THEN Len(file) ELSE durable
    /\ snapshots' = Append(snapshots, pending)
    /\ attempts' = [attempts EXCEPT ![Len(attempts)].acked = TRUE]
    /\ pending' = NoSnapshot
    /\ UNCHANGED <<file, isOpen, lastOpen, crashes>>

(* A crash: the process and its store object are gone; the disk keeps the *)
(* durable bytes and any prefix of the rest.                              *)
Crash ==
    /\ crashes < MaxCrashes
    /\ \E k \in durable..Len(file) :
          /\ file' = SubSeq(file, 1, k)
          /\ durable' = k
    /\ isOpen' = FALSE
    /\ snapshots' = <<>>
    /\ pending' = NoSnapshot
    /\ lastOpen' = "none"
    /\ crashes' = crashes + 1
    /\ UNCHANGED attempts

Next ==
    \/ Open
    \/ Close
    \/ \E s \in Snapshots : SaveSnapshotWrite(s)
    \/ SaveSnapshotSync
    \/ Crash

Spec == Init /\ [][Next]_vars

-----------------------------------------------------------------------------
(* Every variable holds a value of its type.                              *)
TypeOK ==
    /\ file \in Seq(0..255)
    /\ durable \in 0..Len(file)
    /\ isOpen \in BOOLEAN
    /\ snapshots \in Seq(Snapshots)
    /\ pending \in Snapshots \cup {NoSnapshot}
    /\ lastOpen \in {"ok", "err", "panic", "none"}
    /\ attempts \in Seq([snap : Snapshots, acked : BOOLEAN])
    /\ Len(attempts) <= MaxSaves
    /\ crashes \in 0..MaxCrashes

(* What TestSnapshotStore asserts across Close and Open, and spec §7's    *)
(* durability contract, through crashes: once Open has returned nil, the  *)
(* store lists, in the order they were saved, every snapshot whose        *)
(* SaveSnapshot returned nil and otherwise only snapshots whose save a    *)
(* crash interrupted after their frame was written.  A torn frame must    *)
(* neither hide a saved snapshot nor surface as something never saved.   *)
SavedRecovered ==
    isOpen /\ lastOpen = "ok" =>
        \E D \in SUBSET DOMAIN attempts :
            /\ \A k \in DOMAIN attempts : attempts[k].acked => k \in D
            /\ LET idx == SelectSeq([k \in 1..Len(attempts) |-> k], LAMBDA k : k \in D)
               IN ListSnapshots = [j \in DOMAIN idx |-> attempts[idx[j]].snap]

(* Open refuses the file only when the save that wrote its tail was cut  *)
(* short by a crash.  Spec §7 makes store errors fatal, so a file that   *)
(* Open refuses although its last SaveSnapshot returned nil keeps the    *)
(* node down with every acknowledged snapshot unreadable.                *)
OpenFailsOnlyOnTornTail ==
    lastOpen \in {"err", "panic"} =>
        attempts /= <<>> /\ ~attempts[Len(attempts)].acked

=============================================================================
