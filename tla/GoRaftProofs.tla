---------------------------- MODULE GoRaftProofs ----------------------------
(***************************************************************************)
(* Proofs about GoRaft for every value of the constants.                  *)
(*                                                                         *)
(* The model takes greatest and least elements of sets of indexes in three *)
(* places: the commit loop commits the highest index a quorum matched      *)
(* (Max), the AppendEntries handler walks back to the first index of a     *)
(* conflicting term (Min) and starts appending at the first new entry      *)
(* (Min).  The first lemmas say that these are elements of the set that   *)
(* bound it, which is what makes every index the model computes a natural  *)
(* number and every log access fall inside the log.                        *)
(***************************************************************************)
EXTENDS GoRaft, TLAPS, SequenceTheorems, WellFoundedInduction

(* A non-empty set of naturals has a least element, and Min names it.     *)
LEMMA MinNat ==
    ASSUME NEW S \in SUBSET Nat, S # {}
    PROVE  Min(S) \in S /\ \A y \in S : Min(S) <= y
<1>1. PICK x \in S : \A y \in S : ~(<<y, x>> \in OpToRel(<, Nat))
    BY NatLessThanWellFounded, WFMin
<1>2. \A y \in S : x <= y
    <2>. TAKE y \in S
    <2>1. ~(<<y, x>> \in OpToRel(<, Nat))
        BY <1>1
    <2>2. ~(y < x)
        BY <2>1 DEF OpToRel
    <2>. QED
        BY <2>2
<1>. QED
    BY <1>2 DEF Min

(* A non-empty set of naturals bounded by b has a greatest element, and    *)
(* Max names it.                                                          *)
LEMMA MaxNat ==
    ASSUME NEW S \in SUBSET Nat, NEW b \in Nat, S # {}, \A x \in S : x <= b
    PROVE  Max(S) \in S /\ \A y \in S : y <= Max(S)
<1>. DEFINE T == {b - x : x \in S}
<1>1. T \in SUBSET Nat /\ T # {}
    <2>1. \A x \in S : b - x \in Nat
        OBVIOUS
    <2>2. T # {}
        OBVIOUS
    <2>. QED
        BY <2>1, <2>2
<1>2. PICK t \in T : \A y \in T : t <= y
    BY <1>1, MinNat
<1>3. PICK x \in S : t = b - x
    BY <1>2
<1>4. \A y \in S : y <= x
    BY <1>2, <1>3
<1>. QED
    BY <1>3, <1>4 DEF Max

(* The greatest and the least of two integers.                            *)
LEMMA MaxPair ==
    ASSUME NEW a \in Int, NEW b \in Int
    PROVE  Max({a, b}) = IF a >= b THEN a ELSE b
BY DEF Max

LEMMA MinPair ==
    ASSUME NEW a \in Int, NEW b \in Int
    PROVE  Min({a, b}) = IF a <= b THEN a ELSE b
BY DEF Min

-----------------------------------------------------------------------------
(* TypeOK is not inductive by itself: the apply loop and the sender read   *)
(* log[k - logBase.index], which is an entry only when k lies past the log  *)
(* base.  No code path of this revision moves the base (no snapshot is     *)
(* taken), and lastApplied only grows, so the base stays at                *)
(* lastIncludedIndex and never passes lastApplied.                         *)
BaseInv ==
    \A i \in Server : /\ logBase[i].index = lastIncludedIndex[i]
                      /\ lastIncludedIndex[i] <= lastApplied[i]

IInv == TypeOK /\ BaseInv

(* GetEntry(k) past the log base returns an entry of the log.             *)
LEMMA EntryAtType ==
    ASSUME TypeOK, BaseInv, NEW i \in Server, NEW k \in Nat,
           lastIncludedIndex[i] < k, k <= LastIndex(i)
    PROVE  EntryAt(i, k) \in Entry
<1>1. k - logBase[i].index \in 1..Len(log[i])
    BY DEF TypeOK, BaseInv, LastIndex
<1>. QED
    BY <1>1 DEF TypeOK, EntryAt

(* The term at an index of the log, the base included, is a natural.      *)
LEMMA TermAtType ==
    ASSUME TypeOK, BaseInv, NEW i \in Server, NEW k \in Nat,
           lastIncludedIndex[i] <= k, k <= LastIndex(i)
    PROVE  TermAt(i, k) \in Nat
<1>1. CASE k = logBase[i].index
    BY <1>1 DEF TypeOK, TermAt
<1>2. CASE k # logBase[i].index
    <2>1. lastIncludedIndex[i] < k
        BY <1>2 DEF BaseInv, TypeOK
    <2>2. EntryAt(i, k) \in Entry
        BY <2>1, EntryAtType
    <2>. QED
        BY <1>2, <2>2 DEF TermAt, Entry
<1>. QED
    BY <1>1, <1>2

(* The last index and the last term of a log are naturals.                *)
LEMMA LastType ==
    ASSUME TypeOK, NEW i \in Server
    PROVE  LastIndex(i) \in Nat /\ LastTerm(i) \in Nat
<1>1. LastIndex(i) \in Nat
    BY DEF TypeOK, LastIndex
<1>2. log[i] # <<>> => log[i][Len(log[i])] \in Entry
    BY DEF TypeOK
<1>. QED
    BY <1>1, <1>2 DEF TypeOK, LastTerm, Entry

(* The initial state satisfies the inductive invariant.                   *)
LEMMA InitIInv == Init => IInv
BY DEF Init, IInv, TypeOK, BaseInv, Terms

-----------------------------------------------------------------------------
(* One lemma per action: the action preserves IInv.  The tuples of       *)
(* variables an action leaves unchanged are expanded throughout.          *)
USE DEF serverVars, logVars, progressVars, leaderVars, electionVars

(* election: the term grows below MaxTerm, so the counters of the new    *)
(* vote goroutines are terms the vote table has.                         *)
LEMMA ElectionIInv ==
    ASSUME IInv, NEW i \in Server, Election(i)
    PROVE  IInv'
<1>1. currentTerm[i] + 1 \in Terms
    BY BoundsAssumption DEF Election, IInv, TypeOK, Terms
<1>2. voteTasks' \subseteq [node : Server, peer : Server, ctr : Terms]
    BY <1>1 DEF Election, IInv, TypeOK
<1>3. currentTerm' \in [Server -> Nat] /\ votedFor' \in [Server -> Server \cup {Nil}]
    BY DEF Election, IInv, TypeOK
<1>4. TypeOK'
    BY <1>2, <1>3 DEF Election, IInv, TypeOK
<1>. QED
    BY <1>4 DEF Election, IInv, BaseInv

(* becomeLeader keeps the peer tables natural and appends a NoOp entry.   *)
LEMMA BecomeLeaderType ==
    ASSUME TypeOK, NEW i \in Server, BecomeLeader(i)
    PROVE  /\ state' \in [Server -> {Leader, Follower}]
           /\ nextIndex' \in [Server -> [Server -> Nat]]
           /\ matchIndex' \in [Server -> [Server -> Nat]]
           /\ log' \in [Server -> Seq(Entry)]
<1>1. LastIndex(i) \in Nat
    BY LastType
<1>2. [term |-> currentTerm[i], type |-> NoOpEntry, val |-> Nil] \in Entry
    BY DEF TypeOK, Entry
<1>. QED
    BY <1>1, <1>2 DEF BecomeLeader, TypeOK

(* sendRequestVote for the node itself: the counter stays a natural, and  *)
(* a quorum makes the node leader.                                        *)
LEMMA SelfVoteIInv ==
    ASSUME IInv, NEW t \in voteTasks, SelfVote(t)
    PROVE  IInv'
<1>1. t.node \in Server /\ t.ctr \in Terms
    BY DEF IInv, TypeOK
<1>2. votes' \in [Server -> [Terms -> Nat]]
    BY <1>1 DEF SelfVote, IInv, TypeOK
<1>3. CASE HasQuorum(votes[t.node][t.ctr] + 1)
    <2>1. BecomeLeader(t.node) /\ UNCHANGED <<currentTerm, votedFor>>
        BY <1>3 DEF SelfVote
    <2>2. TypeOK'
        BY <1>1, <1>2, <2>1, BecomeLeaderType DEF SelfVote, IInv, TypeOK
    <2>. QED
        BY <2>1, <2>2 DEF SelfVote, IInv, BaseInv
<1>4. CASE ~HasQuorum(votes[t.node][t.ctr] + 1)
    <2>1. UNCHANGED <<serverVars, log, leaderVars>>
        BY <1>4 DEF SelfVote
    <2>. QED
        BY <1>2, <2>1 DEF SelfVote, IInv, TypeOK, BaseInv, serverVars, leaderVars
<1>. QED
    BY <1>3, <1>4

(* sendRequestVote for a peer: the request is built from a natural term   *)
(* and the node's last index and term.                                    *)
LEMMA SendRequestVoteIInv ==
    ASSUME IInv, NEW t \in voteTasks, SendRequestVote(t)
    PROVE  IInv'
<1>1. t.node \in Server /\ t.peer \in Server /\ t.ctr \in Terms
    BY DEF IInv, TypeOK
<1>2. LastIndex(t.node) \in Nat /\ LastTerm(t.node) \in Nat
    BY <1>1, LastType DEF IInv
<1>3. [type |-> "RVReq", from |-> t.node, to |-> t.peer,
       term |-> currentTerm[t.node], lastLogIndex |-> LastIndex(t.node),
       lastLogTerm |-> LastTerm(t.node), ctr |-> t.ctr] \in Message
    BY <1>1, <1>2 DEF IInv, TypeOK, Message, RVReq
<1>. QED
    BY <1>3 DEF SendRequestVote, Send, IInv, TypeOK, BaseInv, serverVars,
                logVars, progressVars, leaderVars

(* A lost message changes nothing else.                                   *)
LEMMA DropMessageIInv ==
    ASSUME IInv, NEW m \in msgs, DropMessage(m)
    PROVE  IInv'
BY DEF DropMessage, IInv, TypeOK, BaseInv, serverVars, logVars, progressVars,
       leaderVars, electionVars

(* submitReplicatedOperation appends an operation entry of the leader's   *)
(* term.                                                                  *)
LEMMA SubmitOperationIInv ==
    ASSUME IInv, NEW i \in Server, NEW v \in Values, SubmitOperation(i, v)
    PROVE  IInv'
<1>1. [term |-> currentTerm[i], type |-> OperationEntry, val |-> v] \in Entry
    BY DEF IInv, TypeOK, Entry
<1>2. log' \in [Server -> Seq(Entry)]
    BY <1>1 DEF SubmitOperation, IInv, TypeOK
<1>. QED
    BY <1>2 DEF SubmitOperation, IInv, TypeOK, BaseInv

(* A message whose type field names a kind is a record of that kind.     *)
LEMMA MessageKinds ==
    ASSUME NEW m \in Message
    PROVE  /\ m.type = "RVReq" => m \in RVReq
           /\ m.type = "RVResp" => m \in RVResp
           /\ m.type = "AEReq" => m \in AEReq
           /\ m.type = "AEResp" => m \in AEResp
BY DEF Message, RVReq, RVResp, AEReq, AEResp

(* RequestVote: the vote goes to the candidate or stays, and the answer   *)
(* carries the request's counter back.                                    *)
LEMMA HandleRequestVoteIInv ==
    ASSUME IInv, NEW m \in msgs, HandleRequestVote(m)
    PROVE  IInv'
<1>. DEFINE j == m.to
            stepDown == IsNewerTerm(m.term, j)
            term == IF stepDown THEN m.term ELSE currentTerm[j]
            voted == IF stepDown THEN Nil ELSE votedFor[j]
<1>1. m \in RVReq
    BY MessageKinds DEF HandleRequestVote, IInv, TypeOK
<1>2. j \in Server /\ term \in Nat /\ voted \in Server \cup {Nil}
    BY <1>1 DEF RVReq, IInv, TypeOK
<1>3. PICK grant \in BOOLEAN :
        /\ state' = [state EXCEPT ![j] = IF stepDown THEN Follower ELSE @]
        /\ currentTerm' = [currentTerm EXCEPT ![j] = term]
        /\ votedFor' = [votedFor EXCEPT ![j] = IF grant THEN m.from ELSE voted]
        /\ Reply([type |-> "RVResp", from |-> j, to |-> m.from, term |-> term,
                  granted |-> grant, reqTerm |-> m.term, ctr |-> m.ctr], m)
    BY DEF HandleRequestVote
<1>4. [type |-> "RVResp", from |-> j, to |-> m.from, term |-> term,
       granted |-> grant, reqTerm |-> m.term, ctr |-> m.ctr] \in Message
    BY <1>1, <1>2 DEF RVReq, RVResp, Message
<1>5. /\ state' \in [Server -> {Leader, Follower}]
      /\ currentTerm' \in [Server -> Nat]
      /\ votedFor' \in [Server -> Server \cup {Nil}]
      /\ msgs' \subseteq Message
    BY <1>1, <1>2, <1>3, <1>4 DEF RVReq, Reply, IInv, TypeOK
<1>. QED
    BY <1>5 DEF HandleRequestVote, IInv, TypeOK, BaseInv

(* The vote goroutine's answer: the counter of the request's election     *)
(* grows by one at most, and the node may step down or lead.             *)
LEMMA HandleRequestVoteResponseIInv ==
    ASSUME IInv, NEW m \in msgs, HandleRequestVoteResponse(m)
    PROVE  IInv'
<1>. DEFINE i == m.to
            n == IF m.granted THEN votes[i][m.ctr] + 1 ELSE votes[i][m.ctr]
<1>1. m \in RVResp
    BY MessageKinds DEF HandleRequestVoteResponse, IInv, TypeOK
<1>2. i \in Server /\ m.ctr \in Terms /\ m.term \in Nat /\ m.granted \in BOOLEAN
    BY <1>1 DEF RVResp
<1>6. votes[i][m.ctr] \in Nat
    BY <1>2 DEF IInv, TypeOK
<1>7. n \in Nat
    BY <1>2, <1>6
<1>3. msgs' \subseteq Message
    BY DEF HandleRequestVoteResponse, IInv, TypeOK
<1>4. CASE currentTerm[i] # m.reqTerm
    BY <1>3, <1>4 DEF HandleRequestVoteResponse, IInv, TypeOK, BaseInv
<1>5. CASE currentTerm[i] = m.reqTerm
    <2>1. votes' \in [Server -> [Terms -> Nat]]
        <3>1. votes' = [votes EXCEPT ![i][m.ctr] = n]
            BY <1>5 DEF HandleRequestVoteResponse
        <3>. QED
            BY <1>2, <1>7, <3>1 DEF IInv, TypeOK
    <2>2. CASE m.term > currentTerm[i]
        <3>1. StepDown(i, m.term) /\ UNCHANGED <<log, leaderVars>>
            BY <1>5, <2>2 DEF HandleRequestVoteResponse
        <3>. QED
            BY <1>2, <1>3, <1>7, <2>1, <3>1 DEF StepDown, HandleRequestVoteResponse,
                                      IInv, TypeOK, BaseInv
    <2>3. CASE ~(m.term > currentTerm[i]) /\ HasQuorum(n) /\ state[i] = Follower
        <3>1. BecomeLeader(i) /\ UNCHANGED <<currentTerm, votedFor>>
            BY <1>5, <2>3 DEF HandleRequestVoteResponse
        <3>. QED
            BY <1>2, <1>3, <1>7, <2>1, <3>1, BecomeLeaderType
               DEF HandleRequestVoteResponse, IInv, TypeOK, BaseInv
    <2>4. CASE ~(m.term > currentTerm[i]) /\ ~(HasQuorum(n) /\ state[i] = Follower)
        <3>1. UNCHANGED <<state, currentTerm, votedFor, log, nextIndex, matchIndex>>
            BY <1>5, <2>4 DEF HandleRequestVoteResponse
        <3>. QED
            BY <1>3, <2>1, <3>1 DEF HandleRequestVoteResponse, IInv, TypeOK, BaseInv
    <2>. QED
        BY <2>2, <2>3, <2>4
<1>. QED
    BY <1>4, <1>5

(* sendAppendEntries: prevLogIndex is clamped to the snapshot boundary,   *)
(* its term is read inside the log, and the entries are a suffix of it.   *)
LEMMA SendAppendEntriesIInv ==
    ASSUME IInv, NEW i \in Server, NEW j \in Server, SendAppendEntries(i, j)
    PROVE  IInv'
<1>. DEFINE ni == nextIndex[i][j]
            lii == lastIncludedIndex[i]
            prev == Max({ni - 1, lii})
            prevTerm == IF prev > lii /\ prev < NextLogIndex(i)
                          THEN TermAt(i, prev) ELSE lastIncludedTerm[i]
            entries == IF ni <= lii THEN <<>>
                       ELSE SubSeq(log[i], ni - logBase[i].index, Len(log[i]))
<1>1. ni \in Nat /\ lii \in Nat /\ LastIndex(i) \in Nat
    BY LastType DEF IInv, TypeOK
<1>2. prev \in Nat /\ prev >= lii
    BY <1>1, MaxPair
<1>3. prevTerm \in Nat
    <2>1. CASE prev > lii /\ prev < NextLogIndex(i)
        <3>1. prev <= LastIndex(i)
            BY <2>1, <1>1, <1>2 DEF NextLogIndex
        <3>2. TermAt(i, prev) \in Nat
            BY <1>2, <3>1, TermAtType DEF IInv
        <3>. QED
            BY <2>1, <3>2
    <2>2. CASE ~(prev > lii /\ prev < NextLogIndex(i))
        BY <2>2 DEF IInv, TypeOK
    <2>. QED
        BY <2>1, <2>2
<1>4. entries \in Seq(Entry)
    <2>1. CASE ni <= lii
        BY <2>1
    <2>2. CASE ~(ni <= lii)
        <3>0. logBase[i].index = lii /\ log[i] \in Seq(Entry)
            BY DEF IInv, BaseInv, TypeOK
        <3>1. ni - logBase[i].index \in Nat \ {0}
            BY <1>1, <2>2, <3>0
        <3>2. \A k \in (ni - logBase[i].index)..Len(log[i]) : log[i][k] \in Entry
            BY <3>0, <3>1
        <3>3. SubSeq(log[i], ni - logBase[i].index, Len(log[i])) \in Seq(Entry)
            BY <3>0, <3>1, <3>2, SubSeqProperties
        <3>. QED
            BY <2>2, <3>3
    <2>. QED
        BY <2>1, <2>2
<1>5. [type |-> "AEReq", from |-> i, to |-> j, term |-> currentTerm[i],
       prevLogIndex |-> prev, prevLogTerm |-> prevTerm,
       entries |-> entries, leaderCommit |-> commitIndex[i]] \in Message
    BY <1>2, <1>3, <1>4 DEF IInv, TypeOK, Message, AEReq
<1>6. msgs' \subseteq Message
    BY <1>5 DEF SendAppendEntries, Send, IInv, TypeOK
<1>. QED
    BY <1>6 DEF SendAppendEntries, IInv, TypeOK, BaseInv

(* The hint of an AppendEntries rejection is a natural in every branch:   *)
(* the walk back over the conflicting term stops inside the log, because *)
(* prevLogIndex itself shares its own term.                               *)
LEMMA ConflictIndexType ==
    ASSUME TypeOK, NEW j \in Server, NEW m, m.prevLogIndex \in Nat
    PROVE  ConflictIndex(j, m) \in Nat
<1>. DEFINE prev == m.prevLogIndex
            lii == lastIncludedIndex[j]
            S == {k \in lii + 1..prev :
                    \A l \in k..prev : TermAt(j, l) = TermAt(j, prev)}
<1>0. LastIndex(j) \in Nat
    BY LastType
<1>1. lii \in Nat /\ NextLogIndex(j) \in Nat
    BY <1>0 DEF TypeOK, NextLogIndex
<1>2. CASE lii > prev
    BY <1>1, <1>2 DEF ConflictIndex
<1>3. CASE lii <= prev /\ NextLogIndex(j) <= prev
    BY <1>1, <1>3 DEF ConflictIndex
<1>4. CASE lii = prev /\ prev < NextLogIndex(j)
    BY <1>1, <1>4 DEF ConflictIndex
<1>5. CASE lii < prev /\ prev < NextLogIndex(j)
    <2>1. prev \in S
        BY <1>1, <1>5
    <2>2. S \in SUBSET Nat
        BY <1>1
    <2>3. Min(S) \in S
        BY <2>1, <2>2, MinNat
    <2>4. ConflictIndex(j, m) = Min(S)
        BY <1>1, <1>5 DEF ConflictIndex
    <2>. QED
        BY <2>2, <2>3, <2>4
<1>. QED
    BY <1>1, <1>2, <1>3, <1>4, <1>5

(* The merge of AppendEntries keeps the log a sequence of entries: the     *)
(* truncation point is the first new entry, which is at most one past the *)
(* follower's last index when prevLogIndex is inside the log.            *)
LEMMA MergedLogType ==
    ASSUME TypeOK, NEW j \in Server, NEW m,
           m.prevLogIndex \in Nat, m.entries \in Seq(Entry),
           m.prevLogIndex <= LastIndex(j)
    PROVE  MergedLog(j, m) \in Seq(Entry)
<1>. DEFINE prev == m.prevLogIndex
            base == logBase[j].index
            new == {k \in 1..Len(m.entries) :
                      \/ prev + k > LastIndex(j)
                      \/ TermAt(j, prev + k) # m.entries[k].term}
            k0 == Min(new)
            n1 == prev + k0 - 1 - base
<1>1. log[j] \in Seq(Entry) /\ base \in Nat /\ LastIndex(j) = base + Len(log[j])
    BY DEF TypeOK, LastIndex
<1>2. CASE new = {}
    BY <1>1, <1>2 DEF MergedLog
<1>3. CASE new # {}
    <2>0. new \in SUBSET Nat
        OBVIOUS
    <2>1. k0 \in new /\ \A y \in new : k0 <= y
        BY <1>3, <2>0, MinNat
    <2>2. n1 <= Len(log[j])
        <3>1. CASE k0 = 1
            BY <1>1, <3>1
        <3>2. CASE k0 # 1
            <4>0. k0 \in 1..Len(m.entries)
                BY <2>1
            <4>1. k0 - 1 \in 1..Len(m.entries)
                BY <3>2, <4>0
            <4>2. k0 - 1 \notin new
                <5>1. SUFFICES ASSUME k0 - 1 \in new PROVE FALSE
                    OBVIOUS
                <5>2. k0 <= k0 - 1
                    BY <5>1, <2>1
                <5>. QED
                    BY <5>2, <4>0
            <4>3. ~(prev + (k0 - 1) > LastIndex(j))
                BY <4>1, <4>2
            <4>. QED
                BY <1>1, <4>0, <4>3
        <3>. QED
            BY <3>1, <3>2
    <2>3. SubSeq(log[j], 1, n1) \in Seq(Entry)
        <3>1. \A k \in 1..n1 : log[j][k] \in Entry
            BY <1>1, <2>1, <2>2
        <3>. QED
            BY <1>1, <2>1, <3>1, SubSeqProperties
    <2>4. SubSeq(m.entries, k0, Len(m.entries)) \in Seq(Entry)
        <3>1. \A k \in k0..Len(m.entries) : m.entries[k] \in Entry
            BY <2>1
        <3>. QED
            BY <2>1, <3>1, SubSeqProperties
    <2>5. MergedLog(j, m) = SubSeq(log[j], 1, n1) \o SubSeq(m.entries, k0, Len(m.entries))
        BY <1>3 DEF MergedLog
    <2>. QED
        BY <2>3, <2>4, <2>5, ConcatProperties
<1>. QED
    BY <1>2, <1>3

(* AppendEntries: a stale request is refused with hint 0; otherwise the   *)
(* node steps down if needed and either refuses with the conflict hint or *)
(* merges the entries and raises its commit index to at most its new last *)
(* index.                                                                 *)
LEMMA HandleAppendEntriesIInv ==
    ASSUME IInv, NEW m \in msgs, HandleAppendEntries(m)
    PROVE  IInv'
<1>. DEFINE j == m.to
            resp(term, ok, idx) ==
               [type |-> "AEResp", from |-> j, to |-> m.from, term |-> term,
                success |-> ok, index |-> idx, prevLogIndex |-> m.prevLogIndex,
                nEntries |-> Len(m.entries)]
            newLog == MergedLog(j, m)
            newLast == logBase[j].index + Len(newLog)
<1>1. m \in AEReq
    BY MessageKinds DEF HandleAppendEntries, IInv, TypeOK
<1>2. /\ j \in Server /\ m.from \in Server /\ m.term \in Nat
      /\ m.prevLogIndex \in Nat /\ m.leaderCommit \in Nat /\ m.entries \in Seq(Entry)
    BY <1>1 DEF AEReq
<1>3. \A t \in Nat, ok \in BOOLEAN, idx \in Nat : resp(t, ok, idx) \in Message
    BY <1>2 DEF Message, AEResp
<1>4. UNCHANGED <<logBase, lastIncludedIndex, lastIncludedTerm, lastApplied,
                 applied, nextIndex, matchIndex, votes, voteTasks>>
    BY DEF HandleAppendEntries
<1>5. CASE m.term < currentTerm[j]
    <2>1. /\ Reply(resp(currentTerm[j], FALSE, 0), m)
          /\ UNCHANGED <<state, currentTerm, votedFor, log, commitIndex>>
        BY <1>5 DEF HandleAppendEntries
    <2>2. resp(currentTerm[j], FALSE, 0) \in Message
        BY <1>2, <1>3 DEF IInv, TypeOK
    <2>3. msgs' \subseteq Message
        BY <2>1, <2>2 DEF Reply, IInv, TypeOK
    <2>. QED
        BY <1>4, <2>1, <2>3 DEF IInv, TypeOK, BaseInv
<1>6. CASE ~(m.term < currentTerm[j])
    <2>1. /\ state' \in [Server -> {Leader, Follower}]
          /\ currentTerm' \in [Server -> Nat]
          /\ votedFor' \in [Server -> Server \cup {Nil}]
        <3>1. CASE m.term > currentTerm[j]
            BY <1>2, <1>6, <3>1 DEF HandleAppendEntries, StepDown, IInv, TypeOK
        <3>2. CASE ~(m.term > currentTerm[j])
            BY <1>6, <3>2 DEF HandleAppendEntries, IInv, TypeOK
        <3>. QED
            BY <3>1, <3>2
    <2>2. CASE RejectsPrev(j, m)
        <3>1. /\ Reply(resp(m.term, FALSE, ConflictIndex(j, m)), m)
              /\ UNCHANGED <<log, commitIndex>>
            BY <1>6, <2>2 DEF HandleAppendEntries
        <3>2. ConflictIndex(j, m) \in Nat
            BY <1>2, ConflictIndexType DEF IInv
        <3>3. msgs' \subseteq Message
            BY <1>2, <1>3, <3>1, <3>2 DEF Reply, IInv, TypeOK
        <3>. QED
            BY <1>4, <2>1, <3>1, <3>3 DEF IInv, TypeOK, BaseInv
    <2>3. CASE ~RejectsPrev(j, m)
        <3>1. /\ log' = [log EXCEPT ![j] = newLog]
              /\ commitIndex' = IF m.leaderCommit > commitIndex[j]
                                  THEN [commitIndex EXCEPT ![j] =
                                          Min({m.leaderCommit, newLast})]
                                  ELSE commitIndex
              /\ Reply(resp(m.term, TRUE, 0), m)
            BY <1>6, <2>3 DEF HandleAppendEntries
        <3>2. m.prevLogIndex <= LastIndex(j)
            <4>1. LastIndex(j) \in Nat
                BY <1>2, LastType DEF IInv
            <4>. QED
                BY <1>2, <2>3, <4>1 DEF RejectsPrev, NextLogIndex
        <3>3. newLog \in Seq(Entry)
            BY <1>2, <3>2, MergedLogType DEF IInv
        <3>4. newLast \in Nat
            <4>1. logBase[j].index \in Nat
                BY <1>2 DEF IInv, TypeOK
            <4>2. Len(newLog) \in Nat
                BY <3>3, LenProperties
            <4>. QED
                BY <4>1, <4>2
        <3>5. Min({m.leaderCommit, newLast}) \in Nat
            BY <1>2, <3>4, MinPair
        <3>6. /\ log' \in [Server -> Seq(Entry)]
              /\ commitIndex' \in [Server -> Nat]
              /\ msgs' \subseteq Message
            BY <1>2, <1>3, <3>1, <3>3, <3>5 DEF Reply, IInv, TypeOK
        <3>. QED
            BY <1>4, <2>1, <3>6 DEF IInv, TypeOK, BaseInv
    <2>. QED
        BY <2>2, <2>3
<1>. QED
    BY <1>5, <1>6

(* sendAppendEntries after the call: nextIndex moves to the hint or past  *)
(* the match, matchIndex to the match, both naturals.                     *)
LEMMA HandleAppendEntriesResponseIInv ==
    ASSUME IInv, NEW m \in msgs, HandleAppendEntriesResponse(m)
    PROVE  IInv'
<1>. DEFINE i == m.to
            j == m.from
            match == MatchOf(m)
<1>1. m \in AEResp
    BY MessageKinds DEF HandleAppendEntriesResponse, IInv, TypeOK
<1>2. /\ i \in Server /\ j \in Server /\ m.term \in Nat /\ m.index \in Nat
      /\ match \in Nat
    BY <1>1 DEF AEResp, MatchOf
<1>6. nextIndex[i][j] \in Nat
    BY <1>2 DEF IInv, TypeOK
<1>3. Max({nextIndex[i][j], match + 1}) \in Nat
    BY <1>2, <1>6, MaxPair
<1>4. /\ state' \in [Server -> {Leader, Follower}]
      /\ currentTerm' \in [Server -> Nat]
      /\ votedFor' \in [Server -> Server \cup {Nil}]
    BY <1>2 DEF HandleAppendEntriesResponse, StepDown, IInv, TypeOK
<1>5. /\ nextIndex' \in [Server -> [Server -> Nat]]
      /\ matchIndex' \in [Server -> [Server -> Nat]]
    <2>1. CASE state[i] = Leader /\ ~(m.term > currentTerm[i]) /\ ~m.success
                  /\ ~(m.index <= lastIncludedIndex[i])
        <3>1. nextIndex' = [nextIndex EXCEPT ![i][j] = m.index]
              /\ UNCHANGED matchIndex
            BY <2>1 DEF HandleAppendEntriesResponse
        <3>. QED
            BY <1>2, <3>1 DEF IInv, TypeOK
    <2>2. CASE state[i] = Leader /\ ~(m.term > currentTerm[i]) /\ m.success
                  /\ match > matchIndex[i][j]
        <3>1. /\ nextIndex' = [nextIndex EXCEPT ![i][j] = Max({@, match + 1})]
              /\ matchIndex' = [matchIndex EXCEPT ![i][j] = match]
            BY <2>2 DEF HandleAppendEntriesResponse
        <3>. QED
            BY <1>2, <1>3, <3>1 DEF IInv, TypeOK
    <2>3. CASE ~(state[i] = Leader /\ ~(m.term > currentTerm[i]) /\ ~m.success
                  /\ ~(m.index <= lastIncludedIndex[i]))
               /\ ~(state[i] = Leader /\ ~(m.term > currentTerm[i]) /\ m.success
                  /\ match > matchIndex[i][j])
        <3>1. UNCHANGED <<nextIndex, matchIndex>>
            BY <2>3 DEF HandleAppendEntriesResponse
        <3>. QED
            BY <3>1 DEF IInv, TypeOK
    <2>. QED
        BY <2>1, <2>2, <2>3
<1>. QED
    BY <1>4, <1>5 DEF HandleAppendEntriesResponse, IInv, TypeOK, BaseInv

(* commitLoop: the new commit index is the greatest of a non-empty set of *)
(* indexes bounded by the leader's last index.                            *)
LEMMA AdvanceCommitIndexIInv ==
    ASSUME IInv, NEW i \in Server, AdvanceCommitIndex(i)
    PROVE  IInv'
<1>1. LastIndex(i) \in Nat /\ commitIndex[i] \in Nat
    BY LastType DEF IInv, TypeOK
<1>2. /\ CommitIndexes(i) \in SUBSET Nat
      /\ \A k \in CommitIndexes(i) : k <= LastIndex(i)
    BY <1>1 DEF CommitIndexes
<1>3. Max(CommitIndexes(i)) \in CommitIndexes(i)
    BY <1>1, <1>2, MaxNat DEF AdvanceCommitIndex
<1>4. commitIndex' \in [Server -> Nat]
    BY <1>2, <1>3 DEF AdvanceCommitIndex, IInv, TypeOK
<1>. QED
    BY <1>4 DEF AdvanceCommitIndex, IInv, TypeOK, BaseInv

(* applyLoop: the entry after lastApplied lies past the log base, so it   *)
(* is an entry; an operation hands its value to the state machine.       *)
LEMMA ApplyEntryIInv ==
    ASSUME IInv, NEW i \in Server, ApplyEntry(i)
    PROVE  IInv'
<1>. DEFINE k == lastApplied[i] + 1
            e == EntryAt(i, k)
<1>1. k \in Nat /\ lastIncludedIndex[i] < k /\ k <= LastIndex(i)
    BY DEF ApplyEntry, IInv, TypeOK, BaseInv
<1>2. e \in Entry
    BY <1>1, EntryAtType DEF IInv
<1>3. e.type = OperationEntry => [index |-> k, term |-> e.term, val |-> e.val] \in AppliedOp
    BY <1>1, <1>2 DEF Entry, AppliedOp, OperationEntry, NoOpEntry
<1>4. applied' \in [Server -> Seq(AppliedOp)]
    BY <1>3 DEF ApplyEntry, IInv, TypeOK
<1>5. lastApplied' = [lastApplied EXCEPT ![i] = k]
    BY DEF ApplyEntry
<1>6. TypeOK'
    BY <1>1, <1>4, <1>5 DEF ApplyEntry, IInv, TypeOK
<1>7. BaseInv'
    BY <1>1, <1>5 DEF ApplyEntry, IInv, TypeOK, BaseInv
<1>. QED
    BY <1>6, <1>7 DEF IInv

(* Every step of the cluster, and a stutter, preserves IInv.              *)
LEMMA NextIInv == IInv /\ [Next]_vars => IInv'
<1>. SUFFICES ASSUME IInv, [Next]_vars PROVE IInv'
    OBVIOUS
<1>1. CASE \E i \in Server : Election(i)
    BY <1>1, ElectionIInv
<1>2. CASE \E t \in voteTasks : SelfVote(t)
    BY <1>2, SelfVoteIInv
<1>3. CASE \E t \in voteTasks : SendRequestVote(t)
    BY <1>3, SendRequestVoteIInv
<1>4. CASE \E m \in msgs : HandleRequestVote(m)
    BY <1>4, HandleRequestVoteIInv
<1>5. CASE \E m \in msgs : HandleRequestVoteResponse(m)
    BY <1>5, HandleRequestVoteResponseIInv
<1>6. CASE \E i, j \in Server : SendAppendEntries(i, j)
    BY <1>6, SendAppendEntriesIInv
<1>7. CASE \E m \in msgs : HandleAppendEntries(m)
    BY <1>7, HandleAppendEntriesIInv
<1>8. CASE \E m \in msgs : HandleAppendEntriesResponse(m)
    BY <1>8, HandleAppendEntriesResponseIInv
<1>9. CASE \E i \in Server : AdvanceCommitIndex(i)
    BY <1>9, AdvanceCommitIndexIInv
<1>10. CASE \E i \in Server : ApplyEntry(i)
    BY <1>10, ApplyEntryIInv
<1>11. CASE \E i \in Server, v \in Values : SubmitOperation(i, v)
    BY <1>11, SubmitOperationIInv
<1>12. CASE \E m \in msgs : DropMessage(m)
    BY <1>12, DropMessageIInv
<1>13. CASE UNCHANGED vars
    BY <1>13 DEF vars, IInv, TypeOK, BaseInv
<1>. QED
    BY <1>1, <1>2, <1>3, <1>4, <1>5, <1>6, <1>7, <1>8, <1>9, <1>10, <1>11,
       <1>12, <1>13 DEF Next

(* Type correctness of every variable of the cluster, for any number of  *)
(* servers and any bounds: every index, term and hint the handlers,       *)
(* loops and messages compute is a natural (so none of raft.go's uint64  *)
(* subtractions that TypeOK covers wraps), every log access lands on an   *)
(* entry, and only operations reach the state machine.                    *)
THEOREM TypeCorrect == Spec => []TypeOK
<1>1. Init => IInv
    BY InitIInv
<1>2. IInv /\ [Next]_vars => IInv'
    BY NextIInv
<1>3. IInv => TypeOK
    BY DEF IInv
<1>. QED
    BY <1>1, <1>2, <1>3, PTL DEF Spec

-----------------------------------------------------------------------------
(* NextIndexPositive is inductive together with IInv: a node becomes      *)
(* leader only through becomeLeader, which sets every nextIndex to         *)
(* lastIndex + 1, and a leader moves a nextIndex only to a hint above its *)
(* snapshot boundary or past a match.                                     *)

(* A step that leaves nextIndex alone and makes no node a leader keeps    *)
(* NextIndexPositive.                                                     *)
LEMMA NoNewLeaderKeepsNextIndex ==
    ASSUME NextIndexPositive, UNCHANGED nextIndex,
           \A i \in Server : state'[i] = Leader => state[i] = Leader
    PROVE  NextIndexPositive'
BY DEF NextIndexPositive

(* becomeLeader sets every nextIndex of the new leader to lastIndex + 1.  *)
LEMMA BecomeLeaderNextIndex ==
    ASSUME TypeOK, NextIndexPositive, NEW i \in Server, BecomeLeader(i),
           \A k \in Server \ {i} : state'[k] = state[k]
    PROVE  NextIndexPositive'
<1>1. LastIndex(i) \in Nat
    BY LastType
<1>2. SUFFICES ASSUME NEW k \in Server, NEW j \in Server, state'[k] = Leader
               PROVE  nextIndex'[k][j] >= 1
    BY DEF NextIndexPositive
<1>3. CASE k = i
    BY <1>1, <1>3 DEF BecomeLeader, TypeOK
<1>4. CASE k # i
    <2>1. state[k] = Leader /\ nextIndex'[k] = nextIndex[k]
        BY <1>2, <1>4 DEF BecomeLeader, TypeOK
    <2>. QED
        BY <2>1 DEF NextIndexPositive
<1>. QED
    BY <1>3, <1>4

(* sendAppendEntries after the call: a rejection moves nextIndex to a    *)
(* hint above the snapshot boundary, a success past the match.            *)
LEMMA HandleAppendEntriesResponseNextIndex ==
    ASSUME IInv, NextIndexPositive, NEW m \in msgs, HandleAppendEntriesResponse(m)
    PROVE  NextIndexPositive'
<1>. DEFINE i == m.to
            j == m.from
            match == MatchOf(m)
<1>1. m \in AEResp
    BY MessageKinds DEF HandleAppendEntriesResponse, IInv, TypeOK
<1>0. /\ i \in Server /\ j \in Server /\ m.index \in Nat /\ match \in Nat
    BY <1>1 DEF AEResp, MatchOf
<1>2. /\ i \in Server /\ j \in Server /\ m.index \in Nat /\ match \in Nat
      /\ nextIndex[i][j] \in Nat /\ lastIncludedIndex[i] \in Nat
    BY <1>0 DEF IInv, TypeOK
<1>3. \A k \in Server : state'[k] = Leader => state[k] = Leader
    BY <1>2 DEF HandleAppendEntriesResponse, StepDown, IInv, TypeOK, Leader, Follower
<1>4. CASE state[i] = Leader /\ ~(m.term > currentTerm[i]) /\ ~m.success
              /\ ~(m.index <= lastIncludedIndex[i])
    <2>1. nextIndex' = [nextIndex EXCEPT ![i][j] = m.index]
        BY <1>4 DEF HandleAppendEntriesResponse
    <2>2. m.index >= 1
        BY <1>2, <1>4
    <2>3. SUFFICES ASSUME NEW k \in Server, NEW l \in Server, state'[k] = Leader
                   PROVE  nextIndex'[k][l] >= 1
        BY DEF NextIndexPositive
    <2>4. state[k] = Leader
        BY <1>3, <2>3
    <2>. QED
        BY <1>2, <2>1, <2>2, <2>4 DEF NextIndexPositive, IInv, TypeOK
<1>5. CASE state[i] = Leader /\ ~(m.term > currentTerm[i]) /\ m.success
              /\ match > matchIndex[i][j]
    <2>1. nextIndex' = [nextIndex EXCEPT ![i][j] = Max({@, match + 1})]
        BY <1>5 DEF HandleAppendEntriesResponse
    <2>2. Max({nextIndex[i][j], match + 1}) >= 1
        BY <1>2, MaxPair
    <2>. QED
        BY <1>2, <1>3, <2>1, <2>2 DEF NextIndexPositive, IInv, TypeOK
<1>6. CASE ~(state[i] = Leader /\ ~(m.term > currentTerm[i]) /\ ~m.success
              /\ ~(m.index <= lastIncludedIndex[i]))
           /\ ~(state[i] = Leader /\ ~(m.term > currentTerm[i]) /\ m.success
              /\ match > matchIndex[i][j])
    <2>1. UNCHANGED nextIndex
        BY <1>6 DEF HandleAppendEntriesResponse
    <2>. QED
        BY <1>3, <2>1, NoNewLeaderKeepsNextIndex
<1>. QED
    BY <1>4, <1>5, <1>6

LEMMA NextNextIndex == IInv /\ NextIndexPositive /\ [Next]_vars => NextIndexPositive'
<1>. SUFFICES ASSUME IInv, NextIndexPositive, [Next]_vars PROVE NextIndexPositive'
    OBVIOUS
<1>. USE DEF IInv
<1>1. CASE \E i \in Server : Election(i)
    BY <1>1, NoNewLeaderKeepsNextIndex DEF Election
<1>2. CASE \E t \in voteTasks : SelfVote(t)
    <2>1. PICK t \in voteTasks : SelfVote(t)
        BY <1>2
    <2>2. t.node \in Server
        BY DEF TypeOK
    <2>3. CASE HasQuorum(votes[t.node][t.ctr] + 1)
        <3>1. BecomeLeader(t.node)
            BY <2>1, <2>3 DEF SelfVote
        <3>2. \A k \in Server \ {t.node} : state'[k] = state[k]
            BY <3>1 DEF BecomeLeader, TypeOK
        <3>. QED
            BY <2>2, <3>1, <3>2, BecomeLeaderNextIndex
    <2>4. CASE ~HasQuorum(votes[t.node][t.ctr] + 1)
        BY <2>1, <2>4, NoNewLeaderKeepsNextIndex DEF SelfVote
    <2>. QED
        BY <2>3, <2>4
<1>3. CASE \E t \in voteTasks : SendRequestVote(t)
    BY <1>3, NoNewLeaderKeepsNextIndex DEF SendRequestVote
<1>4. CASE \E m \in msgs : HandleRequestVote(m)
    <2>1. PICK m \in msgs : HandleRequestVote(m)
        BY <1>4
    <2>2. \A i \in Server : state'[i] = Leader => state[i] = Leader
        BY <2>1 DEF HandleRequestVote, TypeOK, Leader, Follower
    <2>. QED
        BY <2>1, <2>2, NoNewLeaderKeepsNextIndex DEF HandleRequestVote
<1>5. CASE \E m \in msgs : HandleRequestVoteResponse(m)
    <2>1. PICK m \in msgs : HandleRequestVoteResponse(m)
        BY <1>5
    <2>. DEFINE i == m.to
                n == IF m.granted THEN votes[i][m.ctr] + 1 ELSE votes[i][m.ctr]
    <2>2. i \in Server
        <3>1. m \in Message /\ m.type = "RVResp"
            BY <2>1 DEF HandleRequestVoteResponse, TypeOK
        <3>2. m \in RVResp
            BY <3>1, MessageKinds
        <3>. QED
            BY <3>2 DEF RVResp
    <2>3. CASE currentTerm[i] = m.reqTerm /\ ~(m.term > currentTerm[i])
                  /\ HasQuorum(n) /\ state[i] = Follower
        <3>1. BecomeLeader(i)
            BY <2>1, <2>3 DEF HandleRequestVoteResponse
        <3>2. \A k \in Server \ {i} : state'[k] = state[k]
            BY <3>1 DEF BecomeLeader, TypeOK
        <3>. QED
            BY <2>2, <3>1, <3>2, BecomeLeaderNextIndex
    <2>4. CASE ~(currentTerm[i] = m.reqTerm /\ ~(m.term > currentTerm[i])
                  /\ HasQuorum(n) /\ state[i] = Follower)
        <3>1. UNCHANGED nextIndex
            BY <2>1, <2>4 DEF HandleRequestVoteResponse
        <3>2. \A k \in Server : state'[k] = Leader => state[k] = Leader
            BY <2>1, <2>2, <2>4 DEF HandleRequestVoteResponse, StepDown, TypeOK,
                                   Leader, Follower
        <3>. QED
            BY <3>1, <3>2, NoNewLeaderKeepsNextIndex
    <2>. QED
        BY <2>3, <2>4
<1>6. CASE \E i, j \in Server : SendAppendEntries(i, j)
    BY <1>6, NoNewLeaderKeepsNextIndex DEF SendAppendEntries
<1>7. CASE \E m \in msgs : HandleAppendEntries(m)
    <2>1. PICK m \in msgs : HandleAppendEntries(m)
        BY <1>7
    <2>2. \A i \in Server : state'[i] = Leader => state[i] = Leader
        BY <2>1 DEF HandleAppendEntries, StepDown, TypeOK, Leader, Follower
    <2>. QED
        BY <2>1, <2>2, NoNewLeaderKeepsNextIndex DEF HandleAppendEntries
<1>8. CASE \E m \in msgs : HandleAppendEntriesResponse(m)
    BY <1>8, HandleAppendEntriesResponseNextIndex
<1>9. CASE \E i \in Server : AdvanceCommitIndex(i)
    BY <1>9, NoNewLeaderKeepsNextIndex DEF AdvanceCommitIndex
<1>10. CASE \E i \in Server : ApplyEntry(i)
    BY <1>10, NoNewLeaderKeepsNextIndex DEF ApplyEntry
<1>11. CASE \E i \in Server, v \in Values : SubmitOperation(i, v)
    BY <1>11, NoNewLeaderKeepsNextIndex DEF SubmitOperation
<1>12. CASE \E m \in msgs : DropMessage(m)
    BY <1>12, NoNewLeaderKeepsNextIndex DEF DropMessage
<1>13. CASE UNCHANGED vars
    BY <1>13, NoNewLeaderKeepsNextIndex DEF vars
<1>. QED
    BY <1>1, <1>2, <1>3, <1>4, <1>5, <1>6, <1>7, <1>8, <1>9, <1>10, <1>11,
       <1>12, <1>13 DEF Next

(* A leader never computes prevLogIndex as nextIndex - 1 from a nextIndex *)
(* of 0, which in raft.go's uint64 arithmetic would wrap to 2^64 - 1: the *)
(* zero that NewRaft stores (raft.go line 307) is overwritten by          *)
(* becomeLeader before any AppendEntries is sent, and a rejection hint at *)
(* or below the snapshot boundary never becomes nextIndex.               *)
THEOREM NextIndexAlwaysPositive == Spec => []NextIndexPositive
<1>1. Init => IInv /\ NextIndexPositive
    BY InitIInv DEF Init, NextIndexPositive, Leader, Follower
<1>2. IInv /\ NextIndexPositive /\ [Next]_vars => IInv' /\ NextIndexPositive'
    BY NextIInv, NextNextIndex
<1>. QED
    BY <1>1, <1>2, PTL DEF Spec

=============================================================================
