------------------------------- MODULE GoRaft -------------------------------
(***************************************************************************)
(* The Raft node of jmsadair/raft (src/unnamed/part_003, first revision of *)
(* raft.go, lines 1-1444), as a cluster of such nodes talking through a    *)
(* transport that may lose any request or response.                       *)
(*                                                                         *)
(* Every RPC handler and every iteration of a worker loop runs with the    *)
(* node mutex held, so each is one atomic action.  An outgoing RPC is made *)
(* by a goroutine that takes the mutex, builds the request, releases the   *)
(* mutex around the call and takes it again to handle the answer: that is *)
(* three actions (send, handle at the peer, handle the answer).            *)
(*                                                                         *)
(* The vote goroutines of an election are state of their own (voteTasks): *)
(* each is bound to the vote counter of the election that spawned it      *)
(* (the pointer `votes` in sendRequestVote) but reads currentTerm only     *)
(* when it runs.  AppendEntries goroutines read all they use when they    *)
(* run, so a goroutine spawned earlier is the same as the heartbeat loop  *)
(* sending now: SendAppendEntries is enabled whenever the node leads.     *)
(*                                                                         *)
(* Data is abstracted: an entry is its term, its type and, for an         *)
(* operation, a value of the small set Values; leader ids, addresses,     *)
(* logging and the response futures are left out.                         *)
(***************************************************************************)
EXTENDS Naturals, Sequences, FiniteSets, FiniteSetsExt

CONSTANTS
    Server,      \* the ids of the cluster, self included (the peers map)
    Values,      \* the payloads a client may submit
    Nil,         \* the empty string: no vote
    MaxTerm,     \* bound: no election is started at this term or above
    MaxLogLen,   \* bound: no operation is submitted past this index
    MaxInFlight  \* bound: messages the transport holds at once

ASSUME ServerAssumption == IsFiniteSet(Server) /\ Server # {} /\ Nil \notin Server
ASSUME BoundsAssumption == MaxTerm \in Nat /\ MaxLogLen \in Nat /\ MaxInFlight \in Nat

Leader == "Leader"
Follower == "Follower"
NoOpEntry == "NoOp"
OperationEntry == "Operation"

VARIABLES
    state,             \* Leader or Follower (a candidate is a Follower)
    currentTerm,
    votedFor,
    log,               \* the entries after the log's first (sentinel) entry
    logBase,           \* the sentinel: [index, term] of the first entry
    lastIncludedIndex, \* the node's copy of the snapshot boundary
    lastIncludedTerm,
    commitIndex,
    lastApplied,
    nextIndex,         \* nextIndex[i][j], kept by i for peer j
    matchIndex,
    votes,             \* votes[i][t]: the counter of i's election at term t
    voteTasks,         \* sendRequestVote goroutines not yet run
    msgs,              \* requests and responses held by the transport
    applied            \* history: the operations each state machine applied

serverVars == <<state, currentTerm, votedFor>>
logVars == <<log, logBase, lastIncludedIndex, lastIncludedTerm>>
progressVars == <<commitIndex, lastApplied, applied>>
leaderVars == <<nextIndex, matchIndex>>
electionVars == <<votes, voteTasks>>
vars == <<serverVars, logVars, progressVars, leaderVars, electionVars, msgs>>

Terms == 0..MaxTerm
Entry == [term : Nat, type : {NoOpEntry}, val : {Nil}] \cup
         [term : Nat, type : {OperationEntry}, val : Values]
AppliedOp == [index : Nat, term : Nat, val : Values]

RVReq == [type : {"RVReq"}, from : Server, to : Server, term : Nat,
          lastLogIndex : Nat, lastLogTerm : Nat, ctr : Terms]
RVResp == [type : {"RVResp"}, from : Server, to : Server, term : Nat,
           granted : BOOLEAN, reqTerm : Nat, ctr : Terms]
AEReq == [type : {"AEReq"}, from : Server, to : Server, term : Nat,
          prevLogIndex : Nat, prevLogTerm : Nat, entries : Seq(Entry),
          leaderCommit : Nat]
AEResp == [type : {"AEResp"}, from : Server, to : Server, term : Nat,
           success : BOOLEAN, index : Nat, prevLogIndex : Nat, nEntries : Nat]
Message == RVReq \cup RVResp \cup AEReq \cup AEResp

-----------------------------------------------------------------------------
(* The persistent log (part_001), seen through the calls raft.go makes.    *)

LastIndex(i) == logBase[i].index + Len(log[i])
NextLogIndex(i) == LastIndex(i) + 1
LastTerm(i) == IF log[i] = <<>> THEN logBase[i].term ELSE log[i][Len(log[i])].term
\* GetEntry(k) for logBase < k <= LastIndex
EntryAt(i, k) == log[i][k - logBase[i].index]
TermAt(i, k) == IF k = logBase[i].index THEN logBase[i].term ELSE EntryAt(i, k).term

\* hasQuorum: more than half of the peers map, self included
HasQuorum(count) == count > Cardinality(Server) \div 2

Send(m) == /\ Cardinality(msgs) < MaxInFlight
           /\ msgs' = msgs \cup {m}
Reply(resp, req) == msgs' = (msgs \ {req}) \cup {resp}

(* becomeFollower: state, term and an empty vote, persisted together.      *)
StepDown(i, term) ==
    /\ state' = [state EXCEPT ![i] = Follower]
    /\ currentTerm' = [currentTerm EXCEPT ![i] = term]
    /\ votedFor' = [votedFor EXCEPT ![i] = Nil]

(* Mutant of BecomeLeader: nextIndex starts at the last index, not after. *)
BecomeLeaderNoPlusOne(i) ==
    /\ state' = [state EXCEPT ![i] = Leader]
    /\ nextIndex' = [nextIndex EXCEPT ![i] = [j \in Server |-> LastIndex(i)]]
    /\ matchIndex' = [matchIndex EXCEPT ![i] = [j \in Server |-> 0]]
    /\ log' = [log EXCEPT ![i] = Append(@, [term |-> currentTerm[i],
                                            type |-> NoOpEntry, val |-> Nil])]

(* becomeLeader: reset the peer tables from the log as it is, then append *)
(* the NoOp of the new term.  The AppendEntries goroutines it spawns are  *)
(* SendAppendEntries steps.                                               *)
BecomeLeader(i) ==
    /\ state' = [state EXCEPT ![i] = Leader]
    /\ nextIndex' = [nextIndex EXCEPT ![i] = [j \in Server |-> LastIndex(i) + 1]]
    /\ matchIndex' = [matchIndex EXCEPT ![i] = [j \in Server |-> 0]]
    /\ log' = [log EXCEPT ![i] = Append(@, [term |-> currentTerm[i],
                                            type |-> NoOpEntry, val |-> Nil])]

-----------------------------------------------------------------------------
Init ==
    /\ state = [i \in Server |-> Follower]
    /\ currentTerm = [i \in Server |-> 0]
    /\ votedFor = [i \in Server |-> Nil]
    /\ log = [i \in Server |-> <<>>]
    /\ logBase = [i \in Server |-> [index |-> 0, term |-> 0]]
    /\ lastIncludedIndex = [i \in Server |-> 0]
    /\ lastIncludedTerm = [i \in Server |-> 0]
    /\ commitIndex = [i \in Server |-> 0]
    /\ lastApplied = [i \in Server |-> 0]
    /\ nextIndex = [i \in Server |-> [j \in Server |-> 0]]
    /\ matchIndex = [i \in Server |-> [j \in Server |-> 0]]
    /\ votes = [i \in Server |-> [t \in Terms |-> 0]]
    /\ voteTasks = {}
    /\ msgs = {}
    /\ applied = [i \in Server |-> <<>>]

-----------------------------------------------------------------------------
(* election: a follower whose election timeout has elapsed becomes a      *)
(* candidate (becomeCandidate) and spawns one vote goroutine per peer,    *)
(* itself included, all sharing a fresh counter.                          *)
Election(i) ==
    /\ state[i] = Follower
    /\ currentTerm[i] < MaxTerm
    /\ currentTerm' = [currentTerm EXCEPT ![i] = @ + 1]
    /\ votedFor' = [votedFor EXCEPT ![i] = i]
    /\ voteTasks' = voteTasks \cup
          {[node |-> i, peer |-> j, ctr |-> currentTerm[i] + 1] : j \in Server}
    /\ UNCHANGED <<state, logVars, progressVars, leaderVars, votes, msgs>>

(* Mutant of SelfVote: the goroutine stays runnable and counts again.   *)
SelfVoteKeepsTask(t) ==
    /\ t \in voteTasks
    /\ t.peer = t.node
    /\ LET i == t.node
           n == votes[i][t.ctr] + 1
       IN /\ votes' = [votes EXCEPT ![i][t.ctr] = n]
          /\ UNCHANGED voteTasks
          /\ IF HasQuorum(n)
               THEN /\ BecomeLeader(i)
                    /\ UNCHANGED <<currentTerm, votedFor>>
               ELSE UNCHANGED <<serverVars, log, leaderVars>>
          /\ UNCHANGED <<logBase, lastIncludedIndex, lastIncludedTerm,
                         progressVars, msgs>>

(* sendRequestVote for the node itself: count the vote and become leader  *)
(* on a quorum, with no check of the term or the state.                   *)
SelfVote(t) ==
    /\ t \in voteTasks
    /\ t.peer = t.node
    /\ LET i == t.node
           n == votes[i][t.ctr] + 1
       IN /\ votes' = [votes EXCEPT ![i][t.ctr] = n]
          /\ voteTasks' = voteTasks \ {t}
          /\ IF HasQuorum(n)
               THEN /\ BecomeLeader(i)
                    /\ UNCHANGED <<currentTerm, votedFor>>
               ELSE UNCHANGED <<serverVars, log, leaderVars>>
          /\ UNCHANGED <<logBase, lastIncludedIndex, lastIncludedTerm,
                         progressVars, msgs>>

(* sendRequestVote for a peer: build the request from the term and log as *)
(* they are when the goroutine gets the mutex.                           *)
SendRequestVote(t) ==
    /\ t \in voteTasks
    /\ t.peer # t.node
    /\ voteTasks' = voteTasks \ {t}
    /\ Send([type |-> "RVReq", from |-> t.node, to |-> t.peer,
             term |-> currentTerm[t.node], lastLogIndex |-> LastIndex(t.node),
             lastLogTerm |-> LastTerm(t.node), ctr |-> t.ctr])
    /\ UNCHANGED <<serverVars, logVars, progressVars, leaderVars, votes>>

(* RequestVote: a request of a higher term makes the node a follower of  *)
(* that term, with its vote cleared.  The first is a mutant: a lower    *)
(* term also resets the node.                                             *)
IsOtherTerm(term, j) == term # currentTerm[j]
IsNewerTerm(term, j) == term > currentTerm[j]

(* RequestVote: the "already voted" check.                                *)
CanVote(voted, candidate) == voted \in {Nil, candidate}

(* RequestVote RPC handler.                                               *)
HandleRequestVote(m) ==
    /\ m \in msgs
    /\ m.type = "RVReq"
    /\ LET j == m.to
           stepDown == IsNewerTerm(m.term, j)
           term == IF stepDown THEN m.term ELSE currentTerm[j]
           voted == IF stepDown THEN Nil ELSE votedFor[j]
           logOk == ~ \/ m.lastLogTerm < LastTerm(j)
                      \/ /\ m.lastLogTerm = LastTerm(j)
                         /\ LastIndex(j) > m.lastLogIndex
           grant == /\ m.term >= currentTerm[j]
                    /\ CanVote(voted, m.from)
                    /\ logOk
       IN /\ state' = [state EXCEPT ![j] = IF stepDown THEN Follower ELSE @]
          /\ currentTerm' = [currentTerm EXCEPT ![j] = term]
          /\ votedFor' = [votedFor EXCEPT ![j] = IF grant THEN m.from ELSE voted]
          /\ Reply([type |-> "RVResp", from |-> j, to |-> m.from, term |-> term,
                    granted |-> grant, reqTerm |-> m.term, ctr |-> m.ctr], m)
    /\ UNCHANGED <<logVars, progressVars, leaderVars, electionVars>>

(* The vote goroutine handles the answer: drop it if the term moved, else *)
(* count a granted vote, step down on a higher term, and become leader on *)
(* a quorum of the election's counter while still a follower.            *)
HandleRequestVoteResponse(m) ==
    /\ m \in msgs
    /\ m.type = "RVResp"
    /\ LET i == m.to
           n == IF m.granted THEN votes[i][m.ctr] + 1 ELSE votes[i][m.ctr]
       IN IF currentTerm[i] # m.reqTerm
            THEN /\ msgs' = msgs \ {m}
                 /\ UNCHANGED <<serverVars, log, leaderVars, votes>>
            ELSE /\ msgs' = msgs \ {m}
                 /\ votes' = [votes EXCEPT ![i][m.ctr] = n]
                 /\ IF m.term > currentTerm[i]
                      THEN /\ StepDown(i, m.term)
                           /\ UNCHANGED <<log, leaderVars>>
                      ELSE IF HasQuorum(n) /\ state[i] = Follower
                             THEN /\ BecomeLeader(i)
                                  /\ UNCHANGED <<currentTerm, votedFor>>
                             ELSE UNCHANGED <<serverVars, log, leaderVars>>
    /\ UNCHANGED <<logBase, lastIncludedIndex, lastIncludedTerm,
                   progressVars, voteTasks>>

-----------------------------------------------------------------------------
(* sendAppendEntries, up to the call: the request carries every entry     *)
(* from nextIndex on, none when nextIndex is inside the compacted prefix. *)
SendAppendEntries(i, j) ==
    /\ state[i] = Leader
    /\ j # i
    /\ LET ni == nextIndex[i][j]
           prev == Max({ni - 1, lastIncludedIndex[i]})
           prevTerm == IF prev > lastIncludedIndex[i] /\ prev < NextLogIndex(i)
                         THEN TermAt(i, prev) ELSE lastIncludedTerm[i]
           entries == IF ni <= lastIncludedIndex[i] THEN <<>>
                      ELSE SubSeq(log[i], ni - logBase[i].index, Len(log[i]))
       IN Send([type |-> "AEReq", from |-> i, to |-> j, term |-> currentTerm[i],
                prevLogIndex |-> prev, prevLogTerm |-> prevTerm,
                entries |-> entries, leaderCommit |-> commitIndex[i]])
    /\ UNCHANGED <<serverVars, logVars, progressVars, leaderVars, electionVars>>

(* The checks of AppendEntries that reject a request whose previous    *)
(* entry the follower does not hold (compacted, past its log, or of     *)
(* another term).                                                       *)
RejectsPrev(j, m) ==
    LET prev == m.prevLogIndex
        lii == lastIncludedIndex[j]
    IN \/ lii > prev
       \/ NextLogIndex(j) <= prev
       \/ lii = prev /\ lastIncludedTerm[j] # m.prevLogTerm
       \/ lii < prev /\ TermAt(j, prev) # m.prevLogTerm

(* The hint of a rejection: the first index the follower can take.      *)
ConflictIndex(j, m) ==
    LET prev == m.prevLogIndex
        lii == lastIncludedIndex[j]
    IN CASE lii > prev -> lii + 1
         [] lii <= prev /\ NextLogIndex(j) <= prev -> NextLogIndex(j)
         [] lii = prev /\ prev < NextLogIndex(j) -> lii
         [] lii < prev /\ prev < NextLogIndex(j) ->
              \* walk back over the entries that share the term at prev
              Min({k \in lii + 1..prev :
                     \A l \in k..prev : TermAt(j, l) = TermAt(j, prev)})

(* The log after the success path: skip the entries already present with  *)
(* the same term, truncate at the first conflict and append the rest.     *)
MergedLog(j, m) ==
    LET new == {k \in 1..Len(m.entries) :
                  \/ m.prevLogIndex + k > LastIndex(j)
                  \/ TermAt(j, m.prevLogIndex + k) # m.entries[k].term}
        k0 == Min(new)
    IN IF new = {} THEN log[j]
       ELSE SubSeq(log[j], 1, m.prevLogIndex + k0 - 1 - logBase[j].index)
              \o SubSeq(m.entries, k0, Len(m.entries))

(* AppendEntries RPC handler.                                             *)
HandleAppendEntries(m) ==
    /\ m \in msgs
    /\ m.type = "AEReq"
    /\ LET j == m.to
           resp(term, ok, idx) ==
               [type |-> "AEResp", from |-> j, to |-> m.from, term |-> term,
                success |-> ok, index |-> idx, prevLogIndex |-> m.prevLogIndex,
                nEntries |-> Len(m.entries)]
       IN IF m.term < currentTerm[j]
            THEN /\ Reply(resp(currentTerm[j], FALSE, 0), m)
                 /\ UNCHANGED <<serverVars, log, commitIndex>>
            ELSE /\ IF m.term > currentTerm[j]
                      THEN StepDown(j, m.term)
                      ELSE UNCHANGED serverVars
                 /\ LET newLog == MergedLog(j, m)
                        newLast == logBase[j].index + Len(newLog)
                    IN IF RejectsPrev(j, m)
                         THEN /\ Reply(resp(m.term, FALSE, ConflictIndex(j, m)), m)
                              /\ UNCHANGED <<log, commitIndex>>
                         ELSE /\ log' = [log EXCEPT ![j] = newLog]
                              /\ commitIndex' =
                                   IF m.leaderCommit > commitIndex[j]
                                     THEN [commitIndex EXCEPT ![j] =
                                             Min({m.leaderCommit, newLast})]
                                     ELSE commitIndex
                              /\ Reply(resp(m.term, TRUE, 0), m)
    /\ UNCHANGED <<logBase, lastIncludedIndex, lastIncludedTerm, lastApplied,
                   applied, leaderVars, electionVars>>

(* The last index a successful AppendEntries matched on the peer:        *)
(* request.PrevLogIndex + len(entries).                                   *)
MatchOf(m) == m.prevLogIndex + m.nEntries

(* sendAppendEntries, after the call: only a leader uses the answer; a    *)
(* higher term deposes it, a rejection moves nextIndex to the hint (or    *)
(* asks for a snapshot, which needs one), a success raises matchIndex.   *)
HandleAppendEntriesResponse(m) ==
    /\ m \in msgs
    /\ m.type = "AEResp"
    /\ msgs' = msgs \ {m}
    /\ LET i == m.to
           j == m.from
           match == MatchOf(m)
       IN IF state[i] # Leader
            THEN UNCHANGED <<serverVars, leaderVars>>
          ELSE IF m.term > currentTerm[i]
            THEN /\ StepDown(i, m.term)
                 /\ UNCHANGED leaderVars
          ELSE IF ~m.success
            THEN IF m.index <= lastIncludedIndex[i]
                   \* sendInstallSnapshot: no snapshot is ever taken here
                   THEN UNCHANGED <<serverVars, leaderVars>>
                   ELSE /\ nextIndex' = [nextIndex EXCEPT ![i][j] = m.index]
                        /\ UNCHANGED <<serverVars, matchIndex>>
          ELSE IF match > matchIndex[i][j]
            THEN /\ nextIndex' = [nextIndex EXCEPT ![i][j] = Max({@, match + 1})]
                 /\ matchIndex' = [matchIndex EXCEPT ![i][j] = match]
                 /\ UNCHANGED serverVars
          ELSE UNCHANGED <<serverVars, leaderVars>>
    /\ UNCHANGED <<logVars, progressVars, electionVars>>

-----------------------------------------------------------------------------
(* One iteration of commitLoop: the highest index of the current term     *)
(* that a quorum has matched becomes the commit index.                    *)
CommitIndexes(i) ==
    {k \in commitIndex[i] + 1..LastIndex(i) :
       /\ TermAt(i, k) = currentTerm[i]
       /\ HasQuorum(1 + Cardinality({j \in Server \ {i} : matchIndex[i][j] >= k}))}

AdvanceCommitIndex(i) ==
    /\ state[i] = Leader
    /\ CommitIndexes(i) # {}
    /\ commitIndex' = [commitIndex EXCEPT ![i] = Max(CommitIndexes(i))]
    /\ UNCHANGED <<serverVars, logVars, lastApplied, applied, leaderVars,
                   electionVars, msgs>>

(* Mutant of ApplyEntry: NoOp entries are handed to the state machine.   *)
ApplyEntryNoOpToFsm(i) ==
    /\ lastApplied[i] < commitIndex[i]
    /\ lastApplied[i] + 1 <= LastIndex(i)
    /\ LET k == lastApplied[i] + 1
           e == EntryAt(i, k)
       IN /\ lastApplied' = [lastApplied EXCEPT ![i] = k]
          /\ applied' = [applied EXCEPT ![i] =
                           Append(@, [index |-> k, term |-> e.term, val |-> e.val])]
    /\ UNCHANGED <<serverVars, logVars, commitIndex, leaderVars, electionVars, msgs>>

(* One iteration of applyLoop's inner loop: a NoOp only moves lastApplied, *)
(* an operation is handed to the state machine.                           *)
ApplyEntry(i) ==
    /\ lastApplied[i] < commitIndex[i]
    /\ lastApplied[i] + 1 <= LastIndex(i)
    /\ LET k == lastApplied[i] + 1
           e == EntryAt(i, k)
       IN /\ lastApplied' = [lastApplied EXCEPT ![i] = k]
          /\ applied' = IF e.type = OperationEntry
                          THEN [applied EXCEPT ![i] =
                                  Append(@, [index |-> k, term |-> e.term, val |-> e.val])]
                          ELSE applied
    /\ UNCHANGED <<serverVars, logVars, commitIndex, leaderVars, electionVars, msgs>>

(* submitReplicatedOperation on a leader: append at (nextIndex, term).     *)
SubmitOperation(i, v) ==
    /\ state[i] = Leader
    /\ LastIndex(i) < MaxLogLen
    /\ log' = [log EXCEPT ![i] = Append(@, [term |-> currentTerm[i],
                                            type |-> OperationEntry, val |-> v])]
    /\ UNCHANGED <<serverVars, logBase, lastIncludedIndex, lastIncludedTerm,
                   progressVars, leaderVars, electionVars, msgs>>

(* The transport fails a call: the request or the answer is lost.         *)
DropMessage(m) ==
    /\ m \in msgs
    /\ msgs' = msgs \ {m}
    /\ UNCHANGED <<serverVars, logVars, progressVars, leaderVars, electionVars>>

-----------------------------------------------------------------------------
Next ==
    \/ \E i \in Server : Election(i)
    \/ \E t \in voteTasks : SelfVote(t)
    \/ \E t \in voteTasks : SendRequestVote(t)
    \/ \E m \in msgs : HandleRequestVote(m)
    \/ \E m \in msgs : HandleRequestVoteResponse(m)
    \/ \E i, j \in Server : SendAppendEntries(i, j)
    \/ \E m \in msgs : HandleAppendEntries(m)
    \/ \E m \in msgs : HandleAppendEntriesResponse(m)
    \/ \E i \in Server : AdvanceCommitIndex(i)
    \/ \E i \in Server : ApplyEntry(i)
    \/ \E i \in Server, v \in Values : SubmitOperation(i, v)
    \/ \E m \in msgs : DropMessage(m)

Spec == Init /\ [][Next]_vars

-----------------------------------------------------------------------------
(* Type correctness of every variable.                                    *)
TypeOK ==
    /\ state \in [Server -> {Leader, Follower}]
    /\ currentTerm \in [Server -> Nat]
    /\ votedFor \in [Server -> Server \cup {Nil}]
    /\ log \in [Server -> Seq(Entry)]
    /\ logBase \in [Server -> [index : Nat, term : Nat]]
    /\ lastIncludedIndex \in [Server -> Nat]
    /\ lastIncludedTerm \in [Server -> Nat]
    /\ commitIndex \in [Server -> Nat]
    /\ lastApplied \in [Server -> Nat]
    /\ nextIndex \in [Server -> [Server -> Nat]]
    /\ matchIndex \in [Server -> [Server -> Nat]]
    /\ votes \in [Server -> [Terms -> Nat]]
    /\ voteTasks \subseteq [node : Server, peer : Server, ctr : Terms]
    /\ msgs \subseteq Message
    /\ applied \in [Server -> Seq(AppliedOp)]

(* Every vote goroutine counts into its election's counter at most once, *)
(* however late it runs, so no counter exceeds the cluster size.          *)
VoteCountBounded ==
    \A i \in Server, t \in Terms : votes[i][t] <= Cardinality(Server)

(* Election safety (spec section 8): no two nodes lead in the same term.  *)
(* It rests on the vote counting of sendRequestVote.                      *)
ElectionSafety ==
    \A i, j \in Server :
        (i # j /\ state[i] = Leader /\ state[j] = Leader)
            => currentTerm[i] # currentTerm[j]

(* State machine safety: two nodes never hand different operations to   *)
(* their state machines for the same log index.  applyLoop applies what  *)
(* the node's own log holds below commitIndex, so this rests on leaders   *)
(* of one term agreeing (election safety) and on AppendEntries keeping   *)
(* an entry whose term matches the leader's (the skip at line 673).       *)
AppliedAgree ==
    \A i, j \in Server :
        \A a \in Range(applied[i]), b \in Range(applied[j]) :
            a.index = b.index => a = b

(* The term and vote of every node evolve as VoteLedger allows: terms     *)
(* only grow, a vote once cast in a term stays, one node at a time.  This *)
(* is what becomeCandidate, becomeFollower and the RequestVote handler,   *)
(* the only writers of currentTerm and votedFor, promise together.        *)
Ledger == INSTANCE VoteLedger WITH term <- currentTerm, vote <- votedFor
VoteLedgerRefined == Ledger!Spec

(* A leader never sends an AppendEntries whose prevLogIndex is computed   *)
(* from nextIndex 0 (uint64 nextIndex-1 would wrap).                      *)
NextIndexPositive ==
    \A i, j \in Server : state[i] = Leader => nextIndex[i][j] >= 1

=============================================================================
