-------------------------- MODULE GoRaftVoteProofs --------------------------
(***************************************************************************)
(* Proofs about the votes of GoRaft for every finite cluster.             *)
(*                                                                         *)
(* The vote counter of an election is shared by the goroutines of that     *)
(* election, and each goroutine adds to it at most once: a goroutine that *)
(* has not run yet (a vote task), its request in flight, or the answer in *)
(* flight is one unit of the counter's budget, and every step of the      *)
(* system moves a unit along that pipeline, or into the counter, or drops *)
(* it.  The budget starts at the cluster size when election() spawns the  *)
(* goroutines, so no counter ever exceeds the cluster size (VoteBudget).   *)
(* Election never reuses a counter, because terms only grow and a counter *)
(* of a term the node has not reached is untouched (FreshCounters).       *)
(***************************************************************************)
EXTENDS GoRaftProofs, FiniteSetTheorems

USE DEF serverVars, logVars, progressVars, leaderVars, electionVars

(* The units of the budget of node i's counter at term t.                 *)
VoteItems(i, t) ==
    {x \in voteTasks : x.node = i /\ x.ctr = t}
    \cup {m \in msgs : m.type = "RVReq" /\ m.from = i /\ m.ctr = t}
    \cup {m \in msgs : m.type = "RVResp" /\ m.to = i /\ m.ctr = t}

Budget(i, t) == votes[i][t] + Cardinality(VoteItems(i, t)) <= Cardinality(Server)
Fresh(i, t) == t > currentTerm[i] => votes[i][t] = 0 /\ VoteItems(i, t) = {}

VoteBudget == \A i \in Server, t \in Terms : Budget(i, t)
FreshCounters == \A i \in Server, t \in Terms : Fresh(i, t)
Finite == IsFiniteSet(voteTasks) /\ IsFiniteSet(msgs)

VInv == IInv /\ Finite /\ VoteBudget /\ FreshCounters

(* How the pair (i, t) may change in one step: untouched, one unit moved, *)
(* one unit spent into the counter or dropped, or a fresh counter started. *)
Moves(i, t) ==
    \/ votes'[i][t] = votes[i][t] /\ VoteItems(i, t)' \subseteq VoteItems(i, t)
    \/ \E x \in VoteItems(i, t) : \E y :
          /\ votes'[i][t] = votes[i][t]
          /\ VoteItems(i, t)' \subseteq (VoteItems(i, t) \ {x}) \cup {y}
    \/ \E x \in VoteItems(i, t) :
          /\ votes'[i][t] <= votes[i][t] + 1
          /\ VoteItems(i, t)' \subseteq VoteItems(i, t) \ {x}
    \/ /\ votes'[i][t] = votes[i][t]
       /\ currentTerm[i] < t /\ t <= currentTerm'[i]
       /\ IsFiniteSet(VoteItems(i, t)')
       /\ Cardinality(VoteItems(i, t)') <= Cardinality(Server)

-----------------------------------------------------------------------------
(* Counting: replacing one element of a finite set by another does not    *)
(* make it larger, and removing one makes it smaller by one.              *)
LEMMA CardSwap ==
    ASSUME NEW S, IsFiniteSet(S), NEW x \in S, NEW y,
           NEW S2 \in SUBSET ((S \ {x}) \cup {y})
    PROVE  IsFiniteSet(S2) /\ Cardinality(S2) <= Cardinality(S)
<1>1. IsFiniteSet(S \ {x}) /\ Cardinality(S \ {x}) = Cardinality(S) - 1
    BY FS_RemoveElement
<1>2. IsFiniteSet((S \ {x}) \cup {y})
      /\ Cardinality((S \ {x}) \cup {y}) <= Cardinality(S \ {x}) + 1
    BY <1>1, FS_AddElement, FS_CardinalityType
<1>3. IsFiniteSet(S2) /\ Cardinality(S2) <= Cardinality((S \ {x}) \cup {y})
    BY <1>2, FS_Subset
<1>. QED
    BY <1>1, <1>2, <1>3, FS_CardinalityType

LEMMA CardDrop ==
    ASSUME NEW S, IsFiniteSet(S), NEW x \in S, NEW S2 \in SUBSET (S \ {x})
    PROVE  IsFiniteSet(S2) /\ Cardinality(S2) + 1 <= Cardinality(S)
<1>1. IsFiniteSet(S \ {x}) /\ Cardinality(S \ {x}) = Cardinality(S) - 1
    BY FS_RemoveElement
<1>2. IsFiniteSet(S2) /\ Cardinality(S2) <= Cardinality(S \ {x})
    BY <1>1, FS_Subset
<1>. QED
    BY <1>1, <1>2, FS_CardinalityType

(* The units of a counter form a finite set.                              *)
LEMMA ItemsFinite ==
    ASSUME Finite, NEW i, NEW t
    PROVE  IsFiniteSet(VoteItems(i, t))
<1>1. IsFiniteSet(voteTasks \cup msgs)
    BY FS_Union DEF Finite
<1>2. VoteItems(i, t) \subseteq voteTasks \cup msgs
    BY DEF VoteItems
<1>. QED
    BY <1>1, <1>2, FS_Subset

-----------------------------------------------------------------------------
(* No step lowers a term: every handler that changes currentTerm moves it *)
(* to a strictly higher one (becomeCandidate, or becomeFollower on a      *)
(* newer term).                                                           *)
LEMMA TermsGrow ==
    ASSUME IInv, [Next]_vars
    PROVE  \A i \in Server : currentTerm'[i] >= currentTerm[i]
<1>. SUFFICES ASSUME NEW k \in Server PROVE currentTerm'[k] >= currentTerm[k]
    OBVIOUS
<1>0. /\ currentTerm \in [Server -> Nat]
      /\ \A m \in msgs : m.term \in Nat /\ m.to \in Server
    BY DEF IInv, TypeOK, Message, RVReq, RVResp, AEReq, AEResp
<1>1. ASSUME NEW i \in Server, Election(i) PROVE currentTerm'[k] >= currentTerm[k]
    BY <1>0, <1>1 DEF Election
<1>2. ASSUME NEW m \in msgs, HandleRequestVote(m) PROVE currentTerm'[k] >= currentTerm[k]
    BY <1>0, <1>2 DEF HandleRequestVote, IsNewerTerm
<1>3. ASSUME NEW m \in msgs, HandleRequestVoteResponse(m)
      PROVE currentTerm'[k] >= currentTerm[k]
    BY <1>0, <1>3 DEF HandleRequestVoteResponse, StepDown, BecomeLeader
<1>4. ASSUME NEW m \in msgs, HandleAppendEntries(m) PROVE currentTerm'[k] >= currentTerm[k]
    <2>. DEFINE j == m.to
    <2>1. CASE m.term > currentTerm[j]
        BY <1>0, <1>4, <2>1 DEF HandleAppendEntries, StepDown
    <2>2. CASE ~(m.term > currentTerm[j])
        BY <1>0, <1>4, <2>2 DEF HandleAppendEntries
    <2>. QED
        BY <2>1, <2>2
<1>5. ASSUME NEW m \in msgs, HandleAppendEntriesResponse(m)
      PROVE currentTerm'[k] >= currentTerm[k]
    BY <1>0, <1>5 DEF HandleAppendEntriesResponse, StepDown
<1>6. ASSUME NEW t \in voteTasks, SelfVote(t) PROVE currentTerm'[k] >= currentTerm[k]
    BY <1>0, <1>6 DEF SelfVote
<1>7. ASSUME NEW t \in voteTasks, SendRequestVote(t) PROVE currentTerm'[k] >= currentTerm[k]
    BY <1>0, <1>7 DEF SendRequestVote
<1>8. ASSUME NEW i \in Server, NEW j \in Server, SendAppendEntries(i, j)
      PROVE currentTerm'[k] >= currentTerm[k]
    BY <1>0, <1>8 DEF SendAppendEntries
<1>9. ASSUME NEW i \in Server, AdvanceCommitIndex(i) PROVE currentTerm'[k] >= currentTerm[k]
    BY <1>0, <1>9 DEF AdvanceCommitIndex
<1>10. ASSUME NEW i \in Server, ApplyEntry(i) PROVE currentTerm'[k] >= currentTerm[k]
    BY <1>0, <1>10 DEF ApplyEntry
<1>11. ASSUME NEW i \in Server, NEW v \in Values, SubmitOperation(i, v)
       PROVE currentTerm'[k] >= currentTerm[k]
    BY <1>0, <1>11 DEF SubmitOperation
<1>12. ASSUME NEW m \in msgs, DropMessage(m) PROVE currentTerm'[k] >= currentTerm[k]
    BY <1>0, <1>12 DEF DropMessage
<1>13. CASE UNCHANGED vars
    BY <1>0, <1>13 DEF vars
<1>. QED
    BY <1>1, <1>2, <1>3, <1>4, <1>5, <1>6, <1>7, <1>8, <1>9, <1>10, <1>11,
       <1>12, <1>13 DEF Next

-----------------------------------------------------------------------------
(* One pair (i, t) across a step: its counter and units are untouched,   *)
(* or one unit moves along the pipeline, or one unit is spent into the   *)
(* counter (or dropped).  In each case its budget and freshness hold on. *)
LEMMA PairStep ==
    ASSUME VInv, NEW i \in Server, NEW t \in Terms,
           currentTerm'[i] \in Nat, currentTerm'[i] >= currentTerm[i],
           votes'[i][t] \in Nat,
           \/ votes'[i][t] = votes[i][t] /\ VoteItems(i, t)' \subseteq VoteItems(i, t)
           \/ \E x \in VoteItems(i, t) : \E y :
                 /\ votes'[i][t] = votes[i][t]
                 /\ VoteItems(i, t)' \subseteq (VoteItems(i, t) \ {x}) \cup {y}
           \/ \E x \in VoteItems(i, t) :
                 /\ votes'[i][t] <= votes[i][t] + 1
                 /\ VoteItems(i, t)' \subseteq VoteItems(i, t) \ {x}
           \/ /\ votes'[i][t] = votes[i][t]
              /\ currentTerm[i] < t /\ t <= currentTerm'[i]
              /\ IsFiniteSet(VoteItems(i, t)')
              /\ Cardinality(VoteItems(i, t)') <= Cardinality(Server)
    PROVE  Budget(i, t)' /\ Fresh(i, t)'
<1>0. /\ IsFiniteSet(VoteItems(i, t))
      /\ votes[i][t] \in Nat /\ currentTerm[i] \in Nat
      /\ Budget(i, t) /\ Fresh(i, t)
    BY ItemsFinite DEF VInv, IInv, TypeOK, VoteBudget, FreshCounters
<1>9. Cardinality(VoteItems(i, t)) \in Nat /\ Cardinality(Server) \in Nat
    BY <1>0, ServerAssumption, FS_CardinalityType
<1>1. CASE votes'[i][t] = votes[i][t] /\ VoteItems(i, t)' \subseteq VoteItems(i, t)
    <2>1. IsFiniteSet(VoteItems(i, t)')
          /\ Cardinality(VoteItems(i, t)') <= Cardinality(VoteItems(i, t))
        BY <1>0, <1>1, FS_Subset
    <2>2. Budget(i, t)'
        BY <1>0, <1>1, <1>9, <2>1, FS_CardinalityType DEF Budget
    <2>3. Fresh(i, t)'
        BY <1>0, <1>1 DEF Fresh, Terms
    <2>. QED
        BY <2>2, <2>3
<1>2. CASE \E x \in VoteItems(i, t) : \E y :
              /\ votes'[i][t] = votes[i][t]
              /\ VoteItems(i, t)' \subseteq (VoteItems(i, t) \ {x}) \cup {y}
    <2>1. PICK x \in VoteItems(i, t) : \E y :
              /\ votes'[i][t] = votes[i][t]
              /\ VoteItems(i, t)' \subseteq (VoteItems(i, t) \ {x}) \cup {y}
        BY <1>2
    <2>2. PICK y : /\ votes'[i][t] = votes[i][t]
                   /\ VoteItems(i, t)' \subseteq (VoteItems(i, t) \ {x}) \cup {y}
        BY <2>1
    <2>3. IsFiniteSet(VoteItems(i, t)')
          /\ Cardinality(VoteItems(i, t)') <= Cardinality(VoteItems(i, t))
        BY <1>0, <2>2, CardSwap
    <2>4. Budget(i, t)'
        BY <1>0, <1>9, <2>2, <2>3, FS_CardinalityType DEF Budget
    <2>5. ~(t > currentTerm[i])
        BY <1>0 DEF Fresh
    <2>. QED
        BY <1>0, <2>4, <2>5 DEF Fresh, Terms
<1>3. CASE \E x \in VoteItems(i, t) :
              /\ votes'[i][t] <= votes[i][t] + 1
              /\ VoteItems(i, t)' \subseteq VoteItems(i, t) \ {x}
    <2>1. PICK x \in VoteItems(i, t) :
              /\ votes'[i][t] <= votes[i][t] + 1
              /\ VoteItems(i, t)' \subseteq VoteItems(i, t) \ {x}
        BY <1>3
    <2>2. IsFiniteSet(VoteItems(i, t)')
          /\ Cardinality(VoteItems(i, t)') + 1 <= Cardinality(VoteItems(i, t))
        BY <1>0, <2>1, CardDrop
    <2>3. Budget(i, t)'
        BY <1>0, <1>9, <2>1, <2>2, FS_CardinalityType DEF Budget
    <2>4. ~(t > currentTerm[i])
        BY <1>0 DEF Fresh
    <2>. QED
        BY <1>0, <2>3, <2>4 DEF Fresh, Terms
<1>4. CASE /\ votes'[i][t] = votes[i][t]
           /\ currentTerm[i] < t /\ t <= currentTerm'[i]
           /\ IsFiniteSet(VoteItems(i, t)')
           /\ Cardinality(VoteItems(i, t)') <= Cardinality(Server)
    <2>1. votes[i][t] = 0
        BY <1>0, <1>4 DEF Fresh
    <2>2. Cardinality(VoteItems(i, t)') \in Nat
        BY <1>4, FS_CardinalityType
    <2>3. Budget(i, t)'
        BY <1>4, <1>9, <2>1, <2>2 DEF Budget
    <2>. QED
        BY <1>0, <1>4, <2>3 DEF Fresh, Terms
<1>. QED
    BY <1>1, <1>2, <1>3, <1>4

(* The vote tasks election() spawns are at most one per node.            *)
LEMMA NewTasksCard ==
    ASSUME NEW i, NEW c
    PROVE  LET N == {[node |-> i, peer |-> j, ctr |-> c] : j \in Server}
           IN  IsFiniteSet(N) /\ Cardinality(N) <= Cardinality(Server)
<1>. DEFINE N == {[node |-> i, peer |-> j, ctr |-> c] : j \in Server}
            f == [j \in Server |-> [node |-> i, peer |-> j, ctr |-> c]]
<1>1. f \in Surjection(Server, N)
    BY DEF Surjection
<1>. QED
    BY <1>1, FS_Surjection, ServerAssumption

LEMMA InitVInv == Init => VInv
<1>. SUFFICES ASSUME Init PROVE VInv
    OBVIOUS
<1>1. IInv
    BY InitIInv
<1>2. Finite
    BY FS_EmptySet DEF Init, Finite
<1>3. \A i \in Server, t \in Terms : votes[i][t] = 0 /\ VoteItems(i, t) = {}
    BY DEF Init, VoteItems
<1>4. VoteBudget
    BY <1>3, FS_EmptySet, FS_CardinalityType, ServerAssumption DEF VoteBudget, Budget
<1>5. FreshCounters
    BY <1>3 DEF FreshCounters, Fresh
<1>. QED
    BY <1>1, <1>2, <1>4, <1>5 DEF VInv

-----------------------------------------------------------------------------
(* A step that keeps the sets finite and moves every pair as Moves allows *)
(* preserves VInv.                                                         *)
LEMMA PairsVInv ==
    ASSUME VInv, IInv', Finite', \A k \in Server : currentTerm'[k] >= currentTerm[k],
           \A i \in Server, t \in Terms : Moves(i, t)
    PROVE  VInv'
<1>1. ASSUME NEW i \in Server, NEW t \in Terms PROVE Budget(i, t)' /\ Fresh(i, t)'
    <2>1. currentTerm'[i] \in Nat /\ votes'[i][t] \in Nat
        BY DEF IInv, TypeOK
    <2>. QED
        BY <2>1, PairStep DEF Moves
<1>. QED
    BY <1>1 DEF VInv, VoteBudget, FreshCounters

(* A step that leaves the counters and the vote tasks alone and sends at *)
(* most AppendEntries traffic (or drops a message) preserves VInv.        *)
LEMMA QuietStep ==
    ASSUME VInv, IInv', \A k \in Server : currentTerm'[k] >= currentTerm[k],
           votes' = votes, voteTasks' = voteTasks,
           NEW R, IsFiniteSet(R), \A r \in R : r.type \in {"AEReq", "AEResp"},
           msgs' \subseteq msgs \cup R
    PROVE  VInv'
<1>1. Finite'
    <2>1. IsFiniteSet(msgs \cup R)
        BY FS_Union DEF VInv, Finite
    <2>. QED
        BY <2>1, FS_Subset DEF VInv, Finite
<1>2. \A i \in Server, t \in Terms : Moves(i, t)
    BY DEF Moves, VoteItems
<1>. QED
    BY <1>1, <1>2, PairsVInv

(* A vote task (a goroutine) is never a message.                          *)
LEMMA TaskNotMessage ==
    ASSUME IInv, NEW tk \in voteTasks
    PROVE  tk \notin msgs
<1>1. DOMAIN tk = {"node", "peer", "ctr"}
    BY DEF IInv, TypeOK
<1>2. \A m \in msgs : "type" \in DOMAIN m
    BY DEF IInv, TypeOK, Message, RVReq, RVResp, AEReq, AEResp
<1>. QED
    BY <1>1, <1>2

(* sendRequestVote for the node itself spends its task into the counter. *)
LEMMA SelfVoteVInv ==
    ASSUME VInv, IInv', \A k \in Server : currentTerm'[k] >= currentTerm[k],
           NEW tk \in voteTasks, SelfVote(tk)
    PROVE  VInv'
<1>. DEFINE i0 == tk.node
            c == tk.ctr
<1>0. i0 \in Server /\ c \in Terms /\ votes \in [Server -> [Terms -> Nat]]
    BY DEF VInv, IInv, TypeOK
<1>1. /\ votes' = [votes EXCEPT ![i0][c] = votes[i0][c] + 1]
      /\ voteTasks' = voteTasks \ {tk}
      /\ msgs' = msgs
    BY DEF SelfVote
<1>2. Finite'
    BY <1>1, FS_Subset DEF VInv, Finite
<1>3. ASSUME NEW i \in Server, NEW t \in Terms PROVE Moves(i, t)
    <2>1. VoteItems(i, t)' \subseteq VoteItems(i, t) \ {tk}
        BY <1>1, TaskNotMessage DEF VoteItems, VInv
    <2>2. CASE i = i0 /\ t = c
        <3>1. tk \in VoteItems(i, t)
            BY <2>2 DEF VoteItems
        <3>2. votes'[i][t] <= votes[i][t] + 1
            BY <1>0, <1>1, <2>2
        <3>3. \E x \in VoteItems(i, t) :
                 /\ votes'[i][t] <= votes[i][t] + 1
                 /\ VoteItems(i, t)' \subseteq VoteItems(i, t) \ {x}
            BY <2>1, <3>1, <3>2
        <3>. QED
            BY <3>3 DEF Moves
    <2>3. CASE ~(i = i0 /\ t = c)
        <3>1. votes'[i][t] = votes[i][t]
            BY <1>0, <1>1, <2>3
        <3>. QED
            BY <2>1, <3>1 DEF Moves
    <2>. QED
        BY <2>2, <2>3
<1>. QED
    BY <1>2, <1>3, PairsVInv

(* sendRequestVote for a peer turns its task into a request in flight.   *)
LEMMA SendRequestVoteVInv ==
    ASSUME VInv, IInv', \A k \in Server : currentTerm'[k] >= currentTerm[k],
           NEW tk \in voteTasks, SendRequestVote(tk)
    PROVE  VInv'
<1>. DEFINE req == [type |-> "RVReq", from |-> tk.node, to |-> tk.peer,
                    term |-> currentTerm[tk.node], lastLogIndex |-> LastIndex(tk.node),
                    lastLogTerm |-> LastTerm(tk.node), ctr |-> tk.ctr]
<1>1. /\ votes' = votes
      /\ voteTasks' = voteTasks \ {tk}
      /\ msgs' = msgs \cup {req}
    BY DEF SendRequestVote, Send
<1>2. Finite'
    <2>1. IsFiniteSet(msgs \cup {req})
        BY FS_AddElement DEF VInv, Finite
    <2>. QED
        BY <1>1, <2>1, FS_Subset DEF VInv, Finite
<1>3. ASSUME NEW i \in Server, NEW t \in Terms PROVE Moves(i, t)
    <2>1. CASE i = tk.node /\ t = tk.ctr
        <3>1. tk \in VoteItems(i, t)
            BY <2>1 DEF VoteItems
        <3>2. VoteItems(i, t)' \subseteq (VoteItems(i, t) \ {tk}) \cup {req}
            BY <1>1, TaskNotMessage DEF VoteItems, VInv
        <3>3. \E x \in VoteItems(i, t) : \E y :
                 /\ votes'[i][t] = votes[i][t]
                 /\ VoteItems(i, t)' \subseteq (VoteItems(i, t) \ {x}) \cup {y}
            BY <1>1, <3>1, <3>2
        <3>. QED
            BY <3>3 DEF Moves
    <2>2. CASE ~(i = tk.node /\ t = tk.ctr)
        <3>1. VoteItems(i, t)' \subseteq VoteItems(i, t)
            BY <1>1, <2>2 DEF VoteItems
        <3>. QED
            BY <1>1, <3>1 DEF Moves
    <2>. QED
        BY <2>1, <2>2
<1>. QED
    BY <1>2, <1>3, PairsVInv

(* The RequestVote handler turns a request into its answer, which keeps *)
(* the counter of the request (the candidate's goroutine waits for it).  *)
LEMMA HandleRequestVoteVInv ==
    ASSUME VInv, IInv', \A k \in Server : currentTerm'[k] >= currentTerm[k],
           NEW m \in msgs, HandleRequestVote(m)
    PROVE  VInv'
<1>0. PICK tm, g : msgs' = (msgs \ {m}) \cup
                          {[type |-> "RVResp", from |-> m.to, to |-> m.from, term |-> tm,
                            granted |-> g, reqTerm |-> m.term, ctr |-> m.ctr]}
    BY Zenon DEF HandleRequestVote, Reply
<1>1. PICK r : /\ r.type = "RVResp" /\ r.to = m.from /\ r.ctr = m.ctr
               /\ msgs' = (msgs \ {m}) \cup {r}
    BY <1>0
<1>2. votes' = votes /\ voteTasks' = voteTasks
    BY DEF HandleRequestVote
<1>3. \A x \in voteTasks : x # m
    BY TaskNotMessage DEF VInv
<1>4. Finite'
    <2>1. IsFiniteSet(msgs \cup {r})
        BY FS_AddElement DEF VInv, Finite
    <2>. QED
        BY <1>1, <1>2, <2>1, FS_Subset DEF VInv, Finite
<1>5. ASSUME NEW i \in Server, NEW t \in Terms PROVE Moves(i, t)
    <2>1. CASE i = m.from /\ t = m.ctr
        <3>1. m \in VoteItems(i, t)
            BY <2>1 DEF HandleRequestVote, VoteItems
        <3>2. VoteItems(i, t)' \subseteq (VoteItems(i, t) \ {m}) \cup {r}
            BY <1>1, <1>2, <1>3 DEF VoteItems
        <3>3. \E x \in VoteItems(i, t) : \E y :
                 /\ votes'[i][t] = votes[i][t]
                 /\ VoteItems(i, t)' \subseteq (VoteItems(i, t) \ {x}) \cup {y}
            BY <1>2, <3>1, <3>2
        <3>. QED
            BY <3>3 DEF Moves
    <2>2. CASE ~(i = m.from /\ t = m.ctr)
        <3>1. VoteItems(i, t)' \subseteq VoteItems(i, t)
            BY <1>1, <1>2, <2>2 DEF VoteItems
        <3>. QED
            BY <1>2, <3>1 DEF Moves
    <2>. QED
        BY <2>1, <2>2
<1>. QED
    BY <1>4, <1>5, PairsVInv

(* The vote goroutine consumes the answer and adds at most one vote to   *)
(* its own counter.                                                       *)
LEMMA HandleRequestVoteResponseVInv ==
    ASSUME VInv, IInv', \A k \in Server : currentTerm'[k] >= currentTerm[k],
           NEW m \in msgs, HandleRequestVoteResponse(m)
    PROVE  VInv'
<1>. DEFINE i0 == m.to
            c == m.ctr
<1>0. /\ m.type = "RVResp" /\ i0 \in Server /\ c \in Terms
      /\ votes \in [Server -> [Terms -> Nat]]
    BY DEF HandleRequestVoteResponse, VInv, IInv, TypeOK, Message, RVReq, RVResp, AEReq, AEResp
<1>1. /\ msgs' = msgs \ {m}
      /\ voteTasks' = voteTasks
      /\ \/ votes' = votes
         \/ \E n \in {votes[i0][c], votes[i0][c] + 1} :
               votes' = [votes EXCEPT ![i0][c] = n]
    BY DEF HandleRequestVoteResponse
<1>2. Finite'
    BY <1>1, FS_Subset DEF VInv, Finite
<1>3. \A x \in voteTasks : x # m
    BY TaskNotMessage DEF VInv
<1>4. ASSUME NEW i \in Server, NEW t \in Terms PROVE Moves(i, t)
    <2>1. VoteItems(i, t)' \subseteq VoteItems(i, t) \ {m}
        BY <1>1, <1>3 DEF VoteItems
    <2>2. CASE i = i0 /\ t = c
        <3>1. m \in VoteItems(i, t)
            BY <1>0, <2>2 DEF VoteItems
        <3>2. votes'[i][t] <= votes[i][t] + 1
            BY <1>0, <1>1, <2>2
        <3>3. \E x \in VoteItems(i, t) :
                 /\ votes'[i][t] <= votes[i][t] + 1
                 /\ VoteItems(i, t)' \subseteq VoteItems(i, t) \ {x}
            BY <2>1, <3>1, <3>2
        <3>. QED
            BY <3>3 DEF Moves
    <2>3. CASE ~(i = i0 /\ t = c)
        <3>1. votes'[i][t] = votes[i][t]
            BY <1>0, <1>1, <2>3
        <3>. QED
            BY <2>1, <3>1 DEF Moves
    <2>. QED
        BY <2>2, <2>3
<1>. QED
    BY <1>2, <1>4, PairsVInv

(* election() starts the counter of the new term with one task per node: *)
(* the counter was fresh, so its budget is the cluster size.              *)
LEMMA ElectionVInv ==
    ASSUME VInv, IInv', \A k \in Server : currentTerm'[k] >= currentTerm[k],
           NEW i0 \in Server, Election(i0)
    PROVE  VInv'
<1>. DEFINE c == currentTerm[i0] + 1
            N == {[node |-> i0, peer |-> j, ctr |-> c] : j \in Server}
<1>0. currentTerm \in [Server -> Nat] /\ c \in Terms
    BY BoundsAssumption DEF Election, VInv, IInv, TypeOK, Terms
<1>1. /\ votes' = votes /\ msgs' = msgs
      /\ voteTasks' = voteTasks \cup N
      /\ currentTerm'[i0] = c
    BY <1>0 DEF Election
<1>2. IsFiniteSet(N) /\ Cardinality(N) <= Cardinality(Server)
    BY NewTasksCard
<1>3. Finite'
    BY <1>1, <1>2, FS_Union DEF VInv, Finite
<1>4. ASSUME NEW i \in Server, NEW t \in Terms PROVE Moves(i, t)
    <2>1. CASE i = i0 /\ t = c
        <3>1. VoteItems(i, t) = {}
            BY <1>0, <2>1 DEF VInv, FreshCounters, Fresh
        <3>2. VoteItems(i, t)' \subseteq N
            BY <1>1, <3>1 DEF VoteItems
        <3>3. IsFiniteSet(VoteItems(i, t)')
              /\ Cardinality(VoteItems(i, t)') <= Cardinality(Server)
            <4>1. Cardinality(VoteItems(i, t)') <= Cardinality(N)
                BY <1>2, <3>2, FS_Subset
            <4>2. Cardinality(VoteItems(i, t)') \in Nat /\ Cardinality(N) \in Nat
                  /\ Cardinality(Server) \in Nat
                BY <1>2, <3>2, FS_Subset, FS_CardinalityType, ServerAssumption
            <4>. QED
                BY <1>2, <3>2, <4>1, <4>2, FS_Subset
        <3>4. currentTerm[i] < t /\ t <= currentTerm'[i]
            BY <1>0, <1>1, <2>1
        <3>. QED
            BY <1>1, <3>3, <3>4 DEF Moves
    <2>2. CASE ~(i = i0 /\ t = c)
        <3>1. VoteItems(i, t)' \subseteq VoteItems(i, t)
            BY <1>1, <2>2 DEF VoteItems
        <3>. QED
            BY <1>1, <3>1 DEF Moves
    <2>. QED
        BY <2>1, <2>2
<1>. QED
    BY <1>3, <1>4, PairsVInv

(* The steps that do not touch the election state.                        *)
LEMMA SendAppendEntriesVInv ==
    ASSUME VInv, IInv', \A k \in Server : currentTerm'[k] >= currentTerm[k],
           NEW i \in Server, NEW j \in Server, SendAppendEntries(i, j)
    PROVE  VInv'
<1>0. PICK prev, pt, es :
          msgs' = msgs \cup {[type |-> "AEReq", from |-> i, to |-> j, term |-> currentTerm[i],
                              prevLogIndex |-> prev, prevLogTerm |-> pt,
                              entries |-> es, leaderCommit |-> commitIndex[i]]}
    BY Zenon DEF SendAppendEntries, Send
<1>1. PICK x : x.type = "AEReq" /\ msgs' = msgs \cup {x}
    BY <1>0
<1>2. votes' = votes /\ voteTasks' = voteTasks
    BY DEF SendAppendEntries
<1>3. IsFiniteSet({x}) /\ \A r \in {x} : r.type \in {"AEReq", "AEResp"}
    BY <1>1, FS_Singleton
<1>. QED
    BY <1>1, <1>2, <1>3, QuietStep

LEMMA HandleAppendEntriesVInv ==
    ASSUME VInv, IInv', \A k \in Server : currentTerm'[k] >= currentTerm[k],
           NEW m \in msgs, HandleAppendEntries(m)
    PROVE  VInv'
<1>1. PICK x : x.type = "AEResp" /\ msgs' = (msgs \ {m}) \cup {x}
    BY Zenon DEF HandleAppendEntries, Reply
<1>2. votes' = votes /\ voteTasks' = voteTasks
    BY DEF HandleAppendEntries
<1>3. IsFiniteSet({x}) /\ \A r \in {x} : r.type \in {"AEReq", "AEResp"}
    BY <1>1, FS_Singleton
<1>. QED
    BY <1>1, <1>2, <1>3, QuietStep

LEMMA OtherStepsVInv ==
    ASSUME VInv, IInv', \A k \in Server : currentTerm'[k] >= currentTerm[k],
           \/ \E m \in msgs : HandleAppendEntriesResponse(m)
           \/ \E i \in Server : AdvanceCommitIndex(i)
           \/ \E i \in Server : ApplyEntry(i)
           \/ \E i \in Server, v \in Values : SubmitOperation(i, v)
           \/ \E m \in msgs : DropMessage(m)
           \/ UNCHANGED vars
    PROVE  VInv'
<1>1. votes' = votes /\ voteTasks' = voteTasks /\ msgs' \subseteq msgs \cup {}
    BY DEF HandleAppendEntriesResponse, AdvanceCommitIndex, ApplyEntry,
           SubmitOperation, DropMessage, vars
<1>. QED
    BY <1>1, FS_EmptySet, QuietStep

LEMMA NextVInv == VInv /\ [Next]_vars => VInv'
<1>. SUFFICES ASSUME VInv, [Next]_vars PROVE VInv'
    OBVIOUS
<1>0. IInv' /\ \A k \in Server : currentTerm'[k] >= currentTerm[k]
    BY NextIInv, TermsGrow DEF VInv
<1>. QED
    BY <1>0, ElectionVInv, SelfVoteVInv, SendRequestVoteVInv, HandleRequestVoteVInv,
       HandleRequestVoteResponseVInv, SendAppendEntriesVInv, HandleAppendEntriesVInv,
       OtherStepsVInv DEF Next

(* No vote counter of election() ever exceeds the cluster size, for any  *)
(* cluster: each goroutine that sendRequestVote runs (part_003 lines     *)
(* 974-1028) adds to its election's shared counter at most once, and     *)
(* election() never reuses a counter, because a node's term only grows.  *)
THEOREM VoteCountBoundedThm == Spec => []VoteCountBounded
<1>1. Init => VInv
    BY InitVInv
<1>2. VInv /\ [Next]_vars => VInv'
    BY NextVInv
<1>3. VInv => VoteCountBounded
    <2>. SUFFICES ASSUME VInv, NEW i \in Server, NEW t \in Terms
                  PROVE  votes[i][t] <= Cardinality(Server)
        BY DEF VoteCountBounded
    <2>1. Budget(i, t) /\ IsFiniteSet(VoteItems(i, t)) /\ votes[i][t] \in Nat
        BY ItemsFinite DEF VInv, VoteBudget, IInv, TypeOK
    <2>2. Cardinality(VoteItems(i, t)) \in Nat /\ Cardinality(Server) \in Nat
        BY <2>1, FS_CardinalityType, ServerAssumption
    <2>. QED
        BY <2>1, <2>2 DEF Budget
<1>. QED
    BY <1>1, <1>2, <1>3, PTL DEF Spec

-----------------------------------------------------------------------------
(* No step changes the vote of a node that has voted and stays in its    *)
(* term: RequestVote grants only to the candidate it already voted for,  *)
(* and every other change of votedFor comes with a new term.              *)
LEMMA VoteStep ==
    ASSUME IInv, [Next]_vars
    PROVE  \A i \in Server : (currentTerm'[i] = currentTerm[i] /\ votedFor[i] # Nil)
                                => votedFor'[i] = votedFor[i]
<1>. SUFFICES ASSUME NEW k \in Server, currentTerm'[k] = currentTerm[k], votedFor[k] # Nil
              PROVE  votedFor'[k] = votedFor[k]
    OBVIOUS
<1>0. /\ currentTerm \in [Server -> Nat] /\ votedFor \in [Server -> Server \cup {Nil}]
      /\ \A m \in msgs : m.term \in Nat /\ m.to \in Server
    BY DEF IInv, TypeOK, Message, RVReq, RVResp, AEReq, AEResp
<1>1. ASSUME NEW i \in Server, Election(i) PROVE votedFor'[k] = votedFor[k]
    BY <1>0, <1>1 DEF Election
<1>2. ASSUME NEW m \in msgs, HandleRequestVote(m) PROVE votedFor'[k] = votedFor[k]
    <2>. DEFINE j == m.to
    <2>1. CASE k # j
        BY <1>0, <1>2, <2>1 DEF HandleRequestVote
    <2>2. CASE k = j /\ m.term > currentTerm[j]
        BY <1>0, <1>2, <2>2 DEF HandleRequestVote, IsNewerTerm
    <2>3. CASE k = j /\ ~(m.term > currentTerm[j])
        <3>1. votedFor'[j] = IF /\ m.term >= currentTerm[j]
                                /\ CanVote(votedFor[j], m.from)
                                /\ ~ \/ m.lastLogTerm < LastTerm(j)
                                     \/ /\ m.lastLogTerm = LastTerm(j)
                                        /\ LastIndex(j) > m.lastLogIndex
                             THEN m.from ELSE votedFor[j]
            BY <1>0, <1>2, <2>3 DEF HandleRequestVote, IsNewerTerm
        <3>2. CanVote(votedFor[j], m.from) => votedFor[j] = m.from
            BY <2>3 DEF CanVote
        <3>. QED
            BY <2>3, <3>1, <3>2
    <2>. QED
        BY <2>1, <2>2, <2>3
<1>3. ASSUME NEW m \in msgs, HandleRequestVoteResponse(m)
      PROVE votedFor'[k] = votedFor[k]
    BY <1>0, <1>3 DEF HandleRequestVoteResponse, StepDown, BecomeLeader
<1>4. ASSUME NEW m \in msgs, HandleAppendEntries(m) PROVE votedFor'[k] = votedFor[k]
    <2>. DEFINE j == m.to
    <2>1. CASE m.term > currentTerm[j]
        BY <1>0, <1>4, <2>1 DEF HandleAppendEntries, StepDown
    <2>2. CASE ~(m.term > currentTerm[j])
        BY <1>0, <1>4, <2>2 DEF HandleAppendEntries
    <2>. QED
        BY <2>1, <2>2
<1>5. ASSUME NEW m \in msgs, HandleAppendEntriesResponse(m)
      PROVE votedFor'[k] = votedFor[k]
    BY <1>0, <1>5 DEF HandleAppendEntriesResponse, StepDown
<1>6. ASSUME NEW t \in voteTasks, SelfVote(t) PROVE votedFor'[k] = votedFor[k]
    BY <1>6 DEF SelfVote
<1>7. ASSUME NEW t \in voteTasks, SendRequestVote(t) PROVE votedFor'[k] = votedFor[k]
    BY <1>7 DEF SendRequestVote
<1>8. ASSUME NEW i \in Server, NEW j \in Server, SendAppendEntries(i, j)
      PROVE votedFor'[k] = votedFor[k]
    BY <1>8 DEF SendAppendEntries
<1>9. CASE \/ \E i \in Server : AdvanceCommitIndex(i)
           \/ \E i \in Server : ApplyEntry(i)
           \/ \E i \in Server, v \in Values : SubmitOperation(i, v)
           \/ \E m \in msgs : DropMessage(m)
           \/ UNCHANGED vars
    BY <1>9 DEF AdvanceCommitIndex, ApplyEntry, SubmitOperation, DropMessage, vars
<1>. QED
    BY <1>1, <1>2, <1>3, <1>4, <1>5, <1>6, <1>7, <1>8, <1>9 DEF Next

-----------------------------------------------------------------------------
(* GoRaft implements VoteLedger under the mapping term <- currentTerm,   *)
(* vote <- votedFor (the instance Ledger of GoRaft).                     *)

(* Only node i's term and vote may change in the step.                    *)
Only(i) == \A j \in Server \ {i} : currentTerm'[j] = currentTerm[j] /\ votedFor'[j] = votedFor[j]

(* Every handler writes the term and vote of one node at most: the one   *)
(* that runs it.                                                          *)
LEMMA OneNode ==
    ASSUME IInv, [Next]_vars
    PROVE  UNCHANGED <<currentTerm, votedFor>> \/ \E i \in Server : Only(i)
<1>0. /\ currentTerm \in [Server -> Nat] /\ votedFor \in [Server -> Server \cup {Nil}]
      /\ state \in [Server -> {Leader, Follower}]
      /\ \A m \in msgs : m.to \in Server /\ m.term \in Nat
    BY DEF IInv, TypeOK, Message, RVReq, RVResp, AEReq, AEResp
<1>1. ASSUME NEW i \in Server, Election(i) PROVE Only(i)
    BY <1>0, <1>1 DEF Election, Only
<1>2. ASSUME NEW m \in msgs, HandleRequestVote(m) PROVE Only(m.to)
    BY <1>0, <1>2 DEF HandleRequestVote, Only
<1>3. ASSUME NEW m \in msgs, HandleRequestVoteResponse(m) PROVE Only(m.to)
    BY <1>0, <1>3 DEF HandleRequestVoteResponse, StepDown, BecomeLeader, Only
<1>4. ASSUME NEW m \in msgs, HandleAppendEntries(m) PROVE Only(m.to)
    <2>1. CASE m.term > currentTerm[m.to]
        BY <1>0, <1>4, <2>1 DEF HandleAppendEntries, StepDown, Only
    <2>2. CASE ~(m.term > currentTerm[m.to])
        BY <1>0, <1>4, <2>2 DEF HandleAppendEntries, Only
    <2>. QED
        BY <2>1, <2>2
<1>5. ASSUME NEW m \in msgs, HandleAppendEntriesResponse(m) PROVE Only(m.to)
    BY <1>0, <1>5 DEF HandleAppendEntriesResponse, StepDown, Only
<1>6. ASSUME NEW t \in voteTasks, SelfVote(t) PROVE UNCHANGED <<currentTerm, votedFor>>
    BY <1>6 DEF SelfVote
<1>7. CASE \/ \E t \in voteTasks : SendRequestVote(t)
           \/ \E i, j \in Server : SendAppendEntries(i, j)
           \/ \E i \in Server : AdvanceCommitIndex(i)
           \/ \E i \in Server : ApplyEntry(i)
           \/ \E i \in Server, v \in Values : SubmitOperation(i, v)
           \/ \E m \in msgs : DropMessage(m)
           \/ UNCHANGED vars
    BY <1>7 DEF SendRequestVote, SendAppendEntries, AdvanceCommitIndex, ApplyEntry,
                SubmitOperation, DropMessage, vars
<1>. QED
    BY <1>0, <1>1, <1>2, <1>3, <1>4, <1>5, <1>6, <1>7 DEF Next

(* A step of GoRaft is a step of VoteLedger or leaves the ledger alone.   *)
LEMMA LedgerStep ==
    ASSUME IInv, IInv', [Next]_vars
    PROVE  [Ledger!Next]_Ledger!ledgerVars
<1>0. /\ currentTerm \in [Server -> Nat] /\ votedFor \in [Server -> Server \cup {Nil}]
      /\ currentTerm' \in [Server -> Nat] /\ votedFor' \in [Server -> Server \cup {Nil}]
    BY DEF IInv, TypeOK
<1>1. \A i \in Server : currentTerm'[i] >= currentTerm[i]
    BY TermsGrow
<1>2. \A i \in Server : (currentTerm'[i] = currentTerm[i] /\ votedFor[i] # Nil)
                           => votedFor'[i] = votedFor[i]
    BY VoteStep
<1>3. Ledger!Shape'
    BY <1>0 DEF Ledger!Shape
<1>4. CASE UNCHANGED <<currentTerm, votedFor>>
    BY <1>4 DEF Ledger!ledgerVars
<1>5. ASSUME NEW i \in Server, Only(i) PROVE [Ledger!Next]_Ledger!ledgerVars
    <2>0. Ledger!OnlyNode(i)
        BY <1>5 DEF Only, Ledger!OnlyNode
    <2>1. CASE currentTerm'[i] > currentTerm[i]
        <3>1. Ledger!NewTerm(i)
            BY <1>3, <2>0, <2>1 DEF Ledger!NewTerm
        <3>. QED
            BY <3>1 DEF Ledger!Next
    <2>2. CASE currentTerm'[i] = currentTerm[i] /\ votedFor[i] = Nil /\ votedFor'[i] # Nil
        <3>1. votedFor'[i] \in Server
            BY <1>0, <2>2
        <3>2. Ledger!CastVote(i)
            BY <1>3, <2>0, <2>2, <3>1 DEF Ledger!CastVote
        <3>. QED
            BY <3>2 DEF Ledger!Next
    <2>3. CASE ~(currentTerm'[i] > currentTerm[i])
               /\ ~(currentTerm'[i] = currentTerm[i] /\ votedFor[i] = Nil /\ votedFor'[i] # Nil)
        <3>1. currentTerm'[i] = currentTerm[i]
            BY <1>0, <1>1, <2>3
        <3>2. votedFor'[i] = votedFor[i]
            BY <1>2, <2>3, <3>1
        <3>3. currentTerm' = currentTerm
            BY <1>0, <1>5, <3>1 DEF Only
        <3>4. votedFor' = votedFor
            BY <1>0, <1>5, <3>2 DEF Only
        <3>. QED
            BY <3>3, <3>4 DEF Ledger!ledgerVars
    <2>. QED
        BY <2>1, <2>2, <2>3
<1>. QED
    BY <1>4, <1>5, OneNode

(* The persistent term and vote of every node evolve as VoteLedger says: *)
(* a node's term only grows (becomeCandidate and becomeFollower, part_003 *)
(* lines 1366-1382, only ever raise it), and a vote cast in a term stays  *)
(* until the term changes (the RequestVote handler, lines 477-541).      *)
THEOREM VoteLedgerRefinement == Spec => VoteLedgerRefined
<1>1. Init => Ledger!Init
    BY DEF Init, Ledger!Init
<1>2. Init => IInv
    BY InitIInv
<1>3. IInv /\ [Next]_vars => IInv'
    BY NextIInv
<1>4. IInv /\ IInv' /\ [Next]_vars => [Ledger!Next]_Ledger!ledgerVars
    BY LedgerStep
<1>. QED
    BY <1>1, <1>2, <1>3, <1>4, PTL DEF Spec, VoteLedgerRefined, Ledger!Spec

=============================================================================
