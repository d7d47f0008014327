----------------------------- MODULE VoteLedger -----------------------------
(***************************************************************************)
(* What the persistent state of each node (its term and its vote, written *)
(* together by the state storage) promises the election: a node's term    *)
(* only grows, and within a term its vote, once cast, never changes.      *)
(* One node's pair moves at a time.  Election safety rests on this: a     *)
(* quorum of votes for one candidate in a term excludes another.         *)
(***************************************************************************)
EXTENDS Naturals

CONSTANTS Server, Nil

VARIABLES term, vote

ledgerVars == <<term, vote>>

Shape ==
    /\ term \in [Server -> Nat]
    /\ vote \in [Server -> Server \cup {Nil}]

Init ==
    /\ term = [i \in Server |-> 0]
    /\ vote = [i \in Server |-> Nil]

(* No node other than i changes its term or its vote.                    *)
OnlyNode(i) ==
    \A j \in Server \ {i} : term'[j] = term[j] /\ vote'[j] = vote[j]

(* Node i moves to a higher term, with any vote (none, or one cast in the *)
(* same step).                                                            *)
NewTerm(i) ==
    /\ Shape'
    /\ term'[i] > term[i]
    /\ OnlyNode(i)

(* Node i casts its vote in its current term; it had none.               *)
CastVote(i) ==
    /\ Shape'
    /\ vote[i] = Nil
    /\ vote'[i] \in Server
    /\ term'[i] = term[i]
    /\ OnlyNode(i)

Next == \E i \in Server : NewTerm(i) \/ CastVote(i)

Spec == Init /\ [][Next]_ledgerVars

=============================================================================
