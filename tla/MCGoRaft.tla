------------------------------ MODULE MCGoRaft ------------------------------
(* Model-checking instance of GoRaft: the servers and the payloads are     *)
(* model values.  Two servers are enough for the vote-counting race of     *)
(* sendRequestVote to make two leaders in one term; three make the state   *)
(* space too large for an exhaustive run.                                  *)
EXTENDS GoRaft, TLC

CONSTANTS s1, s2, v1, v2

MCServer == {s1, s2}
MCValues == {v1}

(* Two payloads, so that two leaders can write different operations.     *)
MCTwoValues == {v1, v2}
Symmetry == Permutations(MCServer)
=============================================================================
