------------------------------ MODULE StateFile ------------------------------
(***************************************************************************)
(* What the state storage promises about state.bin, seen as whole values: *)
(* the file names one of the versions published since the last metadata  *)
(* commit, each of them a pair some SetState call wrote; publishing a    *)
(* version makes it the newest; a crash leaves exactly one of them,      *)
(* never a piece of one; and Replay recovers the newest.                 *)
(***************************************************************************)
EXTENDS Naturals, Sequences

CONSTANTS Pair, Zero

VARIABLES
    versions,  \* the values state.bin may name after a crash, oldest first
    history,   \* the pairs SetState has written, in order
    recovered  \* <<p>> when the last Replay recovered p, else <<>>

fileVars == <<versions, history, recovered>>

Init ==
    /\ versions = <<Zero>>
    /\ history = <<>>
    /\ recovered = <<>>

(* A SetState call writes pair p.                                         *)
Write(p) ==
    /\ p \in Pair
    /\ history' = Append(history, p)
    /\ UNCHANGED <<versions, recovered>>

(* The pair written last becomes the newest version.                      *)
Publish ==
    /\ history /= <<>>
    /\ versions' = Append(versions, history[Len(history)])
    /\ UNCHANGED <<history, recovered>>

(* Only the newest version survives a crash from now on.                  *)
Commit ==
    /\ Len(versions) > 1
    /\ versions' = <<versions[Len(versions)]>>
    /\ UNCHANGED <<history, recovered>>

(* A crash leaves one whole version and forgets what was recovered.      *)
Crash ==
    /\ \E k \in 1..Len(versions) : versions' = <<versions[k]>>
    /\ recovered' = <<>>
    /\ UNCHANGED history

(* Replay reads the newest version.                                       *)
Recover ==
    /\ recovered' = <<versions[Len(versions)]>>
    /\ UNCHANGED <<versions, history>>

(* Open or Close drops what was recovered.                                *)
Forget ==
    /\ recovered' = <<>>
    /\ UNCHANGED <<versions, history>>

Next ==
    \/ \E p \in Pair : Write(p)
    \/ Publish
    \/ Commit
    \/ Crash
    \/ Recover
    \/ Forget

Spec == Init /\ [][Next]_fileVars

=============================================================================
