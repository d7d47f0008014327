---------------------------- MODULE MCRaftTiming ----------------------------
(* The TLC instance of RaftTiming: up to two options from a set that has  *)
(* values below, inside and above each bound, a 25 ms clock, heartbeats   *)
(* delivered within 25 ms, and 900 ms of time.                            *)
EXTENDS RaftTiming, TLC

MCOptionChoices ==
    {[kind |-> "electionTimeout", value |-> v] : v \in {75, 100, 300}}
    \cup {[kind |-> "heartbeatInterval", value |-> v] : v \in {50, 300, 325}}
    \cup {[kind |-> "maxEntriesPerRPC", value |-> v] : v \in {40, 100}}
    \cup {[kind |-> "logger", value |-> v] : v \in {0, 2}}

=============================================================================
