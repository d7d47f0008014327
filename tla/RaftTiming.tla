----------------------------- MODULE RaftTiming -----------------------------
(***************************************************************************)
(* The timing of the first-revision node: the options of src/options.go   *)
(* as NewRaft applies them (src/unnamed/part_003 lines 243-263), then a   *)
(* leader's heartbeatLoop and a follower's electionLoop on a clock that   *)
(* moves from one event to the next.                                      *)
(*                                                                         *)
(* The leader's heartbeat reaches the follower within MaxDelay, and its   *)
(* AppendEntries handler sets lastContact.  The follower wakes after a    *)
(* random sleep in [T, 2T) (spec §5) and holds an election when          *)
(* lastContact is at least T old.  Sleeps end on time; the question is   *)
(* what the options let happen even then.                                 *)
(***************************************************************************)
EXTENDS Naturals, Sequences

CONSTANTS
    OptionChoices,  \* the options a caller may pass, as [kind, value] records
    MaxOptions,     \* how many options a caller passes at most
    Tick,           \* granularity of random sleeps and delays, in ms
    MaxDelay,       \* longest delivery time of a heartbeat, in milliseconds
    Horizon         \* the clock stops here, in milliseconds

ASSUME TimingAssumption ==
    /\ Tick \in Nat \ {0} /\ MaxDelay \in Nat /\ Horizon \in Nat
    /\ MaxOptions \in Nat
    /\ OptionChoices \subseteq [kind : {"electionTimeout", "heartbeatInterval",
                                        "maxEntriesPerRPC", "logger"},
                                 value : Nat]

(* The bounds and defaults of options.go, in milliseconds.                *)
minElectionTimeout == 100
maxElectionTimeout == 2000
defaultElectionTimeout == 300
minHeartbeat == 25
maxHeartbeat == 300
defaultHeartbeat == 50
minMaxEntriesPerRPC == 50
maxMaxEntriesPerRPC == 500

(* The error an Option function or NewRaft returns.                       *)
OptionErr == [failed |-> TRUE]

(* The check an Option function makes before it sets its field: the     *)
(* bounds of WithElectionTimeout, WithHeartbeatInterval and               *)
(* WithMaxEntriesPerRPC, and WithLogger's nil check (value 0 is nil).     *)
OptionAccepted(o) ==
    CASE o.kind = "electionTimeout" ->
            o.value \in minElectionTimeout..maxElectionTimeout
      [] o.kind = "heartbeatInterval" ->
            o.value \in minHeartbeat..maxHeartbeat
      [] o.kind = "maxEntriesPerRPC" ->
            o.value \in minMaxEntriesPerRPC..maxMaxEntriesPerRPC
      [] o.kind = "logger" -> o.value /= 0

(* The field an accepted option of this kind sets last in the options     *)
(* struct, or zero when no option sets it.                                *)
LastSet(seq, kind) ==
    LET K == {k \in DOMAIN seq : seq[k].kind = kind}
    IN IF K = {} THEN 0 ELSE seq[CHOOSE k \in K : \A l \in K : l <= k].value

(* NewRaft: the options are applied in order and the first error aborts  *)
(* the call; each accepted one sets only its own field, to a non-zero    *)
(* value.  So NewRaft fails iff some option fails, and otherwise each    *)
(* field holds the value of the last option of its kind, or the default  *)
(* when it was left at zero (maxEntriesPerRPC has no default here).      *)
NewRaftOptions(seq) ==
    IF \E k \in DOMAIN seq : ~OptionAccepted(seq[k]) THEN OptionErr
    ELSE LET WithDefault(kind, dflt) ==
                 IF LastSet(seq, kind) = 0 THEN dflt ELSE LastSet(seq, kind)
         IN [electionTimeout |-> WithDefault("electionTimeout", defaultElectionTimeout),
             heartbeatInterval |-> WithDefault("heartbeatInterval", defaultHeartbeat),
             maxEntriesPerRPC |-> LastSet(seq, "maxEntriesPerRPC"),
             logger |-> WithDefault("logger", 1)]

(* The configurations NewRaft accepts from some call.                     *)
Configs ==
    LET calls == UNION {[1..n -> OptionChoices] : n \in 0..MaxOptions}
    IN {NewRaftOptions(s) : s \in calls} \ {OptionErr}

VARIABLES
    cfg,          \* r.options
    now,          \* the clock
    hbWake,       \* when the leader's heartbeatLoop sleep ends
    elWake,       \* when the follower's electionLoop sleep ends
    inFlight,     \* arrival deadlines of heartbeats on their way
    lastContact,  \* the follower's r.lastContact
    candidate     \* the follower has become a candidate

vars == <<cfg, now, hbWake, elWake, inFlight, lastContact, candidate>>

(* The delivery times of a heartbeat, on a grid of Tick milliseconds.     *)
Delays == {d \in 0..MaxDelay : d % Tick = 0}

(* util.RandomTimeout(T, 2T), on the same grid.                           *)
ElectionSleeps(c) ==
    {c.electionTimeout + d : d \in {x \in 0..(c.electionTimeout - 1) : x % Tick = 0}}

(* Start: both nodes set lastContact = now and launch their loops; the    *)
(* leader's becomeLeader sends its first heartbeat at once.               *)
Init ==
    /\ cfg \in Configs
    /\ now = 0
    /\ hbWake = cfg.heartbeatInterval
    /\ elWake \in ElectionSleeps(cfg)
    /\ inFlight \in {{d} : d \in Delays}
    /\ lastContact = 0
    /\ candidate = FALSE

(* heartbeatLoop: after its sleep the leader sends AppendEntries, which   *)
(* arrives within MaxDelay, and sleeps again.                             *)
Heartbeat ==
    /\ now = hbWake
    /\ \E d \in Delays : inFlight' = inFlight \cup {now + d}
    /\ hbWake' = now + cfg.heartbeatInterval
    /\ UNCHANGED <<cfg, now, elWake, lastContact, candidate>>

(* The follower's AppendEntries handler: r.lastContact = time.Now().      *)
HandleAppendEntries ==
    /\ now \in inFlight
    /\ inFlight' = inFlight \ {now}
    /\ lastContact' = now
    /\ UNCHANGED <<cfg, now, hbWake, elWake, candidate>>

(* Mutant of ElectionTimeout: election() has lost its early return.     *)
ElectionTimeoutNoCheck ==
    /\ now = elWake
    /\ candidate' = TRUE
    /\ \E s \in ElectionSleeps(cfg) : elWake' = now + s
    /\ UNCHANGED <<cfg, now, hbWake, inFlight, lastContact>>

(* electionLoop wakes and calls election(): it returns early when the    *)
(* node is no longer a follower or was contacted less than               *)
(* electionTimeout ago, else it becomes a candidate.  Then it sleeps.     *)
ElectionTimeout ==
    /\ now = elWake
    /\ candidate' = (candidate \/ now - lastContact >= cfg.electionTimeout)
    /\ \E s \in ElectionSleeps(cfg) : elWake' = now + s
    /\ UNCHANGED <<cfg, now, hbWake, inFlight, lastContact>>

(* Time passes when no loop is due and no heartbeat is arriving: the     *)
(* clock moves to the next wake-up or arrival.                            *)
Events == {hbWake, elWake} \cup inFlight
AdvanceClock ==
    /\ \E t \in Events :
          /\ \A u \in Events : t <= u
          /\ now < t /\ t <= Horizon
          /\ now' = t
    /\ UNCHANGED <<cfg, hbWake, elWake, inFlight, lastContact, candidate>>

Next == Heartbeat \/ HandleAppendEntries \/ ElectionTimeout \/ AdvanceClock

Spec == Init /\ [][Next]_vars

-----------------------------------------------------------------------------
(* Raft's timing requirement, which the option checks do not impose: a   *)
(* follower whose leader is alive and whose heartbeats arrive within     *)
(* MaxDelay never starts an election.                                     *)
NoElectionUnderLiveLeader == ~candidate

(* The same, for the configurations where a heartbeat interval plus the  *)
(* delivery time stays below the election timeout: then electionLoop's   *)
(* lastContact check (part_003 line 1158) always returns early.           *)
TimelyHeartbeatsPreventElection ==
    cfg.heartbeatInterval + MaxDelay < cfg.electionTimeout => ~candidate

=============================================================================
