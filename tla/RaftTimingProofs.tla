-------------------------- MODULE RaftTimingProofs --------------------------
(***************************************************************************)
(* Proofs about RaftTiming for every configuration NewRaft accepts, every *)
(* delivery bound, clock granularity and horizon.                         *)
(*                                                                         *)
(* The argument: lastContact is never older than one heartbeat interval   *)
(* plus one delivery time from the next contact, because some heartbeat   *)
(* that arrives by then is always in flight or about to be sent (Contact). *)
(* Time never passes a due arrival or wake-up (Order), so when the         *)
(* election loop wakes, now - lastContact is at most H + MaxDelay.        *)
(***************************************************************************)
EXTENDS RaftTiming, TLAPS, WellFoundedInduction

H == cfg.heartbeatInterval
T == cfg.electionTimeout

(* A non-empty set of naturals bounded by b has a greatest element.       *)
LEMMA GreatestExists ==
    ASSUME NEW S \in SUBSET Nat, NEW b \in Nat, S # {}, \A x \in S : x <= b
    PROVE  \E k \in S : \A l \in S : l <= k
<1>. DEFINE D == {b - x : x \in S}
<1>1. D \in SUBSET Nat /\ D # {}
    <2>1. \A x \in S : b - x \in Nat
        OBVIOUS
    <2>2. D # {}
        OBVIOUS
    <2>. QED
        BY <2>1, <2>2
<1>2. PICK t \in D : \A y \in D : ~(<<y, t>> \in OpToRel(<, Nat))
    BY <1>1, NatLessThanWellFounded, WFMin
<1>3. \A y \in D : t <= y
    <2>. TAKE y \in D
    <2>1. ~(<<y, t>> \in OpToRel(<, Nat))
        BY <1>2
    <2>2. ~(y < t)
        BY <1>1, <2>1 DEF OpToRel
    <2>. QED
        BY <1>1, <2>2
<1>4. PICK x \in S : t = b - x
    BY <1>2
<1>5. \A l \in S : l <= x
    <2>. TAKE l \in S
    <2>1. b - l \in D
        OBVIOUS
    <2>. QED
        BY <1>3, <1>4, <2>1
<1>. QED
    BY <1>4, <1>5

(* The field an option sets last is a natural number.                     *)
LEMMA LastSetNat ==
    ASSUME NEW n \in Nat, NEW seq \in [1..n -> OptionChoices], NEW kind
    PROVE  LastSet(seq, kind) \in Nat
<1>. DEFINE K == {k \in DOMAIN seq : seq[k].kind = kind}
<1>1. CASE K = {}
    BY <1>1 DEF LastSet
<1>2. CASE K # {}
    <2>0. K \in SUBSET Nat /\ \A x \in K : x <= n
        OBVIOUS
    <2>1. \E k \in K : \A l \in K : l <= k
        BY <1>2, <2>0, GreatestExists
    <2>2. (CHOOSE k \in K : \A l \in K : l <= k) \in 1..n
        BY <2>1
    <2>3. \A k \in 1..n : seq[k].value \in Nat
        BY TimingAssumption
    <2>. QED
        BY <1>2, <2>2, <2>3 DEF LastSet
<1>. QED
    BY <1>1, <1>2

(* Every configuration NewRaft accepts has numeric timeouts.              *)
LEMMA ConfigsNat ==
    ASSUME NEW c \in Configs
    PROVE  c.heartbeatInterval \in Nat /\ c.electionTimeout \in Nat
<1>0. PICK n \in 0..MaxOptions :
          \E seq \in [1..n -> OptionChoices] : c = NewRaftOptions(seq) /\ c # OptionErr
    BY DEF Configs
<1>1. PICK seq \in [1..n -> OptionChoices] : c = NewRaftOptions(seq) /\ c # OptionErr
    BY <1>0
<1>2. ~\E k \in DOMAIN seq : ~OptionAccepted(seq[k])
    BY <1>1 DEF NewRaftOptions
<1>3. LastSet(seq, "heartbeatInterval") \in Nat /\ LastSet(seq, "electionTimeout") \in Nat
    BY <1>0, LastSetNat, TimingAssumption
<1>. QED
    BY <1>1, <1>2, <1>3 DEF NewRaftOptions, defaultHeartbeat, defaultElectionTimeout

-----------------------------------------------------------------------------
TypeInv ==
    /\ H \in Nat /\ T \in Nat
    /\ now \in Nat /\ hbWake \in Nat /\ elWake \in Nat /\ lastContact \in Nat
    /\ inFlight \in SUBSET Nat
    /\ candidate \in BOOLEAN

(* No event is in the past, and the next heartbeat is at most one        *)
(* interval away.                                                         *)
Order ==
    /\ lastContact <= now
    /\ now <= hbWake /\ hbWake <= now + H
    /\ now <= elWake
    /\ \A a \in inFlight : now <= a

(* Some heartbeat reaches the follower within H + MaxDelay of its last    *)
(* contact: one in flight, or the one the leader sends next.              *)
Contact ==
    \E a \in inFlight \cup {hbWake + MaxDelay} : a <= lastContact + H + MaxDelay

IInv == TypeInv /\ Order /\ Contact /\ TimelyHeartbeatsPreventElection

LEMMA InitIInv == Init => IInv
<1>. SUFFICES ASSUME Init PROVE IInv
    OBVIOUS
<1>1. H \in Nat /\ T \in Nat
    BY ConfigsNat DEF Init, H, T
<1>2. elWake \in Nat
    BY <1>1 DEF Init, ElectionSleeps, T
<1>3. PICK d \in Delays : inFlight = {d}
    BY DEF Init
<1>4. d \in Nat
    BY <1>3 DEF Delays
<1>5. TypeInv
    BY <1>1, <1>2, <1>3, <1>4 DEF Init, TypeInv, H, T
<1>6. Order
    BY <1>1, <1>2, <1>3, <1>4 DEF Init, Order, H
<1>7. Contact
    <2>1. hbWake + MaxDelay <= lastContact + H + MaxDelay
        BY <1>1, TimingAssumption DEF Init, H
    <2>. QED
        BY <2>1 DEF Contact
<1>8. TimelyHeartbeatsPreventElection
    BY DEF Init, TimelyHeartbeatsPreventElection
<1>. QED
    BY <1>5, <1>6, <1>7, <1>8 DEF IInv

LEMMA NextIInv == IInv /\ [Next]_vars => IInv'
<1>. SUFFICES ASSUME IInv, [Next]_vars PROVE IInv'
    OBVIOUS
<1>. USE TimingAssumption
<1>0. H' = H /\ T' = T
    BY DEF Next, vars, Heartbeat, HandleAppendEntries, ElectionTimeout, AdvanceClock, H, T
<1>1. CASE Heartbeat
    <2>1. PICK d \in Delays : inFlight' = inFlight \cup {now + d}
        BY <1>1 DEF Heartbeat
    <2>2. d \in 0..MaxDelay
        BY DEF Delays
    <2>. QED
        BY <1>0, <1>1, <2>1, <2>2
           DEF Heartbeat, IInv, TypeInv, Order, Contact, TimelyHeartbeatsPreventElection, H, T
<1>2. CASE HandleAppendEntries
    BY <1>0, <1>2
       DEF HandleAppendEntries, IInv, TypeInv, Order, Contact, TimelyHeartbeatsPreventElection, H, T
<1>3. CASE ElectionTimeout
    <2>1. PICK s \in ElectionSleeps(cfg) : elWake' = now + s
        BY <1>3 DEF ElectionTimeout
    <2>2. s \in Nat
        BY DEF IInv, TypeInv, ElectionSleeps, T
    <2>3. H + MaxDelay < T => now - lastContact < T
        BY DEF IInv, TypeInv, Order, Contact
    <2>. QED
        BY <1>0, <1>3, <2>1, <2>2, <2>3
           DEF ElectionTimeout, IInv, TypeInv, Order, Contact, TimelyHeartbeatsPreventElection, H, T
<1>4. CASE AdvanceClock
    <2>1. PICK t \in Events : /\ \A u \in Events : t <= u
                              /\ now < t /\ now' = t
        BY <1>4 DEF AdvanceClock
    <2>. QED
        BY <1>0, <1>4, <2>1
           DEF AdvanceClock, Events, IInv, TypeInv, Order, Contact, TimelyHeartbeatsPreventElection, H, T
<1>5. CASE UNCHANGED vars
    BY <1>0, <1>5 DEF vars, IInv, TypeInv, Order, Contact, TimelyHeartbeatsPreventElection, H, T
<1>. QED
    BY <1>1, <1>2, <1>3, <1>4, <1>5 DEF Next

(* The follower of a live leader never becomes a candidate when the      *)
(* heartbeat interval plus the delivery time is below the election        *)
(* timeout: electionLoop's lastContact check (part_003 line 1158) always *)
(* returns early, for every configuration NewRaft accepts.               *)
THEOREM TimelyHeartbeatsSafe == Spec => []TimelyHeartbeatsPreventElection
<1>1. Init => IInv
    BY InitIInv
<1>2. IInv /\ [Next]_vars => IInv'
    BY NextIInv
<1>3. IInv => TimelyHeartbeatsPreventElection
    BY DEF IInv
<1>. QED
    BY <1>1, <1>2, <1>3, PTL DEF Spec

=============================================================================
