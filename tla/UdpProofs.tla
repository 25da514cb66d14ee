------------------------------ MODULE UdpProofs -----------------------------
(***************************************************************************)
(* Proofs about Udp, for any configurations, any number of flows, requests *)
(* and faults: no reply is measured twice, a proven path is the path of an *)
(* operation, corruption is damage, and the counters add up.               *)
(*                                                                         *)
(* The argument follows a packet: it carries the proof flag of a request   *)
(* that asked for it, it is intact unless something was damaged, and in a  *)
(* PPS workload its time was stored before it was written.  The counters   *)
(* are an account: what was sent is what was measured, what timed out or   *)
(* was refused, and what is still awaited.                                 *)
(***************************************************************************)
EXTENDS Udp, Sums

(* No reply is measured twice in a flow: a part of RequestsMeasuredOnce.   *)
NoneMeasuredTwice == \A f \in Flows : IsInjective(latencies[f])

PacketType ==
  [flow : Nat, sequence : Int, proof : BOOLEAN, reply : BOOLEAN, intact : BOOLEAN, copy : BOOLEAN]

(* The packets of a flow that the network may carry. *)
Traced(f) ==
  {p \in PacketType :
     /\ p.flow = f
     /\ p.proof => config.proof
     /\ p.intact \/ damaged
     /\ config.mode = "pps" => p.sequence \in stamped[f]}

UTypes ==
  /\ config \in Configs
  /\ index \in Nat
  /\ completed \in [Flows -> Nat]
  /\ previous \in [Flows -> Int]
  /\ pc \in [Flows -> {"dial", "send", "wait", "receive", "done", "broken"}]
  /\ flagged \in [Flows -> BOOLEAN] /\ paths \in [Flows -> BOOLEAN]
  /\ latencies \in [Flows -> Seq(Int)]
  /\ stamped \in [Flows -> SUBSET Int] /\ seen \in [Flows -> SUBSET Int]
  /\ sender \in {"start", "send", "write", "closed"}
  /\ damaged \in BOOLEAN
  /\ DOMAIN counters = Counter /\ counters["corrupt"] \in Nat

WireTraced == \A p \in wire : p.flow \in Flows /\ p \in Traced(p.flow)

InboxTraced ==
  /\ DOMAIN inbox = Flows
  /\ \A f \in Flows : inbox[f] \in Seq(Traced(f))

(* The request under way asks for proof exactly while there is none. *)
AskedForNow == \A f \in Flows : pc[f] = "wait" => flagged[f] = AsksForProof(f)

(* A packet that is about to be written has its time. *)
StampedFirst ==
  config.mode = "pps" /\ sender = "write" => NextSequence \in stamped[NextFlow]

(* What was measured is behind the flow: not above the greatest sequence   *)
(* number in an echo workload, among those seen in a PPS workload.         *)
MeasuredIsBehind ==
  \A f \in Flows : \A i \in DOMAIN latencies[f] :
    /\ config.mode = "echo" => latencies[f][i] <= previous[f]
    /\ config.mode = "pps" => latencies[f][i] \in seen[f]

(* The packets that have a time, one of which may not be sent yet, are     *)
(* dealt to the flows in turn.                                             *)
Dealt(k) == \A f \in Flows : stamped[f] = 1 .. PerWorker(k, config.flows, f)

Scheduled ==
  config.mode = "pps" =>
    /\ index <= config.requests
    /\ sender \in {"start", "send"} => Dealt(index)
    /\ sender = "write" => index < config.requests /\ Dealt(index + 1)
    /\ sender = "closed" => index < config.requests /\ (Dealt(index) \/ Dealt(index + 1))

UInv ==
  /\ UTypes
  /\ WireTraced
  /\ InboxTraced
  /\ AskedForNow
  /\ StampedFirst
  /\ Scheduled
  /\ MeasuredIsBehind
  /\ NoneMeasuredTwice
  /\ OperationsProveThePath
  /\ CorruptionIsDamage
-----------------------------------------------------------------------------
(* Quotient and remainder are unique, and grow with the number. *)
LEMMA QuotientsGrow ==
  ASSUME NEW n \in Nat \ {0}, NEW q \in Nat, NEW p \in Nat,
         NEW r \in 0 .. n - 1, NEW s \in 0 .. n - 1, n * q + r <= n * p + s
  PROVE  q < p \/ (q = p /\ r <= s)
<1>1. CASE q > p
  <2>1. n * (q - p) >= n
    BY <1>1
  <2>2. n * (q - p) <= s - r
    OBVIOUS
  <2> QED
    BY <2>1, <2>2
<1>2. CASE q <= p
  BY <1>2
<1> QED
  BY <1>1, <1>2

(* One packet more goes to the next flow, and to no other. *)
LEMMA DealsInTurn ==
  ASSUME NEW i \in Nat, NEW n \in Nat \ {0}, NEW f \in 0 .. n - 1
  PROVE  /\ PerWorker(i, n, f) \in Nat
         /\ PerWorker(i + 1, n, f) = PerWorker(i, n, f) + (IF f = i % n THEN 1 ELSE 0)
<1> DEFINE q == i \div n
           r == i % n
           p == (i + 1) \div n
           s == (i + 1) % n
<1>1. q \in Nat /\ p \in Nat /\ r \in 0 .. n - 1 /\ s \in 0 .. n - 1
  <2>1. i + 1 \in Nat
    OBVIOUS
  <2> QED
    BY <2>1, Quotient
<1>2. n * q + r + 1 = n * p + s
  BY Quotient
<1>3. PerWorker(i, n, f) = q + (IF f < r THEN 1 ELSE 0)
  BY DEF PerWorker
<1>4. PerWorker(i + 1, n, f) = p + (IF f < s THEN 1 ELSE 0)
  BY DEF PerWorker
<1> HIDE DEF q, r, p, s
<1>5. q < p \/ (q = p /\ r <= s)
  <2>1. n * q + r <= n * p + s
    BY <1>1, <1>2
  <2> QED
    BY <1>1, <2>1, QuotientsGrow
<1>6. CASE q = p
  <2>1. s = r + 1
    BY <1>1, <1>2, <1>6
  <2> QED
    BY <1>1, <1>3, <1>4, <1>6, <2>1 DEF r
<1>7. CASE q < p
  <2>1. n * (p - q) = r + 1 - s
    BY <1>1, <1>2
  <2>2. p - q = 1
    <3>1. CASE p - q >= 2
      <4>1. n * (p - q) >= 2 * n
        BY <1>1, <3>1
      <4> QED
        BY <1>1, <2>1, <4>1
    <3> QED
      BY <1>1, <1>7, <3>1
  <2>3. r = n - 1 /\ s = 0
    BY <1>1, <2>1, <2>2
  <2> QED
    BY <1>1, <1>3, <1>4, <2>2, <2>3 DEF r
<1> QED
  BY <1>5, <1>6, <1>7

LEMMA DealsMore ==
  ASSUME NEW i \in Nat, NEW k \in Nat, i <= k, NEW n \in Nat \ {0}, NEW f \in 0 .. n - 1
  PROVE  PerWorker(i, n, f) <= PerWorker(k, n, f)
<1> DEFINE q == i \div n
           r == i % n
           p == k \div n
           s == k % n
<1>1. q \in Nat /\ p \in Nat /\ r \in 0 .. n - 1 /\ s \in 0 .. n - 1
  BY Quotient
<1>2. n * q + r <= n * p + s
  BY Quotient
<1>3. PerWorker(i, n, f) = q + (IF f < r THEN 1 ELSE 0)
  BY DEF PerWorker
<1>4. PerWorker(k, n, f) = p + (IF f < s THEN 1 ELSE 0)
  BY DEF PerWorker
<1> HIDE DEF q, r, p, s
<1>5. q < p \/ (q = p /\ r <= s)
  BY <1>1, <1>2, QuotientsGrow
<1> QED
  BY <1>1, <1>3, <1>4, <1>5

(* The index of the sender names a flow and a sequence number. *)
LEMMA RoundRobin ==
  ASSUME UTypes PROVE NextFlow \in Flows /\ \A f \in Flows : Sequences(f) \in Int
<1>1. config.flows \in Nat \ {0} /\ index \in Nat
  BY UdpAssumption DEF UdpAssumption, UTypes, Config
<1>2. index % config.flows \in 0 .. config.flows - 1 /\ index \div config.flows \in Nat
  BY <1>1, Quotient
<1>3. \A f \in Flows : completed[f] \in Nat
  BY DEF UTypes
<1> QED
  BY <1>1, <1>2, <1>3 DEF NextFlow, Flows, Sequences

LEMMA CountAdds ==
  ASSUME UTypes, NEW names, Count(names)
  PROVE  /\ DOMAIN counters' = Counter
         /\ counters'["corrupt"] =
              counters["corrupt"] + (IF "corrupt" \in names THEN 1 ELSE 0)
         /\ counters'["corrupt"] \in Nat
BY DEF UTypes, Count, Counter

LEMMA CountsElsewhere ==
  ASSUME UTypes, NEW names, Count(names), "corrupt" \notin names
  PROVE  /\ DOMAIN counters' = Counter
         /\ counters'["corrupt"] = counters["corrupt"] /\ counters'["corrupt"] \in Nat
BY CountAdds DEF UTypes

(* What a longer sequence of measurements keeps. *)
LEMMA MeasuresOneMore ==
  ASSUME NEW s \in Seq(Int), NEW n \in Int
  PROVE  LET t == Append(s, n)
         IN /\ t \in Seq(Int) /\ t # <<>>
            /\ DOMAIN t = DOMAIN s \cup {Len(s) + 1}
            /\ t[Len(s) + 1] = n
            /\ \A i \in DOMAIN s : t[i] = s[i] /\ i # Len(s) + 1
OBVIOUS

LEMMA OneMoreIsInjective ==
  ASSUME NEW s \in Seq(Int), NEW n \in Int, IsInjective(s), \A i \in DOMAIN s : s[i] # n
  PROVE  IsInjective(Append(s, n))
<1> DEFINE t == Append(s, n)
<1>1. /\ DOMAIN t = DOMAIN s \cup {Len(s) + 1} /\ t[Len(s) + 1] = n
      /\ \A i \in DOMAIN s : t[i] = s[i] /\ i # Len(s) + 1
  BY MeasuresOneMore
<1> HIDE DEF t
<1>2. IsInjective(t)
  BY <1>1 DEF IsInjective
<1> QED
  BY <1>2 DEF t

(* Storing the time of the next packet deals one more. *)
LEMMA StampDeals ==
  ASSUME UInv, PPSStamp PROVE Dealt(index) => Dealt(index + 1)'
<1>1. config.flows \in Nat \ {0} /\ index \in Nat /\ Flows = 0 .. config.flows - 1
  BY UdpAssumption DEF UdpAssumption, UInv, UTypes, Config, Flows
<1>2. Flows' = Flows /\ config' = config /\ index' = index
  BY DEF PPSStamp, Flows
<1>3. Sequences(NextFlow) = PerWorker(index, config.flows, NextFlow)
  BY DEF PPSStamp, Sending, Sequences, PerWorker
<1> SUFFICES ASSUME Dealt(index), NEW f \in Flows
             PROVE  stamped'[f] = 1 .. PerWorker(index + 1, config.flows, f)
  BY <1>2 DEF Dealt
<1>4. /\ PerWorker(index, config.flows, f) \in Nat
      /\ PerWorker(index + 1, config.flows, f)
           = PerWorker(index, config.flows, f) + (IF f = NextFlow THEN 1 ELSE 0)
  BY <1>1, DealsInTurn DEF NextFlow
<1>5. CASE f # NextFlow
  BY <1>4, <1>5 DEF PPSStamp, UInv, Dealt
<1>6. CASE f = NextFlow
  <2> DEFINE k == PerWorker(index, config.flows, f)
  <2>1. stamped'[f] = stamped[f] \cup {k + 1}
    BY <1>3, <1>6 DEF PPSStamp, UInv, UTypes, NextSequence
  <2>2. stamped[f] = 1 .. k /\ k \in Nat /\ PerWorker(index + 1, config.flows, f) = k + 1
    BY <1>4, <1>6 DEF Dealt
  <2> HIDE DEF k
  <2> QED
    BY <2>1, <2>2
<1> QED
  BY <1>5, <1>6


LEMMA ServeKeeps == UInv /\ Serve => UInv'
<1> SUFFICES ASSUME UInv, Serve PROVE UInv'
  OBVIOUS
<1>0. Flows' = Flows /\ \A g : Traced(g)' = Traced(g)
  BY DEF Flows, Traced, Serve, Unchanged, ppsVars
<1>1. UTypes'
  BY <1>0 DEF UInv, UTypes, Serve, Unchanged, echoVars, ppsVars
<1>2. WireTraced'
  <2>1. PICK p \in wire : wire' \subseteq wire \cup {p, [p EXCEPT !.reply = TRUE]}
    BY DEF Serve
  <2>2. p.flow \in Flows /\ p \in Traced(p.flow)'
    BY <1>0, <2>1 DEF UInv, WireTraced
  <2>3. /\ [p EXCEPT !.reply = TRUE] \in Traced(p.flow)'
        /\ [p EXCEPT !.reply = TRUE].flow = p.flow
    BY <2>2 DEF Traced, PacketType
  <2> QED
    BY <1>0, <2>1, <2>2, <2>3 DEF UInv, WireTraced
<1>3. InboxTraced'
  BY <1>0 DEF UInv, InboxTraced, Serve
<1>4. AskedForNow'
  BY <1>0 DEF UInv, AsksForProof, AskedForNow, Serve, Unchanged, echoVars
<1>5. StampedFirst'
  BY <1>0 DEF UInv, NextFlow, NextSequence, Sequences, StampedFirst, Serve, Unchanged,
     ppsVars
<1>6. Scheduled'
  BY <1>0 DEF UInv, Dealt, Scheduled, Serve, Unchanged, ppsVars
<1>7. MeasuredIsBehind'
  BY <1>0 DEF UInv, MeasuredIsBehind, Serve, Unchanged, ppsVars
<1>8. NoneMeasuredTwice'
  BY <1>0 DEF UInv, NoneMeasuredTwice, Serve, Unchanged
<1>9. OperationsProveThePath'
  BY <1>0 DEF UInv, OperationsProveThePath, Serve, Unchanged, echoVars
<1>10. CorruptionIsDamage'
  BY <1>0 DEF UInv, CorruptionIsDamage, Serve, Unchanged
<1> QED
  BY <1>1, <1>2, <1>3, <1>4, <1>5, <1>6, <1>7, <1>8, <1>9, <1>10 DEF UInv

LEMMA DeliverKeeps == UInv /\ Deliver => UInv'
<1> SUFFICES ASSUME UInv, Deliver PROVE UInv'
  OBVIOUS
<1>0. Flows' = Flows /\ \A g : Traced(g)' = Traced(g)
  BY DEF Flows, Traced, Deliver, Unchanged, ppsVars
<1>1. UTypes'
  BY <1>0 DEF UInv, UTypes, Deliver, Unchanged, echoVars, ppsVars
<1>2. WireTraced'
  BY <1>0 DEF UInv, WireTraced, Deliver
<1>3. InboxTraced'
  <2>1. PICK p \in wire : inbox' = [inbox EXCEPT ![p.flow] = Append(@, p)]
    BY DEF Deliver
  <2>2. p.flow \in Flows /\ p \in Traced(p.flow)
    BY <2>1 DEF UInv, WireTraced
  <2>3. Append(inbox[p.flow], p) \in Seq(Traced(p.flow))
    BY <2>2 DEF UInv, InboxTraced
  <2> QED
    BY <1>0, <2>1, <2>2, <2>3 DEF UInv, InboxTraced
<1>4. AskedForNow'
  BY <1>0 DEF UInv, AsksForProof, AskedForNow, Deliver, Unchanged, echoVars
<1>5. StampedFirst'
  BY <1>0 DEF UInv, NextFlow, NextSequence, Sequences, StampedFirst, Deliver,
     Unchanged, ppsVars
<1>6. Scheduled'
  BY <1>0 DEF UInv, Dealt, Scheduled, Deliver, Unchanged, ppsVars
<1>7. MeasuredIsBehind'
  BY <1>0 DEF UInv, MeasuredIsBehind, Deliver, Unchanged, ppsVars
<1>8. NoneMeasuredTwice'
  BY <1>0 DEF UInv, NoneMeasuredTwice, Deliver, Unchanged
<1>9. OperationsProveThePath'
  BY <1>0 DEF UInv, OperationsProveThePath, Deliver, Unchanged, echoVars
<1>10. CorruptionIsDamage'
  BY <1>0 DEF UInv, CorruptionIsDamage, Deliver, Unchanged
<1> QED
  BY <1>1, <1>2, <1>3, <1>4, <1>5, <1>6, <1>7, <1>8, <1>9, <1>10 DEF UInv

LEMMA LoseKeeps == UInv /\ Lose => UInv'
<1> SUFFICES ASSUME UInv, Lose PROVE UInv'
  OBVIOUS
<1>0. Flows' = Flows /\ \A g : Traced(g)' = Traced(g)
  BY DEF Flows, Traced, Lose, Unchanged, ppsVars
<1>1. UTypes'
  BY <1>0 DEF UInv, UTypes, Lose, Unchanged, echoVars, ppsVars
<1>2. WireTraced'
  BY <1>0 DEF UInv, WireTraced, Lose
<1>3. InboxTraced'
  BY <1>0 DEF UInv, InboxTraced, Lose
<1>4. AskedForNow'
  BY <1>0 DEF UInv, AsksForProof, AskedForNow, Lose, Unchanged, echoVars
<1>5. StampedFirst'
  BY <1>0 DEF UInv, NextFlow, NextSequence, Sequences, StampedFirst, Lose, Unchanged,
     ppsVars
<1>6. Scheduled'
  BY <1>0 DEF UInv, Dealt, Scheduled, Lose, Unchanged, ppsVars
<1>7. MeasuredIsBehind'
  BY <1>0 DEF UInv, MeasuredIsBehind, Lose, Unchanged, ppsVars
<1>8. NoneMeasuredTwice'
  BY <1>0 DEF UInv, NoneMeasuredTwice, Lose, Unchanged
<1>9. OperationsProveThePath'
  BY <1>0 DEF UInv, OperationsProveThePath, Lose, Unchanged, echoVars
<1>10. CorruptionIsDamage'
  BY <1>0 DEF UInv, CorruptionIsDamage, Lose, Unchanged
<1> QED
  BY <1>1, <1>2, <1>3, <1>4, <1>5, <1>6, <1>7, <1>8, <1>9, <1>10 DEF UInv

LEMMA DuplicateKeeps == UInv /\ Duplicate => UInv'
<1> SUFFICES ASSUME UInv, Duplicate PROVE UInv'
  OBVIOUS
<1>0. Flows' = Flows /\ \A g : Traced(g)' = Traced(g)
  BY DEF Flows, Traced, Duplicate, Unchanged, ppsVars
<1>1. UTypes'
  BY <1>0 DEF UInv, UTypes, Duplicate, Unchanged, echoVars, ppsVars
<1>2. WireTraced'
  <2>1. PICK p \in wire : wire' \subseteq wire \cup {p, [p EXCEPT !.copy = TRUE]}
    BY DEF Duplicate
  <2>2. p.flow \in Flows /\ p \in Traced(p.flow)'
    BY <1>0, <2>1 DEF UInv, WireTraced
  <2>3. /\ [p EXCEPT !.copy = TRUE] \in Traced(p.flow)'
        /\ [p EXCEPT !.copy = TRUE].flow = p.flow
    BY <2>2 DEF Traced, PacketType
  <2> QED
    BY <1>0, <2>1, <2>2, <2>3 DEF UInv, WireTraced
<1>3. InboxTraced'
  BY <1>0 DEF UInv, InboxTraced, Duplicate
<1>4. AskedForNow'
  BY <1>0 DEF UInv, AsksForProof, AskedForNow, Duplicate, Unchanged, echoVars
<1>5. StampedFirst'
  BY <1>0 DEF UInv, NextFlow, NextSequence, Sequences, StampedFirst, Duplicate,
     Unchanged, ppsVars
<1>6. Scheduled'
  BY <1>0 DEF UInv, Dealt, Scheduled, Duplicate, Unchanged, ppsVars
<1>7. MeasuredIsBehind'
  BY <1>0 DEF UInv, MeasuredIsBehind, Duplicate, Unchanged, ppsVars
<1>8. NoneMeasuredTwice'
  BY <1>0 DEF UInv, NoneMeasuredTwice, Duplicate, Unchanged
<1>9. OperationsProveThePath'
  BY <1>0 DEF UInv, OperationsProveThePath, Duplicate, Unchanged, echoVars
<1>10. CorruptionIsDamage'
  BY <1>0 DEF UInv, CorruptionIsDamage, Duplicate, Unchanged
<1> QED
  BY <1>1, <1>2, <1>3, <1>4, <1>5, <1>6, <1>7, <1>8, <1>9, <1>10 DEF UInv

LEMMA DamageKeeps == UInv /\ Damage => UInv'
<1> SUFFICES ASSUME UInv, Damage PROVE UInv'
  OBVIOUS
<1>0. Flows' = Flows /\ \A g \in Flows : Traced(g) \subseteq Traced(g)'
  BY DEF UInv, Flows, Traced, Damage, Unchanged, ppsVars
<1>1. UTypes'
  BY <1>0 DEF UInv, UTypes, Damage, Unchanged, echoVars, ppsVars
<1>2. WireTraced'
  <2>1. PICK p \in wire : wire' \subseteq wire \cup {p, [p EXCEPT !.intact = FALSE]}
    BY DEF Damage
  <2>2. p.flow \in Flows /\ p \in Traced(p.flow)'
    BY <1>0, <2>1 DEF UInv, WireTraced
  <2>4. damaged'
    BY DEF Damage
  <2>3. /\ [p EXCEPT !.intact = FALSE] \in Traced(p.flow)'
        /\ [p EXCEPT !.intact = FALSE].flow = p.flow
    BY <2>2, <2>4 DEF Traced, PacketType
  <2> QED
    BY <1>0, <2>1, <2>2, <2>3 DEF UInv, WireTraced
<1>3. InboxTraced'
  BY <1>0 DEF UInv, InboxTraced, Damage
<1>4. AskedForNow'
  BY <1>0 DEF UInv, AsksForProof, AskedForNow, Damage, Unchanged, echoVars
<1>5. StampedFirst'
  BY <1>0 DEF UInv, NextFlow, NextSequence, Sequences, StampedFirst, Damage,
     Unchanged, ppsVars
<1>6. Scheduled'
  BY <1>0 DEF UInv, Dealt, Scheduled, Damage, Unchanged, ppsVars
<1>7. MeasuredIsBehind'
  BY <1>0 DEF UInv, MeasuredIsBehind, Damage, Unchanged, ppsVars
<1>8. NoneMeasuredTwice'
  BY <1>0 DEF UInv, NoneMeasuredTwice, Damage, Unchanged
<1>9. OperationsProveThePath'
  BY <1>0 DEF UInv, OperationsProveThePath, Damage, Unchanged, echoVars
<1>10. CorruptionIsDamage'
  BY <1>0 DEF UInv, CorruptionIsDamage, Damage
<1> QED
  BY <1>1, <1>2, <1>3, <1>4, <1>5, <1>6, <1>7, <1>8, <1>9, <1>10 DEF UInv

LEMMA ContextEndsKeeps == UInv /\ ContextEnds => UInv'
<1> SUFFICES ASSUME UInv, ContextEnds PROVE UInv'
  OBVIOUS
<1>0. Flows' = Flows /\ \A g : Traced(g)' = Traced(g)
  BY DEF Flows, Traced, ContextEnds, ppsVars, netVars
<1>1. UTypes'
  BY <1>0 DEF UInv, UTypes, ContextEnds, echoVars, ppsVars, netVars
<1>2. WireTraced'
  BY <1>0 DEF UInv, WireTraced, ContextEnds, netVars
<1>3. InboxTraced'
  BY <1>0 DEF UInv, InboxTraced, ContextEnds, netVars
<1>4. AskedForNow'
  BY <1>0 DEF UInv, AsksForProof, AskedForNow, ContextEnds, echoVars
<1>5. StampedFirst'
  BY <1>0 DEF UInv, NextFlow, NextSequence, Sequences, StampedFirst, ContextEnds,
     ppsVars
<1>6. Scheduled'
  BY <1>0 DEF UInv, Dealt, Scheduled, ContextEnds, ppsVars
<1>7. MeasuredIsBehind'
  BY <1>0 DEF UInv, MeasuredIsBehind, ContextEnds, ppsVars
<1>8. NoneMeasuredTwice'
  BY <1>0 DEF UInv, NoneMeasuredTwice, ContextEnds
<1>9. OperationsProveThePath'
  BY <1>0 DEF UInv, OperationsProveThePath, ContextEnds, echoVars
<1>10. CorruptionIsDamage'
  BY <1>0 DEF UInv, CorruptionIsDamage, ContextEnds, netVars
<1> QED
  BY <1>1, <1>2, <1>3, <1>4, <1>5, <1>6, <1>7, <1>8, <1>9, <1>10 DEF UInv

LEMMA DeadlinePassesKeeps == UInv /\ DeadlinePasses => UInv'
<1> SUFFICES ASSUME UInv, DeadlinePasses PROVE UInv'
  OBVIOUS
<1>0. Flows' = Flows /\ \A g : Traced(g)' = Traced(g)
  BY DEF Flows, Traced, DeadlinePasses, netVars
<1>1. UTypes'
  BY <1>0 DEF UInv, UTypes, DeadlinePasses, echoVars, netVars
<1>2. WireTraced'
  BY <1>0 DEF UInv, WireTraced, DeadlinePasses, netVars
<1>3. InboxTraced'
  BY <1>0 DEF UInv, InboxTraced, DeadlinePasses, netVars
<1>4. AskedForNow'
  BY <1>0 DEF UInv, AsksForProof, AskedForNow, DeadlinePasses, echoVars
<1>5. StampedFirst'
  BY <1>0 DEF UInv, NextFlow, NextSequence, Sequences, StampedFirst, DeadlinePasses
<1>6. Scheduled'
  BY <1>0 DEF UInv, Dealt, Scheduled, DeadlinePasses
<1>7. MeasuredIsBehind'
  BY <1>0 DEF UInv, MeasuredIsBehind, DeadlinePasses
<1>8. NoneMeasuredTwice'
  BY <1>0 DEF UInv, NoneMeasuredTwice, DeadlinePasses
<1>9. OperationsProveThePath'
  BY <1>0 DEF UInv, OperationsProveThePath, DeadlinePasses, echoVars
<1>10. CorruptionIsDamage'
  BY <1>0 DEF UInv, CorruptionIsDamage, DeadlinePasses, netVars
<1> QED
  BY <1>1, <1>2, <1>3, <1>4, <1>5, <1>6, <1>7, <1>8, <1>9, <1>10 DEF UInv

LEMMA EchoDialKeeps == ASSUME NEW f \in Flows, UInv, EchoDial(f) PROVE UInv'
<1>0. Flows' = Flows /\ \A g : Traced(g)' = Traced(g)
  BY DEF Flows, Traced, EchoDial, Echo
<1>1. UTypes'
  <2>1. config' \in Configs /\ index' \in Nat /\ damaged' \in BOOLEAN
    BY DEF UInv, UTypes, EchoDial, ppsVars
  <2>2. completed' \in [Flows -> Nat] /\ previous' \in [Flows -> Int]
    BY DEF UInv, UTypes, EchoDial, echoVars
  <2>3. pc' \in [Flows -> {"dial", "send", "wait", "receive", "done", "broken"}]
    BY DEF UInv, UTypes, EchoDial
  <2>4. flagged' \in [Flows -> BOOLEAN] /\ paths' \in [Flows -> BOOLEAN]
    BY DEF UInv, UTypes, EchoDial, echoVars
  <2>5. latencies' \in [Flows -> Seq(Int)]
    BY DEF UInv, UTypes, EchoDial
  <2>6. stamped' \in [Flows -> SUBSET Int] /\ seen' \in [Flows -> SUBSET Int]
    BY DEF UInv, UTypes, EchoDial, ppsVars
  <2>7. DOMAIN counters' = Counter /\ counters'["corrupt"] \in Nat
    BY CountAdds DEF UInv, UTypes, EchoDial, SetError
  <2>8. sender' \in {"start", "send", "write", "closed"}
    BY DEF UInv, UTypes, EchoDial, ppsVars
  <2> QED
    BY <1>0, <2>8, <2>1, <2>2, <2>3, <2>4, <2>5, <2>6, <2>7 DEF UTypes
<1>2. WireTraced'
  BY <1>0 DEF UInv, WireTraced, EchoDial
<1>3. InboxTraced'
  BY <1>0 DEF UInv, InboxTraced, EchoDial
<1>4. AskedForNow'
  BY <1>0 DEF UInv, UTypes, AsksForProof, AskedForNow, EchoDial, echoVars
<1>5. StampedFirst'
  BY <1>0 DEF UInv, NextFlow, NextSequence, Sequences, StampedFirst, EchoDial, Echo
<1>6. Scheduled'
  BY <1>0 DEF UInv, Dealt, Scheduled, EchoDial, Echo
<1>7. MeasuredIsBehind'
  BY <1>0 DEF UInv, MeasuredIsBehind, EchoDial, Echo
<1>8. NoneMeasuredTwice'
  BY <1>0 DEF UInv, NoneMeasuredTwice, EchoDial
<1>9. OperationsProveThePath'
  BY <1>0 DEF UInv, OperationsProveThePath, EchoDial, echoVars
<1>10. CorruptionIsDamage'
  <2>1. counters'["corrupt"] = counters["corrupt"]
    BY CountsElsewhere DEF UInv, EchoDial, SetError
  <2> QED
    BY <2>1 DEF UInv, CorruptionIsDamage, EchoDial
<1> QED
  BY <1>1, <1>2, <1>3, <1>4, <1>5, <1>6, <1>7, <1>8, <1>9, <1>10 DEF UInv

LEMMA EchoReturnsKeeps == ASSUME NEW f \in Flows, UInv, EchoReturns(f) PROVE UInv'
<1>0. Flows' = Flows /\ \A g : Traced(g)' = Traced(g)
  BY DEF Flows, Traced, EchoReturns, Echo, netVars
<1>1. UTypes'
  BY <1>0 DEF UInv, UTypes, EchoReturns, echoVars, ppsVars, netVars
<1>2. WireTraced'
  BY <1>0 DEF UInv, WireTraced, EchoReturns, netVars
<1>3. InboxTraced'
  BY <1>0 DEF UInv, InboxTraced, EchoReturns, netVars
<1>4. AskedForNow'
  BY <1>0 DEF UInv, AsksForProof, AskedForNow, EchoReturns, echoVars
<1>5. StampedFirst'
  BY <1>0 DEF UInv, NextFlow, NextSequence, Sequences, StampedFirst, EchoReturns, Echo
<1>6. Scheduled'
  BY <1>0 DEF UInv, Dealt, Scheduled, EchoReturns, Echo
<1>7. MeasuredIsBehind'
  BY <1>0 DEF UInv, MeasuredIsBehind, EchoReturns, Echo
<1>8. NoneMeasuredTwice'
  BY <1>0 DEF UInv, NoneMeasuredTwice, EchoReturns
<1>9. OperationsProveThePath'
  BY <1>0 DEF UInv, OperationsProveThePath, EchoReturns, echoVars
<1>10. CorruptionIsDamage'
  BY <1>0 DEF UInv, CorruptionIsDamage, EchoReturns, netVars
<1> QED
  BY <1>1, <1>2, <1>3, <1>4, <1>5, <1>6, <1>7, <1>8, <1>9, <1>10 DEF UInv

LEMMA EchoSendKeeps == ASSUME NEW f \in Flows, UInv, EchoSend(f) PROVE UInv'
<1>0. Flows' = Flows /\ \A g : Traced(g)' = Traced(g)
  BY DEF Flows, Traced, EchoSend, Echo, AsksForProof, Packet
<1>1. UTypes'
  <2>1. config' \in Configs /\ index' \in Nat /\ damaged' \in BOOLEAN
    BY DEF UInv, UTypes, EchoSend, AsksForProof, Packet, ppsVars
  <2>2. completed' \in [Flows -> Nat] /\ previous' \in [Flows -> Int]
    BY DEF UInv, UTypes, EchoSend, AsksForProof, Packet
  <2>3. pc' \in [Flows -> {"dial", "send", "wait", "receive", "done", "broken"}]
    BY DEF UInv, UTypes, EchoSend, AsksForProof, Packet
  <2>4. flagged' \in [Flows -> BOOLEAN] /\ paths' \in [Flows -> BOOLEAN]
    BY DEF UInv, UTypes, EchoSend, AsksForProof, Packet
  <2>5. latencies' \in [Flows -> Seq(Int)]
    BY DEF UInv, UTypes, EchoSend, AsksForProof, Packet
  <2>6. stamped' \in [Flows -> SUBSET Int] /\ seen' \in [Flows -> SUBSET Int]
    BY DEF UInv, UTypes, EchoSend, AsksForProof, Packet, ppsVars
  <2>7. DOMAIN counters' = Counter /\ counters'["corrupt"] \in Nat
    BY CountAdds DEF UInv, EchoSend, AsksForProof, Packet, SetError
  <2>8. sender' \in {"start", "send", "write", "closed"}
    BY DEF UInv, UTypes, EchoSend, ppsVars
  <2> QED
    BY <1>0, <2>8, <2>1, <2>2, <2>3, <2>4, <2>5, <2>6, <2>7 DEF UTypes
<1>2. WireTraced'
  <2> DEFINE q == Packet(f, completed[f] + 1, AsksForProof(f))
  <2>1. config.mode = "echo" /\ f \in Nat /\ completed[f] + 1 \in Int
    BY DEF EchoSend, Echo, UInv, UTypes, Flows
  <2>2. AsksForProof(f) \in BOOLEAN /\ (AsksForProof(f) => config.proof)
    BY DEF AsksForProof
  <2>3. q.flow = f /\ q \in Traced(f)
    BY <2>1, <2>2 DEF Packet, Traced, PacketType
  <2>4. wire' \subseteq wire \cup {q}
    BY DEF EchoSend
  <2> HIDE DEF q
  <2> QED
    BY <1>0, <2>3, <2>4 DEF UInv, WireTraced
<1>3. InboxTraced'
  BY <1>0 DEF UInv, InboxTraced, EchoSend, AsksForProof, Packet
<1>4. AskedForNow'
  BY <1>0 DEF UInv, UTypes, AsksForProof, AskedForNow, EchoSend, Packet
<1>5. StampedFirst'
  BY <1>0 DEF UInv, NextFlow, NextSequence, Sequences, StampedFirst, EchoSend, Echo,
     AsksForProof, Packet
<1>6. Scheduled'
  BY <1>0 DEF UInv, Dealt, Scheduled, EchoSend, Echo, AsksForProof, Packet
<1>7. MeasuredIsBehind'
  BY <1>0 DEF UInv, MeasuredIsBehind, EchoSend, Echo, AsksForProof, Packet
<1>8. NoneMeasuredTwice'
  BY <1>0 DEF UInv, NoneMeasuredTwice, EchoSend, AsksForProof, Packet
<1>9. OperationsProveThePath'
  BY <1>0 DEF UInv, OperationsProveThePath, EchoSend, AsksForProof, Packet
<1>10. CorruptionIsDamage'
  <2>1. counters'["corrupt"] = counters["corrupt"]
    BY CountsElsewhere DEF UInv, EchoSend, SetError
  <2> QED
    BY <2>1 DEF UInv, CorruptionIsDamage, EchoSend
<1> QED
  BY <1>1, <1>2, <1>3, <1>4, <1>5, <1>6, <1>7, <1>8, <1>9, <1>10 DEF UInv

LEMMA EchoTimeoutKeeps == ASSUME NEW f \in Flows, UInv, EchoTimeout(f) PROVE UInv'
<1>0. Flows' = Flows /\ \A g : Traced(g)' = Traced(g)
  BY DEF Flows, Traced, EchoTimeout, Echo, NextRequest, netVars
<1>1. UTypes'
  BY <1>0 DEF UInv, UTypes, EchoTimeout, NextRequest, Count, ppsVars, netVars, Counter
<1>2. WireTraced'
  BY <1>0 DEF UInv, WireTraced, EchoTimeout, NextRequest, netVars
<1>3. InboxTraced'
  BY <1>0 DEF UInv, InboxTraced, EchoTimeout, NextRequest, netVars
<1>4. AskedForNow'
  BY <1>0 DEF UInv, AsksForProof, AskedForNow, EchoTimeout, NextRequest
<1>5. StampedFirst'
  BY <1>0 DEF UInv, NextFlow, NextSequence, Sequences, StampedFirst, EchoTimeout,
     Echo, NextRequest
<1>6. Scheduled'
  BY <1>0 DEF UInv, Dealt, Scheduled, EchoTimeout, Echo, NextRequest
<1>7. MeasuredIsBehind'
  BY <1>0 DEF UInv, MeasuredIsBehind, EchoTimeout, Echo, NextRequest
<1>8. NoneMeasuredTwice'
  BY <1>0 DEF UInv, NoneMeasuredTwice, EchoTimeout, NextRequest
<1>9. OperationsProveThePath'
  BY <1>0 DEF UInv, OperationsProveThePath, EchoTimeout, NextRequest
<1>10. CorruptionIsDamage'
  <2>1. counters'["corrupt"] = counters["corrupt"]
    BY CountsElsewhere DEF UInv, EchoTimeout
  <2> QED
    BY <2>1 DEF UInv, CorruptionIsDamage, EchoTimeout, netVars
<1> QED
  BY <1>1, <1>2, <1>3, <1>4, <1>5, <1>6, <1>7, <1>8, <1>9, <1>10 DEF UInv

LEMMA EchoReadErrorKeeps == ASSUME NEW f \in Flows, UInv, EchoReadError(f) PROVE UInv'
<1>0. Flows' = Flows /\ \A g : Traced(g)' = Traced(g)
  BY DEF Flows, Traced, EchoReadError, Echo
<1>1. UTypes'
  BY <1>0 DEF UInv, UTypes, EchoReadError, SetError, echoVars, ppsVars, Count, Counter
<1>2. WireTraced'
  BY <1>0 DEF UInv, WireTraced, EchoReadError
<1>3. InboxTraced'
  BY <1>0 DEF UInv, InboxTraced, EchoReadError
<1>4. AskedForNow'
  BY <1>0 DEF UInv, AsksForProof, AskedForNow, EchoReadError, echoVars
<1>5. StampedFirst'
  BY <1>0 DEF UInv, NextFlow, NextSequence, Sequences, StampedFirst, EchoReadError,
     Echo
<1>6. Scheduled'
  BY <1>0 DEF UInv, Dealt, Scheduled, EchoReadError, Echo
<1>7. MeasuredIsBehind'
  BY <1>0 DEF UInv, MeasuredIsBehind, EchoReadError, Echo
<1>8. NoneMeasuredTwice'
  BY <1>0 DEF UInv, NoneMeasuredTwice, EchoReadError
<1>9. OperationsProveThePath'
  BY <1>0 DEF UInv, OperationsProveThePath, EchoReadError, echoVars
<1>10. CorruptionIsDamage'
  <2>1. counters'["corrupt"] = counters["corrupt"]
    BY CountsElsewhere DEF UInv, EchoReadError, SetError
  <2> QED
    BY <2>1 DEF UInv, CorruptionIsDamage, EchoReadError
<1> QED
  BY <1>1, <1>2, <1>3, <1>4, <1>5, <1>6, <1>7, <1>8, <1>9, <1>10 DEF UInv

LEMMA EchoReadKeeps == ASSUME NEW f \in Flows, UInv, EchoRead(f) PROVE UInv'
<1>0. Flows' = Flows /\ \A g : Traced(g)' = Traced(g)
  BY DEF Flows, Traced, EchoRead, Echo, NextRequest, WellFormed, Got, Accepts
<1> DEFINE p == Got(f)
<1>g. p \in Traced(f) /\ p.sequence \in Int
  <2>1. inbox[f] \in Seq(Traced(f)) /\ inbox[f] # <<>>
    BY DEF UInv, InboxTraced, EchoRead
  <2>2. Head(inbox[f]) \in Traced(f)
    BY <2>1
  <2> QED
    BY <2>2 DEF Got, Traced, PacketType
<1>h. \/ UNCHANGED <<latencies, previous, paths>>
      \/ /\ latencies' = [latencies EXCEPT ![f] = Append(@, p.sequence)]
         /\ previous' = [previous EXCEPT ![f] = p.sequence]
         /\ paths' = [paths EXCEPT ![f] = @ \/ flagged[f]]
         /\ p.proof = flagged[f] /\ p.sequence > previous[f]
  BY DEF EchoRead, WellFormed, Accepts
<1>c. /\ DOMAIN counters' = Counter /\ counters'["corrupt"] \in Nat
      /\ counters'["corrupt"] = counters["corrupt"] \/ ~WellFormed(f, p)
  <2>1. CASE ~WellFormed(f, p)
    BY <2>1, CountAdds DEF EchoRead, UInv
  <2>2. CASE WellFormed(f, p) /\ ~Accepts(f, p)
    BY <2>2, CountsElsewhere DEF EchoRead, UInv
  <2>3. CASE WellFormed(f, p) /\ Accepts(f, p)
    BY <2>3, CountsElsewhere DEF EchoRead, UInv
  <2> QED
    BY <2>1, <2>2, <2>3
<1>m. config.mode = "echo" /\ pc[f] = "wait"
  BY DEF EchoRead, Echo
<1> HIDE DEF p
<1>1. UTypes'
  <2>1. config' \in Configs /\ index' \in Nat /\ damaged' \in BOOLEAN
    BY DEF UInv, UTypes, EchoRead, NextRequest, WellFormed, Got, Accepts, ppsVars
  <2>2. completed' \in [Flows -> Nat] /\ previous' \in [Flows -> Int]
    BY <1>g, <1>h DEF UInv, UTypes, EchoRead, NextRequest
  <2>3. pc' \in [Flows -> {"dial", "send", "wait", "receive", "done", "broken"}]
    BY DEF UInv, UTypes, EchoRead, NextRequest, WellFormed, Got, Accepts
  <2>4. flagged' \in [Flows -> BOOLEAN] /\ paths' \in [Flows -> BOOLEAN]
    BY <1>h DEF UInv, UTypes, EchoRead, NextRequest
  <2>5. latencies' \in [Flows -> Seq(Int)]
    <3>1. Append(latencies[f], p.sequence) \in Seq(Int)
      BY <1>g DEF UInv, UTypes
    <3> QED
      BY <1>h, <3>1 DEF UInv, UTypes
  <2>6. stamped' \in [Flows -> SUBSET Int] /\ seen' \in [Flows -> SUBSET Int]
    BY <1>g, <1>h DEF UInv, UTypes, EchoRead, NextRequest, ppsVars
  <2>7. DOMAIN counters' = Counter /\ counters'["corrupt"] \in Nat
    BY <1>c
  <2>8. sender' \in {"start", "send", "write", "closed"}
    BY DEF UInv, UTypes, EchoRead, ppsVars
  <2> QED
    BY <1>0, <2>8, <2>1, <2>2, <2>3, <2>4, <2>5, <2>6, <2>7 DEF UTypes
<1>2. WireTraced'
  BY <1>0 DEF UInv, WireTraced, EchoRead, NextRequest, WellFormed, Got, Accepts
<1>3. InboxTraced'
  BY <1>0 DEF UInv, InboxTraced, EchoRead, NextRequest, WellFormed, Got, Accepts
<1>4. AskedForNow'
  BY <1>0 DEF UInv, UTypes, AsksForProof, AskedForNow, EchoRead, NextRequest,
     WellFormed, Got, Accepts
<1>5. StampedFirst'
  BY <1>0 DEF UInv, NextFlow, NextSequence, Sequences, StampedFirst, EchoRead, Echo,
     NextRequest, WellFormed, Got, Accepts
<1>6. Scheduled'
  BY <1>0 DEF UInv, Dealt, Scheduled, EchoRead, Echo, NextRequest, WellFormed, Got,
     Accepts
<1>7. MeasuredIsBehind'
  <2>1. CASE UNCHANGED <<latencies, previous, paths>>
    BY <1>0, <1>m, <2>1 DEF UInv, MeasuredIsBehind, EchoRead
  <2>2. CASE latencies' = [latencies EXCEPT ![f] = Append(@, p.sequence)]
             /\ previous' = [previous EXCEPT ![f] = p.sequence] /\ p.sequence > previous[f]
    <3> SUFFICES ASSUME NEW g \in Flows, NEW i \in DOMAIN latencies'[g]
                 PROVE  latencies'[g][i] <= previous'[g]
      BY <1>0, <1>m DEF MeasuredIsBehind, EchoRead
    <3>1. CASE g # f
      BY <1>m, <2>2, <3>1 DEF UInv, MeasuredIsBehind
    <3>2. CASE g = f
      <4>1. latencies'[f] = Append(latencies[f], p.sequence) /\ previous'[f] = p.sequence
        BY <2>2 DEF UInv, UTypes
      <4>2. latencies[f] \in Seq(Int) /\ previous[f] \in Int
        BY DEF UInv, UTypes
      <4>3. CASE i = Len(latencies[f]) + 1
        BY <1>g, <3>2, <4>1, <4>2, <4>3, MeasuresOneMore
      <4>4. CASE i \in DOMAIN latencies[f]
        <5>1. latencies'[f][i] = latencies[f][i] /\ latencies[f][i] \in Int
          BY <1>g, <4>1, <4>2, <4>4
        <5>2. latencies[f][i] <= previous[f]
          BY <1>m, <4>4 DEF UInv, MeasuredIsBehind
        <5> QED
          BY <1>g, <2>2, <3>2, <4>1, <4>2, <5>1, <5>2
      <4> QED
        BY <1>g, <3>2, <4>1, <4>2, <4>3, <4>4, MeasuresOneMore
    <3> QED
      BY <3>1, <3>2
  <2> QED
    BY <1>h, <2>1, <2>2
<1>8. NoneMeasuredTwice'
  <2>1. CASE latencies' = latencies
    BY <1>0, <2>1 DEF UInv, NoneMeasuredTwice
  <2>2. CASE latencies' = [latencies EXCEPT ![f] = Append(@, p.sequence)]
             /\ p.sequence > previous[f]
    <3> DEFINE s == latencies[f]
    <3>1. s \in Seq(Int) /\ previous[f] \in Int /\ latencies'[f] = Append(s, p.sequence)
      BY <2>2 DEF UInv, UTypes
    <3>2. \A i \in DOMAIN s : s[i] \in Int /\ s[i] <= previous[f]
      BY <1>m, <3>1 DEF UInv, MeasuredIsBehind
    <3>3. \A i \in DOMAIN s : s[i] # p.sequence
      BY <1>g, <2>2, <3>1, <3>2
    <3>4. IsInjective(s)
      BY DEF UInv, NoneMeasuredTwice
    <3>5. IsInjective(latencies'[f])
      BY <1>g, <3>1, <3>3, <3>4, OneMoreIsInjective
    <3>6. \A g \in Flows : g # f => latencies'[g] = latencies[g]
      BY <2>2 DEF UInv
    <3> QED
      BY <1>0, <3>5, <3>6 DEF UInv, NoneMeasuredTwice
  <2> QED
    BY <1>h, <2>1, <2>2
<1>9. OperationsProveThePath'
  <2>1. CASE UNCHANGED <<latencies, previous, paths>>
    BY <1>0, <2>1 DEF UInv, OperationsProveThePath, EchoRead
  <2>2. CASE /\ latencies' = [latencies EXCEPT ![f] = Append(@, p.sequence)]
             /\ paths' = [paths EXCEPT ![f] = @ \/ flagged[f]]
    <3>1. latencies'[f] # <<>>
      BY <1>g, <2>2, MeasuresOneMore DEF UInv, UTypes
    <3>2. config.proof => paths'[f]
      BY <1>m, <2>2 DEF UInv, UTypes, AskedForNow, AsksForProof
    <3>3. \A g \in Flows : g # f => latencies'[g] = latencies[g] /\ paths'[g] = paths[g]
      BY <2>2 DEF UInv
    <3> QED
      BY <1>0, <3>1, <3>2, <3>3 DEF UInv, OperationsProveThePath, EchoRead
  <2> QED
    BY <1>h, <2>1, <2>2
<1>10. CorruptionIsDamage'
  <2>1. CASE counters'["corrupt"] = counters["corrupt"]
    BY <2>1 DEF UInv, CorruptionIsDamage, EchoRead
  <2>2. CASE ~WellFormed(f, p) /\ ~config.proof
    <3>1. ~flagged[f] /\ ~p.proof
      BY <1>g, <1>m, <2>2 DEF UInv, AskedForNow, AsksForProof, Traced
    <3>2. ~p.intact
      BY <1>g, <2>2, <3>1 DEF WellFormed, Traced, PacketType, UInv, UTypes
    <3>3. damaged
      BY <1>g, <3>2 DEF Traced
    <3> QED
      BY <3>3 DEF CorruptionIsDamage, EchoRead
  <2> QED
    BY <1>c, <2>1, <2>2 DEF CorruptionIsDamage, EchoRead
<1> QED
  BY <1>1, <1>2, <1>3, <1>4, <1>5, <1>6, <1>7, <1>8, <1>9, <1>10 DEF UInv

LEMMA PPSReadKeeps == ASSUME NEW f \in Flows, UInv, PPSRead(f) PROVE UInv'
<1>0. Flows' = Flows /\ \A g : Traced(g)' = Traced(g)
  BY DEF Flows, Traced, PPSRead, Receiving, Received, Got, Duplicated
<1> DEFINE p == Got(f)
           n == p.sequence
<1>g. p \in Traced(f) /\ n \in Int
  <2>1. inbox[f] \in Seq(Traced(f)) /\ inbox[f] # <<>>
    BY DEF UInv, InboxTraced, PPSRead
  <2>2. Head(inbox[f]) \in Traced(f)
    BY <2>1
  <2> QED
    BY <2>2 DEF Got, Traced, PacketType
<1>m. config.mode = "pps" /\ ~config.proof
  BY UdpAssumption DEF UdpAssumption, UInv, UTypes, PPSRead, Receiving
<1>h. \/ UNCHANGED <<latencies, previous, seen>>
      \/ /\ latencies' = [latencies EXCEPT ![f] = Append(@, n)] \/ latencies' = latencies
         /\ previous' = [previous EXCEPT ![f] = IF n > @ THEN n ELSE @]
         /\ seen' = [seen EXCEPT ![f] = @ \union {n}]
         /\ n \notin seen[f]
  BY DEF PPSRead, Duplicated
<1>s. n \in stamped[f]
  BY <1>g, <1>m DEF Traced
<1>c. /\ DOMAIN counters' = Counter /\ counters'["corrupt"] \in Nat
      /\ counters'["corrupt"] = counters["corrupt"] \/ ~p.intact
  <2>1. CASE ~p.intact
    BY <2>1, CountAdds DEF PPSRead, UInv
  <2>2. CASE p.intact /\ Duplicated(f, n)
    <3>1. Count({"received", "reordered"})
      BY <2>2 DEF PPSRead
    <3> QED
      BY <3>1, CountsElsewhere DEF UInv
  <2>3. CASE p.intact /\ ~Duplicated(f, n)
    <3> DEFINE names == {"received", "operations"}
                        \union (IF Behind(f, n) THEN {"reordered"} ELSE {})
    <3>1. Count(names) /\ "corrupt" \notin names
      BY <2>3, <1>s DEF PPSRead
    <3> HIDE DEF names
    <3> QED
      BY <3>1, CountsElsewhere DEF UInv
  <2> QED
    BY <2>1, <2>2, <2>3
<1> HIDE DEF p
<1>1. UTypes'
  <2>1. config' \in Configs /\ index' \in Nat /\ damaged' \in BOOLEAN
    BY DEF UInv, UTypes, PPSRead, Receiving, Received, Got, Duplicated
  <2>2. completed' \in [Flows -> Nat] /\ previous' \in [Flows -> Int]
    BY <1>g, <1>h DEF UInv, UTypes, PPSRead, Receiving, Received, echoVars
  <2>3. pc' \in [Flows -> {"dial", "send", "wait", "receive", "done", "broken"}]
    BY DEF UInv, UTypes, PPSRead, Receiving, Received, Got, Duplicated
  <2>4. flagged' \in [Flows -> BOOLEAN] /\ paths' \in [Flows -> BOOLEAN]
    BY <1>h DEF UInv, UTypes, PPSRead, Receiving, Received, echoVars
  <2>5. latencies' \in [Flows -> Seq(Int)]
    <3>1. Append(latencies[f], n) \in Seq(Int)
      BY <1>g DEF UInv, UTypes
    <3> HIDE DEF n
    <3> QED
      BY <1>h, <3>1 DEF UInv, UTypes
  <2>6. stamped' \in [Flows -> SUBSET Int] /\ seen' \in [Flows -> SUBSET Int]
    <3>1. n \in Int
      BY <1>g
    <3>2. stamped' = stamped
      BY DEF PPSRead
    <3> HIDE DEF n
    <3>3. seen' = seen \/ seen' = [seen EXCEPT ![f] = @ \union {n}]
      BY <1>h
    <3> QED
      BY <3>1, <3>2, <3>3 DEF UInv, UTypes
  <2>7. DOMAIN counters' = Counter /\ counters'["corrupt"] \in Nat
    BY <1>c
  <2>8. sender' \in {"start", "send", "write", "closed"}
    BY DEF UInv, UTypes, PPSRead
  <2> QED
    BY <1>0, <2>8, <2>1, <2>2, <2>3, <2>4, <2>5, <2>6, <2>7 DEF UTypes
<1>2. WireTraced'
  BY <1>0 DEF UInv, WireTraced, PPSRead, Receiving, Received, Got, Duplicated
<1>3. InboxTraced'
  BY <1>0 DEF UInv, InboxTraced, PPSRead, Receiving, Received, Got, Duplicated
<1>4. AskedForNow'
  BY <1>0 DEF UInv, AsksForProof, AskedForNow, PPSRead, Receiving, Received, Got,
     Duplicated, echoVars
<1>5. StampedFirst'
  BY <1>0 DEF UInv, NextFlow, NextSequence, Sequences, StampedFirst, PPSRead,
     Receiving, Received, Got, Duplicated
<1>6. Scheduled'
  BY <1>0 DEF UInv, Dealt, Scheduled, PPSRead, Receiving, Received, Got, Duplicated
<1>7. MeasuredIsBehind'
  <2>1. CASE UNCHANGED <<latencies, previous, seen>>
    BY <1>0, <1>m, <2>1 DEF UInv, MeasuredIsBehind, PPSRead
  <2>2. CASE /\ latencies' = [latencies EXCEPT ![f] = Append(@, n)] \/ latencies' = latencies
             /\ seen' = [seen EXCEPT ![f] = @ \union {n}]
    <3> SUFFICES ASSUME NEW g \in Flows, NEW i \in DOMAIN latencies'[g]
                 PROVE  latencies'[g][i] \in seen'[g]
      BY <1>0, <1>m DEF MeasuredIsBehind, PPSRead
    <3>1. seen[g] \subseteq seen'[g] /\ n \in seen'[f] /\ latencies[g] \in Seq(Int)
      BY <2>2 DEF UInv, UTypes
    <3>2. \A j \in DOMAIN latencies[g] : latencies[g][j] \in seen'[g]
      BY <1>m, <3>1 DEF UInv, MeasuredIsBehind
    <3>3. \/ latencies'[g] = latencies[g]
          \/ g = f /\ latencies'[g] = Append(latencies[g], n)
      BY <2>2 DEF UInv, UTypes
    <3>4. CASE latencies'[g] = latencies[g]
      BY <3>2, <3>4
    <3>5. CASE g = f /\ latencies'[g] = Append(latencies[g], n)
      <4>1. n \in Int
        BY <1>g
      <4>2. i = Len(latencies[g]) + 1 \/ i \in DOMAIN latencies[g]
        BY <3>1, <3>5, <4>1, MeasuresOneMore
      <4>3. CASE i = Len(latencies[g]) + 1
        <5>1. latencies'[g][i] = n
          BY <3>1, <3>5, <4>1, <4>3, MeasuresOneMore
        <5> QED
          BY <3>1, <3>5, <5>1
      <4>4. CASE i \in DOMAIN latencies[g]
        <5>1. latencies'[g][i] = latencies[g][i]
          BY <3>1, <3>5, <4>1, <4>4, MeasuresOneMore
        <5> QED
          BY <3>2, <4>4, <5>1
      <4> QED
        BY <4>2, <4>3, <4>4
    <3> QED
      BY <3>3, <3>4, <3>5
  <2> QED
    BY <1>h, <2>1, <2>2
<1>8. NoneMeasuredTwice'
  <2>1. CASE latencies' = latencies
    BY <1>0, <2>1 DEF UInv, NoneMeasuredTwice
  <2>2. CASE latencies' = [latencies EXCEPT ![f] = Append(@, n)]
             /\ n \notin seen[f]
    <3> DEFINE s == latencies[f]
    <3>1. s \in Seq(Int) /\ latencies'[f] = Append(s, n)
      BY <2>2 DEF UInv, UTypes
    <3>2. \A i \in DOMAIN s : s[i] \in seen[f]
      BY <1>m, <3>1 DEF UInv, MeasuredIsBehind
    <3>3. \A i \in DOMAIN s : s[i] # n
      BY <1>g, <2>2, <3>1, <3>2
    <3>4. IsInjective(s)
      BY DEF UInv, NoneMeasuredTwice
    <3>5. IsInjective(latencies'[f])
      BY <1>g, <3>1, <3>3, <3>4, OneMoreIsInjective
    <3>6. \A g \in Flows : g # f => latencies'[g] = latencies[g]
      BY <2>2 DEF UInv
    <3> QED
      BY <1>0, <3>5, <3>6 DEF UInv, NoneMeasuredTwice
  <2> QED
    BY <1>h, <2>1, <2>2
<1>9. OperationsProveThePath'
  BY <1>m DEF OperationsProveThePath, PPSRead
<1>10. CorruptionIsDamage'
  BY <1>c, <1>g DEF UInv, CorruptionIsDamage, PPSRead, Traced
<1> QED
  BY <1>1, <1>2, <1>3, <1>4, <1>5, <1>6, <1>7, <1>8, <1>9, <1>10 DEF UInv

LEMMA PPSReceiverReturnsKeeps == ASSUME NEW f \in Flows, UInv, PPSReceiverReturns(f) PROVE UInv'
<1>0. Flows' = Flows /\ \A g : Traced(g)' = Traced(g)
  BY DEF Flows, Traced, PPSReceiverReturns, Receiving, Received, ppsVars, netVars
<1>1. UTypes'
  BY <1>0 DEF UInv, UTypes, PPSReceiverReturns, Receiving, Received, echoVars,
         ppsVars, netVars
<1>2. WireTraced'
  BY <1>0 DEF UInv, WireTraced, PPSReceiverReturns, Receiving, Received, netVars
<1>3. InboxTraced'
  BY <1>0 DEF UInv, InboxTraced, PPSReceiverReturns, Receiving, Received, netVars
<1>4. AskedForNow'
  BY <1>0 DEF UInv, AsksForProof, AskedForNow, PPSReceiverReturns, Receiving,
     Received, echoVars
<1>5. StampedFirst'
  BY <1>0 DEF UInv, NextFlow, NextSequence, Sequences, StampedFirst,
     PPSReceiverReturns, Receiving, Received, ppsVars
<1>6. Scheduled'
  BY <1>0 DEF UInv, Dealt, Scheduled, PPSReceiverReturns, Receiving, Received, ppsVars
<1>7. MeasuredIsBehind'
  BY <1>0 DEF UInv, MeasuredIsBehind, PPSReceiverReturns, Receiving, Received, ppsVars
<1>8. NoneMeasuredTwice'
  BY <1>0 DEF UInv, NoneMeasuredTwice, PPSReceiverReturns, Receiving, Received
<1>9. OperationsProveThePath'
  BY <1>0 DEF UInv, OperationsProveThePath, PPSReceiverReturns, Receiving, Received,
     echoVars
<1>10. CorruptionIsDamage'
  BY <1>0 DEF UInv, CorruptionIsDamage, PPSReceiverReturns, Receiving, Received,
     netVars
<1> QED
  BY <1>1, <1>2, <1>3, <1>4, <1>5, <1>6, <1>7, <1>8, <1>9, <1>10 DEF UInv

LEMMA PPSReadErrorKeeps == ASSUME NEW f \in Flows, UInv, PPSReadError(f) PROVE UInv'
<1>0. Flows' = Flows /\ \A g : Traced(g)' = Traced(g)
  BY DEF Flows, Traced, PPSReadError, Receiving, Received, ppsVars
<1>1. UTypes'
  BY <1>0 DEF UInv, UTypes, PPSReadError, Receiving, Received, echoVars, ppsVars
<1>2. WireTraced'
  BY <1>0 DEF UInv, WireTraced, PPSReadError, Receiving, Received
<1>3. InboxTraced'
  BY <1>0 DEF UInv, InboxTraced, PPSReadError, Receiving, Received
<1>4. AskedForNow'
  BY <1>0 DEF UInv, AsksForProof, AskedForNow, PPSReadError, Receiving, Received,
     echoVars
<1>5. StampedFirst'
  BY <1>0 DEF UInv, NextFlow, NextSequence, Sequences, StampedFirst, PPSReadError,
     Receiving, Received, ppsVars
<1>6. Scheduled'
  BY <1>0 DEF UInv, Dealt, Scheduled, PPSReadError, Receiving, Received, ppsVars
<1>7. MeasuredIsBehind'
  BY <1>0 DEF UInv, MeasuredIsBehind, PPSReadError, Receiving, Received, ppsVars
<1>8. NoneMeasuredTwice'
  BY <1>0 DEF UInv, NoneMeasuredTwice, PPSReadError, Receiving, Received
<1>9. OperationsProveThePath'
  BY <1>0 DEF UInv, OperationsProveThePath, PPSReadError, Receiving, Received,
     echoVars
<1>10. CorruptionIsDamage'
  BY <1>0 DEF UInv, CorruptionIsDamage, PPSReadError, Receiving, Received
<1> QED
  BY <1>1, <1>2, <1>3, <1>4, <1>5, <1>6, <1>7, <1>8, <1>9, <1>10 DEF UInv

LEMMA PPSStartKeeps == UInv /\ PPSStart => UInv'
<1> SUFFICES ASSUME UInv, PPSStart PROVE UInv'
  OBVIOUS
<1>0. Flows' = Flows /\ \A g : Traced(g)' = Traced(g)
  BY DEF Flows, Traced, PPSStart
<1>1. UTypes'
  BY <1>0 DEF UInv, UTypes, PPSStart, echoVars
<1>2. WireTraced'
  BY <1>0 DEF UInv, WireTraced, PPSStart
<1>3. InboxTraced'
  BY <1>0 DEF UInv, InboxTraced, PPSStart
<1>4. AskedForNow'
  BY <1>0 DEF UInv, AsksForProof, AskedForNow, PPSStart, echoVars
<1>5. StampedFirst'
  BY <1>0 DEF UInv, NextFlow, NextSequence, Sequences, StampedFirst, PPSStart
<1>6. Scheduled'
  BY <1>0 DEF UInv, Dealt, Sending, Scheduled, PPSStart
<1>7. MeasuredIsBehind'
  BY <1>0 DEF UInv, MeasuredIsBehind, PPSStart
<1>8. NoneMeasuredTwice'
  BY <1>0 DEF UInv, NoneMeasuredTwice, PPSStart
<1>9. OperationsProveThePath'
  BY <1>0 DEF UInv, OperationsProveThePath, PPSStart, echoVars
<1>10. CorruptionIsDamage'
  BY <1>0 DEF UInv, CorruptionIsDamage, PPSStart
<1> QED
  BY <1>1, <1>2, <1>3, <1>4, <1>5, <1>6, <1>7, <1>8, <1>9, <1>10 DEF UInv

LEMMA PPSStampKeeps == UInv /\ PPSStamp => UInv'
<1> SUFFICES ASSUME UInv, PPSStamp PROVE UInv'
  OBVIOUS
<1>0. Flows' = Flows /\ \A g \in Flows : Traced(g) \subseteq Traced(g)'
  BY DEF UInv, Flows, Traced, PPSStamp, netVars
<1>1. UTypes'
  <2>1. config' \in Configs /\ index' \in Nat /\ damaged' \in BOOLEAN
    BY DEF UInv, UTypes, PPSStamp, netVars
  <2>2. completed' \in [Flows -> Nat] /\ previous' \in [Flows -> Int]
    BY DEF UInv, UTypes, PPSStamp, echoVars
  <2>3. pc' \in [Flows -> {"dial", "send", "wait", "receive", "done", "broken"}]
    BY DEF UInv, UTypes, PPSStamp
  <2>4. flagged' \in [Flows -> BOOLEAN] /\ paths' \in [Flows -> BOOLEAN]
    BY DEF UInv, UTypes, PPSStamp, echoVars
  <2>5. latencies' \in [Flows -> Seq(Int)]
    BY DEF UInv, UTypes, PPSStamp
  <2>6. stamped' \in [Flows -> SUBSET Int] /\ seen' \in [Flows -> SUBSET Int]
    BY RoundRobin DEF UInv, UTypes, PPSStamp, NextSequence
  <2>7. DOMAIN counters' = Counter /\ counters'["corrupt"] \in Nat
    BY DEF UInv, UTypes, PPSStamp
  <2>8. sender' \in {"start", "send", "write", "closed"}
    BY DEF UInv, PPSStamp
  <2> QED
    BY <1>0, <2>8, <2>1, <2>2, <2>3, <2>4, <2>5, <2>6, <2>7 DEF UTypes
<1>2. WireTraced'
  BY <1>0 DEF UInv, WireTraced, PPSStamp, netVars
<1>3. InboxTraced'
  BY <1>0 DEF UInv, InboxTraced, PPSStamp, netVars
<1>4. AskedForNow'
  BY <1>0 DEF UInv, AsksForProof, AskedForNow, PPSStamp, echoVars
<1>5. StampedFirst'
  <2>1. NextFlow \in Flows /\ NextFlow' = NextFlow /\ NextSequence' = NextSequence
    BY RoundRobin DEF UInv, PPSStamp, Sending, NextFlow, NextSequence, Sequences
  <2>2. NextSequence \in stamped'[NextFlow]
    BY <2>1 DEF UInv, UTypes, PPSStamp
  <2> QED
    BY <2>1, <2>2 DEF StampedFirst
<1>6. Scheduled'
  <2>1. Dealt(index + 1)' /\ index < config.requests
    BY StampDeals DEF UInv, Scheduled, PPSStamp, Sending
  <2> QED
    BY <2>1 DEF UInv, Scheduled, PPSStamp
<1>7. MeasuredIsBehind'
  BY <1>0 DEF UInv, MeasuredIsBehind, PPSStamp
<1>8. NoneMeasuredTwice'
  BY <1>0 DEF UInv, NoneMeasuredTwice, PPSStamp
<1>9. OperationsProveThePath'
  BY <1>0 DEF UInv, OperationsProveThePath, PPSStamp, echoVars
<1>10. CorruptionIsDamage'
  BY <1>0 DEF UInv, CorruptionIsDamage, PPSStamp, netVars
<1> QED
  BY <1>1, <1>2, <1>3, <1>4, <1>5, <1>6, <1>7, <1>8, <1>9, <1>10 DEF UInv

LEMMA PPSWriteKeeps == UInv /\ PPSWrite => UInv'
<1> SUFFICES ASSUME UInv, PPSWrite PROVE UInv'
  OBVIOUS
<1>0. Flows' = Flows /\ \A g : Traced(g)' = Traced(g)
  BY DEF Flows, Traced, PPSWrite, Packet
<1>1. UTypes'
  BY <1>0 DEF UInv, UTypes, PPSWrite, Packet, Count, echoVars, Counter
<1>2. WireTraced'
  <2> DEFINE q == Packet(NextFlow, NextSequence, FALSE)
  <2>1. NextFlow \in Flows /\ NextSequence \in Int
    BY RoundRobin DEF UInv, NextSequence
  <2>2. NextSequence \in stamped[NextFlow]
    BY DEF UInv, StampedFirst, PPSWrite, Sending
  <2>3. NextFlow \in Nat
    BY <2>1 DEF Flows
  <2>4. q.flow = NextFlow /\ q \in Traced(NextFlow)
    BY <2>1, <2>2, <2>3 DEF Packet, Traced, PacketType
  <2>5. wire' = wire \cup {q}
    BY DEF PPSWrite
  <2> HIDE DEF q
  <2> QED
    BY <1>0, <2>1, <2>4, <2>5 DEF UInv, WireTraced
<1>3. InboxTraced'
  BY <1>0 DEF UInv, InboxTraced, PPSWrite, Packet
<1>4. AskedForNow'
  BY <1>0 DEF UInv, AsksForProof, AskedForNow, PPSWrite, Packet, echoVars
<1>5. StampedFirst'
  BY <1>0 DEF UInv, NextFlow, NextSequence, Sequences, StampedFirst, PPSWrite, Packet
<1>6. Scheduled'
  <2>1. Dealt(index + 1) /\ index < config.requests /\ index \in Nat
    BY DEF UInv, UTypes, Scheduled, PPSWrite, Sending
  <2>2. Dealt(index)' /\ index' = index + 1 /\ config' = config /\ sender' = "send"
    BY <1>0, <2>1 DEF PPSWrite, Dealt
  <2>3. config.requests \in Nat
    BY UdpAssumption DEF UdpAssumption, UInv, UTypes, Config
  <2> QED
    BY <2>1, <2>2, <2>3 DEF Scheduled
<1>7. MeasuredIsBehind'
  BY <1>0 DEF UInv, MeasuredIsBehind, PPSWrite, Packet
<1>8. NoneMeasuredTwice'
  BY <1>0 DEF UInv, NoneMeasuredTwice, PPSWrite, Packet
<1>9. OperationsProveThePath'
  BY <1>0 DEF UInv, OperationsProveThePath, PPSWrite, Packet, echoVars
<1>10. CorruptionIsDamage'
  <2>1. counters'["corrupt"] = counters["corrupt"]
    BY CountsElsewhere DEF UInv, PPSWrite
  <2> QED
    BY <2>1 DEF UInv, CorruptionIsDamage, PPSWrite
<1> QED
  BY <1>1, <1>2, <1>3, <1>4, <1>5, <1>6, <1>7, <1>8, <1>9, <1>10 DEF UInv

LEMMA PPSAbortsKeeps == UInv /\ PPSAborts => UInv'
<1> SUFFICES ASSUME UInv, PPSAborts PROVE UInv'
  OBVIOUS
<1>0. Flows' = Flows /\ \A g : Traced(g)' = Traced(g)
  BY DEF Flows, Traced, PPSAborts
<1>1. UTypes'
  BY <1>0 DEF UInv, UTypes, PPSAborts, echoVars
<1>2. WireTraced'
  BY <1>0 DEF UInv, WireTraced, PPSAborts
<1>3. InboxTraced'
  BY <1>0 DEF UInv, InboxTraced, PPSAborts
<1>4. AskedForNow'
  BY <1>0 DEF UInv, AsksForProof, AskedForNow, PPSAborts, echoVars
<1>5. StampedFirst'
  BY <1>0 DEF UInv, NextFlow, NextSequence, Sequences, StampedFirst, PPSAborts
<1>6. Scheduled'
  <2>1. UNCHANGED <<config, index, stamped>> /\ sender' = "closed"
    BY DEF PPSAborts
  <2>2. index < config.requests /\ (Dealt(index) \/ Dealt(index + 1))
    BY DEF UInv, Scheduled, PPSAborts, Sending
  <2>3. index <= config.requests
    BY DEF UInv, Scheduled, PPSAborts, Sending
  <2> QED
    BY <1>0, <2>1, <2>2, <2>3 DEF Scheduled, Dealt
<1>7. MeasuredIsBehind'
  BY <1>0 DEF UInv, MeasuredIsBehind, PPSAborts
<1>8. NoneMeasuredTwice'
  BY <1>0 DEF UInv, NoneMeasuredTwice, PPSAborts
<1>9. OperationsProveThePath'
  BY <1>0 DEF UInv, OperationsProveThePath, PPSAborts, echoVars
<1>10. CorruptionIsDamage'
  BY <1>0 DEF UInv, CorruptionIsDamage, PPSAborts
<1> QED
  BY <1>1, <1>2, <1>3, <1>4, <1>5, <1>6, <1>7, <1>8, <1>9, <1>10 DEF UInv

LEMMA EchoCollectsKeeps == UInv /\ EchoCollects => UInv'
<1> SUFFICES ASSUME UInv, EchoCollects PROVE UInv'
  OBVIOUS
<1>0. Flows' = Flows /\ \A g : Traced(g)' = Traced(g)
  BY DEF Flows, Traced, EchoCollects, netVars
<1>1. UTypes'
  BY <1>0 DEF UInv, UTypes, EchoCollects, echoVars, ppsVars, netVars
<1>2. WireTraced'
  BY <1>0 DEF UInv, WireTraced, EchoCollects, netVars
<1>3. InboxTraced'
  BY <1>0 DEF UInv, InboxTraced, EchoCollects, netVars
<1>4. AskedForNow'
  BY <1>0 DEF UInv, AsksForProof, AskedForNow, EchoCollects
<1>5. StampedFirst'
  BY <1>0 DEF UInv, NextFlow, NextSequence, Sequences, StampedFirst, EchoCollects
<1>6. Scheduled'
  BY <1>0 DEF UInv, Dealt, Scheduled, EchoCollects
<1>7. MeasuredIsBehind'
  BY <1>0 DEF UInv, MeasuredIsBehind, EchoCollects
<1>8. NoneMeasuredTwice'
  BY <1>0 DEF UInv, NoneMeasuredTwice, EchoCollects
<1>9. OperationsProveThePath'
  BY <1>0 DEF UInv, OperationsProveThePath, EchoCollects, echoVars
<1>10. CorruptionIsDamage'
  BY <1>0 DEF UInv, CorruptionIsDamage, EchoCollects, netVars
<1> QED
  BY <1>1, <1>2, <1>3, <1>4, <1>5, <1>6, <1>7, <1>8, <1>9, <1>10 DEF UInv

LEMMA PPSCollectsKeeps == UInv /\ PPSCollects => UInv'
<1> SUFFICES ASSUME UInv, PPSCollects PROVE UInv'
  OBVIOUS
<1>0. Flows' = Flows /\ \A g : Traced(g)' = Traced(g)
  BY DEF Flows, Traced, PPSCollects, Received, ppsVars, netVars
<1>1. UTypes'
  <2>1. config' \in Configs /\ index' \in Nat /\ damaged' \in BOOLEAN
    BY DEF UInv, UTypes, PPSCollects, Received, ppsVars, netVars
  <2>2. completed' \in [Flows -> Nat] /\ previous' \in [Flows -> Int]
    BY DEF UInv, UTypes, PPSCollects, Received, echoVars
  <2>3. pc' \in [Flows -> {"dial", "send", "wait", "receive", "done", "broken"}]
    BY DEF UInv, UTypes, PPSCollects, Received
  <2>4. flagged' \in [Flows -> BOOLEAN] /\ paths' \in [Flows -> BOOLEAN]
    BY DEF UInv, UTypes, PPSCollects, Received, echoVars
  <2>5. latencies' \in [Flows -> Seq(Int)]
    BY DEF UInv, UTypes, PPSCollects, Received
  <2>6. stamped' \in [Flows -> SUBSET Int] /\ seen' \in [Flows -> SUBSET Int]
    BY DEF UInv, UTypes, PPSCollects, Received, ppsVars
  <2>7. DOMAIN counters' = Counter /\ counters'["corrupt"] \in Nat
    BY DEF UInv, UTypes, PPSCollects, Counter
  <2>8. sender' \in {"start", "send", "write", "closed"}
    BY DEF UInv, PPSCollects, ppsVars
  <2> QED
    BY <1>0, <2>8, <2>1, <2>2, <2>3, <2>4, <2>5, <2>6, <2>7 DEF UTypes
<1>2. WireTraced'
  BY <1>0 DEF UInv, WireTraced, PPSCollects, Received, netVars
<1>3. InboxTraced'
  BY <1>0 DEF UInv, InboxTraced, PPSCollects, Received, netVars
<1>4. AskedForNow'
  BY <1>0 DEF UInv, AsksForProof, AskedForNow, PPSCollects, Received
<1>5. StampedFirst'
  BY <1>0 DEF UInv, NextFlow, NextSequence, Sequences, StampedFirst, PPSCollects,
     Received, ppsVars
<1>6. Scheduled'
  BY <1>0 DEF UInv, Dealt, Scheduled, PPSCollects, Received, ppsVars
<1>7. MeasuredIsBehind'
  BY <1>0 DEF UInv, MeasuredIsBehind, PPSCollects, Received, ppsVars
<1>8. NoneMeasuredTwice'
  BY <1>0 DEF UInv, NoneMeasuredTwice, PPSCollects, Received
<1>9. OperationsProveThePath'
  BY <1>0 DEF UInv, OperationsProveThePath, PPSCollects, Received, echoVars
<1>10. CorruptionIsDamage'
  <2>1. counters'["corrupt"] = counters["corrupt"]
    BY DEF UInv, UTypes, PPSCollects, Counter
  <2> QED
    BY <2>1 DEF UInv, CorruptionIsDamage, PPSCollects, netVars
<1> QED
  BY <1>1, <1>2, <1>3, <1>4, <1>5, <1>6, <1>7, <1>8, <1>9, <1>10 DEF UInv

-----------------------------------------------------------------------------
LEMMA UdpInit == Init => UInv
<1> SUFFICES ASSUME Init PROVE UInv
  OBVIOUS
<1>1. UTypes
  <2>1. config \in Configs /\ index \in Nat /\ damaged \in BOOLEAN
    BY DEF Init
  <2>2. DOMAIN counters = Counter /\ counters["corrupt"] \in Nat
    BY DEF Init, Counter
  <2>3. latencies \in [Flows -> Seq(Int)]
    BY DEF Init
  <2> QED
    BY <2>1, <2>2, <2>3 DEF UTypes, Init
<1>2. WireTraced /\ InboxTraced
  BY DEF WireTraced, InboxTraced, Init
<1>3. AskedForNow /\ StampedFirst /\ MeasuredIsBehind
  BY DEF AskedForNow, StampedFirst, MeasuredIsBehind, Init
<1>6. Scheduled
  <2>1. config.flows \in Nat \ {0} /\ config.requests \in Nat
    BY UdpAssumption DEF UdpAssumption, Config, Init
  <2>2. \A f \in Flows : PerWorker(0, config.flows, f) = 0
    <3>1. 0 % config.flows = 0 /\ 0 \div config.flows = 0
      BY <2>1
    <3> QED
      BY <2>1, <3>1 DEF PerWorker, Flows
  <2>3. Dealt(index) /\ index <= config.requests /\ sender = "start"
    BY <2>1, <2>2 DEF Dealt, Init
  <2> QED
    BY <2>3 DEF Scheduled
<1>4. NoneMeasuredTwice
  BY DEF NoneMeasuredTwice, IsInjective, Init
<1>5. OperationsProveThePath /\ CorruptionIsDamage
  BY DEF OperationsProveThePath, CorruptionIsDamage, Init, Counter
<1> QED
  BY <1>1, <1>2, <1>3, <1>4, <1>5, <1>6 DEF UInv

LEMMA UdpUnchanged == UInv /\ UNCHANGED vars => UInv'
BY DEF UInv, UTypes, WireTraced, InboxTraced, AskedForNow, StampedFirst, Scheduled, Dealt, MeasuredIsBehind,
       NoneMeasuredTwice, OperationsProveThePath, CorruptionIsDamage, Flows, Traced,
       AsksForProof, NextFlow, NextSequence, Sequences, vars, echoVars, ppsVars, netVars

LEMMA UdpNext == UInv /\ [Next]_vars => UInv'
<1> SUFFICES ASSUME UInv, [Next]_vars PROVE UInv'
  OBVIOUS
<1>1. CASE Network
  BY <1>1, ServeKeeps, DeliverKeeps, LoseKeeps, DuplicateKeeps, DamageKeeps DEF Network
<1>2. CASE ContextEnds \/ DeadlinePasses
  BY <1>2, ContextEndsKeeps, DeadlinePassesKeeps
<1>3. CASE \E f \in Flows : EchoFlow(f)
  BY <1>3, EchoDialKeeps, EchoReturnsKeeps, EchoSendKeeps, EchoTimeoutKeeps,
     EchoReadErrorKeeps, EchoReadKeeps DEF EchoFlow
<1>4. CASE \E f \in Flows : PPSReceiver(f)
  BY <1>4, PPSReadKeeps, PPSReceiverReturnsKeeps, PPSReadErrorKeeps DEF PPSReceiver
<1>5. CASE PPSSender
  BY <1>5, PPSStartKeeps, PPSStampKeeps, PPSWriteKeeps, PPSAbortsKeeps DEF PPSSender
<1>6. CASE EchoCollects \/ PPSCollects
  BY <1>6, EchoCollectsKeeps, PPSCollectsKeeps
<1>7. CASE UNCHANGED vars
  BY <1>7, UdpUnchanged
<1> QED
  BY <1>1, <1>2, <1>3, <1>4, <1>5, <1>6, <1>7 DEF Next

LEMMA UdpInductive == Spec => []UInv
BY UdpInit, UdpNext, PTL DEF Spec

(* No request of a flow is measured twice, whatever the network repeats or *)
(* holds back, and however a receiver and the sender interleave.           *)
THEOREM UdpNoneMeasuredTwice == Spec => []NoneMeasuredTwice
<1>1. UInv => NoneMeasuredTwice
  BY DEF UInv
<1> QED
  BY <1>1, UdpInductive, PTL

(* With proof, a flow has an operation if and only if its path is proven   *)
(* (runEchoFlow).                                                          *)
THEOREM UdpOperationsProveThePath == Spec => []OperationsProveThePath
<1>1. UInv => OperationsProveThePath
  BY DEF UInv
<1> QED
  BY <1>1, UdpInductive, PTL

(* Without proof, a corrupt packet was damaged: no loss, copy or           *)
(* overtaking makes one, and no reply that overtakes the return of Write.  *)
THEOREM UdpCorruptionIsDamage == Spec => []CorruptionIsDamage
<1>1. UInv => CorruptionIsDamage
  BY DEF UInv
<1> QED
  BY <1>1, UdpInductive, PTL

LEMMA ScheduleFitsNow == ASSUME UInv PROVE ScheduleFits
<1> SUFFICES ASSUME config.mode = "pps", sender # "start", NEW f \in Flows
             PROVE  /\ stamped[f] \subseteq 1 .. Requests(f)
                    /\ index = config.requests => stamped[f] = 1 .. Requests(f)
  BY DEF ScheduleFits
<1>1. config.flows \in Nat \ {0} /\ config.requests \in Nat /\ index \in Nat
      /\ sender \in {"send", "write", "closed"}
  BY UdpAssumption DEF UdpAssumption, UInv, UTypes, Config
<1>2. PICK k \in {index, index + 1} : k <= config.requests /\ Dealt(k)
  BY <1>1 DEF UInv, Scheduled
<1>3. stamped[f] = 1 .. PerWorker(k, config.flows, f)
  BY <1>2 DEF Dealt
<1>4. /\ PerWorker(k, config.flows, f) \in Nat /\ Requests(f) \in Nat
      /\ PerWorker(k, config.flows, f) <= Requests(f)
  <2>1. k \in Nat /\ f \in 0 .. config.flows - 1
    BY <1>1, <1>2 DEF Flows
  <2>2. PerWorker(k, config.flows, f) \in Nat /\ Requests(f) \in Nat
    BY <1>1, <2>1, DealsInTurn DEF Requests
  <2> QED
    BY <1>1, <1>2, <2>1, <2>2, DealsMore DEF Requests
<1>5. index = config.requests => k = config.requests
  BY <1>1, <1>2
<1> QED
  BY <1>3, <1>4, <1>5 DEF Requests

(* The sender never leaves the arrays that were sized by the receivers'     *)
(* shares of the packets, and has filled them when it is done (runPPS).    *)
THEOREM UdpScheduleFits == Spec => []ScheduleFits
BY UdpInductive, ScheduleFitsNow, PTL

-----------------------------------------------------------------------------
(* What is counted.  The second invariant says where the counters, the     *)
(* sequence numbers and the measurements of every flow stand to each       *)
(* other; UInv is used, but not proved again.                              *)

Measured == SumFunction([f \in Flows |-> Len(latencies[f])])

ATypes ==
  /\ ctx \in {"live", "done"} /\ expired \in BOOLEAN
  /\ outcome \in {"running", "ok", "error"}
  /\ faults \in 0..MaxFaults
  /\ counters \in [Counter -> Nat]

(* An echo flow has measured and accepted nothing beyond the requests that *)
(* are over.                                                               *)
EchoPlaced ==
  config.mode = "echo" =>
    /\ index = 0
    /\ \A f \in Flows :
         /\ completed[f] <= MaxSequence /\ (pc[f] = "wait" => completed[f] < MaxSequence)
         /\ previous[f] \in 0 .. completed[f]
         /\ \A i \in DOMAIN latencies[f] : latencies[f][i] \in 1 .. completed[f]
         /\ seen[f] = {} /\ stamped[f] = {}

(* A PPS flow has seen nothing beyond the packets that were sent to it.    *)
PPSPlaced ==
  config.mode = "pps" =>
    \A f \in Flows :
      /\ completed[f] = 0
      /\ previous[f] = 0 \/ previous[f] \in seen[f]
      /\ seen[f] \subseteq 1 .. Sequences(f)
      /\ Received(f) <= Requests(f)

Reached(p) == config.mode = "pps" => p.sequence \in 1 .. Sequences(p.flow)

PacketsAreSent ==
  /\ \A p \in wire : Reached(p)
  /\ \A f \in Flows : \A i \in DOMAIN inbox[f] : Reached(inbox[f][i])

OperationsAdded == counters["operations"] = Measured

(* What is no operation of a sent request, and not under way either.       *)
EchoBalance ==
  config.mode = "echo" =>
    counters["sent"] = counters["operations"] + counters["lost"] + counters["reordered"]
                       + counters["corrupt"] + Cardinality(Waiting) + Cardinality(Broken)

(* Losses of a PPS workload are counted once, at its end.                  *)
PPSBalance ==
  config.mode = "pps" =>
    /\ outcome = "running" => counters["lost"] = 0
    /\ outcome = "ok" =>
         /\ counters["operations"] + counters["lost"] = config.requests
         /\ counters["lost"] = 0 => \A f \in Flows : Received(f) = Requests(f)

AInv ==
  /\ ATypes
  /\ EchoPlaced
  /\ PPSPlaced
  /\ PacketsAreSent
  /\ OperationsAdded
  /\ EchoBalance
  /\ PPSBalance

-----------------------------------------------------------------------------
LEMMA FlowsAreFinite ==
  ASSUME UTypes
  PROVE  /\ IsFiniteSet(Flows) /\ Flows = 0 .. config.flows - 1
         /\ config.flows \in Nat \ {0} /\ config.requests \in Nat
         /\ MaxSequence \in Nat /\ config.requests <= MaxSequence
<1>1. /\ config.flows \in Nat \ {0} /\ config.requests \in Nat
      /\ MaxSequence \in Nat /\ config.requests <= MaxSequence
  BY UdpAssumption DEF UdpAssumption, UTypes, Config
<1> QED
  BY <1>1, Workers DEF Flows

LEMMA ShareIsAPart ==
  ASSUME NEW k \in Nat, NEW n \in Nat \ {0}, NEW f \in 0 .. n - 1
  PROVE  PerWorker(k, n, f) \in Nat /\ PerWorker(k, n, f) <= k
<1> DEFINE q == k \div n
           r == k % n
<1>1. q \in Nat /\ r \in 0 .. n - 1 /\ k = n * q + r
  BY Quotient
<1>2. PerWorker(k, n, f) = q + (IF f < r THEN 1 ELSE 0)
  BY DEF PerWorker
<1> HIDE DEF q, r
<1>3. n * q >= q
  <2>1. n * q = q + (n - 1) * q /\ (n - 1) * q >= 0
    BY <1>1
  <2> QED
    BY <1>1, <2>1
<1> QED
  BY <1>1, <1>2, <1>3

(* A flow has its share of the requests, and of what was sent.             *)
LEMMA Shares ==
  ASSUME UTypes, NEW f \in Flows
  PROVE  /\ Requests(f) \in Nat /\ Requests(f) <= config.requests
         /\ config.mode = "pps" => Sequences(f) = PerWorker(index, config.flows, f)
         /\ Sequences(f) \in Nat
<1>1. /\ f \in 0 .. config.flows - 1 /\ config.flows \in Nat \ {0}
      /\ config.requests \in Nat /\ index \in Nat /\ completed[f] \in Nat
  BY FlowsAreFinite DEF UTypes
<1>2. /\ Requests(f) \in Nat /\ Requests(f) <= config.requests
      /\ PerWorker(index, config.flows, f) \in Nat
  BY <1>1, ShareIsAPart DEF Requests
<1>3. config.mode = "pps" => Sequences(f) = PerWorker(index, config.flows, f)
  BY DEF Sequences, PerWorker
<1>4. config.mode # "pps" => Sequences(f) \in Nat
  BY <1>1 DEF Sequences
<1> QED
  BY <1>2, <1>3, <1>4

LEMMA SentOfShare ==
  ASSUME UTypes, Scheduled, config.mode = "pps", NEW f \in Flows
  PROVE  Sequences(f) <= Requests(f)
<1>1. /\ f \in 0 .. config.flows - 1 /\ config.flows \in Nat \ {0}
      /\ config.requests \in Nat /\ index \in Nat
  BY FlowsAreFinite DEF UTypes
<1>2. index <= config.requests
  BY DEF Scheduled
<1> QED
  BY <1>1, <1>2, DealsMore, Shares DEF Requests

LEMMA MeasuredSame ==
  ASSUME UNCHANGED <<config, latencies>>
  PROVE  Measured' = Measured
BY DEF Measured, Flows

LEMMA MeasuredOneMore ==
  ASSUME UTypes, config' = config, NEW f \in Flows, NEW n \in Int,
         latencies'[f] = Append(latencies[f], n),
         \A g \in Flows : g # f => latencies'[g] = latencies[g]
  PROVE  Measured' = Measured + 1
<1> DEFINE a == [g \in Flows |-> Len(latencies[g])]
           b == [g \in Flows |-> Len(latencies'[g])]
<1>1. Flows' = Flows /\ IsFiniteSet(Flows)
  BY FlowsAreFinite DEF Flows
<1>2. \A g \in Flows : latencies[g] \in Seq(Int)
  BY DEF UTypes
<1>3. \A g \in Flows : g # f => b[g] = a[g]
  BY DEF UTypes
<1>4. b[f] = a[f] + 1
  BY <1>2 DEF UTypes
<1>5. \A g \in Flows : a[g] \in Int /\ b[g] \in Int
  BY <1>2, <1>3, <1>4
<1>6. Measured = SumFunctionOnSet(a, Flows) /\ Measured' = SumFunctionOnSet(b, Flows)
  BY <1>1 DEF Measured, SumFunction
<1> HIDE DEF a, b
<1>7. SumFunctionOnSet(b, Flows) = SumFunctionOnSet(a, Flows) - a[f] + b[f]
  <2>1. f \in Flows /\ IsFiniteSet(Flows)
    BY <1>1
  <2> QED
    BY ONLY <1>3, <1>5, <2>1, SumChanges
<1>8. SumFunctionOnSet(a, Flows) \in Int /\ a[f] \in Int
  BY <1>1, <1>5, SumType
<1> QED
  BY <1>4, <1>6, <1>7, <1>8

LEMMA Counts ==
  ASSUME ATypes, NEW names, Count(names)
  PROVE  /\ counters' \in [Counter -> Nat]
         /\ \A c \in Counter : counters'[c] = counters[c] + (IF c \in names THEN 1 ELSE 0)
BY DEF ATypes, Count

(* A set gains or loses one element. *)
LEMMA OneElement ==
  ASSUME NEW S, IsFiniteSet(S), NEW T, NEW x,
         \A y : y # x => (y \in T <=> y \in S)
  PROVE  /\ Cardinality(S) \in Nat /\ Cardinality(T) \in Nat
         /\ Cardinality(T) = Cardinality(S) + (IF x \in T THEN 1 ELSE 0)
                                            - (IF x \in S THEN 1 ELSE 0)
<1>1. Cardinality(S) \in Nat
  BY FS_CardinalityType
<1>2. CASE x \in S /\ x \in T
  <2>1. S = T
    BY <1>2
  <2> QED
    BY <1>1, <1>2, <2>1
<1>3. CASE x \in S /\ x \notin T
  <2>1. T = S \ {x}
    BY <1>3
  <2>2. IsFiniteSet(T) /\ Cardinality(T) = Cardinality(S) - 1
    BY <1>3, <2>1, FS_RemoveElement
  <2>3. Cardinality(T) \in Nat
    BY <2>2, FS_CardinalityType
  <2> QED
    BY <1>1, <1>3, <2>2, <2>3
<1>4. CASE x \notin S /\ x \in T
  <2>1. T = S \cup {x}
    BY <1>4
  <2> QED
    BY <1>1, <1>4, <2>1, FS_AddElement
<1>5. CASE x \notin S /\ x \notin T
  <2>1. S = T
    BY <1>5
  <2> QED
    BY <1>1, <1>5, <2>1
<1> QED
  BY <1>2, <1>3, <1>4, <1>5

LEMMA PlaceChanges ==
  ASSUME UTypes, config' = config, NEW f \in Flows,
         \A g \in Flows : g # f => pc'[g] = pc[g]
  PROVE  /\ Cardinality(Waiting) \in Nat /\ Cardinality(Waiting') \in Nat
         /\ Cardinality(Broken) \in Nat /\ Cardinality(Broken') \in Nat
         /\ Cardinality(Waiting') = Cardinality(Waiting) + (IF pc'[f] = "wait" THEN 1 ELSE 0)
                                                         - (IF pc[f] = "wait" THEN 1 ELSE 0)
         /\ Cardinality(Broken') = Cardinality(Broken) + (IF pc'[f] = "broken" THEN 1 ELSE 0)
                                                       - (IF pc[f] = "broken" THEN 1 ELSE 0)
<1>1. Flows' = Flows /\ IsFiniteSet(Flows)
  BY FlowsAreFinite DEF Flows
<1>2. IsFiniteSet(Waiting) /\ IsFiniteSet(Broken)
  BY <1>1, FS_Subset DEF Waiting, Broken
<1>3. /\ f \in Waiting' <=> pc'[f] = "wait"
      /\ f \in Waiting <=> pc[f] = "wait"
      /\ f \in Broken' <=> pc'[f] = "broken"
      /\ f \in Broken <=> pc[f] = "broken"
  BY <1>1 DEF UTypes, Waiting, Broken
<1>4. \A g : g # f => (g \in Waiting' <=> g \in Waiting)
  BY <1>1 DEF UTypes, Waiting
<1>5. \A g : g # f => (g \in Broken' <=> g \in Broken)
  BY <1>1 DEF UTypes, Broken
<1>6. /\ Cardinality(Waiting) \in Nat /\ Cardinality(Waiting') \in Nat
      /\ Cardinality(Waiting') = Cardinality(Waiting) + (IF f \in Waiting' THEN 1 ELSE 0)
                                                      - (IF f \in Waiting THEN 1 ELSE 0)
  BY <1>2, <1>4, OneElement
<1>7. /\ Cardinality(Broken) \in Nat /\ Cardinality(Broken') \in Nat
      /\ Cardinality(Broken') = Cardinality(Broken) + (IF f \in Broken' THEN 1 ELSE 0)
                                                    - (IF f \in Broken THEN 1 ELSE 0)
  BY <1>2, <1>5, OneElement
<1> QED
  BY <1>3, <1>6, <1>7

LEMMA EchoSide ==
  ASSUME config' = config, config.mode = "echo"
  PROVE  PPSPlaced' /\ PacketsAreSent' /\ PPSBalance'
BY DEF PPSPlaced, PacketsAreSent, Reached, PPSBalance

LEMMA PPSSide ==
  ASSUME config' = config, config.mode = "pps"
  PROVE  EchoPlaced' /\ EchoBalance'
BY DEF EchoPlaced, EchoBalance

-----------------------------------------------------------------------------
(* The steps.                                                              *)

(* Steps that neither send, measure nor count. *)
LEMMA QuietKeeps ==
  ASSUME UInv, AInv,
         UNCHANGED <<config, pc, completed, previous, latencies, seen, stamped, index,
                     counters, outcome>>,
         ATypes', PacketsAreSent'
  PROVE  AInv'
<1>1. Flows' = Flows
  BY DEF Flows
<1>2. \A f \in Flows : Sequences(f)' = Sequences(f) /\ Requests(f)' = Requests(f)
                       /\ Received(f)' = Received(f)
  BY DEF Sequences, Requests, Received
<1>3. EchoPlaced'
  BY <1>1 DEF AInv, EchoPlaced
<1>4. PPSPlaced'
  BY <1>1, <1>2 DEF AInv, PPSPlaced
<1>5. OperationsAdded'
  BY MeasuredSame DEF AInv, OperationsAdded
<1>6. EchoBalance'
  <2>1. Waiting' = Waiting /\ Broken' = Broken
    BY <1>1 DEF Waiting, Broken
  <2> QED
    BY <2>1 DEF AInv, EchoBalance
<1>7. PPSBalance'
  BY <1>1, <1>2 DEF AInv, PPSBalance
<1> QED
  BY <1>3, <1>4, <1>5, <1>6, <1>7 DEF AInv

LEMMA SequencesSame ==
  ASSUME UNCHANGED <<config, index, completed, pc>>
  PROVE  \A p : Reached(p)' <=> Reached(p)
BY DEF Reached, Sequences

LEMMA NetworkAdds ==
  ASSUME UInv, AInv, Network PROVE AInv'
<1>1. UNCHANGED <<config, pc, completed, previous, latencies, seen, stamped, index,
                  counters, outcome, ctx, expired>>
  BY DEF Network, Serve, Deliver, Lose, Duplicate, Damage, Unchanged, echoVars, ppsVars
<1>2. ATypes'
  <2>1. faults' \in 0..MaxFaults
    BY UdpAssumption DEF UdpAssumption, AInv, ATypes, Network, Serve, Deliver, Lose, Duplicate,
       Damage, Fault
  <2> QED
    BY <1>1, <2>1 DEF AInv, ATypes
<1>3. Flows' = Flows /\ \A p : Reached(p)' <=> Reached(p)
  BY <1>1, SequencesSame DEF Flows
<1>4. \A p \in wire : p \in PacketType
  BY DEF UInv, WireTraced, Traced
<1>5. \A p \in wire' : Reached(p)
  <2> SUFFICES ASSUME NEW p \in wire' PROVE Reached(p)
    OBVIOUS
  <2>1. PICK q \in wire : p \in {q, [q EXCEPT !.reply = TRUE], [q EXCEPT !.copy = TRUE],
                                 [q EXCEPT !.intact = FALSE]}
    BY DEF Network, Serve, Deliver, Lose, Duplicate, Damage
  <2>2. p.flow = q.flow /\ p.sequence = q.sequence
    BY <1>4, <2>1 DEF PacketType
  <2> QED
    BY <2>1, <2>2 DEF AInv, PacketsAreSent, Reached
<1>6. \A f \in Flows : \A i \in DOMAIN inbox'[f] : Reached(inbox'[f][i])
  <2>1. CASE Deliver
    <3>1. PICK p \in wire : inbox' = [inbox EXCEPT ![p.flow] = Append(@, p)]
      BY <2>1 DEF Deliver
    <3>2. p.flow \in Flows /\ Reached(p)
      BY <3>1 DEF UInv, WireTraced, AInv, PacketsAreSent
    <3>3. inbox'[p.flow] = Append(inbox[p.flow], p) /\ inbox[p.flow] \in Seq(Traced(p.flow))
      BY <3>1, <3>2 DEF UInv, InboxTraced
    <3>4. \A i \in DOMAIN inbox'[p.flow] : Reached(inbox'[p.flow][i])
      <4> SUFFICES ASSUME NEW i \in DOMAIN inbox'[p.flow] PROVE Reached(inbox'[p.flow][i])
        OBVIOUS
      <4>1. \/ i \in DOMAIN inbox[p.flow] /\ inbox'[p.flow][i] = inbox[p.flow][i]
            \/ inbox'[p.flow][i] = p
        BY <3>3
      <4> QED
        BY <3>2, <4>1 DEF AInv, PacketsAreSent
    <3>5. \A f \in Flows : f # p.flow => inbox'[f] = inbox[f]
      BY <3>1, <3>2 DEF UInv, InboxTraced
    <3> QED
      BY <3>4, <3>5 DEF AInv, PacketsAreSent
  <2>2. CASE ~Deliver
    <3>1. inbox' = inbox
      BY <2>2 DEF Network, Serve, Lose, Duplicate, Damage
    <3> QED
      BY <3>1 DEF AInv, PacketsAreSent
  <2> QED
    BY <2>1, <2>2
<1>7. PacketsAreSent'
  BY <1>3, <1>5, <1>6 DEF PacketsAreSent
<1> QED
  BY <1>1, <1>2, <1>7, QuietKeeps

LEMMA ClockAdds ==
  ASSUME UInv, AInv, ContextEnds \/ DeadlinePasses PROVE AInv'
<1>1. UNCHANGED <<config, pc, completed, previous, latencies, seen, stamped, index,
                  counters, outcome, wire, inbox, faults>>
  BY DEF ContextEnds, DeadlinePasses, echoVars, ppsVars, netVars
<1>2. ATypes'
  BY <1>1 DEF AInv, ATypes, ContextEnds, DeadlinePasses, ppsVars
<1>3. PacketsAreSent'
  BY <1>1, SequencesSame DEF AInv, PacketsAreSent, Flows
<1> QED
  BY <1>1, <1>2, <1>3, QuietKeeps

(* What every step of an echo flow leaves to show. *)
LEMMA EchoStepAdds ==
  ASSUME config' = config, config.mode = "echo", ATypes', EchoPlaced', OperationsAdded', EchoBalance'
  PROVE  AInv'
BY EchoSide DEF AInv

(* A step that neither measures nor ends a request. *)
LEMMA EchoStays ==
  ASSUME UInv, AInv, config.mode = "echo", NEW f \in Flows,
         UNCHANGED <<config, completed, previous, latencies, seen, stamped, index>>,
         \A g \in Flows : pc'[g] = "wait" => pc[g] = "wait" \/ completed[g] < MaxSequence
  PROVE  EchoPlaced' /\ Measured' = Measured
<1>1. Flows' = Flows
  BY DEF Flows
<1> QED
  BY <1>1, MeasuredSame DEF AInv, EchoPlaced

LEMMA FaultBounded ==
  ASSUME faults \in 0..MaxFaults, UNCHANGED faults \/ Fault PROVE faults' \in 0..MaxFaults
BY UdpAssumption DEF UdpAssumption, Fault

LEMMA EchoDialAdds ==
  ASSUME UInv, AInv, NEW f \in Flows, EchoDial(f) PROVE AInv'
<1>1. UNCHANGED <<config, completed, previous, latencies, seen, stamped, index, ctx, expired, outcome>>
      /\ config.mode = "echo" /\ outcome = "running" /\ pc[f] = "dial"
  BY DEF EchoDial, Echo, echoVars, ppsVars
<1>2. PICK p \in {"send", "done"} : pc' = [pc EXCEPT ![f] = p]
  BY DEF EchoDial
<1>3. EchoPlaced' /\ Measured' = Measured
  BY <1>1, <1>2, EchoStays DEF UInv, UTypes
<1>4. PICK names \in SUBSET {"failed"} : Count(names) \/ (UNCHANGED counters /\ names = {})
  BY DEF EchoDial, SetError
<1>5. /\ counters' \in [Counter -> Nat]
      /\ \A c \in Counter : c # "failed" => counters'[c] = counters[c]
  <2>1. CASE Count(names)
    <3>1. /\ counters' \in [Counter -> Nat]
          /\ \A c \in Counter : counters'[c] = counters[c] + (IF c \in names THEN 1 ELSE 0)
      BY <2>1, Counts DEF AInv
    <3>2. \A c \in Counter : c # "failed" => counters'[c] = counters[c] + 0
      BY <3>1
    <3> QED
      BY <3>1, <3>2 DEF AInv, ATypes
  <2>2. CASE UNCHANGED counters
    BY <2>2 DEF AInv, ATypes
  <2> QED
    BY <1>4, <2>1, <2>2
<1>6. ATypes'
  <2>1. faults' \in 0..MaxFaults
    BY FaultBounded DEF AInv, ATypes, EchoDial
  <2> QED
    BY <1>1, <1>5, <2>1 DEF AInv, ATypes
<1>7. OperationsAdded'
  BY <1>3, <1>5 DEF AInv, OperationsAdded, Counter
<1>8. EchoBalance'
  <2>1. Cardinality(Waiting') = Cardinality(Waiting) /\ Cardinality(Broken') = Cardinality(Broken)
    <3>1. pc'[f] = p /\ \A g \in Flows : g # f => pc'[g] = pc[g]
      BY <1>1, <1>2 DEF UInv, UTypes
    <3> QED
      BY <1>1, <3>1, PlaceChanges DEF UInv
  <2> QED
    BY <1>1, <1>5, <2>1 DEF AInv, EchoBalance, Counter
<1> QED
  BY <1>1, <1>3, <1>6, <1>7, <1>8, EchoStepAdds

LEMMA EchoReturnsAdds ==
  ASSUME UInv, AInv, NEW f \in Flows, EchoReturns(f) PROVE AInv'
<1>1. UNCHANGED <<config, completed, previous, latencies, seen, stamped, index, ctx, expired, outcome>>
      /\ UNCHANGED <<counters, faults>> /\ config.mode = "echo" /\ pc[f] = "send"
      /\ pc' = [pc EXCEPT ![f] = "done"]
  BY DEF EchoReturns, Echo, echoVars, ppsVars, netVars
<1>2. EchoPlaced' /\ Measured' = Measured
  BY <1>1, EchoStays DEF UInv, UTypes
<1>3. ATypes' /\ OperationsAdded'
  BY <1>1, <1>2 DEF AInv, ATypes, OperationsAdded
<1>4. EchoBalance'
  <2>1. Cardinality(Waiting') = Cardinality(Waiting) /\ Cardinality(Broken') = Cardinality(Broken)
    <3>1. pc'[f] = "done" /\ \A g \in Flows : g # f => pc'[g] = pc[g]
      BY <1>1 DEF UInv, UTypes
    <3> QED
      BY <1>1, <3>1, PlaceChanges DEF UInv
  <2> QED
    BY <1>1, <2>1 DEF AInv, EchoBalance
<1> QED
  BY <1>1, <1>2, <1>3, <1>4, EchoStepAdds

LEMMA EchoSendAdds ==
  ASSUME UInv, AInv, NEW f \in Flows, EchoSend(f) PROVE AInv'
<1>1. UNCHANGED <<config, completed, previous, latencies, seen, stamped, index, ctx, expired, outcome>>
      /\ config.mode = "echo" /\ pc[f] = "send" /\ completed[f] < MaxSequence
  BY DEF EchoSend, Echo, ppsVars
<1>2. PICK p \in {"wait", "done"} : pc' = [pc EXCEPT ![f] = p]
                                    /\ (p = "wait" => Count({"sent"}))
                                    /\ (p = "done" => SetError({}))
  BY DEF EchoSend
<1>3. EchoPlaced' /\ Measured' = Measured
  BY <1>1, <1>2, EchoStays DEF UInv, UTypes
<1>4. /\ counters' \in [Counter -> Nat]
      /\ counters'["sent"] = counters["sent"] + (IF p = "wait" THEN 1 ELSE 0)
      /\ \A c \in Counter : c \notin {"failed", "sent"} => counters'[c] = counters[c]
  <2>1. CASE p = "wait"
    <3>1. Count({"sent"})
      BY <1>2, <2>1
    <3>2. /\ counters' \in [Counter -> Nat]
          /\ \A c \in Counter : counters'[c] = counters[c] + (IF c \in {"sent"} THEN 1 ELSE 0)
      BY <3>1, Counts DEF AInv
    <3> QED
      BY <2>1, <3>2 DEF Counter, AInv, ATypes
  <2>2. CASE p = "done"
    <3>1. PICK names \in SUBSET {"failed"} : Count(names)
      BY <1>2, <2>2 DEF SetError
    <3>2. counters["sent"] \in Nat
      BY DEF AInv, ATypes, Counter
    <3> QED
      <4>1. /\ counters' \in [Counter -> Nat]
            /\ \A c \in Counter : counters'[c] = counters[c] + (IF c \in names THEN 1 ELSE 0)
        BY <3>1, Counts DEF AInv
      <4> QED
        BY <2>2, <3>1, <3>2, <4>1 DEF AInv, ATypes, Counter
  <2> QED
    BY <2>1, <2>2
<1>5. ATypes'
  <2>1. faults' \in 0..MaxFaults
    BY FaultBounded DEF AInv, ATypes, EchoSend
  <2> QED
    BY <1>1, <1>4, <2>1 DEF AInv, ATypes
<1>6. OperationsAdded'
  BY <1>3, <1>4 DEF AInv, OperationsAdded, Counter
<1>7. EchoBalance'
  <2>1. /\ Cardinality(Waiting') = Cardinality(Waiting) + (IF p = "wait" THEN 1 ELSE 0)
        /\ Cardinality(Broken') = Cardinality(Broken)
        /\ Cardinality(Waiting) \in Nat /\ Cardinality(Broken) \in Nat
    <3>1. pc'[f] = p /\ \A g \in Flows : g # f => pc'[g] = pc[g]
      BY <1>1, <1>2 DEF UInv, UTypes
    <3> QED
      BY <1>1, <3>1, PlaceChanges DEF UInv
  <2>2. \A c \in Counter : counters[c] \in Nat
    BY DEF AInv, ATypes
  <2> QED
    BY <1>1, <1>4, <2>1, <2>2 DEF AInv, EchoBalance, Counter
<1> QED
  BY <1>1, <1>3, <1>5, <1>6, <1>7, EchoStepAdds

LEMMA EchoReadErrorAdds ==
  ASSUME UInv, AInv, NEW f \in Flows, EchoReadError(f) PROVE AInv'
<1>1. UNCHANGED <<config, completed, previous, latencies, seen, stamped, index, ctx, expired, outcome>>
      /\ config.mode = "echo" /\ pc[f] = "wait" /\ pc' = [pc EXCEPT ![f] = "broken"]
  BY DEF EchoReadError, Echo, echoVars, ppsVars
<1>2. EchoPlaced' /\ Measured' = Measured
  BY <1>1, EchoStays DEF UInv, UTypes
<1>3. PICK names \in SUBSET {"failed"} : Count(names)
  BY DEF EchoReadError, SetError
<1>4. /\ counters' \in [Counter -> Nat]
      /\ \A c \in Counter : c # "failed" => counters'[c] = counters[c]
  <2>1. /\ counters' \in [Counter -> Nat]
        /\ \A c \in Counter : counters'[c] = counters[c] + (IF c \in names THEN 1 ELSE 0)
    BY <1>3, Counts DEF AInv
  <2>2. \A c \in Counter : c # "failed" => counters'[c] = counters[c] + 0
    BY <2>1
  <2> QED
    BY <2>1, <2>2 DEF AInv, ATypes
<1>5. ATypes'
  <2>1. faults' \in 0..MaxFaults
    BY FaultBounded DEF AInv, ATypes, EchoReadError
  <2> QED
    BY <1>1, <1>4, <2>1 DEF AInv, ATypes
<1>6. OperationsAdded'
  BY <1>2, <1>4 DEF AInv, OperationsAdded, Counter
<1>7. EchoBalance'
  <2>1. /\ Cardinality(Waiting') = Cardinality(Waiting) - 1
        /\ Cardinality(Broken') = Cardinality(Broken) + 1
        /\ Cardinality(Waiting) \in Nat /\ Cardinality(Broken) \in Nat
    <3>1. pc'[f] = "broken" /\ \A g \in Flows : g # f => pc'[g] = pc[g]
      BY <1>1 DEF UInv, UTypes
    <3> QED
      BY <1>1, <3>1, PlaceChanges DEF UInv
  <2>2. \A c \in Counter : counters[c] \in Nat
    BY DEF AInv, ATypes
  <2> QED
    BY <1>1, <1>4, <2>1, <2>2 DEF AInv, EchoBalance, Counter
<1> QED
  BY <1>1, <1>2, <1>5, <1>6, <1>7, EchoStepAdds

LEMMA EchoTimeoutAdds ==
  ASSUME UInv, AInv, NEW f \in Flows, EchoTimeout(f) PROVE AInv'
<1>1. UNCHANGED <<config, previous, latencies, seen, stamped, index, ctx, expired, outcome, faults>>
      /\ config.mode = "echo" /\ pc[f] = "wait" /\ pc' = [pc EXCEPT ![f] = "send"]
      /\ completed' = [completed EXCEPT ![f] = @ + 1]
  BY DEF EchoTimeout, NextRequest, Echo, ppsVars, netVars
<1>2. Flows' = Flows /\ MaxSequence \in Nat /\ \A g \in Flows : completed[g] \in Nat
  BY <1>1, FlowsAreFinite DEF Flows, UInv, UTypes
<1>3. EchoPlaced'
  BY <1>1, <1>2 DEF UInv, UTypes, AInv, EchoPlaced
<1>4. /\ counters' \in [Counter -> Nat]
      /\ \A c \in Counter : counters'[c] = counters[c] + (IF c \in {"lost"} THEN 1 ELSE 0)
  BY Counts DEF AInv, EchoTimeout
<1>5. ATypes'
  BY <1>1, <1>4 DEF AInv, ATypes
<1>6. \A c \in Counter : counters[c] \in Nat
  BY DEF AInv, ATypes
<1>7. OperationsAdded'
  BY <1>1, <1>4, <1>6, MeasuredSame DEF AInv, OperationsAdded, Counter
<1>8. EchoBalance'
  <2>1. /\ Cardinality(Waiting') = Cardinality(Waiting) - 1
        /\ Cardinality(Broken') = Cardinality(Broken)
        /\ Cardinality(Waiting) \in Nat /\ Cardinality(Broken) \in Nat
    <3>1. pc'[f] = "send" /\ \A g \in Flows : g # f => pc'[g] = pc[g]
      BY <1>1 DEF UInv, UTypes
    <3> QED
      BY <1>1, <3>1, PlaceChanges DEF UInv
  <2> QED
    BY <1>1, <1>4, <1>6, <2>1 DEF AInv, EchoBalance, Counter
<1> QED
  BY <1>1, <1>3, <1>5, <1>7, <1>8, EchoStepAdds

LEMMA EchoReadAdds ==
  ASSUME UInv, AInv, NEW f \in Flows, EchoRead(f) PROVE AInv'
<1>1. UNCHANGED <<config, seen, stamped, index, ctx, expired, outcome, faults>>
      /\ config.mode = "echo" /\ pc[f] = "wait" /\ pc' = [pc EXCEPT ![f] = "send"]
      /\ completed' = [completed EXCEPT ![f] = @ + 1]
  BY DEF EchoRead, NextRequest, Echo, ppsVars
<1>2. Flows' = Flows /\ MaxSequence \in Nat /\ \A g \in Flows : completed[g] \in Nat
  BY <1>1, FlowsAreFinite DEF Flows, UInv, UTypes
<1>3. \A c \in Counter : counters[c] \in Nat
  BY DEF AInv, ATypes
<1>4. /\ Cardinality(Waiting') = Cardinality(Waiting) - 1
      /\ Cardinality(Broken') = Cardinality(Broken)
      /\ Cardinality(Waiting) \in Nat /\ Cardinality(Broken) \in Nat
  <2>1. pc'[f] = "send" /\ \A g \in Flows : g # f => pc'[g] = pc[g]
    BY <1>1 DEF UInv, UTypes
  <2> QED
    BY <1>1, <2>1, PlaceChanges DEF UInv
<1>5. ASSUME NEW c \in {"corrupt", "reordered", "operations"}, Count({"received", c})
      PROVE  ATypes' /\ EchoBalance'
             /\ counters'["operations"] = counters["operations"]
                                          + (IF c = "operations" THEN 1 ELSE 0)
  <2>1. /\ counters' \in [Counter -> Nat]
        /\ \A d \in Counter : counters'[d] = counters[d] + (IF d \in {"received", c} THEN 1 ELSE 0)
    BY <1>5, Counts DEF AInv
  <2>2. ATypes'
    BY <1>1, <2>1 DEF AInv, ATypes
  <2>3. EchoBalance'
    BY <1>1, <1>3, <1>4, <2>1 DEF AInv, EchoBalance, Counter
  <2> QED
    BY <2>1, <2>2, <2>3 DEF Counter
<1>6. CASE UNCHANGED <<previous, latencies>>
           /\ (Count({"received", "corrupt"}) \/ Count({"received", "reordered"}))
  <2>1. EchoPlaced'
    BY <1>1, <1>2, <1>6 DEF UInv, UTypes, AInv, EchoPlaced
  <2>2. ATypes' /\ EchoBalance' /\ counters'["operations"] = counters["operations"]
    BY <1>3, <1>5, <1>6 DEF Counter
  <2>3. OperationsAdded'
    BY <1>1, <1>6, <2>2, MeasuredSame DEF AInv, OperationsAdded
  <2> QED
    BY <1>1, <2>1, <2>2, <2>3, EchoStepAdds
<1>7. CASE /\ Accepts(f, Got(f)) /\ Count({"received", "operations"})
           /\ previous' = [previous EXCEPT ![f] = Got(f).sequence]
           /\ latencies' = [latencies EXCEPT ![f] = Append(@, Got(f).sequence)]
  <2> DEFINE n == Got(f).sequence
  <2>1. n = completed[f] + 1 /\ n \in Nat /\ completed[f] < MaxSequence
    BY <1>1, <1>2, <1>7 DEF Accepts, AInv, EchoPlaced
  <2> HIDE DEF n
  <2>2. latencies'[f] = Append(latencies[f], n) /\ latencies[f] \in Seq(Int)
        /\ \A g \in Flows : g # f => latencies'[g] = latencies[g]
    BY <1>7 DEF UInv, UTypes, n
  <2>3. \A i \in DOMAIN latencies'[f] : latencies'[f][i] \in 1 .. completed'[f]
    <3> SUFFICES ASSUME NEW i \in DOMAIN latencies'[f]
                 PROVE  latencies'[f][i] \in 1 .. completed[f] + 1
      BY <1>1 DEF UInv, UTypes
    <3>1. \/ i \in DOMAIN latencies[f] /\ latencies'[f][i] = latencies[f][i]
          \/ latencies'[f][i] = n
      BY <2>2
    <3> QED
      BY <1>1, <1>2, <2>1, <3>1 DEF AInv, EchoPlaced
  <2>4. previous'[f] = n /\ \A g \in Flows : g # f => previous'[g] = previous[g]
    BY <1>7 DEF UInv, UTypes, n
  <2>5. completed'[f] = n /\ \A g \in Flows : g # f => completed'[g] = completed[g]
    BY <1>1, <2>1 DEF UInv, UTypes
  <2>6. \A g \in Flows : pc'[g] = "wait" => g # f /\ pc[g] = "wait"
    BY <1>1 DEF UInv, UTypes
  <2>7. EchoPlaced'
    <3>1. index' = 0 /\ \A g \in Flows : seen'[g] = {} /\ stamped'[g] = {}
      BY <1>1 DEF AInv, EchoPlaced
    <3>2. \A g \in Flows :
            /\ completed'[g] <= MaxSequence /\ (pc'[g] = "wait" => completed'[g] < MaxSequence)
            /\ previous'[g] \in 0 .. completed'[g]
      BY <1>1, <1>2, <2>1, <2>4, <2>5, <2>6 DEF AInv, EchoPlaced
    <3>3. \A g \in Flows : \A i \in DOMAIN latencies'[g] :
            latencies'[g][i] \in 1 .. completed'[g]
      BY <1>1, <2>2, <2>3, <2>5 DEF AInv, EchoPlaced
    <3> QED
      BY <1>2, <3>1, <3>2, <3>3 DEF EchoPlaced
  <2>8. ATypes' /\ EchoBalance' /\ counters'["operations"] = counters["operations"] + 1
    BY <1>5, <1>7
  <2>9. Measured' = Measured + 1
    BY <1>1, <2>1, <2>2, MeasuredOneMore DEF UInv
  <2>10. OperationsAdded'
    BY <2>8, <2>9 DEF AInv, OperationsAdded
  <2> QED
    BY <1>1, <2>7, <2>8, <2>10, EchoStepAdds
<1> QED
  BY <1>6, <1>7 DEF EchoRead

LEMMA EchoCollectsAdds ==
  ASSUME UInv, AInv, EchoCollects PROVE AInv'
<1>1. UNCHANGED <<config, pc, completed, previous, latencies, seen, stamped, index, ctx, expired,
                  counters, faults>>
      /\ config.mode = "echo" /\ outcome' \in {"ok", "error"}
  BY DEF EchoCollects, echoVars, ppsVars, netVars
<1>2. Flows' = Flows
  BY <1>1 DEF Flows
<1>3. Waiting' = Waiting /\ Broken' = Broken
  BY <1>1, <1>2 DEF Waiting, Broken
<1>4. ATypes' /\ EchoPlaced' /\ EchoBalance'
  BY <1>1, <1>2, <1>3 DEF AInv, ATypes, EchoPlaced, EchoBalance
<1>5. OperationsAdded'
  BY <1>1, MeasuredSame DEF AInv, OperationsAdded
<1> QED
  BY <1>1, <1>4, <1>5, EchoStepAdds

LEMMA SequencesOfPPS ==
  ASSUME config.mode = "pps", UNCHANGED <<config, index>>
  PROVE  /\ Flows' = Flows
         /\ \A f : Sequences(f)' = Sequences(f) /\ Requests(f)' = Requests(f)
         /\ \A p : Reached(p)' <=> Reached(p)
<1>1. config'.mode = "pps" /\ config' = config /\ index' = index
  OBVIOUS
<1>2. \A f : Sequences(f)' = Sequences(f) /\ Requests(f)' = Requests(f)
  BY <1>1 DEF Sequences, Requests
<1> QED
  BY <1>1, <1>2 DEF Flows, Reached

(* Steps of a PPS workload that neither send, receive nor count. *)
LEMMA PPSStays ==
  ASSUME UInv, AInv, config.mode = "pps",
         UNCHANGED <<config, completed, previous, latencies, seen, index, counters, wire, inbox>>,
         ATypes', outcome' = outcome \/ outcome' = "error"
  PROVE  AInv'
<1>1. /\ Flows' = Flows
      /\ \A f : Sequences(f)' = Sequences(f) /\ Requests(f)' = Requests(f)
      /\ \A p : Reached(p)' <=> Reached(p)
  BY SequencesOfPPS
<1>2. EchoPlaced' /\ EchoBalance'
  BY PPSSide
<1>3. PPSPlaced'
  BY <1>1 DEF AInv, PPSPlaced, Received
<1>4. PacketsAreSent'
  BY <1>1 DEF AInv, PacketsAreSent
<1>5. OperationsAdded'
  BY MeasuredSame DEF AInv, OperationsAdded
<1>6. PPSBalance'
  BY <1>1 DEF AInv, PPSBalance, Received
<1> QED
  BY <1>2, <1>3, <1>4, <1>5, <1>6 DEF AInv

LEMMA PPSSenderStays ==
  ASSUME UInv, AInv, PPSStart \/ PPSStamp \/ PPSAborts PROVE AInv'
<1>1. /\ config.mode = "pps"
      /\ UNCHANGED <<config, completed, previous, latencies, seen, index, counters, wire, inbox,
                     ctx, expired>>
      /\ outcome' = outcome \/ outcome' = "error"
  BY DEF PPSStart, PPSStamp, PPSAborts, Sending, echoVars, netVars
<1>2. faults' \in 0..MaxFaults
  <2>1. faults \in 0..MaxFaults
    BY DEF AInv, ATypes
  <2>2. CASE PPSStart
    BY <2>1, <2>2, UdpAssumption DEF UdpAssumption, PPSStart, AInv, ATypes, UInv, UTypes, Config
  <2>3. CASE PPSStamp \/ PPSAborts
    BY <2>1, <2>3, FaultBounded DEF PPSStamp, PPSAborts, netVars
  <2> QED
    BY <2>2, <2>3
<1>3. ATypes'
  BY <1>1, <1>2 DEF AInv, ATypes
<1> QED
  BY <1>1, <1>3, PPSStays

LEMMA PPSReceiverStays ==
  ASSUME UInv, AInv, NEW f \in Flows, PPSReceiverReturns(f) \/ PPSReadError(f) PROVE AInv'
<1>1. /\ config.mode = "pps"
      /\ UNCHANGED <<config, completed, previous, latencies, seen, index, counters, wire, inbox,
                     ctx, expired, outcome>>
  BY DEF PPSReceiverReturns, PPSReadError, Receiving, echoVars, ppsVars, netVars
<1>2. faults' \in 0..MaxFaults
  BY FaultBounded DEF AInv, ATypes, PPSReceiverReturns, PPSReadError, netVars
<1>3. ATypes'
  BY <1>1, <1>2 DEF AInv, ATypes
<1> QED
  BY <1>1, <1>3, PPSStays

LEMMA PPSWriteAdds ==
  ASSUME UInv, AInv, PPSWrite PROVE AInv'
<1>1. /\ config.mode = "pps" /\ index' = index + 1
      /\ UNCHANGED <<config, completed, previous, latencies, seen, inbox, ctx, expired,
                     outcome, faults>>
      /\ wire' = wire \cup {Packet(NextFlow, NextSequence, FALSE)} /\ Count({"sent"})
  BY DEF PPSWrite, Sending, echoVars
<1>2. /\ config.flows \in Nat \ {0} /\ index \in Nat /\ Flows = 0 .. config.flows - 1
      /\ Flows' = Flows /\ config' = config
  BY <1>1, FlowsAreFinite DEF UInv, UTypes, Flows
<1>3. \A f \in Flows :
        /\ Sequences(f) \in Nat
        /\ Sequences(f)' = Sequences(f) + (IF f = NextFlow THEN 1 ELSE 0)
        /\ Requests(f)' = Requests(f)
  <2> SUFFICES ASSUME NEW f \in Flows
               PROVE  /\ Sequences(f) \in Nat
                      /\ Sequences(f)' = Sequences(f) + (IF f = NextFlow THEN 1 ELSE 0)
    BY <1>2 DEF Requests
  <2>1. Sequences(f) = PerWorker(index, config.flows, f)
    BY <1>1, Shares DEF UInv
  <2>2. Sequences(f)' = PerWorker(index + 1, config.flows, f)
    BY <1>1, <1>2 DEF Sequences, PerWorker
  <2>3. /\ PerWorker(index, config.flows, f) \in Nat
        /\ PerWorker(index + 1, config.flows, f)
             = PerWorker(index, config.flows, f) + (IF f = index % config.flows THEN 1 ELSE 0)
    BY <1>2, DealsInTurn
  <2> QED
    BY <2>1, <2>2, <2>3 DEF NextFlow
<1>4. NextFlow \in Flows
  BY RoundRobin DEF UInv
<1>5. EchoPlaced' /\ EchoBalance'
  BY <1>1, <1>2, PPSSide
<1>6. PPSPlaced'
  <2> SUFFICES ASSUME NEW f \in Flows
               PROVE  /\ completed[f] = 0
                      /\ previous[f] = 0 \/ previous[f] \in seen[f]
                      /\ seen[f] \subseteq 1 .. Sequences(f)'
                      /\ Len(latencies[f]) <= Requests(f)'
    BY <1>1, <1>2 DEF PPSPlaced, Received
  <2>1. 1 .. Sequences(f) \subseteq 1 .. Sequences(f)'
    BY <1>3
  <2> QED
    BY <1>1, <1>3, <2>1 DEF AInv, PPSPlaced, Received
<1>7. PacketsAreSent'
  <2>1. \A p : p.flow \in Flows /\ Reached(p) => Reached(p)'
    BY <1>1, <1>2, <1>3 DEF Reached
  <2>2. \A p \in wire : p.flow \in Flows
    BY DEF UInv, WireTraced
  <2>3. \A f \in Flows : \A i \in DOMAIN inbox[f] : inbox[f][i].flow = f
    <3> SUFFICES ASSUME NEW f \in Flows, NEW i \in DOMAIN inbox[f] PROVE inbox[f][i].flow = f
      OBVIOUS
    <3>1. inbox[f] \in Seq(Traced(f))
      BY DEF UInv, InboxTraced
    <3>2. inbox[f][i] \in Traced(f)
      BY <3>1
    <3> QED
      BY <3>2 DEF Traced
  <2>4. ASSUME NEW q, q = Packet(NextFlow, NextSequence, FALSE) PROVE Reached(q)'
    <3>1. PICK f \in Flows : f = NextFlow
      BY <1>4
    <3>2. q.flow = f /\ q.sequence = Sequences(f) + 1
      BY <2>4, <3>1 DEF Packet, NextSequence
    <3>3. q.sequence \in 1 .. Sequences(f)'
      BY <1>3, <3>1, <3>2
    <3> QED
      BY <3>2, <3>3 DEF Reached
  <2>5. \A q \in wire' : Reached(q)'
    BY <1>1, <2>1, <2>2, <2>4 DEF AInv, PacketsAreSent
  <2>6. \A f \in Flows : \A i \in DOMAIN inbox[f] : Reached(inbox[f][i])
    BY DEF AInv, PacketsAreSent
  <2>7. ASSUME NEW f \in Flows, NEW i \in DOMAIN inbox[f], NEW q, q = inbox[f][i]
        PROVE  Reached(q)'
    BY <2>1, <2>3, <2>6, <2>7
  <2>8. \A f \in Flows : \A i \in DOMAIN inbox'[f] : \A q : q = inbox'[f][i] => Reached(q)'
    BY <1>1, <2>7
  <2> QED
    BY <1>2, <2>5, <2>8 DEF PacketsAreSent, Reached
<1>8. /\ counters' \in [Counter -> Nat]
      /\ \A c \in Counter : counters'[c] = counters[c] + (IF c \in {"sent"} THEN 1 ELSE 0)
  BY <1>1, Counts DEF AInv
<1>9. /\ counters'["operations"] = counters["operations"] /\ counters'["lost"] = counters["lost"]
      /\ ATypes'
  BY <1>1, <1>8 DEF AInv, ATypes, Counter
<1>10. OperationsAdded'
  BY <1>1, <1>9, MeasuredSame DEF AInv, OperationsAdded
<1>11. PPSBalance'
  <2>1. outcome = "running" /\ outcome' = "running"
    BY <1>1 DEF PPSWrite, Sending
  <2> QED
    BY <1>1, <1>9, <2>1 DEF AInv, PPSBalance
<1> QED
  BY <1>5, <1>6, <1>7, <1>9, <1>10, <1>11 DEF AInv

(* What a receiver takes was sent to its flow. *)
LEMMA GotIsReached ==
  ASSUME UInv, AInv, config.mode = "pps", NEW f \in Flows, inbox[f] # <<>>
  PROVE  /\ Got(f).sequence \in 1 .. Sequences(f)
         /\ \A i \in DOMAIN Tail(inbox[f]) : Reached(Tail(inbox[f])[i])
<1>1. inbox[f] \in Seq(Traced(f)) /\ \A i \in DOMAIN inbox[f] : Reached(inbox[f][i])
  BY DEF UInv, InboxTraced, AInv, PacketsAreSent
<1>2. Got(f) = inbox[f][1] /\ 1 \in DOMAIN inbox[f] /\ Got(f) \in Traced(f)
  BY <1>1 DEF Got
<1>3. Got(f).flow = f /\ Reached(Got(f))
  BY <1>1, <1>2 DEF Traced
<1>4. \A i \in DOMAIN Tail(inbox[f]) :
        i + 1 \in DOMAIN inbox[f] /\ Tail(inbox[f])[i] = inbox[f][i + 1]
  BY <1>1
<1> QED
  BY <1>1, <1>3, <1>4 DEF Reached

LEMMA PPSReadAdds ==
  ASSUME UInv, AInv, NEW f \in Flows, PPSRead(f) PROVE AInv'
<1> DEFINE n == Got(f).sequence
<1>1. /\ config.mode = "pps" /\ outcome = "running" /\ outcome' = outcome
      /\ UNCHANGED <<config, completed, index, wire, ctx, expired, faults>>
      /\ Received(f) < Requests(f) /\ inbox[f] # <<>>
      /\ inbox' = [inbox EXCEPT ![f] = Tail(@)]
  BY DEF PPSRead, Receiving, echoVars
<1>2. /\ Flows' = Flows
      /\ \A g : Sequences(g)' = Sequences(g) /\ Requests(g)' = Requests(g)
      /\ \A p : Reached(p)' <=> Reached(p)
  BY <1>1, SequencesOfPPS
<1>3. n \in 1 .. Sequences(f) /\ \A i \in DOMAIN Tail(inbox[f]) : Reached(Tail(inbox[f])[i])
  BY <1>1, GotIsReached
<1>4. \A g \in Flows : Sequences(g) \in Nat /\ Requests(g) \in Nat /\ latencies[g] \in Seq(Int)
  BY Shares DEF UInv, UTypes
<1>5. n \in Nat
  BY <1>3, <1>4
<1> HIDE DEF n
<1>6. EchoPlaced' /\ EchoBalance'
  BY <1>1, PPSSide
<1>7. PacketsAreSent'
  <2>1. inbox'[f] = Tail(inbox[f]) /\ \A g \in Flows : g # f => inbox'[g] = inbox[g]
    BY <1>1 DEF UInv, InboxTraced
  <2> QED
    BY <1>1, <1>2, <1>3, <2>1 DEF AInv, PacketsAreSent
<1>8. \/ UNCHANGED <<previous, seen>>
      \/ /\ seen' = [seen EXCEPT ![f] = @ \union {n}]
         /\ previous' = [previous EXCEPT ![f] = IF n > @ THEN n ELSE @]
  BY DEF PPSRead, n
<1>9. PICK names : /\ Count(names) /\ "lost" \notin names
                   /\ \/ UNCHANGED latencies /\ "operations" \notin names
                      \/ /\ latencies' = [latencies EXCEPT ![f] = Append(@, n)]
                         /\ "operations" \in names
  <2> DEFINE reordered == IF Behind(f, n) THEN {"reordered"} ELSE {}
  <2>1. \/ Count({"received", "corrupt"}) /\ UNCHANGED latencies
        \/ Count({"received", "reordered"}) /\ UNCHANGED latencies
        \/ /\ latencies' = [latencies EXCEPT ![f] = Append(@, n)]
           /\ Count({"received", "operations"} \union reordered)
        \/ Count({"received", "corrupt"} \union reordered) /\ UNCHANGED latencies
    BY DEF PPSRead, n
  <2> QED
    BY <2>1
<1>10. /\ counters' \in [Counter -> Nat]
       /\ \A c \in Counter : counters'[c] = counters[c] + (IF c \in names THEN 1 ELSE 0)
  BY <1>9, Counts DEF AInv
<1>11. ATypes'
  BY <1>1, <1>10 DEF AInv, ATypes
<1>12. /\ counters'["lost"] = 0
       /\ counters["operations"] \in Nat
       /\ counters'["operations"] = counters["operations"]
                                    + (IF "operations" \in names THEN 1 ELSE 0)
  BY <1>1, <1>9, <1>10 DEF AInv, ATypes, PPSBalance, Counter
<1>13. PPSPlaced'
  <2>1. \A g \in Flows : /\ previous'[g] = 0 \/ previous'[g] \in seen'[g]
                         /\ seen'[g] \subseteq 1 .. Sequences(g)
    BY <1>1, <1>3, <1>8 DEF UInv, UTypes, AInv, PPSPlaced
  <2>2. \A g \in Flows : Len(latencies'[g]) <= Requests(g)
    <3>1. CASE UNCHANGED latencies
      BY <1>1, <3>1 DEF AInv, PPSPlaced, Received
    <3>2. CASE latencies' = [latencies EXCEPT ![f] = Append(@, n)]
      <4>1. /\ latencies'[f] = Append(latencies[f], n)
            /\ \A g \in Flows : g # f => latencies'[g] = latencies[g]
        BY <3>2 DEF UInv, UTypes
      <4>2. Len(latencies'[f]) = Len(latencies[f]) + 1 /\ Len(latencies[f]) \in Nat
        BY <1>4, <1>5, <4>1
      <4> QED
        BY <1>1, <1>4, <4>1, <4>2 DEF AInv, PPSPlaced, Received
    <3> QED
      BY <1>9, <3>1, <3>2
  <2> QED
    BY <1>1, <1>2, <2>1, <2>2 DEF AInv, PPSPlaced, Received
<1>14. OperationsAdded'
  <2>1. CASE UNCHANGED latencies /\ "operations" \notin names
    BY <1>1, <1>12, <2>1, MeasuredSame DEF AInv, OperationsAdded
  <2>2. CASE latencies' = [latencies EXCEPT ![f] = Append(@, n)] /\ "operations" \in names
    <3>1. /\ latencies'[f] = Append(latencies[f], n)
          /\ \A g \in Flows : g # f => latencies'[g] = latencies[g]
      BY <2>2 DEF UInv, UTypes
    <3>2. Measured' = Measured + 1
      BY <1>1, <1>5, <3>1, MeasuredOneMore DEF UInv
    <3> QED
      BY <1>12, <2>2, <3>2 DEF AInv, OperationsAdded
  <2> QED
    BY <1>9, <2>1, <2>2
<1>15. PPSBalance'
  BY <1>1, <1>12 DEF PPSBalance
<1> QED
  BY <1>6, <1>7, <1>11, <1>13, <1>14, <1>15 DEF AInv

(* What was received and what was not make up the requests.                *)
LEMMA MissingMakesUp ==
  ASSUME UInv, AInv, config.mode = "pps"
  PROVE  LET missing == SumFunction([f \in Flows |-> Requests(f) - Received(f)])
         IN /\ missing \in Nat /\ Measured + missing = config.requests
            /\ missing = 0 => \A f \in Flows : Received(f) = Requests(f)
<1> DEFINE a == [f \in Flows |-> Len(latencies[f])]
           b == [f \in Flows |-> Requests(f) - Received(f)]
           c == [f \in Flows |-> Requests(f)]
<1>1. /\ IsFiniteSet(Flows) /\ Flows = 0 .. config.flows - 1
      /\ config.flows \in Nat \ {0} /\ config.requests \in Nat
  BY FlowsAreFinite DEF UInv
<1>2. \A f \in Flows : /\ Len(latencies[f]) \in Nat /\ Requests(f) \in Nat
                       /\ Received(f) = Len(latencies[f]) /\ Received(f) <= Requests(f)
  BY Shares DEF UInv, UTypes, AInv, PPSPlaced, Received
<1>3. \A f \in Flows : a[f] \in Int /\ b[f] \in Int /\ c[f] = a[f] + b[f]
  BY <1>2
<1>4. \A f \in Flows : b[f] \in Nat
  BY <1>2
<1>5. Measured = SumFunctionOnSet(a, Flows)
  BY DEF Measured, SumFunction
<1>6. SumFunctionOnSet(c, Flows) = config.requests
  <2>1. \A w \in 0 .. config.flows - 1 :
          c[w] = config.requests \div config.flows
                 + (IF w < config.requests % config.flows THEN 1 ELSE 0)
    BY <1>1 DEF Requests, PerWorker
  <2> HIDE DEF c
  <2> QED
    BY <1>1, <2>1, SumOfShares
<1>7. SumFunction(b) = SumFunctionOnSet(b, Flows)
  BY DEF SumFunction
<1>8. (\A f \in Flows : b[f] = 0) => \A f \in Flows : Received(f) = Requests(f)
  BY <1>2
<1> HIDE DEF a, b, c
<1>9. SumFunctionOnSet(c, Flows) = SumFunctionOnSet(a, Flows) + SumFunctionOnSet(b, Flows)
  BY <1>1, <1>3, SumAdds
<1>10. SumFunctionOnSet(b, Flows) \in Nat
  BY <1>1, <1>4, SumType
<1>11. SumFunctionOnSet(b, Flows) = 0 => \A f \in Flows : b[f] = 0
  BY <1>1, <1>4, SumIsNothing
<1>12. /\ SumFunction(b) \in Nat /\ Measured + SumFunction(b) = config.requests
       /\ SumFunction(b) = 0 => \A f \in Flows : Received(f) = Requests(f)
  BY <1>5, <1>6, <1>7, <1>8, <1>9, <1>10, <1>11
<1> QED
  BY <1>12 DEF b

LEMMA PPSCollectsAdds ==
  ASSUME UInv, AInv, PPSCollects PROVE AInv'
<1> DEFINE missing == SumFunction([f \in Flows |-> Requests(f) - Received(f)])
           broken == {f \in Flows : pc[f] = "broken"}
<1>1. /\ config.mode = "pps" /\ outcome = "running"
      /\ UNCHANGED <<config, completed, previous, latencies, seen, index, wire, inbox,
                     ctx, expired, faults>>
  BY DEF PPSCollects, echoVars, ppsVars, netVars
<1>2. CASE outcome' = "error" /\ UNCHANGED counters
  <2>1. ATypes'
    BY <1>1, <1>2 DEF AInv, ATypes
  <2> QED
    BY <1>1, <1>2, <2>1, PPSStays
<1>3. CASE /\ counters' = [counters EXCEPT !["lost"] = @ + missing,
                                           !["failed"] = @ + Cardinality(broken)]
           /\ outcome' \in {"ok", "error"}
  <2>1. /\ missing \in Nat /\ Measured + missing = config.requests
        /\ missing = 0 => \A f \in Flows : Received(f) = Requests(f)
    BY <1>1, MissingMakesUp
  <2>2. Cardinality(broken) \in Nat
    <3>1. IsFiniteSet(broken)
      BY FlowsAreFinite, FS_Subset DEF UInv
    <3> QED
      BY <3>1, FS_CardinalityType
  <2> HIDE DEF missing, broken
  <2>3. /\ counters' \in [Counter -> Nat]
        /\ counters'["operations"] = counters["operations"]
        /\ counters'["lost"] = missing
    <3>1. counters \in [Counter -> Nat] /\ counters["lost"] = 0
      BY <1>1 DEF AInv, ATypes, PPSBalance
    <3> QED
      BY <1>3, <2>1, <2>2, <3>1 DEF Counter
  <2>4. /\ Flows' = Flows
        /\ \A f : Sequences(f)' = Sequences(f) /\ Requests(f)' = Requests(f)
        /\ \A p : Reached(p)' <=> Reached(p)
    BY <1>1, SequencesOfPPS
  <2>5. ATypes'
    BY <1>1, <1>3, <2>3 DEF AInv, ATypes
  <2>6. EchoPlaced' /\ EchoBalance'
    BY <1>1, PPSSide
  <2>7. PPSPlaced' /\ PacketsAreSent'
    BY <1>1, <2>4 DEF AInv, PPSPlaced, PacketsAreSent, Received
  <2>8. OperationsAdded'
    BY <1>1, <2>3, MeasuredSame DEF AInv, OperationsAdded
  <2>9. PPSBalance'
    BY <1>1, <1>3, <2>1, <2>3, <2>4 DEF AInv, OperationsAdded, PPSBalance, Received
  <2> QED
    BY <2>5, <2>6, <2>7, <2>8, <2>9 DEF AInv
<1> QED
  BY <1>2, <1>3 DEF PPSCollects

-----------------------------------------------------------------------------
LEMMA AddsInit == Init => AInv
<1> SUFFICES ASSUME Init PROVE AInv
  OBVIOUS
<1>1. UInv
  BY UdpInit
<1>2. /\ IsFiniteSet(Flows) /\ MaxSequence \in Nat /\ MaxFaults \in Nat
      /\ \A f \in Flows : Sequences(f) \in Nat /\ Requests(f) \in Nat
  BY <1>1, FlowsAreFinite, Shares, UdpAssumption DEF UdpAssumption, UInv
<1>3. ATypes
  <2>1. faults \in 0..MaxFaults
    BY <1>2 DEF Init
  <2>2. counters \in [Counter -> Nat]
    BY DEF Init
  <2> QED
    BY <2>1, <2>2 DEF ATypes, Init
<1>4. EchoPlaced /\ PacketsAreSent
  BY <1>2 DEF EchoPlaced, PacketsAreSent, Init
<1>5. PPSPlaced
  BY <1>2 DEF PPSPlaced, Received, Init
<1>6. OperationsAdded
  <2> DEFINE a == [f \in Flows |-> Len(latencies[f])]
  <2>1. \A f \in Flows : a[f] = 0
    BY DEF Init
  <2>2. Measured = SumFunctionOnSet(a, Flows)
    BY DEF Measured, SumFunction
  <2> HIDE DEF a
  <2>3. SumFunctionOnSet(a, Flows) = 0 * Cardinality(Flows)
    BY <1>2, <2>1, SumOfConstant
  <2>4. Cardinality(Flows) \in Nat
    BY <1>2, FS_CardinalityType
  <2> QED
    BY <2>2, <2>3, <2>4 DEF OperationsAdded, Init, Counter
<1>7. EchoBalance
  <2>1. Waiting = {} /\ Broken = {}
    BY DEF Waiting, Broken, Init
  <2>2. Cardinality(Waiting) = 0 /\ Cardinality(Broken) = 0
    BY <2>1, FS_EmptySet
  <2> QED
    BY <2>2 DEF EchoBalance, Init, Counter
<1>8. PPSBalance
  BY DEF PPSBalance, Init, Counter
<1> QED
  BY <1>3, <1>4, <1>5, <1>6, <1>7, <1>8 DEF AInv

LEMMA AddsNext == UInv /\ AInv /\ [Next]_vars => AInv'
<1> SUFFICES ASSUME UInv, AInv, [Next]_vars PROVE AInv'
  OBVIOUS
<1>1. CASE Network
  BY <1>1, NetworkAdds
<1>2. CASE ContextEnds \/ DeadlinePasses
  BY <1>2, ClockAdds
<1>3. CASE \E f \in Flows : EchoFlow(f)
  BY <1>3, EchoDialAdds, EchoReturnsAdds, EchoSendAdds, EchoTimeoutAdds, EchoReadErrorAdds,
     EchoReadAdds DEF EchoFlow
<1>4. CASE \E f \in Flows : PPSReceiver(f)
  BY <1>4, PPSReadAdds, PPSReceiverStays DEF PPSReceiver
<1>5. CASE PPSSender
  BY <1>5, PPSSenderStays, PPSWriteAdds DEF PPSSender
<1>6. CASE EchoCollects \/ PPSCollects
  BY <1>6, EchoCollectsAdds, PPSCollectsAdds
<1>7. CASE UNCHANGED vars
  <2>1. UNCHANGED <<config, ctx, pc, completed, previous, latencies, seen, stamped, index, expired,
                    counters, outcome, wire, inbox, faults>>
    BY <1>7 DEF vars, echoVars, ppsVars, netVars
  <2>2. ATypes'
    BY <2>1 DEF AInv, ATypes
  <2>3. PacketsAreSent'
    BY <2>1, SequencesSame DEF AInv, PacketsAreSent, Flows
  <2> QED
    BY <2>1, <2>2, <2>3, QuietKeeps
<1> QED
  BY <1>1, <1>2, <1>3, <1>4, <1>5, <1>6, <1>7 DEF Next

LEMMA AddsInductive == Spec => [](UInv /\ AInv)
BY UdpInit, UdpNext, AddsInit, AddsNext, PTL DEF Spec

LEMMA SeqOfPart ==
  ASSUME NEW s \in Seq(Int), NEW T, \A i \in DOMAIN s : s[i] \in T
  PROVE  s \in Seq(T)
OBVIOUS

(* A sequence of k different numbers of 1 .. k has all of them.            *)
LEMMA AllAreThere ==
  ASSUME NEW k \in Nat, NEW s \in Seq(Int), Len(s) = k, IsInjective(s),
         \A i \in DOMAIN s : s[i] \in 1 .. k
  PROVE  \A n \in 1 .. k : \E i \in DOMAIN s : s[i] = n
<1> DEFINE S == 1 .. k
<1>1. DOMAIN s = S /\ s \in [S -> S]
  OBVIOUS
<1>2. s \in Injection(S, S)
  BY <1>1 DEF Injection
<1>3. IsFiniteSet(S)
  <2>1. 1 \in Int /\ k \in Int
    OBVIOUS
  <2> QED
    BY <2>1, FS_Interval
<1> HIDE DEF S
<1>4. s \in Surjection(S, S)
  BY <1>2, <1>3, FS_Injection
<1> QED
  BY <1>1, <1>4 DEF Surjection, S

(* What was measured in a flow was sent by it. *)
LEMMA MeasuredWasSent ==
  ASSUME UInv, AInv, NEW f \in Flows, NEW i \in DOMAIN latencies[f]
  PROVE  latencies[f][i] \in 1 .. Sequences(f)
<1>1. config.mode \in {"echo", "pps"} /\ completed[f] \in Nat
  BY UdpAssumption DEF UdpAssumption, UInv, UTypes, Config
<1>2. CASE config.mode = "pps"
  BY <1>2 DEF UInv, MeasuredIsBehind, AInv, PPSPlaced
<1>3. CASE config.mode = "echo"
  <2>1. latencies[f][i] \in 1 .. completed[f]
    BY <1>3 DEF AInv, EchoPlaced
  <2> QED
    BY <1>1, <1>3, <2>1 DEF Sequences
<1> QED
  BY <1>1, <1>2, <1>3

(* No flow sends beyond the bound. *)
LEMMA SentIsBounded ==
  ASSUME UInv, AInv, NEW f \in Flows
  PROVE  Sequences(f) \in 0 .. MaxSequence
<1>1. config.mode \in {"echo", "pps"} /\ completed[f] \in Nat
  BY UdpAssumption DEF UdpAssumption, UInv, UTypes, Config
<1>2. /\ MaxSequence \in Nat /\ config.requests \in Nat /\ config.requests <= MaxSequence
      /\ Sequences(f) \in Nat /\ Requests(f) \in Nat /\ Requests(f) <= config.requests
  BY FlowsAreFinite, Shares DEF UInv
<1>3. CASE config.mode = "pps"
  BY <1>2, <1>3, SentOfShare DEF UInv
<1>4. CASE config.mode = "echo"
  BY <1>1, <1>2, <1>4 DEF Sequences, AInv, EchoPlaced
<1> QED
  BY <1>1, <1>3, <1>4

(* Every variable stays in its type and below the bounds of the model, and *)
(* the schedule of a PPS workload in the arrays of its receivers.          *)
THEOREM UdpTypeOK == Spec => []TypeOK
<1>1. ASSUME UInv, AInv PROVE TypeOK
  <2>1. /\ MaxSequence \in Nat /\ config.requests \in Nat /\ config.requests <= MaxSequence
        /\ config.mode \in {"echo", "pps"}
    BY <1>1, FlowsAreFinite, UdpAssumption DEF UdpAssumption, UInv, UTypes, Config
  <2>2. \A f \in Flows :
          /\ completed[f] \in 0..MaxSequence
          /\ previous[f] \in 0..MaxSequence
          /\ seen[f] \subseteq 1..MaxSequence
    <3> SUFFICES ASSUME NEW f \in Flows
                 PROVE  /\ completed[f] \in 0..MaxSequence
                        /\ previous[f] \in 0..MaxSequence
                        /\ seen[f] \subseteq 1..MaxSequence
      OBVIOUS
    <3>1. Sequences(f) \in 0..MaxSequence /\ completed[f] \in Nat
      BY <1>1, SentIsBounded DEF UInv, UTypes
    <3>2. CASE config.mode = "pps"
      BY <1>1, <2>1, <3>1, <3>2 DEF AInv, PPSPlaced
    <3>3. CASE config.mode = "echo"
      BY <1>1, <2>1, <3>1, <3>3 DEF AInv, EchoPlaced
    <3> QED
      BY <2>1, <3>2, <3>3
  <2>3. \A f \in Flows : stamped[f] \subseteq 1..MaxSequence
    <3> SUFFICES ASSUME NEW f \in Flows PROVE stamped[f] \subseteq 1..MaxSequence
      OBVIOUS
    <3>1. CASE config.mode = "pps"
      <4>1. index \in Nat /\ f \in 0 .. config.flows - 1 /\ config.flows \in Nat \ {0}
        BY <1>1, FlowsAreFinite DEF UInv, UTypes
      <4>2. PICK k \in {index, index + 1} : k <= config.requests /\ Dealt(k)
        BY <1>1, <2>1, <3>1, <4>1 DEF UInv, UTypes, Scheduled
      <4>3. k \in Nat /\ stamped[f] = 1 .. PerWorker(k, config.flows, f)
        BY <4>1, <4>2 DEF Dealt
      <4>4. PerWorker(k, config.flows, f) \in Nat /\ PerWorker(k, config.flows, f) <= k
        BY <4>1, <4>3, ShareIsAPart
      <4> QED
        BY <2>1, <4>2, <4>3, <4>4
    <3>2. CASE config.mode = "echo"
      BY <1>1, <3>2 DEF AInv, EchoPlaced
    <3> QED
      BY <2>1, <3>1, <3>2
  <2>4. \A f \in Flows : latencies[f] \in Seq(1..MaxSequence)
    <3> SUFFICES ASSUME NEW f \in Flows PROVE latencies[f] \in Seq(1..MaxSequence)
      OBVIOUS
    <3>1. latencies[f] \in Seq(Int) /\ Sequences(f) \in 0..MaxSequence
      BY <1>1, SentIsBounded DEF UInv, UTypes
    <3>2. \A i \in DOMAIN latencies[f] : latencies[f][i] \in 1..MaxSequence
      <4> SUFFICES ASSUME NEW i \in DOMAIN latencies[f]
                   PROVE  latencies[f][i] \in 1..MaxSequence
        OBVIOUS
      <4>1. latencies[f][i] \in 1..Sequences(f)
        BY <1>1, MeasuredWasSent
      <4> QED
        BY <2>1, <3>1, <4>1
    <3> QED
      BY <3>1, <3>2, SeqOfPart
  <2>5. index \in 0..MaxSequence
    <3>1. index \in Nat
      BY <1>1 DEF UInv, UTypes
    <3>2. CASE config.mode = "pps"
      BY <1>1, <2>1, <3>1, <3>2 DEF UInv, Scheduled
    <3>3. CASE config.mode = "echo"
      BY <1>1, <2>1, <3>3 DEF AInv, EchoPlaced
    <3> QED
      BY <2>1, <3>2, <3>3
  <2>6. /\ completed \in [Flows -> 0..MaxSequence] /\ previous \in [Flows -> 0..MaxSequence]
        /\ seen \in [Flows -> SUBSET (1..MaxSequence)]
        /\ stamped \in [Flows -> SUBSET (1..MaxSequence)]
    BY <1>1, <2>2, <2>3 DEF UInv, UTypes
  <2>7. ScheduleFits
    BY <1>1, ScheduleFitsNow
  <2> QED
    BY <1>1, <2>4, <2>5, <2>6, <2>7 DEF TypeOK, UInv, UTypes, AInv, ATypes
<1> QED
  BY <1>1, AddsInductive, PTL

(* No reply is an operation twice, none before its request was sent, and   *)
(* the operations counted over all flows are the requests that were        *)
(* measured.                                                               *)
THEOREM UdpRequestsMeasuredOnce == Spec => []RequestsMeasuredOnce
<1>1. ASSUME UInv, AInv PROVE RequestsMeasuredOnce
  <2>1. \A f \in Flows : IsInjective(latencies[f])
    BY <1>1 DEF UInv, NoneMeasuredTwice
  <2>2. \A f \in Flows : Range(latencies[f]) \subseteq 1..Sequences(f)
    BY <1>1, MeasuredWasSent DEF Range
  <2>3. counters["operations"] = SumFunction([f \in Flows |-> Len(latencies[f])])
    BY <1>1 DEF AInv, OperationsAdded, Measured
  <2> QED
    BY <2>1, <2>2, <2>3 DEF RequestsMeasuredOnce
<1> QED
  BY <1>1, AddsInductive, PTL

(* Every request ends in one counter, over all flows: an echo request that *)
(* was sent, but for the one under way, and a PPS packet of the schedule   *)
(* when the run succeeds; a PPS run without a loss has seen all of it.     *)
THEOREM UdpEveryRequestIsCounted == Spec => []EveryRequestIsCounted
<1>1. ASSUME UInv, AInv PROVE EveryRequestIsCounted
  <2>1. ASSUME config.mode = "pps", outcome = "ok", counters["lost"] = 0, NEW f \in Flows
        PROVE  seen[f] = 1..Requests(f)
    <3>1. /\ latencies[f] \in Seq(Int) /\ Requests(f) \in Nat /\ Sequences(f) \in Nat
          /\ Sequences(f) <= Requests(f) /\ Len(latencies[f]) = Requests(f)
      BY <1>1, <2>1, Shares, SentOfShare DEF UInv, UTypes, AInv, PPSBalance, Received
    <3>2. seen[f] \subseteq 1..Requests(f)
      BY <1>1, <2>1, <3>1 DEF AInv, PPSPlaced
    <3>3. \A i \in DOMAIN latencies[f] : latencies[f][i] \in seen[f]
      BY <1>1, <2>1 DEF UInv, MeasuredIsBehind
    <3>4. \A n \in 1..Requests(f) : \E i \in DOMAIN latencies[f] : latencies[f][i] = n
      <4>1. IsInjective(latencies[f])
        BY <1>1 DEF UInv, NoneMeasuredTwice
      <4>2. \A i \in DOMAIN latencies[f] : latencies[f][i] \in 1..Requests(f)
        BY <3>2, <3>3
      <4> QED
        BY <3>1, <4>1, <4>2, AllAreThere
    <3> QED
      BY <3>2, <3>3, <3>4
  <2> QED
    BY <1>1, <2>1 DEF EveryRequestIsCounted, AInv, EchoBalance, PPSBalance
<1> QED
  BY <1>1, AddsInductive, PTL
=============================================================================
