-------------------------------- MODULE Udp --------------------------------
(***************************************************************************)
(* RunDetailed and Server.Serve of internal/workload/udp/udp.go: the echo  *)
(* workload (each flow sends a request and waits for its reply) and the    *)
(* PPS workload (one sender on a schedule, one receiver for each flow),    *)
(* over a network that loses, duplicates, damages and overtakes.           *)
(*                                                                         *)
(* A packet is its flow, its sequence number and its flags; the payload is *)
(* only its checksum, right or wrong.  A latency is the request it was     *)
(* measured for.                                                           *)
(***************************************************************************)
EXTENDS Naturals, Sequences, SequencesExt, Functions

CONSTANTS
  Configs,       (* the configurations to look at, see Config              *)
  MaxSequence,   (* bound on the requests of a flow without a limit        *)
  MaxFaults      (* bound on losses, copies, damages and socket errors     *)

(* ClientConfig: requests = 0 stands for a workload with a duration; PPS   *)
(* has computed its packets from it already.                               *)
Config == [mode : {"echo", "pps"}, proof : BOOLEAN, flows : Nat \ {0}, requests : Nat]

ASSUME UdpAssumption ==
  /\ Configs \subseteq Config
  /\ MaxSequence \in Nat /\ MaxFaults \in Nat
  /\ \A c \in Configs : c.requests <= MaxSequence /\ (c.mode = "pps" => ~c.proof)

VARIABLES
  config,       (* the ClientConfig                                        *)
  ctx,          (* the context: "live" or "done"                           *)
  pc,           (* of each flow's goroutine                                *)
  completed,    (* echo: requests that are over, flow by flow              *)
  flagged,      (* echo: the request under way asks for proof              *)
  paths,        (* echo: proofCollected                                    *)
  previous,     (* the greatest sequence number accepted                   *)
  latencies,    (* the requests that were measured, in order               *)
  seen,         (* PPS: sequence numbers accepted                          *)
  stamped,      (* PPS: sequence numbers with a sentAt                     *)
  index,        (* PPS: packets sent                                       *)
  sender,       (* PPS: where the sender is                                *)
  expired,      (* PPS: the read deadline of the receivers has passed      *)
  counters,     (* atomicCounters                                          *)
  outcome,      (* what RunDetailed has returned                           *)
  wire,         (* packets on their way                                    *)
  inbox,        (* replies in the socket buffer of each flow               *)
  faults,       (* faults so far                                           *)
  damaged       (* a packet was damaged                                    *)

echoVars == <<completed, flagged, paths>>
ppsVars == <<seen, stamped, index, sender, expired>>
netVars == <<wire, inbox, faults, damaged>>
vars == <<config, ctx, pc, echoVars, previous, latencies, ppsVars, counters, outcome, netVars>>

Flows == 0 .. config.flows - 1
AllFlows == UNION {0 .. c.flows - 1 : c \in Configs}

(* Mutant: the remainder is not handed out. *)
PerWorkerFloor(total, workers, worker) == total \div workers

(* perWorkerRequests *)
PerWorker(total, workers, worker) ==
  total \div workers + (IF worker < total % workers THEN 1 ELSE 0)

Requests(f) == PerWorker(config.requests, config.flows, f)

Counter == {"sent", "received", "operations", "failed", "lost", "reordered", "corrupt"}

(* Each named counter goes up by one. *)
Count(names) == counters' = [c \in Counter |-> counters[c] + (IF c \in names THEN 1 ELSE 0)]

Packet(f, n, proof) ==
  [flow |-> f, sequence |-> n, proof |-> proof, reply |-> FALSE, intact |-> TRUE, copy |-> FALSE]

(* What a flow has sent last: echo counts completed requests, PPS deals    *)
(* the packets round robin.                                                *)
Sequences(f) ==
  IF config.mode = "pps"
  THEN index \div config.flows + (IF f < index % config.flows THEN 1 ELSE 0)
  ELSE completed[f] + (IF pc[f] = "wait" THEN 1 ELSE 0)

Init ==
  /\ config \in Configs
  /\ ctx = "live"
  /\ pc = [f \in Flows |-> "dial"]
  /\ completed = [f \in Flows |-> 0]
  /\ flagged = [f \in Flows |-> FALSE]
  /\ paths = [f \in Flows |-> FALSE]
  /\ previous = [f \in Flows |-> 0]
  /\ latencies = [f \in Flows |-> <<>>]
  /\ seen = [f \in Flows |-> {}]
  /\ stamped = [f \in Flows |-> {}]
  /\ index = 0
  /\ sender = "start"
  /\ expired = FALSE
  /\ counters = [c \in Counter |-> 0]
  /\ outcome = "running"
  /\ wire = {}
  /\ inbox = [f \in Flows |-> <<>>]
  /\ faults = 0
  /\ damaged = FALSE

-----------------------------------------------------------------------------
(* The network, and the server behind it.                                  *)

Fault == faults < MaxFaults /\ faults' = faults + 1

Unchanged == UNCHANGED <<config, ctx, pc, echoVars, previous, latencies, ppsVars, counters, outcome>>

(* Serve: a valid request is answered with its own sequence number; a      *)
(* damaged one, or a reply, is dropped.                                    *)
Serve ==
  /\ \E p \in wire :
       /\ ~p.reply
       /\ wire' = (wire \ {p}) \union (IF p.intact THEN {[p EXCEPT !.reply = TRUE]} ELSE {})
  /\ Unchanged /\ UNCHANGED <<inbox, faults, damaged>>

(* A reply reaches the socket, whatever was sent before it. *)
Deliver ==
  /\ \E p \in wire :
       /\ p.reply
       /\ wire' = wire \ {p}
       /\ inbox' = [inbox EXCEPT ![p.flow] = Append(@, p)]
  /\ Unchanged /\ UNCHANGED <<faults, damaged>>

Lose ==
  /\ Fault
  /\ \E p \in wire : wire' = wire \ {p}
  /\ Unchanged /\ UNCHANGED <<inbox, damaged>>

Duplicate ==
  /\ Fault
  /\ \E p \in wire : wire' = wire \union {[p EXCEPT !.copy = TRUE]}
  /\ Unchanged /\ UNCHANGED <<inbox, damaged>>

Damage ==
  /\ Fault
  /\ \E p \in wire : wire' = (wire \ {p}) \union {[p EXCEPT !.intact = FALSE]}
  /\ damaged' = TRUE
  /\ Unchanged /\ UNCHANGED <<inbox>>

(* The context ends: by a signal at any time, or at the duration.          *)
ContextEnds ==
  /\ ctx = "live" /\ outcome = "running"
  /\ ctx' = "done"
  /\ UNCHANGED <<config, pc, echoVars, previous, latencies, ppsVars, counters, outcome, netVars>>

-----------------------------------------------------------------------------
(* runEchoFlow: one goroutine for each flow.                               *)

Echo(f) == config.mode = "echo" /\ outcome = "running"

(* setError, unless the context has ended: the error is then dropped.      *)
SetError(also) == Count(also \union (IF ctx = "live" THEN {"failed"} ELSE {}))

EchoDial(f) ==
  /\ Echo(f) /\ pc[f] = "dial"
  /\ \/ /\ pc' = [pc EXCEPT ![f] = "send"]
        /\ UNCHANGED <<counters, faults>>
     \/ /\ Fault
        /\ pc' = [pc EXCEPT ![f] = "done"]
        /\ SetError({})
  /\ UNCHANGED <<config, ctx, echoVars, previous, latencies, ppsVars, outcome, wire, inbox, damaged>>

(* The head of the loop: no requests left (0 is no limit), or the context  *)
(* has ended.                                                              *)
EchoReturns(f) ==
  /\ Echo(f) /\ pc[f] = "send"
  /\ ctx = "done" \/ (Requests(f) # 0 /\ completed[f] = Requests(f))
  /\ pc' = [pc EXCEPT ![f] = "done"]
  /\ UNCHANGED <<config, ctx, echoVars, previous, latencies, ppsVars, counters, outcome, netVars>>

(* Mutant: only the first request asks for proof. *)
AsksForProofOnce(f) == config.proof /\ completed[f] = 0

(* Proof is asked for until it was collected. *)
AsksForProof(f) == config.proof /\ ~paths[f]

EchoSend(f) ==
  /\ Echo(f) /\ pc[f] = "send"
  /\ ctx = "live" /\ (Requests(f) = 0 \/ completed[f] < Requests(f))
  /\ completed[f] < MaxSequence
  /\ \/ /\ flagged' = [flagged EXCEPT ![f] = AsksForProof(f)]
        /\ wire' = wire \union {Packet(f, completed[f] + 1, AsksForProof(f))}
        /\ pc' = [pc EXCEPT ![f] = "wait"]
        /\ Count({"sent"})
        /\ UNCHANGED faults
     \/ /\ Fault
        /\ pc' = [pc EXCEPT ![f] = "done"]
        /\ SetError({})
        /\ UNCHANGED <<flagged, wire>>
  /\ UNCHANGED <<config, ctx, completed, paths, previous, latencies, ppsVars, outcome, inbox, damaged>>

(* The request is over; the next one may follow.                           *)
NextRequest(f) ==
  /\ completed' = [completed EXCEPT ![f] = @ + 1]
  /\ pc' = [pc EXCEPT ![f] = "send"]

(* Mutant: the timeout is not counted. *)
EchoTimeoutUncounted(f) ==
  /\ Echo(f) /\ pc[f] = "wait"
  /\ NextRequest(f)
  /\ UNCHANGED <<config, ctx, flagged, paths, previous, latencies, ppsVars, counters, outcome, netVars>>

(* The read deadline of the request passes.                                *)
EchoTimeout(f) ==
  /\ Echo(f) /\ pc[f] = "wait"
  /\ NextRequest(f)
  /\ Count({"lost"})
  /\ UNCHANGED <<config, ctx, flagged, paths, previous, latencies, ppsVars, outcome, netVars>>

(* Any other error of Read: the flow is over. *)
EchoReadError(f) ==
  /\ Echo(f) /\ pc[f] = "wait"
  /\ Fault
  /\ pc' = [pc EXCEPT ![f] = "broken"]
  /\ SetError({})
  /\ UNCHANGED <<config, ctx, echoVars, previous, latencies, ppsVars, outcome, wire, inbox, damaged>>

(* Mutant: a reply to an earlier request is not well formed. *)
WellFormedNow(f, p) == p.intact /\ p.proof = flagged[f] /\ p.sequence = completed[f] + 1

(* The reply that Read returns is the first in the buffer, which may be    *)
(* the reply to an earlier request.                                        *)
Got(f) == Head(inbox[f])
Accepts(f, p) == p.sequence > previous[f] /\ p.sequence = completed[f] + 1
WellFormed(f, p) == p.intact /\ p.proof = flagged[f]

EchoRead(f) ==
  /\ Echo(f) /\ pc[f] = "wait" /\ inbox[f] # <<>>
  /\ inbox' = [inbox EXCEPT ![f] = Tail(@)]
  /\ NextRequest(f)
  /\ \/ /\ ~WellFormed(f, Got(f))
        /\ Count({"received", "corrupt"})
        /\ UNCHANGED <<paths, previous, latencies>>
     \/ /\ WellFormed(f, Got(f)) /\ ~Accepts(f, Got(f))
        /\ Count({"received", "reordered"})
        /\ UNCHANGED <<paths, previous, latencies>>
     \/ /\ WellFormed(f, Got(f)) /\ Accepts(f, Got(f))
        /\ Count({"received", "operations"})
        /\ previous' = [previous EXCEPT ![f] = Got(f).sequence]
        /\ paths' = [paths EXCEPT ![f] = @ \/ flagged[f]]
        /\ latencies' = [latencies EXCEPT ![f] = Append(@, Got(f).sequence)]
  /\ UNCHANGED <<config, ctx, flagged, ppsVars, outcome, wire, faults, damaged>>

(* workers.Wait, and the result. *)
EchoCollects ==
  /\ config.mode = "echo" /\ outcome = "running"
  /\ \A f \in Flows : pc[f] \in {"done", "broken"}
  /\ outcome' = IF counters.failed > 0 THEN "error" ELSE "ok"
  /\ UNCHANGED <<config, ctx, pc, echoVars, previous, latencies, ppsVars, counters, netVars>>

-----------------------------------------------------------------------------
(* runPPS: the sender, and receivePPSFlow for each flow.                   *)

Sending(place) == config.mode = "pps" /\ outcome = "running" /\ sender = place

(* Too few packets for the flows, or a dial that fails, ends it at once.   *)
PPSStart ==
  /\ Sending("start")
  /\ \/ /\ config.requests >= config.flows
        /\ pc' = [f \in Flows |-> "receive"]
        /\ sender' = "send"
        /\ UNCHANGED <<outcome, faults>>
     \/ /\ config.requests < config.flows \/ faults < MaxFaults
        /\ faults' = IF config.requests < config.flows THEN faults ELSE faults + 1
        /\ outcome' = "error"
        /\ UNCHANGED <<pc, sender>>
  /\ UNCHANGED <<config, ctx, echoVars, previous, latencies, seen, stamped, index, expired,
                 counters, wire, inbox, damaged>>

NextFlow == index % config.flows
NextSequence == Sequences(NextFlow) + 1

(* The time of the packet is stored before it is written: the receiver may *)
(* have its reply before Write returns.                                    *)
PPSStamp ==
  /\ Sending("send") /\ index < config.requests
  /\ stamped' = [stamped EXCEPT ![NextFlow] = @ \union {NextSequence}]
  /\ sender' = "write"
  /\ UNCHANGED <<config, ctx, pc, echoVars, previous, latencies, seen, index, expired, counters, outcome, netVars>>

PPSWrite ==
  /\ Sending("write")
  /\ wire' = wire \union {Packet(NextFlow, NextSequence, FALSE)}
  /\ index' = index + 1
  /\ sender' = "send"
  /\ Count({"sent"})
  /\ UNCHANGED <<config, ctx, pc, echoVars, previous, latencies, seen, stamped, expired, outcome,
                 inbox, faults, damaged>>

(* waitUntil sees the end of the context, or Write fails: the sockets are  *)
(* closed.                                                                 *)
PPSAborts ==
  /\ \/ Sending("send") /\ index < config.requests /\ ctx = "done" /\ UNCHANGED faults
     \/ Sending("write") /\ Fault
  /\ sender' = "closed"
  /\ UNCHANGED <<config, ctx, pc, echoVars, previous, latencies, seen, stamped, index, expired,
                 counters, outcome, wire, inbox, damaged>>

(* The deadline of all receivers, offered duration plus timeout after the  *)
(* start, however far the sender is.                                       *)
DeadlinePasses ==
  /\ config.mode = "pps" /\ outcome = "running" /\ sender # "start"
  /\ ~expired /\ expired' = TRUE
  /\ UNCHANGED <<config, ctx, pc, echoVars, previous, latencies, seen, stamped, index, sender,
                 counters, outcome, netVars>>

Receiving(f) == config.mode = "pps" /\ outcome = "running" /\ pc[f] = "receive"
Received(f) == Len(latencies[f])

(* Mutant: a reply that was seen is taken again. *)
NeverDuplicated(f, n) == FALSE

Duplicated(f, n) == n \in seen[f]

Behind(f, n) == previous[f] # 0 /\ n < previous[f]

PPSRead(f) ==
  /\ Receiving(f) /\ Received(f) < Requests(f)
  /\ sender # "closed" /\ ~expired /\ inbox[f] # <<>>
  /\ inbox' = [inbox EXCEPT ![f] = Tail(@)]
  /\ LET n == Got(f).sequence
         reordered == IF Behind(f, n) THEN {"reordered"} ELSE {}
     IN \/ /\ ~Got(f).intact
           /\ Count({"received", "corrupt"})
           /\ UNCHANGED <<previous, seen, latencies>>
        \/ /\ Got(f).intact /\ Duplicated(f, n)
           /\ Count({"received", "reordered"})
           /\ UNCHANGED <<previous, seen, latencies>>
        \/ /\ Got(f).intact /\ ~Duplicated(f, n)
           /\ seen' = [seen EXCEPT ![f] = @ \union {n}]
           /\ previous' = [previous EXCEPT ![f] = IF n > @ THEN n ELSE @]
           /\ IF n \in stamped[f]
              THEN /\ latencies' = [latencies EXCEPT ![f] = Append(@, n)]
                   /\ Count({"received", "operations"} \union reordered)
              ELSE /\ Count({"received", "corrupt"} \union reordered)
                   /\ UNCHANGED latencies
  /\ UNCHANGED <<config, ctx, pc, echoVars, stamped, index, sender, expired, outcome,
                 wire, faults, damaged>>

(* Mutant: the receivers have no deadline. *)
PPSReceiverPersists(f) ==
  /\ Receiving(f)
  /\ Received(f) = Requests(f) \/ sender = "closed"
  /\ pc' = [pc EXCEPT ![f] = "done"]
  /\ UNCHANGED <<config, ctx, echoVars, previous, latencies, ppsVars, counters, outcome, netVars>>

(* All received, the deadline, or the closed socket. *)
PPSReceiverReturns(f) ==
  /\ Receiving(f)
  /\ Received(f) = Requests(f) \/ expired \/ sender = "closed"
  /\ pc' = [pc EXCEPT ![f] = "done"]
  /\ UNCHANGED <<config, ctx, echoVars, previous, latencies, ppsVars, counters, outcome, netVars>>

(* Any other error of Read goes to receiverErrors. *)
PPSReadError(f) ==
  /\ Receiving(f) /\ Received(f) < Requests(f)
  /\ Fault
  /\ pc' = [pc EXCEPT ![f] = "broken"]
  /\ UNCHANGED <<config, ctx, echoVars, previous, latencies, ppsVars, counters, outcome,
                 wire, inbox, damaged>>

(* receivers.Wait; what was not received is lost, unless the sender gave   *)
(* up, which is an error without that count.                               *)
PPSCollects ==
  /\ config.mode = "pps" /\ outcome = "running"
  /\ \A f \in Flows : pc[f] \in {"done", "broken"}
  /\ LET broken == {f \in Flows : pc[f] = "broken"}
         missing == SumFunction([f \in Flows |-> Requests(f) - Received(f)])
     IN \/ /\ sender = "closed"
           /\ outcome' = "error"
           /\ UNCHANGED counters
        \/ /\ sender = "send" /\ index = config.requests
           /\ counters' = [counters EXCEPT !["lost"] = @ + missing,
                                           !["failed"] = @ + Cardinality(broken)]
           /\ outcome' = IF broken = {} THEN "ok" ELSE "error"
  /\ UNCHANGED <<config, ctx, pc, echoVars, previous, latencies, ppsVars, netVars>>

-----------------------------------------------------------------------------
EchoFlow(f) ==
  EchoDial(f) \/ EchoReturns(f) \/ EchoSend(f) \/ EchoTimeout(f) \/ EchoReadError(f) \/ EchoRead(f)
PPSSender == PPSStart \/ PPSStamp \/ PPSWrite \/ PPSAborts
PPSReceiver(f) == PPSRead(f) \/ PPSReceiverReturns(f) \/ PPSReadError(f)

(* Until the sockets are closed. *)
Network == outcome = "running" /\ (Serve \/ Deliver \/ Lose \/ Duplicate \/ Damage)

Next ==
  \/ Network \/ ContextEnds \/ DeadlinePasses
  \/ \E f \in Flows : EchoFlow(f) \/ PPSReceiver(f)
  \/ PPSSender \/ EchoCollects \/ PPSCollects

(* Goroutines run, a deadline passes, and so does the duration of an echo  *)
(* workload.  Nothing is assumed of the network, nor that a signal comes.  *)
Fairness ==
  /\ \A f \in AllFlows : WF_vars(f \in Flows /\ (EchoFlow(f) \/ PPSReceiver(f)))
  /\ WF_vars(PPSSender) /\ WF_vars(EchoCollects \/ PPSCollects)
  /\ WF_vars(DeadlinePasses)
  /\ WF_vars(config.mode = "echo" /\ config.requests = 0 /\ ContextEnds)

Spec == Init /\ [][Next]_vars /\ Fairness

-----------------------------------------------------------------------------
(* The round robin of the sender never leaves the arrays that the          *)
(* receivers' share of the packets has sized (sentAt, seen), and fills     *)
(* them.                                                                   *)
ScheduleFits ==
  config.mode = "pps" /\ sender # "start" =>
    /\ \A f \in Flows : stamped[f] \subseteq 1..Requests(f)
    /\ index = config.requests => \A f \in Flows : stamped[f] = 1..Requests(f)

TypeOK ==
  /\ config \in Configs
  /\ ctx \in {"live", "done"}
  /\ pc \in [Flows -> {"dial", "send", "wait", "receive", "done", "broken"}]
  /\ completed \in [Flows -> 0..MaxSequence]
  /\ flagged \in [Flows -> BOOLEAN] /\ paths \in [Flows -> BOOLEAN]
  /\ previous \in [Flows -> 0..MaxSequence]
  /\ \A f \in Flows : latencies[f] \in Seq(1..MaxSequence)
  /\ seen \in [Flows -> SUBSET (1..MaxSequence)]
  /\ stamped \in [Flows -> SUBSET (1..MaxSequence)]
  /\ index \in 0..MaxSequence
  /\ sender \in {"start", "send", "write", "closed"}
  /\ expired \in BOOLEAN
  /\ counters \in [Counter -> Nat]
  /\ outcome \in {"running", "ok", "error"}
  /\ faults \in 0..MaxFaults
  /\ ScheduleFits

Waiting == {f \in Flows : pc[f] = "wait"}
Broken == {f \in Flows : pc[f] = "broken"}

(* No reply is an operation twice, and none before its request was sent,   *)
(* however often the network repeats it: the operations are as many as the *)
(* requests that have a latency (runEchoFlow, receivePPSFlow).             *)
RequestsMeasuredOnce ==
  /\ \A f \in Flows : IsInjective(latencies[f]) /\ Range(latencies[f]) \subseteq 1..Sequences(f)
  /\ counters["operations"] = SumFunction([f \in Flows |-> Len(latencies[f])])

(* Every request ends in one counter.  Echo: each that was sent, but for   *)
(* the one a flow waits for and the ones that ended in a socket error.     *)
(* PPS: operations and lost make up the whole schedule, and without a loss *)
(* every packet of it was answered, so that the success rate shows every   *)
(* loss (README.md:71, appendRepetition).                                  *)
EveryRequestIsCounted ==
  /\ config.mode = "echo" =>
       counters["sent"] = counters["operations"] + counters["lost"] + counters["reordered"]
                          + counters["corrupt"] + Cardinality(Waiting) + Cardinality(Broken)
  /\ config.mode = "pps" /\ outcome = "ok" =>
       /\ counters["operations"] + counters["lost"] = config.requests
       /\ counters["lost"] = 0 => \A f \in Flows : seen[f] = 1..Requests(f)

(* The path of every flow with an operation is proven, and of no other:    *)
(* the proof is asked for again until a reply is accepted, so that a lost  *)
(* first reply costs nothing (TestUDPPathEvidenceSurvivesLostFirstResponse)*)
OperationsProveThePath ==
  config.proof => \A f \in Flows : (latencies[f] # <<>>) <=> paths[f]

(* A corrupt packet makes the repetition invalid (invalidWorkloadCounters):*)
(* losses, copies and overtaking alone never make one, nor does a reply    *)
(* that comes before Write has returned.  While proof is asked for they    *)
(* do, since a late reply then has other flags than the request.           *)
CorruptionIsDamage ==
  counters["corrupt"] > 0 /\ ~config.proof => damaged

(* A workload with requests sends no more than these.                      *)
SendsOnlyRequests ==
  config.requests > 0 => counters["sent"] <= config.requests

(* RunDetailed returns whatever the network does, unless a flow was given  *)
(* no request at all: an echo flow reads that as no limit.                 *)
RunReturns ==
  (config.mode = "echo" => config.requests = 0 \/ config.requests >= config.flows)
    ~> outcome # "running"
=============================================================================
