---- MODULE MCMatrixPlan ----
(* An instance of MatrixCommands for the model checker. *)
EXTENDS MatrixCommands

CONSTANTS CaseNames, MaxWarmups, MaxRepetitions

(* Whatever is left open below takes the preset's value. *)
Defaults ==
  [preset |-> "full", warmups |-> -1, repetitions |-> 0, duration |-> 0, idleDuration |-> 0,
   requests |-> 0, udpPPS |-> 0, udpMTUPPS |-> 0, subjects |-> <<>>, workloads |-> <<>>,
   target |-> Server(4), rawTarget |-> NoAddress]

(* Every preset as it is, over both families, with and without a raw target. *)
WholePresets ==
  {[Defaults EXCEPT !.preset = p, !.target = Server(family), !.rawTarget = raw, !.requests = n] :
     p \in DOMAIN Presets, family \in {4, 6}, raw \in {NoAddress, Physical(4), Physical(6)}, n \in {0, 1000}}

(* Chosen subjects and workloads, with the values at the edges: an offered *)
(* load that does not reach every flow or is more than a worker takes,     *)
(* requests equal to those of udp-churn, a list that names something twice *)
(* or that nobody knows.                                                   *)
Selections ==
  {[Defaults EXCEPT !.preset = p, !.warmups = m, !.duration = d, !.requests = n,
                    !.udpPPS = rate, !.udpMTUPPS = mtu, !.subjects = s, !.workloads = w] :
     p \in {"smoke", "full", "nightly"}, m \in {-2, -1, 1}, d \in {0, 999, 1001}, n \in {0, 1, 1000},
     rate \in {0, 1, 64}, mtu \in {0, 1},
     s \in {<<"raw", "direct">>, <<"redirect">>, <<"tproxy", "tproxy">>},
     w \in {<<"udp-pps-1", "udp-pps-64", "udp-mtu">>, <<"udp-churn", "udp-rtt">>, <<"tcp-short-128">>, <<"dns">>}}

Overloads ==
  {[Defaults EXCEPT !.duration = 1, !.udpPPS = rate, !.workloads = <<"udp-pps-1">>, !.subjects = <<"raw">>] :
     rate \in {1000000000, 1000000001}}

AllOptions == WholePresets \cup Selections \cup Overloads

TwoCases ==
  {[accepted |-> TRUE, cases |-> [i \in DOMAIN names |->
       [runID |-> names[i], warmups |-> warmups[names[i]], repetitions |-> repetitions[names[i]]]],
    hasControl |-> hasControl] :
     names \in {SetToSeq(CaseNames)}, warmups \in [CaseNames -> 0..MaxWarmups],
     repetitions \in [CaseNames -> 1..MaxRepetitions], hasControl \in BOOLEAN}
====
