---- MODULE MCOrchestrator ----
(* Instances of Orchestrator for the model checker. *)
EXTENDS Orchestrator

Parts(s, t, k, made) == [service |-> s, translation |-> t, keepRemote |-> k, residue |-> made]

(* A service to stop and a chain to install, the run directory removed. *)
Full == {Parts(TRUE, TRUE, FALSE, {"iptables"})}

(* Every combination of the optional parts, with subjects that make chains *)
(* only (redirect), or, where there is most to give back, chains, rules    *)
(* and routes (tproxy); and links and unmarked rules (tun-auto-redirect).  *)
AllParts ==
  {Parts(s, t, k, IF s /\ t /\ ~k THEN {"iptables", "ip"} ELSE {"iptables"}) : s, t, k \in BOOLEAN}
    \cup {Parts(FALSE, TRUE, FALSE, {"ip", "unmarked"})}
====
