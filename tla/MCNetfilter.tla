---- MODULE MCNetfilter ----
(* Instances of Netfilter for the model checker. *)
EXTENDS Netfilter
CONSTANTS r1, r2, n1, t1

AllRedirect == [r \in Run |-> "redirect"]
AllTProxy == [r \in Run |-> "tproxy"]
SameName == [r \in Run |-> n1]
SameTable == [r \in Run |-> t1]
====
