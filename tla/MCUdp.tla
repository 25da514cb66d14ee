-------------------------------- MODULE MCUdp -------------------------------
(* Small workloads for TLC. *)
EXTENDS Udp

Pps(n, k) == [mode |-> "pps", proof |-> FALSE, flows |-> n, requests |-> k]
EchoOf(n, k, p) == [mode |-> "echo", proof |-> p, flows |-> n, requests |-> k]

(* One flow and two, with and without a limit, a proof, and a remainder.   *)
Workloads ==
  {Pps(1, 3), Pps(2, 3), Pps(2, 1), EchoOf(1, 2, TRUE), EchoOf(1, 2, FALSE),
   EchoOf(2, 2, TRUE), EchoOf(1, 0, TRUE)}

(* Fewer requests than flows. *)
Surplus == {EchoOf(2, 1, FALSE)}
=============================================================================
