---- MODULE MCLifecycle ----
(* Instances of Lifecycle for the model checker. *)
EXTENDS Lifecycle

AllKinds == {"raw", "direct", "filter", "tun", "tc", "cgroup"}
AllModes == {"strict", "lossy", "tolerant"}
====
