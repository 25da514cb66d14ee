---- MODULE MCMatrix ----
(* Instances of Matrix for the model checker. *)
EXTENDS Matrix, MatrixPlan

Both == {TRUE, FALSE}
Collect == {FALSE}
PpsCase == {"pps"}

Alone(c) == [case |-> c, block |-> 0, control |-> "", warmup |-> FALSE]
Control(position) ==
  [case |-> "raw-control", block |-> 0, control |-> position, warmup |-> FALSE]

(* One block: a raw control, the PPS case, another case, a raw control. *)
OneBlock == <<Control("before"), Alone("pps"), Alone("rtt"), Control("after")>>

(* The same block with the PPS case alone, for more faults in a row. *)
ShortBlock == <<Control("before"), Alone("pps"), Control("after")>>

(* They are written out because they are looked up at every step. *)
Built(order) == BuildMatrixState([c \in {order[i] : i \in DOMAIN order} |-> 0],
                                 [c \in {order[i] : i \in DOMAIN order} |-> 1],
                                 TRUE, [b \in {0} |-> order])
ASSUME BlocksAreBuilt == OneBlock = Built(<<"pps", "rtt">>) /\ ShortBlock = Built(<<"pps">>)
====
