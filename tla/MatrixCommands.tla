--------------------------- MODULE MatrixCommands ---------------------------
(***************************************************************************)
(* The commands that make a matrix and its plan.  generate-matrix calls    *)
(* Generate on its options and writes the matrix it accepts; the command   *)
(* matrix reads one, generated or written by hand, and plans its jobs with *)
(* buildMatrixState (cmd/inbound-bench/main.go).                           *)
(*                                                                         *)
(* What runs the plan is module Matrix.                                    *)
(***************************************************************************)
EXTENDS MatrixPlan, Suite, FiniteSets

CONSTANTS Requested,    (* options of generate-matrix                       *)
          Written,      (* matrices written by hand                         *)
          MaxPlanned,   (* bound: matrices of up to so many cases are run   *)
          MaxShuffled   (* bound: up to so many cases come in any order     *)

(* Up to a duration of 23 days the code's 64 bits hold every packet count. *)
MaxDuration == 2000000000

Options ==
  [preset : STRING, warmups : Int, repetitions : Int, duration : {d \in Int : d <= MaxDuration},
   idleDuration : Int, requests : Int, udpPPS : Int, udpMTUPPS : Int,
   subjects : Seq(STRING), workloads : Seq(STRING),
   target : {Server(4), Server(6)}, rawTarget : {NoAddress, Physical(4), Physical(6)}]

HandMade ==
  [accepted : {TRUE}, cases : Seq([runID : STRING, warmups : Nat, repetitions : Nat]), hasControl : BOOLEAN]

(* ReadMatrixConfig refuses a matrix in which two cases have one run ID. *)
ASSUME CommandsAssumption ==
  /\ Requested \subseteq Options
  /\ \A m \in Written : m \in HandMade /\ IsInjective(RunIDs(m.cases))
  /\ MaxPlanned \in Nat /\ MaxShuffled \in Nat

VARIABLES options, matrix, plan

vars == <<options, matrix, plan>>

None == [preset |-> "none"]
NoMatrix == [accepted |-> FALSE]

Init ==
  /\ plan = <<>>
  /\ \/ options \in Requested /\ matrix = NoMatrix
     \/ options = None /\ matrix \in Written

GenerateMatrix ==
  /\ options # None /\ matrix = NoMatrix
  /\ matrix' = Generate(options)
  /\ UNCHANGED <<options, plan>>

IDs == ToSet(RunIDs(matrix.cases))
Of(field) == [id \in IDs |-> (CHOOSE c \in ToSet(matrix.cases) : c.runID = id)[field]]
HasControl == options # None \/ matrix.hasControl

(* matrixOrder sorts by a hash: any order of the cases, in any block. *)
Orders ==
  IF Len(matrix.cases) <= MaxShuffled
    THEN {order \in [DOMAIN matrix.cases -> IDs] : IsInjective(order) /\ ToSet(order) = IDs}
    ELSE {RunIDs(matrix.cases)}

PlanMatrix ==
  /\ matrix.accepted /\ plan = <<>> /\ Len(matrix.cases) <= MaxPlanned
  /\ LET warmups == Of("warmups")
         repetitions == Of("repetitions")
     IN  \E order \in [0..(Blocks(warmups, repetitions) - 1) -> Orders] :
           plan' = BuildMatrixState(warmups, repetitions, HasControl, order)
  /\ UNCHANGED <<options, matrix>>

Next == GenerateMatrix \/ PlanMatrix

Spec == Init /\ [][Next]_vars

Generated == options # None /\ matrix # NoMatrix
Accepted == Generated /\ matrix.accepted

(* Generate accepts well-formed options exactly when the targets are of    *)
(* one family, something is left to run, and each PPS workload offers a    *)
(* packet to every flow and no more than a worker takes.  And what it      *)
(* accepts, no worker refuses later: neither the workload of a case nor    *)
(* the warmup and the recovery probe made from it, which besides have a    *)
(* request for each connection and flow they open.                         *)
OnlyTheInfeasibleIsRefused ==
  Generated /\ ~Malformed(options) =>
    /\ matrix.accepted <=> Feasible(options)
    /\ matrix.accepted => NoWorkerRefuses(matrix)

(* The report compares a case with the raw and the direct case of the same *)
(* workload key: no other workload has that key, no subject has two cases  *)
(* with it, and the raw ones go to the physical server.                    *)
BaselinesAreComparable == Accepted => Comparable(options, matrix)

(* The jobs of a matrix, written by hand or generated, are each repetition *)
(* of each case once, in order, and between its own raw controls.          *)
EveryRepetitionRunsOnce ==
  plan # <<>> => EachRepetitionOnce(plan, Of("warmups"), Of("repetitions"), HasControl)
=============================================================================
