------------------------------- MODULE MatrixPlan -------------------------------
(***************************************************************************)
(* buildMatrixState of cmd/inbound-bench/main.go: the jobs of a matrix, in *)
(* the order they run.  Each block holds one repetition of every case that *)
(* still has one, shuffled, between two raw controls.                      *)
(*                                                                         *)
(* warmups[c] and repetitions[c] are the counts of case c; order[b] is the *)
(* order matrixOrder gives the cases in block b: a hash of the seed, the   *)
(* block and the case, so any order, but the same one at every launch.     *)
(***************************************************************************)
EXTENDS Naturals, Sequences, FiniteSetsExt, SequencesExt

Repetitions(warmups, repetitions, c) == warmups[c] + repetitions[c]

Blocks(warmups, repetitions) ==
  Max({0} \cup {Repetitions(warmups, repetitions, c) : c \in DOMAIN warmups})

ControlJob(block, position) ==
  [case |-> "raw-control", block |-> block, control |-> position, warmup |-> FALSE]
CaseJob(warmups, c, block) ==
  [case |-> c, block |-> block, control |-> "", warmup |-> block < warmups[c]]

(* The cases that still have a repetition in block b, in that order. *)
CaseJobs(warmups, repetitions, order, b) ==
  FlattenSeq([i \in DOMAIN order |->
                IF b < Repetitions(warmups, repetitions, order[i])
                THEN <<CaseJob(warmups, order[i], b)>> ELSE <<>>])

BlockOpen(warmups, repetitions, hasControl, order, b) ==   (* mutant: no control after *)
  (IF hasControl THEN <<ControlJob(b, "before")>> ELSE <<>>)
    \o CaseJobs(warmups, repetitions, order, b)

Block(warmups, repetitions, hasControl, order, b) ==
  LET Bracket(position) == IF hasControl THEN <<ControlJob(b, position)>> ELSE <<>>
  IN  Bracket("before") \o CaseJobs(warmups, repetitions, order, b) \o Bracket("after")

BuildMatrixState(warmups, repetitions, hasControl, order) ==
  FlattenSeq([i \in 1..Blocks(warmups, repetitions) |->
                Block(warmups, repetitions, hasControl, order[i - 1], i - 1)])

(* repetitionName and the paths of controlJob: where a job's result goes.  *)
RepetitionName(index, warmups) ==
  IF index < warmups THEN <<"warmup", index>> ELSE <<"rep", index - warmups>>

ResultPath(job, warmups) ==
  IF job.control = "" THEN <<"cases", job.case, RepetitionName(job.block, warmups[job.case])>>
                      ELSE <<"controls", job.control, job.block>>

(* matrixJobConfig: the index a job's repetition is written with. *)
JobIndex(job) ==
  CASE job.control = ""       -> job.block
    [] job.control = "before" -> job.block * 2
    [] job.control = "after"  -> job.block * 2 + 1

(* Every repetition of every case is run once, in its own block, those of  *)
(* a case in the order of their index, warmups first; no two jobs share a  *)
(* result path, by which a resumed matrix takes the second for done, and   *)
(* no two controls write one index.  Around a case, back to the nearest    *)
(* control and on to the next, is its own block and nothing else.          *)
EachRepetitionOnce(plan, warmups, repetitions, hasControl) ==
  LET IsControl(i) == plan[i].control # ""
      Follows(i, j) ==
        plan[i].block = plan[j].block /\ plan[i].control # "after" /\ plan[j].control # "before"
  IN  /\ {job \in ToSet(plan) : job.control = ""}
           = UNION {{CaseJob(warmups, c, b) : b \in 0..(warmups[c] + repetitions[c] - 1)} :
                      c \in DOMAIN warmups}
      /\ IsInjective([i \in DOMAIN plan |-> ResultPath(plan[i], warmups)])
      /\ \A i, j \in DOMAIN plan : i < j =>
           /\ IsControl(i) /\ IsControl(j) => JobIndex(plan[i]) # JobIndex(plan[j])
           /\ ~IsControl(i) /\ ~IsControl(j) /\ plan[i].case = plan[j].case =>
                plan[i].block < plan[j].block
      /\ hasControl => \A i \in DOMAIN plan : ~IsControl(i) =>
           i > 1 /\ i < Len(plan) /\ Follows(i - 1, i) /\ Follows(i, i + 1)
=============================================================================
