--------------------------- MODULE LifecycleProofs ---------------------------
(***************************************************************************)
(* Proofs about Lifecycle, for every choice of kinds and modes: the        *)
(* inductive invariant, the safety invariants the runs check, and that the *)
(* transaction implements RestoreContract.                                 *)
(***************************************************************************)
EXTENDS Lifecycle, TLAPS

(* Where a phase, or a step of one, stands in the order of the phases. *)
Position(c) ==
  CASE c = "preflight" -> 0
    [] c = "snapshot" -> 1
    [] c = "setup" -> 2
    [] c \in {"start", "wait_ready", "install"} -> 3
    [] c = "observe_path_before" -> 4
    [] c = "warmup" -> 5
    [] c = "observe_path_after" -> 6
    [] c = "prove_path" -> 7
    [] c \in {"measure", "workload", "drained"} -> 8
    [] c \in {"stop", "signal", "wait_exit", "reap"} -> 9
    [] c = "collect_artifacts" -> 10
    [] c = "cleanup" -> 11
    [] c = "verify_restore" -> 12
    [] OTHER -> 13

(* As long as nothing failed, all phases before the current one are ok;    *)
(* a phase in error makes the execution fail.                              *)
Progressed ==
  /\ ~failed => \A p \in Phase : Position(p) < Position(pc) => trace[p] = "ok"
  /\ \A p \in Phase : trace[p] = "error" => failed

(* The locals of Execute follow the phases, and no phase was run early. *)
Attempted ==
  /\ pc \in {"preflight", "snapshot"} => ~setupAttempted
  /\ pc = "setup" => ~startAttempted
  /\ pc \in {"start", "wait_ready", "install"} => trace["start"] = "none"
  /\ pc \in Changing => setupAttempted
  /\ pc \in Changing \ {"setup"} => startAttempted
  /\ pc \in {"stop", "signal", "wait_exit", "reap"} => startAttempted
  /\ startAttempted => setupAttempted
  /\ ~startAttempted => trace["start"] = "none" /\ proc = "none"
  /\ ~setupAttempted => /\ trace["setup"] = "none"
                        /\ dir # "ours" /\ cgroup # "ours"
  /\ ~startAttempted => ~rules /\ ~remnant
  /\ pc = "preflight" => trace["snapshot"] = "none"

(* Before Start and Install have acted there is nothing of theirs. *)
StartFresh ==
  /\ pc = "start" => proc = "none"
  /\ pc \in {"start", "wait_ready", "install"} => ~rules /\ ~remnant

(* Past a teardown phase, it was recorded. *)
TornDown ==
  /\ startAttempted /\ Position(pc) > 9 => trace["stop"] # "none"
  /\ setupAttempted /\ Position(pc) > 11 => trace["cleanup"] # "none"
  /\ trace["snapshot"] = "ok" /\ Position(pc) > 12 => trace["verify_restore"] # "none"
  /\ restored <=> trace["verify_restore"] = "ok"
  /\ trace["verify_restore"] # "none" => pc \in {"report", "done"}

(* What each kind can hold; only a failed install leaves a remnant. *)
HeldByKind ==
  /\ ~Managed => dir = "none" /\ proc = "none" /\ ~rules /\ ~remnant
  /\ kind # "cgroup" => cgroup = "none"
  /\ remnant => trace["start"] = "error"
  /\ cgroup = "ours" => cgroupOwned
  /\ restored => ~rules /\ dir # "ours" /\ cgroup # "ours" /\ proc \in {"none", "exited"}
  /\ pc \in {"wait_ready", "install"} => Managed

(* A sing-box that survives Stop survived it by the deadline. *)
Survivor ==
  /\ pc \in {"signal", "wait_exit", "reap"} => proc # "none"
  /\ pc = "reap" => proc # "running"
  /\ Position(pc) > 9 /\ proc = "running" => deadline /\ trace["stop"] = "error"

(* What a measurement rests on. *)
Measured ==
  /\ pc \in {"measure", "workload", "drained"} \/ measured # "none" => proof = "valid"
  /\ pc = "drained" /\ ~served =>
       /\ Managed /\ proc # "running"
       /\ mode = "strict" /\ ~curtailed => counters # "clean"
  /\ measured = "valid" /\ (NeedsTraffic \/ (mode = "strict" /\ ~curtailed)) => served
  /\ pc \in Changing \cup {"preflight", "snapshot"} => measured = "none"
  /\ output = "valid" => measured = "valid" /\ ~failed
  /\ output # "none" => pc = "done"

IInv == /\ TypeOK
        /\ Progressed
        /\ Attempted
        /\ StartFresh
        /\ TornDown
        /\ HeldByKind
        /\ Survivor
        /\ Measured

LEMMA PreflightKeeps == IInv /\ Preflight => IInv'
<1> SUFFICES ASSUME IInv, Preflight PROVE IInv'
  OBVIOUS
<1>1. UNCHANGED <<kind, mode, cancelled, deadline, setupAttempted,
                 startAttempted, restored, warm, proof, counters, measured, served, curtailed,
                 proc, stopErr, rules, remnant, dir, cgroup, cgroupOwned, alien,
                 output>>
  BY DEF Preflight, Forward, flagVars, measureVars, hostVars
<1>2. TypeOK'
  <2>1. trace' \in [Phase -> {"none", "ok", "error"}]
    BY DEF IInv, TypeOK, Preflight, Succeed, Fail, Record, Teardown, Phase
  <2>2. pc' \in Phase \cup SubStep \cup {"report", "done"} /\ failed' \in BOOLEAN
    BY DEF IInv, TypeOK, Preflight, Succeed, Fail, Record, Teardown, Phase,
       SubStep
  <2> QED
    BY <1>1, <2>1, <2>2 DEF IInv, TypeOK
<1>3. Progressed'
  BY <1>1 DEF IInv, Progressed, Preflight, Succeed, Fail, Record, Teardown,
     Managed, TypeOK, Position, Phase, SubStep
<1>4. Attempted'
  BY <1>1 DEF IInv, Attempted, Preflight, Succeed, Fail, Record, Teardown,
     Managed, TypeOK, Changing, Phase, SubStep
<1>5. StartFresh'
  BY <1>1 DEF IInv, StartFresh, Preflight, Succeed, Fail, Record, Teardown,
     Managed, TypeOK, Attempted
<1>6. TornDown'
  BY <1>1 DEF IInv, TornDown, Preflight, Succeed, Fail, Record, Teardown,
     Managed, TypeOK, Attempted, Position, Changing, Phase, SubStep
<1>7. HeldByKind'
  BY <1>1 DEF IInv, HeldByKind, Preflight, Succeed, Fail, Record, Teardown,
     Managed, TypeOK, Attempted, TornDown, Survivor, Changing, Position, Phase,
     SubStep
<1>8. Survivor'
  BY <1>1 DEF IInv, Survivor, Preflight, Succeed, Fail, Record, Teardown,
     Managed, TypeOK, Attempted, HeldByKind, Position, Changing, Phase, SubStep
<1>9. Measured'
  BY <1>1 DEF IInv, Measured, Preflight, Succeed, Fail, Record, Teardown,
     Managed, TypeOK, NeedsTraffic, Changing, Attempted, Phase, SubStep
<1> QED
  BY <1>2, <1>3, <1>4, <1>5, <1>6, <1>7, <1>8, <1>9 DEF IInv

LEMMA SnapshotKeeps == IInv /\ Snapshot => IInv'
<1> SUFFICES ASSUME IInv, Snapshot PROVE IInv'
  OBVIOUS
<1>1. UNCHANGED <<kind, mode, cancelled, deadline, startAttempted, restored,
                 warm, proof, counters, measured, served, curtailed, proc, stopErr, rules,
                 remnant, dir, cgroup, cgroupOwned, alien, output>>
  BY DEF Snapshot, Forward, flagVars, measureVars, hostVars
<1>2. TypeOK'
  <2>1. trace' \in [Phase -> {"none", "ok", "error"}]
    BY DEF IInv, TypeOK, Snapshot, Succeed, Fail, Record, Teardown, Phase
  <2>2. pc' \in Phase \cup SubStep \cup {"report", "done"} /\ failed' \in BOOLEAN
    BY DEF IInv, TypeOK, Snapshot, Succeed, Fail, Record, Teardown, Phase,
       SubStep
  <2>3. setupAttempted' \in BOOLEAN
    BY DEF IInv, TypeOK, Snapshot
  <2> QED
    BY <1>1, <2>1, <2>2, <2>3 DEF IInv, TypeOK
<1>3. Progressed'
  BY <1>1 DEF IInv, Progressed, Snapshot, Succeed, Fail, Record, Teardown,
     Managed, TypeOK, Position, Phase, SubStep
<1>4. Attempted'
  BY <1>1 DEF IInv, Attempted, Snapshot, Succeed, Fail, Record, Teardown,
     Managed, TypeOK, Changing, Phase, SubStep
<1>5. StartFresh'
  BY <1>1 DEF IInv, StartFresh, Snapshot, Succeed, Fail, Record, Teardown,
     Managed, TypeOK, Attempted
<1>6. TornDown'
  BY <1>1 DEF IInv, TornDown, Snapshot, Succeed, Fail, Record, Teardown,
     Managed, TypeOK, Attempted, Position, Changing, Phase, SubStep
<1>7. HeldByKind'
  BY <1>1 DEF IInv, HeldByKind, Snapshot, Succeed, Fail, Record, Teardown,
     Managed, TypeOK, Attempted, TornDown, Survivor, Changing, Position, Phase,
     SubStep
<1>8. Survivor'
  BY <1>1 DEF IInv, Survivor, Snapshot, Succeed, Fail, Record, Teardown,
     Managed, TypeOK, Attempted, HeldByKind, Position, Changing, Phase, SubStep
<1>9. Measured'
  <2>1. pc' \in {"setup", "report"}
    BY DEF Snapshot, Succeed, Fail
  <2>2. measured = "none" /\ output = "none"
    BY DEF IInv, TypeOK, Verdict, Measured, Snapshot
  <2> QED
    BY <1>1, <2>1, <2>2 DEF Measured
<1> QED
  BY <1>2, <1>3, <1>4, <1>5, <1>6, <1>7, <1>8, <1>9 DEF IInv

LEMMA SetupKeeps == IInv /\ Setup => IInv'
<1> SUFFICES ASSUME IInv, Setup PROVE IInv'
  OBVIOUS
<1>1. UNCHANGED <<kind, mode, cancelled, deadline, setupAttempted, restored,
                 warm, proof, counters, measured, served, curtailed, proc, stopErr, rules,
                 remnant, alien, output>>
  BY DEF Setup, Forward, flagVars, measureVars, hostVars
<1>2. TypeOK'
  <2>1. trace' \in [Phase -> {"none", "ok", "error"}]
    BY DEF IInv, TypeOK, Setup, Succeed, Fail, Record, Teardown, Phase
  <2>2. pc' \in Phase \cup SubStep \cup {"report", "done"} /\ failed' \in BOOLEAN
    BY DEF IInv, TypeOK, Setup, Succeed, Fail, Record, Teardown, Phase,
       SubStep
  <2>3. startAttempted' \in BOOLEAN
    BY DEF IInv, TypeOK, Setup
  <2>4. dir' \in {"none", "ours", "other"}
    BY DEF IInv, TypeOK, Setup
  <2>5. cgroup' \in {"none", "ours", "other"}
    BY DEF IInv, TypeOK, Setup
  <2>6. cgroupOwned' \in BOOLEAN
    BY DEF IInv, TypeOK, Setup
  <2> QED
    BY <1>1, <2>1, <2>2, <2>3, <2>4, <2>5, <2>6 DEF IInv, TypeOK
<1>3. Progressed'
  BY <1>1 DEF IInv, Progressed, Setup, Succeed, Fail, Record, Teardown,
     Managed, TypeOK, Position, Phase, SubStep
<1>4. Attempted'
  BY <1>1 DEF IInv, Attempted, Setup, Succeed, Fail, Record, Teardown,
     Managed, TypeOK, Changing, Phase, SubStep
<1>5. StartFresh'
  BY <1>1 DEF IInv, StartFresh, Setup, Succeed, Fail, Record, Teardown,
     Managed, TypeOK, Attempted
<1>6. TornDown'
  BY <1>1 DEF IInv, TornDown, TypeOK, Attempted, Setup, Succeed, Fail,
     Record, Teardown, Changing, Position, Phase, SubStep
<1>7. HeldByKind'
  BY <1>1 DEF IInv, HeldByKind, Setup, Succeed, Fail, Record, Teardown,
     Managed, TypeOK, Attempted, TornDown, Survivor, Changing, Position, Phase,
     SubStep
<1>8. Survivor'
  BY <1>1 DEF IInv, Survivor, TypeOK, Attempted, Setup, Succeed, Fail,
     Teardown, Changing, Position
<1>9. Measured'
  BY <1>1 DEF IInv, Measured, Setup, Succeed, Fail, Record, Teardown,
     Managed, TypeOK, NeedsTraffic, Changing, Attempted, Phase, SubStep
<1> QED
  BY <1>2, <1>3, <1>4, <1>5, <1>6, <1>7, <1>8, <1>9 DEF IInv

LEMMA StartKeeps == IInv /\ Start => IInv'
<1> SUFFICES ASSUME IInv, Start PROVE IInv'
  OBVIOUS
<1>1. UNCHANGED <<kind, mode, cancelled, deadline, setupAttempted,
                 startAttempted, restored, warm, proof, counters, measured, served, curtailed,
                 stopErr, rules, remnant, dir, cgroup, cgroupOwned, alien, output>>
  BY DEF Start, Forward, flagVars, measureVars, hostVars
<1>2. TypeOK'
  <2>1. trace' \in [Phase -> {"none", "ok", "error"}]
    BY DEF IInv, TypeOK, Start, Succeed, Fail, Record, Teardown, Phase
  <2>2. pc' \in Phase \cup SubStep \cup {"report", "done"} /\ failed' \in BOOLEAN
    BY DEF IInv, TypeOK, Start, Succeed, Fail, Record, Teardown, Phase,
       SubStep
  <2>3. proc' \in {"none", "running", "dying", "exited"}
    BY DEF IInv, TypeOK, Start
  <2> QED
    BY <1>1, <2>1, <2>2, <2>3 DEF IInv, TypeOK
<1>3. Progressed'
  BY <1>1 DEF IInv, Progressed, Start, Succeed, Fail, Record, Teardown,
     Managed, TypeOK, Position, Phase, SubStep
<1>4. Attempted'
  BY <1>1 DEF IInv, Attempted, Start, Succeed, Fail, Record, Teardown,
     Managed, TypeOK, Changing, Phase, SubStep
<1>5. StartFresh'
  BY <1>1 DEF IInv, StartFresh, Start, Succeed, Fail, Record, Teardown,
     Managed, TypeOK, Attempted
<1>6. TornDown'
  BY <1>1 DEF IInv, TornDown, Start, Succeed, Fail, Record, Teardown,
     Managed, TypeOK, Attempted, Position, Changing, Phase, SubStep
<1>7. HeldByKind'
  BY <1>1 DEF IInv, HeldByKind, Start, Succeed, Fail, Record, Teardown,
     Managed, TypeOK, Attempted, TornDown, Survivor, Changing, Position, Phase,
     SubStep
<1>8. Survivor'
  BY <1>1 DEF IInv, Survivor, Start, Succeed, Fail, Record, Teardown,
     Managed, TypeOK, Attempted, HeldByKind, Position, Changing, Phase, SubStep
<1>9. Measured'
  BY <1>1 DEF IInv, Measured, Start, Succeed, Fail, Record, Teardown,
     Managed, TypeOK, NeedsTraffic, Changing, Attempted, Phase, SubStep
<1> QED
  BY <1>2, <1>3, <1>4, <1>5, <1>6, <1>7, <1>8, <1>9 DEF IInv

LEMMA WaitReadyKeeps == IInv /\ WaitReady => IInv'
<1> SUFFICES ASSUME IInv, WaitReady PROVE IInv'
  OBVIOUS
<1>1. UNCHANGED <<kind, mode, cancelled, deadline, setupAttempted,
                 startAttempted, restored, warm, proof, counters, measured, served, curtailed,
                 proc, stopErr, rules, remnant, dir, cgroup, cgroupOwned, alien,
                 output>>
  BY DEF WaitReady, Forward, flagVars, measureVars, hostVars
<1>2. TypeOK'
  <2>1. trace' \in [Phase -> {"none", "ok", "error"}]
    BY DEF IInv, TypeOK, WaitReady, Succeed, Fail, Record, Teardown, Phase
  <2>2. pc' \in Phase \cup SubStep \cup {"report", "done"} /\ failed' \in BOOLEAN
    BY DEF IInv, TypeOK, WaitReady, Succeed, Fail, Record, Teardown, Phase,
       SubStep
  <2> QED
    BY <1>1, <2>1, <2>2 DEF IInv, TypeOK
<1>3. Progressed'
  BY <1>1 DEF IInv, Progressed, WaitReady, Succeed, Fail, Record, Teardown,
     Exited, Managed, TypeOK, Position, Phase, SubStep
<1>4. Attempted'
  BY <1>1 DEF IInv, Attempted, WaitReady, Succeed, Fail, Record, Teardown,
     Exited, Managed, TypeOK, Changing, Phase, SubStep
<1>5. StartFresh'
  BY <1>1 DEF IInv, StartFresh, WaitReady, Succeed, Fail, Record, Teardown,
     Exited, Managed, TypeOK, Attempted
<1>6. TornDown'
  BY <1>1 DEF IInv, TornDown, WaitReady, Succeed, Fail, Record, Teardown,
     Exited, Managed, TypeOK, Attempted, Position, Changing, Phase, SubStep
<1>7. HeldByKind'
  <2>1. pc = "wait_ready" /\ trace["start"] = "none" /\ ~restored
    BY DEF IInv, TypeOK, Attempted, TornDown, WaitReady
  <2>2. Managed' /\ ~remnant
    BY <1>1, <2>1 DEF IInv, HeldByKind, Managed
  <2> QED
    BY <1>1, <2>1, <2>2 DEF IInv, HeldByKind, Managed
<1>8. Survivor'
  BY <1>1 DEF IInv, Survivor, WaitReady, Succeed, Fail, Record, Teardown,
     Exited, Managed, TypeOK, Attempted, HeldByKind, Position, Changing, Phase,
     SubStep
<1>9. Measured'
  BY <1>1 DEF IInv, Measured, WaitReady, Succeed, Fail, Record, Teardown,
     Exited, Managed, TypeOK, NeedsTraffic, Changing, Attempted, Phase, SubStep
<1> QED
  BY <1>2, <1>3, <1>4, <1>5, <1>6, <1>7, <1>8, <1>9 DEF IInv

LEMMA InstallKeeps == IInv /\ Install => IInv'
<1> SUFFICES ASSUME IInv, Install PROVE IInv'
  OBVIOUS
<1>1. UNCHANGED <<kind, mode, cancelled, deadline, setupAttempted,
                 startAttempted, restored, warm, proof, counters, measured, served, curtailed,
                 proc, stopErr, dir, cgroup, cgroupOwned, alien, output>>
  BY DEF Install, Forward, flagVars, measureVars, hostVars
<1>2. TypeOK'
  <2>1. trace' \in [Phase -> {"none", "ok", "error"}]
    BY DEF IInv, TypeOK, Install, Succeed, Fail, Record, Teardown, Phase
  <2>2. pc' \in Phase \cup SubStep \cup {"report", "done"} /\ failed' \in BOOLEAN
    BY DEF IInv, TypeOK, Install, Succeed, Fail, Record, Teardown, Phase,
       SubStep
  <2>3. rules' \in BOOLEAN
    BY DEF IInv, TypeOK, Install
  <2>4. remnant' \in BOOLEAN
    BY DEF IInv, TypeOK, Install
  <2> QED
    BY <1>1, <2>1, <2>2, <2>3, <2>4 DEF IInv, TypeOK
<1>3. Progressed'
  BY <1>1 DEF IInv, Progressed, Install, Succeed, Fail, Record, Teardown,
     Managed, TypeOK, Position, Phase, SubStep
<1>4. Attempted'
  BY <1>1 DEF IInv, Attempted, Install, Succeed, Fail, Record, Teardown,
     Managed, TypeOK, Changing, Phase, SubStep
<1>5. StartFresh'
  BY <1>1 DEF IInv, StartFresh, Install, Succeed, Fail, Record, Teardown,
     Managed, TypeOK, Attempted
<1>6. TornDown'
  BY <1>1 DEF IInv, TornDown, Install, Succeed, Fail, Record, Teardown,
     Managed, TypeOK, Attempted, Position, Changing, Phase, SubStep
<1>7. HeldByKind'
  <2>1. pc = "install" /\ trace["start"] = "none" /\ ~restored
    BY DEF IInv, TypeOK, Attempted, TornDown, Install
  <2>2. Managed /\ Managed' /\ ~remnant
    BY <1>1, <2>1 DEF IInv, HeldByKind, Managed
  <2>3. remnant' => trace'["start"] = "error"
    BY <2>2 DEF IInv, TypeOK, Install, Succeed, Fail, Record, Phase
  <2> QED
    BY <1>1, <2>1, <2>2, <2>3 DEF IInv, HeldByKind, Managed
<1>8. Survivor'
  BY <1>1 DEF IInv, Survivor, Install, Succeed, Fail, Record, Teardown,
     Managed, TypeOK, Attempted, HeldByKind, Position, Changing, Phase, SubStep
<1>9. Measured'
  BY <1>1 DEF IInv, Measured, Install, Succeed, Fail, Record, Teardown,
     Managed, TypeOK, NeedsTraffic, Changing, Attempted, Phase, SubStep
<1> QED
  BY <1>2, <1>3, <1>4, <1>5, <1>6, <1>7, <1>8, <1>9 DEF IInv

LEMMA ObserveBeforeKeeps == IInv /\ ObserveBefore => IInv'
<1> SUFFICES ASSUME IInv, ObserveBefore PROVE IInv'
  OBVIOUS
<1>1. UNCHANGED <<kind, mode, cancelled, deadline, setupAttempted,
                 startAttempted, restored, warm, proof, counters, measured, served, curtailed,
                 proc, stopErr, rules, remnant, dir, cgroup, cgroupOwned, alien,
                 output>>
  BY DEF ObserveBefore, Forward, Observe, flagVars, measureVars, hostVars
<1>2. TypeOK'
  <2>1. trace' \in [Phase -> {"none", "ok", "error"}]
    BY DEF IInv, TypeOK, ObserveBefore, Observe, Succeed, Fail, Record,
       Teardown, Phase
  <2>2. pc' \in Phase \cup SubStep \cup {"report", "done"} /\ failed' \in BOOLEAN
    BY DEF IInv, TypeOK, ObserveBefore, Observe, Succeed, Fail, Record,
       Teardown, Phase, SubStep
  <2> QED
    BY <1>1, <2>1, <2>2 DEF IInv, TypeOK
<1>3. Progressed'
  BY <1>1 DEF IInv, Progressed, ObserveBefore, Succeed, Fail, Record,
     Teardown, Observe, Exited, Managed, TypeOK, Position, Phase, SubStep
<1>4. Attempted'
  BY <1>1 DEF IInv, Attempted, ObserveBefore, Succeed, Fail, Record,
     Teardown, Observe, Exited, Managed, TypeOK, Changing, Phase, SubStep
<1>5. StartFresh'
  BY <1>1 DEF IInv, StartFresh, ObserveBefore, Succeed, Fail, Record,
     Teardown, Observe, Exited, Managed, TypeOK, Attempted
<1>6. TornDown'
  BY <1>1 DEF IInv, TornDown, ObserveBefore, Succeed, Fail, Record,
     Teardown, Observe, Exited, Managed, TypeOK, Attempted, Position, Changing,
     Phase, SubStep
<1>7. HeldByKind'
  BY <1>1 DEF IInv, HeldByKind, ObserveBefore, Succeed, Fail, Record,
     Teardown, Observe, Exited, Managed, TypeOK, Attempted, TornDown, Survivor,
     Changing, Position, Phase, SubStep
<1>8. Survivor'
  BY <1>1 DEF IInv, Survivor, ObserveBefore, Succeed, Fail, Record,
     Teardown, Observe, Exited, Managed, TypeOK, Attempted, HeldByKind,
     Position, Changing, Phase, SubStep
<1>9. Measured'
  BY <1>1 DEF IInv, Measured, ObserveBefore, Succeed, Fail, Record,
     Teardown, Observe, Exited, Managed, TypeOK, NeedsTraffic, Changing,
     Attempted, Phase, SubStep
<1> QED
  BY <1>2, <1>3, <1>4, <1>5, <1>6, <1>7, <1>8, <1>9 DEF IInv

LEMMA WarmupKeeps == IInv /\ Warmup => IInv'
<1> SUFFICES ASSUME IInv, Warmup PROVE IInv'
  OBVIOUS
<1>1. UNCHANGED <<kind, mode, cancelled, deadline, setupAttempted,
                 startAttempted, restored, proof, counters, measured, served, curtailed, proc,
                 stopErr, rules, remnant, dir, cgroup, cgroupOwned, alien, output>>
  BY DEF Warmup, Forward, flagVars, measureVars, hostVars
<1>2. TypeOK'
  <2>1. trace' \in [Phase -> {"none", "ok", "error"}]
    BY DEF IInv, TypeOK, Warmup, Succeed, Fail, Record, Teardown, Phase
  <2>2. pc' \in Phase \cup SubStep \cup {"report", "done"} /\ failed' \in BOOLEAN
    BY DEF IInv, TypeOK, Warmup, Succeed, Fail, Record, Teardown, Phase,
       SubStep
  <2>3. warm' \in Verdict
    BY DEF IInv, TypeOK, Warmup, Verdict
  <2> QED
    BY <1>1, <2>1, <2>2, <2>3 DEF IInv, TypeOK
<1>3. Progressed'
  BY <1>1 DEF IInv, Progressed, Warmup, Succeed, Fail, Record, Teardown,
     Managed, TypeOK, Position, Phase, SubStep
<1>4. Attempted'
  BY <1>1 DEF IInv, Attempted, Warmup, Succeed, Fail, Record, Teardown,
     Managed, TypeOK, Changing, Phase, SubStep
<1>5. StartFresh'
  BY <1>1 DEF IInv, StartFresh, Warmup, Succeed, Fail, Record, Teardown,
     Managed, TypeOK, Attempted
<1>6. TornDown'
  BY <1>1 DEF IInv, TornDown, Warmup, Succeed, Fail, Record, Teardown,
     Managed, TypeOK, Attempted, Position, Changing, Phase, SubStep
<1>7. HeldByKind'
  BY <1>1 DEF IInv, HeldByKind, Warmup, Succeed, Fail, Record, Teardown,
     Managed, TypeOK, Attempted, TornDown, Survivor, Changing, Position, Phase,
     SubStep
<1>8. Survivor'
  BY <1>1 DEF IInv, Survivor, Warmup, Succeed, Fail, Record, Teardown,
     Managed, TypeOK, Attempted, HeldByKind, Position, Changing, Phase, SubStep
<1>9. Measured'
  BY <1>1 DEF IInv, Measured, Warmup, Succeed, Fail, Record, Teardown,
     Managed, TypeOK, NeedsTraffic, Changing, Attempted, Phase, SubStep
<1> QED
  BY <1>2, <1>3, <1>4, <1>5, <1>6, <1>7, <1>8, <1>9 DEF IInv

LEMMA ObserveAfterKeeps == IInv /\ ObserveAfter => IInv'
<1> SUFFICES ASSUME IInv, ObserveAfter PROVE IInv'
  OBVIOUS
<1>1. UNCHANGED <<kind, mode, cancelled, deadline, setupAttempted,
                 startAttempted, restored, warm, proof, counters, measured, served, curtailed,
                 proc, stopErr, rules, remnant, dir, cgroup, cgroupOwned, alien,
                 output>>
  BY DEF ObserveAfter, Forward, Observe, flagVars, measureVars, hostVars
<1>2. TypeOK'
  <2>1. trace' \in [Phase -> {"none", "ok", "error"}]
    BY DEF IInv, TypeOK, ObserveAfter, Observe, Succeed, Fail, Record,
       Teardown, Phase
  <2>2. pc' \in Phase \cup SubStep \cup {"report", "done"} /\ failed' \in BOOLEAN
    BY DEF IInv, TypeOK, ObserveAfter, Observe, Succeed, Fail, Record,
       Teardown, Phase, SubStep
  <2> QED
    BY <1>1, <2>1, <2>2 DEF IInv, TypeOK
<1>3. Progressed'
  BY <1>1 DEF IInv, Progressed, ObserveAfter, Succeed, Fail, Record,
     Teardown, Observe, Exited, Managed, TypeOK, Position, Phase, SubStep
<1>4. Attempted'
  BY <1>1 DEF IInv, Attempted, ObserveAfter, Succeed, Fail, Record,
     Teardown, Observe, Exited, Managed, TypeOK, Changing, Phase, SubStep
<1>5. StartFresh'
  BY <1>1 DEF IInv, StartFresh, ObserveAfter, Succeed, Fail, Record,
     Teardown, Observe, Exited, Managed, TypeOK, Attempted
<1>6. TornDown'
  BY <1>1 DEF IInv, TornDown, ObserveAfter, Succeed, Fail, Record, Teardown,
     Observe, Exited, Managed, TypeOK, Attempted, Position, Changing, Phase,
     SubStep
<1>7. HeldByKind'
  BY <1>1 DEF IInv, HeldByKind, ObserveAfter, Succeed, Fail, Record,
     Teardown, Observe, Exited, Managed, TypeOK, Attempted, TornDown, Survivor,
     Changing, Position, Phase, SubStep
<1>8. Survivor'
  BY <1>1 DEF IInv, Survivor, ObserveAfter, Succeed, Fail, Record, Teardown,
     Observe, Exited, Managed, TypeOK, Attempted, HeldByKind, Position,
     Changing, Phase, SubStep
<1>9. Measured'
  BY <1>1 DEF IInv, Measured, ObserveAfter, Succeed, Fail, Record, Teardown,
     Observe, Exited, Managed, TypeOK, NeedsTraffic, Changing, Attempted,
     Phase, SubStep
<1> QED
  BY <1>2, <1>3, <1>4, <1>5, <1>6, <1>7, <1>8, <1>9 DEF IInv

LEMMA ProvePathKeeps == IInv /\ ProvePath => IInv'
<1> SUFFICES ASSUME IInv, ProvePath PROVE IInv'
  OBVIOUS
<1>1. UNCHANGED <<kind, mode, cancelled, deadline, setupAttempted,
                 startAttempted, restored, warm, counters, measured, served, curtailed, proc,
                 stopErr, rules, remnant, dir, cgroup, cgroupOwned, alien, output>>
  BY DEF ProvePath, Forward, flagVars, measureVars, hostVars
<1>2. TypeOK'
  <2>1. trace' \in [Phase -> {"none", "ok", "error"}]
    BY DEF IInv, TypeOK, ProvePath, Succeed, Fail, Record, Teardown, Phase
  <2>2. pc' \in Phase \cup SubStep \cup {"report", "done"} /\ failed' \in BOOLEAN
    BY DEF IInv, TypeOK, ProvePath, Succeed, Fail, Record, Teardown, Phase,
       SubStep
  <2>3. proof' \in Verdict
    BY DEF IInv, TypeOK, ProvePath, Verdict
  <2> QED
    BY <1>1, <2>1, <2>2, <2>3 DEF IInv, TypeOK
<1>3. Progressed'
  BY <1>1 DEF IInv, Progressed, ProvePath, Succeed, Fail, Record, Teardown,
     TypeOK, Position, Phase, SubStep
<1>4. Attempted'
  BY <1>1 DEF IInv, Attempted, ProvePath, Succeed, Fail, Record, Teardown,
     TypeOK, Changing, Phase, SubStep
<1>5. StartFresh'
  BY <1>1 DEF IInv, StartFresh, ProvePath, Succeed, Fail, Record, Teardown,
     TypeOK, Attempted
<1>6. TornDown'
  BY <1>1 DEF IInv, TornDown, ProvePath, Succeed, Fail, Record, Teardown,
     TypeOK, Attempted, Position, Changing, Phase, SubStep
<1>7. HeldByKind'
  BY <1>1 DEF IInv, HeldByKind, ProvePath, Succeed, Fail, Record, Teardown,
     TypeOK, Attempted, Managed, TornDown, Survivor, Changing, Position, Phase,
     SubStep
<1>8. Survivor'
  BY <1>1 DEF IInv, Survivor, ProvePath, Succeed, Fail, Record, Teardown,
     TypeOK, Attempted, HeldByKind, Position, Managed, Changing, Phase, SubStep
<1>9. Measured'
  BY <1>1 DEF IInv, Measured, ProvePath, Succeed, Fail, Record, Teardown,
     TypeOK, Managed, NeedsTraffic, Changing, Attempted, Phase, SubStep
<1> QED
  BY <1>2, <1>3, <1>4, <1>5, <1>6, <1>7, <1>8, <1>9 DEF IInv

LEMMA MeasureKeeps == IInv /\ Measure => IInv'
<1> SUFFICES ASSUME IInv, Measure PROVE IInv'
  OBVIOUS
<1>1. UNCHANGED <<kind, mode, cancelled, deadline, setupAttempted,
                 startAttempted, restored, warm, proof, counters, measured, served, curtailed,
                 proc, stopErr, rules, remnant, dir, cgroup, cgroupOwned, alien,
                 output>>
  BY DEF Measure, Forward, flagVars, measureVars, hostVars
<1>2. TypeOK'
  <2>1. trace' \in [Phase -> {"none", "ok", "error"}]
    BY DEF IInv, TypeOK, Measure, Succeed, Fail, Record, Teardown, Phase
  <2>2. pc' \in Phase \cup SubStep \cup {"report", "done"} /\ failed' \in BOOLEAN
    BY DEF IInv, TypeOK, Measure, Succeed, Fail, Record, Teardown, Phase,
       SubStep
  <2> QED
    BY <1>1, <2>1, <2>2 DEF IInv, TypeOK
<1>3. Progressed'
  BY <1>1 DEF IInv, Progressed, Measure, Succeed, Fail, Record, Teardown,
     HookReads, NeedsTraffic, TypeOK, Position, Phase, SubStep
<1>4. Attempted'
  BY <1>1 DEF IInv, Attempted, Measure, Succeed, Fail, Record, Teardown,
     HookReads, NeedsTraffic, TypeOK, Changing, Phase, SubStep
<1>5. StartFresh'
  BY <1>1 DEF IInv, StartFresh, Measure, Succeed, Fail, Record, Teardown,
     HookReads, NeedsTraffic, TypeOK, Attempted
<1>6. TornDown'
  BY <1>1 DEF IInv, TornDown, Measure, Succeed, Fail, Record, Teardown,
     HookReads, NeedsTraffic, TypeOK, Attempted, Position, Changing, Phase,
     SubStep
<1>7. HeldByKind'
  BY <1>1 DEF IInv, HeldByKind, Measure, Succeed, Fail, Record, Teardown,
     HookReads, NeedsTraffic, TypeOK, Attempted, Managed, TornDown, Survivor,
     Changing, Position, Phase, SubStep
<1>8. Survivor'
  BY <1>1 DEF IInv, Survivor, Measure, Succeed, Fail, Record, Teardown,
     HookReads, NeedsTraffic, TypeOK, Attempted, HeldByKind, Position, Managed,
     Changing, Phase, SubStep
<1>9. Measured'
  BY <1>1 DEF IInv, Measured, Measure, Succeed, Fail, Record, Teardown,
     HookReads, NeedsTraffic, TypeOK, Managed, Changing, Attempted, Phase,
     SubStep
<1> QED
  BY <1>2, <1>3, <1>4, <1>5, <1>6, <1>7, <1>8, <1>9 DEF IInv

LEMMA WorkloadKeeps == IInv /\ Workload => IInv'
<1> SUFFICES ASSUME IInv, Workload PROVE IInv'
  OBVIOUS
<1>1. UNCHANGED <<kind, mode, cancelled, deadline, setupAttempted,
                 startAttempted, restored, warm, proof, measured, proc, stopErr, rules,
                 remnant, dir, cgroup, cgroupOwned, alien, output>>
  BY DEF Workload, Forward, flagVars, measureVars, hostVars
<1>2. TypeOK'
  <2>1. trace' \in [Phase -> {"none", "ok", "error"}]
    BY DEF IInv, TypeOK, Workload, Succeed, Fail, Record, Teardown, Phase
  <2>2. pc' \in Phase \cup SubStep \cup {"report", "done"} /\ failed' \in BOOLEAN
    BY DEF IInv, TypeOK, Workload, Succeed, Fail, Record, Teardown, Phase,
       SubStep
  <2>3. served' \in BOOLEAN /\ curtailed' \in BOOLEAN
    BY DEF IInv, TypeOK, Workload
  <2>4. counters' \in {"clean", "failed", "corrupt"}
    BY DEF IInv, TypeOK, Workload
  <2> QED
    BY <1>1, <2>1, <2>2, <2>3, <2>4 DEF IInv, TypeOK
<1>3. Progressed'
  BY <1>1 DEF IInv, Progressed, Workload, Succeed, Fail, Record, Teardown,
     Managed, TypeOK, Position, Phase, SubStep
<1>4. Attempted'
  BY <1>1 DEF IInv, Attempted, Workload, Succeed, Fail, Record, Teardown,
     Managed, TypeOK, Changing, Phase, SubStep
<1>5. StartFresh'
  BY <1>1 DEF IInv, StartFresh, Workload, Succeed, Fail, Record, Teardown,
     Managed, TypeOK, Attempted
<1>6. TornDown'
  BY <1>1 DEF IInv, TornDown, Workload, Succeed, Fail, Record, Teardown,
     Managed, TypeOK, Attempted, Position, Changing, Phase, SubStep
<1>7. HeldByKind'
  BY <1>1 DEF IInv, HeldByKind, Workload, Succeed, Fail, Record, Teardown,
     Managed, TypeOK, Attempted, TornDown, Survivor, Changing, Position, Phase,
     SubStep
<1>8. Survivor'
  BY <1>1 DEF IInv, Survivor, Workload, Succeed, Fail, Record, Teardown,
     Managed, TypeOK, Attempted, HeldByKind, Position, Changing, Phase, SubStep
<1>9. Measured'
  BY <1>1 DEF IInv, Measured, Workload, Succeed, Fail, Record, Teardown,
     Managed, TypeOK, NeedsTraffic, Changing, Attempted, Phase, SubStep
<1> QED
  BY <1>2, <1>3, <1>4, <1>5, <1>6, <1>7, <1>8, <1>9 DEF IInv

LEMMA CollectKeeps == IInv /\ Collect => IInv'
<1> SUFFICES ASSUME IInv, Collect PROVE IInv'
  OBVIOUS
<1>1. UNCHANGED <<kind, mode, cancelled, deadline, setupAttempted,
                 startAttempted, restored, warm, proof, counters, served, curtailed, proc,
                 stopErr, rules, remnant, dir, cgroup, cgroupOwned, alien, output>>
  BY DEF Collect, Forward, flagVars, measureVars, hostVars
<1>2. TypeOK'
  <2>1. trace' \in [Phase -> {"none", "ok", "error"}]
    BY DEF IInv, TypeOK, Collect, Succeed, Fail, Record, Teardown, Phase
  <2>2. pc' \in Phase \cup SubStep \cup {"report", "done"} /\ failed' \in BOOLEAN
    BY DEF IInv, TypeOK, Collect, Succeed, Fail, Record, Teardown, Phase,
       SubStep
  <2>3. measured' \in Verdict
    BY DEF IInv, TypeOK, Collect, Verdict
  <2> QED
    BY <1>1, <2>1, <2>2, <2>3 DEF IInv, TypeOK
<1>3. Progressed'
  BY <1>1 DEF IInv, Progressed, TypeOK, Collect, Succeed, Fail, Record,
     Teardown, Attempted, Changing, Position, Phase
<1>4. Attempted'
  BY <1>1 DEF IInv, Attempted, Collect, Succeed, Fail, Record, Teardown,
     HookReads, NeedsTraffic, InvalidCounters, TypeOK, Changing, Phase, SubStep
<1>5. StartFresh'
  BY <1>1 DEF IInv, StartFresh, Collect, Succeed, Fail, Record, Teardown,
     HookReads, NeedsTraffic, InvalidCounters, TypeOK, Attempted
<1>6. TornDown'
  BY <1>1 DEF IInv, TornDown, Collect, Succeed, Fail, Record, Teardown,
     HookReads, NeedsTraffic, InvalidCounters, TypeOK, Attempted, Position,
     Changing, Phase, SubStep
<1>7. HeldByKind'
  BY <1>1 DEF IInv, HeldByKind, Collect, Succeed, Fail, Record, Teardown,
     HookReads, NeedsTraffic, InvalidCounters, TypeOK, Attempted, Managed,
     TornDown, Survivor, Changing, Position, Phase, SubStep
<1>8. Survivor'
  BY <1>1 DEF IInv, Survivor, Collect, Succeed, Fail, Record, Teardown,
     HookReads, NeedsTraffic, InvalidCounters, TypeOK, Attempted, HeldByKind,
     Position, Managed, Changing, Phase, SubStep
<1>9. Measured'
  BY <1>1 DEF IInv, Measured, Collect, Succeed, Fail, Record, Teardown,
     HookReads, NeedsTraffic, InvalidCounters, TypeOK, Managed, Changing,
     Attempted, Phase, SubStep
<1> QED
  BY <1>2, <1>3, <1>4, <1>5, <1>6, <1>7, <1>8, <1>9 DEF IInv

LEMMA StopKeeps == IInv /\ Stop => IInv'
<1> SUFFICES ASSUME IInv, Stop PROVE IInv'
  OBVIOUS
<1>1. UNCHANGED <<kind, mode, cancelled, deadline, setupAttempted,
                 startAttempted, restored, warm, proof, counters, measured, served, curtailed,
                 proc, remnant, dir, cgroup, cgroupOwned, alien, output>>
  BY DEF Stop, Backward, flagVars, measureVars, hostVars
<1>2. TypeOK'
  <2>1. trace' \in [Phase -> {"none", "ok", "error"}]
    BY DEF IInv, TypeOK, Stop, Succeed, Fail, Record, EndStop, Phase
  <2>2. pc' \in Phase \cup SubStep \cup {"report", "done"} /\ failed' \in BOOLEAN
    BY DEF IInv, TypeOK, Stop, Succeed, Fail, Record, EndStop, Phase,
       SubStep
  <2>3. rules' \in BOOLEAN
    BY DEF IInv, TypeOK, Stop, UndoRules
  <2>4. stopErr' \in BOOLEAN
    BY DEF IInv, TypeOK, Stop, UndoRules
  <2> QED
    BY <1>1, <2>1, <2>2, <2>3, <2>4 DEF IInv, TypeOK
<1>3. Progressed'
  BY <1>1 DEF IInv, Progressed, Stop, Succeed, Fail, Record, EndStop,
     UndoRules, Exited, TypeOK, Position, Phase, SubStep
<1>4. Attempted'
  BY <1>1 DEF IInv, Attempted, Stop, Succeed, Fail, Record, EndStop,
     UndoRules, Exited, TypeOK, Changing, Phase, SubStep
<1>5. StartFresh'
  BY <1>1 DEF IInv, StartFresh, Stop, Succeed, Fail, Record, EndStop,
     UndoRules, Exited, TypeOK, Attempted
<1>6. TornDown'
  BY <1>1 DEF IInv, TornDown, Stop, Succeed, Fail, Record, EndStop,
     UndoRules, Exited, TypeOK, Attempted, Position, Changing, Phase, SubStep
<1>7. HeldByKind'
  <2>1. pc = "stop" /\ pc' \in {"signal", "collect_artifacts"} /\ ~restored
    BY DEF IInv, TypeOK, TornDown, Stop, EndStop, Succeed, Fail
  <2>2. trace'["start"] = trace["start"]
    BY DEF IInv, TypeOK, Stop, EndStop, Succeed, Fail, Record, Phase
  <2>3. ~rules => ~rules'
    BY DEF IInv, TypeOK, Stop, UndoRules
  <2> QED
    BY <1>1, <2>1, <2>2, <2>3 DEF IInv, HeldByKind, Managed
<1>8. Survivor'
  BY <1>1 DEF IInv, Survivor, Stop, Succeed, Fail, Record, EndStop,
     UndoRules, Exited, TypeOK, Attempted, HeldByKind, Position, Managed,
     Changing, Phase, SubStep
<1>9. Measured'
  BY <1>1 DEF IInv, Measured, Stop, Succeed, Fail, Record, EndStop,
     UndoRules, Exited, TypeOK, Managed, NeedsTraffic, Changing, Attempted,
     Phase, SubStep
<1> QED
  BY <1>2, <1>3, <1>4, <1>5, <1>6, <1>7, <1>8, <1>9 DEF IInv

LEMMA SignalKeeps == IInv /\ Signal => IInv'
<1> SUFFICES ASSUME IInv, Signal PROVE IInv'
  OBVIOUS
<1>1. UNCHANGED <<kind, mode, cancelled, deadline, setupAttempted,
                 startAttempted, restored, warm, proof, counters, measured, served, curtailed,
                 proc, stopErr, rules, remnant, dir, cgroup, cgroupOwned, alien,
                 output>>
  BY DEF Signal, Backward, flagVars, measureVars, hostVars
<1>2. TypeOK'
  <2>1. trace' \in [Phase -> {"none", "ok", "error"}]
    BY DEF IInv, TypeOK, Signal, Succeed, Fail, Record, EndStop, Phase
  <2>2. pc' \in Phase \cup SubStep \cup {"report", "done"} /\ failed' \in BOOLEAN
    BY DEF IInv, TypeOK, Signal, Succeed, Fail, Record, EndStop, Phase,
       SubStep
  <2> QED
    BY <1>1, <2>1, <2>2 DEF IInv, TypeOK
<1>3. Progressed'
  BY <1>1 DEF IInv, Progressed, Signal, Succeed, Fail, Record, EndStop,
     Exited, TypeOK, Position, Phase, SubStep
<1>4. Attempted'
  BY <1>1 DEF IInv, Attempted, Signal, Succeed, Fail, Record, EndStop,
     Exited, TypeOK, Changing, Phase, SubStep
<1>5. StartFresh'
  BY <1>1 DEF IInv, StartFresh, Signal, Succeed, Fail, Record, EndStop,
     Exited, TypeOK, Attempted
<1>6. TornDown'
  BY <1>1 DEF IInv, TornDown, Signal, Succeed, Fail, Record, EndStop,
     Exited, TypeOK, Attempted, Position, Changing, Phase, SubStep
<1>7. HeldByKind'
  BY <1>1 DEF IInv, HeldByKind, Signal, Succeed, Fail, Record, EndStop,
     Exited, TypeOK, Attempted, Managed, TornDown, Survivor, Changing,
     Position, Phase, SubStep
<1>8. Survivor'
  BY <1>1 DEF IInv, Survivor, Signal, Succeed, Fail, Record, EndStop,
     Exited, TypeOK, Attempted, HeldByKind, Position, Managed, Changing, Phase,
     SubStep
<1>9. Measured'
  BY <1>1 DEF IInv, Measured, Signal, Succeed, Fail, Record, EndStop,
     Exited, TypeOK, Managed, NeedsTraffic, Changing, Attempted, Phase, SubStep
<1> QED
  BY <1>2, <1>3, <1>4, <1>5, <1>6, <1>7, <1>8, <1>9 DEF IInv

LEMMA WaitExitKeeps == IInv /\ WaitExit => IInv'
<1> SUFFICES ASSUME IInv, WaitExit PROVE IInv'
  OBVIOUS
<1>1. UNCHANGED <<kind, mode, cancelled, deadline, setupAttempted,
                 startAttempted, restored, warm, proof, counters, measured, served, curtailed,
                 stopErr, rules, remnant, dir, cgroup, cgroupOwned, alien, output>>
  BY DEF WaitExit, Backward, flagVars, measureVars, hostVars
<1>2. TypeOK'
  <2>1. trace' \in [Phase -> {"none", "ok", "error"}]
    BY DEF IInv, TypeOK, WaitExit, Succeed, Fail, Record, EndStop, Phase
  <2>2. pc' \in Phase \cup SubStep \cup {"report", "done"} /\ failed' \in BOOLEAN
    BY DEF IInv, TypeOK, WaitExit, Succeed, Fail, Record, EndStop, Phase,
       SubStep
  <2>3. proc' \in {"none", "running", "dying", "exited"}
    BY DEF IInv, TypeOK, WaitExit, EndStop
  <2> QED
    BY <1>1, <2>1, <2>2, <2>3 DEF IInv, TypeOK
<1>3. Progressed'
  BY <1>1 DEF IInv, Progressed, WaitExit, Succeed, Fail, Record, EndStop,
     Exited, TypeOK, Position, Phase, SubStep
<1>4. Attempted'
  BY <1>1 DEF IInv, Attempted, WaitExit, Succeed, Fail, Record, EndStop,
     Exited, TypeOK, Changing, Phase, SubStep
<1>5. StartFresh'
  BY <1>1 DEF IInv, StartFresh, WaitExit, Succeed, Fail, Record, EndStop,
     Exited, TypeOK, Attempted
<1>6. TornDown'
  BY <1>1 DEF IInv, TornDown, WaitExit, Succeed, Fail, Record, EndStop,
     Exited, TypeOK, Attempted, Position, Changing, Phase, SubStep
<1>7. HeldByKind'
  BY <1>1 DEF IInv, HeldByKind, WaitExit, Succeed, Fail, Record, EndStop,
     Exited, TypeOK, Attempted, Managed, TornDown, Survivor, Changing,
     Position, Phase, SubStep
<1>8. Survivor'
  BY <1>1 DEF IInv, Survivor, WaitExit, Succeed, Fail, Record, EndStop,
     Exited, TypeOK, Attempted, HeldByKind, Position, Managed, Changing, Phase,
     SubStep
<1>9. Measured'
  BY <1>1 DEF IInv, Measured, WaitExit, Succeed, Fail, Record, EndStop,
     Exited, TypeOK, Managed, NeedsTraffic, Changing, Attempted, Phase, SubStep
<1> QED
  BY <1>2, <1>3, <1>4, <1>5, <1>6, <1>7, <1>8, <1>9 DEF IInv

LEMMA ReapKeeps == IInv /\ Reap => IInv'
<1> SUFFICES ASSUME IInv, Reap PROVE IInv'
  OBVIOUS
<1>1. UNCHANGED <<kind, mode, cancelled, deadline, setupAttempted,
                 startAttempted, restored, warm, proof, counters, measured, served, curtailed,
                 proc, stopErr, rules, remnant, dir, cgroup, cgroupOwned, alien,
                 output>>
  BY DEF Reap, Backward, flagVars, measureVars, hostVars
<1>2. TypeOK'
  <2>1. trace' \in [Phase -> {"none", "ok", "error"}]
    BY DEF IInv, TypeOK, Reap, Succeed, Fail, Record, EndStop, Phase
  <2>2. pc' \in Phase \cup SubStep \cup {"report", "done"} /\ failed' \in BOOLEAN
    BY DEF IInv, TypeOK, Reap, Succeed, Fail, Record, EndStop, Phase,
       SubStep
  <2> QED
    BY <1>1, <2>1, <2>2 DEF IInv, TypeOK
<1>3. Progressed'
  BY <1>1 DEF IInv, Progressed, Reap, Succeed, Fail, Record, EndStop,
     Exited, TypeOK, Position, Phase, SubStep
<1>4. Attempted'
  BY <1>1 DEF IInv, Attempted, Reap, Succeed, Fail, Record, EndStop, Exited,
     TypeOK, Changing, Phase, SubStep
<1>5. StartFresh'
  BY <1>1 DEF IInv, StartFresh, Reap, Succeed, Fail, Record, EndStop,
     Exited, TypeOK, Attempted
<1>6. TornDown'
  BY <1>1 DEF IInv, TornDown, Reap, Succeed, Fail, Record, EndStop, Exited,
     TypeOK, Attempted, Position, Changing, Phase, SubStep
<1>7. HeldByKind'
  BY <1>1 DEF IInv, HeldByKind, Reap, Succeed, Fail, Record, EndStop,
     Exited, TypeOK, Attempted, Managed, TornDown, Survivor, Changing,
     Position, Phase, SubStep
<1>8. Survivor'
  BY <1>1 DEF IInv, Survivor, Reap, Succeed, Fail, Record, EndStop, Exited,
     TypeOK, Attempted, HeldByKind, Position, Managed, Changing, Phase, SubStep
<1>9. Measured'
  BY <1>1 DEF IInv, Measured, Reap, Succeed, Fail, Record, EndStop, Exited,
     TypeOK, Managed, NeedsTraffic, Changing, Attempted, Phase, SubStep
<1> QED
  BY <1>2, <1>3, <1>4, <1>5, <1>6, <1>7, <1>8, <1>9 DEF IInv

LEMMA ArtifactsKeeps == IInv /\ Artifacts => IInv'
<1> SUFFICES ASSUME IInv, Artifacts PROVE IInv'
  OBVIOUS
<1>1. UNCHANGED <<kind, mode, cancelled, deadline, setupAttempted,
                 startAttempted, restored, warm, proof, counters, measured, served, curtailed,
                 proc, stopErr, rules, remnant, dir, cgroup, cgroupOwned, alien,
                 output>>
  BY DEF Artifacts, Backward, flagVars, measureVars, hostVars
<1>2. TypeOK'
  <2>1. trace' \in [Phase -> {"none", "ok", "error"}]
    BY DEF IInv, TypeOK, Artifacts, Succeed, Fail, Record, Phase
  <2>2. pc' \in Phase \cup SubStep \cup {"report", "done"} /\ failed' \in BOOLEAN
    BY DEF IInv, TypeOK, Artifacts, Succeed, Fail, Record, Phase, SubStep
  <2> QED
    BY <1>1, <2>1, <2>2 DEF IInv, TypeOK
<1>3. Progressed'
  BY <1>1 DEF IInv, Progressed, Artifacts, Succeed, Fail, Record, Managed,
     TypeOK, Position, Phase, SubStep
<1>4. Attempted'
  BY <1>1 DEF IInv, Attempted, Artifacts, Succeed, Fail, Record, Managed,
     TypeOK, Changing, Phase, SubStep
<1>5. StartFresh'
  BY <1>1 DEF IInv, StartFresh, Artifacts, Succeed, Fail, Record, Managed,
     TypeOK, Attempted
<1>6. TornDown'
  BY <1>1 DEF IInv, TornDown, Artifacts, Succeed, Fail, Record, Managed,
     TypeOK, Attempted, Position, Changing, Phase, SubStep
<1>7. HeldByKind'
  BY <1>1 DEF IInv, HeldByKind, Artifacts, Succeed, Fail, Record, Managed,
     TypeOK, Attempted, TornDown, Survivor, Changing, Position, Phase, SubStep
<1>8. Survivor'
  BY <1>1 DEF IInv, Survivor, Artifacts, Succeed, Fail, Record, Managed,
     TypeOK, Attempted, HeldByKind, Position, Changing, Phase, SubStep
<1>9. Measured'
  BY <1>1 DEF IInv, Measured, Artifacts, Succeed, Fail, Record, Managed,
     TypeOK, NeedsTraffic, Changing, Attempted, Phase, SubStep
<1> QED
  BY <1>2, <1>3, <1>4, <1>5, <1>6, <1>7, <1>8, <1>9 DEF IInv

LEMMA CleanupKeeps == IInv /\ Cleanup => IInv'
<1> SUFFICES ASSUME IInv, Cleanup PROVE IInv'
  OBVIOUS
<1>1. UNCHANGED <<kind, mode, cancelled, deadline, setupAttempted,
                 startAttempted, restored, warm, proof, counters, measured, served, curtailed,
                 proc, stopErr, remnant, alien, output>>
  BY DEF Cleanup, Backward, flagVars, measureVars, hostVars
<1>2. TypeOK'
  <2>1. trace' \in [Phase -> {"none", "ok", "error"}]
    BY DEF IInv, TypeOK, Cleanup, Succeed, Fail, Record, Phase
  <2>2. pc' \in Phase \cup SubStep \cup {"report", "done"} /\ failed' \in BOOLEAN
    BY DEF IInv, TypeOK, Cleanup, Succeed, Fail, Record, Phase, SubStep
  <2>3. rules' \in BOOLEAN
    BY DEF IInv, TypeOK, Cleanup, UndoRules
  <2>4. dir' \in {"none", "ours", "other"}
    BY DEF IInv, TypeOK, Cleanup
  <2>5. cgroup' \in {"none", "ours", "other"}
    BY DEF IInv, TypeOK, Cleanup
  <2>6. cgroupOwned' \in BOOLEAN
    BY DEF IInv, TypeOK, Cleanup
  <2> QED
    BY <1>1, <2>1, <2>2, <2>3, <2>4, <2>5, <2>6 DEF IInv, TypeOK
<1>3. Progressed'
  BY <1>1 DEF IInv, Progressed, Cleanup, Succeed, Fail, Record, UndoRules,
     Managed, TypeOK, Position, Phase, SubStep
<1>4. Attempted'
  <2>1. pc = "cleanup" /\ pc' = "verify_restore"
    BY DEF Cleanup, Succeed, Fail
  <2>2. trace'["start"] = trace["start"] /\ trace'["setup"] = trace["setup"]
    BY DEF IInv, TypeOK, Cleanup, Succeed, Fail, Record, Phase
  <2>3. ~rules => ~rules'
    BY DEF IInv, TypeOK, Cleanup, UndoRules
  <2>4. dir # "ours" => dir' # "ours"
    BY DEF IInv, TypeOK, Cleanup
  <2>5. cgroup # "ours" => cgroup' # "ours"
    BY DEF IInv, TypeOK, Cleanup
  <2> QED
    BY <1>1, <2>1, <2>2, <2>3, <2>4, <2>5 DEF IInv, Attempted, Changing
<1>5. StartFresh'
  BY <1>1 DEF IInv, StartFresh, Cleanup, Succeed, Fail, Record, UndoRules,
     Managed, TypeOK, Attempted
<1>6. TornDown'
  BY <1>1 DEF IInv, TornDown, Cleanup, Succeed, Fail, Record, UndoRules,
     Managed, TypeOK, Attempted, Position, Changing, Phase, SubStep
<1>7. HeldByKind'
  BY <1>1 DEF IInv, HeldByKind, Cleanup, Succeed, Fail, Record, UndoRules,
     Managed, TypeOK, Attempted, TornDown, Survivor, Changing, Position, Phase,
     SubStep
<1>8. Survivor'
  BY <1>1 DEF IInv, Survivor, Cleanup, Succeed, Fail, Record, UndoRules,
     Managed, TypeOK, Attempted, HeldByKind, Position, Changing, Phase, SubStep
<1>9. Measured'
  BY <1>1 DEF IInv, Measured, Cleanup, Succeed, Fail, Record, UndoRules,
     Managed, TypeOK, NeedsTraffic, Changing, Attempted, Phase, SubStep
<1> QED
  BY <1>2, <1>3, <1>4, <1>5, <1>6, <1>7, <1>8, <1>9 DEF IInv

LEMMA VerifyRestoreKeeps == IInv /\ VerifyRestore => IInv'
<1> SUFFICES ASSUME IInv, VerifyRestore PROVE IInv'
  OBVIOUS
<1>1. UNCHANGED <<kind, mode, cancelled, deadline, setupAttempted,
                 startAttempted, warm, proof, counters, measured, served, curtailed, proc,
                 stopErr, rules, remnant, dir, cgroup, cgroupOwned, alien, output>>
  BY DEF VerifyRestore, Backward, flagVars, measureVars, hostVars
<1>2. TypeOK'
  <2>1. trace' \in [Phase -> {"none", "ok", "error"}]
    BY DEF IInv, TypeOK, VerifyRestore, Succeed, Fail, Record, Phase
  <2>2. pc' \in Phase \cup SubStep \cup {"report", "done"} /\ failed' \in BOOLEAN
    BY DEF IInv, TypeOK, VerifyRestore, Succeed, Fail, Record, Phase,
       SubStep
  <2>3. restored' \in BOOLEAN
    BY DEF IInv, TypeOK, VerifyRestore
  <2> QED
    BY <1>1, <2>1, <2>2, <2>3 DEF IInv, TypeOK
<1>3. Progressed'
  BY <1>1 DEF IInv, Progressed, VerifyRestore, Succeed, Fail, Record,
     LooksRestored, Exited, Managed, TypeOK, Position, Phase, SubStep
<1>4. Attempted'
  BY <1>1 DEF IInv, Attempted, VerifyRestore, Succeed, Fail, Record,
     LooksRestored, Exited, Managed, TypeOK, Changing, Phase, SubStep
<1>5. StartFresh'
  BY <1>1 DEF IInv, StartFresh, VerifyRestore, Succeed, Fail, Record,
     LooksRestored, Exited, Managed, TypeOK, Attempted
<1>6. TornDown'
  BY <1>1 DEF IInv, TornDown, VerifyRestore, Succeed, Fail, Record,
     LooksRestored, Exited, Managed, TypeOK, Attempted, Position, Changing,
     Phase, SubStep
<1>7. HeldByKind'
  BY <1>1 DEF IInv, HeldByKind, VerifyRestore, Succeed, Fail, Record,
     LooksRestored, Exited, Managed, TypeOK, Attempted, TornDown, Survivor,
     Changing, Position, Phase, SubStep
<1>8. Survivor'
  BY <1>1 DEF IInv, Survivor, VerifyRestore, Succeed, Fail, Record,
     LooksRestored, Exited, Managed, TypeOK, Attempted, HeldByKind, Position,
     Changing, Phase, SubStep
<1>9. Measured'
  BY <1>1 DEF IInv, Measured, VerifyRestore, Succeed, Fail, Record,
     LooksRestored, Exited, Managed, TypeOK, NeedsTraffic, Changing, Attempted,
     Phase, SubStep
<1> QED
  BY <1>2, <1>3, <1>4, <1>5, <1>6, <1>7, <1>8, <1>9 DEF IInv

LEMMA WriteResultKeeps == IInv /\ WriteResult => IInv'
<1> SUFFICES ASSUME IInv, WriteResult PROVE IInv'
  OBVIOUS
<1>1. UNCHANGED <<kind, mode, cancelled, deadline, setupAttempted,
                 startAttempted, restored, warm, proof, counters, measured, served, curtailed,
                 proc, stopErr, rules, remnant, dir, cgroup, cgroupOwned, alien,
                 trace>>
  BY DEF WriteResult, flagVars, measureVars, hostVars
<1>2. TypeOK'
  <2>1. pc' \in Phase \cup SubStep \cup {"report", "done"} /\ failed' \in BOOLEAN
    BY DEF IInv, TypeOK, WriteResult, Phase, SubStep
  <2>2. output' \in Verdict
    BY DEF IInv, TypeOK, WriteResult, Verdict
  <2> QED
    BY <1>1, <2>1, <2>2 DEF IInv, TypeOK
<1>3. Progressed'
  BY <1>1 DEF IInv, Progressed, WriteResult, TypeOK, Position, Phase,
     SubStep
<1>4. Attempted'
  BY <1>1 DEF IInv, Attempted, WriteResult, TypeOK, Changing, Phase, SubStep
<1>5. StartFresh'
  BY <1>1 DEF IInv, StartFresh, WriteResult, TypeOK, Attempted
<1>6. TornDown'
  BY <1>1 DEF IInv, TornDown, WriteResult, TypeOK, Attempted, Position,
     Changing, Phase, SubStep
<1>7. HeldByKind'
  BY <1>1 DEF IInv, HeldByKind, WriteResult, TypeOK, Attempted, Managed,
     TornDown, Survivor, Changing, Position, Phase, SubStep
<1>8. Survivor'
  BY <1>1 DEF IInv, Survivor, WriteResult, TypeOK, Attempted, HeldByKind,
     Position, Managed, Changing, Phase, SubStep
<1>9. Measured'
  BY <1>1 DEF IInv, Measured, WriteResult, TypeOK, Managed, NeedsTraffic,
     Changing, Attempted, Phase, SubStep
<1> QED
  BY <1>2, <1>3, <1>4, <1>5, <1>6, <1>7, <1>8, <1>9 DEF IInv

LEMMA DeliverKeeps == IInv /\ Deliver => IInv'
<1> SUFFICES ASSUME IInv, Deliver PROVE IInv'
  OBVIOUS
<1>1. TypeOK'
  BY DEF IInv, TypeOK, Deliver, Aside, flagVars, measureVars, hostVars
<1>2. Progressed'
  BY DEF IInv, Progressed, Deliver, Aside, flagVars, measureVars, hostVars
<1>3. Attempted'
  BY DEF IInv, Attempted, Deliver, Aside, flagVars, measureVars, hostVars, Changing
<1>4. StartFresh'
  BY DEF IInv, StartFresh, Deliver, Aside, flagVars, measureVars, hostVars, Attempted
<1>5. TornDown'
  BY DEF IInv, TornDown, Deliver, Aside, flagVars, measureVars, hostVars
<1>6. HeldByKind'
  BY DEF IInv, HeldByKind, Deliver, Aside, flagVars, measureVars, hostVars, Managed, Attempted
<1>7. Survivor'
  BY DEF IInv, Survivor, Deliver, Aside, flagVars, measureVars, hostVars, Attempted, HeldByKind
<1>8. Measured'
  BY DEF IInv, Measured, Deliver, Aside, flagVars, measureVars, hostVars, NeedsTraffic, Managed, TypeOK
<1> QED
  BY <1>1, <1>2, <1>3, <1>4, <1>5, <1>6, <1>7, <1>8 DEF IInv

LEMMA CancelKeeps == IInv /\ Cancel => IInv'
<1> SUFFICES ASSUME IInv, Cancel PROVE IInv'
  OBVIOUS
<1>1. TypeOK'
  BY DEF IInv, TypeOK, Cancel, Aside, flagVars, measureVars, hostVars
<1>2. Progressed'
  BY DEF IInv, Progressed, Cancel, Aside, flagVars, measureVars, hostVars
<1>3. Attempted'
  BY DEF IInv, Attempted, Cancel, Aside, flagVars, measureVars, hostVars, Changing
<1>4. StartFresh'
  BY DEF IInv, StartFresh, Cancel, Aside, flagVars, measureVars, hostVars, Attempted
<1>5. TornDown'
  BY DEF IInv, TornDown, Cancel, Aside, flagVars, measureVars, hostVars
<1>6. HeldByKind'
  BY DEF IInv, HeldByKind, Cancel, Aside, flagVars, measureVars, hostVars, Managed, Attempted
<1>7. Survivor'
  BY DEF IInv, Survivor, Cancel, Aside, flagVars, measureVars, hostVars, Attempted, HeldByKind
<1>8. Measured'
  BY DEF IInv, Measured, Cancel, Aside, flagVars, measureVars, hostVars, NeedsTraffic, Managed, TypeOK
<1> QED
  BY <1>1, <1>2, <1>3, <1>4, <1>5, <1>6, <1>7, <1>8 DEF IInv

LEMMA ExpireKeeps == IInv /\ Expire => IInv'
<1> SUFFICES ASSUME IInv, Expire PROVE IInv'
  OBVIOUS
<1>1. TypeOK'
  BY DEF IInv, TypeOK, Expire, Aside, flagVars, measureVars, hostVars
<1>2. Progressed'
  BY DEF IInv, Progressed, Expire, Aside, flagVars, measureVars, hostVars
<1>3. Attempted'
  BY DEF IInv, Attempted, Expire, Aside, flagVars, measureVars, hostVars, Changing
<1>4. StartFresh'
  BY DEF IInv, StartFresh, Expire, Aside, flagVars, measureVars, hostVars, Attempted
<1>5. TornDown'
  BY DEF IInv, TornDown, Expire, Aside, flagVars, measureVars, hostVars
<1>6. HeldByKind'
  BY DEF IInv, HeldByKind, Expire, Aside, flagVars, measureVars, hostVars, Managed, Attempted
<1>7. Survivor'
  BY DEF IInv, Survivor, Expire, Aside, flagVars, measureVars, hostVars, Attempted, HeldByKind
<1>8. Measured'
  BY DEF IInv, Measured, Expire, Aside, flagVars, measureVars, hostVars, NeedsTraffic, Managed, TypeOK
<1> QED
  BY <1>1, <1>2, <1>3, <1>4, <1>5, <1>6, <1>7, <1>8 DEF IInv

LEMMA ExitKeeps == IInv /\ Exit => IInv'
<1> SUFFICES ASSUME IInv, Exit PROVE IInv'
  OBVIOUS
<1>1. TypeOK'
  BY DEF IInv, TypeOK, Exit, Aside, flagVars, measureVars, hostVars
<1>2. Progressed'
  BY DEF IInv, Progressed, Exit, Aside, flagVars, measureVars, hostVars
<1>3. Attempted'
  BY DEF IInv, Attempted, Exit, Aside, flagVars, measureVars, hostVars, Changing
<1>4. StartFresh'
  BY DEF IInv, StartFresh, Exit, Aside, flagVars, measureVars, hostVars, Attempted
<1>5. TornDown'
  BY DEF IInv, TornDown, Exit, Aside, flagVars, measureVars, hostVars
<1>6. HeldByKind'
  BY DEF IInv, HeldByKind, Exit, Aside, flagVars, measureVars, hostVars, Managed, Attempted
<1>7. Survivor'
  BY DEF IInv, Survivor, Exit, Aside, flagVars, measureVars, hostVars, Attempted, HeldByKind
<1>8. Measured'
  BY DEF IInv, Measured, Exit, Aside, flagVars, measureVars, hostVars, NeedsTraffic, Managed, TypeOK
<1> QED
  BY <1>1, <1>2, <1>3, <1>4, <1>5, <1>6, <1>7, <1>8 DEF IInv

LEMMA AlienComesOrGoesKeeps == IInv /\ AlienComesOrGoes => IInv'
<1> SUFFICES ASSUME IInv, AlienComesOrGoes PROVE IInv'
  OBVIOUS
<1>1. TypeOK'
  BY DEF IInv, TypeOK, AlienComesOrGoes, Aside, flagVars, measureVars, hostVars
<1>2. Progressed'
  BY DEF IInv, Progressed, AlienComesOrGoes, Aside, flagVars, measureVars, hostVars
<1>3. Attempted'
  BY DEF IInv, Attempted, AlienComesOrGoes, Aside, flagVars, measureVars, hostVars, Changing
<1>4. StartFresh'
  BY DEF IInv, StartFresh, AlienComesOrGoes, Aside, flagVars, measureVars, hostVars, Attempted
<1>5. TornDown'
  BY DEF IInv, TornDown, AlienComesOrGoes, Aside, flagVars, measureVars, hostVars
<1>6. HeldByKind'
  BY DEF IInv, HeldByKind, AlienComesOrGoes, Aside, flagVars, measureVars, hostVars, Managed, Attempted
<1>7. Survivor'
  BY DEF IInv, Survivor, AlienComesOrGoes, Aside, flagVars, measureVars, hostVars, Attempted, HeldByKind
<1>8. Measured'
  BY DEF IInv, Measured, AlienComesOrGoes, Aside, flagVars, measureVars, hostVars, NeedsTraffic, Managed, TypeOK
<1> QED
  BY <1>1, <1>2, <1>3, <1>4, <1>5, <1>6, <1>7, <1>8 DEF IInv

LEMMA RivalMakesDirectoryKeeps == IInv /\ RivalMakesDirectory => IInv'
<1> SUFFICES ASSUME IInv, RivalMakesDirectory PROVE IInv'
  OBVIOUS
<1>1. TypeOK'
  BY DEF IInv, TypeOK, RivalMakesDirectory, Aside, flagVars, measureVars, hostVars
<1>2. Progressed'
  BY DEF IInv, Progressed, RivalMakesDirectory, Aside, flagVars, measureVars, hostVars
<1>3. Attempted'
  BY DEF IInv, Attempted, RivalMakesDirectory, Aside, flagVars, measureVars, hostVars, Changing
<1>4. StartFresh'
  BY DEF IInv, StartFresh, RivalMakesDirectory, Aside, flagVars, measureVars, hostVars, Attempted
<1>5. TornDown'
  BY DEF IInv, TornDown, RivalMakesDirectory, Aside, flagVars, measureVars, hostVars
<1>6. HeldByKind'
  BY DEF IInv, HeldByKind, RivalMakesDirectory, Aside, Managed, flagVars, measureVars, hostVars, Attempted
<1>7. Survivor'
  BY DEF IInv, Survivor, RivalMakesDirectory, Aside, Managed, flagVars, measureVars, hostVars, Attempted, HeldByKind
<1>8. Measured'
  BY DEF IInv, Measured, RivalMakesDirectory, Aside, Managed, flagVars, measureVars, hostVars, NeedsTraffic, TypeOK
<1> QED
  BY <1>1, <1>2, <1>3, <1>4, <1>5, <1>6, <1>7, <1>8 DEF IInv

LEMMA RivalRemovesDirectoryKeeps == IInv /\ RivalRemovesDirectory => IInv'
<1> SUFFICES ASSUME IInv, RivalRemovesDirectory PROVE IInv'
  OBVIOUS
<1>1. TypeOK'
  BY DEF IInv, TypeOK, RivalRemovesDirectory, Aside, flagVars, measureVars, hostVars
<1>2. Progressed'
  BY DEF IInv, Progressed, RivalRemovesDirectory, Aside, flagVars, measureVars, hostVars
<1>3. Attempted'
  BY DEF IInv, Attempted, RivalRemovesDirectory, Aside, flagVars, measureVars, hostVars, Changing
<1>4. StartFresh'
  BY DEF IInv, StartFresh, RivalRemovesDirectory, Aside, flagVars, measureVars, hostVars, Attempted
<1>5. TornDown'
  BY DEF IInv, TornDown, RivalRemovesDirectory, Aside, flagVars, measureVars, hostVars
<1>6. HeldByKind'
  BY DEF IInv, HeldByKind, RivalRemovesDirectory, Aside, Managed, flagVars, measureVars, hostVars, Attempted
<1>7. Survivor'
  BY DEF IInv, Survivor, RivalRemovesDirectory, Aside, Managed, flagVars, measureVars, hostVars, Attempted, HeldByKind
<1>8. Measured'
  BY DEF IInv, Measured, RivalRemovesDirectory, Aside, Managed, flagVars, measureVars, hostVars, NeedsTraffic, TypeOK
<1> QED
  BY <1>1, <1>2, <1>3, <1>4, <1>5, <1>6, <1>7, <1>8 DEF IInv

LEMMA OthersCgroupKeeps == IInv /\ OthersCgroup => IInv'
<1> SUFFICES ASSUME IInv, OthersCgroup PROVE IInv'
  OBVIOUS
<1>1. TypeOK'
  BY DEF IInv, TypeOK, OthersCgroup, Aside, flagVars, measureVars, hostVars
<1>2. Progressed'
  BY DEF IInv, Progressed, OthersCgroup, Aside, flagVars, measureVars, hostVars
<1>3. Attempted'
  BY DEF IInv, Attempted, OthersCgroup, Aside, flagVars, measureVars, hostVars, Changing
<1>4. StartFresh'
  BY DEF IInv, StartFresh, OthersCgroup, Aside, flagVars, measureVars, hostVars, Attempted
<1>5. TornDown'
  BY DEF IInv, TornDown, OthersCgroup, Aside, flagVars, measureVars, hostVars
<1>6. HeldByKind'
  BY DEF IInv, HeldByKind, OthersCgroup, Aside, flagVars, measureVars, hostVars, Managed, Attempted
<1>7. Survivor'
  BY DEF IInv, Survivor, OthersCgroup, Aside, flagVars, measureVars, hostVars, Attempted, HeldByKind
<1>8. Measured'
  BY DEF IInv, Measured, OthersCgroup, Aside, flagVars, measureVars, hostVars, NeedsTraffic, Managed, TypeOK
<1> QED
  BY <1>1, <1>2, <1>3, <1>4, <1>5, <1>6, <1>7, <1>8 DEF IInv

LEMMA InitInvariant == Init => IInv
<1> SUFFICES ASSUME Init PROVE IInv
  OBVIOUS
<1>1. TypeOK
  BY DEF Init, TypeOK, Phase, Verdict
<1>2. Progressed
  BY DEF Init, Progressed, Position, Phase
<1>3. Attempted /\ StartFresh /\ TornDown
  BY DEF Init, Attempted, StartFresh, TornDown, Changing, Phase
<1>4. HeldByKind /\ Survivor /\ Measured
  BY DEF Init, HeldByKind, Survivor, Measured, Managed, Position
<1> QED
  BY <1>1, <1>2, <1>3, <1>4 DEF IInv

LEMMA NextInvariant == IInv /\ [Next]_vars => IInv'
<1> SUFFICES ASSUME IInv, [Next]_vars PROVE IInv'
  OBVIOUS
<1>1. CASE Execute
  BY <1>1, PreflightKeeps, SnapshotKeeps, SetupKeeps, StartKeeps,
     WaitReadyKeeps, InstallKeeps, ObserveBeforeKeeps, WarmupKeeps,
     ObserveAfterKeeps, ProvePathKeeps, MeasureKeeps, WorkloadKeeps,
     CollectKeeps, StopKeeps, SignalKeeps, WaitExitKeeps, ReapKeeps,
     ArtifactsKeeps, CleanupKeeps, VerifyRestoreKeeps, WriteResultKeeps DEF
     Execute
<1>2. CASE Deliver
  BY <1>2, DeliverKeeps
<1>3. CASE Environment
  BY <1>3, CancelKeeps, ExpireKeeps, ExitKeeps, AlienComesOrGoesKeeps,
     RivalMakesDirectoryKeeps, RivalRemovesDirectoryKeeps, OthersCgroupKeeps
     DEF Environment
<1>4. CASE UNCHANGED vars
  <2>1. UNCHANGED <<kind, mode, pc, cancelled, deadline, setupAttempted, startAttempted,
                  trace, restored, failed, warm, proof, counters, measured,
                  served, curtailed, proc, stopErr, rules, remnant, dir, cgroup,
                  cgroupOwned, alien, output>>
    BY <1>4 DEF vars, flagVars, measureVars, hostVars
  <2> QED
    BY <2>1 DEF IInv, TypeOK, Progressed, Attempted, StartFresh, TornDown, HeldByKind,
                Survivor, Measured, Changing, Managed, NeedsTraffic
<1> QED
  BY <1>1, <1>2, <1>3, <1>4 DEF Next

(* The inductive invariant holds in every reachable state, whatever the    *)
(* kind of subject, the mode, and the order of failures, signals, timers,  *)
(* deaths of sing-box and interference of other runners.                   *)
THEOREM LifecycleInvariant == Spec => []IInv
  BY InitInvariant, NextInvariant, PTL DEF Spec

(* Type correctness. *)
THEOREM LifecycleTypeOK == Spec => []TypeOK
<1>1. IInv => TypeOK
  BY DEF IInv
<1> QED
  BY <1>1, LifecycleInvariant, PTL

(* A result written as valid was proved to be intercepted, passed every    *)
(* phase and left nothing behind.                                          *)
THEOREM LifecycleValidIsRestored == Spec => []ValidIsRestored
<1>1. IInv => ValidIsRestored
  <2> SUFFICES ASSUME IInv, output = "valid"
               PROVE  /\ proof = "valid" /\ restored
                      /\ \A p \in Phase : trace[p] = "ok"
                      /\ Held = {}
    BY DEF ValidIsRestored
  <2>1. pc = "done" /\ ~failed /\ proof = "valid"
    BY DEF IInv, Measured
  <2>2. \A p \in Phase : trace[p] = "ok"
    BY <2>1 DEF IInv, Progressed, Position, Phase
  <2>3. restored /\ ~remnant
    BY <2>2 DEF IInv, TornDown, HeldByKind, Phase
  <2>4. ~rules /\ dir # "ours" /\ cgroup # "ours" /\ proc # "running"
    BY <2>3 DEF IInv, HeldByKind
  <2>5. Held = {}
    BY <2>3, <2>4 DEF Held
  <2> QED
    BY <2>1, <2>2, <2>3, <2>5
<1> QED
  BY <1>1, LifecycleInvariant, PTL

(* Whatever was attempted has its inverse attempted, also when it failed.  *)
THEOREM LifecycleBalancedTrace == Spec => []BalancedTrace
<1>1. IInv => BalancedTrace
  BY DEF IInv, Attempted, TornDown, BalancedTrace, Position
<1> QED
  BY <1>1, LifecycleInvariant, PTL

(* Only an expired cleanup context leaves sing-box running, and then the   *)
(* run is neither verified nor successful.                                 *)
THEOREM LifecycleOrphanOnlyOnDeadline == Spec => []OrphanOnlyOnDeadline
<1>1. IInv => OrphanOnlyOnDeadline
  BY DEF IInv, Survivor, HeldByKind, Progressed, OrphanOnlyOnDeadline, Position, Phase
<1> QED
  BY <1>1, LifecycleInvariant, PTL

(* A verified restore leaves at most an inert remnant. *)
THEOREM LifecycleRestoredIsInert == Spec => []RestoredIsInert
<1>1. IInv => RestoredIsInert
  BY DEF IInv, HeldByKind, RestoredIsInert, Held
<1> QED
  BY <1>1, LifecycleInvariant, PTL

(* A valid measurement was served to its last operation, for the kinds and *)
(* modes that can notice, unless the worker was signalled.                 *)
THEOREM LifecycleMeasuredSubjectServed == Spec => []MeasuredSubjectServed
<1>1. IInv => MeasuredSubjectServed
  BY DEF IInv, Measured, MeasuredSubjectServed
<1> QED
  BY <1>1, LifecycleInvariant, PTL

-----------------------------------------------------------------------------
(* The transaction implements RestoreContract.  The lemmas say how a step  *)
(* moves the two abstract variables; each names the contract's own action. *)

LEMMA OutcomeByPc ==
  ASSUME IInv
  PROVE  /\ pc \in {"preflight", "snapshot"} => Outcome = "idle" /\ Held = {}
         /\ pc \in Changing => Outcome = "changing"
         /\ pc \in Restoring => Outcome = "restoring"
         /\ pc \in {"report", "done"} /\ restored => Outcome = "verified"
         /\ pc \in {"report", "done"} /\ ~restored => Outcome = "failed"
         /\ restored => Held \subseteq {"remnant"} /\ proc # "running" /\ dir # "ours"
<1>1. pc \in {"preflight", "snapshot"} => Held = {}
  BY DEF IInv, Attempted, Held
<1>2. restored => Held \subseteq {"remnant"} /\ proc # "running" /\ dir # "ours"
  BY DEF IInv, HeldByKind, Held
<1> QED
  BY <1>1, <1>2 DEF Outcome, Changing, Restoring

(* The steps before the teardown that acquire nothing. *)
LEMMA ForwardRefines ==
  ASSUME IInv, IInv',
         \/ WaitReady \/ ObserveBefore \/ Warmup \/ ObserveAfter
         \/ ProvePath \/ Measure \/ Workload \/ Collect
  PROVE  Contract!ContractNext \/ UNCHANGED <<Held, Outcome>>
<1>1. UNCHANGED <<proc, hostVars>>
  BY DEF WaitReady, ObserveBefore, Warmup, ObserveAfter, Observe, ProvePath,
         Measure, Workload, Collect
<1>2. Held' = Held
  BY <1>1 DEF Held, hostVars
<1>3. startAttempted
  BY DEF IInv, Attempted, Changing, WaitReady, ObserveBefore, Warmup, ObserveAfter,
         Observe, ProvePath, Measure, Workload, Collect
<1>4. pc \in Changing /\ pc' \in Changing \cup {"stop"}
  BY <1>3 DEF Changing, Teardown, Succeed, Fail, WaitReady, ObserveBefore, Warmup,
              ObserveAfter, Observe, ProvePath, Measure, Workload, Collect
<1>5. Outcome = "changing"
  BY <1>4, OutcomeByPc
<1>6. Outcome' \in {"changing", "restoring"}
  BY <1>4 DEF Outcome, Changing, Restoring
<1> QED
  BY <1>2, <1>5, <1>6 DEF Contract!ContractNext, Contract!GiveBack

(* The steps that begin the transaction or give it up. *)
LEMMA BeginRefines ==
  ASSUME IInv, IInv', Preflight \/ Snapshot
  PROVE  Contract!ContractNext \/ UNCHANGED <<Held, Outcome>>
<1>1. UNCHANGED <<proc, hostVars, restored>>
  BY DEF Preflight, Snapshot, Forward
<1>2. Held' = Held
  BY <1>1 DEF Held, hostVars
<1>3. pc \in {"preflight", "snapshot"} /\ pc' \in {"snapshot", "setup", "report"}
  BY DEF Preflight, Snapshot, Succeed, Fail
<1>4. Outcome = "idle"
  BY <1>3, OutcomeByPc
<1>5. restored' = FALSE
  BY <1>1, <1>3 DEF IInv, TypeOK, TornDown
<1>6. Outcome' \in {"idle", "changing", "failed"}
  BY <1>3, <1>5 DEF Outcome, Changing, Restoring
<1> QED
  BY <1>2, <1>4, <1>6 DEF Contract!ContractNext, Contract!Begin

(* The steps that acquire, in whole, in part or not at all. *)
LEMMA AcquireRefines ==
  ASSUME IInv, IInv', Setup \/ Start \/ Install
  PROVE  Contract!ContractNext
<1>1. pc \in Changing /\ pc' \in Changing \cup {"stop", "collect_artifacts", "verify_restore"}
  BY DEF Setup, Start, Install, Succeed, Fail, Teardown, Changing
<1>2. Outcome = "changing"
  BY <1>1, OutcomeByPc
<1>3. Outcome' \in {"changing", "restoring"}
  BY <1>1 DEF Outcome, Changing, Restoring
<1>4. Held \subseteq Held'
  <2>1. CASE Setup
    <3>1. UNCHANGED <<proc, rules, remnant>>
      BY <2>1 DEF Setup
    <3>2. (dir = "ours" => dir' = "ours") /\ (cgroup = "ours" => cgroup' = "ours")
      BY <2>1 DEF Setup
    <3> QED
      BY <3>1, <3>2 DEF Held
  <2>2. CASE Start
    <3>1. UNCHANGED hostVars
      BY <2>2 DEF Start
    <3>2. proc = "none"
      BY <2>2 DEF Start, IInv, TypeOK, StartFresh
    <3> QED
      BY <3>1, <3>2 DEF Held, hostVars
  <2>3. CASE Install
    <3>1. UNCHANGED <<proc, dir, cgroup>>
      BY <2>3 DEF Install
    <3>2. ~rules /\ ~remnant
      BY <2>3 DEF Install, IInv, TypeOK, StartFresh
    <3> QED
      BY <3>1, <3>2 DEF Held
  <2> QED
    BY <2>1, <2>2, <2>3
<1>5. Held' \in SUBSET Resource
  BY DEF Held, Resource
<1> QED
  BY <1>2, <1>3, <1>4, <1>5 DEF Contract!ContractNext, Contract!Acquire

(* The steps of the teardown, up to the verdict. *)
LEMMA TeardownRefines ==
  ASSUME IInv, IInv', Stop \/ Signal \/ WaitExit \/ Reap \/ Artifacts \/ Cleanup
  PROVE  Contract!ContractNext
<1>1. pc \in Restoring /\ pc' \in Restoring
  BY DEF Stop, Signal, WaitExit, Reap, Artifacts, Cleanup, EndStop, Succeed, Fail, Restoring
<1>2. Outcome = "restoring" /\ Outcome' = "restoring"
  BY <1>1 DEF Outcome, Changing, Restoring
<1>3. remnant' = remnant /\ (rules' => rules)
  BY DEF Stop, Signal, WaitExit, Reap, Artifacts, Cleanup, UndoRules, hostVars, IInv, TypeOK
<1>4. proc' = "running" => proc = "running"
  BY DEF Stop, Signal, WaitExit, Reap, Artifacts, Cleanup
<1>5. (dir' = "ours" => dir = "ours") /\ (cgroup' = "ours" => cgroup = "ours")
  BY DEF Stop, Signal, WaitExit, Reap, Artifacts, Cleanup, hostVars
<1>6. Held' \in SUBSET Held
  BY <1>3, <1>4, <1>5 DEF Held
<1> QED
  BY <1>2, <1>6 DEF Contract!ContractNext, Contract!Release

(* The verdict. *)
LEMMA VerdictRefines ==
  ASSUME IInv, IInv', VerifyRestore
  PROVE  Contract!ContractNext
<1>1. Held' = Held
  BY DEF VerifyRestore, Held, hostVars
<1>2. Outcome = "restoring"
  BY OutcomeByPc DEF VerifyRestore, Restoring
<1>3. CASE LooksRestored
  <2>1. pc' = "report" /\ restored' = TRUE
    BY <1>3 DEF VerifyRestore, Succeed
  <2>2. Outcome' = "verified"
    BY <2>1 DEF Outcome, Changing, Restoring
  <2>3. Held' \subseteq {"remnant"}
    BY <2>1 DEF IInv, HeldByKind, Held
  <2> QED
    BY <1>1, <1>2, <2>2, <2>3 DEF Contract!ContractNext, Contract!Certify
<1>4. CASE ~LooksRestored
  <2>1. pc' = "report" /\ restored' = restored
    BY <1>4 DEF VerifyRestore, Fail
  <2>2. restored = FALSE
    BY DEF IInv, TypeOK, TornDown, VerifyRestore
  <2>3. Outcome' = "failed"
    BY <2>1, <2>2 DEF Outcome, Changing, Restoring
  <2> QED
    BY <1>1, <1>2, <2>3 DEF Contract!ContractNext, Contract!Admit
<1> QED
  BY <1>3, <1>4

(* The result, and what happens around the transaction. *)
LEMMA AsideRefines ==
  ASSUME IInv, IInv', WriteResult \/ Deliver \/ Environment
  PROVE  Contract!ContractNext \/ UNCHANGED <<Held, Outcome>>
<1>1. CASE WriteResult
  <2>1. UNCHANGED <<proc, hostVars, restored>> /\ pc = "report" /\ pc' = "done"
    BY <1>1 DEF WriteResult
  <2> QED
    BY <2>1 DEF Held, Outcome, hostVars, Changing, Restoring
<1>2. CASE Deliver \/ Environment
  <2>1. UNCHANGED <<pc, restored, rules, remnant>>
    BY <1>2 DEF Deliver, Environment, Cancel, Expire, Exit, AlienComesOrGoes,
                RivalMakesDirectory, RivalRemovesDirectory, OthersCgroup, Aside
  <2>2. Outcome' = Outcome
    BY <2>1 DEF Outcome
  <2>3. /\ proc' = "running" => proc = "running"
        /\ dir' = "ours" => dir = "ours"
        /\ cgroup' = "ours" => cgroup = "ours"
    BY <1>2 DEF Deliver, Environment, Cancel, Expire, Exit, AlienComesOrGoes,
                RivalMakesDirectory, RivalRemovesDirectory, OthersCgroup
  <2>4. Held' \in SUBSET Held
    BY <2>1, <2>3 DEF Held
  <2>5. CASE Outcome \in {"changing", "restoring", "failed"}
    BY <2>2, <2>4, <2>5 DEF Contract!ContractNext, Contract!Release
  <2>6. CASE Outcome \notin {"changing", "restoring", "failed"}
    <3>1. pc \in {"preflight", "snapshot"} \/ restored
      BY <2>6, OutcomeByPc DEF Outcome, IInv, TypeOK, Phase, SubStep, Changing, Restoring
    <3>2. CASE pc \in {"preflight", "snapshot"}
      <4>1. Held = {}
        BY <3>2, OutcomeByPc
      <4> QED
        BY <2>2, <2>4, <4>1
    <3>3. CASE restored
      <4>1. /\ proc # "running" /\ dir # "ours" /\ cgroup # "ours"
            /\ proc' # "running" /\ dir' # "ours" /\ cgroup' # "ours"
        BY <2>3, <3>3 DEF IInv, HeldByKind
      <4>2. Held' = Held
        BY <2>1, <4>1 DEF Held
      <4> QED
        BY <2>2, <4>2
    <3> QED
      BY <3>1, <3>2, <3>3
  <2> QED
    BY <2>5, <2>6
<1> QED
  BY <1>1, <1>2

(* One repetition, with all its phases and failures, implements the        *)
(* contract of RestoreContract: it acquires only before it starts to       *)
(* restore, and is called verified only with an inert host.                *)
THEOREM LifecycleImplementsContract == Spec => ImplementsContract
<1>1. Init => Contract!ContractInit
  <2> SUFFICES ASSUME Init PROVE Held = {} /\ Outcome = "idle"
    BY DEF Contract!ContractInit
  <2>1. Held = {}
    BY DEF Init, Held
  <2>2. pc = "preflight"
    BY DEF Init
  <2>3. Outcome = "idle"
    BY <2>2 DEF Outcome, Changing, Restoring
  <2> QED
    BY <2>1, <2>3
<1>2. IInv /\ IInv' /\ [Next]_vars => [Contract!ContractNext]_(Contract!contractVars)
  <2> SUFFICES ASSUME IInv, IInv', [Next]_vars
               PROVE  Contract!ContractNext \/ UNCHANGED <<Held, Outcome>>
    BY DEF Contract!contractVars
  <2>1. CASE Execute
    BY <2>1, BeginRefines, AcquireRefines, ForwardRefines, TeardownRefines,
       VerdictRefines, AsideRefines DEF Execute
  <2>2. CASE Deliver \/ Environment
    BY <2>2, AsideRefines
  <2>3. CASE UNCHANGED vars
    <3>1. UNCHANGED <<pc, restored, proc, rules, remnant, dir, cgroup>>
      BY <2>3 DEF vars, hostVars
    <3> QED
      BY <3>1 DEF Held, Outcome
  <2> QED
    BY <2>1, <2>2, <2>3 DEF Next
<1> QED
  BY <1>1, <1>2, LifecycleInvariant, PTL DEF Spec, ImplementsContract, Contract!ContractSpec
=============================================================================
