------------------------------ MODULE Lifecycle ------------------------------
(***************************************************************************)
(* One repetition: executeRepetition of cmd/inbound-bench/main.go runs one *)
(* subject through the transaction of internal/runner/lifecycle.go, and    *)
(* writes a result that is valid or invalid.                               *)
(*                                                                         *)
(* The subject is the raw baseline (internal/subject/raw) or a managed     *)
(* sing-box (internal/subject/singbox).  Around it run the sing-box        *)
(* process with the goroutine that reaps it, the signal that cancels the   *)
(* run, the timer of the cleanup context, another sing-box, and a second   *)
(* runner that was given the same run ID.                                  *)
(*                                                                         *)
(* The commands of the firewall manager are the subject of Netfilter; here *)
(* it either has inverses left to play ("rules") or a change it does not   *)
(* know of ("remnant").                                                    *)
(***************************************************************************)
EXTENDS Naturals

CONSTANTS
  Kinds,      (* the subject kinds, grouped by what their phases look at   *)
  Modes       (* what the workload makes of an unanswered operation        *)

(* filter: redirect and tproxy; tun: tun and tun-auto-redirect; tc and
   cgroup: the two eBPF data planes. *)
Kind == {"raw", "direct", "filter", "tun", "tc", "cgroup"}

(* strict: TCP echo, upload and counted download, where it is an error and
   invalidates the repetition; lossy: UDP echo and PPS, which count it as
   lost, a download without a count, which takes a timeout for its end, and
   standby, which has none; tolerant: short and idle, whose Failed counter is
   a result. *)
Mode == {"strict", "lossy", "tolerant"}

ASSUME LifecycleAssumption == Kinds \subseteq Kind /\ Modes \subseteq Mode

VARIABLES
  kind, mode,       (* the configuration                                   *)
  pc,               (* the phase, or the step of the phase, to run next    *)
  cancelled,        (* the run context: SIGINT or SIGTERM                  *)
  deadline,         (* the 15 s cleanup context has expired                *)
  setupAttempted, startAttempted,   (* locals of Execute                   *)
  trace,            (* Trace.Phases, by name                               *)
  restored,         (* Trace.RestoreVerified                               *)
  failed,           (* executeErr is not nil                               *)
  warm, proof,      (* the warmup evidence and the path proof              *)
  counters,         (* what the workload counted                           *)
  measured,         (* the repetition measure returned: none, or its Valid *)
  served,           (* the subject was alive when the workload drained     *)
  curtailed,        (* history: a signal to the worker ended the workload  *)
  proc,             (* the managed sing-box                                *)
  stopErr,          (* cleanupErr of Managed.Stop                          *)
  rules, remnant,   (* the firewall manager                                *)
  dir,              (* the run directory and who made it                   *)
  cgroup, cgroupOwned,
  alien,            (* a sing-box this run did not start                   *)
  output            (* the result file                                     *)

hostVars == <<rules, remnant, dir, cgroup, cgroupOwned>>
measureVars == <<warm, proof, counters, measured, served, curtailed>>
flagVars == <<setupAttempted, startAttempted>>
vars == <<kind, mode, pc, cancelled, deadline, flagVars, trace, restored, failed,
          measureVars, proc, stopErr, hostVars, alien, output>>

Phase == {"preflight", "snapshot", "setup", "start", "observe_path_before",
          "warmup", "observe_path_after", "prove_path", "measure",
          "stop", "collect_artifacts", "cleanup", "verify_restore"}
SubStep == {"wait_ready", "install", "workload", "drained", "signal", "wait_exit", "reap"}
Verdict == {"none", "valid", "invalid"}

Managed == kind # "raw"
NeedsTraffic == kind \in {"tun", "tc", "cgroup"}   (* hooks that fail without sing-box *)

(* exited(): the reaper goroutine has delivered the exit status. *)
Exited == proc = "exited"

Init ==
  /\ kind \in Kinds /\ mode \in Modes
  /\ pc = "preflight"
  /\ cancelled = FALSE /\ deadline = FALSE
  /\ setupAttempted = FALSE /\ startAttempted = FALSE
  /\ trace = [p \in Phase |-> "none"]
  /\ restored = FALSE /\ failed = FALSE
  /\ warm = "none" /\ proof = "none"
  /\ counters = "clean" /\ measured = "none" /\ served = FALSE /\ curtailed = FALSE
  /\ proc = "none" /\ stopErr = FALSE
  /\ rules = FALSE /\ remnant = FALSE
  /\ dir = "none" /\ cgroup = "none" /\ cgroupOwned = FALSE
  /\ alien = FALSE
  /\ output = "none"

-----------------------------------------------------------------------------
(* runPhase: record the outcome of a phase; Execute then goes on, or its   *)
(* deferred function takes over with whatever was attempted so far.        *)
Record(p, r) == trace' = [trace EXCEPT ![p] = r]

Succeed(p, next) ==
  /\ Record(p, "ok")
  /\ pc' = next
  /\ UNCHANGED failed

TeardownStarted == IF startAttempted THEN "stop" ELSE "none"   (* mutants: a branch *)
TeardownSkipsCleanup == IF startAttempted THEN "stop" ELSE "verify_restore"   (* is missing *)

Teardown == IF startAttempted THEN "stop"
            ELSE IF setupAttempted THEN "collect_artifacts" ELSE "verify_restore"

Fail(p, next) ==
  /\ Record(p, "error")
  /\ failed' = TRUE
  /\ pc' = next

(* Phases of Execute leave the teardown and the result alone, and change   *)
(* the host only where they say so.                                        *)
Forward == UNCHANGED <<kind, mode, cancelled, deadline, restored, stopErr, alien, output>>

Preflight ==
  /\ pc = "preflight"
  /\ \/ /\ Succeed("preflight", "snapshot")
        /\ ~alien
        /\ kind = "cgroup" => cgroup = "none"
        /\ kind \in {"tc", "cgroup"} => ~cancelled
     \/ Fail("preflight", "report")
  /\ Forward /\ UNCHANGED <<flagVars, measureVars, proc, hostVars>>

(* A run directory that exists is refused; the raw snapshot cannot fail. *)
Snapshot ==
  /\ pc = "snapshot"
  /\ \/ /\ Succeed("snapshot", "setup")
        /\ Managed => dir = "none"
        /\ kind = "filter" => ~cancelled
        /\ setupAttempted' = TRUE
     \/ /\ Fail("snapshot", "report")
        /\ Managed
        /\ UNCHANGED setupAttempted
  /\ Forward /\ UNCHANGED <<startAttempted, measureVars, proc, hostVars>>

(* Setup makes the directory, the cgroup, then files: it may fail before,  *)
(* between and after, and Mkdir fails on what exists.                      *)
Setup ==
  /\ pc = "setup"
  /\ \/ /\ Managed
        /\ dir = "none"
        /\ dir' = "ours"
        /\ \/ kind = "cgroup" /\ cgroup = "none" /\ cgroup' = "ours" /\ cgroupOwned' = TRUE
           \/ UNCHANGED <<cgroup, cgroupOwned>>
        /\ \/ /\ Succeed("setup", "start")
              /\ startAttempted' = TRUE
              /\ kind = "cgroup" => cgroupOwned'
           \/ Fail("setup", Teardown) /\ UNCHANGED startAttempted
     \/ /\ Managed
        /\ Fail("setup", Teardown)
        /\ UNCHANGED <<startAttempted, dir, cgroup, cgroupOwned>>
     \/ /\ ~Managed
        /\ Succeed("setup", "start")
        /\ startAttempted' = TRUE
        /\ UNCHANGED <<dir, cgroup, cgroupOwned>>
  /\ Forward /\ UNCHANGED <<setupAttempted, measureVars, proc, rules, remnant>>

(* Start: check the configuration and spawn sing-box. *)
Start ==
  /\ pc = "start"
  /\ \/ Managed /\ ~cancelled /\ proc' = "running" /\ pc' = "wait_ready" /\ UNCHANGED <<trace, failed>>
     \/ Managed /\ Fail("start", Teardown) /\ UNCHANGED proc
     \/ ~Managed /\ Succeed("start", "observe_path_before") /\ UNCHANGED proc
  /\ Forward /\ UNCHANGED <<flagVars, measureVars, hostVars>>

(* Poll until ready, exited, cancelled or timed out.  A listener or TUN    *)
(* interface is only seen while sing-box lives.                            *)
WaitReady ==
  /\ pc = "wait_ready"
  /\ \/ /\ IF kind \in {"direct", "filter", "tun"} THEN proc = "running" ELSE ~Exited
        /\ IF kind = "filter" THEN pc' = "install" /\ UNCHANGED <<trace, failed>>
                              ELSE Succeed("start", "observe_path_before")
     \/ Fail("start", Teardown)
  /\ Forward /\ UNCHANGED <<flagVars, measureVars, proc, hostVars>>

(* Install, with its ambiguous failure (see Netfilter). *)
Install ==
  /\ pc = "install"
  /\ \/ /\ ~cancelled
        /\ rules' = TRUE
        /\ Succeed("start", "observe_path_before")
        /\ UNCHANGED remnant
     \/ /\ rules' \in BOOLEAN /\ remnant' \in BOOLEAN
        /\ cancelled => ~rules' /\ ~remnant'
        /\ Fail("start", Teardown)
  /\ Forward /\ UNCHANGED <<flagVars, measureVars, proc, dir, cgroup, cgroupOwned>>

(* ObservePath: raw looks for any sing-box, a managed subject for its own, *)
(* and all but direct ask something that only answers while it lives.      *)
Observe(p, next) ==
  /\ pc = p
  /\ \/ /\ CASE kind = "raw" -> ~alien
               [] kind = "direct" -> ~Exited
               [] kind = "filter" -> ~Exited /\ ~cancelled
               [] OTHER -> proc = "running" /\ ~cancelled
        /\ Succeed(p, next)
     \/ Fail(p, Teardown)
  /\ Forward /\ UNCHANGED <<flagVars, measureVars, proc, hostVars>>

ObserveBefore == Observe("observe_path_before", "warmup")
ObserveAfter == Observe("observe_path_after", "prove_path")

(* runWarmup: a worker that returns without error may still have counted   *)
(* failures.  Valid evidence has at least one operation, which got through *)
(* while sing-box lived; it may die right after.                           *)
Warmup ==
  /\ pc = "warmup"
  /\ \/ /\ ~cancelled
        /\ warm' \in {"valid", "invalid"}
        /\ warm' = "valid" /\ Managed => proc = "running"
        /\ Succeed("warmup", "observe_path_after")
     \/ Fail("warmup", Teardown) /\ UNCHANGED warm
  /\ Forward /\ UNCHANGED <<flagVars, proof, counters, measured, served, curtailed, proc, hostVars>>

(* The phase succeeds with an invalid proof too; Execute then returns an   *)
(* error of its own.                                                       *)
ProvePath ==
  /\ pc = "prove_path"
  /\ \/ warm = "valid" /\ proof' = "valid" /\ Succeed("prove_path", "measure")
     \/ /\ proof' = "invalid"
        /\ Record("prove_path", "ok") /\ failed' = TRUE /\ pc' = Teardown
     \/ proof' = "invalid" /\ Fail("prove_path", Teardown)
  /\ Forward /\ UNCHANGED <<flagVars, warm, counters, measured, served, curtailed, proc, hostVars>>

-----------------------------------------------------------------------------
(* measure.  The hooks before and after the workload read the host and the *)
(* subject.  A TUN interface or an API that is gone is an error; for the   *)
(* others ProcessID() = 0 skips the subject.                               *)
HookReads == CASE kind = "raw" -> TRUE
               [] NeedsTraffic -> proc = "running" /\ ~cancelled
               [] OTHER -> proc \in {"running", "exited"}

Measure ==
  /\ pc = "measure"
  /\ \/ ~cancelled /\ HookReads /\ pc' = "workload" /\ UNCHANGED <<trace, failed>>
     \/ Fail("measure", Teardown)
  /\ Forward /\ UNCHANGED <<flagVars, measureVars, proc, hostVars>>

(* The worker ran the whole workload, or failed and left no repetition.    *)
(* What is outstanding when sing-box dies shows in the counters of a       *)
(* strict mode only, and not when a signal to the worker ends its loops:   *)
(* no other counter is looked at.                                          *)
Workload ==
  /\ pc = "workload"
  /\ \/ /\ served' = (Managed => proc = "running")
        /\ curtailed' \in BOOLEAN
        /\ counters' \in {"clean", "failed", "corrupt"}
        /\ mode = "strict" /\ ~curtailed' /\ ~served' => counters' # "clean"
        /\ pc' = "drained"
        /\ UNCHANGED <<trace, failed>>
     \/ Fail("measure", Teardown) /\ UNCHANGED <<served, curtailed, counters>>
  /\ Forward /\ UNCHANGED <<flagVars, warm, proof, measured, proc, hostVars>>

InvalidCountersCorrupt == counters = "corrupt"   (* mutant: Failed is never looked at *)

InvalidCounters == counters = "corrupt" \/ (mode # "tolerant" /\ counters = "failed")

(* The hook after the workload, "collect" and the validity of the result:  *)
(* counters alone make it invalid without making the phase fail.           *)
Collect ==
  /\ pc = "drained"
  /\ \/ /\ HookReads
        /\ measured' = IF InvalidCounters THEN "invalid" ELSE "valid"
        /\ Succeed("measure", Teardown)
     \/ measured' \in {"none", "invalid"} /\ Fail("measure", Teardown)
  /\ Forward /\ UNCHANGED <<flagVars, warm, proof, counters, served, curtailed, proc, hostVars>>

-----------------------------------------------------------------------------
(* The deferred function of Execute.                                       *)
Backward == UNCHANGED <<kind, mode, cancelled, deadline, flagVars, measureVars, alien, output>>

EndStop(err) ==
  IF err THEN Fail("stop", "collect_artifacts") ELSE Succeed("stop", "collect_artifacts")

(* Managed.Stop: undo the firewall, return if sing-box is gone already. *)
UndoRules ==
  /\ rules' \in {FALSE, rules}
  /\ deadline => rules' = rules

Stop ==
  /\ pc = "stop"
  /\ UndoRules
  /\ IF proc = "none" \/ Exited
     THEN EndStop(rules') /\ UNCHANGED stopErr
     ELSE pc' = "signal" /\ stopErr' = rules' /\ UNCHANGED <<trace, failed>>
  /\ Backward /\ UNCHANGED <<restored, proc, remnant, dir, cgroup, cgroupOwned>>

(* Signal and Kill fail once Wait has returned, which is some time between *)
(* the death of the process and the delivery of its status.  If that is    *)
(* delivered, Stop returns nil and drops cleanupErr.                       *)
Signal ==
  /\ pc = "signal"
  /\ \/ ~Exited /\ pc' = "wait_exit" /\ UNCHANGED <<trace, failed>>
     \/ proc = "dying" /\ EndStop(TRUE)
     \/ Exited /\ EndStop(FALSE)
  /\ Backward /\ UNCHANGED <<restored, proc, stopErr, hostVars>>

WaitExitGivesUp ==   (* mutant: the 5 s timer returns without Kill *)
  /\ pc = "wait_exit"
  /\ \/ Exited /\ EndStop(stopErr)
     \/ ~Exited /\ EndStop(TRUE)
  /\ Backward /\ UNCHANGED <<restored, proc, stopErr, hostVars>>

WaitExitNoKill ==   (* mutant: it waits again, without Kill *)
  /\ pc = "wait_exit"
  /\ \/ Exited /\ EndStop(stopErr)
     \/ ~Exited /\ pc' = "reap" /\ UNCHANGED <<trace, failed>>
  /\ Backward /\ UNCHANGED <<restored, proc, stopErr, hostVars>>

(* select: exit status, 5 s timer and Kill, cleanup context. *)
WaitExit ==
  /\ pc = "wait_exit"
  /\ \/ Exited /\ EndStop(stopErr) /\ UNCHANGED proc
     \/ ~Exited /\ proc' = "dying" /\ pc' = "reap" /\ UNCHANGED <<trace, failed>>
     \/ proc # "running" /\ EndStop(TRUE) /\ UNCHANGED proc
     \/ deadline /\ EndStop(TRUE) /\ UNCHANGED proc
  /\ Backward /\ UNCHANGED <<restored, stopErr, hostVars>>

Reap ==
  /\ pc = "reap" /\ Exited
  /\ EndStop(stopErr)
  /\ Backward /\ UNCHANGED <<restored, proc, stopErr, hostVars>>

Artifacts ==
  /\ pc = "collect_artifacts"
  /\ \/ Succeed("collect_artifacts", "cleanup")
     \/ Managed /\ Fail("collect_artifacts", "cleanup")
  /\ Backward /\ UNCHANGED <<restored, proc, stopErr, hostVars>>

(* Managed.Cleanup goes on past every error.  It removes the run directory *)
(* whoever made it, and the cgroup only when Setup made it.                *)
Cleanup ==
  /\ pc = "cleanup"
  /\ UndoRules
  /\ dir' \in {"none", dir} /\ (Managed \/ dir' = dir)
  /\ \/ cgroupOwned /\ cgroup' = "none" /\ cgroupOwned' = FALSE
     \/ UNCHANGED <<cgroup, cgroupOwned>>
  /\ \/ ~rules' /\ ~cgroupOwned' /\ (Managed => dir' = "none") /\ Succeed("cleanup", "verify_restore")
     \/ Managed /\ Fail("cleanup", "verify_restore")
  /\ Backward /\ UNCHANGED <<restored, proc, stopErr, remnant>>

LooksRestoredByPath ==   (* mutant: the undo list and the process are not looked at *)
  IF Managed THEN dir = "none" /\ (kind = "cgroup" => cgroup = "none") ELSE ~alien

(* VerifyRestore looks at its own undo list, its own process, and at paths. *)
LooksRestored ==
  IF Managed THEN /\ ~rules
                  /\ proc = "none" \/ Exited
                  /\ dir = "none"
                  /\ kind = "cgroup" => cgroup = "none"
             ELSE ~alien

VerifyRestore ==
  /\ pc = "verify_restore"
  /\ IF LooksRestored
     THEN Succeed("verify_restore", "report") /\ restored' = TRUE
     ELSE Fail("verify_restore", "report") /\ UNCHANGED restored
  /\ Backward /\ UNCHANGED <<proc, stopErr, hostVars>>

WriteResultMeasured ==   (* mutant: the error of Execute does not invalidate the result *)
  /\ pc = "report"
  /\ pc' = "done"
  /\ \/ measured = "valid" /\ output' = "valid" /\ UNCHANGED failed
     \/ measured # "valid" /\ output' = "invalid" /\ UNCHANGED failed
     \/ output' \in {"none", "invalid"} /\ failed' = TRUE
  /\ UNCHANGED <<kind, mode, cancelled, deadline, flagVars, trace, restored,
                 measureVars, proc, stopErr, hostVars, alien>>

(* executeRepetition: the artifacts and the result are written; any error  *)
(* makes the repetition invalid, and a result may not be written at all.   *)
WriteResult ==
  /\ pc = "report"
  /\ pc' = "done"
  /\ \/ measured = "valid" /\ ~failed /\ output' = "valid" /\ UNCHANGED failed
     \/ ~(measured = "valid" /\ ~failed) /\ output' = "invalid" /\ UNCHANGED failed
     \/ output' \in {"none", "invalid"} /\ failed' = TRUE
  /\ UNCHANGED <<kind, mode, cancelled, deadline, flagVars, trace, restored,
                 measureVars, proc, stopErr, hostVars, alien>>

-----------------------------------------------------------------------------
(* Around the transaction.                                                 *)
Aside == UNCHANGED <<kind, mode, pc, flagVars, trace, restored, failed, measureVars,
                     stopErr, rules, remnant, cgroupOwned, output>>

Cancel ==
  /\ ~cancelled /\ cancelled' = TRUE
  /\ Aside /\ UNCHANGED <<deadline, proc, dir, cgroup, alien>>

(* 15 s after the deferred function began. *)
Expire ==
  /\ ~deadline /\ deadline' = TRUE
  /\ pc \in {"stop", "signal", "wait_exit", "reap", "collect_artifacts", "cleanup", "verify_restore"}
  /\ Aside /\ UNCHANGED <<cancelled, proc, dir, cgroup, alien>>

(* sing-box exits, asked or not: Wait returns, then its goroutine sends    *)
(* the status on Done.                                                     *)
Exit ==
  /\ proc = "running" /\ proc' = "dying"
  /\ Aside /\ UNCHANGED <<cancelled, deadline, dir, cgroup, alien>>

Deliver ==
  /\ proc = "dying" /\ proc' = "exited"
  /\ Aside /\ UNCHANGED <<cancelled, deadline, dir, cgroup, alien>>

AlienComesOrGoes ==
  /\ alien' = ~alien
  /\ Aside /\ UNCHANGED <<cancelled, deadline, proc, dir, cgroup>>

(* A second runner with this run ID makes the directory when it finds      *)
(* none, and its Cleanup removes the directory whoever made it.            *)
RivalMakesDirectory ==
  /\ Managed /\ dir = "none" /\ dir' = "other"
  /\ Aside /\ UNCHANGED <<cancelled, deadline, proc, cgroup, alien>>

RivalRemovesDirectory ==
  /\ dir # "none" /\ dir' = "none"
  /\ Aside /\ UNCHANGED <<cancelled, deadline, proc, cgroup, alien>>

(* Someone else's cgroup at the configured path, removed only by them. *)
OthersCgroup ==
  /\ kind = "cgroup"
  /\ \/ cgroup = "none" /\ cgroup' = "other"
     \/ cgroup = "other" /\ cgroup' = "none"
  /\ Aside /\ UNCHANGED <<cancelled, deadline, proc, dir, alien>>

Execute ==
  \/ Preflight \/ Snapshot \/ Setup \/ Start \/ WaitReady \/ Install
  \/ ObserveBefore \/ Warmup \/ ObserveAfter \/ ProvePath
  \/ Measure \/ Workload \/ Collect
  \/ Stop \/ Signal \/ WaitExit \/ Reap
  \/ Artifacts \/ Cleanup \/ VerifyRestore \/ WriteResult

Environment ==
  \/ Cancel \/ Expire \/ Exit \/ AlienComesOrGoes
  \/ RivalMakesDirectory \/ RivalRemovesDirectory \/ OthersCgroup

Next == Execute \/ Deliver \/ Environment

(* The runner is sequential and every call it makes returns or times out;  *)
(* a process that died is reaped.                                          *)
Spec == Init /\ [][Next]_vars /\ WF_vars(Execute) /\ WF_vars(Deliver)

-----------------------------------------------------------------------------
TypeOK ==
  /\ kind \in Kinds /\ mode \in Modes
  /\ pc \in Phase \cup SubStep \cup {"report", "done"}
  /\ cancelled \in BOOLEAN /\ deadline \in BOOLEAN
  /\ setupAttempted \in BOOLEAN /\ startAttempted \in BOOLEAN
  /\ restored \in BOOLEAN /\ failed \in BOOLEAN
  /\ served \in BOOLEAN /\ curtailed \in BOOLEAN
  /\ stopErr \in BOOLEAN /\ rules \in BOOLEAN /\ remnant \in BOOLEAN
  /\ cgroupOwned \in BOOLEAN /\ alien \in BOOLEAN
  /\ trace \in [Phase -> {"none", "ok", "error"}]
  /\ warm \in Verdict /\ proof \in Verdict /\ measured \in Verdict /\ output \in Verdict
  /\ counters \in {"clean", "failed", "corrupt"}
  /\ proc \in {"none", "running", "dying", "exited"}
  /\ dir \in {"none", "ours", "other"}
  /\ cgroup \in {"none", "ours", "other"}

(* Everything this transaction can have left on the host. *)
Held == (IF dir = "ours" THEN {"dir"} ELSE {})
   \cup (IF cgroup = "ours" THEN {"cgroup"} ELSE {})
   \cup (IF proc = "running" THEN {"process"} ELSE {})
   \cup (IF rules THEN {"rules"} ELSE {})
   \cup (IF remnant THEN {"remnant"} ELSE {})

(* A repetition written as valid was proved to be intercepted, passed all  *)
(* phases including the restore, and left nothing on the host but, at      *)
(* most, the inert remnant of an interrupted command.                      *)
ValidIsRestored ==
  output = "valid" =>
    /\ proof = "valid" /\ restored
    /\ \A p \in Phase : trace[p] = "ok"
    /\ Held = {}

(* Every phase that was attempted has its inverse attempted, in particular *)
(* when the phase itself failed: what the comment of Execute promises.     *)
BalancedTrace ==
  pc \in {"report", "done"} =>
    /\ trace["snapshot"] = "ok" => trace["verify_restore"] # "none"
    /\ trace["setup"] # "none" => trace["cleanup"] # "none"
    /\ trace["start"] # "none" => trace["stop"] # "none"

(* sing-box can only outlive the transaction when the cleanup context      *)
(* expired while Stop waited for it, and then the restore is not verified. *)
OrphanOnlyOnDeadline ==
  pc \in {"report", "done"} /\ proc = "running" => deadline /\ ~restored /\ failed

(* A restore is never reported as verified while something this run        *)
(* acquired still acts on the host, even when a teardown phase failed.     *)
RestoredIsInert == restored => Held \subseteq {"remnant"}

(* The subject of a valid repetition was alive when the last operation of  *)
(* the workload completed, where the code can tell: for the kinds whose    *)
(* measuring hooks need it, and for the modes in which an unanswered       *)
(* operation is an error, unless a signal to the worker ended them early.  *)
(* Elsewhere a repetition may be valid although sing-box died in it.       *)
MeasuredSubjectServed ==
  output = "valid" /\ (NeedsTraffic \/ (mode = "strict" /\ ~curtailed)) => served

(* The repetition ends, with a result or an error, whatever fails, dies,   *)
(* hangs or is cancelled.                                                  *)
RepetitionEnds == <>(pc = "done")

-----------------------------------------------------------------------------
(* The refinement mapping to RestoreContract. *)
Changing == {"setup", "start", "wait_ready", "install", "observe_path_before",
             "warmup", "observe_path_after", "prove_path", "measure", "workload", "drained"}
Restoring == {"stop", "signal", "wait_exit", "reap", "collect_artifacts", "cleanup", "verify_restore"}

Outcome ==
  CASE pc \in {"preflight", "snapshot"} -> "idle"
    [] pc \in Changing -> "changing"
    [] pc \in Restoring -> "restoring"
    [] OTHER -> IF restored THEN "verified" ELSE "failed"

Resource == {"dir", "cgroup", "process", "rules", "remnant"}

Contract == INSTANCE RestoreContract WITH
  Inert <- {"remnant"}, held <- Held, outcome <- Outcome

(* The transaction of one repetition implements the restore contract. *)
ImplementsContract == Contract!ContractSpec
=============================================================================
