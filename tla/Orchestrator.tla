---------------------------- MODULE Orchestrator ----------------------------
(***************************************************************************)
(* RunDevice of internal/platform/android/orchestrator.go: one matrix run  *)
(* on an Android device that is reached by adb only.  The production       *)
(* service is stopped, a NAT chain that translates the target is           *)
(* installed, the runner is deployed and run, the results are pulled, and  *)
(* a deferred function gives the device back on a context of its own.      *)
(*                                                                         *)
(* Every adb command may fail without having run, or run and be reported   *)
(* as failed because the connection is lost; what it started on the device *)
(* then goes on by itself, beside the rest of the program.                 *)
(***************************************************************************)
EXTENDS Naturals

CONSTANTS
  Configs,         (* the configurations to look at, see Config            *)
  NRules,          (* the DNAT rules of the chain: tcp and udp, root and
                      marked, so 4                                         *)
  MaxLosses        (* bound on adb commands that fail                      *)

(* The commands of a snapshot that have markers: iptables-save and         *)
(* ip6tables-save, and the ip commands for rules, routes and links.        *)
Commands == {"iptables", "ip"}

(* Network state of a subject: what one of the commands shows a marker of, *)
(* and what none does, namely all of the eBPF kinds, the policy rules and  *)
(* nftables rules of tun-auto-redirect, and what has a marker that the     *)
(* device's own state contains as well ("900:" in the rule "1900:").       *)
Residue == Commands \cup {"unmarked"}

(* DeviceConfig: which of the optional parts are given, and which network  *)
(* state the subjects of its matrix make.                                  *)
Config == [service : BOOLEAN, translation : BOOLEAN, keepRemote : BOOLEAN,
           residue : SUBSET Residue]

ASSUME OrchestratorAssumption ==
  /\ Configs \subseteq Config
  /\ NRules \in Nat \ {0} /\ MaxLosses \in Nat

VARIABLES
  config,         (* the DeviceConfig                                      *)
  pc,             (* the next adb command of RunDevice                     *)
  err,            (* returnErr is not nil                                  *)
  cancelled,      (* the signal context of android-run has ended           *)
  expired,        (* the 60 s of restoreContext have passed                *)
  wasRunning,     (* serviceWasRunning                                     *)
  baseline,       (* what VerifySnapshot compares with                     *)
  compared,       (* history: the commands it could compare                *)
  chainCreated, jumpCreated,      (* fields of androidTargetTranslation    *)
  service,        (* device: the production service                        *)
  chain,          (* device: the NAT chain, "other" if another run made it *)
  rules, jump,    (* device: its DNAT rules, and its jump from OUTPUT      *)
  runner,         (* device: the benchmark's processes                     *)
  net,            (* device: what the runner's subjects left of Residue    *)
  script,         (* device: the shell script that ends the processes      *)
  directory,      (* device: the run directory                             *)
  results,        (* the local result directory                            *)
  losses,         (* adb commands that failed so far                       *)
  broken          (* a command or snapshot of the restore failed           *)

progVars == <<config, pc, err, cancelled, expired, wasRunning, baseline, compared,
              chainCreated, jumpCreated>>
natVars == <<chain, rules, jump>>
procVars == <<runner, net, script>>
fileVars == <<directory, results>>
faultVars == <<losses, broken>>
deviceVars == <<service, natVars, procVars, fileVars>>
vars == <<progVars, deviceVars, faultVars>>

HasService == config.service
HasTranslation == config.translation
KeepRemote == config.keepRemote

Unreadable == {"unreadable"}   (* in place of the markers: the command failed *)
NoSnapshot == [c \in Commands |-> Unreadable]
Snapshots == [Commands -> (SUBSET {"translation", "matrix"}) \cup {Unreadable}]

Pc == {"root", "before", "status", "stop", "wait_down", "baseline", "chain", "rule", "jump",
       "mkdir", "deploy", "matrix", "matrix_wait", "pull", "remove", "undo_flush",
       "undo_delete", "kill", "kill_wait", "clean_jump", "clean_flush", "clean_delete",
       "after", "start", "wait_up", "final", "done"}

(* The deferred function runs on restoreContext, Install's own Cleanup on  *)
(* one without end, everything else on the signal context.                 *)
Restoring == pc \in {"kill", "kill_wait", "clean_jump", "clean_flush", "clean_delete",
                     "after", "start", "wait_up", "final"}
Live == CASE Restoring -> ~expired
          [] pc \in {"undo_flush", "undo_delete"} -> TRUE
          [] OTHER -> ~cancelled

Init ==
  /\ config \in Configs
  /\ pc = "root" /\ err = FALSE /\ cancelled = FALSE /\ expired = FALSE
  /\ wasRunning = FALSE /\ baseline = NoSnapshot /\ compared = {}
  /\ chainCreated = FALSE /\ jumpCreated = FALSE
  /\ service \in IF HasService THEN {"up", "down"} ELSE {"down"}
  /\ chain \in {"none", "other"}
  /\ rules = (IF chain = "other" THEN NRules ELSE 0) /\ jump = (chain = "other")
  /\ runner = "none" /\ net = {} /\ script = "off"
  /\ directory = "none" /\ results \in {"none", "old"}
  /\ losses = 0 /\ broken = FALSE

-----------------------------------------------------------------------------
(* How an adb command ends: as it should; refused by the device; failing   *)
(* after it took effect; failing without effect, because of the connection *)
(* or of anything else, or because its context has ended.                  *)
Loss ==
  /\ losses < MaxLosses
  /\ losses' = losses + 1
  /\ broken' = (broken \/ Restoring)

Succeeds(next) == Live /\ pc' = next /\ UNCHANGED <<err, faultVars>>
Refused(next) == Live /\ pc' = next /\ err' = TRUE /\ UNCHANGED faultVars
Late(next) == Live /\ Loss /\ pc' = next /\ err' = TRUE
Lost(next) ==
  /\ IF Live THEN Loss ELSE broken' = (broken \/ Restoring) /\ UNCHANGED losses
  /\ pc' = next /\ err' = TRUE

(* A file of the audit directory that cannot be written. *)
NotWritten(next) == pc' = next /\ err' = TRUE

(* One snapshot: a command that fails is recorded in it as unreadable, and *)
(* is no error; the others are taken all the same.  The commands that fail *)
(* in one snapshot count as one loss.                                      *)
Markers(c) ==
  (IF c \in net THEN {"matrix"} ELSE {})
    \cup (IF c = "iptables" /\ chain # "none" /\ HasTranslation THEN {"translation"} ELSE {})

Snapshot(failed) == [c \in Commands |-> IF c \in failed THEN Unreadable ELSE Markers(c)]

Captures(failed) ==
  \/ Live /\ failed = {} /\ UNCHANGED faultVars
  \/ Live /\ failed # {} /\ Loss
  \/ ~Live /\ failed = Commands /\ broken' = (broken \/ Restoring) /\ UNCHANGED losses

Context == UNCHANGED <<config, cancelled, expired, compared>>
Flags == UNCHANGED <<chainCreated, jumpCreated>>
Prepare == IF HasTranslation THEN "chain" ELSE "mkdir"

-----------------------------------------------------------------------------
VerifyRoot ==
  /\ pc = "root"
  /\ Succeeds("before") \/ Lost("done")
  /\ Context /\ Flags /\ UNCHANGED <<wasRunning, baseline, deviceVars>>

SnapshotBefore ==
  /\ pc = "before"
  /\ \E failed \in SUBSET Commands : Captures(failed) /\ baseline' = Snapshot(failed)
  /\ \/ pc' = (IF HasService THEN "status" ELSE Prepare) /\ UNCHANGED err
     \/ NotWritten("done")
  /\ Context /\ Flags /\ UNCHANGED <<wasRunning, deviceVars>>

(* serviceState: the wanted word in the output means running, even beside  *)
(* an error; exit status 0, or any output with exit status 1, means not    *)
(* running.  adb reports a lost device in just that way.                   *)
Observed(running) ==
  \/ /\ Live /\ UNCHANGED faultVars
     /\ running => service \in {"up", "stopping"}
     /\ ~running => service # "up"
  \/ Live /\ Loss /\ (running => service \in {"up", "stopping"})

(* The status command ended without telling the state. *)
NotObserved ==
  IF Live THEN Loss ELSE broken' = (broken \/ Restoring) /\ UNCHANGED losses

ReadStatus ==
  /\ pc = "status"
  /\ \/ \E running \in BOOLEAN :
          /\ Observed(running)
          /\ wasRunning' = running
          /\ baseline' = IF running THEN NoSnapshot ELSE baseline
          /\ pc' = IF running THEN "stop" ELSE Prepare
          /\ UNCHANGED err
     \/ NotObserved /\ pc' = "done" /\ err' = TRUE /\ UNCHANGED <<wasRunning, baseline>>
  /\ Context /\ Flags /\ UNCHANGED deviceVars

(* From here on the deferred function is registered: an early return goes  *)
(* to "kill".                                                              *)
StopService ==
  /\ pc = "stop"
  /\ \/ Succeeds("wait_down") /\ service' = "stopping"
     \/ Late("kill") /\ service' = "stopping"
     \/ Lost("kill") /\ UNCHANGED service
  /\ Context /\ Flags /\ UNCHANGED <<wasRunning, baseline, natVars, procVars, fileVars>>

(* waitService polls until the state, the deadline or the context's end. *)
WaitService(running, next, onError) ==
  \/ Observed(running) /\ pc' = next /\ UNCHANGED err
  \/ /\ Observed(~running) \/ NotObserved
     /\ pc' = onError /\ err' = TRUE

WaitDown ==
  /\ pc = "wait_down"
  /\ WaitService(FALSE, "baseline", "kill")
  /\ Context /\ Flags /\ UNCHANGED <<wasRunning, baseline, deviceVars>>

SnapshotBaseline ==
  /\ pc = "baseline"
  /\ \E failed \in SUBSET Commands : Captures(failed) /\ baseline' = Snapshot(failed)
  /\ \/ pc' = Prepare /\ UNCHANGED err
     \/ NotWritten("kill")
  /\ Context /\ Flags /\ UNCHANGED <<wasRunning, deviceVars>>

-----------------------------------------------------------------------------
(* The target translation.  Install: -N, the DNAT rules, the jump.  Once   *)
(* the chain is made, an error runs Cleanup at once, and again when the    *)
(* deferred function runs.                                                 *)
Table == UNCHANGED <<wasRunning, baseline, service, procVars, fileVars>> /\ Context

CreateChainAssumes ==   (* mutant: chainCreated is set before the error is looked at *)
  /\ pc = "chain"
  /\ \/ /\ chain = "none" /\ Succeeds("rule")
        /\ chain' = "ours" /\ chainCreated' = TRUE
     \/ chain = "other" /\ Refused("kill") /\ chainCreated' = TRUE /\ UNCHANGED chain
  /\ Table /\ UNCHANGED <<jumpCreated, rules, jump>>

CreateChain ==
  /\ pc = "chain"
  /\ \/ /\ chain = "none" /\ Succeeds("rule")
        /\ chain' = "ours" /\ chainCreated' = TRUE
     \/ chain = "other" /\ Refused("kill") /\ UNCHANGED <<chain, chainCreated>>
     \/ chain = "none" /\ Late("kill") /\ chain' = "ours" /\ UNCHANGED chainCreated
     \/ Lost("kill") /\ UNCHANGED <<chain, chainCreated>>
  /\ Table /\ UNCHANGED <<jumpCreated, rules, jump>>

AppendRuleUntil(n) ==
  /\ pc = "rule"
  /\ \/ Succeeds(IF rules + 1 >= n THEN "jump" ELSE "rule") /\ rules' = rules + 1
     \/ Late("undo_flush") /\ rules' = rules + 1
     \/ Lost("undo_flush") /\ UNCHANGED rules
  /\ Table /\ Flags /\ UNCHANGED <<chain, jump>>

AppendRuleOnceMore == AppendRuleUntil(NRules + 1)   (* mutants: one rule too many, *)
AppendRuleOnceLess == AppendRuleUntil(NRules - 1)   (* one rule too few            *)

AppendRule == AppendRuleUntil(NRules)

InsertJump ==
  /\ pc = "jump"
  /\ \/ Succeeds("mkdir") /\ jump' = TRUE /\ jumpCreated' = TRUE
     \/ Late("undo_flush") /\ jump' = TRUE /\ UNCHANGED jumpCreated
     \/ Lost("undo_flush") /\ UNCHANGED <<jump, jumpCreated>>
  /\ Table /\ UNCHANGED <<chainCreated, chain, rules>>

(* Cleanup: -D while the jump is known, then -F and -X. *)
DeleteJump ==
  /\ pc = "clean_jump"
  /\ \/ jump /\ Succeeds("clean_flush") /\ jump' = FALSE /\ jumpCreated' = FALSE
     \/ ~jump /\ Refused("after") /\ UNCHANGED <<jump, jumpCreated>>
     \/ jump /\ Late("after") /\ jump' = FALSE /\ UNCHANGED jumpCreated
     \/ Lost("after") /\ UNCHANGED <<jump, jumpCreated>>
  /\ Table /\ UNCHANGED <<chainCreated, chain, rules>>

CleanupEnd == IF Restoring THEN "after" ELSE "kill"

FlushChain ==
  /\ pc \in {"undo_flush", "clean_flush"}
  /\ \/ /\ chain # "none" /\ rules' = 0
        /\ Succeeds(IF Restoring THEN "clean_delete" ELSE "undo_delete") \/ Late(CleanupEnd)
     \/ chain = "none" /\ Refused(CleanupEnd) /\ UNCHANGED rules
     \/ Lost(CleanupEnd) /\ UNCHANGED rules
  /\ Table /\ Flags /\ UNCHANGED <<chain, jump>>

DeleteChain ==
  /\ pc \in {"undo_delete", "clean_delete"}
  /\ \/ /\ chain = "ours" /\ ~jump /\ Succeeds(CleanupEnd)
        /\ chain' = "none" /\ chainCreated' = FALSE
     \/ (chain = "none" \/ jump) /\ Refused(CleanupEnd) /\ UNCHANGED <<chain, chainCreated>>
     \/ chain = "ours" /\ ~jump /\ Late(CleanupEnd) /\ chain' = "none" /\ UNCHANGED chainCreated
     \/ Lost(CleanupEnd) /\ UNCHANGED <<chain, chainCreated>>
  /\ Table /\ UNCHANGED <<jumpCreated, rules, jump>>

-----------------------------------------------------------------------------
(* The benchmark on the device. *)
Bench == UNCHANGED <<wasRunning, baseline, service, natVars>> /\ Context /\ Flags

MakeDirectory ==
  /\ pc = "mkdir"
  /\ \/ (Succeeds("deploy") \/ Late("kill")) /\ directory' = "made"
     \/ Lost("kill") /\ UNCHANGED directory
  /\ Bench /\ UNCHANGED <<procVars, results>>

(* Two binaries and the rewritten matrix are pushed and made executable. *)
Deploy ==
  /\ pc = "deploy"
  /\ Succeeds("matrix") \/ Lost("kill")
  /\ Bench /\ UNCHANGED <<procVars, fileVars>>

(* An error of the matrix command is kept, and returned at the end.        *)
LaunchMatrix ==
  /\ pc = "matrix"
  /\ \/ Succeeds("matrix_wait") /\ runner' = "running"
     \/ Lost("pull") /\ UNCHANGED runner
  /\ Bench /\ UNCHANGED <<net, script, fileVars>>

(* The exit status of the runner, or the end of the adb client that waits  *)
(* for it while the runner goes on.                                        *)
MatrixReturns ==
  /\ pc = "matrix_wait"
  /\ \/ runner = "ok" /\ Succeeds("pull")
     \/ runner = "failed" /\ Refused("pull")
     \/ Lost("pull")
  /\ Bench /\ UNCHANGED <<procVars, fileVars>>

(* A local result directory of an earlier run is never written to. *)
Pull ==
  /\ pc = "pull"
  /\ \/ results = "old" /\ pc' = "kill" /\ err' = TRUE /\ UNCHANGED <<results, faultVars>>
     \/ /\ results = "none" /\ directory = "results" /\ results' = "pulled"
        /\ Succeeds(IF KeepRemote THEN "kill" ELSE "remove")
     \/ results = "none" /\ directory # "results" /\ Refused("kill") /\ UNCHANGED results
     \/ results = "none" /\ Lost("kill") /\ results' \in {"none", "partial"}
  /\ Bench /\ UNCHANGED <<procVars, directory>>

RemoveRemote ==
  /\ pc = "remove"
  /\ \/ (Succeeds("kill") \/ Late("kill")) /\ directory' = "removed"
     \/ Lost("kill") /\ UNCHANGED directory
  /\ Bench /\ UNCHANGED <<procVars, results>>

(* "again": a runner that outlives the removal of its directory writes its *)
(* results into a new one.                                                 *)
Removed == directory \in {"removed", "again"}

(* The remote runner: its subjects change the network and give it back; a  *)
(* manager can leave something behind although the matrix succeeds (see    *)
(* VerifiedClean in Netfilter), and more when it fails or is killed.       *)
Device == UNCHANGED <<progVars, faultVars, service, natVars, results>>

RunnerWorks ==
  /\ runner = "running"
  /\ net' \in SUBSET config.residue
  /\ directory' = IF Removed THEN "again" ELSE "results"
  /\ Device /\ UNCHANGED <<runner, script>>

RunnerEnds ==
  /\ \/ runner = "running" /\ directory # "made" /\ runner' = "ok"
     \/ runner = "running" /\ runner' = "failed"
     \/ runner = "ending" /\ runner' = "failed"
  /\ net' \in SUBSET net
  /\ Device /\ UNCHANGED <<script, directory>>

(* find_owned compares /proc/<pid>/exe with the two paths: once the run    *)
(* directory is removed the link of a live process ends in " (deleted)".   *)
Alive == runner \in {"running", "ending"}
Found == Alive /\ ~Removed

(* TERM, up to five seconds of looking again, KILL. *)
ScriptTerminates ==
  /\ script = "on"
  /\ script' = "waiting"
  /\ runner' = IF Found THEN "ending" ELSE runner
  /\ Device /\ UNCHANGED <<net, directory>>

ScriptKills ==
  /\ script = "waiting"
  /\ script' = "clear"
  /\ runner' = IF Found THEN "failed" ELSE runner
  /\ Device /\ UNCHANGED <<net, directory>>

-----------------------------------------------------------------------------
(* The deferred function: each part is tried, whatever became of the one   *)
(* before it.                                                              *)
Give == UNCHANGED <<wasRunning, fileVars, natVars>> /\ Context /\ Flags

AfterKillJumpOnly == IF jumpCreated THEN "clean_jump" ELSE "after"   (* mutant: the flags are confused *)

AfterKill == IF ~chainCreated THEN "after" ELSE IF jumpCreated THEN "clean_jump" ELSE "clean_flush"

CleanupProcesses ==
  /\ pc = "kill"
  /\ \/ Succeeds("kill_wait") /\ script' = "on"
     \/ Late(AfterKill) /\ script' = "on"
     \/ Lost(AfterKill) /\ UNCHANGED script
  /\ Give /\ UNCHANGED <<baseline, service, runner, net>>

ProcessesCleaned ==
  /\ pc = "kill_wait"
  /\ \/ script = "clear" /\ Succeeds(AfterKill)
     \/ Lost(AfterKill)
  /\ Give /\ UNCHANGED <<baseline, service, procVars>>

(* VerifySnapshot: a marker that was absent before and is present now; a   *)
(* command that is unreadable on either side is passed over.               *)
Comparable(seen) == {c \in Commands : Unreadable \notin {baseline[c], seen[c]}}
RemainsInWhole(seen) ==   (* mutant: one unreadable command ends the comparison *)
  Comparable(seen) = Commands /\ \E c \in Commands : ~(seen[c] \subseteq baseline[c])

Remains(seen) == \E c \in Comparable(seen) : ~(seen[c] \subseteq baseline[c])

SnapshotAfterThen(next) ==
  /\ pc = "after"
  /\ \E failed \in SUBSET Commands, written \in BOOLEAN :
       /\ Captures(failed)
       /\ compared' = Comparable(Snapshot(failed))
       /\ err' = (err \/ ~written \/ Remains(Snapshot(failed)))
  /\ pc' = next
  /\ Flags /\ UNCHANGED <<config, cancelled, expired, wasRunning, baseline, service, procVars,
                          fileVars, natVars>>

SnapshotAfterGivesUp ==   (* mutant: an error skips the rest of the restore *)
  SnapshotAfterThen(IF wasRunning /\ ~err THEN "start" ELSE "final")

SnapshotAfter == SnapshotAfterThen(IF wasRunning THEN "start" ELSE "final")

StartService ==
  /\ pc = "start"
  /\ \/ (Succeeds("wait_up") \/ Late("final")) /\ service' = IF service = "up" THEN "up" ELSE "starting"
     \/ Lost("final") /\ UNCHANGED service
  /\ Give /\ UNCHANGED <<baseline, procVars>>

WaitUp ==
  /\ pc = "wait_up"
  /\ WaitService(TRUE, "final", "final")
  /\ Give /\ UNCHANGED <<baseline, service, procVars>>

SnapshotFinal ==
  /\ pc = "final"
  /\ \E failed \in SUBSET Commands : Captures(failed)
  /\ \E written \in BOOLEAN : err' = (err \/ ~written)
  /\ pc' = "done"
  /\ Give /\ UNCHANGED <<baseline, service, procVars>>

(* The service itself follows its commands in its own time. *)
ServiceSettles ==
  /\ service \in {"stopping", "starting"}
  /\ service' = IF service = "stopping" THEN "down" ELSE "up"
  /\ UNCHANGED <<progVars, faultVars, natVars, procVars, fileVars>>

Signal ==
  /\ ~cancelled /\ pc # "done"
  /\ cancelled' = TRUE
  /\ UNCHANGED <<config, pc, err, expired, wasRunning, baseline, compared, chainCreated, jumpCreated,
                 deviceVars, faultVars>>

Expire ==
  /\ Restoring /\ ~expired
  /\ expired' = TRUE
  /\ UNCHANGED <<config, pc, err, cancelled, wasRunning, baseline, compared, chainCreated, jumpCreated,
                 deviceVars, faultVars>>

Program ==
  \/ VerifyRoot \/ SnapshotBefore \/ ReadStatus \/ StopService \/ WaitDown \/ SnapshotBaseline
  \/ CreateChain \/ AppendRule \/ InsertJump
  \/ MakeDirectory \/ Deploy \/ LaunchMatrix \/ MatrixReturns \/ Pull \/ RemoveRemote
  \/ CleanupProcesses \/ ProcessesCleaned \/ DeleteJump \/ FlushChain \/ DeleteChain
  \/ SnapshotAfter \/ StartService \/ WaitUp \/ SnapshotFinal

Script == ScriptTerminates \/ ScriptKills

Next ==
  \/ Program \/ Script \/ RunnerWorks \/ RunnerEnds
  \/ ServiceSettles \/ Signal \/ Expire

(* RunDevice is sequential and its commands return, since adb, the script  *)
(* and the matrix end; the service follows a command it has received.      *)
Fairness == WF_vars(Program) /\ WF_vars(Script) /\ WF_vars(RunnerEnds) /\ WF_vars(ServiceSettles)

Spec == Init /\ [][Next]_vars /\ Fairness

-----------------------------------------------------------------------------
TypeOK ==
  /\ config \in Configs
  /\ pc \in Pc
  /\ {err, cancelled, expired, wasRunning, chainCreated, jumpCreated} \subseteq BOOLEAN
  /\ {jump, broken} \subseteq BOOLEAN /\ net \subseteq Residue /\ compared \subseteq Commands
  /\ baseline \in Snapshots
  /\ service \in {"up", "stopping", "down", "starting"}
  /\ chain \in {"none", "ours", "other"} /\ rules \in 0..NRules
  /\ runner \in {"none", "running", "ending", "ok", "failed"}
  /\ script \in {"off", "on", "waiting", "clear"}
  /\ directory \in {"none", "made", "results", "removed", "again"}
  /\ results \in {"none", "old", "partial", "pulled"}
  /\ losses \in 0..MaxLosses

(* RunDevice returns no error only when the results are on the host, the   *)
(* service that was stopped runs again, and neither a process, nor the     *)
(* translation, nor (unless kept) the run directory is left on the device. *)
(* Network state that a command shows is not left either, if the command   *)
(* could be compared, and it could be unless it failed in one of the two   *)
(* snapshots; of unmarked state nothing is promised.                       *)
SuccessMeansRestored ==
  pc = "done" /\ ~err =>
    /\ results = "pulled"
    /\ wasRunning => service = "up"
    /\ chain # "ours"
    /\ ~Alive
    /\ directory = "removed" \/ KeepRemote
    /\ net \cap compared = {}
    /\ \A c \in Commands \ compared : broken \/ baseline[c] = Unreadable

(* While no error has occurred, the matrix runs with the service stopped   *)
(* and the whole translation in place: no repetition of it reached the     *)
(* wrong target.                                                           *)
RunsTranslated ==
  runner = "running" /\ ~err /\ HasTranslation => chain = "ours" /\ jump /\ rules = NRules

(* Where the restore could execute its commands, a translation of this run *)
(* never stays active, although an interrupted -I is not remembered and    *)
(* the chain can then not be deleted: the rules are flushed.               *)
TranslationIsInert ==
  pc = "done" /\ chain = "ours" /\ jump /\ rules > 0 => broken

(* A chain of the same name that another run made is never touched. *)
OthersChainIsKept == [][chain = "other" => UNCHANGED natVars]_vars

(* RunDevice returns, and a service that was stopped comes back, unless a  *)
(* command of the restore itself is lost.                                  *)
RunDeviceReturns ==
  /\ <>(pc = "done")
  /\ wasRunning /\ service # "up" ~> service = "up" \/ broken

-----------------------------------------------------------------------------
(* The next properties say what the documentation and the tests say, and   *)
(* do not hold.                                                            *)

(* docs/android.md:39: the service is stopped, and waited for. *)
MatrixRunsAlone == runner = "running" /\ ~err => service = "down"

(* orchestrator_test.go:98: the clean-up of the benchmark's processes runs *)
(* before the service is restored.                                         *)
CleanupBeforeService == pc = "start" /\ Alive => broken
=============================================================================
