# TLA+ models of sing-box-inbound-bench

The benchmark runs one workload again and again through different ways of
diverting traffic into sing-box (REDIRECT, TPROXY, TUN, eBPF, a direct inbound)
and against a raw path. What makes its numbers worth anything is not the
arithmetic but the transaction around every repetition: the host must be brought
into a state, proved to be in it, measured, and given back, whatever fails in
between, and the many repetitions of a matrix must stay comparable although the
run can be interrupted and resumed. These modules are about that transaction.

## 1. The system

| part | source | state it keeps | operations | talks to |
|---|---|---|---|---|
| firewall manager | `internal/netfilter/manager.go` | chain names, the `undo` slice with a `done` flag per entry | Snapshot, Install, Cleanup, VerifyRestore (Observe, Prove read only) | `iptables`, `ip` by external commands; the kernel's tables are shared with other runs and the host |
| subject transaction | `internal/runner/lifecycle.go` | the trace of phases, `setupAttempted`, `startAttempted` | Execute: preflight to verify-restore, the teardown deferred | one subject |
| subjects | `internal/subject/singbox`, `internal/subject/raw` | the sing-box process and its exit channel, run directory, firewall manager, cgroup | Preflight, Snapshot, Setup, Start, Prove, Before/AfterMeasure, Stop, Cleanup, VerifyRestore | firewall manager, the process, `/proc`, the sing-box API |
| repetition | `cmd/inbound-bench/main.go` (executeRepetition, measure) | one repetition with its validity | warmup, measure, artifacts, result file | transaction, worker |
| matrix executor | `cmd/inbound-bench/main.go` (runMatrix) | `matrix.json`, `state.json`, result files | plan, skip, run, cooldown, recovery probe, save, summarize | repetition, report |
| report | `internal/report/summary.go` | none | Build, the raw control limits | result files |
| worker | `internal/worker` | a child process with two pipes | ready, start, finished, collect, result | repetition, workloads |
| workloads | `internal/workload/tcp`, `internal/workload/udp` | connections, sequence numbers, counters | client modes and servers | the network |
| Android orchestrator | `internal/platform/android` | which service ran, the baseline snapshots, the translation chain | RunDevice and its deferred restore | `adb`, a whole matrix run on the device |
| matrix generator | `internal/suite`, `internal/protocol` | none | Generate, ApplyDefaults, Validate | matrix executor |
| metrics | `internal/metrics`, `internal/netdev`, `internal/cgroup` | none | reads and subtracts kernel counters | kernel |

`PROJECT.json` lists the same parts with what is modelled of each, and the
hazards at their lines.


### How the parts interact

* `runMatrix` calls `executeRepetition` for each job; `executeRepetition` builds
  a subject and calls `runner.Execute`, which calls the phases of the subject and
  registers the teardown in a deferred function on a context of its own (15 s).
* A managed subject starts sing-box as a child process, whose death another
  goroutine reports on a channel, and calls the firewall manager from `Start`
  (Install), `Stop` and `Cleanup` (both Cleanup) and `VerifyRestore`.
* The firewall manager and the subjects share the kernel, `/proc`, the run
  directory and the cgroup tree with every other run and with the host.
* `measure` starts a worker process and speaks with it over two pipes: "ready",
  "start", "finished", "collect", "result". The worker runs one workload against a
  server that other processes or machines run; the counters decide the validity.
* `generate-matrix` writes the document that `runMatrix` reads; each repetition makes
  of it a request that the worker validates once more.
* `runMatrix` keeps `state.json` beside one result file per job; `report.Build`
  reads both to make `summary.json`, in the same process or in a later one.
* The Android orchestrator stands around all this: it runs a whole matrix on the
  device by `adb` and restores what the matrix cannot restore itself.

### What is hard

* **Partial failure.** Every phase and every external command may fail, before
  or after its effect. What was done must be undone, and a result must not be
  called valid if that did not work.
* **Cancellation and deadlines.** A signal ends the run context at any moment,
  the teardown runs on another one that expires, and a killed command may have
  taken effect.
* **Other actors.** sing-box dies by itself; another run uses the same names; the
  production service of a phone is stopped and started; the runner on the phone
  goes on without its `adb` client.
* **Resume.** A matrix may be interrupted between any two steps and launched
  again; only its files tell the new process what happened.
* **An unreliable network.** UDP replies are lost, late, duplicated or damaged,
  and each of them must end in the right counter. TCP connections stall and break, and
  both ends of an upload decide by themselves when an acknowledgement is due.
* **Two processes.** The controller, the worker, or both may be killed between any two
  tokens of their exchange.

### What makes each part correct

| part | properties |
|---|---|
| firewall manager | never delete what another one made, unless a delete was reported failed after its effect; never forget an inverse; a verified restore means that nothing diverts; the cleanup ends |
| transaction, subjects, repetition | each attempted phase has its inverse attempted; a valid result implies proof, service to the end and restore; sing-box does not survive unnoticed; the repetition ends |
| matrix executor, report | results are final and in the order of the plan; files agree through crashes; nothing runs after a failure that should stop the matrix; the summary counts what the results say, whoever wrote it; a resumed matrix finishes |
| plan | jobs do not share results, each repetition runs once, raw controls bracket the cases of their block |
| UDP workload | no reply is measured twice, every request is counted, proof follows operations, only damage is corruption, arrays are not left, it returns |
| Android orchestrator | no error means a restored device, as far as a snapshot can show; while the matrix runs the translation is in place and the service down; the service comes back |
| TCP workload | no client counts what its server did not do; client and server never wait for each other; a workload without an error has done all it was asked for; where every connection has a share or a duration, a stopped server returns |
| worker | what the controller accepts ended by itself and was sampled before its connections were closed; whoever dies, the other one returns |
| generator, validation | exactly the infeasible options are refused, no worker refuses later what was accepted, and the report compares like with like |

## 2. The modules

| module | models | kind |
|---|---|---|
| `RestoreContract` | what any transactional change of a host promises | abstract specification |
| `Netfilter` | `internal/netfilter/manager.go` | state machine |
| `NetfilterProofs` | theorems about `Netfilter` | proofs |
| `Lifecycle` | `internal/runner/lifecycle.go`, the subjects, `executeRepetition`, `measure` | state machine |
| `LifecycleProofs` | theorems about `Lifecycle` | proofs |
| `Matrix` | `runMatrix`, `summarizeMatrix`, the recovery probe, the selection of `report.Build` | state machine |
| `MatrixProofs` | theorems about `Matrix` | proofs |
| `Suite` | `Generate` of `internal/suite`, the validation of `internal/protocol`, the key of `internal/report` | operators |
| `MatrixPlan` | `buildMatrixState` and the naming of results | operators |
| `MatrixCommands` | `generate-matrix` and the planning of `matrix`, around `Suite` and `MatrixPlan` | composition |
| `PlanProofs` | theorems about `Suite`, `MatrixPlan` and `MatrixCommands` | proofs |
| `Orchestrator` | `RunDevice` of `internal/platform/android` | state machine |
| `OrchestratorProofs` | theorems about `Orchestrator` | proofs |
| `Udp` | `RunDetailed` and `Server.Serve` of `internal/workload/udp` | state machine |
| `UdpProofs` | theorems about `Udp` | proofs |
| `Tcp` | `RunDetailed`, `RunIdle` and `Server.Serve` of `internal/workload/tcp` | state machine |
| `Worker` | `RunProcess` and `Serve` of `internal/worker`, around `Tcp` | composition |
| `WorkerProofs` | theorems about `Tcp` and `Worker` | proofs |
| `Sums` | induction over numbers and finite sets, sums of counters | lemmas |
| `MC...` | instances of these for TLC | model checking |

The modules fit together by their interfaces. `Netfilter` and `Lifecycle` both
implement `RestoreContract`, so that the contract is all a caller needs to know.
`Lifecycle` summarizes the firewall manager by two facts, inverses left to play
(`rules`) and a change the manager does not know of (`remnant`), which are the
two ways `Netfilter` allows a run to leave something. `Matrix` takes from
`Lifecycle` that a valid job has no error (`valid => ~error`, from
`ValidIsRestored`), and takes its plan from `MatrixPlan`. `MatrixCommands` chains
`Suite` and `MatrixPlan`: options, matrix, plan. `Worker` runs `Tcp` between two tokens
of its exchange, with the same server and path, and is what `Lifecycle` sees as the
two steps of Measure, `workload` and `drained`. `Orchestrator` takes from all of them
that the runner on the device may leave network state behind, whatever its exit
status (`net`).

### RestoreContract

A transaction holds resources and has an outcome. It acquires only while it is
changing the host, may always admit failure, and may certify itself only when
everything it still holds is inert. What it holds may disappear at any time once it
has begun: by its own restoring, by itself, or by the delete of somebody who takes it
for his own, even after the verdict.

### Netfilter

State: `kernel` is the set of objects present, each with its creator; `undo[r]`
is the slice of the same name, an entry being its `done` flag (which inverse it
is follows from its index, since the plan is fixed per kind); `cursor[r]` is the
loop variable of `Cleanup`; `stage[r]` is where the caller is; `expired[r]` is the
end of the teardown context. `ambiguous` is history: the objects of which a delete took
effect although it was reported failed. Any error leaves the `done` flag of the entry
false, also on a context that lives on (a SIGINT reaches the whole process group, and
with it `iptables` and `ip`), and the second pass plays that delete again.

| action | code |
|---|---|
| `Snapshot` | `Manager.Snapshot`: names must be free; any error of `-S` counts as absent |
| `InstallStep`, `InstallFails`, `InstallInterrupted` | one `mutate` of `Install`: success appends an inverse, an error aborts |
| `SetupFails`, `Finish` | the caller goes over to its teardown |
| `SkipDone`, `UndoStep`, `UndoFails`, `UndoInterrupted` | one iteration of `Manager.Cleanup` |
| `SecondPass` | `Managed.Cleanup` calls it again after `Managed.Stop` did |
| `VerifyRestore` | all entries done; the kernel is not looked at |
| `Expire`, `Die` | the 15 s pass; SIGKILL of the runner |
| `HostAdds`, `HostRemoves` | everyone else |

What a command does is modelled after the kernel: `-N`, `ip route add` and
`ip rule add` fail on an existing object, rules and jumps need their chain, `-X`
needs an empty, unreferenced chain. A delete names an object and not its
creator: it removes any instance.

### Lifecycle

One repetition. `pc` is the phase to run next, or a step inside one (`wait_ready`
and `install` of Start, `workload` and `drained` of Measure, `signal`,
`wait_exit` and `reap` of Stop). `setupAttempted`, `startAttempted`, `trace`,
`restored` and `failed` are locals of `Execute`; `warm`, `proof`, `measured`,
`counters` and `output` are the evidence and the result. `proc` is sing-box:
"dying" is a process whose `Wait` has not yet delivered its status. The phases
`Preflight` ... `WriteResult` are actions in the order of the code, each with its
error path, `Teardown` choosing the first phase of the deferred function.
Around them: a signal (`Cancel`), the cleanup context (`Expire`), sing-box dying
(`Exit`, `Deliver`), another sing-box (`AlienComesOrGoes`), a second runner of the
same run ID (`Rival...`) and someone else's cgroup (`OthersCgroup`).

The kinds are grouped by what their phases look at: `filter` is REDIRECT and
TPROXY, `tun` both TUN kinds, `tc` and `cgroup` the two eBPF data planes. A mode is
`strict` when an operation without an answer is an error (TCP echo, upload and counted
download), `lossy` when it is a loss, an end or nothing at all (UDP, a download with a
duration, standby), and `tolerant` when the number of failures is itself a result (short
and idle TCP). A subject that dies shows in the counters of the strict modes only, and
not even there when a signal to the worker has ended the workload before (`curtailed`,
which is history).

### Matrix

A result is valid or invalid; that of a raw control may also be "slow", valid but more
than 5 % from the one before it, or "empty", valid without a throughput to compare with.
`InvalidBlocks` are the blocks that `report.Build` leaves out for their controls. On disk: `root`, `result[j]`, `state`, `summary`; in memory: `pc`, `cursor`,
`memory` (the jobs of the state), `attempt`, `runErrors`, and `draft`, the results the
launch has read for its summary. `lost`, `ran`, `outdated`, `stressed` and `faults` are
history. One action for each step of the loop:
`SaveFresh`, `SkipDone` or `RefuseUnreadable` or `BeginJob`, `FinishJob`,
`Cooldown`, `Probe...`, `SaveState`, `StopEarly` or `NextJob`, `SaveFinal`,
`ReadResults`, `Summarize`. `Launch` is the first launch or a resume; `Refuse` is a launch
without resume. The `summarize` command is a process of its own, which may be started at any
time: `CommandOpensState`, `CommandReadsResult` for each result, `CommandWritesSummary`, or
`CommandDies`; `command` is what it has read so far. One that opened `state.json` before a
launch completed it can still write after that launch has ended (`outdated`). `Signal`,
`Crash`, `Damage` and the failing branch of each write are the environment.
A write replaces the file by rename, so that a crash leaves the old or the new one.

### MatrixPlan

`BuildMatrixState(warmups, repetitions, hasControl, order)` is `buildMatrixState`
with the order of a block as an argument: the code sorts by a hash of seed,
block and case, which is some order and the same one at each launch.
`ResultPath` and `JobIndex` are the names the results are stored under.

### Suite

Functions only, in the order of the code: `ApplyPresetDefaults`, `BareTemplates` (the table of
workloads) and `Template` (their requests, durations and rates, which depend on the options),
`PresetWorkloads`, `Override`, `BuildConfig`, `Validate`, `Generate`; then what others
make of a case: `WarmupWorkload`, `MatrixRecoveryRequest`, `ReadRequest` of the worker,
and `WorkloadKey`, by which the report finds the baselines. Numbers are
those of the code, in milliseconds, packets and bytes. An address is its family and
whose it is; names, paths, tokens and user IDs, which `Generate` copies, are left out.
At the end stand what a matrix owes its readers: `Feasible`, `NoWorkerRefuses`, `Comparable`.

### MatrixCommands

`options` is what `generate-matrix` was asked for, `matrix` the document, `plan` the jobs.
`GenerateMatrix` is the command of that name; `PlanMatrix` is `buildMatrixState` as `runMatrix`
calls it, on a matrix that was generated or on one that somebody wrote. What `runMatrix`
then does with the plan is `Matrix`.

### Orchestrator

`pc` is the next `adb` command. Each command ends in one of four ways:
it succeeds, is refused by the device, is reported as failed although it took effect
(`Late`), or fails without effect (`Lost`). `err`, `wasRunning`, `baseline`,
`chainCreated` and `jumpCreated` are variables of the code, the rest is the
device: the service, the NAT chain with its rules and jump, the runner, its
network state, the clean-up script and the run directory. What a command started
on the device goes on beside the program: `RunnerWorks`, `RunnerEnds`, `Script...`,
`ServiceSettles`.

A snapshot consists of commands, each of which is readable or not by itself: those of
`iptables` and those of `ip`. `VerifySnapshot` compares the markers of the benchmark in
each command that was readable both times (`compared`, history). What a subject may leave
is its configuration's `residue`: state that one of the commands shows a marker of, or
state that none does ("unmarked"): everything of the two eBPF kinds, the policy and
nftables rules of `tun-auto-redirect`, and what the markers do not tell from the
device's own state.

### Udp

`wire` is what is on its way, `inbox[f]` the socket buffer of a flow. `Serve` is the
server; `Deliver`, `Lose`, `Duplicate` and `Damage` are the network, which also
overtakes because it delivers in any order. Echo: `EchoDial`, `EchoSend`,
`EchoRead`, `EchoTimeout`, `EchoReadError`, `EchoReturns` for each flow. PPS:
`PPSStart`, `PPSStamp`, `PPSWrite` and `PPSAborts` for the sender, `PPSRead`,
`PPSReadError` and `PPSReceiverReturns` for each receiver, `DeadlinePasses` for the
read deadline they share. `EchoCollects` and `PPSCollects` are the results.
A latency is recorded as the request it was measured for, so that "measured twice"
can be said.

### Tcp

One client goroutine and one server goroutine for each connection. `pc[c]`,
`completed[c]`, `operations[c]`, `failed[c]` are the client's place and counters,
`server[c]` and `served[c]` the server's; `up[c]` and `down[c]` are the frames under way
in the two directions, at most `Window` each, which is where a writer blocks; `link[c]`
is the connection. A frame is its operation, its sequence number and whether it is
intact.

| action | code |
|---|---|
| `Begin`, `Dial`, `DialFails` | the goroutines of `RunDetailed` or `RunIdle`; the bulk modes write their control frame |
| `LoopGoesOn`, `LoopEnds`, `SendRequest`, `AttemptDropped` | the heads of the loops, the write of a request |
| `ReceiveReply`, `ReplyTimesOut`, `ReplyLost` | the read of a reply or block |
| `SendBlock`, `SendDone`, `WriteFails`, `ReceiveAck`, `AckMissing` | the upload, with an acknowledgement after each `AckInterval` blocks |
| `RunReturns`, `CloseIdle`, `Expire`, `Signal`, `Die` | the end of the workload, of its duration, of its context, of its process |
| `Accept`, `ServeEcho`, `ServeControl`, `ServeData`, `ServeDone`, `ServeBlock`, `ServerEnds` | `serveConnection` |
| `StopServer`, `LingeringEnds`, `ServeReturns` | the end of `Serve`, which waits for its connections |
| `Break`, `Damage` | the path under test |

### Worker

`ctl` is where `RunProcess` is and `wrk` where `Serve` is; `stdin` and `stdout` are the
tokens in the pipes, `exit` how the process ended, `verdict` what `RunProcess` returned.
`sampled` says that the hook after the workload saw it over and every idle connection
still held. `Start`, `TakeReady`, `SendStart`, `TakeFinished`, `AfterWorkload`, `SendCollect`
and `TakeResult`, with an error action for each, are the controller; `Prepare`,
`TakeStart`, `Finish`, `TakeCollect` and `NoToken` the worker. `CancelRun`, `ContextKills`,
`ControllerDies` and `WorkerKilled` are everyone else. A process that is gone takes its
connections with it (`Die` of `Tcp`).

## 3. What the runs check

| run | system | what it shows |
|---|---|---|
| `netfilter` | two REDIRECT runs with the same chain names, and the host | `VerifiedInert`, `OnlyOwnRemoved`, `EveryRunEnds`: nobody deletes what another one made unless a delete was ambiguous, a verified run diverts nothing; and `ImplementsContract` |
| `netfilter_leak` | one TPROXY run with interrupted commands | **violated**: `VerifiedClean`, see section 6 |
| `lifecycle` | one repetition of each kind and mode | `ValidIsRestored`, `BalancedTrace`, `OrphanOnlyOnDeadline`, `MeasuredSubjectServed`, `RepetitionEnds`, and `ImplementsContract` |
| `matrix` | a PPS case between two raw controls, any number of launches, the `summarize` command beside them | `ResultsAreFinal`, `StateMatchesResults`, `NothingAfterFailure`, `InPlanOrder`, `SummaryIsTruthful`, `MatrixFinishes` |
| `matrix_unproven` | a PPS case and another one between two raw controls | **violated**: `NextCaseIsProven` |
| `matrix_plan` | all presets, selections at the edges, and every matrix of two cases in every order | `OnlyTheInfeasibleIsRefused`, `BaselinesAreComparable`, `EveryRepetitionRunsOnce` |
| `orchestrator` | all eight configurations of the optional parts, with subjects of every kind of residue | `SuccessMeansRestored`, `RunsTranslated`, `TranslationIsInert`, `OthersChainIsKept`, `RunDeviceReturns` (which includes that the service comes back) |
| `orchestrator_alone` | service and translation | **violated**: `MatrixRunsAlone` |
| `orchestrator_orphan` | service and translation | **violated**: `CleanupBeforeService` |
| `udp` | four echo and three PPS workloads | `RequestsMeasuredOnce`, `EveryRequestIsCounted`, `OperationsProveThePath`, `CorruptionIsDamage`, `RunReturns`; the bounds of the arrays are part of `TypeOK` |
| `udp_surplus` | one echo request for two flows | **violated**: `SendsOnlyRequests` |
| `worker` | controller, worker and TCP server, each mode with one connection and two | `OperationsAreServed`, `NeverBothWait`, `CountsAreComplete`, `AcceptedIsSampled`, `EveryoneReturns` |

Each run of a state machine checks its type invariant, too. Every property of a run
that passes has a mutant in `PROJECT.json`: a change of one mapped definition, such as a
dropped guard or a forgotten step, that makes TLC find it violated.

### Bounds, and why they are enough

* **Netfilter.** Nothing is unbounded: a plan has 3 or 8 steps and there are two
  passes. Two runs are as many as can contend for one name; the plan of REDIRECT is
  short enough for two of them beside the host. The eight-step TPROXY plan is run by
  `netfilter_leak`. Everything safe that is checked here is also proved for any number
  of runs and both plans.
* **Lifecycle.** No bound on anything: all six kinds and all three modes, and the flags are
  finite.
* **Matrix.** `MaxFaults` = 2 crashes, failed writes, damaged results or `summarize`
  commands, of which one runs at a time; signals, relaunches and probe failures are not
  bounded. Two faults let a second one hit the launch that resumes after the first, and a
  command meet a launch that resumes after a crash. A control, a PPS case and a control are
  the shortest plan in which a job precedes a probe and a job follows it, and in which
  each control may be the one that is missing, invalid, slow or empty; the longer plan,
  with a second case, is used by `matrix_unproven`. Both are written out in `MCMatrix`, which
  assumes that `MatrixPlan` makes the same (`BlocksAreBuilt`). `MatrixProofs` is about any plan.
* **MatrixPlan, Suite.** Up to one warmup and two repetitions of two cases let cases run
  out of repetitions in different blocks, which is where brackets and names could go
  wrong. The presets are checked whole, over both address families; the selections take
  values at each limit of the validation, the greatest offered load and one more among them.
  `MaxPlanned` = 8: generated matrices of more cases are not laid out, since every case of a
  preset has the same counts; `MaxShuffled` = 2: those of more than two cases are laid out in
  one order. `PlanProofs` has neither bound. `MaxDuration`, 23 days, is a bound on the options
  themselves: beyond some 580 years the sum of the packet count leaves the code's 64 bits, and
  TLC has 32.
* **Orchestrator.** `NRules` = 4 is the number in the code. `MaxLosses` = 2 lets the
  command and its undoing fail both; the commands that fail within one snapshot are one loss,
  so that any of them can be unreadable in both snapshots; a command fails without a bound
  once its context has ended. The subjects of a configuration make chains, or chains, rules
  and routes, or links and unmarked rules.
* **Udp.** `MaxFaults` = 2, `MaxSequence` = 3. Two faults are a loss and a copy, or a
  damage and a loss; delay and overtaking are not bounded. Three packets for two flows
  leave a remainder, and three for one flow are the fewest among which a copy of the
  first can come after the second and before the third. One request for two flows
  is the empty share.

* **Tcp, Worker.** `MaxFaults` = 1 besides signals and the end of the duration, which
  are not bounded: one fault of the path or one kill, at any place, is what each error path
  is written for. `AckWindow` = 2 with payloads of 1 and 2 gives acknowledgement intervals
  of 2 and 1, three requests leave a last interval that is not full, and over two
  connections a share of 2 and one of 1; one request over two connections leaves one of them
  without a share; `Window` = 2 lets both directions be full. `MaxBlocks` = 3
  bounds a connection without a limit, where it waits for the end of its duration or, without a share, for a
  signal. The
  proofs are about any number of connections, requests and faults, any interval and any
  window.

`CHECK_DEADLOCK FALSE` is said where the program ends: the managers, the
repetition, the plan, `RunDevice` and a workload. `Matrix` has no end, since it
can be launched again, and deadlock is checked there.

### Fairness, and why the code justifies it

* `Netfilter`, `Lifecycle`, `Orchestrator`: the program is one sequential goroutine
  whose external commands return or are killed when their context ends, so that its
  next step is eventually taken (`WF` of the whole program, not of a step: which
  outcome a command has is not fair). A process that died is reaped.
* `Lifecycle` assumes nothing of sing-box, which may never exit by itself; `Stop` kills
  it. It assumes nothing of the deadline either, which may never pass.
* `Matrix`: the runner runs, and the operator launches again a matrix that has stopped.
  Neither a probe nor a job need ever succeed, and signals may come for ever: each
  launch gets past the job it is in.
* `Orchestrator`: moreover the script and the runner on the device end, because the
  script has a loop of five seconds and a matrix is finite, and the service follows
  a command it has received. Not that any `adb` command succeeds.
* `Udp`: goroutines run, deadlines pass, and a workload that has a duration sees its
  end. Nothing is assumed of the network.
* `Worker`: each client goroutine, each server goroutine, the controller and the worker
  process run (`WF` of each of them), and a connection with a duration sees its end. It
  is not assumed that a kill, a signal or a stop ever comes, nor that a connection is
  given up by the path; a read that has no deadline ends only by its peer. So
  `EveryoneReturns` is about the workloads that give every connection a share or a
  duration: one that has neither goes on, and its server with it (section 6).

## 4. What is proved

The theorems hold for every value of the constants; the only assumptions are those named
`...Assumption` in the modules, which say that the constants have their types (and that
the host is not a run, and that intervals and windows are not zero), and `RunIDsDiffer` of `Suite`.
Two of them exclude workloads that no caller makes: `TcpAssumption` an idle workload with
requests, `UdpAssumption` a PPS workload that asks for proof.

**`NetfilterProofs`**, for any set of runs, any names (colliding or not), kinds and
faults. `NetfilterTypeOK`, `NetfilterOneHolder`, `NetfilterPendingIsPresent`,
`NetfilterVerifiedInert`, `NetfilterOnlyOwnRemoved` and
`NetfilterImplementsContract`. An `iptables -D` names an object, not its creator, so ownership is safe only as long
as no object is held twice (`OneHolder`) and each pending inverse is of an object that is
there (`PendingIsPresent`). Both hold of every object but those of which a delete was
reported failed after its effect, and what stands in a chain of that kind: there the second
pass may hit what somebody else has made under the name in between, and all that is left to
say is which names these are (`ambiguous`). The invariant `IInv` adds

* `Contained`: a rule or jump stands beside the chain of the same creator, unless the delete
  of that chain was ambiguous. Adding one needs the chain; the plan of the run that adds
  it put it there, and chains are exclusive, so another holder would need the same chain;
* `Accounted`: what a run holds is anchored in the subject of a pending inverse, or in that
  of the one command that was interrupted, where a rule or jump is anchored in its chain. The
  chain's inverse cannot succeed before nothing refers to the chain, whoever's entry it
  deletes, so this needs no ownership. With `Certified`, an undo slice that is all done
  leaves at most the object of that one command;
* `Fresh`: before the first pass every inverse is pending, so the chain of a rule
  is there when the rule is made;
* `HostPlain`: the host makes no rules in a run's chains.

That the leftover is inert, `VerifiedInert`, has no exception: a rule or jump that remains
would be anchored in a chain whose inverse is done. `OnlyOwnRemoved` and the contract are
action properties that follow from `IInv`, one lemma per action.

**`LifecycleProofs`**, for every set of kinds and modes. `LifecycleTypeOK`,
`LifecycleValidIsRestored`, `LifecycleBalancedTrace`, `LifecycleOrphanOnlyOnDeadline`,
`LifecycleRestoredIsInert`, `LifecycleMeasuredSubjectServed` and
`LifecycleImplementsContract`. The invariant says how far the transaction has come:
`Progressed` (without an error all earlier phases are recorded as successful),
`Attempted` and `StartFresh` (what cannot exist before its phase was attempted), `TornDown`
(each teardown phase that is behind was recorded), `HeldByKind` (what a kind can hold,
and that nothing is held once the restore is verified), `Survivor` (a process alive after
`Stop` outlived it by the deadline) and `Measured` (what a measurement rests on). There is
one lemma for each action that says that it keeps `IInv`, and in it one step per conjunct.

**`MatrixProofs`**, for every plan, every choice of PPS cases and of `fail_fast`, and any
number of faults: `MatrixTypeOK`, `MatrixStateMatchesResults`, `MatrixNothingAfterFailure`,
`MatrixInPlanOrder`, `MatrixSummaryIsTruthful` and `MatrixResultsAreFinal`. State is kept in
three places (the memory of the process, `state.json`, the results), any of which a crash
may leave behind the others. `MemoryMatchesResults` and `BehindIsDone` relate the memory to the
results in front of and behind the cursor, `RanInOrder` where the jobs are that this
launch ran, `ProbeAnswered` what a recovery in the memory rests on, and `StateIsComplete` which files
a launch has written by the time it reports. A summary is written some steps after its results
were read, by the launch or by a command that a whole launch may have passed in the meantime:
`ReadsAreRight` says what the results read are still worth. They are those on disk or missing,
since results are final; and they are all there if the reader opened a `state.json` that was
complete. `BuildIsTruthful` is the argument about the summary itself: with every result read
the exclusion of a block is what its controls say.

**`PlanProofs`**, from the options of `generate-matrix` to the jobs: `CommandsOnlyTheInfeasible`,
`CommandsBaselines` and `CommandsEveryRepetitionOnce`, for any options a flag can have (durations
up to `MaxDuration`), any matrix written by hand, and both bounds at any value. The
invariant of the two commands, `CInv`, only says where a matrix and a plan come from; the weight is on
theorems about the algorithms.

* The plan (`PlanRunsEachRepetitionOnce`): for any finite set of
  cases, any counts of warmups and repetitions, any order of the cases in each block, and with or
  without raw controls, the plan that `buildMatrixState` makes satisfies `EachRepetitionOnce`.
  The argument goes by `Placing`: what `FlattenSeq` makes of its pieces holds each piece at an
  offset, the offsets are in the order of the pieces, and there is nothing else in it. A block is
  such a concatenation of its cases (`CasesOfBlock`) between two controls (`ShapeOfBlock`), the
  plan one of its blocks (`JobsInBlocks`); there are enough blocks for the case with the most
  repetitions (`EnoughBlocks`); and two jobs that differ have different names (`NamesDiffer`,
  `PathsDiffer`).
* What is refused (`GeneratedWhenFeasible`): the rows of the table of workloads are examined one
  by one (`TemplateRows`), the options fill in the rest (`TemplateFields`), a case takes its fields
  from both (`CaseFields`), and so each condition of `Validate` holds or is about the pace
  (`CaseValid`). `PacketsForFlows` is the arithmetic of the pace: the code rounds the packets of
  the whole seconds and of the rest separately, and still no feasible workload starves.
* What is accepted (`NoWorkerRefusesGenerated`, `GeneratedAreComparable`): the warmup and the probe are
  valid requests with a request for each connection and flow (`WarmupIsServed`); the key of the
  report tells the row of the table (`KeyTellsRow`), although `--requests` may make the requests
  of two rows equal.

That no two run IDs are equal is needed for the last two, and the provers know nothing of strings that
are put together from others. It is the assumption `RunIDsDiffer` of `Suite`, about constants
only and complete: TLC evaluates it over all subjects and workloads.

**`OrchestratorProofs`**, for any number of rules and lost commands: `OrchestratorTypeOK`,
`OrchestratorRunsTranslated`, `OrchestratorTranslationIsInert`,
`OrchestratorSuccessMeansRestored` and `OrchestratorOthersChainIsKept`. The host knows of the
device only what its commands told it. `ChainOwner` relates `chainCreated` and `jumpCreated` to
the device; `Installed` and `TakenBack` say how much of the translation stands at each step in
either direction, `RunnerPlaced`, `Pulled` and `ServiceFollows` the same of runner, results and
service. `Compared` says that the baseline is older than the matrix, without which the
comparison of the two snapshots would show nothing, and so, command by command, that what
could be read both times shows that nothing marked is left.

**`UdpProofs`**, for any number of flows, requests and faults: `UdpTypeOK`,
`UdpRequestsMeasuredOnce`, `UdpEveryRequestIsCounted`, `UdpOperationsProveThePath`,
`UdpCorruptionIsDamage` and `UdpScheduleFits`. `WireTraced` and
`InboxTraced` follow a packet: whatever is under way belongs to its flow, has a time if it is
part of a PPS workload, and is intact unless the network damaged one. `MeasuredIsBehind` is why
no copy is measured again. `Scheduled` is round-robin arithmetic: after k packets flow f has
been dealt exactly the share that `perWorkerRequests` gave it of k, so that the last one
fills its array.
On top of it stands the account of the counters, `AInv`. `EchoPlaced` and `PPSPlaced` say
where a flow is with its requests, `PacketsAreSent` that nothing is under way that was not
sent, `OperationsAdded` that the operations are the sum of what the flows have measured. `EchoBalance` finds
each request that an echo has sent among the operations, the losses, the reordered, the damaged
and those still awaited; `PPSBalance` says that the losses of a PPS workload are counted once,
at its end, when the shares of the flows add up to the requests (`SumOfShares`).

**`WorkerProofs`** is first about `Tcp`, for any number of connections and requests, any payload, acknowledgement
window and buffer: `TcpOperationsAreServed`, `TcpNeverBothWait` and `TcpCountsAreComplete` (and
`TcpTypeOK`). The
invariant is a ledger of each connection, which balances the counters of both ends against the
frames under way: with an echo there is one frame exactly while the client waits
(`OneUnderWay`); with an upload, while the connection is open, the client's count is the
server's plus the blocks under way, and an acknowledgement is under way exactly when the
client waits for it and all its blocks have arrived (`UploadLedger`). That the two sides,
which compute `uploadAckInterval` separately, agree on the acknowledged frames is arithmetic
of remainders (`NextRemainder`, `NoMultipleBetween`, `LastMultiple`). The ledger is stated over
the values of one connection, so that each step is a lemma about values. `Accounts` is the other
half: as long as nothing was cut short, what a client has completed is what it counts as done or
failed, and if it has a share it ends with exactly that. So a workload that returns
has accounted for the sum of the shares, which is what it was asked for, and for more only where
a connection has no share and no limit (`CountsFromAccounts`).

Then it is about the composition: `WorkerTypes`, `WorkerOperationsAreServed`,
`WorkerNeverBothWait`, `WorkerCountsAreComplete` and `WorkerAcceptedIsSampled`. `WorkerLedgers` and
`WorkerAccounts` carry the ledgers and accounts through every step of the two processes, kills included. `Life` and `Pipes` tell
from the place of either process and the tokens between them how far the workload is;
`Frozen` says that a workload that has returned keeps its clients as they are, which is why
what the sample was taken of is still there when the result arrives (`SampledInTime`).

**`Sums`** has what the others need of induction. The library states its principles for a
predicate parameter, which the provers here cannot instantiate; stated for a set instead (a set of
numbers that has 0 and with each number the next one has all, `AllNaturals`; a family of subsets that is
closed under adding one element has every finite set, `AllSubsets`) they can be used: the
property becomes the set of the values that have it. `FoldFunctionOnSet` is the value of a recursive
function that is chosen: that there is one, and one only, is proved first, then that a sum is that
of the rest and one more element, that a sum over one counter that grew grows by as much,
and that the shares of `perWorkerRequests` add up (`SumOfShares`).

TLC checks the properties on the instances above, and checked the conjuncts of each inductive
invariant before they were proved. Some theorems state what no run checks any more because the
proof covers it for every instance: `NetfilterOneHolder`, `NetfilterPendingIsPresent`,
`LifecycleRestoredIsInert` and `UdpScheduleFits`.

## 5. What is only model-checked, and what is not modelled

Only model-checked:

* liveness (`EveryRunEnds`, `RepetitionEnds`, `MatrixFinishes`, `RunDeviceReturns`,
  `RunReturns`, `EveryoneReturns`), which is outside the prover's reach;
* `RunIDsDiffer`, the one fact about strings that a proof takes as an assumption, over all
  the values it is about (section 4).

Every safety and action property of the runs that pass is also proved.

Left out of the models that exist:

* `Netfilter`: the counters read by Observe and Prove (they change nothing); that an
  administrator adds rules to a chain named `SBI_..._<hash>`, or deletes another one's
  objects.
* `Lifecycle`: the values of metrics, observations and proofs, which are valid or
  invalid. The worker's exchange is `Worker`.
* `Matrix`: the comparison of a stored configuration with the new one, so the plan does
  not change between launches; a second runner of the same matrix at the same time; a
  job's effects on the host (those are `Lifecycle`).
* `Orchestrator`: the validation of the configuration, and `Plan` of `adb.go`, which nothing
  calls. The two `iptables` tools of a snapshot are one command of the model, and so are the
  queries of `ip`.
* `Udp`: time, the encoding of packets, and the endpoints that are compared as path
  evidence. Rates are small in the run, since TLC's integers have 32 bits.
* `Tcp`: time and latencies, the encoding of a frame, path evidence.
* `Worker`: the workload `standby`, which is a timer; UDP between the tokens, since nothing
  of the exchange depends on the protocol except for the idle connections.
* `Suite`: names, paths, tokens and user IDs, which are copied; the syntax that `Validate`
  checks. A plan of two blocks with warmups is too large for TLC beside the faults of `Matrix`.

Components without a model are listed in `PROJECT.json` with the reason: pure reading of
counters (`metrics`, `netdev`, `cgroup`, diagnostics), builders of documents, flags and data.

## 6. Findings

Runs that TLC finds violated state what a document, a comment or a test says:

1. `VerifiedClean` (`manager.go:228`). A command that took effect and then failed or was
   killed has no inverse recorded. `VerifyRestore` looks at the undo slice only and
   succeeds; an empty chain, a route or a policy rule stays. `VerifiedInert` shows that it
   is never more than that.
2. `NextCaseIsProven` (`main.go:401`). A resume skips a PPS job that has a result without
   looking at its probe, and runs the next case on a network whose recovery was not
   proved.
3. `MatrixRunsAlone` (`orchestrator.go:472`). A status command that fails with output and
   exit status 1, as a lost `adb` connection does, counts as "not running".
4. `CleanupBeforeService` (`orchestrator.go:390`). After the run directory was removed,
   `/proc/<pid>/exe` of a live runner no longer matches and the service is started
   beside it.
5. `SendsOnlyRequests` (`udp.go:194`). A flow whose share of the requests is 0 reads it as
   no limit. `tcp.go:508` has the same arithmetic: `--requests 10` with the 32 connections
   of `tcp-short-32` is enough.

Other differences between text and code, met while modelling, that have no run of their
own:

* `lifecycle.go:28`: a failing preflight or snapshot returns before the deferred teardown
  is registered, so neither Cleanup nor VerifyRestore is run; `README.md:624` describes a
  transaction that always ends with the restore.
* `main.go:389`: a resume starts with a fresh `state.json`, which erases the recovery
  evidence of the jobs it then skips (`README.md:125`).
* `manager.go:273`: a delete that took effect but is reported failed keeps its entry
  pending, and `subject.go:811` plays it again. If another run with the same names, or the
  host, has made the object anew in between, that is deleted. `OnlyOwnRemoved` excepts these
  names, and no others.
* `main.go:691`: a repetition stays valid although sing-box died during the workload, where
  the workload cannot tell: UDP counts the unanswered requests as lost (`udp.go:216`,
  `udp.go:371`), which `invalidWorkloadCounters` (`main.go:768`) does not look at, a download
  with a duration takes the timeout for its end (`tcp.go:656`), standby (`worker.go:167`)
  has no operations, the short and idle modes tolerate failures, and a signalled worker stops
  counting. The hooks skip a process that is gone (`subject.go:58`). `MeasuredSubjectServed`
  says what remains: the kinds whose hooks need sing-box, and the strict modes (compare
  `README.md:475` and `README.md:518`).
* `main.go:582`: `summarize` reads first and replaces `summary.json` later, without a lock. One
  that was started during a launch can replace the complete summary of that launch with one
  of fewer jobs, after the launch has reported success.
* `main.go:441`: a failing cleanup does not stop the matrix when `fail_fast` is off
  (`README.md:519`).
* `subject.go:826`: Cleanup removes the run directory whoever made it: Snapshot and Setup
  leave a gap in which another runner can (`README.md:507`).
* `orchestrator.go:499`: the comparison of snapshots looks for the benchmark's own markers
  and skips a command that could not be run in either; `README.md:142` says that any difference
  of the network fails the task. There are no markers (`orchestrator.go:520`) for what the eBPF
  kinds attach nor for the policy and nftables rules of `tun-auto-redirect`, at which
  `VerifyRestore` (`subject.go:840`) does not look either: a killed sing-box may leave them
  although RunDevice returns no error.
* `udp.go:213`: in the echo workload one late or repeated reply shifts all replies after
  it by one, each of which counts as reordered. `summary.go:196` leaves that counter out of
  the success rate, which can then read 100 % for a flow with one success
  (`README.md:475`). While proof is asked for a late reply is counted as corrupt, which
  makes the repetition invalid.
* `tcp.go:657`: a download that is limited by its duration takes any timeout for its end, a
  stall in the middle, too, and reports success (`README.md:69` says that transport failures
  are part of the result). An echo is the other way round: the deadline of its last request is
  the end of the duration, so that this request times out and the workload fails.
* `tcp.go:377`: an idle connection that the path drops while it is held still counts as an
  operation: nobody reads from it.
* `tcp.go:508`, `tcp.go:728`: as in finding 5, a share of 0 is no limit. With the smoke
  preset, `tcp-short-128` has 64 requests for 128 connections. Such a connection has no duration
  either: it goes on until an error or a signal, a download also until a timeout, after which the
  workload reports success with more operations than requests (`CountsAreComplete`).
* `main.go:869`: the worker's own signal context ends an echo or bulk workload early without
  an error; only the controller's context, if it got the same signal, makes the repetition
  invalid (`docs/quick-start.md:54` speaks of a fixed operation count).

## 7. Plan

The order followed what matters most: first that the host is given back (`Netfilter`,
`Lifecycle`), then that the series is sound (`Matrix`, `MatrixPlan`, `Suite`), then what stands
around it (`Orchestrator`) and inside it (`Udp`, `Tcp`, `Worker`); the proofs in the same order.
Left:

1. **Compositions**: `Matrix` over `Netfilter`, for the job that follows a crash; two runners
   of one matrix; `Lifecycle` with `Worker` in place of its two steps of Measure; `Udp`
   between the tokens of `Worker`.
2. **Diagnostics**: the rules by which two eBPF snapshots invalidate a repetition.
3. **`runBenchmark`** as an instance of `Matrix` without resume and probe.

## 8. Running it

    tlc -config MCMatrix.cfg MCMatrix      # any run; PROJECT.json names module and cfg
    tlapm NetfilterProofs.tla              # the proofs; likewise the other ...Proofs modules

Each property of a passing run has a mutant in `PROJECT.json`: an operator that changes one
definition the way a plausible bug would, and which TLC finds with that property. The
operators are marked "mutant" where they stand, just before the definition they change;
nothing else uses them.
