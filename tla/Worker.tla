------------------------------- MODULE Worker -------------------------------
(***************************************************************************)
(* The controller and its worker process: RunProcess of                    *)
(* internal/worker/process.go, with the hooks of measure, and Serve of     *)
(* internal/worker/worker.go around the TCP workload of module Tcp.        *)
(*                                                                         *)
(* They speak over two pipes: "ready", "start", "finished", "collect",     *)
(* "result".  The controller's context kills the worker; the worker has a  *)
(* signal context of its own (ctx of Tcp), which only ends its workload.   *)
(***************************************************************************)
EXTENDS Tcp

VARIABLES
  ctl,      (* where RunProcess is                                         *)
  runCtx,   (* the controller's context: "live" or "done"                  *)
  wrk,      (* where Serve is                                              *)
  exit,     (* how the worker process has ended                            *)
  stdin,    (* tokens under way to the worker                              *)
  stdout,   (* messages under way to the controller                        *)
  hookErr,  (* the AfterWorkload hook has failed                           *)
  sampled,  (* it saw the workload over and its connections still held     *)
  verdict   (* what RunProcess has returned                                *)

pipeVars == <<stdin, stdout>>
shakeVars == <<ctl, runCtx, wrk, exit, pipeVars, hookErr, sampled, verdict>>
allVars == <<vars, shakeVars>>

WorkerInit ==
  /\ Init
  /\ ctl = "start" /\ runCtx = "live"
  /\ wrk = "none" /\ exit = "none"
  /\ stdin = <<>> /\ stdout = <<>>
  /\ hookErr = FALSE /\ sampled = FALSE
  /\ verdict = "none"

Message(kind, err) == [kind |-> kind, error |-> err]
Running == wrk # "none" /\ exit = "none"

(* The controller has closed its end of the worker's standard input. *)
StdinClosed == ctl \in {"collected", "unready", "returned", "dead"}
ReaderGone == ctl \in {"returned", "dead"}

-----------------------------------------------------------------------------
(* RunProcess.                                                             *)

(* An error path kills the worker and waits for it. *)
KillWorker ==
  IF exit = "none" THEN exit' = "killed" /\ wrk' = "exited" /\ Die
                   ELSE UNCHANGED <<exit, wrk, vars>>

Abort ==
  /\ KillWorker
  /\ ctl' = "returned" /\ verdict' = "error"

Start ==
  /\ ctl = "start"
  /\ \/ /\ ctl' = "awaitReady" /\ wrk' = "prepare"
        /\ runCtx = "live"
        /\ UNCHANGED <<vars, verdict>>
     \/ /\ Excused(runCtx = "done")
        /\ ctl' = "returned" /\ verdict' = "error"
        /\ UNCHANGED <<wrk, config, ctx, run, loopVars, expired, wireVars, peerVars>>
  /\ UNCHANGED <<runCtx, exit, pipeVars, hookErr, sampled>>

Decode(kind) == stdout # <<>> /\ Head(stdout).kind = kind /\ stdout' = Tail(stdout)
EndOfOutput == stdout = <<>> /\ exit # "none"

(* The BeforeStart hook samples; then the start token is written. *)
TakeReady ==
  /\ ctl = "awaitReady" /\ Decode("ready")
  /\ ctl' = "before"
  /\ UNCHANGED <<vars, runCtx, wrk, exit, stdin, hookErr, sampled, verdict>>

(* No readiness: close standard input, wait without killing. *)
NotReady ==
  /\ ctl = "awaitReady" /\ EndOfOutput
  /\ ctl' = "returned" /\ verdict' = "error"
  /\ UNCHANGED <<vars, runCtx, wrk, exit, pipeVars, hookErr, sampled>>

SendStart ==
  /\ ctl = "before" /\ exit = "none"
  /\ ctl' = "awaitFinished" /\ stdin' = Append(stdin, "start")
  /\ UNCHANGED <<vars, runCtx, wrk, exit, stdout, hookErr, sampled, verdict>>

(* The hook fails, or the token cannot be written. *)
StartFails ==
  /\ ctl = "before"
  /\ \/ exit # "none" \/ runCtx = "done"
     \/ faults < MaxFaults
  /\ Abort
  /\ UNCHANGED <<runCtx, pipeVars, hookErr, sampled>>

TakeFinished ==
  /\ ctl = "awaitFinished" /\ Decode("finished")
  /\ ctl' = "sampling"
  /\ UNCHANGED <<vars, runCtx, wrk, exit, stdin, hookErr, sampled, verdict>>

NotFinished ==
  /\ ctl = "awaitFinished" /\ EndOfOutput
  /\ Abort
  /\ UNCHANGED <<runCtx, pipeVars, hookErr, sampled>>

(* The connections that count as operations are still held by the worker. *)
Held ==
  /\ run = "returned"
  /\ config.mode = "idle" =>
       \A c \in Connections : operations[c] = 1 => link[c] \in {"open", "broken"}

(* The AfterWorkload hook samples, and its error is kept for the end. *)
AfterWorkload ==
  /\ ctl = "sampling"
  /\ \/ UNCHANGED <<hookErr, faults>>
     \/ hookErr' = TRUE /\ Excused(runCtx = "done")
  /\ sampled' = Held
  /\ ctl' = "sampled"
  /\ UNCHANGED <<config, ctx, run, loopVars, expired, wireVars, peerVars>>
  /\ UNCHANGED <<runCtx, wrk, exit, pipeVars, verdict>>

SendCollect ==
  /\ ctl = "sampled" /\ exit = "none"
  /\ ctl' = "collected" /\ stdin' = Append(stdin, "collect")
  /\ UNCHANGED <<vars, runCtx, wrk, exit, stdout, hookErr, sampled, verdict>>

CollectFails ==
  /\ ctl = "sampled" /\ exit # "none"
  /\ Abort
  /\ UNCHANGED <<runCtx, pipeVars, hookErr, sampled>>

(* Decode the result, or find the end of the output; then Wait. *)
TakeResult ==
  /\ ctl = "collected" /\ exit # "none"
  /\ stdout' = <<>>
  /\ verdict' = IF /\ stdout # <<>> /\ Head(stdout).kind = "result" /\ ~Head(stdout).error
                   /\ ~hookErr /\ exit = "zero"
                THEN "ok" ELSE "error"
  /\ ctl' = "returned"
  /\ UNCHANGED <<vars, runCtx, wrk, exit, stdin, hookErr, sampled>>

(* The context of the run ends; exec.CommandContext then kills the worker. *)
CancelRun ==
  /\ runCtx = "live" /\ runCtx' = "done"
  /\ UNCHANGED <<vars, ctl, wrk, exit, pipeVars, hookErr, sampled, verdict>>

ContextKills ==
  /\ runCtx = "done" /\ Running /\ ctl # "dead"
  /\ KillWorker
  /\ UNCHANGED <<ctl, runCtx, pipeVars, hookErr, sampled, verdict>>

(* SIGKILL of the controller: nobody kills the worker any more. *)
ControllerDies ==
  /\ ctl \notin {"returned", "dead"} /\ Fault
  /\ ctl' = "dead"
  /\ UNCHANGED <<config, ctx, run, loopVars, expired, wireVars, peerVars>>
  /\ UNCHANGED <<runCtx, wrk, exit, pipeVars, hookErr, sampled, verdict>>

(* Somebody else kills the worker. *)
WorkerKilled ==
  /\ Running /\ faults < MaxFaults
  /\ KillWorker
  /\ UNCHANGED <<ctl, runCtx, pipeVars, hookErr, sampled, verdict>>

-----------------------------------------------------------------------------
(* Serve.  Every error ends the process, and with it its connections.      *)
ExitError ==
  /\ wrk' = "exited" /\ exit' = "error"
  /\ Die

(* The cgroup is joined and the UID switched before readiness is reported. *)
Prepare ==
  /\ wrk = "prepare"
  /\ \/ /\ wrk' = "awaitStart"
        /\ stdout' = Append(stdout, Message("ready", FALSE))
        /\ UNCHANGED <<exit, vars>>
     \/ /\ ReaderGone \/ faults < MaxFaults
        /\ ExitError /\ UNCHANGED stdout
  /\ UNCHANGED <<ctl, runCtx, stdin, hookErr, sampled, verdict>>

Token(t) == stdin # <<>> /\ Head(stdin) = t /\ stdin' = Tail(stdin)

TakeStart ==
  /\ wrk = "awaitStart" /\ Token("start")
  /\ wrk' = "workload"
  /\ Begin
  /\ UNCHANGED <<ctl, runCtx, exit, stdout, hookErr, sampled, verdict>>

(* Mutant: the idle connections are closed with the workload. *)
FinishCloses ==
  /\ wrk = "workload" /\ run = "returned"
  /\ wrk' = "awaitCollect"
  /\ stdout' = Append(stdout, Message("finished", FALSE))
  /\ IF \E c \in Connections : pc[c] \in Dialled THEN CloseIdle ELSE UNCHANGED vars
  /\ UNCHANGED <<ctl, runCtx, exit, stdin, hookErr, sampled, verdict>>

Finish ==
  /\ wrk = "workload" /\ run = "returned"
  /\ \/ /\ wrk' = "awaitCollect"
        /\ stdout' = Append(stdout, Message("finished", FALSE))
        /\ UNCHANGED <<exit, vars>>
     \/ ReaderGone /\ ExitError /\ UNCHANGED stdout
  /\ UNCHANGED <<ctl, runCtx, stdin, hookErr, sampled, verdict>>

(* The connections are closed only now, and the result is written.         *)
TakeCollect ==
  /\ wrk = "awaitCollect" /\ Token("collect")
  /\ IF \E c \in Connections : pc[c] \in Dialled THEN CloseIdle ELSE UNCHANGED vars
  /\ \/ stdout' = Append(stdout, Message("result", ~Succeeded))
     \/ faults < MaxFaults /\ stdout' = Append(stdout, Message("result", TRUE))
  /\ wrk' = "exited" /\ exit' = "zero"
  /\ UNCHANGED <<ctl, runCtx, hookErr, sampled, verdict>>

(* Mutant: the worker waits for "collect" without looking for its end. *)
NoTokenOnce ==
  /\ wrk = "awaitStart"
  /\ stdin = <<>> /\ StdinClosed
  /\ ExitError
  /\ UNCHANGED <<ctl, runCtx, pipeVars, hookErr, sampled, verdict>>

(* The token cannot be read: the controller has closed its end. *)
NoToken ==
  /\ wrk \in {"awaitStart", "awaitCollect"}
  /\ stdin = <<>> /\ StdinClosed
  /\ ExitError
  /\ UNCHANGED <<ctl, runCtx, pipeVars, hookErr, sampled, verdict>>

-----------------------------------------------------------------------------
Controller ==
  \/ Start \/ TakeReady \/ NotReady \/ SendStart \/ StartFails \/ TakeFinished \/ NotFinished
  \/ AfterWorkload \/ SendCollect \/ CollectFails \/ TakeResult \/ ContextKills

Process == Prepare \/ TakeStart \/ Finish \/ TakeCollect \/ NoToken

WorkerNext ==
  \/ Controller \/ Process \/ CancelRun \/ ControllerDies \/ WorkerKilled
  \/ (WorkloadStep \/ PeerStep \/ PathStep \/ (Running /\ Signal)) /\ UNCHANGED shakeVars

Quietly(A) == A /\ UNCHANGED shakeVars

WorkerSpec ==
  /\ WorkerInit /\ [][WorkerNext]_allVars
  /\ WF_allVars(Controller) /\ WF_allVars(Process)
  /\ WF_allVars(Quietly(RunReturns))
  /\ WF_allVars(Quietly(LingeringEnds)) /\ WF_allVars(Quietly(ServeReturns))
  /\ \A c \in MaxConnections :
       /\ WF_allVars(c \in Connections /\ Quietly(ClientStep(c)))
       /\ WF_allVars(c \in Connections /\ Quietly(Expire(c)))
       /\ WF_allVars(c \in Connections /\ Quietly(ServerStep(c)))

-----------------------------------------------------------------------------
WorkerTypeOK ==
  /\ TypeOK
  /\ ctl \in {"start", "awaitReady", "before", "awaitFinished", "sampling", "sampled",
              "collected", "returned", "dead"}
  /\ runCtx \in {"live", "done"}
  /\ wrk \in {"none", "prepare", "awaitStart", "workload", "awaitCollect", "exited"}
  /\ exit \in {"none", "zero", "error", "killed"}
  /\ stdin \in Seq({"start", "collect"})
  /\ stdout \in Seq([kind : {"ready", "finished", "result"}, error : BOOLEAN])
  /\ hookErr \in BOOLEAN /\ sampled \in BOOLEAN
  /\ verdict \in {"none", "ok", "error"}

(* RunProcess returns no error only for a workload that ended without one, *)
(* in a process that ended by itself, and that was sampled after its end   *)
(* and before it closed an idle connection; and once it has returned, the  *)
(* worker is gone.                                                         *)
AcceptedIsSampled ==
  /\ verdict = "ok" => Succeeded /\ sampled /\ exit = "zero"
  /\ ctl = "returned" => ~Running

(* RunProcess returns, the worker ends even when its controller was killed,*)
(* and a server that is told to stop is not kept by a worker.  This needs  *)
(* a duration or a share for every connection: a loop that has neither     *)
(* goes on for as long as its path works, and with it everybody else.      *)
EveryoneReturns ==
  config.requests = 0 \/ config.requests >= config.connections =>
    /\ <>(ctl \in {"returned", "dead"} /\ ~Running)
    /\ ServerReturns
=============================================================================
