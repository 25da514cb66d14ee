------------------------------ MODULE Netfilter ------------------------------
(***************************************************************************)
(* The firewall manager of internal/netfilter/manager.go: every run builds *)
(* its own REDIRECT or TPROXY path out of kernel objects, one external     *)
(* command at a time, records the inverse of each command that succeeded,  *)
(* and later plays the inverses back in reverse order.                     *)
(*                                                                         *)
(* Several runs and the host's own administration share one kernel.  Each  *)
(* kernel object carries its creator, which the kernel does not know: the  *)
(* commands name objects only, and whether a run ever deletes an object it *)
(* did not create is the question.  It can, in one way: a delete that took *)
(* effect although it was reported failed is played again by the second    *)
(* pass, when the name may be somebody else's.                             *)
(***************************************************************************)
EXTENDS Integers, Sequences, FiniteSets

CONSTANTS
  Run,        (* one Manager each                                          *)
  One,        (* any one of them: the refinement is stated of it           *)
  Host,       (* everyone else who administers the kernel                  *)
  Kind,       (* [Run -> {"redirect", "tproxy"}]                           *)
  ChainName,  (* [Run -> Name]: CRC32 of the run ID, so runs may collide   *)
  Table,      (* [Run -> Name]: route table, rule priority and mark        *)
  Name,
  Faults      (* which faults occur: see Fault                             *)

(* "scan": the -S of a chain fails although the chain exists;
   "fail": a command fails and changes nothing;
   "interrupt": the command takes effect but is reported failed: a signal to
   the process group, or the end of its context, kills it before it exits. *)
Fault == {"scan", "fail", "interrupt"}

ASSUME NetfilterAssumption ==
  /\ Host \notin Run /\ One \in Run
  /\ Kind \in [Run -> {"redirect", "tproxy"}]
  /\ ChainName \in [Run -> Name]
  /\ Table \in [Run -> Name]
  /\ Faults \subseteq Fault

VARIABLES
  kernel,    (* the objects present, each with its creator                 *)
  stage,     (* where each run's manager is                                *)
  undo,      (* the undo slice: entry i, TRUE when done, inverts step i    *)
  cursor,    (* the index of the cleanup loop                              *)
  expired,   (* the 15 s context of stop and cleanup has ended             *)
  ambiguous  (* history: the objects of which a delete took effect although
                it was reported failed                                     *)

vars == <<kernel, stage, undo, cursor, expired, ambiguous>>

-----------------------------------------------------------------------------
(* Kernel objects.  A chain is known by its hash and its prefix (SBI_R_,   *)
(* SBI_O_, SBI_P_); a rule or a jump is known by the chain it serves.      *)

Side == {"R", "O", "P", "ip"}
ObjectType == {"chain", "rule", "jump", "route", "policy"}
Object == [type : ObjectType, name : Name, side : Side]
Entry == [obj : Object, by : Run \cup {Host}]

Obj(t, n, s) == [type |-> t, name |-> n, side |-> s]
Diverts(o) == o.type \in {"rule", "jump"}
ChainOf(o) == Obj("chain", o.name, o.side)

Present(o) == \E e \in kernel : e.obj = o

(* -N, ip route add and ip rule add fail on an existing object (EEXIST);   *)
(* -A and -I add another instance, and need the chain they name.           *)
CanAdd(o) == IF Diverts(o) THEN Present(ChainOf(o)) ELSE ~Present(o)

(* A delete needs an instance, -X also an empty, unreferenced chain. *)
CanDelete(o) ==
  /\ Present(o)
  /\ o.type = "chain" =>
       ~ \E e \in kernel : Diverts(e.obj) /\ ChainOf(e.obj) = o

-----------------------------------------------------------------------------
(* What Install does, in order. *)
RedirectPlan(n) == <<Obj("chain", n, "R"), Obj("rule", n, "R"), Obj("jump", n, "R")>>

TProxyPlan(n, t) ==
  << Obj("route", t, "ip"), Obj("policy", t, "ip"),
     Obj("chain", n, "O"), Obj("chain", n, "P"),
     Obj("rule", n, "O"), Obj("rule", n, "P"),
     Obj("jump", n, "O"), Obj("jump", n, "P") >>

Plan(r) == IF Kind[r] = "redirect" THEN RedirectPlan(ChainName[r])
                                   ELSE TProxyPlan(ChainName[r], Table[r])

PlanSteps(r) == IF Kind[r] = "redirect" THEN 1..3 ELSE 1..8
Owned(r, i) == [obj |-> Plan(r)[i], by |-> r]
Mine(r) == {e \in kernel : e.by = r}

Stages == {"new", "refused", "setup", "active", "stop", "cleanup",
           "verified", "failed", "dead"}
Finished == {"refused", "verified", "failed", "dead"}

Init ==
  /\ kernel = {}
  /\ stage = [r \in Run |-> "new"]
  /\ undo = [r \in Run |-> <<>>]
  /\ cursor = [r \in Run |-> 0]
  /\ expired = [r \in Run |-> FALSE]
  /\ ambiguous = {}

-----------------------------------------------------------------------------
(* Snapshot refuses names already in use, but any error of a chain's -S    *)
(* counts as "absent"; only the rule and route queries are read by output. *)
ScanClear(r) ==
  /\ \A i \in PlanSteps(r) :
       Plan(r)[i].type \in {"route", "policy"} => ~Present(Plan(r)[i])
  /\ \/ "scan" \in Faults
     \/ \A i \in PlanSteps(r) : Plan(r)[i].type = "chain" => ~Present(Plan(r)[i])

Snapshot(r) ==
  /\ stage[r] = "new"
  /\ \/ ScanClear(r) /\ stage' = [stage EXCEPT ![r] = "setup"]
     \/ (~ScanClear(r) \/ "fail" \in Faults) /\ stage' = [stage EXCEPT ![r] = "refused"]
  /\ UNCHANGED <<kernel, undo, cursor, expired, ambiguous>>

(* mutate: run the command, append its inverse only when it succeeded. *)
InstallStep(r) ==
  LET i == Len(undo[r]) + 1 IN
  /\ stage[r] = "setup"
  /\ i \in PlanSteps(r)
  /\ CanAdd(Plan(r)[i])
  /\ kernel' = kernel \cup {Owned(r, i)}
  /\ undo' = [undo EXCEPT ![r] = Append(@, FALSE)]
  /\ stage' = IF i + 1 \in PlanSteps(r) THEN stage ELSE [stage EXCEPT ![r] = "active"]
  /\ UNCHANGED <<cursor, expired, ambiguous>>

BeginStopPastEnd(r) ==   (* mutant: the loop starts one past the last inverse *)
  /\ stage' = [stage EXCEPT ![r] = "stop"]
  /\ cursor' = [cursor EXCEPT ![r] = Len(undo[r]) + 1]

(* Managed.Stop starts the first pass over the undo slice, on a context of *)
(* its own that the cancellation of the run does not reach.                *)
BeginStop(r) ==
  /\ stage' = [stage EXCEPT ![r] = "stop"]
  /\ cursor' = [cursor EXCEPT ![r] = Len(undo[r])]

InstallFailsGoesOn(r) ==   (* mutant: the failing command is tolerated and recorded *)
  LET i == Len(undo[r]) + 1 IN
  /\ stage[r] = "setup"
  /\ ~CanAdd(Plan(r)[i]) \/ "fail" \in Faults
  /\ undo' = [undo EXCEPT ![r] = Append(@, FALSE)]
  /\ stage' = IF i + 1 \in PlanSteps(r) THEN stage ELSE [stage EXCEPT ![r] = "active"]
  /\ UNCHANGED <<kernel, cursor, expired, ambiguous>>

(* The command failed without effect, or never started. *)
InstallFails(r) ==
  LET i == Len(undo[r]) + 1 IN
  /\ stage[r] = "setup"
  /\ ~CanAdd(Plan(r)[i]) \/ "fail" \in Faults
  /\ BeginStop(r)
  /\ UNCHANGED <<kernel, undo, expired, ambiguous>>

(* The command took effect but is reported failed: mutate sees an error    *)
(* and records nothing.                                                    *)
InstallInterrupted(r) ==
  LET i == Len(undo[r]) + 1 IN
  /\ "interrupt" \in Faults
  /\ stage[r] = "setup"
  /\ i \in PlanSteps(r)
  /\ CanAdd(Plan(r)[i])
  /\ kernel' = kernel \cup {Owned(r, i)}
  /\ BeginStop(r)
  /\ UNCHANGED <<undo, expired, ambiguous>>

(* Setup failed before Start was attempted: Stop is skipped. *)
SetupFails(r) ==
  /\ stage[r] = "setup"
  /\ undo[r] = <<>>
  /\ stage' = [stage EXCEPT ![r] = "cleanup"]
  /\ UNCHANGED <<kernel, undo, cursor, expired, ambiguous>>

(* The measurement ended, or any phase after Install failed. *)
Finish(r) ==
  /\ stage[r] = "active"
  /\ BeginStop(r)
  /\ UNCHANGED <<kernel, undo, expired, ambiguous>>

-----------------------------------------------------------------------------
(* Cleanup: one iteration of the loop each; errors are collected and the   *)
(* loop goes on.                                                           *)
Restoring(r) == stage[r] \in {"stop", "cleanup"}
AtCursor(r) == Plan(r)[cursor[r]]
Advance(r) == cursor' = [cursor EXCEPT ![r] = @ - 1]

SkipDone(r) ==
  /\ Restoring(r)
  /\ cursor[r] > 0 /\ undo[r][cursor[r]]
  /\ Advance(r)
  /\ UNCHANGED <<kernel, stage, undo, expired, ambiguous>>

UndoStep(r) ==
  /\ Restoring(r)
  /\ cursor[r] > 0 /\ ~undo[r][cursor[r]]
  /\ ~expired[r]
  /\ CanDelete(AtCursor(r))
  /\ \E e \in kernel : e.obj = AtCursor(r) /\ kernel' = kernel \ {e}
  /\ undo' = [undo EXCEPT ![r][cursor[r]] = TRUE]
  /\ Advance(r)
  /\ UNCHANGED <<stage, expired, ambiguous>>

UndoFailsMarks(r) ==   (* mutant: done is set before the error is looked at *)
  /\ Restoring(r)
  /\ cursor[r] > 0 /\ ~undo[r][cursor[r]]
  /\ expired[r] \/ ~CanDelete(AtCursor(r)) \/ "fail" \in Faults
  /\ undo' = [undo EXCEPT ![r][cursor[r]] = TRUE]
  /\ Advance(r)
  /\ UNCHANGED <<kernel, stage, expired, ambiguous>>

UndoFailsRetries(r) ==   (* mutant: a failing inverse is tried again *)
  /\ Restoring(r)
  /\ cursor[r] > 0 /\ ~undo[r][cursor[r]]
  /\ expired[r] \/ ~CanDelete(AtCursor(r)) \/ "fail" \in Faults
  /\ UNCHANGED vars

UndoFails(r) ==
  /\ Restoring(r)
  /\ cursor[r] > 0 /\ ~undo[r][cursor[r]]
  /\ expired[r] \/ ~CanDelete(AtCursor(r)) \/ "fail" \in Faults
  /\ Advance(r)
  /\ UNCHANGED <<kernel, stage, undo, expired, ambiguous>>

(* The delete took effect but is reported failed, on a context that may    *)
(* well live on: the entry stays pending, and a later pass plays it again. *)
UndoInterrupted(r) ==
  /\ "interrupt" \in Faults
  /\ Restoring(r)
  /\ cursor[r] > 0 /\ ~undo[r][cursor[r]]
  /\ ~expired[r]
  /\ CanDelete(AtCursor(r))
  /\ \E e \in kernel : e.obj = AtCursor(r) /\ kernel' = kernel \ {e}
  /\ ambiguous' = ambiguous \cup {AtCursor(r)}
  /\ Advance(r)
  /\ UNCHANGED <<stage, undo, expired>>

(* The 15 s of the cleanup context pass, in a command or while the process *)
(* is being stopped: no later command of this run starts.                  *)
Expire(r) ==
  /\ Restoring(r) /\ ~expired[r]
  /\ expired' = [expired EXCEPT ![r] = TRUE]
  /\ UNCHANGED <<kernel, stage, undo, cursor, ambiguous>>

(* Managed.Cleanup runs the loop again over what the first pass left. *)
SecondPass(r) ==
  /\ stage[r] = "stop" /\ cursor[r] = 0
  /\ stage' = [stage EXCEPT ![r] = "cleanup"]
  /\ cursor' = [cursor EXCEPT ![r] = Len(undo[r])]
  /\ UNCHANGED <<kernel, undo, expired, ambiguous>>

AllUndone(r) == \A i \in 1..Len(undo[r]) : undo[r][i]

(* VerifyRestore looks at the undo slice, never at the kernel. *)
VerifyRestore(r) ==
  /\ stage[r] = "cleanup" /\ cursor[r] = 0
  /\ stage' = [stage EXCEPT ![r] = IF AllUndone(r) THEN "verified" ELSE "failed"]
  /\ UNCHANGED <<kernel, undo, cursor, expired, ambiguous>>

(* SIGKILL of the runner: the undo slice was only in its memory. *)
Die(r) ==
  /\ stage[r] \notin Finished
  /\ stage' = [stage EXCEPT ![r] = "dead"]
  /\ UNCHANGED <<kernel, undo, cursor, expired, ambiguous>>

-----------------------------------------------------------------------------
(* The rest of the host uses the same names and tables whenever it likes,  *)
(* and only ever removes what is its own.                                  *)
Contested == {o \in UNION {{Plan(r)[i] : i \in PlanSteps(r)} : r \in Run} : ~Diverts(o)}

HostAdds ==
  /\ \E o \in Contested : CanAdd(o) /\ kernel' = kernel \cup {[obj |-> o, by |-> Host]}
  /\ UNCHANGED <<stage, undo, cursor, expired, ambiguous>>

HostRemoves ==
  /\ \E e \in Mine(Host) : CanDelete(e.obj) /\ kernel' = kernel \ {e}
  /\ UNCHANGED <<stage, undo, cursor, expired, ambiguous>>

Progress(r) ==
  \/ Snapshot(r) \/ SetupFails(r)
  \/ InstallStep(r) \/ InstallFails(r) \/ InstallInterrupted(r)
  \/ Finish(r)
  \/ SkipDone(r) \/ UndoStep(r) \/ UndoFails(r) \/ UndoInterrupted(r)
  \/ SecondPass(r) \/ VerifyRestore(r)

RunStep(r) == Progress(r) \/ Expire(r) \/ Die(r)

Next == (\E r \in Run : RunStep(r)) \/ HostAdds \/ HostRemoves

(* Each manager is a sequential Go routine whose commands return. *)
Spec == Init /\ [][Next]_vars /\ \A r \in Run : WF_vars(Progress(r))

-----------------------------------------------------------------------------
TypeOK ==
  /\ kernel \subseteq Entry
  /\ stage \in [Run -> Stages]
  /\ undo \in [Run -> Seq(BOOLEAN)]
  /\ cursor \in [Run -> Nat]
  /\ expired \in [Run -> BOOLEAN]
  /\ ambiguous \subseteq Object
  /\ \A r \in Run : /\ 1..Len(undo[r]) \subseteq PlanSteps(r)
                    /\ cursor[r] <= Len(undo[r])

(* An object whose identity an earlier delete left in doubt: the delete,   *)
(* or that of the chain it stands in, may be played a second time.         *)
Doubtful(o) == \E a \in ambiguous : a = o \/ a = ChainOf(o)

(* No object identity is ever held by two creators, not even a rule or a   *)
(* jump, which the kernel would let anyone add twice, unless a delete of   *)
(* its chain was ambiguous: an iptables -D of one run can then not hit the *)
(* rule of another.  This is what the order of the plan and the abort at   *)
(* the first failing command buy.                                          *)
OneHolder ==
  \A e, f \in kernel : e.obj = f.obj =>
    e.by = f.by \/ (Diverts(e.obj) /\ ChainOf(e.obj) \in ambiguous)

(* An inverse still to be played names an object that this very run        *)
(* created and that is still there, whatever other runs and the host do:   *)
(* the undo slice goes stale only where a delete was ambiguous.            *)
PendingIsPresent ==
  \A r \in Run : \A i \in 1..Len(undo[r]) :
    ~undo[r][i] /\ ~Doubtful(Plan(r)[i]) => Owned(r, i) \in kernel

(* A successful VerifyRestore, although it never looks at the kernel,      *)
(* means that nothing of this run diverts traffic any more, and that at    *)
(* most one empty chain, route or policy rule of it is left behind.        *)
VerifiedInert ==
  \A r \in Run : stage[r] = "verified" =>
    /\ \A e \in Mine(r) : ~Diverts(e.obj)
    /\ \A e, f \in Mine(r) : e = f

(* What "state after cleanup equals the baseline" says: a run that passed  *)
(* VerifyRestore left nothing.                                             *)
VerifiedClean ==
  \A r \in Run : stage[r] = "verified" => Mine(r) = {}

(* A step that removes an object is a step of its creator: of that run's   *)
(* cleanup loop, or of the host and then of no run.  The one exception is  *)
(* an object whose identity an ambiguous delete left in doubt: its name is *)
(* deleted a second time, by whoever else holds it now.                    *)
OnlyOwnRemoved ==
  [][\A e \in kernel \ kernel' : ~Doubtful(e.obj) =>
       IF e.by = Host THEN UNCHANGED <<stage, undo, cursor>>
                      ELSE cursor'[e.by] # cursor[e.by]]_vars

(* A manager that was given a Snapshot reaches a verdict, whatever fails:  *)
(* no failing command can keep the cleanup loop from ending.               *)
EveryRunEnds == \A r \in Run : <>(stage[r] \in Finished)

-----------------------------------------------------------------------------
(* The refinement mapping to RestoreContract, for the manager of a run. *)
OutcomeOf(r) ==
  CASE stage[r] = "new" -> "idle"
    [] stage[r] \in {"setup", "active"} -> "changing"
    [] stage[r] \in {"stop", "cleanup"} -> "restoring"
    [] stage[r] = "verified" -> "verified"
    [] OTHER -> "failed"

Held(r) == {e.obj : e \in Mine(r)}
InertObject == {o \in Object : ~Diverts(o)}

Contract == INSTANCE RestoreContract WITH
  Resource <- Object, Inert <- InertObject, held <- Held(One), outcome <- OutcomeOf(One)

(* The manager of a run, whichever it is, implements the restore contract: *)
(* it acquires only before it starts to restore, releases only what it     *)
(* holds, and certifies only an inert host.                                *)
ImplementsContract == Contract!ContractSpec
=============================================================================
