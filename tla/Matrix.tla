--------------------------------- MODULE Matrix ---------------------------------
(***************************************************************************)
(* The matrix executor: runMatrix of cmd/inbound-bench/main.go runs the    *)
(* jobs of a plan one after the other, and can be launched again           *)
(* ("resume") after an interruption.                                       *)
(*                                                                         *)
(* On disk: one result file per job, state.json and summary.json.  In      *)
(* memory: the jobs of state.json as this process knows them.  A crash     *)
(* loses the memory; files are replaced by rename, so a crash leaves each  *)
(* of them whole.  The job itself is the subject of Lifecycle; here it     *)
(* ends with a validity and perhaps an error.                              *)
(*                                                                         *)
(* Beside a launch, or between two of them, the operator may run the       *)
(* summarize command: a process of its own that reads state.json, then one *)
(* result after the other, and then replaces summary.json.  There is at    *)
(* most one such process at a time, and MaxFaults bounds their number.     *)
(***************************************************************************)
EXTENDS Naturals, Sequences

CONSTANTS
  Plan,        (* the jobs of buildMatrixState, in the order they run      *)
  Pps,         (* the cases whose workload is UDP PPS                      *)
  FailFasts,   (* the values of fail_fast                                  *)
  MaxFaults    (* bound: crashes, failed writes, damaged results, and the  *)
               (* summarize commands                                       *)

ASSUME MatrixAssumption ==
  /\ Plan \in Seq([case: STRING, block: Nat, control: {"", "before", "after"}, warmup: BOOLEAN])
  /\ FailFasts \subseteq BOOLEAN
  /\ MaxFaults \in Nat

Jobs == DOMAIN Plan
IsCase(j) == Plan[j].control = ""
HasRawControl == \E j \in Jobs : ~IsCase(j)
Measured(j) == IsCase(j) /\ ~Plan[j].warmup
Stresses(j) == IsCase(j) /\ Plan[j].case \in Pps
MustProbe(j) == Stresses(j) /\ HasRawControl

matrixRecoveryAttempts == 5

VARIABLES
  failFast,   (* the configuration                                         *)
  root,       (* the result directory exists                               *)
  result,     (* the result file of each job                               *)
  state,      (* state.json                                                *)
  summary,    (* summary.json: the results it counts                       *)
  pc,         (* the step of runMatrix to take next                        *)
  cursor,     (* the job of the loop                                       *)
  memory,     (* state.Jobs, in memory                                     *)
  cancelled,  (* runContext is done                                        *)
  attempt,    (* the attempt of the recovery probe                         *)
  runErrors,  (* runErrors is not empty                                    *)
  exit,       (* how the last launch ended                                 *)
  draft,      (* the results the launch has read for its summary           *)
  command,    (* what the summarize command has read, if there is one      *)
  ran,        (* history: the jobs this launch executed                    *)
  lost,       (* history: the jobs whose result could not be written       *)
  outdated,   (* history: the last to write the summary was a command that *)
              (* opened state.json before a launch completed it            *)
  stressed,   (* the network carried a PPS case and no probe succeeded yet *)
  faults      (* the faults so far                                         *)

diskVars == <<root, result, state, summary>>
processVars == <<pc, cursor, memory, cancelled, attempt, runErrors, exit, ran>>
hostVars == <<lost, stressed, faults>>
summaryVars == <<draft, command, outdated>>
vars == <<failFast, diskVars, processVars, hostVars, summaryVars>>

(* What a result file says, when DecodeRepetition succeeds.  "slow" is a   *)
(* valid raw control after the cases whose throughput is more than 5 %     *)
(* away from the one before them, "empty" one that delivered nothing.      *)
Decodable == {"valid", "slow", "empty", "invalid"}
IsValid(verdict) == verdict \in {"valid", "slow", "empty"}
Verdicts(j) == IF IsCase(j) THEN {"valid", "invalid"}
               ELSE IF Plan[j].control = "before" THEN {"valid", "empty", "invalid"}
               ELSE Decodable
NoFile == <<>>

Unread == [j \in Jobs |-> "none"]

Blank == [j \in Jobs |-> [complete |-> FALSE, valid |-> FALSE, error |-> FALSE,
                          recovery |-> "none"]]

Init ==
  /\ failFast \in FailFasts
  /\ root = FALSE
  /\ result = Unread
  /\ state = NoFile
  /\ summary = Unread
  /\ pc = "down" /\ cursor = 1 /\ memory = Blank
  /\ cancelled = FALSE /\ attempt = 0 /\ runErrors = FALSE /\ exit = "none"
  /\ ran = {} /\ lost = {}
  /\ draft = Unread /\ command = NoFile /\ outdated = FALSE
  /\ stressed = FALSE
  /\ faults = 0

-----------------------------------------------------------------------------
Goto(step) == pc' = step /\ UNCHANGED exit

(* The process ends, and its memory with it. *)
Quit(code) ==
  /\ pc' = "down" /\ exit' = code
  /\ cursor' = 1 /\ memory' = Blank
  /\ cancelled' = FALSE /\ attempt' = 0 /\ runErrors' = FALSE /\ ran' = {}

Fault == faults < MaxFaults /\ faults' = faults + 1

WriteFails == Fault /\ Quit("error")

(* A directory that exists is refused unless the operator set resume. *)
Refuse ==
  /\ pc = "down"
  /\ root
  /\ exit' = "error"
  /\ UNCHANGED <<failFast, diskVars, pc, cursor, memory, cancelled, attempt, runErrors,
                 ran, hostVars, summaryVars>>

Launch ==
  /\ pc = "down"
  /\ root' = TRUE
  /\ pc' = "init" /\ exit' = "none"
  /\ UNCHANGED <<failFast, result, state, summary, cursor, memory, cancelled, attempt,
                 runErrors, ran, hostVars, summaryVars>>

(* buildMatrixState, and the first state.json: every job incomplete. *)
SaveFresh ==
  /\ pc = "init"
  /\ \/ /\ state' = memory
        /\ Goto("loop")
        /\ UNCHANGED <<cursor, memory, cancelled, attempt, runErrors, ran, faults>>
     \/ WriteFails /\ UNCHANGED state
  /\ UNCHANGED <<failFast, root, result, summary, lost, stressed, summaryVars>>

AtJob == pc = "loop" /\ cursor \in Jobs

SkipDone ==
  /\ AtJob
  /\ result[cursor] \in Decodable
  /\ memory' = [memory EXCEPT ![cursor].complete = TRUE,
                              ![cursor].valid = IsValid(result[cursor])]
  /\ cursor' = cursor + 1
  /\ UNCHANGED <<failFast, diskVars, pc, cancelled, attempt, runErrors, exit, ran,
                 hostVars, summaryVars>>

RefuseUnreadable ==
  /\ AtJob
  /\ result[cursor] = "unreadable"
  /\ Quit("error")
  /\ UNCHANGED <<failFast, diskVars, hostVars, summaryVars>>

BeginJobAgain ==   (* mutant: a resume runs the invalid jobs again *)
  /\ AtJob
  /\ result[cursor] \in {"none", "invalid"}
  /\ ran' = ran \cup {cursor}
  /\ Goto("run")
  /\ UNCHANGED <<failFast, diskVars, cursor, memory, cancelled, attempt, runErrors,
                 hostVars, summaryVars>>

BeginJob ==
  /\ AtJob
  /\ result[cursor] = "none"
  /\ ran' = ran \cup {cursor}
  /\ Goto("run")
  /\ UNCHANGED <<failFast, diskVars, cursor, memory, cancelled, attempt, runErrors,
                 hostVars, summaryVars>>

FinishJobUnchecked ==   (* mutant: the error of WriteJSON is dropped *)
  /\ pc = "run"
  /\ \E verdict \in Verdicts(cursor), error, written \in BOOLEAN :
       /\ IsValid(verdict) => ~error
       /\ memory' = [memory EXCEPT ![cursor].complete = TRUE,
                                   ![cursor].valid = IsValid(verdict),
                                   ![cursor].error = error]
       /\ runErrors' = (runErrors \/ error)
       /\ IF written
          THEN /\ result' = [result EXCEPT ![cursor] = verdict]
               /\ UNCHANGED <<lost, faults>>
          ELSE /\ Fault
               /\ lost' = lost \cup {cursor}
               /\ UNCHANGED result
  /\ stressed' = (stressed \/ Stresses(cursor))
  /\ Goto("cooldown")
  /\ UNCHANGED <<failFast, root, state, summary, cursor, cancelled, attempt, ran,
                 summaryVars>>

FinishJobWithoutError ==   (* mutant: no result is written after an error *)
  /\ pc = "run"
  /\ \E verdict \in Verdicts(cursor), error \in BOOLEAN :
       /\ IsValid(verdict) => ~error
       /\ memory' = [memory EXCEPT ![cursor].complete = TRUE,
                                   ![cursor].valid = IsValid(verdict),
                                   ![cursor].error = error]
       /\ runErrors' = (runErrors \/ error)
       /\ result' = IF error THEN result ELSE [result EXCEPT ![cursor] = verdict]
  /\ stressed' = (stressed \/ Stresses(cursor))
  /\ Goto("cooldown")
  /\ UNCHANGED <<failFast, root, state, summary, cursor, cancelled, attempt, ran, lost,
                 faults, summaryVars>>

(* executeRepetition returns.  Lifecycle!ValidIsRestored: a valid result   *)
(* had no error and a restored host.  When WriteJSON fails, the validity   *)
(* returned is still the one in memory.                                    *)
FinishJob ==
  /\ pc = "run"
  /\ \E verdict \in Verdicts(cursor), error, written \in BOOLEAN :
       /\ IsValid(verdict) => ~error
       /\ memory' = [memory EXCEPT ![cursor].complete = TRUE,
                                   ![cursor].valid = IsValid(verdict),
                                   ![cursor].error = error \/ ~written]
       /\ runErrors' = (runErrors \/ error \/ ~written)
       /\ IF written
          THEN /\ result' = [result EXCEPT ![cursor] = verdict]
               /\ UNCHANGED <<lost, faults>>
          ELSE /\ Fault
               /\ lost' = lost \cup {cursor}
               /\ UNCHANGED result
  /\ stressed' = (stressed \/ Stresses(cursor))
  /\ Goto("cooldown")
  /\ UNCHANGED <<failFast, root, state, summary, cursor, cancelled, attempt, ran,
                 summaryVars>>

(* waitContext(CooldownMS): a context that is done ends the wait with an   *)
(* error, unless the timer fired at the same time.                         *)
Cooldown ==
  /\ pc = "cooldown"
  /\ \E cut \in BOOLEAN :
       /\ cut => cancelled /\ IsCase(cursor)
       /\ memory' = [memory EXCEPT ![cursor].error = @ \/ cut]
       /\ runErrors' = (runErrors \/ cut)
  /\ IF ~cancelled /\ MustProbe(cursor)
     THEN Goto("probe") /\ attempt' = 1
     ELSE Goto("save") /\ UNCHANGED attempt
  /\ UNCHANGED <<failFast, diskVars, cursor, cancelled, ran, hostVars, summaryVars>>

-----------------------------------------------------------------------------
(* runMatrixRecoveryProbe: 8 echoes of 8, in at most 5 attempts. *)
ProbeSucceeds ==
  /\ pc = "probe"
  /\ ~cancelled
  /\ memory' = [memory EXCEPT ![cursor].recovery = "proved"]
  /\ stressed' = FALSE
  /\ attempt' = 0
  /\ Goto("save")
  /\ UNCHANGED <<failFast, diskVars, cursor, cancelled, runErrors, ran, lost, faults,
                 summaryVars>>

ProbeRetriesOnce ==   (* mutant: one attempt too many *)
  /\ pc = "probe"
  /\ attempt <= matrixRecoveryAttempts
  /\ attempt' = attempt + 1
  /\ UNCHANGED <<failFast, diskVars, pc, cursor, memory, cancelled, runErrors, exit, ran,
                 hostVars, summaryVars>>

ProbeRetries ==
  /\ pc = "probe"
  /\ attempt < matrixRecoveryAttempts
  /\ attempt' = attempt + 1
  /\ UNCHANGED <<failFast, diskVars, pc, cursor, memory, cancelled, runErrors, exit, ran,
                 hostVars, summaryVars>>

ProbeFails ==
  /\ pc = "probe"
  /\ attempt = matrixRecoveryAttempts \/ cancelled
  /\ memory' = [memory EXCEPT ![cursor].recovery = "failed", ![cursor].error = TRUE]
  /\ runErrors' = TRUE
  /\ attempt' = 0
  /\ Goto("save")
  /\ UNCHANGED <<failFast, diskVars, cursor, cancelled, ran, hostVars, summaryVars>>

SaveState ==
  /\ pc = "save"
  /\ \/ /\ state' = memory
        /\ Goto("decide")
        /\ UNCHANGED <<cursor, memory, cancelled, attempt, runErrors, ran, faults>>
     \/ WriteFails /\ UNCHANGED state
  /\ UNCHANGED <<failFast, root, result, summary, lost, stressed, summaryVars>>

MustStopInvalid == cancelled \/ (failFast /\ ~memory[cursor].valid)   (* mutant: no probe *)

MustStop == \/ cancelled
            \/ memory[cursor].recovery = "failed"
            \/ failFast /\ ~memory[cursor].valid

StopEarly ==
  /\ pc = "decide"
  /\ MustStop
  /\ Quit("error")
  /\ UNCHANGED <<failFast, diskVars, hostVars, summaryVars>>

NextJob ==
  /\ pc = "decide"
  /\ ~MustStop
  /\ cursor' = cursor + 1
  /\ Goto("loop")
  /\ UNCHANGED <<failFast, diskVars, memory, cancelled, attempt, runErrors, ran,
                 hostVars, summaryVars>>

-----------------------------------------------------------------------------
(* report.Build loads the complete jobs of state.json whose result         *)
(* decodes; a complete job without one is an error, beside the summary.    *)
(* `found' is what it reads of each job, "none" of an incomplete one.      *)
Loaded(found) == {j \in Jobs : found[j] \in Decodable}

(* evaluateControls: a block counts when it has a valid control before and *)
(* one after, both delivered something, and their throughput is the same   *)
(* within 5 %.                                                             *)
BlocksOfPlan == {Plan[j].block : j \in Jobs}
InvalidBlocks(found) ==
  {b \in BlocksOfPlan :
     /\ HasRawControl
     /\ ~ \E before, after \in Loaded(found) :
            /\ Plan[before].block = b /\ Plan[before].control = "before"
            /\ Plan[after].block = b /\ Plan[after].control = "after"
            /\ IsValid(found[before]) /\ found[before] = found[after]
            /\ found[before] # "empty"}

(* Mutant: the controls are not looked at. *)
BuildWithoutControls(found) ==
  [j \in Jobs |-> IF j \in Loaded(found) /\ Measured(j) THEN found[j] ELSE "none"]

(* The measured repetitions that count as valid and as invalid. *)
Build(found) ==
  [j \in Jobs |-> IF j \notin Loaded(found) \/ ~Measured(j) THEN "none"
                  ELSE IF IsValid(found[j]) /\ Plan[j].block \notin InvalidBlocks(found)
                  THEN "valid" ELSE "invalid"]

SaveFinal ==
  /\ pc = "loop"
  /\ cursor \notin Jobs
  /\ \/ /\ state' = memory
        /\ Goto("summarize")
        /\ command' = IF command = NoFile THEN NoFile ELSE [command EXCEPT !.early = TRUE]
        /\ UNCHANGED <<cursor, memory, cancelled, attempt, runErrors, ran, faults>>
     \/ WriteFails /\ UNCHANGED <<state, command>>
  /\ UNCHANGED <<failFast, root, result, summary, lost, stressed, draft, outdated>>

(* summarizeMatrix of the launch reads state.json and the results.  In one *)
(* step: meanwhile nobody writes state.json, and a result can only be      *)
(* damaged, before or after it is read.                                    *)
ReadResults ==
  /\ pc = "summarize"
  /\ draft' = [j \in Jobs |-> IF state[j].complete THEN result[j] ELSE "none"]
  /\ runErrors' = (runErrors \/ \E j \in Jobs : state[j].complete
                                             /\ result[j] \notin Decodable)
  /\ Goto("publish")
  /\ UNCHANGED <<failFast, diskVars, cursor, memory, cancelled, attempt, ran, hostVars,
                 command, outdated>>

(* It renames summary.json, and writes summary.md. *)
Summarize ==
  /\ pc = "publish"
  /\ \/ /\ summary' = Build(draft)
        /\ outdated' = FALSE
        /\ \/ Quit(IF runErrors THEN "error" ELSE "ok") /\ UNCHANGED faults
           \/ WriteFails
     \/ WriteFails /\ UNCHANGED <<summary, outdated>>
  /\ draft' = Unread
  /\ UNCHANGED <<failFast, root, result, state, lost, stressed, command>>

-----------------------------------------------------------------------------
(* The summarize command, whatever state.json says and whatever a launch   *)
(* does meanwhile.                                                         *)
CommandOpensState ==
  /\ command = NoFile
  /\ state # NoFile
  /\ Fault
  /\ command' = [unread |-> {j \in Jobs : state[j].complete}, found |-> Unread,
                 early |-> FALSE]
  /\ UNCHANGED <<failFast, diskVars, processVars, lost, stressed, draft, outdated>>

(* report.Build reads the results in the order of the plan. *)
CommandReadsResult ==
  /\ command # NoFile
  /\ \E j \in command.unread :
       /\ \A i \in command.unread : j <= i
       /\ command' = [command EXCEPT !.unread = @ \ {j}, !.found[j] = result[j]]
  /\ UNCHANGED <<failFast, diskVars, processVars, hostVars, draft, outdated>>

CommandWritesSummary ==
  /\ command # NoFile
  /\ command.unread = {}
  /\ summary' = Build(command.found)
  /\ outdated' = command.early
  /\ command' = NoFile
  /\ UNCHANGED <<failFast, root, result, state, processVars, hostVars, draft>>

(* It is killed, or cannot write. *)
CommandDies ==
  /\ command # NoFile
  /\ command' = NoFile
  /\ UNCHANGED <<failFast, diskVars, processVars, hostVars, draft, outdated>>

-----------------------------------------------------------------------------
(* The environment.  Before the context listens, a signal is a crash. *)
Signal ==
  /\ pc \notin {"down", "init"}
  /\ ~cancelled
  /\ cancelled' = TRUE
  /\ UNCHANGED <<failFast, diskVars, pc, cursor, memory, attempt, runErrors, exit, ran,
                 hostVars, summaryVars>>

(* SIGKILL, power. *)
Crash ==
  /\ pc # "down"
  /\ Fault
  /\ Quit("error")
  /\ stressed' = (stressed \/ (pc = "run" /\ Stresses(cursor)))
  /\ draft' = Unread
  /\ UNCHANGED <<failFast, diskVars, lost, command, outdated>>

(* A result written by another protocol version, or damaged. *)
Damage ==
  /\ Fault
  /\ \E j \in Jobs :
       /\ result[j] \in Decodable
       /\ result' = [result EXCEPT ![j] = "unreadable"]
  /\ UNCHANGED <<failFast, root, state, summary, processVars, lost, stressed,
                 summaryVars>>

Runner == \/ SaveFresh \/ SkipDone \/ RefuseUnreadable \/ BeginJob \/ FinishJob
          \/ Cooldown \/ ProbeSucceeds \/ ProbeRetries \/ ProbeFails
          \/ SaveState \/ StopEarly \/ NextJob \/ SaveFinal \/ ReadResults
          \/ Summarize

Command == CommandOpensState \/ CommandReadsResult \/ CommandWritesSummary \/ CommandDies

Next == \/ Launch \/ Refuse \/ Runner \/ Command
        \/ Signal \/ Crash \/ Damage

(* The runner runs, and the operator resumes a matrix that has stopped. *)
Fairness == WF_vars(Runner) /\ WF_vars(Launch)

Spec == Init /\ [][Next]_vars /\ Fairness

-----------------------------------------------------------------------------
JobState == [complete: BOOLEAN, valid: BOOLEAN, error: BOOLEAN,
             recovery: {"none", "failed", "proved"}]

CommandState == [unread: SUBSET Jobs, early: BOOLEAN,
                 found: [Jobs -> {"none", "unreadable"} \cup Decodable]]

(* The type invariant. *)
TypeOK ==
  /\ failFast \in FailFasts
  /\ root \in BOOLEAN
  /\ result \in [Jobs -> {"none", "unreadable"} \cup Decodable]
  /\ state = NoFile \/ state \in [Jobs -> JobState]
  /\ summary \in [Jobs -> {"none", "valid", "invalid"}]
  /\ pc \in {"down", "init", "loop", "run", "cooldown", "probe", "save", "decide",
             "summarize", "publish"}
  /\ cursor \in 1..(Len(Plan) + 1)
  /\ memory \in [Jobs -> JobState]
  /\ cancelled \in BOOLEAN /\ runErrors \in BOOLEAN
  /\ attempt \in 0..matrixRecoveryAttempts
  /\ exit \in {"none", "ok", "error"}
  /\ ran \subseteq Jobs /\ lost \subseteq Jobs
  /\ draft \in [Jobs -> {"none", "unreadable"} \cup Decodable]
  /\ command = NoFile \/ command \in CommandState
  /\ outdated \in BOOLEAN
  /\ stressed \in BOOLEAN
  /\ faults \in 0..MaxFaults

(* A result that decodes is final: no launch, resumed or not, runs its job *)
(* again or replaces it (README.md:82).                                    *)
ResultsAreFinal ==
  [][\A j \in Jobs : result[j] \in Decodable => result'[j] \in {result[j], "unreadable"}]_vars

(* What state.json says of a job without error is what its result says,    *)
(* through crashes, resumes and failed writes.                             *)
StateMatchesResults ==
  state # NoFile =>
    \A j \in Jobs : state[j].complete /\ ~state[j].error =>
      \/ result[j] = "unreadable"
      \/ result[j] \in Decodable /\ IsValid(result[j]) = state[j].valid

(* A launch goes past a job it executed only if fail_fast accepts it and,  *)
(* after a PPS case, the network was proved to have recovered.             *)
NothingAfterFailure ==
  \A j \in ran : j < cursor =>
    /\ failFast => memory[j].valid
    /\ MustProbe(j) => memory[j].recovery = "proved"

(* Results appear in the order of the plan, across any number of launches: *)
(* a raw control brackets the cases of its block.  The one exception is a  *)
(* job whose result could not be written, since the loop goes on.          *)
InPlanOrder ==
  \A i, j \in Jobs : i < j /\ result[j] # "none" => result[i] # "none" \/ i \in lost

(* What the results say of a block, whatever state.json says: its raw      *)
(* controls are there, valid, delivered something and do not drift.        *)
Bracketed(b) ==
  HasRawControl =>
    \E i, j \in Jobs :
      /\ Plan[i].block = b /\ Plan[i].control = "before"
      /\ Plan[j].block = b /\ Plan[j].control = "after"
      /\ \/ result[i] = result[j] /\ result[i] \in {"valid", "slow"}
         \/ "unreadable" \in {result[i], result[j]}

(* The summary counts a repetition as valid only when its own result is    *)
(* and its block's controls are valid and agree, though it may be built by *)
(* a command that has read a state.json a launch replaces meanwhile; and a *)
(* launch that reports success leaves a result for every job, and a        *)
(* summary that counts every repetition as the results say, until a        *)
(* command that has read an older state.json writes over it.               *)
SummaryIsTruthful ==
  \A j \in Jobs :
    /\ summary[j] = "valid" =>
         result[j] \in {"valid", "unreadable"} /\ Bracketed(Plan[j].block)
    /\ exit = "ok" =>
         /\ result[j] # "none"
         /\ ~outdated /\ Measured(j) /\ (\A i \in Jobs : result[i] \in Decodable) =>
              (summary[j] = "valid" <=> result[j] = "valid" /\ Bracketed(Plan[j].block))

(* A matrix that is resumed as often as it stops comes to its end, each    *)
(* time it is begun again, with every job done, unless a result becomes    *)
(* unreadable: however often it is interrupted, whatever its jobs return,  *)
(* and even if no probe ever succeeds.                                     *)
MatrixFinishes == []<>(exit = "ok" \/ \E j \in Jobs : result[j] = "unreadable")

-----------------------------------------------------------------------------
(* The next property says what the documentation says, and does not hold.  *)

(* README.md:124: only 8 of 8 echoes allow the next random case. *)
NextCaseIsProven == pc = "run" /\ IsCase(cursor) /\ HasRawControl => ~stressed
=============================================================================
