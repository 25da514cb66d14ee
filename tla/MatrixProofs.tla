---------------------------- MODULE MatrixProofs ----------------------------
(***************************************************************************)
(* Proofs about Matrix, for every plan, every choice of PPS cases and of   *)
(* fail_fast, and any number of faults: the inductive invariant, and the   *)
(* safety and action properties the run checks.                            *)
(***************************************************************************)
EXTENDS Matrix, TLAPS

(* The jobs are numbered from 1. *)
LEMMA JobsOfPlan ==
  Jobs = 1..Len(Plan) /\ Len(Plan) \in Nat /\ MaxFaults \in Nat
<1> DEFINE Job == [case: STRING, block: Nat, control: {"", "before", "after"},
                   warmup: BOOLEAN]
<1>1. Plan \in Seq(Job) /\ MaxFaults \in Nat
  BY MatrixAssumption DEF MatrixAssumption
<1> HIDE DEF Job
<1> QED
  BY <1>1 DEF Jobs

(* What a process without memory knows of its jobs. *)
LEMMA BlankType == Blank \in [Jobs -> JobState]
  BY DEF Blank, JobState

(* A summary counts a repetition as valid, as invalid, or not at all. *)
LEMMA BuildType ==
  ASSUME NEW found
  PROVE  Build(found) \in [Jobs -> {"none", "valid", "invalid"}]
  BY DEF Build

(* What is read of the results before any of them is. *)
LEMMA UnreadType == Unread \in [Jobs -> {"none", "unreadable"} \cup Decodable]
  BY DEF Unread

(* A process that ends leaves the memory of one that has not begun. *)
LEMMA QuitTyped ==
  ASSUME NEW code \in {"ok", "error"}, Quit(code)
  PROVE  /\ pc' = "down" /\ exit' \in {"none", "ok", "error"}
         /\ cursor' \in 1..(Len(Plan) + 1)
         /\ memory' \in [Jobs -> JobState]
         /\ cancelled' \in BOOLEAN /\ runErrors' \in BOOLEAN
         /\ attempt' \in 0..matrixRecoveryAttempts
         /\ ran' \subseteq Jobs
<1>1. cursor' \in 1..(Len(Plan) + 1)
  BY JobsOfPlan DEF Quit
<1>2. attempt' \in 0..matrixRecoveryAttempts
  BY DEF Quit, matrixRecoveryAttempts
<1> QED
  BY <1>1, <1>2, BlankType DEF Quit

(* The bound on the faults is kept. *)
LEMMA FaultTyped == ASSUME faults \in 0..MaxFaults, Fault PROVE faults' \in 0..MaxFaults
  BY JobsOfPlan DEF Fault

(* The summary stays true as long as it and the results are left alone,    *)
(* unless a launch reports success.                                        *)
LEMMA SummaryKept ==
  ASSUME SummaryIsTruthful, UNCHANGED <<summary, result, outdated>>,
         exit' = exit \/ exit' # "ok"
  PROVE  SummaryIsTruthful'
<1>1. \A b : Bracketed(b)' = Bracketed(b)
  BY DEF Bracketed, HasRawControl, IsCase
<1> QED
  BY <1>1 DEF SummaryIsTruthful, Measured, IsCase

(* Results that decode stay, unless they are damaged, and damage stays. *)
ResultsKept ==
  \A j \in Jobs :
    /\ result[j] \in Decodable => result'[j] \in {result[j], "unreadable"}
    /\ result[j] = "unreadable" => result'[j] = "unreadable"

(* A repetition that was counted rightly is so after a result was damaged  *)
(* or added.                                                               *)
LEMMA SummaryKeptByResults ==
  ASSUME TypeOK, SummaryIsTruthful, ResultsKept, UNCHANGED <<summary, exit, outdated>>
  PROVE  SummaryIsTruthful'
<1> SUFFICES ASSUME NEW j \in Jobs
             PROVE  /\ summary[j] = "valid" =>
                         /\ result'[j] \in {"valid", "unreadable"}
                         /\ Bracketed(Plan[j].block)'
                    /\ exit = "ok" =>
                         /\ result'[j] # "none"
                         /\ ~outdated /\ Measured(j)
                              /\ (\A i \in Jobs : result'[i] \in Decodable) =>
                              (summary[j] = "valid" <=>
                                 result'[j] = "valid" /\ Bracketed(Plan[j].block)')
  BY DEF SummaryIsTruthful, Measured, IsCase
<1>1. \A b : Bracketed(b) => Bracketed(b)'
  BY DEF ResultsKept, Bracketed, HasRawControl, IsCase, IsValid, Decodable
<1>2. CASE exit = "ok" /\ \A i \in Jobs : result'[i] \in Decodable
  <2>1. \A i \in Jobs : result[i] \in Decodable
    BY <1>2 DEF TypeOK, SummaryIsTruthful, ResultsKept
  <2>2. \A i \in Jobs : result'[i] = result[i]
    BY <1>2, <2>1 DEF ResultsKept, Decodable
  <2>3. Bracketed(Plan[j].block)' = Bracketed(Plan[j].block)
    BY <2>2 DEF Bracketed, HasRawControl, IsCase
  <2> QED
    BY <1>2, <2>2, <2>3 DEF SummaryIsTruthful
<1> QED
  BY <1>1, <1>2 DEF SummaryIsTruthful, ResultsKept, TypeOK

(* Only a raw control is compared by its throughput. *)
CaseVerdicts == \A j \in Jobs : result[j] \in Verdicts(j) \cup {"none", "unreadable"}

(* What was read of the results is what they still say, unless they were   *)
(* damaged since.                                                          *)
ReadRightly(found) ==
  \A j \in Jobs :
    /\ found[j] \in Verdicts(j) \cup {"none", "unreadable"}
    /\ found[j] \in Decodable => result[j] \in {found[j], "unreadable"}

(* A summary counts what the results say and, when all of them could be    *)
(* read, all of it.                                                        *)
LEMMA BuildIsTruthful ==
  ASSUME NEW found, ReadRightly(found), NEW j \in Jobs
  PROVE  /\ Build(found)[j] = "valid" =>
              result[j] \in {"valid", "unreadable"} /\ Bracketed(Plan[j].block)
         /\ Measured(j) /\ (\A i \in Jobs : result[i] \in Decodable /\ found[i] = result[i]) =>
              (Build(found)[j] = "valid" <=> result[j] = "valid" /\ Bracketed(Plan[j].block))
<1>1. Plan[j].block \in BlocksOfPlan
  BY DEF BlocksOfPlan
<1>2. Plan[j].block \notin InvalidBlocks(found) => Bracketed(Plan[j].block)
  BY <1>1 DEF InvalidBlocks, Bracketed, Loaded, ReadRightly, IsValid, Decodable
<1>3. ASSUME \A i \in Jobs : result[i] \in Decodable /\ found[i] = result[i]
      PROVE  Plan[j].block \notin InvalidBlocks(found) <=> Bracketed(Plan[j].block)
  BY <1>1, <1>3 DEF InvalidBlocks, Bracketed, Loaded, Decodable, IsValid
<1>4. Measured(j) /\ IsValid(found[j]) <=> Measured(j) /\ found[j] = "valid"
  BY DEF ReadRightly, Verdicts, Measured, IsValid
<1>5. Build(found)[j] = "valid" <=>
        /\ j \in Loaded(found) /\ Measured(j) /\ IsValid(found[j])
        /\ Plan[j].block \notin InvalidBlocks(found)
  BY DEF Build
<1>6. j \in Loaded(found) <=> found[j] \in Decodable
  BY DEF Loaded
<1>7. ASSUME Build(found)[j] = "valid"
      PROVE  result[j] \in {"valid", "unreadable"}
  BY <1>4, <1>5, <1>6, <1>7 DEF ReadRightly
<1> QED
  BY <1>2, <1>3, <1>4, <1>5, <1>6, <1>7

(* The steps at which the loop is at a job, and those at which this job    *)
(* has returned.                                                           *)
Working == {"run", "cooldown", "probe", "save", "decide"}
Past == Working \ {"run"}

(* The loop is done with job j, in this launch. *)
Behind(j) == j < cursor \/ (j = cursor /\ pc \in Past)

(* A process that has not begun its loop knows nothing. *)
Idle ==
  pc \in {"down", "init"} =>
    cursor = 1 /\ memory = Blank /\ ~cancelled /\ ~runErrors /\ ran = {}

(* The loop stands at a job while it works on one, and a job that runs has *)
(* no result yet.                                                          *)
CursorInPlace ==
  /\ pc \in Working => cursor \in Jobs
  /\ pc = "run" => result[cursor] = "none"

(* What the process remembers of a job without error agrees with its       *)
(* result: this is what SaveState copies into state.json.                  *)
MemoryMatchesResults ==
  \A j \in Jobs : memory[j].complete /\ ~memory[j].error =>
    \/ result[j] = "unreadable"
    \/ result[j] \in Decodable /\ IsValid(result[j]) = memory[j].valid

(* What the loop is done with is complete, and has a result unless it      *)
(* could not be written.                                                   *)
BehindIsDone ==
  \A j \in Jobs : Behind(j) =>
    memory[j].complete /\ (result[j] # "none" \/ j \in lost)

(* A launch runs jobs up to the one it is at. *)
RanInOrder == \A j \in ran : j < cursor \/ (j = cursor /\ pc \in Working)

(* The probe of a PPS case has an answer before the matrix decides. *)
ProbeAnswered ==
  pc \in {"save", "decide"} /\ MustProbe(cursor) /\ ~cancelled =>
    memory[cursor].recovery \in {"proved", "failed"}

(* A launch that ended well has left a complete state.json. *)
StateIsComplete ==
  /\ pc \in {"summarize", "publish"} => \A j \in Jobs : state[j].complete
  /\ exit = "ok" => pc = "down" /\ \A j \in Jobs : state[j].complete

(* What a summary is being built from.  The results a launch has read, and *)
(* those a command has read after the launch completed state.json, are the *)
(* results as they are, and no job can run before the summary is written.  *)
ReadsAreRight ==
  /\ ReadRightly(draft)
  /\ pc = "publish" => \A j \in Jobs :
       /\ draft[j] = result[j] \/ result[j] = "unreadable"
       /\ runErrors \/ draft[j] \in Decodable
  /\ command # NoFile =>
       /\ ReadRightly(command.found)
       /\ ~command.early /\ (pc \in {"summarize", "publish"} \/ exit = "ok") =>
            \A j \in Jobs \ command.unread :
              command.found[j] = result[j] \/ result[j] = "unreadable"

(* They stay so when nothing is read and no result changes. *)
LEMMA ReadsKept ==
  ASSUME ReadsAreRight, UNCHANGED <<draft, command, result>>,
         pc' \in {"summarize", "publish"} => pc' = pc /\ runErrors' = runErrors,
         exit' = "ok" => exit = "ok"
  PROVE  ReadsAreRight'
<1>1. ReadRightly(draft)'
  BY DEF ReadsAreRight, ReadRightly, Verdicts, IsCase
<1>2. command' # NoFile => ReadRightly(command.found)'
  BY DEF ReadsAreRight, ReadRightly, Verdicts, IsCase
<1> QED
  BY <1>1, <1>2 DEF ReadsAreRight

(* They stay so when a result is damaged, or when one is added while no    *)
(* launch has got as far as its summary.                                   *)
LEMMA ReadsKeptByResults ==
  ASSUME TypeOK, ReadsAreRight, ResultsKept, UNCHANGED <<draft, command>>,
         \/ UNCHANGED <<pc, runErrors, exit>>
              /\ \A j \in Jobs : result[j] = "none" => result'[j] = "none"
         \/ pc' \notin {"summarize", "publish"} /\ exit' # "ok"
  PROVE  ReadsAreRight'
<1>1. ReadRightly(draft)'
  BY DEF ReadsAreRight, ReadRightly, ResultsKept, Verdicts, IsCase, Decodable
<1>2. command' # NoFile => ReadRightly(command.found)'
  BY DEF ReadsAreRight, ReadRightly, ResultsKept, Verdicts, IsCase, Decodable
<1>3. ASSUME \A j \in Jobs : result[j] = "none" => result'[j] = "none", NEW found,
             NEW j \in Jobs, found[j] = result[j] \/ result[j] = "unreadable",
             result[j] \in {"none", "unreadable"} \cup Decodable
      PROVE  found[j] = result'[j] \/ result'[j] = "unreadable"
  BY <1>3 DEF ResultsKept
<1> QED
  BY <1>1, <1>2, <1>3 DEF ReadsAreRight, TypeOK

IInv == /\ TypeOK
        /\ Idle
        /\ CursorInPlace
        /\ CaseVerdicts
        /\ MemoryMatchesResults
        /\ StateMatchesResults
        /\ BehindIsDone
        /\ RanInOrder
        /\ ProbeAnswered
        /\ NothingAfterFailure
        /\ InPlanOrder
        /\ StateIsComplete
        /\ SummaryIsTruthful
        /\ ReadsAreRight

LEMMA LaunchKeeps == IInv /\ Launch => IInv'
<1> SUFFICES ASSUME IInv, Launch PROVE IInv'
  OBVIOUS
<1> USE JobsOfPlan
<1>1. TypeOK'
  <2>1. memory' \in [Jobs -> JobState]
    BY BlankType DEF IInv, TypeOK, Launch, summaryVars, JobState
  <2>2. summary' \in [Jobs -> {"none", "valid", "invalid"}]
    BY BuildType DEF IInv, TypeOK, Launch, summaryVars
  <2>3. result' \in [Jobs -> {"none", "unreadable"} \cup Decodable]
    BY DEF IInv, TypeOK, Launch, summaryVars
  <2> QED
    BY <2>1, <2>2, <2>3 DEF IInv, TypeOK, Launch, summaryVars, hostVars
<1>2. Idle'
  BY DEF IInv, Idle, Launch
<1>3. CursorInPlace'
  BY DEF IInv, CursorInPlace, Working, Launch
<1>4. CaseVerdicts'
  BY DEF IInv, CaseVerdicts, Launch
<1>5. MemoryMatchesResults'
  BY DEF IInv, MemoryMatchesResults, Launch
<1>6. StateMatchesResults'
  BY DEF IInv, StateMatchesResults, NoFile, MemoryMatchesResults, Launch
<1>7. BehindIsDone'
  BY DEF IInv, BehindIsDone, Working, Behind, Past, Launch, hostVars
<1>8. RanInOrder'
  BY DEF IInv, RanInOrder, Working, Launch
<1>9. ProbeAnswered'
  BY DEF IInv, ProbeAnswered, MustProbe, Launch
<1>10. NothingAfterFailure'
  BY DEF IInv, NothingAfterFailure, RanInOrder, ProbeAnswered, MustProbe, Launch
<1>11. InPlanOrder'
  BY DEF IInv, InPlanOrder, BehindIsDone, Behind, Past, Launch, hostVars
<1>12. StateIsComplete'
  BY DEF IInv, StateIsComplete, BehindIsDone, Behind, Past, Launch
<1>13. SummaryIsTruthful'
  BY SummaryKept DEF IInv, Launch, summaryVars
<1>14. ReadsAreRight'
  BY ReadsKept DEF IInv, Launch, summaryVars
<1> QED
  BY <1>1, <1>2, <1>3, <1>4, <1>5, <1>6, <1>7, <1>8, <1>9, <1>10, <1>11, <1>12, <1>13,
     <1>14 DEF IInv

LEMMA RefuseKeeps == IInv /\ Refuse => IInv'
<1> SUFFICES ASSUME IInv, Refuse PROVE IInv'
  OBVIOUS
<1> USE JobsOfPlan
<1>1. TypeOK'
  <2>1. memory' \in [Jobs -> JobState]
    BY BlankType DEF IInv, TypeOK, Refuse, summaryVars, JobState
  <2>2. summary' \in [Jobs -> {"none", "valid", "invalid"}]
    BY BuildType DEF IInv, TypeOK, Refuse, summaryVars, diskVars
  <2>3. result' \in [Jobs -> {"none", "unreadable"} \cup Decodable]
    BY DEF IInv, TypeOK, Refuse, summaryVars, diskVars
  <2> QED
    BY <2>1, <2>2, <2>3 DEF IInv, TypeOK, Refuse, summaryVars, diskVars, hostVars
<1>2. Idle'
  BY DEF IInv, Idle, Refuse
<1>3. CursorInPlace'
  BY DEF IInv, CursorInPlace, Refuse
<1>4. CaseVerdicts'
  BY DEF IInv, CaseVerdicts, Refuse, diskVars
<1>5. MemoryMatchesResults'
  BY DEF IInv, MemoryMatchesResults, Refuse, diskVars
<1>6. StateMatchesResults'
  BY DEF IInv, StateMatchesResults, NoFile, MemoryMatchesResults, Refuse, diskVars
<1>7. BehindIsDone'
  BY DEF IInv, BehindIsDone, Behind, Past, Refuse, diskVars, hostVars
<1>8. RanInOrder'
  BY DEF IInv, RanInOrder, Refuse
<1>9. ProbeAnswered'
  BY DEF IInv, ProbeAnswered, MustProbe, Refuse
<1>10. NothingAfterFailure'
  BY DEF IInv, NothingAfterFailure, RanInOrder, ProbeAnswered, MustProbe, Refuse
<1>11. InPlanOrder'
  BY DEF IInv, InPlanOrder, BehindIsDone, Behind, Past, Refuse, diskVars, hostVars
<1>12. StateIsComplete'
  BY DEF IInv, StateIsComplete, BehindIsDone, Behind, Past, Refuse
<1>13. SummaryIsTruthful'
  BY SummaryKept DEF IInv, Refuse, diskVars, summaryVars
<1>14. ReadsAreRight'
  BY ReadsKept DEF IInv, Refuse, diskVars, summaryVars
<1> QED
  BY <1>1, <1>2, <1>3, <1>4, <1>5, <1>6, <1>7, <1>8, <1>9, <1>10, <1>11, <1>12, <1>13,
     <1>14 DEF IInv

LEMMA SaveFreshKeeps == IInv /\ SaveFresh => IInv'
<1> SUFFICES ASSUME IInv, SaveFresh PROVE IInv'
  OBVIOUS
<1> USE JobsOfPlan
<1>1. TypeOK'
  <2>1. CASE WriteFails /\ UNCHANGED state
    BY <2>1, QuitTyped, FaultTyped DEF IInv, TypeOK, SaveFresh, summaryVars, WriteFails
  <2>2. CASE /\ state' = memory /\ Goto("loop")
             /\ UNCHANGED <<cursor, memory, cancelled, attempt, runErrors, ran, faults>>
    BY <2>2 DEF IInv, TypeOK, SaveFresh, summaryVars, Goto
  <2> QED
    BY <2>1, <2>2 DEF SaveFresh
<1>2. Idle'
  BY DEF IInv, Idle, SaveFresh, WriteFails, Quit, Blank
<1>3. CursorInPlace'
  BY DEF IInv, CursorInPlace, Working, SaveFresh, WriteFails, Quit, Goto, Blank
<1>4. CaseVerdicts'
  BY DEF IInv, CaseVerdicts, SaveFresh, WriteFails, Quit, Blank
<1>5. MemoryMatchesResults'
  BY DEF IInv, MemoryMatchesResults, SaveFresh, WriteFails, Quit, Blank
<1>6. StateMatchesResults'
  BY DEF IInv, StateMatchesResults, NoFile, MemoryMatchesResults, SaveFresh,
     WriteFails, Quit, Blank
<1>7. BehindIsDone'
  BY DEF IInv, BehindIsDone, Working, Behind, Past, SaveFresh, WriteFails, Quit, Goto,
     Blank
<1>8. RanInOrder'
  BY DEF IInv, RanInOrder, Working, SaveFresh, WriteFails, Quit, Blank
<1>9. ProbeAnswered'
  BY DEF IInv, ProbeAnswered, MustProbe, SaveFresh, WriteFails, Quit, Goto, Blank
<1>10. NothingAfterFailure'
  BY DEF IInv, NothingAfterFailure, RanInOrder, ProbeAnswered, MustProbe, SaveFresh,
     WriteFails, Quit, Blank
<1>11. InPlanOrder'
  BY DEF IInv, InPlanOrder, BehindIsDone, Behind, Past, SaveFresh, WriteFails, Quit,
     Blank
<1>12. StateIsComplete'
  BY DEF IInv, StateIsComplete, BehindIsDone, Behind, Past, SaveFresh, WriteFails,
     Quit, Goto, Blank
<1>13. SummaryIsTruthful'
  BY SummaryKept DEF IInv, SaveFresh, WriteFails, Quit, Goto, summaryVars
<1>14. ReadsAreRight'
  BY ReadsKept DEF IInv, SaveFresh, WriteFails, Quit, Goto, summaryVars
<1> QED
  BY <1>1, <1>2, <1>3, <1>4, <1>5, <1>6, <1>7, <1>8, <1>9, <1>10, <1>11, <1>12, <1>13,
     <1>14 DEF IInv

LEMMA SkipDoneKeeps == IInv /\ SkipDone => IInv'
<1> SUFFICES ASSUME IInv, SkipDone PROVE IInv'
  OBVIOUS
<1> USE JobsOfPlan
<1>1. TypeOK'
  <2>1. memory \in [Jobs -> JobState] /\ cursor \in Jobs
    BY DEF IInv, TypeOK, SkipDone, summaryVars, AtJob
  <2>2. memory' = [memory EXCEPT ![cursor].complete = TRUE,
                                 ![cursor].valid = IsValid(result[cursor])]
    BY DEF SkipDone
  <2>3. memory' \in [Jobs -> JobState]
    <3> DEFINE v == IsValid(result[cursor])
    <3>1. v \in BOOLEAN
      BY DEF IsValid
    <3>2. memory' = [memory EXCEPT ![cursor].complete = TRUE, ![cursor].valid = v]
      BY <2>2
    <3> HIDE DEF v
    <3> QED
      BY <2>1, <3>1, <3>2 DEF JobState
  <2>4. cursor' \in 1..(Len(Plan) + 1)
    BY <2>1 DEF SkipDone
  <2> QED
    BY <2>3, <2>4 DEF IInv, TypeOK, SkipDone, summaryVars, diskVars, hostVars
<1>2. Idle'
  BY DEF IInv, Idle, SkipDone, AtJob
<1>3. CursorInPlace'
  BY DEF IInv, CursorInPlace, Working, SkipDone, AtJob
<1>4. CaseVerdicts'
  BY DEF IInv, CaseVerdicts, SkipDone, AtJob, diskVars
<1>5. MemoryMatchesResults'
  BY DEF IInv, TypeOK, MemoryMatchesResults, SkipDone, AtJob, diskVars
<1>6. StateMatchesResults'
  BY DEF IInv, StateMatchesResults, NoFile, MemoryMatchesResults, SkipDone, AtJob,
     diskVars
<1>7. BehindIsDone'
  BY DEF IInv, TypeOK, BehindIsDone, Working, Behind, Past, Decodable, SkipDone,
     AtJob, diskVars, hostVars
<1>8. RanInOrder'
  BY DEF IInv, TypeOK, RanInOrder, SkipDone, AtJob
<1>9. ProbeAnswered'
  BY DEF IInv, ProbeAnswered, MustProbe, SkipDone, AtJob
<1>10. NothingAfterFailure'
  BY DEF IInv, TypeOK, NothingAfterFailure, Working, RanInOrder, ProbeAnswered,
     MustProbe, SkipDone, AtJob
<1>11. InPlanOrder'
  BY DEF IInv, InPlanOrder, BehindIsDone, Behind, Past, SkipDone, AtJob, diskVars,
     hostVars
<1>12. StateIsComplete'
  BY DEF IInv, StateIsComplete, BehindIsDone, Behind, Past, SkipDone, AtJob
<1>13. SummaryIsTruthful'
  BY SummaryKept DEF IInv, SkipDone, diskVars, summaryVars
<1>14. ReadsAreRight'
  BY ReadsKept DEF IInv, SkipDone, diskVars, summaryVars
<1> QED
  BY <1>1, <1>2, <1>3, <1>4, <1>5, <1>6, <1>7, <1>8, <1>9, <1>10, <1>11, <1>12, <1>13,
     <1>14 DEF IInv

LEMMA RefuseUnreadableKeeps == IInv /\ RefuseUnreadable => IInv'
<1> SUFFICES ASSUME IInv, RefuseUnreadable PROVE IInv'
  OBVIOUS
<1> USE JobsOfPlan
<1>1. TypeOK'
  BY QuitTyped DEF IInv, TypeOK, RefuseUnreadable, summaryVars, diskVars, hostVars
<1>2. Idle'
  BY DEF IInv, Idle, RefuseUnreadable, AtJob, Quit, Blank
<1>3. CursorInPlace'
  BY DEF IInv, CursorInPlace, RefuseUnreadable, AtJob, Quit, Blank
<1>4. CaseVerdicts'
  BY DEF IInv, CaseVerdicts, RefuseUnreadable, AtJob, Quit, diskVars, Blank
<1>5. MemoryMatchesResults'
  BY DEF IInv, MemoryMatchesResults, RefuseUnreadable, AtJob, Quit, Blank
<1>6. StateMatchesResults'
  BY DEF IInv, StateMatchesResults, NoFile, MemoryMatchesResults, RefuseUnreadable,
     AtJob, Quit, diskVars, Blank
<1>7. BehindIsDone'
  BY DEF IInv, BehindIsDone, Working, Behind, Past, RefuseUnreadable, AtJob, Quit,
     Blank
<1>8. RanInOrder'
  BY DEF IInv, RanInOrder, RefuseUnreadable, AtJob, Quit, Blank
<1>9. ProbeAnswered'
  BY DEF IInv, ProbeAnswered, MustProbe, RefuseUnreadable, AtJob, Quit, Blank
<1>10. NothingAfterFailure'
  BY DEF IInv, NothingAfterFailure, RanInOrder, ProbeAnswered, MustProbe,
     RefuseUnreadable, AtJob, Quit, Blank
<1>11. InPlanOrder'
  BY DEF IInv, InPlanOrder, BehindIsDone, Behind, Past, RefuseUnreadable, AtJob, Quit,
     diskVars, hostVars, Blank
<1>12. StateIsComplete'
  BY DEF IInv, StateIsComplete, BehindIsDone, Behind, Past, RefuseUnreadable, AtJob,
     Quit, Blank
<1>13. SummaryIsTruthful'
  BY SummaryKept DEF IInv, RefuseUnreadable, Quit, diskVars, summaryVars
<1>14. ReadsAreRight'
  BY ReadsKept DEF IInv, RefuseUnreadable, Quit, diskVars, summaryVars
<1> QED
  BY <1>1, <1>2, <1>3, <1>4, <1>5, <1>6, <1>7, <1>8, <1>9, <1>10, <1>11, <1>12, <1>13,
     <1>14 DEF IInv

LEMMA BeginJobKeeps == IInv /\ BeginJob => IInv'
<1> SUFFICES ASSUME IInv, BeginJob PROVE IInv'
  OBVIOUS
<1> USE JobsOfPlan
<1>1. TypeOK'
  <2>1. memory' \in [Jobs -> JobState]
    BY BlankType DEF IInv, TypeOK, BeginJob, summaryVars, AtJob, JobState
  <2>2. summary' \in [Jobs -> {"none", "valid", "invalid"}]
    BY BuildType DEF IInv, TypeOK, BeginJob, summaryVars, AtJob, diskVars
  <2>3. result' \in [Jobs -> {"none", "unreadable"} \cup Decodable]
    BY DEF IInv, TypeOK, BeginJob, summaryVars, AtJob, diskVars
  <2> QED
    BY <2>1, <2>2, <2>3 DEF IInv, TypeOK, BeginJob, summaryVars, AtJob, Goto, diskVars, hostVars
<1>2. Idle'
  BY DEF IInv, Idle, BeginJob, AtJob, Goto
<1>3. CursorInPlace'
  BY DEF IInv, CursorInPlace, BeginJob, AtJob, Goto, diskVars
<1>4. CaseVerdicts'
  BY DEF IInv, CaseVerdicts, BeginJob, AtJob, diskVars
<1>5. MemoryMatchesResults'
  BY DEF IInv, MemoryMatchesResults, BeginJob, AtJob, diskVars
<1>6. StateMatchesResults'
  BY DEF IInv, StateMatchesResults, NoFile, MemoryMatchesResults, BeginJob, AtJob,
     diskVars
<1>7. BehindIsDone'
  BY DEF IInv, BehindIsDone, Behind, Past, BeginJob, AtJob, Goto, diskVars, hostVars
<1>8. RanInOrder'
  BY DEF IInv, RanInOrder, Working, BeginJob, AtJob, Goto
<1>9. ProbeAnswered'
  BY DEF IInv, ProbeAnswered, MustProbe, BeginJob, AtJob, Goto
<1>10. NothingAfterFailure'
  BY DEF IInv, NothingAfterFailure, RanInOrder, ProbeAnswered, MustProbe, BeginJob,
     AtJob
<1>11. InPlanOrder'
  BY DEF IInv, InPlanOrder, BehindIsDone, Behind, Past, BeginJob, AtJob, diskVars,
     hostVars
<1>12. StateIsComplete'
  BY DEF IInv, StateIsComplete, BehindIsDone, Behind, Past, BeginJob, AtJob, Goto
<1>13. SummaryIsTruthful'
  BY SummaryKept DEF IInv, BeginJob, Goto, diskVars, summaryVars
<1>14. ReadsAreRight'
  BY ReadsKept DEF IInv, BeginJob, Goto, diskVars, summaryVars
<1> QED
  BY <1>1, <1>2, <1>3, <1>4, <1>5, <1>6, <1>7, <1>8, <1>9, <1>10, <1>11, <1>12, <1>13,
     <1>14 DEF IInv

LEMMA FinishJobKeeps == IInv /\ FinishJob => IInv'
<1> SUFFICES ASSUME IInv, FinishJob PROVE IInv'
  OBVIOUS
<1> USE JobsOfPlan
<1>1. TypeOK'
  <2>1. memory \in [Jobs -> JobState] /\ cursor \in Jobs
    BY DEF IInv, TypeOK, CursorInPlace, Working, FinishJob, summaryVars
  <2>2. PICK verdict \in Verdicts(cursor), error \in BOOLEAN, written \in BOOLEAN :
          FinishJob!2!(verdict, error, written)
    BY DEF FinishJob
  <2>3. memory' \in [Jobs -> JobState]
    <3> DEFINE v == IsValid(verdict)
               e == error \/ ~written
    <3>1. v \in BOOLEAN /\ e \in BOOLEAN
      BY DEF IsValid
    <3>2. memory' = [memory EXCEPT ![cursor].complete = TRUE, ![cursor].valid = v,
                                   ![cursor].error = e]
      BY <2>2
    <3> HIDE DEF v, e
    <3> QED
      BY <2>1, <3>1, <3>2 DEF JobState
  <2>4. result' \in [Jobs -> {"none", "unreadable"} \cup Decodable]
    BY <2>1, <2>2 DEF IInv, TypeOK, Verdicts, Decodable
  <2>5. faults' \in 0..MaxFaults /\ lost' \subseteq Jobs
    BY <2>1, <2>2, FaultTyped DEF IInv, TypeOK
  <2>6. runErrors' \in BOOLEAN /\ stressed' \in BOOLEAN
    BY <2>2 DEF IInv, FinishJob, Stresses, IsCase
  <2> QED
    BY <2>3, <2>4, <2>5, <2>6 DEF IInv, TypeOK, FinishJob, summaryVars, Goto
<1>2. Idle'
  BY DEF IInv, Idle, FinishJob, Goto
<1>3. CursorInPlace'
  BY DEF IInv, CursorInPlace, Working, FinishJob, Goto
<1>4. CaseVerdicts'
  BY DEF IInv, TypeOK, CaseVerdicts, FinishJob
<1>5. MemoryMatchesResults'
  <2>1. memory \in [Jobs -> JobState] /\ cursor \in Jobs /\ result[cursor] = "none"
    BY DEF IInv, TypeOK, CursorInPlace, Working, FinishJob
  <2>2. PICK verdict \in Verdicts(cursor), error \in BOOLEAN, written \in BOOLEAN :
          FinishJob!2!(verdict, error, written)
    BY DEF FinishJob
  <2>3. verdict \in Decodable
    BY DEF Verdicts, Decodable
  <2>4. \A j \in Jobs : j # cursor => memory'[j] = memory[j] /\ result'[j] = result[j]
    BY <2>1, <2>2 DEF IInv, TypeOK
  <2>5. memory'[cursor].valid = IsValid(verdict)
        /\ memory'[cursor].error = (error \/ ~written)
    BY <2>1, <2>2 DEF JobState
  <2>6. written => result'[cursor] = verdict
    BY <2>1, <2>2 DEF IInv, TypeOK
  <2> QED
    BY <2>3, <2>4, <2>5, <2>6 DEF IInv, MemoryMatchesResults
<1>6. StateMatchesResults'
  BY DEF IInv, TypeOK, StateMatchesResults, CursorInPlace, Working, Decodable, NoFile,
     MemoryMatchesResults, FinishJob
<1>7. BehindIsDone'
  BY DEF IInv, TypeOK, BehindIsDone, Behind, Past, Decodable, Verdicts, FinishJob
<1>8. RanInOrder'
  BY DEF IInv, RanInOrder, Working, FinishJob, Goto
<1>9. ProbeAnswered'
  BY DEF IInv, ProbeAnswered, MustProbe, FinishJob, Goto
<1>10. NothingAfterFailure'
  BY DEF IInv, TypeOK, NothingAfterFailure, RanInOrder, ProbeAnswered, MustProbe,
     FinishJob
<1>11. InPlanOrder'
  BY DEF IInv, TypeOK, InPlanOrder, Working, BehindIsDone, Behind, Verdicts,
     Decodable, Past, FinishJob
<1>12. StateIsComplete'
  BY DEF IInv, StateIsComplete, BehindIsDone, Behind, Past, FinishJob, Goto
<1>13. SummaryIsTruthful'
  <2>1. ResultsKept
    BY DEF IInv, TypeOK, CursorInPlace, FinishJob, ResultsKept, Decodable
  <2> QED
    BY <2>1, SummaryKeptByResults DEF IInv, FinishJob, Goto, summaryVars
<1>14. ReadsAreRight'
  <2>1. ResultsKept
    BY DEF IInv, TypeOK, CursorInPlace, ResultsKept, Decodable, FinishJob
  <2> QED
    BY <2>1, ReadsKeptByResults DEF IInv, StateIsComplete, FinishJob, Goto, summaryVars
<1> QED
  BY <1>1, <1>2, <1>3, <1>4, <1>5, <1>6, <1>7, <1>8, <1>9, <1>10, <1>11, <1>12, <1>13,
     <1>14 DEF IInv

LEMMA CooldownKeeps == IInv /\ Cooldown => IInv'
<1> SUFFICES ASSUME IInv, Cooldown PROVE IInv'
  OBVIOUS
<1> USE JobsOfPlan
<1>1. TypeOK'
  <2>1. memory \in [Jobs -> JobState] /\ cursor \in Jobs
    BY DEF IInv, TypeOK, CursorInPlace, Working, Cooldown, summaryVars
  <2>2. PICK cut \in BOOLEAN :
          /\ memory' = [memory EXCEPT ![cursor].error = @ \/ cut]
          /\ runErrors' = (runErrors \/ cut)
    BY DEF Cooldown
  <2>3. memory' \in [Jobs -> JobState]
    BY <2>1, <2>2 DEF JobState
  <2>4. attempt' \in 0..matrixRecoveryAttempts
    BY DEF IInv, TypeOK, Cooldown, summaryVars, matrixRecoveryAttempts
  <2> QED
    BY <2>2, <2>3, <2>4 DEF IInv, TypeOK, Cooldown, summaryVars, Goto, diskVars, hostVars
<1>2. Idle'
  BY DEF IInv, Idle, Cooldown, Goto
<1>3. CursorInPlace'
  BY DEF IInv, CursorInPlace, Working, Cooldown, Goto
<1>4. CaseVerdicts'
  BY DEF IInv, CaseVerdicts, Cooldown, diskVars
<1>5. MemoryMatchesResults'
  <2>1. memory \in [Jobs -> JobState] /\ cursor \in Jobs
    BY DEF IInv, TypeOK, CursorInPlace, Working, Cooldown
  <2>2. PICK cut \in BOOLEAN : memory' = [memory EXCEPT ![cursor].error = @ \/ cut]
    BY DEF Cooldown
  <2>3. \A j \in Jobs : /\ memory'[j].complete = memory[j].complete
                        /\ memory'[j].valid = memory[j].valid
                        /\ memory[j].error => memory'[j].error
    BY <2>1, <2>2 DEF JobState
  <2> QED
    BY <2>3 DEF IInv, MemoryMatchesResults, Cooldown, diskVars
<1>6. StateMatchesResults'
  BY DEF IInv, StateMatchesResults, NoFile, MemoryMatchesResults, Cooldown, diskVars
<1>7. BehindIsDone'
  BY DEF IInv, BehindIsDone, Working, Behind, Past, Cooldown, diskVars, hostVars
<1>8. RanInOrder'
  BY DEF IInv, RanInOrder, Working, Cooldown, Goto
<1>9. ProbeAnswered'
  BY DEF IInv, ProbeAnswered, MustProbe, Cooldown, Goto
<1>10. NothingAfterFailure'
  BY DEF IInv, NothingAfterFailure, RanInOrder, ProbeAnswered, MustProbe, Cooldown
<1>11. InPlanOrder'
  BY DEF IInv, InPlanOrder, BehindIsDone, Behind, Past, Cooldown, diskVars, hostVars
<1>12. StateIsComplete'
  BY DEF IInv, StateIsComplete, BehindIsDone, Behind, Past, Cooldown, Goto
<1>13. SummaryIsTruthful'
  BY SummaryKept DEF IInv, Cooldown, Goto, diskVars, summaryVars
<1>14. ReadsAreRight'
  BY ReadsKept DEF IInv, Cooldown, Goto, diskVars, summaryVars
<1> QED
  BY <1>1, <1>2, <1>3, <1>4, <1>5, <1>6, <1>7, <1>8, <1>9, <1>10, <1>11, <1>12, <1>13,
     <1>14 DEF IInv

LEMMA ProbeSucceedsKeeps == IInv /\ ProbeSucceeds => IInv'
<1> SUFFICES ASSUME IInv, ProbeSucceeds PROVE IInv'
  OBVIOUS
<1> USE JobsOfPlan
<1>1. TypeOK'
  <2>1. memory \in [Jobs -> JobState] /\ cursor \in Jobs
    BY DEF IInv, TypeOK, CursorInPlace, Working, ProbeSucceeds, summaryVars
  <2>2. memory' = [memory EXCEPT ![cursor].recovery = "proved"]
    BY DEF ProbeSucceeds
  <2>3. memory' \in [Jobs -> JobState]
    BY <2>1, <2>2 DEF JobState
  <2>4. attempt' \in 0..matrixRecoveryAttempts
    BY DEF ProbeSucceeds, matrixRecoveryAttempts
  <2> QED
    BY <2>3, <2>4 DEF IInv, TypeOK, ProbeSucceeds, summaryVars, Goto, diskVars
<1>2. Idle'
  BY DEF IInv, Idle, ProbeSucceeds, Goto
<1>3. CursorInPlace'
  BY DEF IInv, CursorInPlace, Working, ProbeSucceeds, Goto
<1>4. CaseVerdicts'
  BY DEF IInv, CaseVerdicts, ProbeSucceeds, diskVars
<1>5. MemoryMatchesResults'
  BY DEF IInv, MemoryMatchesResults, ProbeSucceeds, diskVars
<1>6. StateMatchesResults'
  BY DEF IInv, StateMatchesResults, NoFile, MemoryMatchesResults, ProbeSucceeds,
     diskVars
<1>7. BehindIsDone'
  BY DEF IInv, BehindIsDone, Working, Behind, Past, ProbeSucceeds, diskVars
<1>8. RanInOrder'
  BY DEF IInv, RanInOrder, Working, ProbeSucceeds, Goto
<1>9. ProbeAnswered'
  BY DEF IInv, TypeOK, ProbeAnswered, CursorInPlace, Working, MustProbe, ProbeSucceeds
<1>10. NothingAfterFailure'
  BY DEF IInv, NothingAfterFailure, RanInOrder, ProbeAnswered, MustProbe,
     ProbeSucceeds
<1>11. InPlanOrder'
  BY DEF IInv, InPlanOrder, BehindIsDone, Behind, Past, ProbeSucceeds, diskVars
<1>12. StateIsComplete'
  BY DEF IInv, StateIsComplete, BehindIsDone, Behind, Past, ProbeSucceeds, Goto
<1>13. SummaryIsTruthful'
  BY SummaryKept DEF IInv, ProbeSucceeds, Goto, diskVars, summaryVars
<1>14. ReadsAreRight'
  BY ReadsKept DEF IInv, ProbeSucceeds, Goto, diskVars, summaryVars
<1> QED
  BY <1>1, <1>2, <1>3, <1>4, <1>5, <1>6, <1>7, <1>8, <1>9, <1>10, <1>11, <1>12, <1>13,
     <1>14 DEF IInv

LEMMA ProbeRetriesKeeps == IInv /\ ProbeRetries => IInv'
<1> SUFFICES ASSUME IInv, ProbeRetries PROVE IInv'
  OBVIOUS
<1> USE JobsOfPlan
<1>1. TypeOK'
  <2>1. memory' \in [Jobs -> JobState]
    BY BlankType DEF IInv, TypeOK, ProbeRetries, summaryVars, JobState
  <2>2. summary' \in [Jobs -> {"none", "valid", "invalid"}]
    BY BuildType DEF IInv, TypeOK, ProbeRetries, summaryVars, diskVars
  <2>3. result' \in [Jobs -> {"none", "unreadable"} \cup Decodable]
    BY DEF IInv, TypeOK, ProbeRetries, summaryVars, diskVars
  <2> QED
    BY <2>1, <2>2, <2>3 DEF IInv, TypeOK, ProbeRetries, summaryVars, diskVars, hostVars,
       matrixRecoveryAttempts
<1>2. Idle'
  BY DEF IInv, Idle, ProbeRetries
<1>3. CursorInPlace'
  BY DEF IInv, CursorInPlace, ProbeRetries
<1>4. CaseVerdicts'
  BY DEF IInv, CaseVerdicts, ProbeRetries, diskVars
<1>5. MemoryMatchesResults'
  BY DEF IInv, MemoryMatchesResults, ProbeRetries, diskVars
<1>6. StateMatchesResults'
  BY DEF IInv, StateMatchesResults, NoFile, MemoryMatchesResults, ProbeRetries,
     diskVars
<1>7. BehindIsDone'
  BY DEF IInv, BehindIsDone, Behind, Past, ProbeRetries, diskVars, hostVars
<1>8. RanInOrder'
  BY DEF IInv, RanInOrder, ProbeRetries
<1>9. ProbeAnswered'
  BY DEF IInv, ProbeAnswered, MustProbe, ProbeRetries
<1>10. NothingAfterFailure'
  BY DEF IInv, NothingAfterFailure, RanInOrder, ProbeAnswered, MustProbe, ProbeRetries
<1>11. InPlanOrder'
  BY DEF IInv, InPlanOrder, BehindIsDone, Behind, Past, ProbeRetries, diskVars,
     hostVars
<1>12. StateIsComplete'
  BY DEF IInv, StateIsComplete, BehindIsDone, Behind, Past, ProbeRetries
<1>13. SummaryIsTruthful'
  BY SummaryKept DEF IInv, ProbeRetries, diskVars, summaryVars
<1>14. ReadsAreRight'
  BY ReadsKept DEF IInv, ProbeRetries, diskVars, summaryVars
<1> QED
  BY <1>1, <1>2, <1>3, <1>4, <1>5, <1>6, <1>7, <1>8, <1>9, <1>10, <1>11, <1>12, <1>13,
     <1>14 DEF IInv

LEMMA ProbeFailsKeeps == IInv /\ ProbeFails => IInv'
<1> SUFFICES ASSUME IInv, ProbeFails PROVE IInv'
  OBVIOUS
<1> USE JobsOfPlan
<1>1. TypeOK'
  <2>1. memory \in [Jobs -> JobState] /\ cursor \in Jobs
    BY DEF IInv, TypeOK, CursorInPlace, Working, ProbeFails, summaryVars
  <2>2. memory' = [memory EXCEPT ![cursor].recovery = "failed", ![cursor].error = TRUE]
    BY DEF ProbeFails
  <2>3. memory' \in [Jobs -> JobState]
    BY <2>1, <2>2 DEF JobState
  <2>4. attempt' \in 0..matrixRecoveryAttempts
    BY DEF ProbeFails, matrixRecoveryAttempts
  <2> QED
    BY <2>3, <2>4 DEF IInv, TypeOK, ProbeFails, summaryVars, Goto, diskVars, hostVars
<1>2. Idle'
  BY DEF IInv, Idle, ProbeFails, Goto
<1>3. CursorInPlace'
  BY DEF IInv, CursorInPlace, Working, ProbeFails, Goto
<1>4. CaseVerdicts'
  BY DEF IInv, CaseVerdicts, ProbeFails, diskVars
<1>5. MemoryMatchesResults'
  BY DEF IInv, TypeOK, MemoryMatchesResults, ProbeFails, diskVars
<1>6. StateMatchesResults'
  BY DEF IInv, StateMatchesResults, NoFile, MemoryMatchesResults, ProbeFails, diskVars
<1>7. BehindIsDone'
  BY DEF IInv, TypeOK, BehindIsDone, Working, Behind, Past, ProbeFails, diskVars,
     hostVars
<1>8. RanInOrder'
  BY DEF IInv, RanInOrder, Working, ProbeFails, Goto
<1>9. ProbeAnswered'
  BY DEF IInv, TypeOK, ProbeAnswered, CursorInPlace, Working, MustProbe, ProbeFails
<1>10. NothingAfterFailure'
  BY DEF IInv, TypeOK, NothingAfterFailure, RanInOrder, ProbeAnswered, MustProbe,
     ProbeFails
<1>11. InPlanOrder'
  BY DEF IInv, InPlanOrder, BehindIsDone, Behind, Past, ProbeFails, diskVars, hostVars
<1>12. StateIsComplete'
  BY DEF IInv, StateIsComplete, BehindIsDone, Behind, Past, ProbeFails, Goto
<1>13. SummaryIsTruthful'
  BY SummaryKept DEF IInv, ProbeFails, Goto, diskVars, summaryVars
<1>14. ReadsAreRight'
  BY ReadsKept DEF IInv, ProbeFails, Goto, diskVars, summaryVars
<1> QED
  BY <1>1, <1>2, <1>3, <1>4, <1>5, <1>6, <1>7, <1>8, <1>9, <1>10, <1>11, <1>12, <1>13,
     <1>14 DEF IInv

LEMMA SaveStateKeeps == IInv /\ SaveState => IInv'
<1> SUFFICES ASSUME IInv, SaveState PROVE IInv'
  OBVIOUS
<1> USE JobsOfPlan
<1>1. TypeOK'
  <2>1. CASE WriteFails /\ UNCHANGED state
    BY <2>1, QuitTyped, FaultTyped DEF IInv, TypeOK, SaveState, summaryVars, WriteFails
  <2>2. CASE /\ state' = memory /\ Goto("decide")
             /\ UNCHANGED <<cursor, memory, cancelled, attempt, runErrors, ran, faults>>
    BY <2>2 DEF IInv, TypeOK, SaveState, summaryVars, Goto
  <2> QED
    BY <2>1, <2>2 DEF SaveState
<1>2. Idle'
  BY DEF IInv, Idle, SaveState, WriteFails, Quit, Goto, Blank
<1>3. CursorInPlace'
  BY DEF IInv, CursorInPlace, Working, SaveState, WriteFails, Quit, Goto, Blank
<1>4. CaseVerdicts'
  BY DEF IInv, CaseVerdicts, SaveState, WriteFails, Quit, Blank
<1>5. MemoryMatchesResults'
  BY DEF IInv, MemoryMatchesResults, SaveState, WriteFails, Quit, Blank
<1>6. StateMatchesResults'
  BY DEF IInv, StateMatchesResults, NoFile, MemoryMatchesResults, SaveState,
     WriteFails, Quit, Blank
<1>7. BehindIsDone'
  BY DEF IInv, BehindIsDone, Working, Behind, Past, SaveState, WriteFails, Quit, Blank
<1>8. RanInOrder'
  BY DEF IInv, RanInOrder, Working, SaveState, WriteFails, Quit, Goto, Blank
<1>9. ProbeAnswered'
  BY DEF IInv, ProbeAnswered, MustProbe, SaveState, WriteFails, Quit, Blank
<1>10. NothingAfterFailure'
  BY DEF IInv, NothingAfterFailure, RanInOrder, ProbeAnswered, MustProbe, SaveState,
     WriteFails, Quit, Blank
<1>11. InPlanOrder'
  BY DEF IInv, InPlanOrder, BehindIsDone, Behind, Past, SaveState, WriteFails, Quit,
     Blank
<1>12. StateIsComplete'
  BY DEF IInv, StateIsComplete, BehindIsDone, Behind, Past, SaveState, WriteFails,
     Quit, Goto, Blank
<1>13. SummaryIsTruthful'
  BY SummaryKept DEF IInv, SaveState, WriteFails, Quit, Goto, summaryVars
<1>14. ReadsAreRight'
  BY ReadsKept DEF IInv, SaveState, WriteFails, Quit, Goto, summaryVars
<1> QED
  BY <1>1, <1>2, <1>3, <1>4, <1>5, <1>6, <1>7, <1>8, <1>9, <1>10, <1>11, <1>12, <1>13,
     <1>14 DEF IInv

LEMMA StopEarlyKeeps == IInv /\ StopEarly => IInv'
<1> SUFFICES ASSUME IInv, StopEarly PROVE IInv'
  OBVIOUS
<1> USE JobsOfPlan
<1>1. TypeOK'
  BY QuitTyped DEF IInv, TypeOK, StopEarly, summaryVars, diskVars, hostVars
<1>2. Idle'
  BY DEF IInv, Idle, StopEarly, Quit, Blank
<1>3. CursorInPlace'
  BY DEF IInv, CursorInPlace, Working, StopEarly, Quit, Blank
<1>4. CaseVerdicts'
  BY DEF IInv, CaseVerdicts, StopEarly, Quit, diskVars, Blank
<1>5. MemoryMatchesResults'
  BY DEF IInv, MemoryMatchesResults, StopEarly, Quit, Blank
<1>6. StateMatchesResults'
  BY DEF IInv, StateMatchesResults, NoFile, MemoryMatchesResults, StopEarly, Quit,
     diskVars, Blank
<1>7. BehindIsDone'
  BY DEF IInv, BehindIsDone, Working, Behind, Past, StopEarly, Quit, Blank
<1>8. RanInOrder'
  BY DEF IInv, RanInOrder, StopEarly, Quit, Blank
<1>9. ProbeAnswered'
  BY DEF IInv, ProbeAnswered, MustProbe, StopEarly, Quit, Blank
<1>10. NothingAfterFailure'
  BY DEF IInv, NothingAfterFailure, RanInOrder, ProbeAnswered, MustProbe, StopEarly,
     Quit, Blank
<1>11. InPlanOrder'
  BY DEF IInv, InPlanOrder, BehindIsDone, Behind, Past, StopEarly, Quit, diskVars,
     hostVars, Blank
<1>12. StateIsComplete'
  BY DEF IInv, StateIsComplete, BehindIsDone, Behind, Past, StopEarly, Quit, Blank
<1>13. SummaryIsTruthful'
  BY SummaryKept DEF IInv, StopEarly, Quit, diskVars, summaryVars
<1>14. ReadsAreRight'
  BY ReadsKept DEF IInv, StopEarly, Quit, diskVars, summaryVars
<1> QED
  BY <1>1, <1>2, <1>3, <1>4, <1>5, <1>6, <1>7, <1>8, <1>9, <1>10, <1>11, <1>12, <1>13,
     <1>14 DEF IInv

LEMMA NextJobKeeps == IInv /\ NextJob => IInv'
<1> SUFFICES ASSUME IInv, NextJob PROVE IInv'
  OBVIOUS
<1> USE JobsOfPlan
<1>1. TypeOK'
  <2>1. memory' \in [Jobs -> JobState]
    BY BlankType DEF IInv, TypeOK, NextJob, summaryVars, MustStop, JobState
  <2>2. summary' \in [Jobs -> {"none", "valid", "invalid"}]
    BY BuildType DEF IInv, TypeOK, NextJob, summaryVars, MustStop, diskVars
  <2>3. result' \in [Jobs -> {"none", "unreadable"} \cup Decodable]
    BY DEF IInv, TypeOK, NextJob, summaryVars, MustStop, diskVars
  <2> QED
    BY <2>1, <2>2, <2>3 DEF IInv, TypeOK, CursorInPlace, Working, NextJob, summaryVars, Goto,
       MustStop, diskVars, hostVars
<1>2. Idle'
  BY DEF IInv, Idle, NextJob, Goto, MustStop
<1>3. CursorInPlace'
  BY DEF IInv, CursorInPlace, Working, NextJob, Goto, MustStop
<1>4. CaseVerdicts'
  BY DEF IInv, CaseVerdicts, NextJob, MustStop, diskVars
<1>5. MemoryMatchesResults'
  BY DEF IInv, MemoryMatchesResults, NextJob, MustStop, diskVars
<1>6. StateMatchesResults'
  BY DEF IInv, StateMatchesResults, NoFile, MemoryMatchesResults, NextJob, MustStop,
     diskVars
<1>7. BehindIsDone'
  BY DEF IInv, TypeOK, BehindIsDone, Working, Behind, Past, NextJob, Goto, MustStop,
     diskVars, hostVars
<1>8. RanInOrder'
  BY DEF IInv, TypeOK, RanInOrder, NextJob, MustStop
<1>9. ProbeAnswered'
  BY DEF IInv, ProbeAnswered, MustProbe, NextJob, Goto, MustStop
<1>10. NothingAfterFailure'
  BY DEF IInv, NothingAfterFailure, RanInOrder, ProbeAnswered, MustProbe, NextJob,
     MustStop
<1>11. InPlanOrder'
  BY DEF IInv, InPlanOrder, BehindIsDone, Behind, Past, NextJob, MustStop, diskVars,
     hostVars
<1>12. StateIsComplete'
  BY DEF IInv, StateIsComplete, BehindIsDone, Behind, Past, NextJob, Goto, MustStop
<1>13. SummaryIsTruthful'
  BY SummaryKept DEF IInv, NextJob, Goto, diskVars, summaryVars
<1>14. ReadsAreRight'
  BY ReadsKept DEF IInv, NextJob, Goto, diskVars, summaryVars
<1> QED
  BY <1>1, <1>2, <1>3, <1>4, <1>5, <1>6, <1>7, <1>8, <1>9, <1>10, <1>11, <1>12, <1>13,
     <1>14 DEF IInv

LEMMA SaveFinalKeeps == IInv /\ SaveFinal => IInv'
<1> SUFFICES ASSUME IInv, SaveFinal PROVE IInv'
  OBVIOUS
<1> USE JobsOfPlan
<1>1. TypeOK'
  <2>1. CASE WriteFails /\ UNCHANGED <<state, command>>
    BY <2>1, QuitTyped, FaultTyped DEF IInv, TypeOK, SaveFinal, WriteFails
  <2>2. CASE /\ state' = memory /\ Goto("summarize")
             /\ command' = IF command = NoFile THEN NoFile ELSE [command EXCEPT !.early = TRUE]
             /\ UNCHANGED <<cursor, memory, cancelled, attempt, runErrors, ran, faults>>
    <3>1. command' = NoFile \/ command' \in CommandState
      BY <2>2 DEF IInv, TypeOK, CommandState
    <3> QED
      BY <2>2, <3>1 DEF IInv, TypeOK, SaveFinal, Goto
  <2> QED
    BY <2>1, <2>2 DEF SaveFinal
<1>2. Idle'
  BY DEF IInv, Idle, SaveFinal, WriteFails, Quit, Goto, Blank
<1>3. CursorInPlace'
  BY DEF IInv, CursorInPlace, Working, SaveFinal, WriteFails, Quit, Goto, Blank
<1>4. CaseVerdicts'
  BY DEF IInv, CaseVerdicts, SaveFinal, WriteFails, Quit, Blank
<1>5. MemoryMatchesResults'
  BY DEF IInv, MemoryMatchesResults, SaveFinal, WriteFails, Quit, Blank
<1>6. StateMatchesResults'
  BY DEF IInv, StateMatchesResults, NoFile, MemoryMatchesResults, SaveFinal,
     WriteFails, Quit, Blank
<1>7. BehindIsDone'
  BY DEF IInv, BehindIsDone, Working, Behind, Past, SaveFinal, WriteFails, Quit, Blank
<1>8. RanInOrder'
  BY DEF IInv, TypeOK, RanInOrder, SaveFinal, WriteFails, Quit, Blank
<1>9. ProbeAnswered'
  BY DEF IInv, ProbeAnswered, MustProbe, SaveFinal, WriteFails, Quit, Goto, Blank
<1>10. NothingAfterFailure'
  BY DEF IInv, NothingAfterFailure, RanInOrder, ProbeAnswered, MustProbe, SaveFinal,
     WriteFails, Quit, Blank
<1>11. InPlanOrder'
  BY DEF IInv, InPlanOrder, BehindIsDone, Behind, Past, SaveFinal, WriteFails, Quit,
     Blank
<1>12. StateIsComplete'
  <2>1. \A j \in Jobs : Behind(j)
    BY DEF IInv, TypeOK, Behind, SaveFinal
  <2> QED
    BY <2>1 DEF IInv, StateIsComplete, BehindIsDone, SaveFinal, WriteFails, Quit, Goto
<1>13. SummaryIsTruthful'
  BY SummaryKept DEF IInv, SaveFinal, WriteFails, Quit, Goto
<1>14. ReadsAreRight'
  <2>1. \A found : ReadRightly(found)' <=> ReadRightly(found)
    BY DEF ReadRightly, Verdicts, IsCase, SaveFinal
  <2>2. CASE WriteFails /\ UNCHANGED <<state, command>>
    BY <2>1, <2>2 DEF IInv, ReadsAreRight, ReadRightly, Verdicts, IsCase, StateIsComplete,
       SaveFinal, WriteFails, Quit
  <2>3. CASE /\ state' = memory /\ Goto("summarize")
             /\ command' = IF command = NoFile THEN NoFile ELSE [command EXCEPT !.early = TRUE]
    <3>1. command' # NoFile =>
            command # NoFile /\ command'.early /\ command'.found = command.found
      BY <2>3 DEF IInv, TypeOK, CommandState
    <3> QED
      BY <2>1, <2>3, <3>1 DEF IInv, ReadsAreRight, ReadRightly, Verdicts, IsCase,
         SaveFinal, Goto
  <2> QED
    BY <2>2, <2>3 DEF SaveFinal
<1> QED
  BY <1>1, <1>2, <1>3, <1>4, <1>5, <1>6, <1>7, <1>8, <1>9, <1>10, <1>11, <1>12, <1>13,
     <1>14 DEF IInv

LEMMA ReadResultsKeeps == IInv /\ ReadResults => IInv'
<1> SUFFICES ASSUME IInv, ReadResults PROVE IInv'
  OBVIOUS
<1> USE JobsOfPlan
<1>1. TypeOK'
  <2>1. draft' \in [Jobs -> {"none", "unreadable"} \cup Decodable]
    BY DEF IInv, TypeOK, ReadResults
  <2>2. runErrors' \in BOOLEAN
    BY DEF ReadResults
  <2> QED
    BY <2>1, <2>2 DEF IInv, TypeOK, ReadResults, Goto, diskVars, hostVars
<1>2. Idle'
  BY DEF IInv, Idle, ReadResults, Goto, diskVars, hostVars
<1>3. CursorInPlace'
  BY DEF IInv, CursorInPlace, Working, ReadResults, Goto, diskVars, hostVars
<1>4. CaseVerdicts'
  BY DEF IInv, CaseVerdicts, ReadResults, Goto, diskVars, hostVars
<1>5. MemoryMatchesResults'
  BY DEF IInv, MemoryMatchesResults, ReadResults, Goto, diskVars, hostVars
<1>6. StateMatchesResults'
  BY DEF IInv, StateMatchesResults, ReadResults, Goto, diskVars, hostVars
<1>7. BehindIsDone'
  BY DEF IInv, BehindIsDone, Behind, Past, Working, ReadResults, Goto, diskVars, hostVars
<1>8. RanInOrder'
  BY DEF IInv, RanInOrder, Working, ReadResults, Goto, diskVars, hostVars
<1>9. ProbeAnswered'
  BY DEF IInv, ProbeAnswered, MustProbe, ReadResults, Goto, diskVars, hostVars
<1>10. NothingAfterFailure'
  BY DEF IInv, NothingAfterFailure, MustProbe, ReadResults, Goto, diskVars, hostVars
<1>11. InPlanOrder'
  BY DEF IInv, InPlanOrder, ReadResults, Goto, diskVars, hostVars
<1>12. StateIsComplete'
  BY DEF IInv, StateIsComplete, ReadResults, Goto, diskVars, hostVars
<1>13. SummaryIsTruthful'
  BY SummaryKept DEF IInv, ReadResults, Goto, diskVars
<1>14. ReadsAreRight'
  <2>1. \A j \in Jobs : draft'[j] = result[j]
    BY DEF IInv, StateIsComplete, ReadResults
  <2>2. \A j \in Jobs : runErrors' \/ result[j] \in Decodable
    BY DEF IInv, StateIsComplete, ReadResults
  <2>3. \A found : ReadRightly(found)' <=> ReadRightly(found)
    BY DEF ReadRightly, Verdicts, IsCase, ReadResults, diskVars
  <2>4. ReadRightly(draft')
    BY <2>1 DEF IInv, CaseVerdicts, ReadRightly
  <2> QED
    BY <2>1, <2>2, <2>3, <2>4 DEF IInv, ReadsAreRight, ReadRightly, Verdicts, IsCase,
       StateIsComplete, ReadResults, Goto, diskVars
<1> QED
  BY <1>1, <1>2, <1>3, <1>4, <1>5, <1>6, <1>7, <1>8, <1>9, <1>10, <1>11, <1>12, <1>13,
     <1>14 DEF IInv


LEMMA SummarizeKeeps == IInv /\ Summarize => IInv'
<1> SUFFICES ASSUME IInv, Summarize PROVE IInv'
  OBVIOUS
<1> USE JobsOfPlan
<1>1. TypeOK'
  <2>1. draft' \in [Jobs -> {"none", "unreadable"} \cup Decodable]
    BY UnreadType DEF Summarize
  <2>2. summary' \in [Jobs -> {"none", "valid", "invalid"}] /\ outdated' \in BOOLEAN
    BY BuildType DEF IInv, TypeOK, Summarize
  <2>3. CASE WriteFails
    BY <2>1, <2>2, <2>3, QuitTyped, FaultTyped DEF IInv, TypeOK, Summarize, WriteFails
  <2>4. CASE Quit(IF runErrors THEN "error" ELSE "ok") /\ UNCHANGED faults
    BY <2>1, <2>2, <2>4, QuitTyped DEF IInv, TypeOK, Summarize
  <2> QED
    BY <2>3, <2>4 DEF Summarize
<1>2. Idle'
  BY DEF IInv, Idle, Summarize, WriteFails, Quit, Blank
<1>3. CursorInPlace'
  BY DEF IInv, CursorInPlace, Working, Summarize, WriteFails, Quit, Blank
<1>4. CaseVerdicts'
  BY DEF IInv, CaseVerdicts, Summarize, WriteFails, Quit, Blank
<1>5. MemoryMatchesResults'
  BY DEF IInv, MemoryMatchesResults, Summarize, WriteFails, Quit, Blank
<1>6. StateMatchesResults'
  BY DEF IInv, StateMatchesResults, Summarize, WriteFails, Quit, Blank
<1>7. BehindIsDone'
  BY DEF IInv, BehindIsDone, Behind, Past, Working, Summarize, WriteFails, Quit, Blank
<1>8. RanInOrder'
  BY DEF IInv, RanInOrder, Working, Summarize, WriteFails, Quit, Blank
<1>9. ProbeAnswered'
  BY DEF IInv, ProbeAnswered, MustProbe, Summarize, WriteFails, Quit, Blank
<1>10. NothingAfterFailure'
  BY DEF IInv, NothingAfterFailure, MustProbe, Summarize, WriteFails, Quit, Blank
<1>11. InPlanOrder'
  BY DEF IInv, InPlanOrder, Summarize, WriteFails, Quit, Blank
<1>12. StateIsComplete'
  BY DEF IInv, StateIsComplete, Summarize, WriteFails, Quit, Blank
<1>13. SummaryIsTruthful'
  <2>1. CASE WriteFails /\ UNCHANGED <<summary, outdated>>
    BY <2>1, SummaryKept DEF IInv, Summarize, WriteFails, Quit
  <2>2. CASE summary' = Build(draft) /\ outdated' = FALSE
    <3>1. \A b : Bracketed(b)' = Bracketed(b)
      BY DEF Summarize, Bracketed, HasRawControl, IsCase
    <3>2. ReadRightly(draft)
      BY DEF IInv, ReadsAreRight
    <3>3. ASSUME exit' = "ok", NEW j \in Jobs
          PROVE  /\ result[j] # "none"
                 /\ result[j] \in Decodable => draft[j] = result[j]
      <4>1. ~runErrors
        BY <3>3 DEF Summarize, WriteFails, Quit
      <4> QED
        BY <4>1 DEF IInv, ReadsAreRight, Summarize, Decodable
    <3> QED
      BY <2>2, <3>1, <3>2, <3>3, BuildIsTruthful
      DEF SummaryIsTruthful, Summarize, Measured, IsCase
  <2> QED
    BY <2>1, <2>2 DEF Summarize
<1>14. ReadsAreRight'
  <2>1. \A found : ReadRightly(found)' <=> ReadRightly(found)
    BY DEF ReadRightly, Verdicts, IsCase, Summarize
  <2>2. ReadRightly(Unread)
    BY DEF ReadRightly, Unread, Decodable
  <2> QED
    BY <2>1, <2>2 DEF IInv, ReadsAreRight, ReadRightly, Verdicts, IsCase, Summarize,
       WriteFails, Quit
<1> QED
  BY <1>1, <1>2, <1>3, <1>4, <1>5, <1>6, <1>7, <1>8, <1>9, <1>10, <1>11, <1>12, <1>13,
     <1>14 DEF IInv


LEMMA CommandOpensStateKeeps == IInv /\ CommandOpensState => IInv'
<1> SUFFICES ASSUME IInv, CommandOpensState PROVE IInv'
  OBVIOUS
<1> USE JobsOfPlan
<1>1. TypeOK'
  <2>1. command' \in CommandState
    BY UnreadType DEF CommandOpensState, CommandState
  <2> QED
    BY <2>1, FaultTyped DEF IInv, TypeOK, CommandOpensState, diskVars, processVars
<1>2. Idle'
  BY DEF IInv, Idle, CommandOpensState, diskVars, processVars
<1>3. CursorInPlace'
  BY DEF IInv, CursorInPlace, Working, CommandOpensState, diskVars, processVars
<1>4. CaseVerdicts'
  BY DEF IInv, CaseVerdicts, CommandOpensState, diskVars, processVars
<1>5. MemoryMatchesResults'
  BY DEF IInv, MemoryMatchesResults, CommandOpensState, diskVars, processVars
<1>6. StateMatchesResults'
  BY DEF IInv, StateMatchesResults, CommandOpensState, diskVars, processVars
<1>7. BehindIsDone'
  BY DEF IInv, BehindIsDone, Behind, Past, Working, CommandOpensState, diskVars,
     processVars
<1>8. RanInOrder'
  BY DEF IInv, RanInOrder, Working, CommandOpensState, diskVars, processVars
<1>9. ProbeAnswered'
  BY DEF IInv, ProbeAnswered, MustProbe, CommandOpensState, diskVars, processVars
<1>10. NothingAfterFailure'
  BY DEF IInv, NothingAfterFailure, MustProbe, CommandOpensState, diskVars, processVars
<1>11. InPlanOrder'
  BY DEF IInv, InPlanOrder, CommandOpensState, diskVars, processVars
<1>12. StateIsComplete'
  BY DEF IInv, StateIsComplete, CommandOpensState, diskVars, processVars
<1>13. SummaryIsTruthful'
  BY SummaryKept DEF IInv, CommandOpensState, diskVars, processVars
<1>14. ReadsAreRight'
  <2>1. \A found : ReadRightly(found)' <=> ReadRightly(found)
    BY DEF ReadRightly, Verdicts, IsCase, CommandOpensState, diskVars
  <2>2. ReadRightly(Unread)
    BY DEF ReadRightly, Unread, Decodable
  <2>3. command'.found = Unread /\ command'.unread = {j \in Jobs : state[j].complete}
    BY DEF CommandOpensState
  <2>4. pc \in {"summarize", "publish"} \/ exit = "ok" => command'.unread = Jobs
    BY <2>3 DEF IInv, StateIsComplete
  <2> QED
    BY <2>1, <2>2, <2>3, <2>4 DEF IInv, ReadsAreRight, ReadRightly, Verdicts, IsCase,
       CommandOpensState, diskVars, processVars
<1> QED
  BY <1>1, <1>2, <1>3, <1>4, <1>5, <1>6, <1>7, <1>8, <1>9, <1>10, <1>11, <1>12, <1>13,
     <1>14 DEF IInv


LEMMA CommandReadsResultKeeps == IInv /\ CommandReadsResult => IInv'
<1> SUFFICES ASSUME IInv, CommandReadsResult PROVE IInv'
  OBVIOUS
<1> USE JobsOfPlan
<1>1. TypeOK'
  <2>1. PICK j \in command.unread :
          command' = [command EXCEPT !.unread = @ \ {j}, !.found[j] = result[j]]
    BY DEF CommandReadsResult
  <2>2. command \in CommandState /\ result \in [Jobs -> {"none", "unreadable"} \cup
     Decodable]
    BY DEF IInv, TypeOK, CommandReadsResult
  <2>3. command' \in CommandState
    BY <2>1, <2>2 DEF CommandState
  <2> QED
    BY <2>3 DEF IInv, TypeOK, CommandReadsResult, diskVars, processVars, hostVars
<1>2. Idle'
  BY DEF IInv, Idle, CommandReadsResult, diskVars, processVars, hostVars
<1>3. CursorInPlace'
  BY DEF IInv, CursorInPlace, Working, CommandReadsResult, diskVars, processVars, hostVars
<1>4. CaseVerdicts'
  BY DEF IInv, CaseVerdicts, CommandReadsResult, diskVars, processVars, hostVars
<1>5. MemoryMatchesResults'
  BY DEF IInv, MemoryMatchesResults, CommandReadsResult, diskVars, processVars, hostVars
<1>6. StateMatchesResults'
  BY DEF IInv, StateMatchesResults, CommandReadsResult, diskVars, processVars, hostVars
<1>7. BehindIsDone'
  BY DEF IInv, BehindIsDone, Behind, Past, Working, CommandReadsResult, diskVars,
     processVars, hostVars
<1>8. RanInOrder'
  BY DEF IInv, RanInOrder, Working, CommandReadsResult, diskVars, processVars, hostVars
<1>9. ProbeAnswered'
  BY DEF IInv, ProbeAnswered, MustProbe, CommandReadsResult, diskVars, processVars,
     hostVars
<1>10. NothingAfterFailure'
  BY DEF IInv, NothingAfterFailure, MustProbe, CommandReadsResult, diskVars, processVars,
     hostVars
<1>11. InPlanOrder'
  BY DEF IInv, InPlanOrder, CommandReadsResult, diskVars, processVars, hostVars
<1>12. StateIsComplete'
  BY DEF IInv, StateIsComplete, CommandReadsResult, diskVars, processVars, hostVars
<1>13. SummaryIsTruthful'
  BY SummaryKept DEF IInv, CommandReadsResult, diskVars, processVars
<1>14. ReadsAreRight'
  <2>1. PICK j \in command.unread :
          command' = [command EXCEPT !.unread = @ \ {j}, !.found[j] = result[j]]
    BY DEF CommandReadsResult
  <2>2. command \in CommandState /\ command # NoFile
    BY DEF IInv, TypeOK, CommandReadsResult
  <2>3. /\ command'.early = command.early
        /\ command'.unread = command.unread \ {j}
        /\ command'.found = [command.found EXCEPT ![j] = result[j]]
        /\ command.found \in [Jobs -> {"none", "unreadable"} \cup Decodable]
        /\ j \in Jobs
    BY <2>1, <2>2 DEF CommandState
  <2>4. /\ command'.found[j] = result[j]
        /\ \A i \in Jobs \ {j} : command'.found[i] = command.found[i]
    BY <2>3
  <2>5. \A found : ReadRightly(found)' <=> ReadRightly(found)
    BY DEF ReadRightly, Verdicts, IsCase, CommandReadsResult, diskVars
  <2>6. ReadRightly(command.found)
    BY <2>2 DEF IInv, ReadsAreRight
  <2>7. ReadRightly(command'.found)
    BY <2>4, <2>6 DEF IInv, CaseVerdicts, ReadRightly
  <2> QED
    BY <2>2, <2>3, <2>4, <2>5, <2>7 DEF IInv, ReadsAreRight, ReadRightly, Verdicts,
       IsCase, CommandReadsResult, diskVars, processVars
<1> QED
  BY <1>1, <1>2, <1>3, <1>4, <1>5, <1>6, <1>7, <1>8, <1>9, <1>10, <1>11, <1>12, <1>13,
     <1>14 DEF IInv


LEMMA CommandWritesSummaryKeeps == IInv /\ CommandWritesSummary => IInv'
<1> SUFFICES ASSUME IInv, CommandWritesSummary PROVE IInv'
  OBVIOUS
<1> USE JobsOfPlan
<1>1. TypeOK'
  <2>1. summary' \in [Jobs -> {"none", "valid", "invalid"}] /\ outdated' \in BOOLEAN
    BY BuildType DEF IInv, TypeOK, CommandWritesSummary, CommandState
  <2> QED
    BY <2>1 DEF IInv, TypeOK, CommandWritesSummary, processVars, hostVars
<1>2. Idle'
  BY DEF IInv, Idle, CommandWritesSummary, processVars, hostVars
<1>3. CursorInPlace'
  BY DEF IInv, CursorInPlace, Working, CommandWritesSummary, processVars, hostVars
<1>4. CaseVerdicts'
  BY DEF IInv, CaseVerdicts, CommandWritesSummary, processVars, hostVars
<1>5. MemoryMatchesResults'
  BY DEF IInv, MemoryMatchesResults, CommandWritesSummary, processVars, hostVars
<1>6. StateMatchesResults'
  BY DEF IInv, StateMatchesResults, CommandWritesSummary, processVars, hostVars
<1>7. BehindIsDone'
  BY DEF IInv, BehindIsDone, Behind, Past, Working, CommandWritesSummary, processVars,
     hostVars
<1>8. RanInOrder'
  BY DEF IInv, RanInOrder, Working, CommandWritesSummary, processVars, hostVars
<1>9. ProbeAnswered'
  BY DEF IInv, ProbeAnswered, MustProbe, CommandWritesSummary, processVars, hostVars
<1>10. NothingAfterFailure'
  BY DEF IInv, NothingAfterFailure, MustProbe, CommandWritesSummary, processVars, hostVars
<1>11. InPlanOrder'
  BY DEF IInv, InPlanOrder, CommandWritesSummary, processVars, hostVars
<1>12. StateIsComplete'
  BY DEF IInv, StateIsComplete, CommandWritesSummary, processVars, hostVars
<1>13. SummaryIsTruthful'
  <2>1. ReadRightly(command.found)
    BY DEF IInv, ReadsAreRight, CommandWritesSummary
  <2>2. ASSUME exit = "ok", ~command.early, \A i \in Jobs : result[i] \in Decodable
        PROVE  \A i \in Jobs : command.found[i] = result[i]
    BY <2>2 DEF IInv, ReadsAreRight, CommandWritesSummary, Decodable
  <2>3. \A b : Bracketed(b)' = Bracketed(b)
    BY DEF CommandWritesSummary, Bracketed, HasRawControl, IsCase
  <2> QED
    BY <2>1, <2>2, <2>3, BuildIsTruthful
    DEF IInv, SummaryIsTruthful, CommandWritesSummary, processVars, Measured, IsCase
<1>14. ReadsAreRight'
  <2>1. \A found : ReadRightly(found)' <=> ReadRightly(found)
    BY DEF ReadRightly, Verdicts, IsCase, CommandWritesSummary
  <2> QED
    BY <2>1 DEF IInv, ReadsAreRight, ReadRightly, Verdicts, IsCase, CommandWritesSummary,
       processVars
<1> QED
  BY <1>1, <1>2, <1>3, <1>4, <1>5, <1>6, <1>7, <1>8, <1>9, <1>10, <1>11, <1>12, <1>13,
     <1>14 DEF IInv


LEMMA CommandDiesKeeps == IInv /\ CommandDies => IInv'
<1> SUFFICES ASSUME IInv, CommandDies PROVE IInv'
  OBVIOUS
<1> USE JobsOfPlan
<1>1. TypeOK'
  BY DEF IInv, TypeOK, CommandDies, diskVars, processVars, hostVars
<1>2. Idle'
  BY DEF IInv, Idle, CommandDies, diskVars, processVars, hostVars
<1>3. CursorInPlace'
  BY DEF IInv, CursorInPlace, Working, CommandDies, diskVars, processVars, hostVars
<1>4. CaseVerdicts'
  BY DEF IInv, CaseVerdicts, CommandDies, diskVars, processVars, hostVars
<1>5. MemoryMatchesResults'
  BY DEF IInv, MemoryMatchesResults, CommandDies, diskVars, processVars, hostVars
<1>6. StateMatchesResults'
  BY DEF IInv, StateMatchesResults, CommandDies, diskVars, processVars, hostVars
<1>7. BehindIsDone'
  BY DEF IInv, BehindIsDone, Behind, Past, Working, CommandDies, diskVars, processVars,
     hostVars
<1>8. RanInOrder'
  BY DEF IInv, RanInOrder, Working, CommandDies, diskVars, processVars, hostVars
<1>9. ProbeAnswered'
  BY DEF IInv, ProbeAnswered, MustProbe, CommandDies, diskVars, processVars, hostVars
<1>10. NothingAfterFailure'
  BY DEF IInv, NothingAfterFailure, MustProbe, CommandDies, diskVars, processVars,
     hostVars
<1>11. InPlanOrder'
  BY DEF IInv, InPlanOrder, CommandDies, diskVars, processVars, hostVars
<1>12. StateIsComplete'
  BY DEF IInv, StateIsComplete, CommandDies, diskVars, processVars, hostVars
<1>13. SummaryIsTruthful'
  BY SummaryKept DEF IInv, CommandDies, diskVars, processVars
<1>14. ReadsAreRight'
  <2>1. \A found : ReadRightly(found)' <=> ReadRightly(found)
    BY DEF ReadRightly, Verdicts, IsCase, CommandDies, diskVars
  <2> QED
    BY <2>1 DEF IInv, ReadsAreRight, ReadRightly, Verdicts, IsCase, CommandDies, diskVars,
       processVars
<1> QED
  BY <1>1, <1>2, <1>3, <1>4, <1>5, <1>6, <1>7, <1>8, <1>9, <1>10, <1>11, <1>12, <1>13,
     <1>14 DEF IInv


LEMMA SignalKeeps == IInv /\ Signal => IInv'
<1> SUFFICES ASSUME IInv, Signal PROVE IInv'
  OBVIOUS
<1> USE JobsOfPlan
<1>1. TypeOK'
  <2>1. memory' \in [Jobs -> JobState]
    BY BlankType DEF IInv, TypeOK, Signal, summaryVars, JobState
  <2>2. summary' \in [Jobs -> {"none", "valid", "invalid"}]
    BY BuildType DEF IInv, TypeOK, Signal, summaryVars, diskVars
  <2>3. result' \in [Jobs -> {"none", "unreadable"} \cup Decodable]
    BY DEF IInv, TypeOK, Signal, summaryVars, diskVars
  <2> QED
    BY <2>1, <2>2, <2>3 DEF IInv, TypeOK, Signal, summaryVars, diskVars, hostVars
<1>2. Idle'
  BY DEF IInv, Idle, Signal
<1>3. CursorInPlace'
  BY DEF IInv, CursorInPlace, Signal, diskVars
<1>4. CaseVerdicts'
  BY DEF IInv, CaseVerdicts, Signal, diskVars
<1>5. MemoryMatchesResults'
  BY DEF IInv, MemoryMatchesResults, Signal, diskVars
<1>6. StateMatchesResults'
  BY DEF IInv, StateMatchesResults, NoFile, MemoryMatchesResults, Signal, diskVars
<1>7. BehindIsDone'
  BY DEF IInv, BehindIsDone, Behind, Past, Signal, diskVars, hostVars
<1>8. RanInOrder'
  BY DEF IInv, RanInOrder, Signal
<1>9. ProbeAnswered'
  BY DEF IInv, ProbeAnswered, MustProbe, Signal
<1>10. NothingAfterFailure'
  BY DEF IInv, NothingAfterFailure, RanInOrder, ProbeAnswered, MustProbe, Signal
<1>11. InPlanOrder'
  BY DEF IInv, InPlanOrder, BehindIsDone, Behind, Past, Signal, diskVars, hostVars
<1>12. StateIsComplete'
  BY DEF IInv, StateIsComplete, BehindIsDone, Behind, Past, Signal, diskVars
<1>13. SummaryIsTruthful'
  BY SummaryKept DEF IInv, Signal, diskVars, summaryVars
<1>14. ReadsAreRight'
  BY ReadsKept DEF IInv, Signal, diskVars, summaryVars
<1> QED
  BY <1>1, <1>2, <1>3, <1>4, <1>5, <1>6, <1>7, <1>8, <1>9, <1>10, <1>11, <1>12, <1>13,
     <1>14 DEF IInv

LEMMA CrashKeeps == IInv /\ Crash => IInv'
<1> SUFFICES ASSUME IInv, Crash PROVE IInv'
  OBVIOUS
<1> USE JobsOfPlan
<1>1. TypeOK'
  BY QuitTyped, FaultTyped, UnreadType DEF IInv, TypeOK, Crash, diskVars
<1>2. Idle'
  BY DEF IInv, Idle, Crash, Quit, Blank
<1>3. CursorInPlace'
  BY DEF IInv, CursorInPlace, Working, Crash, Quit, Blank
<1>4. CaseVerdicts'
  BY DEF IInv, CaseVerdicts, Crash, Quit, diskVars, Blank
<1>5. MemoryMatchesResults'
  BY DEF IInv, MemoryMatchesResults, Crash, Quit, Blank
<1>6. StateMatchesResults'
  BY DEF IInv, StateMatchesResults, NoFile, MemoryMatchesResults, Crash, Quit,
     diskVars, Blank
<1>7. BehindIsDone'
  BY DEF IInv, BehindIsDone, Working, Behind, Past, Crash, Quit, Blank
<1>8. RanInOrder'
  BY DEF IInv, RanInOrder, Crash, Quit, Blank
<1>9. ProbeAnswered'
  BY DEF IInv, ProbeAnswered, MustProbe, Crash, Quit, Blank
<1>10. NothingAfterFailure'
  BY DEF IInv, NothingAfterFailure, RanInOrder, ProbeAnswered, MustProbe, Crash, Quit,
     Blank
<1>11. InPlanOrder'
  BY DEF IInv, InPlanOrder, BehindIsDone, Behind, Past, Crash, Quit, diskVars, Blank
<1>12. StateIsComplete'
  BY DEF IInv, StateIsComplete, BehindIsDone, Behind, Past, Crash, Quit, Blank
<1>13. SummaryIsTruthful'
  BY SummaryKept DEF IInv, Crash, Quit, diskVars
<1>14. ReadsAreRight'
  <2>1. \A found : ReadRightly(found)' <=> ReadRightly(found)
    BY DEF ReadRightly, Verdicts, IsCase, Crash, diskVars
  <2>2. ReadRightly(Unread)
    BY DEF ReadRightly, Unread, Decodable
  <2> QED
    BY <2>1, <2>2 DEF IInv, ReadsAreRight, ReadRightly, Verdicts, IsCase, Crash, Quit,
       diskVars
<1> QED
  BY <1>1, <1>2, <1>3, <1>4, <1>5, <1>6, <1>7, <1>8, <1>9, <1>10, <1>11, <1>12, <1>13,
     <1>14 DEF IInv

LEMMA DamageKeeps == IInv /\ Damage => IInv'
<1> SUFFICES ASSUME IInv, Damage PROVE IInv'
  OBVIOUS
<1> USE JobsOfPlan
<1>1. TypeOK'
  <2>1. memory' \in [Jobs -> JobState]
    BY BlankType DEF IInv, TypeOK, Damage, summaryVars, processVars, JobState
  <2>2. summary' \in [Jobs -> {"none", "valid", "invalid"}]
    BY BuildType DEF IInv, TypeOK, Damage, summaryVars
  <2>3. result' \in [Jobs -> {"none", "unreadable"} \cup Decodable]
    BY DEF IInv, TypeOK, Damage, summaryVars
  <2> QED
    BY <2>1, <2>2, <2>3 DEF IInv, TypeOK, Damage, summaryVars, Fault, processVars
<1>2. Idle'
  BY DEF IInv, Idle, Damage, processVars
<1>3. CursorInPlace'
  BY DEF IInv, CursorInPlace, Decodable, Damage, processVars
<1>4. CaseVerdicts'
  BY DEF IInv, CaseVerdicts, Damage
<1>5. MemoryMatchesResults'
  BY DEF IInv, MemoryMatchesResults, Damage, processVars
<1>6. StateMatchesResults'
  BY DEF IInv, StateMatchesResults, NoFile, MemoryMatchesResults, Damage
<1>7. BehindIsDone'
  BY DEF IInv, BehindIsDone, Behind, Past, Damage, processVars
<1>8. RanInOrder'
  BY DEF IInv, RanInOrder, Damage, processVars
<1>9. ProbeAnswered'
  BY DEF IInv, ProbeAnswered, MustProbe, Damage, processVars
<1>10. NothingAfterFailure'
  BY DEF IInv, NothingAfterFailure, RanInOrder, ProbeAnswered, MustProbe, Damage,
     processVars
<1>11. InPlanOrder'
  BY DEF IInv, InPlanOrder, BehindIsDone, Behind, Decodable, Past, Damage
<1>12. StateIsComplete'
  BY DEF IInv, StateIsComplete, BehindIsDone, Behind, Past, Damage, processVars
<1>13. SummaryIsTruthful'
  <2>1. ResultsKept
    BY DEF IInv, Damage, ResultsKept
  <2> QED
    BY <2>1, SummaryKeptByResults DEF IInv, Damage, processVars, summaryVars
<1>14. ReadsAreRight'
  <2>1. ResultsKept
    BY DEF IInv, ResultsKept, Decodable, Damage
  <2>2. \A j \in Jobs : result[j] = "none" => result'[j] = "none"
    BY DEF IInv, TypeOK, Damage, Decodable
  <2> QED
    BY <2>1, <2>2, ReadsKeptByResults DEF IInv, Damage, processVars, summaryVars
<1> QED
  BY <1>1, <1>2, <1>3, <1>4, <1>5, <1>6, <1>7, <1>8, <1>9, <1>10, <1>11, <1>12, <1>13,
     <1>14 DEF IInv

-----------------------------------------------------------------------------
LEMMA InitIInv == Init => IInv
<1> SUFFICES ASSUME Init PROVE IInv
  OBVIOUS
<1>1. TypeOK
  <2>1. 1 \in 1..(Len(Plan) + 1) /\ 0 \in 0..matrixRecoveryAttempts /\ 0 \in 0..MaxFaults
    BY JobsOfPlan DEF matrixRecoveryAttempts
  <2> QED
    BY <2>1, BlankType, UnreadType DEF Init, TypeOK, Unread
<1>2. Idle /\ CursorInPlace /\ CaseVerdicts /\ MemoryMatchesResults /\ StateMatchesResults
  BY DEF Init, Unread, Idle, CursorInPlace, Working, CaseVerdicts, MemoryMatchesResults,
     Blank, StateMatchesResults
<1>3. BehindIsDone /\ RanInOrder /\ ProbeAnswered /\ NothingAfterFailure /\ InPlanOrder
  BY JobsOfPlan DEF Init, BehindIsDone, Behind, Past, Working, RanInOrder, ProbeAnswered,
     NothingAfterFailure, InPlanOrder, Unread
<1>4. StateIsComplete /\ SummaryIsTruthful
  BY DEF Init, StateIsComplete, SummaryIsTruthful, Unread
<1>5. ReadsAreRight
  BY DEF Init, ReadsAreRight, ReadRightly, Unread, Decodable
<1> QED
  BY <1>1, <1>2, <1>3, <1>4, <1>5 DEF IInv

LEMMA NextKeeps == IInv /\ [Next]_vars => IInv'
<1> SUFFICES ASSUME IInv, [Next]_vars PROVE IInv'
  OBVIOUS
<1>1. CASE Next
  BY <1>1, LaunchKeeps, RefuseKeeps, SaveFreshKeeps, SkipDoneKeeps, RefuseUnreadableKeeps,
     BeginJobKeeps, FinishJobKeeps, CooldownKeeps, ProbeSucceedsKeeps, ProbeRetriesKeeps,
     ProbeFailsKeeps, SaveStateKeeps, StopEarlyKeeps, NextJobKeeps, SaveFinalKeeps,
     ReadResultsKeeps, SummarizeKeeps, CommandOpensStateKeeps,
     CommandReadsResultKeeps, CommandWritesSummaryKeeps, CommandDiesKeeps, SignalKeeps,
     CrashKeeps, DamageKeeps
  DEF Next, Runner, Command
<1>2. CASE UNCHANGED vars
  <2>1. SummaryIsTruthful'
    BY <1>2, SummaryKept DEF IInv, vars, diskVars, processVars, summaryVars
  <2>2. ReadsAreRight'
    BY <1>2, ReadsKept DEF IInv, vars, diskVars, processVars, summaryVars
  <2> QED
    BY <1>2, <2>1, <2>2 DEF IInv, TypeOK, Idle, CursorInPlace, CaseVerdicts,
       MemoryMatchesResults, StateMatchesResults, BehindIsDone, Behind, RanInOrder,
       ProbeAnswered, NothingAfterFailure, InPlanOrder, StateIsComplete, vars,
       diskVars, processVars, hostVars, summaryVars
<1> QED
  BY <1>1, <1>2

LEMMA Invariance == Spec => []IInv
  BY InitIInv, NextKeeps, PTL DEF Spec

(* The variables of runMatrix keep their types. *)
THEOREM MatrixTypeOK == Spec => []TypeOK
<1>1. IInv => TypeOK
  BY DEF IInv
<1> QED
  BY <1>1, Invariance, PTL

(* What state.json says of a job without error is what its result says,    *)
(* for any plan and any number of crashes, resumes and failed writes.      *)
THEOREM MatrixStateMatchesResults == Spec => []StateMatchesResults
<1>1. IInv => StateMatchesResults
  BY DEF IInv
<1> QED
  BY <1>1, Invariance, PTL

(* No launch goes past a job that fail_fast or the recovery probe rejects. *)
THEOREM MatrixNothingAfterFailure == Spec => []NothingAfterFailure
<1>1. IInv => NothingAfterFailure
  BY DEF IInv
<1> QED
  BY <1>1, Invariance, PTL

(* Results appear in the order of the plan, across any number of launches. *)
THEOREM MatrixInPlanOrder == Spec => []InPlanOrder
<1>1. IInv => InPlanOrder
  BY DEF IInv
<1> QED
  BY <1>1, Invariance, PTL

(* summary.json never counts more than the results and their controls say, *)
(* whoever wrote it and however long ago it was begun, and counts all of   *)
(* it when a launch reports success, until an older command replaces it.   *)
THEOREM MatrixSummaryIsTruthful == Spec => []SummaryIsTruthful
<1>1. IInv => SummaryIsTruthful
  BY DEF IInv
<1> QED
  BY <1>1, Invariance, PTL

(* A job runs only when it has no result: no step writes over one. *)
LEMMA StepKeepsResults ==
  IInv /\ [Next]_vars =>
    \A j \in Jobs : result[j] \in Decodable => result'[j] \in {result[j], "unreadable"}
<1> SUFFICES ASSUME IInv, [Next]_vars, NEW j \in Jobs, result[j] \in Decodable
             PROVE  result'[j] \in {result[j], "unreadable"}
  OBVIOUS
<1>1. CASE FinishJob
  BY <1>1 DEF IInv, TypeOK, CursorInPlace, FinishJob, Decodable
<1>2. CASE Damage
  BY <1>2 DEF IInv, Damage
<1>3. CASE [Next]_vars /\ ~FinishJob /\ ~Damage
  BY <1>3 DEF Next, Runner, Launch, Refuse, SaveFresh, SkipDone, RefuseUnreadable, BeginJob,
     Cooldown, ProbeSucceeds, ProbeRetries, ProbeFails, SaveState, StopEarly, NextJob,
     SaveFinal, ReadResults, Summarize, Command, CommandOpensState, CommandReadsResult,
     CommandWritesSummary, CommandDies, Signal, Crash, vars, diskVars
<1> QED
  BY <1>1, <1>2, <1>3

(* A result that decodes is never replaced, by a resume or otherwise. *)
THEOREM MatrixResultsAreFinal == Spec => ResultsAreFinal
<1>1. IInv /\ [Next]_vars =>
        [\A j \in Jobs : result[j] \in Decodable => result'[j] \in {result[j], "unreadable"}]_vars
  BY StepKeepsResults
<1> QED
  BY <1>1, Invariance, PTL DEF Spec, ResultsAreFinal
=============================================================================
