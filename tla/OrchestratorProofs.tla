------------------------- MODULE OrchestratorProofs -------------------------
(***************************************************************************)
(* Proofs about Orchestrator, for every set of configurations, any number  *)
(* of rules in the chain, and any number of lost commands: the inductive   *)
(* invariant, and the safety and action properties the run checks.         *)
(***************************************************************************)
EXTENDS Orchestrator, TLAPS

(* The parts of RunDevice, in the order in which they run. *)
Early == {"root", "before", "status", "stop", "wait_down", "baseline", "chain"}
Installing == {"rule", "jump", "undo_flush", "undo_delete"}
Benching == {"mkdir", "deploy", "matrix", "matrix_wait", "pull", "remove"}
Ending == {"kill", "kill_wait"}
Cleaning == {"clean_jump", "clean_flush", "clean_delete"}
Closing == {"after", "start", "wait_up", "final", "done"}

(* Who has made the chain, and what is in it: a chain that is not          *)
(* remembered is empty.                                                    *)
ChainOwner ==
  /\ chain = "other" => rules = NRules /\ jump /\ ~chainCreated
  /\ chain = "none" => rules = 0 /\ ~jump
  /\ chain = "ours" /\ ~chainCreated => rules = 0 /\ ~jump
  /\ jumpCreated => chainCreated
  /\ ~err /\ chain = "ours" => chainCreated

(* How far the translation is made, at each step of Install ...            *)
Installed ==
  /\ pc \in Early => ~chainCreated /\ chain # "ours"
  /\ pc \in Installing => chainCreated /\ ~jumpCreated /\ chain = "ours"
  /\ pc = "rule" => rules < NRules /\ ~jump
  /\ pc = "jump" => rules = NRules /\ ~jump
  /\ pc \in {"undo_flush", "undo_delete"} => err
  /\ ~err /\ HasTranslation /\ pc \in Benching \cup Ending =>
       chain = "ours" /\ jump /\ rules = NRules

(* ... and how far it is taken back.                                       *)
TakenBack ==
  /\ pc \in Cleaning => chainCreated
  /\ pc = "clean_jump" => jumpCreated
  /\ pc \in {"clean_flush", "clean_delete"} => ~jumpCreated
  /\ pc \in {"undo_delete", "clean_delete"} => rules = 0
  /\ pc \in Closing /\ ~err => chain # "ours"
  /\ pc \in Closing /\ chain = "ours" /\ jump /\ rules > 0 => broken

(* The runner is on the device from its launch on; without an error it has *)
(* ended before anything is taken back.                                    *)
RunnerPlaced ==
  /\ pc \in Early \cup Installing \cup {"mkdir", "deploy", "matrix"} => runner = "none"
  /\ net # {} => runner # "none"
  /\ ~err /\ pc \in {"pull", "remove"} \cup Ending \cup Cleaning \cup Closing =>
       runner = "ok"

(* Without an error the results are pulled, and then the directory is      *)
(* removed.                                                                *)
Pulled ==
  /\ ~err /\ pc \in {"remove"} \cup Ending \cup Cleaning \cup Closing => results = "pulled"
  /\ ~err /\ pc \in Ending \cup Cleaning \cup Closing =>
       directory = "removed" \/ KeepRemote

(* The service is told to start before it is waited for. *)
ServiceFollows ==
  /\ pc = "wait_up" => service \in {"up", "starting"}
  /\ pc \in {"final", "done"} /\ ~err /\ wasRunning => service = "up"

(* The baseline was taken before the runner changed the network, so that   *)
(* the comparison sees what the runner has left, in every command that     *)
(* could be read before and after.                                         *)
Compared ==
  /\ \A c \in Commands : "matrix" \notin baseline[c]
  /\ pc \in {"start", "wait_up", "final", "done"} /\ ~err =>
       /\ net \cap compared = {}
       /\ \A c \in Commands \ compared : broken \/ baseline[c] = Unreadable

IInv == /\ TypeOK
        /\ ChainOwner
        /\ Installed
        /\ TakenBack
        /\ RunnerPlaced
        /\ Pulled
        /\ ServiceFollows
        /\ Compared

(* What a snapshot shows; it shows state of the matrix only where there is *)
(* some, and "unreadable" only where its command failed.                   *)
LEMMA SnapshotIsOne == \A failed \in SUBSET Commands : Snapshot(failed) \in Snapshots
<1> SUFFICES ASSUME NEW failed \in SUBSET Commands PROVE Snapshot(failed) \in Snapshots
  OBVIOUS
<1>1. ASSUME NEW c \in Commands PROVE Markers(c) \in SUBSET {"translation", "matrix"}
  BY DEF Markers
<1> QED
  BY <1>1 DEF Snapshot, Snapshots

LEMMA SnapshotShows ==
  \A failed \in SUBSET Commands, c \in Commands :
    /\ "matrix" \in Snapshot(failed)[c] => c \in net
    /\ Snapshot(failed)[c] = Unreadable => c \in failed
    /\ c \in net /\ Snapshot(failed)[c] # Unreadable => "matrix" \in Snapshot(failed)[c]
<1> SUFFICES ASSUME NEW failed \in SUBSET Commands, NEW c \in Commands
             PROVE  /\ "matrix" \in Snapshot(failed)[c] => c \in net
                    /\ Snapshot(failed)[c] = Unreadable => c \in failed
                    /\ c \in net /\ Snapshot(failed)[c] # Unreadable
                         => "matrix" \in Snapshot(failed)[c]
  OBVIOUS
<1>1. Snapshot(failed)[c] = IF c \in failed THEN Unreadable ELSE Markers(c)
  BY DEF Snapshot
<1>2. /\ "matrix" \in Markers(c) <=> c \in net
      /\ "unreadable" \notin Markers(c)
  BY DEF Markers
<1> QED
  BY <1>1, <1>2 DEF Unreadable

LEMMA CapturesBreaks ==
  \A failed : IInv /\ Captures(failed) => (broken => broken')
  BY DEF IInv, TypeOK, Captures, Loss, faultVars

LEMMA VerifyRootKeeps == IInv /\ VerifyRoot => IInv'
<1> SUFFICES ASSUME IInv, VerifyRoot PROVE IInv'
  OBVIOUS
<1>1. TypeOK'
  <2>1. pc' \in Pc
    BY DEF IInv, VerifyRoot, Succeeds, Lost, Pc
  <2>2. losses' \in 0..MaxLosses
    BY OrchestratorAssumption DEF OrchestratorAssumption, IInv, TypeOK, Installed,
       VerifyRoot, Succeeds, Lost, faultVars, Loss
  <2>3. rules' \in 0..NRules /\ chain' \in {"none", "ours", "other"}
    BY OrchestratorAssumption DEF OrchestratorAssumption, IInv, TypeOK, Installed,
       VerifyRoot, deviceVars, natVars
  <2>4. {err', cancelled', expired', wasRunning', chainCreated', jumpCreated'}
     \subseteq BOOLEAN
    BY DEF IInv, TypeOK, VerifyRoot, Succeeds, Lost, Context, Flags
  <2>5. {jump', broken'} \subseteq BOOLEAN /\ net' \subseteq Residue /\ compared' \subseteq Commands
    BY DEF IInv, TypeOK, VerifyRoot, Succeeds, Lost, deviceVars, faultVars, Loss,
       natVars, procVars, Context
  <2>6. baseline' \in Snapshots
    BY DEF IInv, TypeOK, VerifyRoot
  <2>7. config' \in Configs /\ service' \in {"up", "stopping", "down", "starting"}
    BY DEF IInv, TypeOK, VerifyRoot, Context, deviceVars
  <2>8. /\ runner' \in {"none", "running", "ending", "ok", "failed"}
        /\ script' \in {"off", "on", "waiting", "clear"}
        /\ directory' \in {"none", "made", "results", "removed", "again"}
        /\ results' \in {"none", "old", "partial", "pulled"}
    BY DEF IInv, TypeOK, VerifyRoot, deviceVars, procVars, fileVars
  <2> QED
    BY <2>1, <2>2, <2>3, <2>4, <2>5, <2>6, <2>7, <2>8 DEF TypeOK
<1>2. ChainOwner'
  BY DEF IInv, ChainOwner, Installed, TakenBack, VerifyRoot, Succeeds, Lost, Flags,
     deviceVars, natVars
<1>3. Installed'
  BY OrchestratorAssumption DEF OrchestratorAssumption, IInv, Installed, ChainOwner,
     TakenBack, HasTranslation, Early, Installing, Benching, Ending, VerifyRoot,
     Succeeds, Lost, Flags, deviceVars, natVars
<1>4. TakenBack'
  BY OrchestratorAssumption DEF OrchestratorAssumption, IInv, TakenBack, ChainOwner,
     Installed, Early, Cleaning, VerifyRoot, Succeeds, Lost, deviceVars, natVars
<1>5. RunnerPlaced'
  BY DEF IInv, RunnerPlaced, Early, Ending, Cleaning, Closing, VerifyRoot, Succeeds,
     Lost, deviceVars, procVars
<1>6. Pulled'
  BY DEF IInv, Pulled, RunnerPlaced, KeepRemote, Ending, Cleaning, Closing,
     VerifyRoot, Succeeds, Lost
<1>7. ServiceFollows'
  BY DEF IInv, ServiceFollows, VerifyRoot, Succeeds, Lost
<1>8. Compared'
  BY DEF IInv, Compared, RunnerPlaced, Unreadable, VerifyRoot, Succeeds, Lost, Context
<1> QED
  BY <1>1, <1>2, <1>3, <1>4, <1>5, <1>6, <1>7, <1>8 DEF IInv

LEMMA SnapshotBeforeKeeps == IInv /\ SnapshotBefore => IInv'
<1> SUFFICES ASSUME IInv, SnapshotBefore PROVE IInv'
  OBVIOUS
<1>1. TypeOK'
  <2>1. pc' \in Pc
    BY DEF IInv, SnapshotBefore, Captures, Prepare, NotWritten,
       HasTranslation, Pc
  <2>2. losses' \in 0..MaxLosses
    BY OrchestratorAssumption DEF OrchestratorAssumption, IInv, TypeOK, Installed,
       SnapshotBefore, Captures, Prepare, NotWritten, HasTranslation,
       faultVars, Loss
  <2>3. rules' \in 0..NRules /\ chain' \in {"none", "ours", "other"}
    BY OrchestratorAssumption DEF OrchestratorAssumption, IInv, TypeOK, Installed,
       SnapshotBefore, Captures, Prepare, NotWritten, deviceVars,
       HasTranslation, natVars
  <2>4. {err', cancelled', expired', wasRunning', chainCreated', jumpCreated'}
     \subseteq BOOLEAN
    BY DEF IInv, TypeOK, SnapshotBefore, Captures, Prepare, NotWritten,
       Context, Flags, HasTranslation
  <2>5. {jump', broken'} \subseteq BOOLEAN /\ net' \subseteq Residue /\ compared' \subseteq Commands
    BY DEF IInv, TypeOK, SnapshotBefore, Captures, Prepare, NotWritten,
       deviceVars, HasTranslation, faultVars, Loss, natVars, procVars, Context
  <2>6. baseline' \in Snapshots
    <3>1. PICK failed \in SUBSET Commands : baseline' = Snapshot(failed)
      BY DEF SnapshotBefore
    <3> QED
      BY <3>1, SnapshotIsOne
  <2>7. config' \in Configs /\ service' \in {"up", "stopping", "down", "starting"}
    BY DEF IInv, TypeOK, SnapshotBefore, Captures, Prepare, NotWritten,
       Context, deviceVars, HasTranslation
  <2>8. /\ runner' \in {"none", "running", "ending", "ok", "failed"}
        /\ script' \in {"off", "on", "waiting", "clear"}
        /\ directory' \in {"none", "made", "results", "removed", "again"}
        /\ results' \in {"none", "old", "partial", "pulled"}
    BY DEF IInv, TypeOK, SnapshotBefore, Captures, Prepare, NotWritten,
       deviceVars, HasTranslation, procVars, fileVars
  <2> QED
    BY <2>1, <2>2, <2>3, <2>4, <2>5, <2>6, <2>7, <2>8 DEF TypeOK
<1>2. ChainOwner'
  BY DEF IInv, ChainOwner, Installed, TakenBack, SnapshotBefore, Captures,
     Prepare, NotWritten, Flags, deviceVars, HasTranslation, natVars
<1>3. Installed'
  BY OrchestratorAssumption DEF OrchestratorAssumption, IInv, Installed, ChainOwner,
     TakenBack, HasTranslation, Early, Installing, Benching, Ending, SnapshotBefore,
     Captures, Prepare, NotWritten, Context, Flags, deviceVars, natVars
<1>4. TakenBack'
  BY OrchestratorAssumption DEF OrchestratorAssumption, IInv, TakenBack, ChainOwner,
     Installed, Early, Cleaning, SnapshotBefore, Captures, Prepare,
     NotWritten, deviceVars, HasTranslation, natVars
<1>5. RunnerPlaced'
  BY DEF IInv, RunnerPlaced, Early, Ending, Cleaning, Closing, SnapshotBefore,
     Captures, Prepare, NotWritten, deviceVars, HasTranslation, procVars
<1>6. Pulled'
  BY DEF IInv, Pulled, RunnerPlaced, KeepRemote, Ending, Cleaning, Closing,
     SnapshotBefore, Captures, Prepare, NotWritten, HasTranslation
<1>7. ServiceFollows'
  BY DEF IInv, ServiceFollows, SnapshotBefore, Captures, Prepare, NotWritten,
     HasTranslation
<1>8. Compared'
  <2>1. PICK failed \in SUBSET Commands : Captures(failed) /\ baseline' = Snapshot(failed)
    BY DEF SnapshotBefore
  <2>2. net = {}
    BY DEF IInv, RunnerPlaced, Early, SnapshotBefore
  <2>3. pc' \notin {"start", "wait_up", "final", "done"} \/ err'
    BY DEF SnapshotBefore, Prepare, NotWritten
  <2> QED
    BY <2>1, <2>2, <2>3, SnapshotShows DEF Compared
<1> QED
  BY <1>1, <1>2, <1>3, <1>4, <1>5, <1>6, <1>7, <1>8 DEF IInv

LEMMA ReadStatusKeeps == IInv /\ ReadStatus => IInv'
<1> SUFFICES ASSUME IInv, ReadStatus PROVE IInv'
  OBVIOUS
<1>1. TypeOK'
  <2>1. pc' \in Pc
    BY DEF IInv, ReadStatus, Observed, Prepare, NotObserved, HasTranslation, Pc
  <2>2. losses' \in 0..MaxLosses
    BY OrchestratorAssumption DEF OrchestratorAssumption, IInv, TypeOK, Installed,
       ReadStatus, Observed, Prepare, NotObserved, faultVars, Loss, HasTranslation
  <2>3. rules' \in 0..NRules /\ chain' \in {"none", "ours", "other"}
    BY OrchestratorAssumption DEF OrchestratorAssumption, IInv, TypeOK, Installed,
       ReadStatus, Observed, Prepare, NotObserved, deviceVars, HasTranslation,
       natVars
  <2>4. {err', cancelled', expired', wasRunning', chainCreated', jumpCreated'}
     \subseteq BOOLEAN
    BY DEF IInv, TypeOK, ReadStatus, Observed, Prepare, NotObserved, Context, Flags,
       HasTranslation
  <2>5. {jump', broken'} \subseteq BOOLEAN /\ net' \subseteq Residue /\ compared' \subseteq Commands
    BY DEF IInv, TypeOK, ReadStatus, Observed, Prepare, NotObserved, deviceVars,
       faultVars, Loss, HasTranslation, natVars, procVars, Context
  <2>6. baseline' \in Snapshots
    <3>1. baseline' = baseline \/ baseline' = NoSnapshot
      BY DEF ReadStatus
    <3>2. baseline \in Snapshots /\ NoSnapshot \in Snapshots
      BY DEF IInv, TypeOK, NoSnapshot, Snapshots
    <3> QED
      BY <3>1, <3>2
  <2>7. config' \in Configs /\ service' \in {"up", "stopping", "down", "starting"}
    BY DEF IInv, TypeOK, ReadStatus, Observed, Prepare, NotObserved, Context,
       deviceVars, HasTranslation
  <2>8. /\ runner' \in {"none", "running", "ending", "ok", "failed"}
        /\ script' \in {"off", "on", "waiting", "clear"}
        /\ directory' \in {"none", "made", "results", "removed", "again"}
        /\ results' \in {"none", "old", "partial", "pulled"}
    BY DEF IInv, TypeOK, ReadStatus, Observed, Prepare, NotObserved, deviceVars,
       HasTranslation, procVars, fileVars
  <2> QED
    BY <2>1, <2>2, <2>3, <2>4, <2>5, <2>6, <2>7, <2>8 DEF TypeOK
<1>2. ChainOwner'
  BY DEF IInv, ChainOwner, Installed, TakenBack, ReadStatus, Observed, Prepare,
     NotObserved, Flags, deviceVars, HasTranslation, natVars
<1>3. Installed'
  BY OrchestratorAssumption DEF OrchestratorAssumption, IInv, Installed, ChainOwner,
     TakenBack, HasTranslation, Early, Installing, Benching, Ending, ReadStatus,
     Observed, Prepare, NotObserved, Context, Flags, deviceVars, natVars
<1>4. TakenBack'
  BY OrchestratorAssumption DEF OrchestratorAssumption, IInv, TakenBack, ChainOwner,
     Installed, Early, Cleaning, ReadStatus, Observed, Prepare, NotObserved,
     deviceVars, HasTranslation, natVars
<1>5. RunnerPlaced'
  BY DEF IInv, RunnerPlaced, Early, Ending, Cleaning, Closing, ReadStatus, Observed,
     Prepare, NotObserved, deviceVars, HasTranslation, procVars
<1>6. Pulled'
  BY DEF IInv, Pulled, RunnerPlaced, KeepRemote, Ending, Cleaning, Closing,
     ReadStatus, Observed, Prepare, NotObserved, HasTranslation
<1>7. ServiceFollows'
  BY DEF IInv, ServiceFollows, ReadStatus, Observed, Prepare, NotObserved,
     HasTranslation
<1>8. Compared'
  <2>1. baseline' = baseline \/ baseline' = NoSnapshot
    BY DEF ReadStatus
  <2>2. ASSUME NEW c \in Commands PROVE "matrix" \notin NoSnapshot[c]
    BY DEF NoSnapshot, Unreadable
  <2>3. pc' \notin {"start", "wait_up", "final", "done"} \/ err'
    BY DEF ReadStatus, Prepare
  <2> QED
    BY <2>1, <2>2, <2>3 DEF IInv, Compared
<1> QED
  BY <1>1, <1>2, <1>3, <1>4, <1>5, <1>6, <1>7, <1>8 DEF IInv

LEMMA StopServiceKeeps == IInv /\ StopService => IInv'
<1> SUFFICES ASSUME IInv, StopService PROVE IInv'
  OBVIOUS
<1>1. TypeOK'
  <2>1. pc' \in Pc
    BY DEF IInv, StopService, Succeeds, Late, Lost, Pc
  <2>2. losses' \in 0..MaxLosses
    BY OrchestratorAssumption DEF OrchestratorAssumption, IInv, TypeOK, Installed,
       StopService, Succeeds, Late, Lost, faultVars, Loss
  <2>3. rules' \in 0..NRules /\ chain' \in {"none", "ours", "other"}
    BY OrchestratorAssumption DEF OrchestratorAssumption, IInv, TypeOK, Installed,
       StopService, Late, natVars
  <2>4. {err', cancelled', expired', wasRunning', chainCreated', jumpCreated'}
     \subseteq BOOLEAN
    BY DEF IInv, TypeOK, StopService, Succeeds, Late, Lost, Context, Flags
  <2>5. {jump', broken'} \subseteq BOOLEAN /\ net' \subseteq Residue /\ compared' \subseteq Commands
    BY DEF IInv, TypeOK, StopService, Succeeds, Late, Lost, natVars, procVars,
       faultVars, Loss, Context
  <2>6. baseline' \in Snapshots
    BY DEF IInv, TypeOK, StopService, Late
  <2>7. config' \in Configs /\ service' \in {"up", "stopping", "down", "starting"}
    BY DEF IInv, TypeOK, StopService, Late, Context
  <2>8. /\ runner' \in {"none", "running", "ending", "ok", "failed"}
        /\ script' \in {"off", "on", "waiting", "clear"}
        /\ directory' \in {"none", "made", "results", "removed", "again"}
        /\ results' \in {"none", "old", "partial", "pulled"}
    BY DEF IInv, TypeOK, StopService, Late, procVars, fileVars
  <2> QED
    BY <2>1, <2>2, <2>3, <2>4, <2>5, <2>6, <2>7, <2>8 DEF TypeOK
<1>2. ChainOwner'
  BY DEF IInv, ChainOwner, Installed, TakenBack, StopService, Succeeds, Late, Lost,
     Flags, natVars
<1>3. Installed'
  BY OrchestratorAssumption DEF OrchestratorAssumption, IInv, Installed, ChainOwner,
     TakenBack, HasTranslation, Early, Installing, Benching, Ending, StopService,
     Succeeds, Late, Lost, Flags, natVars
<1>4. TakenBack'
  BY OrchestratorAssumption DEF OrchestratorAssumption, IInv, TakenBack, ChainOwner,
     Installed, Cleaning, Closing, StopService, Succeeds, Late, Lost
<1>5. RunnerPlaced'
  BY DEF IInv, RunnerPlaced, Early, Ending, Cleaning, Closing, StopService, Succeeds,
     Late, Lost, procVars
<1>6. Pulled'
  BY DEF IInv, Pulled, RunnerPlaced, KeepRemote, Ending, Cleaning, Closing,
     StopService, Succeeds, Late, Lost
<1>7. ServiceFollows'
  BY DEF IInv, ServiceFollows, StopService, Succeeds, Late, Lost
<1>8. Compared'
  BY DEF IInv, Compared, RunnerPlaced, Unreadable, StopService, Succeeds, Late,
     Lost, Context
<1> QED
  BY <1>1, <1>2, <1>3, <1>4, <1>5, <1>6, <1>7, <1>8 DEF IInv

LEMMA WaitDownKeeps == IInv /\ WaitDown => IInv'
<1> SUFFICES ASSUME IInv, WaitDown PROVE IInv'
  OBVIOUS
<1>1. TypeOK'
  <2>1. pc' \in Pc
    BY DEF IInv, WaitDown, WaitService, Observed, NotObserved, Pc
  <2>2. losses' \in 0..MaxLosses
    BY OrchestratorAssumption DEF OrchestratorAssumption, IInv, TypeOK, Installed,
       WaitDown, WaitService, Observed, NotObserved, faultVars, Loss
  <2>3. rules' \in 0..NRules /\ chain' \in {"none", "ours", "other"}
    BY OrchestratorAssumption DEF OrchestratorAssumption, IInv, TypeOK, Installed,
       WaitDown, WaitService, deviceVars, Observed, NotObserved, natVars
  <2>4. {err', cancelled', expired', wasRunning', chainCreated', jumpCreated'}
     \subseteq BOOLEAN
    BY DEF IInv, TypeOK, WaitDown, WaitService, Context, Flags, Observed,
       NotObserved
  <2>5. {jump', broken'} \subseteq BOOLEAN /\ net' \subseteq Residue /\ compared' \subseteq Commands
    BY DEF IInv, TypeOK, WaitDown, WaitService, deviceVars, Observed, NotObserved,
       natVars, procVars, faultVars, Loss, Context
  <2>6. baseline' \in Snapshots
    BY DEF IInv, TypeOK, WaitDown, WaitService, Observed, NotObserved
  <2>7. config' \in Configs /\ service' \in {"up", "stopping", "down", "starting"}
    BY DEF IInv, TypeOK, WaitDown, WaitService, Context, deviceVars, Observed,
       NotObserved
  <2>8. /\ runner' \in {"none", "running", "ending", "ok", "failed"}
        /\ script' \in {"off", "on", "waiting", "clear"}
        /\ directory' \in {"none", "made", "results", "removed", "again"}
        /\ results' \in {"none", "old", "partial", "pulled"}
    BY DEF IInv, TypeOK, WaitDown, WaitService, deviceVars, Observed, NotObserved,
       procVars, fileVars
  <2> QED
    BY <2>1, <2>2, <2>3, <2>4, <2>5, <2>6, <2>7, <2>8 DEF TypeOK
<1>2. ChainOwner'
  BY DEF IInv, ChainOwner, Installed, TakenBack, WaitDown, WaitService, Flags,
     deviceVars, Observed, NotObserved, natVars
<1>3. Installed'
  BY OrchestratorAssumption DEF OrchestratorAssumption, IInv, Installed, ChainOwner,
     TakenBack, HasTranslation, Early, Installing, Benching, Ending, WaitDown,
     WaitService, Flags, deviceVars, Observed, NotObserved, natVars
<1>4. TakenBack'
  BY OrchestratorAssumption DEF OrchestratorAssumption, IInv, TakenBack, ChainOwner,
     Installed, Cleaning, Closing, WaitDown, WaitService, Observed, NotObserved
<1>5. RunnerPlaced'
  BY DEF IInv, RunnerPlaced, Early, Ending, Cleaning, Closing, WaitDown, WaitService,
     deviceVars, Observed, NotObserved, procVars
<1>6. Pulled'
  BY DEF IInv, Pulled, RunnerPlaced, KeepRemote, Ending, Cleaning, Closing, WaitDown,
     WaitService, Observed, NotObserved
<1>7. ServiceFollows'
  BY DEF IInv, ServiceFollows, WaitDown, WaitService, Observed, NotObserved
<1>8. Compared'
  BY DEF IInv, Compared, RunnerPlaced, Unreadable, WaitDown, WaitService, Observed,
     NotObserved, Context
<1> QED
  BY <1>1, <1>2, <1>3, <1>4, <1>5, <1>6, <1>7, <1>8 DEF IInv

LEMMA SnapshotBaselineKeeps == IInv /\ SnapshotBaseline => IInv'
<1> SUFFICES ASSUME IInv, SnapshotBaseline PROVE IInv'
  OBVIOUS
<1>1. TypeOK'
  <2>1. pc' \in Pc
    BY DEF IInv, SnapshotBaseline, Captures, Prepare, NotWritten,
       HasTranslation, Pc
  <2>2. losses' \in 0..MaxLosses
    BY OrchestratorAssumption DEF OrchestratorAssumption, IInv, TypeOK, Installed,
       SnapshotBaseline, Captures, Prepare, NotWritten, HasTranslation,
       faultVars, Loss
  <2>3. rules' \in 0..NRules /\ chain' \in {"none", "ours", "other"}
    BY OrchestratorAssumption DEF OrchestratorAssumption, IInv, TypeOK, Installed,
       SnapshotBaseline, Captures, Prepare, NotWritten, deviceVars,
       HasTranslation, natVars
  <2>4. {err', cancelled', expired', wasRunning', chainCreated', jumpCreated'}
     \subseteq BOOLEAN
    BY DEF IInv, TypeOK, SnapshotBaseline, Captures, Prepare, NotWritten,
       Context, Flags, HasTranslation
  <2>5. {jump', broken'} \subseteq BOOLEAN /\ net' \subseteq Residue /\ compared' \subseteq Commands
    BY DEF IInv, TypeOK, SnapshotBaseline, Captures, Prepare, NotWritten,
       deviceVars, HasTranslation, faultVars, Loss, natVars, procVars, Context
  <2>6. baseline' \in Snapshots
    <3>1. PICK failed \in SUBSET Commands : baseline' = Snapshot(failed)
      BY DEF SnapshotBaseline
    <3> QED
      BY <3>1, SnapshotIsOne
  <2>7. config' \in Configs /\ service' \in {"up", "stopping", "down", "starting"}
    BY DEF IInv, TypeOK, SnapshotBaseline, Captures, Prepare, NotWritten,
       Context, deviceVars, HasTranslation
  <2>8. /\ runner' \in {"none", "running", "ending", "ok", "failed"}
        /\ script' \in {"off", "on", "waiting", "clear"}
        /\ directory' \in {"none", "made", "results", "removed", "again"}
        /\ results' \in {"none", "old", "partial", "pulled"}
    BY DEF IInv, TypeOK, SnapshotBaseline, Captures, Prepare, NotWritten,
       deviceVars, HasTranslation, procVars, fileVars
  <2> QED
    BY <2>1, <2>2, <2>3, <2>4, <2>5, <2>6, <2>7, <2>8 DEF TypeOK
<1>2. ChainOwner'
  BY DEF IInv, ChainOwner, Installed, TakenBack, SnapshotBaseline, Captures,
     Prepare, NotWritten, Flags, deviceVars, HasTranslation, natVars
<1>3. Installed'
  BY OrchestratorAssumption DEF OrchestratorAssumption, IInv, Installed, ChainOwner,
     TakenBack, HasTranslation, Early, Installing, Benching, Ending, SnapshotBaseline,
     Captures, Prepare, NotWritten, Context, Flags, deviceVars, natVars
<1>4. TakenBack'
  BY OrchestratorAssumption DEF OrchestratorAssumption, IInv, TakenBack, ChainOwner,
     Installed, Cleaning, Closing, SnapshotBaseline, Captures, Prepare,
     NotWritten, HasTranslation
<1>5. RunnerPlaced'
  BY DEF IInv, RunnerPlaced, Early, Ending, Cleaning, Closing, SnapshotBaseline,
     Captures, Prepare, NotWritten, deviceVars, HasTranslation, procVars
<1>6. Pulled'
  BY DEF IInv, Pulled, RunnerPlaced, KeepRemote, Ending, Cleaning, Closing,
     SnapshotBaseline, Captures, Prepare, NotWritten, HasTranslation
<1>7. ServiceFollows'
  BY DEF IInv, ServiceFollows, SnapshotBaseline, Captures, Prepare,
     NotWritten, HasTranslation
<1>8. Compared'
  <2>1. PICK failed \in SUBSET Commands : Captures(failed) /\ baseline' = Snapshot(failed)
    BY DEF SnapshotBaseline
  <2>2. net = {}
    BY DEF IInv, RunnerPlaced, Early, SnapshotBaseline
  <2>3. pc' \notin {"start", "wait_up", "final", "done"} \/ err'
    BY DEF SnapshotBaseline, Prepare, NotWritten
  <2> QED
    BY <2>1, <2>2, <2>3, SnapshotShows DEF Compared
<1> QED
  BY <1>1, <1>2, <1>3, <1>4, <1>5, <1>6, <1>7, <1>8 DEF IInv

LEMMA CreateChainKeeps == IInv /\ CreateChain => IInv'
<1> SUFFICES ASSUME IInv, CreateChain PROVE IInv'
  OBVIOUS
<1>1. TypeOK'
  <2>1. pc' \in Pc
    BY DEF IInv, CreateChain, Succeeds, Refused, Late, Lost, Table, Pc
  <2>2. losses' \in 0..MaxLosses
    BY OrchestratorAssumption DEF OrchestratorAssumption, IInv, TypeOK, Installed,
       CreateChain, Succeeds, Refused, Late, Lost, Table, faultVars, Loss
  <2>3. rules' \in 0..NRules /\ chain' \in {"none", "ours", "other"}
    BY OrchestratorAssumption DEF OrchestratorAssumption, IInv, TypeOK, Installed,
       CreateChain, Refused, Late, Table
  <2>4. {err', cancelled', expired', wasRunning', chainCreated', jumpCreated'}
     \subseteq BOOLEAN
    BY DEF IInv, TypeOK, CreateChain, Succeeds, Refused, Late, Lost, Table, Context
  <2>5. {jump', broken'} \subseteq BOOLEAN /\ net' \subseteq Residue /\ compared' \subseteq Commands
    BY DEF IInv, TypeOK, CreateChain, Succeeds, Refused, Late, Lost, Table,
       faultVars, Loss, procVars, Context
  <2>6. baseline' \in Snapshots
    BY DEF IInv, TypeOK, CreateChain, Refused, Late, Table
  <2>7. config' \in Configs /\ service' \in {"up", "stopping", "down", "starting"}
    BY DEF IInv, TypeOK, CreateChain, Refused, Late, Table, Context
  <2>8. /\ runner' \in {"none", "running", "ending", "ok", "failed"}
        /\ script' \in {"off", "on", "waiting", "clear"}
        /\ directory' \in {"none", "made", "results", "removed", "again"}
        /\ results' \in {"none", "old", "partial", "pulled"}
    BY DEF IInv, TypeOK, CreateChain, Refused, Late, Table, procVars, fileVars
  <2> QED
    BY <2>1, <2>2, <2>3, <2>4, <2>5, <2>6, <2>7, <2>8 DEF TypeOK
<1>2. ChainOwner'
  BY DEF IInv, ChainOwner, Installed, TakenBack, CreateChain, Refused, Late, Lost,
     Table
<1>3. Installed'
  BY OrchestratorAssumption DEF OrchestratorAssumption, IInv, Installed, ChainOwner,
     TakenBack, HasTranslation, Early, Installing, Benching, Ending, CreateChain,
     Succeeds, Refused, Late, Lost, Table
<1>4. TakenBack'
  BY OrchestratorAssumption DEF OrchestratorAssumption, IInv, TakenBack, ChainOwner,
     Installed, Cleaning, Closing, CreateChain, Succeeds, Refused, Late, Lost, Table
<1>5. RunnerPlaced'
  BY DEF IInv, RunnerPlaced, Early, Ending, Cleaning, Closing, CreateChain, Succeeds,
     Refused, Late, Lost, Table, procVars
<1>6. Pulled'
  BY DEF IInv, Pulled, RunnerPlaced, KeepRemote, Ending, Cleaning, Closing,
     CreateChain, Succeeds, Refused, Late, Lost, Table
<1>7. ServiceFollows'
  BY DEF IInv, ServiceFollows, CreateChain, Succeeds, Refused, Late, Lost, Table
<1>8. Compared'
  BY DEF IInv, Compared, RunnerPlaced, Unreadable, CreateChain, Succeeds, Refused,
     Late, Lost, Table, Context
<1> QED
  BY <1>1, <1>2, <1>3, <1>4, <1>5, <1>6, <1>7, <1>8 DEF IInv

LEMMA AppendRuleKeeps == IInv /\ AppendRule => IInv'
<1> SUFFICES ASSUME IInv, AppendRule PROVE IInv'
  OBVIOUS
<1>1. TypeOK'
  <2>1. pc' \in Pc
    BY DEF IInv, AppendRule, AppendRuleUntil, Succeeds, Late, Lost, Table, Pc
  <2>2. losses' \in 0..MaxLosses
    BY OrchestratorAssumption DEF OrchestratorAssumption, IInv, TypeOK, Installed,
       AppendRule, AppendRuleUntil, Succeeds, Late, Lost, Table, faultVars, Loss
  <2>3. rules' \in 0..NRules /\ chain' \in {"none", "ours", "other"}
    BY OrchestratorAssumption DEF OrchestratorAssumption, IInv, TypeOK, Installed,
       AppendRule, AppendRuleUntil, Late, Table
  <2>4. {err', cancelled', expired', wasRunning', chainCreated', jumpCreated'}
     \subseteq BOOLEAN
    BY DEF IInv, TypeOK, AppendRule, AppendRuleUntil, Succeeds, Late, Lost, Table,
       Flags, Context
  <2>5. {jump', broken'} \subseteq BOOLEAN /\ net' \subseteq Residue /\ compared' \subseteq Commands
    BY DEF IInv, TypeOK, AppendRule, AppendRuleUntil, Succeeds, Late, Lost, Table,
       faultVars, Loss, procVars, Context
  <2>6. baseline' \in Snapshots
    BY DEF IInv, TypeOK, AppendRule, AppendRuleUntil, Late, Table
  <2>7. config' \in Configs /\ service' \in {"up", "stopping", "down", "starting"}
    BY DEF IInv, TypeOK, AppendRule, AppendRuleUntil, Late, Table, Context
  <2>8. /\ runner' \in {"none", "running", "ending", "ok", "failed"}
        /\ script' \in {"off", "on", "waiting", "clear"}
        /\ directory' \in {"none", "made", "results", "removed", "again"}
        /\ results' \in {"none", "old", "partial", "pulled"}
    BY DEF IInv, TypeOK, AppendRule, AppendRuleUntil, Late, Table, procVars,
       fileVars
  <2> QED
    BY <2>1, <2>2, <2>3, <2>4, <2>5, <2>6, <2>7, <2>8 DEF TypeOK
<1>2. ChainOwner'
  BY DEF IInv, ChainOwner, Installed, TakenBack, Installing, AppendRule,
     AppendRuleUntil, Late, Table, Flags
<1>3. Installed'
  BY OrchestratorAssumption DEF OrchestratorAssumption, IInv, TypeOK, Installed,
     ChainOwner, TakenBack, HasTranslation, Early, Installing, Benching, Ending,
     AppendRule, AppendRuleUntil, Succeeds, Late, Lost, Table, Flags
<1>4. TakenBack'
  BY OrchestratorAssumption DEF OrchestratorAssumption, IInv, TakenBack, ChainOwner,
     Installed, Cleaning, Closing, AppendRule, AppendRuleUntil, Succeeds, Late, Lost,
     Table
<1>5. RunnerPlaced'
  BY DEF IInv, RunnerPlaced, Installing, Ending, Cleaning, Closing, AppendRule,
     AppendRuleUntil, Succeeds, Late, Lost, Table, procVars
<1>6. Pulled'
  BY DEF IInv, Pulled, RunnerPlaced, KeepRemote, Ending, Cleaning, Closing,
     AppendRule, AppendRuleUntil, Succeeds, Late, Lost, Table
<1>7. ServiceFollows'
  BY DEF IInv, ServiceFollows, AppendRule, AppendRuleUntil, Succeeds, Late, Lost,
     Table
<1>8. Compared'
  BY DEF IInv, Compared, RunnerPlaced, Unreadable, AppendRule, AppendRuleUntil,
     Succeeds, Late, Lost, Table, Context
<1> QED
  BY <1>1, <1>2, <1>3, <1>4, <1>5, <1>6, <1>7, <1>8 DEF IInv

LEMMA InsertJumpKeeps == IInv /\ InsertJump => IInv'
<1> SUFFICES ASSUME IInv, InsertJump PROVE IInv'
  OBVIOUS
<1>1. TypeOK'
  <2>1. pc' \in Pc
    BY DEF IInv, InsertJump, Succeeds, Late, Lost, Table, Pc
  <2>2. losses' \in 0..MaxLosses
    BY OrchestratorAssumption DEF OrchestratorAssumption, IInv, TypeOK, Installed,
       InsertJump, Succeeds, Late, Lost, Table, faultVars, Loss
  <2>3. rules' \in 0..NRules /\ chain' \in {"none", "ours", "other"}
    BY OrchestratorAssumption DEF OrchestratorAssumption, IInv, TypeOK, Installed,
       InsertJump, Late, Table
  <2>4. {err', cancelled', expired', wasRunning', chainCreated', jumpCreated'}
     \subseteq BOOLEAN
    BY DEF IInv, TypeOK, InsertJump, Succeeds, Late, Lost, Table, Context
  <2>5. {jump', broken'} \subseteq BOOLEAN /\ net' \subseteq Residue /\ compared' \subseteq Commands
    BY DEF IInv, TypeOK, InsertJump, Succeeds, Late, Lost, Table, faultVars, Loss,
       procVars, Context
  <2>6. baseline' \in Snapshots
    BY DEF IInv, TypeOK, InsertJump, Late, Table
  <2>7. config' \in Configs /\ service' \in {"up", "stopping", "down", "starting"}
    BY DEF IInv, TypeOK, InsertJump, Late, Table, Context
  <2>8. /\ runner' \in {"none", "running", "ending", "ok", "failed"}
        /\ script' \in {"off", "on", "waiting", "clear"}
        /\ directory' \in {"none", "made", "results", "removed", "again"}
        /\ results' \in {"none", "old", "partial", "pulled"}
    BY DEF IInv, TypeOK, InsertJump, Late, Table, procVars, fileVars
  <2> QED
    BY <2>1, <2>2, <2>3, <2>4, <2>5, <2>6, <2>7, <2>8 DEF TypeOK
<1>2. ChainOwner'
  BY DEF IInv, ChainOwner, Installed, TakenBack, Installing, InsertJump, Late, Table
<1>3. Installed'
  BY OrchestratorAssumption DEF OrchestratorAssumption, IInv, Installed, ChainOwner,
     TakenBack, HasTranslation, Early, Installing, InsertJump, Succeeds, Late, Lost,
     Table
<1>4. TakenBack'
  BY OrchestratorAssumption DEF OrchestratorAssumption, IInv, TypeOK, TakenBack,
     ChainOwner, Installed, Closing, InsertJump, Succeeds, Late, Lost, Table
<1>5. RunnerPlaced'
  BY DEF IInv, RunnerPlaced, Installing, Ending, Cleaning, Closing, InsertJump,
     Succeeds, Late, Lost, Table, procVars
<1>6. Pulled'
  BY DEF IInv, Pulled, RunnerPlaced, KeepRemote, Ending, Cleaning, Closing,
     InsertJump, Succeeds, Late, Lost, Table
<1>7. ServiceFollows'
  BY DEF IInv, ServiceFollows, InsertJump, Succeeds, Late, Lost, Table
<1>8. Compared'
  BY DEF IInv, Compared, RunnerPlaced, Unreadable, InsertJump, Succeeds, Late, Lost,
     Table, Context
<1> QED
  BY <1>1, <1>2, <1>3, <1>4, <1>5, <1>6, <1>7, <1>8 DEF IInv

LEMMA MakeDirectoryKeeps == IInv /\ MakeDirectory => IInv'
<1> SUFFICES ASSUME IInv, MakeDirectory PROVE IInv'
  OBVIOUS
<1>1. TypeOK'
  <2>1. pc' \in Pc
    BY DEF IInv, MakeDirectory, Succeeds, Late, Lost, Bench, Pc
  <2>2. losses' \in 0..MaxLosses
    BY OrchestratorAssumption DEF OrchestratorAssumption, IInv, TypeOK, Installed,
       MakeDirectory, Succeeds, Late, Lost, Bench, faultVars, Loss
  <2>3. rules' \in 0..NRules /\ chain' \in {"none", "ours", "other"}
    BY OrchestratorAssumption DEF OrchestratorAssumption, IInv, TypeOK, Installed,
       MakeDirectory, Late, Bench, natVars
  <2>4. {err', cancelled', expired', wasRunning', chainCreated', jumpCreated'}
     \subseteq BOOLEAN
    BY DEF IInv, TypeOK, MakeDirectory, Succeeds, Late, Lost, Bench, Context, Flags
  <2>5. {jump', broken'} \subseteq BOOLEAN /\ net' \subseteq Residue /\ compared' \subseteq Commands
    BY DEF IInv, TypeOK, MakeDirectory, Succeeds, Late, Lost, Bench, procVars,
       faultVars, Loss, natVars, Context
  <2>6. baseline' \in Snapshots
    BY DEF IInv, TypeOK, MakeDirectory, Late, Bench
  <2>7. config' \in Configs /\ service' \in {"up", "stopping", "down", "starting"}
    BY DEF IInv, TypeOK, MakeDirectory, Late, Bench, Context
  <2>8. /\ runner' \in {"none", "running", "ending", "ok", "failed"}
        /\ script' \in {"off", "on", "waiting", "clear"}
        /\ directory' \in {"none", "made", "results", "removed", "again"}
        /\ results' \in {"none", "old", "partial", "pulled"}
    BY DEF IInv, TypeOK, MakeDirectory, Late, Bench, procVars
  <2> QED
    BY <2>1, <2>2, <2>3, <2>4, <2>5, <2>6, <2>7, <2>8 DEF TypeOK
<1>2. ChainOwner'
  BY DEF IInv, ChainOwner, Installed, TakenBack, MakeDirectory, Succeeds, Late, Lost,
     Bench, natVars, Flags
<1>3. Installed'
  BY OrchestratorAssumption DEF OrchestratorAssumption, IInv, Installed, ChainOwner,
     TakenBack, HasTranslation, Early, Installing, Benching, MakeDirectory, Succeeds,
     Late, Lost, Bench, natVars, Context
<1>4. TakenBack'
  BY OrchestratorAssumption DEF OrchestratorAssumption, IInv, TakenBack, ChainOwner,
     Installed, Cleaning, Closing, MakeDirectory, Succeeds, Late, Lost, Bench
<1>5. RunnerPlaced'
  BY DEF IInv, RunnerPlaced, Ending, Cleaning, Closing, MakeDirectory, Succeeds, Late,
     Lost, Bench, procVars
<1>6. Pulled'
  BY DEF IInv, Pulled, RunnerPlaced, KeepRemote, Ending, Cleaning, Closing,
     MakeDirectory, Succeeds, Late, Lost, Bench
<1>7. ServiceFollows'
  BY DEF IInv, ServiceFollows, MakeDirectory, Succeeds, Late, Lost, Bench
<1>8. Compared'
  BY DEF IInv, Compared, RunnerPlaced, Unreadable, MakeDirectory, Succeeds, Late,
     Lost, Bench, Context
<1> QED
  BY <1>1, <1>2, <1>3, <1>4, <1>5, <1>6, <1>7, <1>8 DEF IInv

LEMMA DeployKeeps == IInv /\ Deploy => IInv'
<1> SUFFICES ASSUME IInv, Deploy PROVE IInv'
  OBVIOUS
<1>1. TypeOK'
  <2>1. pc' \in Pc
    BY DEF IInv, Deploy, Succeeds, Lost, Bench, Pc
  <2>2. losses' \in 0..MaxLosses
    BY OrchestratorAssumption DEF OrchestratorAssumption, IInv, TypeOK, Installed,
       Deploy, Succeeds, Lost, Bench, faultVars, Loss
  <2>3. rules' \in 0..NRules /\ chain' \in {"none", "ours", "other"}
    BY OrchestratorAssumption DEF OrchestratorAssumption, IInv, TypeOK, Installed,
       Deploy, Bench, natVars
  <2>4. {err', cancelled', expired', wasRunning', chainCreated', jumpCreated'}
     \subseteq BOOLEAN
    BY DEF IInv, TypeOK, Deploy, Succeeds, Lost, Bench, Context, Flags
  <2>5. {jump', broken'} \subseteq BOOLEAN /\ net' \subseteq Residue /\ compared' \subseteq Commands
    BY DEF IInv, TypeOK, Deploy, Succeeds, Lost, Bench, procVars, faultVars, Loss,
       natVars, Context
  <2>6. baseline' \in Snapshots
    BY DEF IInv, TypeOK, Deploy, Bench
  <2>7. config' \in Configs /\ service' \in {"up", "stopping", "down", "starting"}
    BY DEF IInv, TypeOK, Deploy, Bench, Context
  <2>8. /\ runner' \in {"none", "running", "ending", "ok", "failed"}
        /\ script' \in {"off", "on", "waiting", "clear"}
        /\ directory' \in {"none", "made", "results", "removed", "again"}
        /\ results' \in {"none", "old", "partial", "pulled"}
    BY DEF IInv, TypeOK, Deploy, Bench, procVars, fileVars
  <2> QED
    BY <2>1, <2>2, <2>3, <2>4, <2>5, <2>6, <2>7, <2>8 DEF TypeOK
<1>2. ChainOwner'
  BY DEF IInv, ChainOwner, Installed, TakenBack, Deploy, Succeeds, Lost, Bench,
     natVars, Flags
<1>3. Installed'
  BY OrchestratorAssumption DEF OrchestratorAssumption, IInv, Installed, ChainOwner,
     TakenBack, HasTranslation, Early, Installing, Benching, Deploy, Succeeds, Lost,
     Bench, natVars, Context
<1>4. TakenBack'
  BY OrchestratorAssumption DEF OrchestratorAssumption, IInv, TakenBack, ChainOwner,
     Installed, Cleaning, Closing, Deploy, Succeeds, Lost, Bench
<1>5. RunnerPlaced'
  BY DEF IInv, RunnerPlaced, Ending, Cleaning, Closing, Deploy, Succeeds, Lost, Bench,
     procVars
<1>6. Pulled'
  BY DEF IInv, Pulled, RunnerPlaced, KeepRemote, Ending, Cleaning, Closing, Deploy,
     Succeeds, Lost, Bench
<1>7. ServiceFollows'
  BY DEF IInv, ServiceFollows, Deploy, Succeeds, Lost, Bench
<1>8. Compared'
  BY DEF IInv, Compared, RunnerPlaced, Unreadable, Deploy, Succeeds, Lost, Bench, Context
<1> QED
  BY <1>1, <1>2, <1>3, <1>4, <1>5, <1>6, <1>7, <1>8 DEF IInv

LEMMA LaunchMatrixKeeps == IInv /\ LaunchMatrix => IInv'
<1> SUFFICES ASSUME IInv, LaunchMatrix PROVE IInv'
  OBVIOUS
<1>1. TypeOK'
  <2>1. pc' \in Pc
    BY DEF IInv, LaunchMatrix, Succeeds, Lost, Bench, Pc
  <2>2. losses' \in 0..MaxLosses
    BY OrchestratorAssumption DEF OrchestratorAssumption, IInv, TypeOK, Installed,
       LaunchMatrix, Succeeds, Lost, Bench, faultVars, Loss
  <2>3. rules' \in 0..NRules /\ chain' \in {"none", "ours", "other"}
    BY OrchestratorAssumption DEF OrchestratorAssumption, IInv, TypeOK, Installed,
       LaunchMatrix, Bench, natVars
  <2>4. {err', cancelled', expired', wasRunning', chainCreated', jumpCreated'}
     \subseteq BOOLEAN
    BY DEF IInv, TypeOK, LaunchMatrix, Succeeds, Lost, Bench, Context, Flags
  <2>5. {jump', broken'} \subseteq BOOLEAN /\ net' \subseteq Residue /\ compared' \subseteq Commands
    BY DEF IInv, TypeOK, LaunchMatrix, Succeeds, Lost, Bench, faultVars, Loss,
       natVars, Context
  <2>6. baseline' \in Snapshots
    BY DEF IInv, TypeOK, LaunchMatrix, Bench
  <2>7. config' \in Configs /\ service' \in {"up", "stopping", "down", "starting"}
    BY DEF IInv, TypeOK, LaunchMatrix, Bench, Context
  <2>8. /\ runner' \in {"none", "running", "ending", "ok", "failed"}
        /\ script' \in {"off", "on", "waiting", "clear"}
        /\ directory' \in {"none", "made", "results", "removed", "again"}
        /\ results' \in {"none", "old", "partial", "pulled"}
    BY DEF IInv, TypeOK, LaunchMatrix, Bench, fileVars
  <2> QED
    BY <2>1, <2>2, <2>3, <2>4, <2>5, <2>6, <2>7, <2>8 DEF TypeOK
<1>2. ChainOwner'
  BY DEF IInv, ChainOwner, Installed, TakenBack, LaunchMatrix, Succeeds, Lost, Bench,
     natVars, Flags
<1>3. Installed'
  BY OrchestratorAssumption DEF OrchestratorAssumption, IInv, Installed, ChainOwner,
     TakenBack, HasTranslation, Early, Installing, Benching, LaunchMatrix, Succeeds,
     Lost, Bench, natVars, Context
<1>4. TakenBack'
  BY OrchestratorAssumption DEF OrchestratorAssumption, IInv, TakenBack, ChainOwner,
     Installed, Cleaning, Closing, LaunchMatrix, Succeeds, Lost, Bench
<1>5. RunnerPlaced'
  BY DEF IInv, RunnerPlaced, Early, Installing, Ending, Cleaning, Closing,
     LaunchMatrix, Succeeds, Lost, Bench
<1>6. Pulled'
  BY DEF IInv, Pulled, RunnerPlaced, KeepRemote, Ending, Cleaning, Closing,
     LaunchMatrix, Succeeds, Lost, Bench
<1>7. ServiceFollows'
  BY DEF IInv, ServiceFollows, LaunchMatrix, Succeeds, Lost, Bench
<1>8. Compared'
  <2>1. pc' \in {"matrix_wait", "pull"} /\ UNCHANGED baseline
    BY DEF LaunchMatrix, Succeeds, Lost, Bench
  <2> QED
    BY <2>1 DEF IInv, Compared
<1> QED
  BY <1>1, <1>2, <1>3, <1>4, <1>5, <1>6, <1>7, <1>8 DEF IInv

LEMMA MatrixReturnsKeeps == IInv /\ MatrixReturns => IInv'
<1> SUFFICES ASSUME IInv, MatrixReturns PROVE IInv'
  OBVIOUS
<1>1. TypeOK'
  <2>1. pc' \in Pc
    BY DEF IInv, MatrixReturns, Succeeds, Refused, Lost, Bench, Pc
  <2>2. losses' \in 0..MaxLosses
    BY OrchestratorAssumption DEF OrchestratorAssumption, IInv, TypeOK, Installed,
       MatrixReturns, Succeeds, Refused, Lost, Bench, faultVars, Loss
  <2>3. rules' \in 0..NRules /\ chain' \in {"none", "ours", "other"}
    BY OrchestratorAssumption DEF OrchestratorAssumption, IInv, TypeOK, Installed,
       MatrixReturns, Refused, Bench, natVars
  <2>4. {err', cancelled', expired', wasRunning', chainCreated', jumpCreated'}
     \subseteq BOOLEAN
    BY DEF IInv, TypeOK, MatrixReturns, Succeeds, Refused, Lost, Bench, Context,
       Flags
  <2>5. {jump', broken'} \subseteq BOOLEAN /\ net' \subseteq Residue /\ compared' \subseteq Commands
    BY DEF IInv, TypeOK, MatrixReturns, Succeeds, Refused, Lost, Bench, procVars,
       faultVars, Loss, natVars, Context
  <2>6. baseline' \in Snapshots
    BY DEF IInv, TypeOK, MatrixReturns, Refused, Bench
  <2>7. config' \in Configs /\ service' \in {"up", "stopping", "down", "starting"}
    BY DEF IInv, TypeOK, MatrixReturns, Refused, Bench, Context
  <2>8. /\ runner' \in {"none", "running", "ending", "ok", "failed"}
        /\ script' \in {"off", "on", "waiting", "clear"}
        /\ directory' \in {"none", "made", "results", "removed", "again"}
        /\ results' \in {"none", "old", "partial", "pulled"}
    BY DEF IInv, TypeOK, MatrixReturns, Refused, Bench, procVars, fileVars
  <2> QED
    BY <2>1, <2>2, <2>3, <2>4, <2>5, <2>6, <2>7, <2>8 DEF TypeOK
<1>2. ChainOwner'
  BY DEF IInv, ChainOwner, Installed, TakenBack, MatrixReturns, Succeeds, Refused,
     Lost, Bench, natVars, Flags
<1>3. Installed'
  BY OrchestratorAssumption DEF OrchestratorAssumption, IInv, Installed, ChainOwner,
     TakenBack, HasTranslation, Early, Installing, Benching, MatrixReturns, Succeeds,
     Refused, Lost, Bench, natVars, Context
<1>4. TakenBack'
  BY OrchestratorAssumption DEF OrchestratorAssumption, IInv, TakenBack, ChainOwner,
     Installed, Cleaning, Closing, MatrixReturns, Succeeds, Refused, Lost, Bench
<1>5. RunnerPlaced'
  BY DEF IInv, RunnerPlaced, Early, Installing, MatrixReturns, Succeeds, Refused,
     Lost, Bench, procVars
<1>6. Pulled'
  BY DEF IInv, Pulled, RunnerPlaced, KeepRemote, Ending, Cleaning, Closing,
     MatrixReturns, Succeeds, Refused, Lost, Bench
<1>7. ServiceFollows'
  BY DEF IInv, ServiceFollows, MatrixReturns, Succeeds, Refused, Lost, Bench
<1>8. Compared'
  BY DEF IInv, Compared, RunnerPlaced, Unreadable, MatrixReturns, Succeeds, Refused,
     Lost, Bench, Context
<1> QED
  BY <1>1, <1>2, <1>3, <1>4, <1>5, <1>6, <1>7, <1>8 DEF IInv

LEMMA PullKeeps == IInv /\ Pull => IInv'
<1> SUFFICES ASSUME IInv, Pull PROVE IInv'
  OBVIOUS
<1>1. TypeOK'
  <2>1. pc' \in Pc
    BY DEF IInv, Pull, Succeeds, KeepRemote, Refused, Lost, Bench, Pc
  <2>2. losses' \in 0..MaxLosses
    BY OrchestratorAssumption DEF OrchestratorAssumption, IInv, TypeOK, Installed,
       Pull, faultVars, Succeeds, KeepRemote, Refused, Lost, Bench, Loss
  <2>3. rules' \in 0..NRules /\ chain' \in {"none", "ours", "other"}
    BY OrchestratorAssumption DEF OrchestratorAssumption, IInv, TypeOK, Installed,
       Pull, KeepRemote, Refused, Bench, natVars
  <2>4. {err', cancelled', expired', wasRunning', chainCreated', jumpCreated'}
     \subseteq BOOLEAN
    BY DEF IInv, TypeOK, Pull, Succeeds, KeepRemote, Refused, Lost, Bench, Context,
       Flags
  <2>5. {jump', broken'} \subseteq BOOLEAN /\ net' \subseteq Residue /\ compared' \subseteq Commands
    BY DEF IInv, TypeOK, Pull, faultVars, Succeeds, KeepRemote, Refused, Lost,
       Bench, procVars, Loss, natVars, Context
  <2>6. baseline' \in Snapshots
    BY DEF IInv, TypeOK, Pull, KeepRemote, Refused, Bench
  <2>7. config' \in Configs /\ service' \in {"up", "stopping", "down", "starting"}
    BY DEF IInv, TypeOK, Pull, KeepRemote, Refused, Bench, Context
  <2>8. /\ runner' \in {"none", "running", "ending", "ok", "failed"}
        /\ script' \in {"off", "on", "waiting", "clear"}
        /\ directory' \in {"none", "made", "results", "removed", "again"}
        /\ results' \in {"none", "old", "partial", "pulled"}
    BY DEF IInv, TypeOK, Pull, KeepRemote, Refused, Bench, procVars
  <2> QED
    BY <2>1, <2>2, <2>3, <2>4, <2>5, <2>6, <2>7, <2>8 DEF TypeOK
<1>2. ChainOwner'
  BY DEF IInv, ChainOwner, Installed, TakenBack, Pull, Succeeds, KeepRemote, Refused,
     Lost, Bench, natVars, Flags
<1>3. Installed'
  BY OrchestratorAssumption DEF OrchestratorAssumption, IInv, Installed, ChainOwner,
     TakenBack, HasTranslation, Early, Installing, Benching, Pull, Succeeds,
     KeepRemote, Refused, Lost, Bench, natVars, Context
<1>4. TakenBack'
  BY OrchestratorAssumption DEF OrchestratorAssumption, IInv, TakenBack, ChainOwner,
     Installed, Cleaning, Closing, Pull, Succeeds, KeepRemote, Refused, Lost, Bench
<1>5. RunnerPlaced'
  BY DEF IInv, RunnerPlaced, Early, Installing, Pull, Succeeds, KeepRemote, Refused,
     Lost, Bench, procVars
<1>6. Pulled'
  BY DEF IInv, Pulled, RunnerPlaced, KeepRemote, Ending, Cleaning, Closing, Pull,
     Succeeds, Refused, Lost, Bench, Context
<1>7. ServiceFollows'
  BY DEF IInv, ServiceFollows, Pull, Succeeds, KeepRemote, Refused, Lost, Bench
<1>8. Compared'
  BY DEF IInv, Compared, RunnerPlaced, Unreadable, Pull, Succeeds, KeepRemote,
     Refused, Lost, Bench, Context
<1> QED
  BY <1>1, <1>2, <1>3, <1>4, <1>5, <1>6, <1>7, <1>8 DEF IInv

LEMMA RemoveRemoteKeeps == IInv /\ RemoveRemote => IInv'
<1> SUFFICES ASSUME IInv, RemoveRemote PROVE IInv'
  OBVIOUS
<1>1. TypeOK'
  <2>1. pc' \in Pc
    BY DEF IInv, RemoveRemote, Succeeds, Late, Lost, Bench, Pc
  <2>2. losses' \in 0..MaxLosses
    BY OrchestratorAssumption DEF OrchestratorAssumption, IInv, TypeOK, Installed,
       RemoveRemote, Succeeds, Late, Lost, Bench, faultVars, Loss
  <2>3. rules' \in 0..NRules /\ chain' \in {"none", "ours", "other"}
    BY OrchestratorAssumption DEF OrchestratorAssumption, IInv, TypeOK, Installed,
       RemoveRemote, Late, Bench, natVars
  <2>4. {err', cancelled', expired', wasRunning', chainCreated', jumpCreated'}
     \subseteq BOOLEAN
    BY DEF IInv, TypeOK, RemoveRemote, Succeeds, Late, Lost, Bench, Context, Flags
  <2>5. {jump', broken'} \subseteq BOOLEAN /\ net' \subseteq Residue /\ compared' \subseteq Commands
    BY DEF IInv, TypeOK, RemoveRemote, Succeeds, Late, Lost, Bench, procVars,
       faultVars, Loss, natVars, Context
  <2>6. baseline' \in Snapshots
    BY DEF IInv, TypeOK, RemoveRemote, Late, Bench
  <2>7. config' \in Configs /\ service' \in {"up", "stopping", "down", "starting"}
    BY DEF IInv, TypeOK, RemoveRemote, Late, Bench, Context
  <2>8. /\ runner' \in {"none", "running", "ending", "ok", "failed"}
        /\ script' \in {"off", "on", "waiting", "clear"}
        /\ directory' \in {"none", "made", "results", "removed", "again"}
        /\ results' \in {"none", "old", "partial", "pulled"}
    BY DEF IInv, TypeOK, RemoveRemote, Late, Bench, procVars
  <2> QED
    BY <2>1, <2>2, <2>3, <2>4, <2>5, <2>6, <2>7, <2>8 DEF TypeOK
<1>2. ChainOwner'
  BY DEF IInv, ChainOwner, Installed, TakenBack, RemoveRemote, Succeeds, Late, Lost,
     Bench, natVars, Flags
<1>3. Installed'
  BY OrchestratorAssumption DEF OrchestratorAssumption, IInv, Installed, ChainOwner,
     TakenBack, HasTranslation, Early, Installing, Benching, RemoveRemote, Succeeds,
     Late, Lost, Bench, natVars, Context
<1>4. TakenBack'
  BY OrchestratorAssumption DEF OrchestratorAssumption, IInv, TakenBack, ChainOwner,
     Installed, Cleaning, Closing, RemoveRemote, Succeeds, Late, Lost, Bench
<1>5. RunnerPlaced'
  BY DEF IInv, RunnerPlaced, Early, Installing, RemoveRemote, Succeeds, Late, Lost,
     Bench, procVars
<1>6. Pulled'
  BY DEF IInv, Pulled, RunnerPlaced, KeepRemote, RemoveRemote, Succeeds, Late, Lost,
     Bench
<1>7. ServiceFollows'
  BY DEF IInv, ServiceFollows, RemoveRemote, Succeeds, Late, Lost, Bench
<1>8. Compared'
  BY DEF IInv, Compared, RunnerPlaced, Unreadable, RemoveRemote, Succeeds, Late, Lost,
     Bench, Context
<1> QED
  BY <1>1, <1>2, <1>3, <1>4, <1>5, <1>6, <1>7, <1>8 DEF IInv

LEMMA CleanupProcessesKeeps == IInv /\ CleanupProcesses => IInv'
<1> SUFFICES ASSUME IInv, CleanupProcesses PROVE IInv'
  OBVIOUS
<1>1. TypeOK'
  <2>1. pc' \in Pc
    BY DEF IInv, CleanupProcesses, Succeeds, Late, AfterKill, Lost, Give, Pc
  <2>2. losses' \in 0..MaxLosses
    BY OrchestratorAssumption DEF OrchestratorAssumption, IInv, TypeOK, Installed,
       CleanupProcesses, Succeeds, Late, AfterKill, Lost, Give, faultVars, Loss
  <2>3. rules' \in 0..NRules /\ chain' \in {"none", "ours", "other"}
    BY OrchestratorAssumption DEF OrchestratorAssumption, IInv, TypeOK, Installed,
       CleanupProcesses, Late, AfterKill, Give, natVars
  <2>4. {err', cancelled', expired', wasRunning', chainCreated', jumpCreated'}
     \subseteq BOOLEAN
    BY DEF IInv, TypeOK, CleanupProcesses, Succeeds, Late, AfterKill, Lost, Give,
       Context, Flags
  <2>5. {jump', broken'} \subseteq BOOLEAN /\ net' \subseteq Residue /\ compared' \subseteq Commands
    BY DEF IInv, TypeOK, CleanupProcesses, Succeeds, Late, AfterKill, Lost, Give,
       faultVars, Loss, natVars, Context
  <2>6. baseline' \in Snapshots
    BY DEF IInv, TypeOK, CleanupProcesses, Late, AfterKill, Give
  <2>7. config' \in Configs /\ service' \in {"up", "stopping", "down", "starting"}
    BY DEF IInv, TypeOK, CleanupProcesses, Late, AfterKill, Give, Context
  <2>8. /\ runner' \in {"none", "running", "ending", "ok", "failed"}
        /\ script' \in {"off", "on", "waiting", "clear"}
        /\ directory' \in {"none", "made", "results", "removed", "again"}
        /\ results' \in {"none", "old", "partial", "pulled"}
    BY DEF IInv, TypeOK, CleanupProcesses, Late, AfterKill, Give, fileVars
  <2> QED
    BY <2>1, <2>2, <2>3, <2>4, <2>5, <2>6, <2>7, <2>8 DEF TypeOK
<1>2. ChainOwner'
  BY DEF IInv, ChainOwner, Installed, TakenBack, CleanupProcesses, Succeeds, Late,
     AfterKill, Lost, Give, natVars, Flags
<1>3. Installed'
  BY OrchestratorAssumption DEF OrchestratorAssumption, IInv, Installed, ChainOwner,
     TakenBack, HasTranslation, Early, Installing, Ending, CleanupProcesses, Succeeds,
     Late, AfterKill, Lost, Give, natVars, Context
<1>4. TakenBack'
  BY OrchestratorAssumption DEF OrchestratorAssumption, IInv, TakenBack, ChainOwner,
     Installed, Cleaning, Closing, CleanupProcesses, Succeeds, Late, AfterKill, Lost,
     Give, natVars, Flags
<1>5. RunnerPlaced'
  BY DEF IInv, RunnerPlaced, Early, Installing, Ending, CleanupProcesses, Succeeds,
     Late, AfterKill, Lost, Give
<1>6. Pulled'
  BY DEF IInv, Pulled, RunnerPlaced, KeepRemote, Ending, CleanupProcesses, Succeeds,
     Late, AfterKill, Lost, Give, fileVars, Context
<1>7. ServiceFollows'
  BY DEF IInv, ServiceFollows, CleanupProcesses, Succeeds, Late, AfterKill, Lost, Give
<1>8. Compared'
  BY DEF IInv, Compared, RunnerPlaced, Unreadable, CleanupProcesses, Succeeds, Late,
     AfterKill, Lost, Give, Context
<1> QED
  BY <1>1, <1>2, <1>3, <1>4, <1>5, <1>6, <1>7, <1>8 DEF IInv

LEMMA ProcessesCleanedKeeps == IInv /\ ProcessesCleaned => IInv'
<1> SUFFICES ASSUME IInv, ProcessesCleaned PROVE IInv'
  OBVIOUS
<1>1. TypeOK'
  <2>1. pc' \in Pc
    BY DEF IInv, ProcessesCleaned, Succeeds, AfterKill, Lost, Give, Pc
  <2>2. losses' \in 0..MaxLosses
    BY OrchestratorAssumption DEF OrchestratorAssumption, IInv, TypeOK, Installed,
       ProcessesCleaned, Succeeds, AfterKill, Lost, Give, faultVars, Loss
  <2>3. rules' \in 0..NRules /\ chain' \in {"none", "ours", "other"}
    BY OrchestratorAssumption DEF OrchestratorAssumption, IInv, TypeOK, Installed,
       ProcessesCleaned, AfterKill, Give, natVars
  <2>4. {err', cancelled', expired', wasRunning', chainCreated', jumpCreated'}
     \subseteq BOOLEAN
    BY DEF IInv, TypeOK, ProcessesCleaned, Succeeds, AfterKill, Lost, Give, Context,
       Flags
  <2>5. {jump', broken'} \subseteq BOOLEAN /\ net' \subseteq Residue /\ compared' \subseteq Commands
    BY DEF IInv, TypeOK, ProcessesCleaned, Succeeds, AfterKill, Lost, Give,
       procVars, faultVars, Loss, natVars, Context
  <2>6. baseline' \in Snapshots
    BY DEF IInv, TypeOK, ProcessesCleaned, AfterKill, Give
  <2>7. config' \in Configs /\ service' \in {"up", "stopping", "down", "starting"}
    BY DEF IInv, TypeOK, ProcessesCleaned, AfterKill, Give, Context
  <2>8. /\ runner' \in {"none", "running", "ending", "ok", "failed"}
        /\ script' \in {"off", "on", "waiting", "clear"}
        /\ directory' \in {"none", "made", "results", "removed", "again"}
        /\ results' \in {"none", "old", "partial", "pulled"}
    BY DEF IInv, TypeOK, ProcessesCleaned, AfterKill, Give, procVars, fileVars
  <2> QED
    BY <2>1, <2>2, <2>3, <2>4, <2>5, <2>6, <2>7, <2>8 DEF TypeOK
<1>2. ChainOwner'
  BY DEF IInv, ChainOwner, Installed, TakenBack, ProcessesCleaned, Succeeds,
     AfterKill, Lost, Give, natVars, Flags
<1>3. Installed'
  BY OrchestratorAssumption DEF OrchestratorAssumption, IInv, Installed, ChainOwner,
     TakenBack, HasTranslation, Early, Installing, Ending, ProcessesCleaned, Succeeds,
     AfterKill, Lost, Give, natVars, Context
<1>4. TakenBack'
  BY OrchestratorAssumption DEF OrchestratorAssumption, IInv, TakenBack, ChainOwner,
     Installed, Cleaning, Closing, ProcessesCleaned, Succeeds, AfterKill, Lost, Give,
     natVars, Flags
<1>5. RunnerPlaced'
  BY DEF IInv, RunnerPlaced, Early, Installing, Ending, ProcessesCleaned, Succeeds,
     AfterKill, Lost, Give, procVars
<1>6. Pulled'
  BY DEF IInv, Pulled, RunnerPlaced, KeepRemote, Ending, ProcessesCleaned, Succeeds,
     AfterKill, Lost, Give, fileVars, Context
<1>7. ServiceFollows'
  BY DEF IInv, ServiceFollows, ProcessesCleaned, Succeeds, AfterKill, Lost, Give
<1>8. Compared'
  BY DEF IInv, Compared, RunnerPlaced, Unreadable, ProcessesCleaned, Succeeds,
     AfterKill, Lost, Give, Context
<1> QED
  BY <1>1, <1>2, <1>3, <1>4, <1>5, <1>6, <1>7, <1>8 DEF IInv

LEMMA DeleteJumpKeeps == IInv /\ DeleteJump => IInv'
<1> SUFFICES ASSUME IInv, DeleteJump PROVE IInv'
  OBVIOUS
<1>1. TypeOK'
  <2>1. pc' \in Pc
    BY DEF IInv, DeleteJump, Succeeds, Refused, Late, Lost, Table, Pc
  <2>2. losses' \in 0..MaxLosses
    BY OrchestratorAssumption DEF OrchestratorAssumption, IInv, TypeOK, Installed,
       DeleteJump, Succeeds, Refused, Late, Lost, Table, faultVars, Loss
  <2>3. rules' \in 0..NRules /\ chain' \in {"none", "ours", "other"}
    BY OrchestratorAssumption DEF OrchestratorAssumption, IInv, TypeOK, Installed,
       DeleteJump, Refused, Late, Table
  <2>4. {err', cancelled', expired', wasRunning', chainCreated', jumpCreated'}
     \subseteq BOOLEAN
    BY DEF IInv, TypeOK, DeleteJump, Succeeds, Refused, Late, Lost, Table, Context
  <2>5. {jump', broken'} \subseteq BOOLEAN /\ net' \subseteq Residue /\ compared' \subseteq Commands
    BY DEF IInv, TypeOK, DeleteJump, Succeeds, Refused, Late, Lost, Table,
       faultVars, Loss, procVars, Context
  <2>6. baseline' \in Snapshots
    BY DEF IInv, TypeOK, DeleteJump, Refused, Late, Table
  <2>7. config' \in Configs /\ service' \in {"up", "stopping", "down", "starting"}
    BY DEF IInv, TypeOK, DeleteJump, Refused, Late, Table, Context
  <2>8. /\ runner' \in {"none", "running", "ending", "ok", "failed"}
        /\ script' \in {"off", "on", "waiting", "clear"}
        /\ directory' \in {"none", "made", "results", "removed", "again"}
        /\ results' \in {"none", "old", "partial", "pulled"}
    BY DEF IInv, TypeOK, DeleteJump, Refused, Late, Table, procVars, fileVars
  <2> QED
    BY <2>1, <2>2, <2>3, <2>4, <2>5, <2>6, <2>7, <2>8 DEF TypeOK
<1>2. ChainOwner'
  <2>1. chainCreated /\ UNCHANGED <<chain, rules, chainCreated>>
    BY DEF IInv, TakenBack, Cleaning, DeleteJump
  <2>2. (jump' => jump) /\ (jumpCreated' => jumpCreated)
    BY DEF DeleteJump
  <2> QED
    BY <2>1, <2>2 DEF IInv, ChainOwner
<1>3. Installed'
  BY OrchestratorAssumption DEF OrchestratorAssumption, IInv, Installed, ChainOwner,
     TakenBack, HasTranslation, Early, Installing, Benching, Ending, DeleteJump,
     Succeeds, Refused, Late, Lost, Table
<1>4. TakenBack'
  <2>1. /\ pc = "clean_jump" /\ chainCreated /\ jumpCreated
        /\ UNCHANGED <<chain, rules, chainCreated>>
    BY DEF IInv, TakenBack, Cleaning, DeleteJump
  <2>2. \/ pc' = "clean_flush" /\ ~jumpCreated'
        \/ pc' = "after" /\ err' /\ ~jump'
        \/ pc' = "after" /\ err' /\ broken'
    BY <2>1 DEF DeleteJump, Succeeds, Refused, Late, Lost, Loss, Restoring
  <2> QED
    BY <2>1, <2>2 DEF TakenBack, Closing
<1>5. RunnerPlaced'
  BY DEF IInv, RunnerPlaced, Early, Installing, Cleaning, DeleteJump, Succeeds,
     Refused, Late, Lost, Table, procVars
<1>6. Pulled'
  BY DEF IInv, Pulled, RunnerPlaced, KeepRemote, Cleaning, DeleteJump, Succeeds,
     Refused, Late, Lost, Table, fileVars, Context
<1>7. ServiceFollows'
  BY DEF IInv, ServiceFollows, DeleteJump, Succeeds, Refused, Late, Lost, Table
<1>8. Compared'
  BY DEF IInv, Compared, RunnerPlaced, Unreadable, DeleteJump, Succeeds, Refused,
     Late, Lost, Table, Context
<1> QED
  BY <1>1, <1>2, <1>3, <1>4, <1>5, <1>6, <1>7, <1>8 DEF IInv

LEMMA FlushChainKeeps == IInv /\ FlushChain => IInv'
<1> SUFFICES ASSUME IInv, FlushChain PROVE IInv'
  OBVIOUS
<1>1. TypeOK'
  <2>1. pc' \in Pc
    BY DEF IInv, FlushChain, Succeeds, Late, CleanupEnd, Refused, Lost, Table, Pc
  <2>2. losses' \in 0..MaxLosses
    BY OrchestratorAssumption DEF OrchestratorAssumption, IInv, TypeOK, Installed,
       FlushChain, Succeeds, Late, CleanupEnd, Refused, Lost, Table, faultVars, Loss
  <2>3. rules' \in 0..NRules /\ chain' \in {"none", "ours", "other"}
    BY OrchestratorAssumption DEF OrchestratorAssumption, IInv, TypeOK, Installed,
       FlushChain, Late, CleanupEnd, Refused, Table
  <2>4. {err', cancelled', expired', wasRunning', chainCreated', jumpCreated'}
     \subseteq BOOLEAN
    BY DEF IInv, TypeOK, FlushChain, Succeeds, Late, CleanupEnd, Refused, Lost,
       Table, Flags, Context
  <2>5. {jump', broken'} \subseteq BOOLEAN /\ net' \subseteq Residue /\ compared' \subseteq Commands
    BY DEF IInv, TypeOK, FlushChain, Succeeds, Late, CleanupEnd, Refused, Lost,
       Table, faultVars, Loss, procVars, Context
  <2>6. baseline' \in Snapshots
    BY DEF IInv, TypeOK, FlushChain, Late, CleanupEnd, Refused, Table
  <2>7. config' \in Configs /\ service' \in {"up", "stopping", "down", "starting"}
    BY DEF IInv, TypeOK, FlushChain, Late, CleanupEnd, Refused, Table, Context
  <2>8. /\ runner' \in {"none", "running", "ending", "ok", "failed"}
        /\ script' \in {"off", "on", "waiting", "clear"}
        /\ directory' \in {"none", "made", "results", "removed", "again"}
        /\ results' \in {"none", "old", "partial", "pulled"}
    BY DEF IInv, TypeOK, FlushChain, Late, CleanupEnd, Refused, Table, procVars,
       fileVars
  <2> QED
    BY <2>1, <2>2, <2>3, <2>4, <2>5, <2>6, <2>7, <2>8 DEF TypeOK
<1>2. ChainOwner'
  BY DEF IInv, ChainOwner, Installed, TakenBack, Installing, Cleaning, FlushChain,
     Late, CleanupEnd, Refused, Table, Flags
<1>3. Installed'
  BY OrchestratorAssumption DEF OrchestratorAssumption, IInv, Installed, ChainOwner,
     TakenBack, HasTranslation, Early, Installing, Benching, Ending, FlushChain,
     Succeeds, Restoring, Late, CleanupEnd, Refused, Lost, Table, Flags
<1>4. TakenBack'
  BY OrchestratorAssumption DEF OrchestratorAssumption, IInv, TakenBack, ChainOwner,
     Installed, Restoring, Cleaning, Closing, FlushChain, Succeeds, Late, CleanupEnd,
     Refused, Lost, Table, Flags, Loss
<1>5. RunnerPlaced'
  BY DEF IInv, RunnerPlaced, Early, Installing, Ending, Cleaning, Closing, FlushChain,
     Succeeds, Restoring, Late, CleanupEnd, Refused, Lost, Table, procVars
<1>6. Pulled'
  BY DEF IInv, Pulled, RunnerPlaced, KeepRemote, Ending, Cleaning, Closing,
     FlushChain, Succeeds, Restoring, Late, CleanupEnd, Refused, Lost, Table,
     fileVars, Context
<1>7. ServiceFollows'
  BY DEF IInv, ServiceFollows, FlushChain, Succeeds, Late, CleanupEnd, Refused, Lost,
     Table
<1>8. Compared'
  BY DEF IInv, Compared, RunnerPlaced, Unreadable, FlushChain, Succeeds, Late,
     CleanupEnd, Refused, Lost, Table, Context
<1> QED
  BY <1>1, <1>2, <1>3, <1>4, <1>5, <1>6, <1>7, <1>8 DEF IInv

LEMMA DeleteChainKeeps == IInv /\ DeleteChain => IInv'
<1> SUFFICES ASSUME IInv, DeleteChain PROVE IInv'
  OBVIOUS
<1>1. TypeOK'
  <2>1. pc' \in Pc
    BY DEF IInv, DeleteChain, Succeeds, CleanupEnd, Refused, Late, Lost, Table, Pc
  <2>2. losses' \in 0..MaxLosses
    BY OrchestratorAssumption DEF OrchestratorAssumption, IInv, TypeOK, Installed,
       DeleteChain, Succeeds, CleanupEnd, Refused, Late, Lost, Table, faultVars,
       Loss
  <2>3. rules' \in 0..NRules /\ chain' \in {"none", "ours", "other"}
    BY OrchestratorAssumption DEF OrchestratorAssumption, IInv, TypeOK, Installed,
       DeleteChain, CleanupEnd, Refused, Late, Table
  <2>4. {err', cancelled', expired', wasRunning', chainCreated', jumpCreated'}
     \subseteq BOOLEAN
    BY DEF IInv, TypeOK, DeleteChain, Succeeds, CleanupEnd, Refused, Late, Lost,
       Table, Context
  <2>5. {jump', broken'} \subseteq BOOLEAN /\ net' \subseteq Residue /\ compared' \subseteq Commands
    BY DEF IInv, TypeOK, DeleteChain, Succeeds, CleanupEnd, Refused, Late, Lost,
       Table, faultVars, Loss, procVars, Context
  <2>6. baseline' \in Snapshots
    BY DEF IInv, TypeOK, DeleteChain, CleanupEnd, Refused, Late, Table
  <2>7. config' \in Configs /\ service' \in {"up", "stopping", "down", "starting"}
    BY DEF IInv, TypeOK, DeleteChain, CleanupEnd, Refused, Late, Table, Context
  <2>8. /\ runner' \in {"none", "running", "ending", "ok", "failed"}
        /\ script' \in {"off", "on", "waiting", "clear"}
        /\ directory' \in {"none", "made", "results", "removed", "again"}
        /\ results' \in {"none", "old", "partial", "pulled"}
    BY DEF IInv, TypeOK, DeleteChain, CleanupEnd, Refused, Late, Table, procVars,
       fileVars
  <2> QED
    BY <2>1, <2>2, <2>3, <2>4, <2>5, <2>6, <2>7, <2>8 DEF TypeOK
<1>2. ChainOwner'
  BY DEF IInv, ChainOwner, Installed, TakenBack, Installing, DeleteChain, CleanupEnd,
     Refused, Late, Lost, Table
<1>3. Installed'
  BY OrchestratorAssumption DEF OrchestratorAssumption, IInv, Installed, ChainOwner,
     TakenBack, HasTranslation, Early, Installing, Benching, Ending, DeleteChain,
     Succeeds, CleanupEnd, Refused, Late, Lost, Table, Restoring
<1>4. TakenBack'
  BY OrchestratorAssumption DEF OrchestratorAssumption, IInv, TakenBack, ChainOwner,
     Installed, Cleaning, DeleteChain, Succeeds, CleanupEnd, Refused, Late, Lost,
     Table
<1>5. RunnerPlaced'
  <2>1. UNCHANGED <<runner, net, results, directory, config>>
    BY DEF DeleteChain, Table, procVars, fileVars, Context
  <2>2. pc \in {"undo_delete", "clean_delete"} /\ pc' \in {"kill", "after"} /\ (err =>
     err')
    BY DEF DeleteChain, CleanupEnd, Succeeds, Refused, Late, Lost
  <2>3. pc = "undo_delete" => err
    BY DEF IInv, Installed
  <2> QED
    BY <2>2, <2>3, <2>1 DEF IInv, RunnerPlaced, Early, Installing, Cleaning
<1>6. Pulled'
  <2>1. UNCHANGED <<runner, net, results, directory, config>>
    BY DEF DeleteChain, Table, procVars, fileVars, Context
  <2>2. pc \in {"undo_delete", "clean_delete"} /\ pc' \in {"kill", "after"} /\ (err =>
     err')
    BY DEF DeleteChain, CleanupEnd, Succeeds, Refused, Late, Lost
  <2>3. pc = "undo_delete" => err
    BY DEF IInv, Installed
  <2> QED
    BY <2>2, <2>3, <2>1 DEF IInv, Pulled, Cleaning, KeepRemote
<1>7. ServiceFollows'
  BY DEF IInv, ServiceFollows, DeleteChain, Succeeds, CleanupEnd, Refused, Late, Lost,
     Table
<1>8. Compared'
  BY DEF IInv, Compared, RunnerPlaced, Unreadable, DeleteChain, Succeeds, CleanupEnd,
     Refused, Late, Lost, Table, Context
<1> QED
  BY <1>1, <1>2, <1>3, <1>4, <1>5, <1>6, <1>7, <1>8 DEF IInv

LEMMA SnapshotAfterKeeps == IInv /\ SnapshotAfter => IInv'
<1> SUFFICES ASSUME IInv, SnapshotAfter PROVE IInv'
  OBVIOUS
<1>1. TypeOK'
  <2>1. pc' \in Pc
    BY DEF IInv, SnapshotAfter, SnapshotAfterThen, Captures, HasTranslation, Pc
  <2>2. losses' \in 0..MaxLosses
    BY OrchestratorAssumption DEF OrchestratorAssumption, IInv, TypeOK, Installed,
       SnapshotAfter, SnapshotAfterThen, Captures, HasTranslation, faultVars,
       Loss
  <2>3. rules' \in 0..NRules /\ chain' \in {"none", "ours", "other"}
    BY OrchestratorAssumption DEF OrchestratorAssumption, IInv, TypeOK, Installed,
       SnapshotAfter, SnapshotAfterThen, Captures, HasTranslation, natVars
  <2>4. {err', cancelled', expired', wasRunning', chainCreated', jumpCreated'}
     \subseteq BOOLEAN
    BY DEF IInv, TypeOK, SnapshotAfter, SnapshotAfterThen, Captures,
       HasTranslation, Context, Flags
  <2>5. {jump', broken'} \subseteq BOOLEAN /\ net' \subseteq Residue /\ compared' \subseteq Commands
    <3>1. UNCHANGED <<jump, net>> /\ broken' \in BOOLEAN
      BY DEF IInv, TypeOK, SnapshotAfter, SnapshotAfterThen, Captures, procVars, natVars,
         faultVars, Loss
    <3>2. compared' \subseteq Commands
      BY DEF SnapshotAfter, SnapshotAfterThen, Comparable
    <3> QED
      BY <3>1, <3>2 DEF IInv, TypeOK
  <2>6. baseline' \in Snapshots
    BY DEF IInv, TypeOK, SnapshotAfter, SnapshotAfterThen, Captures,
       HasTranslation
  <2>7. config' \in Configs /\ service' \in {"up", "stopping", "down", "starting"}
    BY DEF IInv, TypeOK, SnapshotAfter, SnapshotAfterThen, Captures,
       HasTranslation, Context
  <2>8. /\ runner' \in {"none", "running", "ending", "ok", "failed"}
        /\ script' \in {"off", "on", "waiting", "clear"}
        /\ directory' \in {"none", "made", "results", "removed", "again"}
        /\ results' \in {"none", "old", "partial", "pulled"}
    BY DEF IInv, TypeOK, SnapshotAfter, SnapshotAfterThen, Captures, procVars,
       HasTranslation, fileVars
  <2> QED
    BY <2>1, <2>2, <2>3, <2>4, <2>5, <2>6, <2>7, <2>8 DEF TypeOK
<1>2. ChainOwner'
  BY DEF IInv, ChainOwner, Installed, TakenBack, SnapshotAfter, SnapshotAfterThen,
     Captures, HasTranslation, natVars, Flags
<1>3. Installed'
  BY OrchestratorAssumption DEF OrchestratorAssumption, IInv, Installed, ChainOwner,
     TakenBack, HasTranslation, Early, Installing, Benching, Ending, SnapshotAfter,
     SnapshotAfterThen,
     Captures
<1>4. TakenBack'
  <2>1. (broken => broken') /\ UNCHANGED natVars
    BY CapturesBreaks DEF SnapshotAfter, SnapshotAfterThen
  <2>2. pc = "after" /\ pc' \in Closing \ {"after"} /\ (~err' => ~err)
    BY DEF SnapshotAfter, SnapshotAfterThen, Closing
  <2> QED
    BY <2>1, <2>2 DEF IInv, TakenBack, Cleaning, Closing, natVars
<1>5. RunnerPlaced'
  BY DEF IInv, RunnerPlaced, Early, Installing, Closing, SnapshotAfter,
     SnapshotAfterThen, Captures, procVars, HasTranslation
<1>6. Pulled'
  BY DEF IInv, Pulled, RunnerPlaced, KeepRemote, Closing, SnapshotAfter,
     SnapshotAfterThen, Captures, HasTranslation, fileVars, Context
<1>7. ServiceFollows'
  BY DEF IInv, ServiceFollows, SnapshotAfter, SnapshotAfterThen, Captures,
     HasTranslation
<1>8. Compared'
  <2>1. PICK failed \in SUBSET Commands :
          /\ Captures(failed)
          /\ compared' = Comparable(Snapshot(failed))
          /\ ~err' => ~Remains(Snapshot(failed))
    BY DEF SnapshotAfter, SnapshotAfterThen
  <2>2. UNCHANGED <<baseline, net>> /\ Restoring
    BY DEF SnapshotAfter, SnapshotAfterThen, procVars, Restoring
  <2>3. ASSUME ~err', NEW c \in net, c \in compared' PROVE FALSE
    <3>1. c \in Commands /\ Snapshot(failed)[c] # Unreadable /\ Snapshot(failed)[c] \subseteq baseline[c]
      BY <2>1, <2>3 DEF Comparable, Remains
    <3> QED
      BY <3>1, SnapshotShows DEF IInv, Compared
  <2>4. ASSUME NEW c \in Commands \ compared' PROVE broken' \/ baseline[c] = Unreadable
    <3>1. Unreadable \in {baseline[c], Snapshot(failed)[c]}
      BY <2>1 DEF Comparable
    <3>2. failed # {} => broken'
      BY <2>1, <2>2 DEF Captures, Loss
    <3> QED
      BY <3>1, <3>2, SnapshotShows
  <2> QED
    BY <2>2, <2>3, <2>4 DEF IInv, Compared
<1> QED
  BY <1>1, <1>2, <1>3, <1>4, <1>5, <1>6, <1>7, <1>8 DEF IInv

LEMMA StartServiceKeeps == IInv /\ StartService => IInv'
<1> SUFFICES ASSUME IInv, StartService PROVE IInv'
  OBVIOUS
<1>1. TypeOK'
  <2>1. pc' \in Pc
    BY DEF IInv, StartService, Succeeds, Late, Lost, Give, Pc
  <2>2. losses' \in 0..MaxLosses
    BY OrchestratorAssumption DEF OrchestratorAssumption, IInv, TypeOK, Installed,
       StartService, Succeeds, Late, Lost, Give, faultVars, Loss
  <2>3. rules' \in 0..NRules /\ chain' \in {"none", "ours", "other"}
    BY OrchestratorAssumption DEF OrchestratorAssumption, IInv, TypeOK, Installed,
       StartService, Late, Give, natVars
  <2>4. {err', cancelled', expired', wasRunning', chainCreated', jumpCreated'}
     \subseteq BOOLEAN
    BY DEF IInv, TypeOK, StartService, Succeeds, Late, Lost, Give, Context, Flags
  <2>5. {jump', broken'} \subseteq BOOLEAN /\ net' \subseteq Residue /\ compared' \subseteq Commands
    BY DEF IInv, TypeOK, StartService, Succeeds, Late, Lost, Give, procVars,
       faultVars, Loss, natVars, Context
  <2>6. baseline' \in Snapshots
    BY DEF IInv, TypeOK, StartService, Late, Give
  <2>7. config' \in Configs /\ service' \in {"up", "stopping", "down", "starting"}
    BY DEF IInv, TypeOK, StartService, Late, Give, Context
  <2>8. /\ runner' \in {"none", "running", "ending", "ok", "failed"}
        /\ script' \in {"off", "on", "waiting", "clear"}
        /\ directory' \in {"none", "made", "results", "removed", "again"}
        /\ results' \in {"none", "old", "partial", "pulled"}
    BY DEF IInv, TypeOK, StartService, Late, Give, procVars, fileVars
  <2> QED
    BY <2>1, <2>2, <2>3, <2>4, <2>5, <2>6, <2>7, <2>8 DEF TypeOK
<1>2. ChainOwner'
  BY DEF IInv, ChainOwner, Installed, TakenBack, StartService, Succeeds, Late, Lost,
     Give, natVars, Flags
<1>3. Installed'
  BY OrchestratorAssumption DEF OrchestratorAssumption, IInv, Installed, ChainOwner,
     TakenBack, HasTranslation, Early, Installing, Benching, Ending, StartService,
     Succeeds, Late, Lost, Give
<1>4. TakenBack'
  BY OrchestratorAssumption DEF OrchestratorAssumption, IInv, TakenBack, ChainOwner,
     Installed, Cleaning, Closing, StartService, Succeeds, Late, Lost, Give,
     faultVars, Loss, natVars, Context, Flags
<1>5. RunnerPlaced'
  BY DEF IInv, RunnerPlaced, Early, Installing, Closing, StartService, Succeeds, Late,
     Lost, Give, procVars
<1>6. Pulled'
  BY DEF IInv, Pulled, RunnerPlaced, KeepRemote, Closing, StartService, Succeeds,
     Late, Lost, Give, fileVars, Context
<1>7. ServiceFollows'
  BY DEF IInv, ServiceFollows, StartService, Succeeds, Late, Lost, Give
<1>8. Compared'
  BY DEF IInv, Compared, RunnerPlaced, Unreadable, StartService, Succeeds, Late, Lost,
     Give, procVars, faultVars, Context
<1> QED
  BY <1>1, <1>2, <1>3, <1>4, <1>5, <1>6, <1>7, <1>8 DEF IInv

LEMMA WaitUpKeeps == IInv /\ WaitUp => IInv'
<1> SUFFICES ASSUME IInv, WaitUp PROVE IInv'
  OBVIOUS
<1>1. TypeOK'
  <2>1. pc' \in Pc
    BY DEF IInv, WaitUp, WaitService, Give, Observed, NotObserved, Pc
  <2>2. losses' \in 0..MaxLosses
    BY OrchestratorAssumption DEF OrchestratorAssumption, IInv, TypeOK, Installed,
       WaitUp, WaitService, Give, Observed, NotObserved, faultVars, Loss
  <2>3. rules' \in 0..NRules /\ chain' \in {"none", "ours", "other"}
    BY OrchestratorAssumption DEF OrchestratorAssumption, IInv, TypeOK, Installed,
       WaitUp, WaitService, Give, Observed, NotObserved, natVars
  <2>4. {err', cancelled', expired', wasRunning', chainCreated', jumpCreated'}
     \subseteq BOOLEAN
    BY DEF IInv, TypeOK, WaitUp, WaitService, Give, Observed, NotObserved, Context,
       Flags
  <2>5. {jump', broken'} \subseteq BOOLEAN /\ net' \subseteq Residue /\ compared' \subseteq Commands
    BY DEF IInv, TypeOK, WaitUp, WaitService, Give, procVars, Observed, NotObserved,
       natVars, faultVars, Loss, Context
  <2>6. baseline' \in Snapshots
    BY DEF IInv, TypeOK, WaitUp, WaitService, Give, Observed, NotObserved
  <2>7. config' \in Configs /\ service' \in {"up", "stopping", "down", "starting"}
    BY DEF IInv, TypeOK, WaitUp, WaitService, Give, Observed, NotObserved, Context
  <2>8. /\ runner' \in {"none", "running", "ending", "ok", "failed"}
        /\ script' \in {"off", "on", "waiting", "clear"}
        /\ directory' \in {"none", "made", "results", "removed", "again"}
        /\ results' \in {"none", "old", "partial", "pulled"}
    BY DEF IInv, TypeOK, WaitUp, WaitService, Give, procVars, Observed, NotObserved,
       fileVars
  <2> QED
    BY <2>1, <2>2, <2>3, <2>4, <2>5, <2>6, <2>7, <2>8 DEF TypeOK
<1>2. ChainOwner'
  BY DEF IInv, ChainOwner, Installed, TakenBack, WaitUp, WaitService, Give, Observed,
     NotObserved, natVars, Flags
<1>3. Installed'
  BY OrchestratorAssumption DEF OrchestratorAssumption, IInv, Installed, ChainOwner,
     TakenBack, HasTranslation, Early, Installing, Benching, Ending, WaitUp,
     WaitService, Give, Observed, NotObserved
<1>4. TakenBack'
  BY OrchestratorAssumption DEF OrchestratorAssumption, IInv, TakenBack, ChainOwner,
     Installed, Cleaning, Closing, WaitUp, WaitService, Give, Observed, NotObserved,
     natVars, Context, Flags, faultVars, Loss
<1>5. RunnerPlaced'
  BY DEF IInv, RunnerPlaced, Early, Installing, Closing, WaitUp, WaitService, Give,
     procVars, Observed, NotObserved
<1>6. Pulled'
  BY DEF IInv, Pulled, RunnerPlaced, KeepRemote, Closing, WaitUp, WaitService, Give,
     Observed, NotObserved, fileVars, Context
<1>7. ServiceFollows'
  BY DEF IInv, ServiceFollows, WaitUp, WaitService, Give, Observed, NotObserved
<1>8. Compared'
  <2>1. (broken => broken') /\ UNCHANGED <<baseline, net, compared>>
    BY DEF IInv, TypeOK, WaitUp, WaitService, Give, procVars, Context, Observed,
       NotObserved, faultVars, Loss
  <2>2. pc = "wait_up" /\ (~err' => ~err)
    BY SMT DEF IInv, TypeOK, WaitUp, WaitService, Observed, NotObserved
  <2> QED
    BY <2>1, <2>2 DEF IInv, Compared
<1> QED
  BY <1>1, <1>2, <1>3, <1>4, <1>5, <1>6, <1>7, <1>8 DEF IInv

LEMMA SnapshotFinalKeeps == IInv /\ SnapshotFinal => IInv'
<1> SUFFICES ASSUME IInv, SnapshotFinal PROVE IInv'
  OBVIOUS
<1>1. TypeOK'
  <2>1. pc' \in Pc
    BY DEF IInv, SnapshotFinal, Captures, Give, HasTranslation, Pc
  <2>2. losses' \in 0..MaxLosses
    BY OrchestratorAssumption DEF OrchestratorAssumption, IInv, TypeOK, Installed,
       SnapshotFinal, Captures, Give, HasTranslation, faultVars, Loss
  <2>3. rules' \in 0..NRules /\ chain' \in {"none", "ours", "other"}
    BY OrchestratorAssumption DEF OrchestratorAssumption, IInv, TypeOK, Installed,
       SnapshotFinal, Captures, Give, HasTranslation, natVars
  <2>4. {err', cancelled', expired', wasRunning', chainCreated', jumpCreated'}
     \subseteq BOOLEAN
    BY DEF IInv, TypeOK, SnapshotFinal, Captures, Give, HasTranslation,
       Context, Flags
  <2>5. {jump', broken'} \subseteq BOOLEAN /\ net' \subseteq Residue /\ compared' \subseteq Commands
    BY DEF IInv, TypeOK, SnapshotFinal, Captures, Give, procVars,
       HasTranslation, faultVars, Loss, natVars, Context
  <2>6. baseline' \in Snapshots
    BY DEF IInv, TypeOK, SnapshotFinal, Captures, Give, HasTranslation
  <2>7. config' \in Configs /\ service' \in {"up", "stopping", "down", "starting"}
    BY DEF IInv, TypeOK, SnapshotFinal, Captures, Give, HasTranslation,
       Context
  <2>8. /\ runner' \in {"none", "running", "ending", "ok", "failed"}
        /\ script' \in {"off", "on", "waiting", "clear"}
        /\ directory' \in {"none", "made", "results", "removed", "again"}
        /\ results' \in {"none", "old", "partial", "pulled"}
    BY DEF IInv, TypeOK, SnapshotFinal, Captures, Give, procVars,
       HasTranslation, fileVars
  <2> QED
    BY <2>1, <2>2, <2>3, <2>4, <2>5, <2>6, <2>7, <2>8 DEF TypeOK
<1>2. ChainOwner'
  BY DEF IInv, ChainOwner, Installed, TakenBack, SnapshotFinal, Captures,
     Give, HasTranslation, natVars, Flags
<1>3. Installed'
  BY OrchestratorAssumption DEF OrchestratorAssumption, IInv, Installed, ChainOwner,
     TakenBack, HasTranslation, Early, Installing, Benching, Ending, SnapshotFinal,
     Captures, Give
<1>4. TakenBack'
  <2>1. (broken => broken') /\ UNCHANGED natVars
    BY CapturesBreaks DEF SnapshotFinal, Give
  <2>2. pc = "final" /\ pc' \in Closing \ {"after"} /\ (~err' => ~err)
    BY DEF SnapshotFinal, Give, Closing
  <2> QED
    BY <2>1, <2>2 DEF IInv, TakenBack, Cleaning, Closing, natVars
<1>5. RunnerPlaced'
  BY DEF IInv, RunnerPlaced, Early, Installing, Closing, SnapshotFinal, Captures,
     Give, procVars, HasTranslation
<1>6. Pulled'
  BY DEF IInv, Pulled, RunnerPlaced, KeepRemote, Closing, SnapshotFinal, Captures,
     Give, HasTranslation, fileVars, Context
<1>7. ServiceFollows'
  BY DEF IInv, ServiceFollows, SnapshotFinal, Captures, Give, HasTranslation
<1>8. Compared'
  <2>1. (broken => broken') /\ UNCHANGED <<baseline, net, compared>>
    BY CapturesBreaks DEF SnapshotFinal, Give, procVars, Context
  <2>2. pc = "final" /\ (~err' => ~err)
    BY DEF SnapshotFinal
  <2> QED
    BY <2>1, <2>2 DEF IInv, Compared
<1> QED
  BY <1>1, <1>2, <1>3, <1>4, <1>5, <1>6, <1>7, <1>8 DEF IInv

LEMMA ScriptTerminatesKeeps == IInv /\ ScriptTerminates => IInv'
<1> SUFFICES ASSUME IInv, ScriptTerminates PROVE IInv'
  OBVIOUS
<1>1. TypeOK'
  <2>1. pc' \in Pc
    BY DEF IInv, TypeOK, ScriptTerminates, Found, Device, Alive, Removed, progVars,
       Pc
  <2>2. losses' \in 0..MaxLosses
    BY OrchestratorAssumption DEF OrchestratorAssumption, IInv, TypeOK, Installed,
       ScriptTerminates, Found, Device, Alive, Removed, progVars, faultVars
  <2>3. rules' \in 0..NRules /\ chain' \in {"none", "ours", "other"}
    BY OrchestratorAssumption DEF OrchestratorAssumption, IInv, TypeOK, Installed,
       ScriptTerminates, Found, Device, Alive, Removed, progVars, natVars
  <2>4. {err', cancelled', expired', wasRunning', chainCreated', jumpCreated'}
     \subseteq BOOLEAN
    BY DEF IInv, TypeOK, ScriptTerminates, Found, Device, Alive, Removed, progVars
  <2>5. {jump', broken'} \subseteq BOOLEAN /\ net' \subseteq Residue /\ compared' \subseteq Commands
    BY DEF IInv, TypeOK, ScriptTerminates, Found, Device, Alive, Removed, progVars,
       faultVars, natVars
  <2>6. baseline' \in Snapshots
    BY DEF IInv, TypeOK, ScriptTerminates, Found, Device, Alive, Removed, progVars
  <2>7. config' \in Configs /\ service' \in {"up", "stopping", "down", "starting"}
    BY DEF IInv, TypeOK, ScriptTerminates, Found, Device, Alive, Removed, progVars
  <2>8. /\ runner' \in {"none", "running", "ending", "ok", "failed"}
        /\ script' \in {"off", "on", "waiting", "clear"}
        /\ directory' \in {"none", "made", "results", "removed", "again"}
        /\ results' \in {"none", "old", "partial", "pulled"}
    BY DEF IInv, TypeOK, ScriptTerminates, Found, Device, Alive, Removed, progVars
  <2> QED
    BY <2>1, <2>2, <2>3, <2>4, <2>5, <2>6, <2>7, <2>8 DEF TypeOK
<1>2. ChainOwner'
  BY DEF IInv, ChainOwner, Installed, TakenBack, ScriptTerminates, Found, Device,
     Alive, Removed, progVars, natVars
<1>3. Installed'
  BY OrchestratorAssumption DEF OrchestratorAssumption, IInv, Installed, ChainOwner,
     TakenBack, HasTranslation, ScriptTerminates, Found, Device, Alive, Removed,
     progVars, natVars
<1>4. TakenBack'
  BY OrchestratorAssumption DEF OrchestratorAssumption, IInv, TakenBack, ChainOwner,
     Installed, ScriptTerminates, Found, Device, Alive, Removed, progVars, faultVars,
     natVars
<1>5. RunnerPlaced'
  BY DEF IInv, RunnerPlaced, ScriptTerminates, Found, Device, Alive, Removed, progVars
<1>6. Pulled'
  BY DEF IInv, Pulled, RunnerPlaced, KeepRemote, ScriptTerminates, Found, Device,
     Alive, Removed, progVars
<1>7. ServiceFollows'
  BY DEF IInv, ServiceFollows, ScriptTerminates, Found, Device, Alive, Removed,
     progVars
<1>8. Compared'
  BY DEF IInv, Compared, RunnerPlaced, Unreadable, ScriptTerminates, Found, Device,
     Alive, Removed, progVars, faultVars
<1> QED
  BY <1>1, <1>2, <1>3, <1>4, <1>5, <1>6, <1>7, <1>8 DEF IInv

LEMMA ScriptKillsKeeps == IInv /\ ScriptKills => IInv'
<1> SUFFICES ASSUME IInv, ScriptKills PROVE IInv'
  OBVIOUS
<1>1. TypeOK'
  <2>1. pc' \in Pc
    BY DEF IInv, TypeOK, ScriptKills, Found, Device, Alive, Removed, progVars, Pc
  <2>2. losses' \in 0..MaxLosses
    BY OrchestratorAssumption DEF OrchestratorAssumption, IInv, TypeOK, Installed,
       ScriptKills, Found, Device, Alive, Removed, progVars, faultVars
  <2>3. rules' \in 0..NRules /\ chain' \in {"none", "ours", "other"}
    BY OrchestratorAssumption DEF OrchestratorAssumption, IInv, TypeOK, Installed,
       ScriptKills, Found, Device, Alive, Removed, progVars, natVars
  <2>4. {err', cancelled', expired', wasRunning', chainCreated', jumpCreated'}
     \subseteq BOOLEAN
    BY DEF IInv, TypeOK, ScriptKills, Found, Device, Alive, Removed, progVars
  <2>5. {jump', broken'} \subseteq BOOLEAN /\ net' \subseteq Residue /\ compared' \subseteq Commands
    BY DEF IInv, TypeOK, ScriptKills, Found, Device, Alive, Removed, progVars,
       faultVars, natVars
  <2>6. baseline' \in Snapshots
    BY DEF IInv, TypeOK, ScriptKills, Found, Device, Alive, Removed, progVars
  <2>7. config' \in Configs /\ service' \in {"up", "stopping", "down", "starting"}
    BY DEF IInv, TypeOK, ScriptKills, Found, Device, Alive, Removed, progVars
  <2>8. /\ runner' \in {"none", "running", "ending", "ok", "failed"}
        /\ script' \in {"off", "on", "waiting", "clear"}
        /\ directory' \in {"none", "made", "results", "removed", "again"}
        /\ results' \in {"none", "old", "partial", "pulled"}
    BY DEF IInv, TypeOK, ScriptKills, Found, Device, Alive, Removed, progVars
  <2> QED
    BY <2>1, <2>2, <2>3, <2>4, <2>5, <2>6, <2>7, <2>8 DEF TypeOK
<1>2. ChainOwner'
  BY DEF IInv, ChainOwner, Installed, TakenBack, ScriptKills, Found, Device, Alive,
     Removed, progVars, natVars
<1>3. Installed'
  BY OrchestratorAssumption DEF OrchestratorAssumption, IInv, Installed, ChainOwner,
     TakenBack, HasTranslation, ScriptKills, Found, Device, Alive, Removed, progVars,
     natVars
<1>4. TakenBack'
  BY OrchestratorAssumption DEF OrchestratorAssumption, IInv, TakenBack, ChainOwner,
     Installed, ScriptKills, Found, Device, Alive, Removed, progVars, faultVars,
     natVars
<1>5. RunnerPlaced'
  BY DEF IInv, RunnerPlaced, ScriptKills, Found, Device, Alive, Removed, progVars
<1>6. Pulled'
  BY DEF IInv, Pulled, RunnerPlaced, KeepRemote, ScriptKills, Found, Device, Alive,
     Removed, progVars
<1>7. ServiceFollows'
  BY DEF IInv, ServiceFollows, ScriptKills, Found, Device, Alive, Removed, progVars
<1>8. Compared'
  BY DEF IInv, Compared, RunnerPlaced, Unreadable, ScriptKills, Found, Device, Alive,
     Removed, progVars, faultVars
<1> QED
  BY <1>1, <1>2, <1>3, <1>4, <1>5, <1>6, <1>7, <1>8 DEF IInv

LEMMA RunnerWorksKeeps == IInv /\ RunnerWorks => IInv'
<1> SUFFICES ASSUME IInv, RunnerWorks PROVE IInv'
  OBVIOUS
<1>1. TypeOK'
  <2>1. pc' \in Pc
    BY DEF IInv, TypeOK, RunnerWorks, Removed, Device, progVars, Pc
  <2>2. losses' \in 0..MaxLosses
    BY OrchestratorAssumption DEF OrchestratorAssumption, IInv, TypeOK, Installed,
       RunnerWorks, Removed, Device, progVars, faultVars
  <2>3. rules' \in 0..NRules /\ chain' \in {"none", "ours", "other"}
    BY OrchestratorAssumption DEF OrchestratorAssumption, IInv, TypeOK, Installed,
       RunnerWorks, Removed, Device, progVars, natVars
  <2>4. {err', cancelled', expired', wasRunning', chainCreated', jumpCreated'}
     \subseteq BOOLEAN
    BY DEF IInv, TypeOK, RunnerWorks, Removed, Device, progVars
  <2>5. {jump', broken'} \subseteq BOOLEAN /\ net' \subseteq Residue /\ compared' \subseteq Commands
    <3>1. net' \subseteq config.residue /\ config \in Config
      BY OrchestratorAssumption DEF OrchestratorAssumption, IInv, TypeOK, RunnerWorks
    <3>2. net' \subseteq Residue
      BY <3>1 DEF Config
    <3> QED
      BY <3>2 DEF IInv, TypeOK, RunnerWorks, Device, progVars, faultVars, natVars
  <2>6. baseline' \in Snapshots
    BY DEF IInv, TypeOK, RunnerWorks, Removed, Device, progVars
  <2>7. config' \in Configs /\ service' \in {"up", "stopping", "down", "starting"}
    BY DEF IInv, TypeOK, RunnerWorks, Removed, Device, progVars
  <2>8. /\ runner' \in {"none", "running", "ending", "ok", "failed"}
        /\ script' \in {"off", "on", "waiting", "clear"}
        /\ directory' \in {"none", "made", "results", "removed", "again"}
        /\ results' \in {"none", "old", "partial", "pulled"}
    BY DEF IInv, TypeOK, RunnerWorks, Removed, Device, progVars
  <2> QED
    BY <2>1, <2>2, <2>3, <2>4, <2>5, <2>6, <2>7, <2>8 DEF TypeOK
<1>2. ChainOwner'
  BY DEF IInv, ChainOwner, Installed, TakenBack, RunnerWorks, Removed, Device,
     progVars, natVars
<1>3. Installed'
  BY OrchestratorAssumption DEF OrchestratorAssumption, IInv, Installed, ChainOwner,
     TakenBack, HasTranslation, RunnerWorks, Removed, Device, progVars, natVars
<1>4. TakenBack'
  BY OrchestratorAssumption DEF OrchestratorAssumption, IInv, TakenBack, ChainOwner,
     Installed, RunnerWorks, Removed, Device, progVars, faultVars, natVars
<1>5. RunnerPlaced'
  BY DEF IInv, RunnerPlaced, RunnerWorks, Removed, Device, progVars
<1>6. Pulled'
  BY DEF IInv, Pulled, RunnerPlaced, KeepRemote, RunnerWorks, Removed, Device,
     progVars
<1>7. ServiceFollows'
  BY DEF IInv, ServiceFollows, RunnerWorks, Removed, Device, progVars
<1>8. Compared'
  BY DEF IInv, Compared, RunnerPlaced, Unreadable, Closing, RunnerWorks, Removed,
     Device, progVars
<1> QED
  BY <1>1, <1>2, <1>3, <1>4, <1>5, <1>6, <1>7, <1>8 DEF IInv

LEMMA RunnerEndsKeeps == IInv /\ RunnerEnds => IInv'
<1> SUFFICES ASSUME IInv, RunnerEnds PROVE IInv'
  OBVIOUS
<1>1. TypeOK'
  <2>1. pc' \in Pc
    BY DEF IInv, TypeOK, RunnerEnds, Device, progVars, Pc
  <2>2. losses' \in 0..MaxLosses
    BY OrchestratorAssumption DEF OrchestratorAssumption, IInv, TypeOK, Installed,
       RunnerEnds, Device, progVars, faultVars
  <2>3. rules' \in 0..NRules /\ chain' \in {"none", "ours", "other"}
    BY OrchestratorAssumption DEF OrchestratorAssumption, IInv, TypeOK, Installed,
       RunnerEnds, Device, progVars, natVars
  <2>4. {err', cancelled', expired', wasRunning', chainCreated', jumpCreated'}
     \subseteq BOOLEAN
    BY DEF IInv, TypeOK, RunnerEnds, Device, progVars
  <2>5. {jump', broken'} \subseteq BOOLEAN /\ net' \subseteq Residue /\ compared' \subseteq Commands
    BY DEF IInv, TypeOK, RunnerEnds, Device, progVars, faultVars, natVars
  <2>6. baseline' \in Snapshots
    BY DEF IInv, TypeOK, RunnerEnds, Device, progVars
  <2>7. config' \in Configs /\ service' \in {"up", "stopping", "down", "starting"}
    BY DEF IInv, TypeOK, RunnerEnds, Device, progVars
  <2>8. /\ runner' \in {"none", "running", "ending", "ok", "failed"}
        /\ script' \in {"off", "on", "waiting", "clear"}
        /\ directory' \in {"none", "made", "results", "removed", "again"}
        /\ results' \in {"none", "old", "partial", "pulled"}
    BY DEF IInv, TypeOK, RunnerEnds, Device, progVars
  <2> QED
    BY <2>1, <2>2, <2>3, <2>4, <2>5, <2>6, <2>7, <2>8 DEF TypeOK
<1>2. ChainOwner'
  BY DEF IInv, ChainOwner, Installed, TakenBack, RunnerEnds, Device, progVars, natVars
<1>3. Installed'
  BY OrchestratorAssumption DEF OrchestratorAssumption, IInv, Installed, ChainOwner,
     TakenBack, HasTranslation, RunnerEnds, Device, progVars, natVars
<1>4. TakenBack'
  BY OrchestratorAssumption DEF OrchestratorAssumption, IInv, TakenBack, ChainOwner,
     Installed, RunnerEnds, Device, progVars, faultVars, natVars
<1>5. RunnerPlaced'
  BY DEF IInv, RunnerPlaced, RunnerEnds, Device, progVars
<1>6. Pulled'
  BY DEF IInv, Pulled, RunnerPlaced, KeepRemote, RunnerEnds, Device, progVars
<1>7. ServiceFollows'
  BY DEF IInv, ServiceFollows, RunnerEnds, Device, progVars
<1>8. Compared'
  BY DEF IInv, Compared, RunnerPlaced, Unreadable, Closing, RunnerEnds, Device,
     progVars
<1> QED
  BY <1>1, <1>2, <1>3, <1>4, <1>5, <1>6, <1>7, <1>8 DEF IInv

LEMMA ServiceSettlesKeeps == IInv /\ ServiceSettles => IInv'
<1> SUFFICES ASSUME IInv, ServiceSettles PROVE IInv'
  OBVIOUS
<1>1. TypeOK'
  <2>1. pc' \in Pc
    BY DEF IInv, TypeOK, ServiceSettles, progVars, Pc
  <2>2. losses' \in 0..MaxLosses
    BY OrchestratorAssumption DEF OrchestratorAssumption, IInv, TypeOK, Installed,
       ServiceSettles, progVars, faultVars
  <2>3. rules' \in 0..NRules /\ chain' \in {"none", "ours", "other"}
    BY OrchestratorAssumption DEF OrchestratorAssumption, IInv, TypeOK, Installed,
       ServiceSettles, progVars, natVars
  <2>4. {err', cancelled', expired', wasRunning', chainCreated', jumpCreated'}
     \subseteq BOOLEAN
    BY DEF IInv, TypeOK, ServiceSettles, progVars
  <2>5. {jump', broken'} \subseteq BOOLEAN /\ net' \subseteq Residue /\ compared' \subseteq Commands
    BY DEF IInv, TypeOK, ServiceSettles, progVars, faultVars, natVars, procVars
  <2>6. baseline' \in Snapshots
    BY DEF IInv, TypeOK, ServiceSettles, progVars
  <2>7. config' \in Configs /\ service' \in {"up", "stopping", "down", "starting"}
    BY DEF IInv, TypeOK, ServiceSettles, progVars
  <2>8. /\ runner' \in {"none", "running", "ending", "ok", "failed"}
        /\ script' \in {"off", "on", "waiting", "clear"}
        /\ directory' \in {"none", "made", "results", "removed", "again"}
        /\ results' \in {"none", "old", "partial", "pulled"}
    BY DEF IInv, TypeOK, ServiceSettles, progVars, procVars, fileVars
  <2> QED
    BY <2>1, <2>2, <2>3, <2>4, <2>5, <2>6, <2>7, <2>8 DEF TypeOK
<1>2. ChainOwner'
  BY DEF IInv, ChainOwner, Installed, TakenBack, ServiceSettles, progVars, natVars
<1>3. Installed'
  BY OrchestratorAssumption DEF OrchestratorAssumption, IInv, Installed, ChainOwner,
     TakenBack, HasTranslation, ServiceSettles, progVars, natVars
<1>4. TakenBack'
  BY OrchestratorAssumption DEF OrchestratorAssumption, IInv, TakenBack, ChainOwner,
     Installed, ServiceSettles, progVars, faultVars, natVars
<1>5. RunnerPlaced'
  BY DEF IInv, RunnerPlaced, ServiceSettles, progVars, procVars
<1>6. Pulled'
  BY DEF IInv, Pulled, RunnerPlaced, KeepRemote, ServiceSettles, progVars, fileVars
<1>7. ServiceFollows'
  BY DEF IInv, ServiceFollows, ServiceSettles, progVars
<1>8. Compared'
  BY DEF IInv, Compared, RunnerPlaced, Unreadable, ServiceSettles, progVars,
     faultVars, procVars
<1> QED
  BY <1>1, <1>2, <1>3, <1>4, <1>5, <1>6, <1>7, <1>8 DEF IInv

LEMMA SignalKeeps == IInv /\ Signal => IInv'
<1> SUFFICES ASSUME IInv, Signal PROVE IInv'
  OBVIOUS
<1>1. TypeOK'
  <2>1. pc' \in Pc
    BY DEF IInv, TypeOK, Signal, Pc
  <2>2. losses' \in 0..MaxLosses
    BY OrchestratorAssumption DEF OrchestratorAssumption, IInv, TypeOK, Installed,
       Signal, faultVars
  <2>3. rules' \in 0..NRules /\ chain' \in {"none", "ours", "other"}
    BY OrchestratorAssumption DEF OrchestratorAssumption, IInv, TypeOK, Installed,
       Signal, deviceVars, natVars
  <2>4. {err', cancelled', expired', wasRunning', chainCreated', jumpCreated'}
     \subseteq BOOLEAN
    BY DEF IInv, TypeOK, Signal
  <2>5. {jump', broken'} \subseteq BOOLEAN /\ net' \subseteq Residue /\ compared' \subseteq Commands
    BY DEF IInv, TypeOK, Signal, deviceVars, faultVars, natVars, procVars
  <2>6. baseline' \in Snapshots
    BY DEF IInv, TypeOK, Signal
  <2>7. config' \in Configs /\ service' \in {"up", "stopping", "down", "starting"}
    BY DEF IInv, TypeOK, Signal, deviceVars
  <2>8. /\ runner' \in {"none", "running", "ending", "ok", "failed"}
        /\ script' \in {"off", "on", "waiting", "clear"}
        /\ directory' \in {"none", "made", "results", "removed", "again"}
        /\ results' \in {"none", "old", "partial", "pulled"}
    BY DEF IInv, TypeOK, Signal, deviceVars, procVars, fileVars
  <2> QED
    BY <2>1, <2>2, <2>3, <2>4, <2>5, <2>6, <2>7, <2>8 DEF TypeOK
<1>2. ChainOwner'
  BY DEF IInv, ChainOwner, Installed, TakenBack, Signal, deviceVars, natVars
<1>3. Installed'
  BY OrchestratorAssumption DEF OrchestratorAssumption, IInv, Installed, ChainOwner,
     TakenBack, HasTranslation, Signal, deviceVars, natVars
<1>4. TakenBack'
  BY OrchestratorAssumption DEF OrchestratorAssumption, IInv, TakenBack, ChainOwner,
     Installed, Signal, deviceVars, faultVars, natVars
<1>5. RunnerPlaced'
  BY DEF IInv, RunnerPlaced, Signal, deviceVars, procVars
<1>6. Pulled'
  BY DEF IInv, Pulled, RunnerPlaced, KeepRemote, Signal, deviceVars, fileVars
<1>7. ServiceFollows'
  BY DEF IInv, ServiceFollows, Signal, deviceVars
<1>8. Compared'
  BY DEF IInv, Compared, RunnerPlaced, Unreadable, Signal, deviceVars, faultVars,
     procVars
<1> QED
  BY <1>1, <1>2, <1>3, <1>4, <1>5, <1>6, <1>7, <1>8 DEF IInv

LEMMA ExpireKeeps == IInv /\ Expire => IInv'
<1> SUFFICES ASSUME IInv, Expire PROVE IInv'
  OBVIOUS
<1>1. TypeOK'
  <2>1. pc' \in Pc
    BY DEF IInv, Expire, Restoring, Pc
  <2>2. losses' \in 0..MaxLosses
    BY OrchestratorAssumption DEF OrchestratorAssumption, IInv, TypeOK, Installed,
       Expire, faultVars
  <2>3. rules' \in 0..NRules /\ chain' \in {"none", "ours", "other"}
    BY OrchestratorAssumption DEF OrchestratorAssumption, IInv, TypeOK, Installed,
       Expire, deviceVars, natVars
  <2>4. {err', cancelled', expired', wasRunning', chainCreated', jumpCreated'}
     \subseteq BOOLEAN
    BY DEF IInv, TypeOK, Expire
  <2>5. {jump', broken'} \subseteq BOOLEAN /\ net' \subseteq Residue /\ compared' \subseteq Commands
    BY DEF IInv, TypeOK, Expire, deviceVars, faultVars, natVars, procVars
  <2>6. baseline' \in Snapshots
    BY DEF IInv, TypeOK, Expire
  <2>7. config' \in Configs /\ service' \in {"up", "stopping", "down", "starting"}
    BY DEF IInv, TypeOK, Expire, deviceVars
  <2>8. /\ runner' \in {"none", "running", "ending", "ok", "failed"}
        /\ script' \in {"off", "on", "waiting", "clear"}
        /\ directory' \in {"none", "made", "results", "removed", "again"}
        /\ results' \in {"none", "old", "partial", "pulled"}
    BY DEF IInv, TypeOK, Expire, deviceVars, procVars, fileVars
  <2> QED
    BY <2>1, <2>2, <2>3, <2>4, <2>5, <2>6, <2>7, <2>8 DEF TypeOK
<1>2. ChainOwner'
  BY DEF IInv, ChainOwner, Installed, TakenBack, Expire, deviceVars, natVars
<1>3. Installed'
  BY OrchestratorAssumption DEF OrchestratorAssumption, IInv, Installed, ChainOwner,
     TakenBack, HasTranslation, Expire, deviceVars, natVars
<1>4. TakenBack'
  BY OrchestratorAssumption DEF OrchestratorAssumption, IInv, TakenBack, ChainOwner,
     Installed, Expire, deviceVars, faultVars, natVars
<1>5. RunnerPlaced'
  BY DEF IInv, RunnerPlaced, Expire, deviceVars, procVars
<1>6. Pulled'
  BY DEF IInv, Pulled, RunnerPlaced, KeepRemote, Expire, deviceVars, fileVars
<1>7. ServiceFollows'
  BY DEF IInv, ServiceFollows, Expire, deviceVars
<1>8. Compared'
  BY DEF IInv, Compared, RunnerPlaced, Unreadable, Expire, deviceVars, faultVars,
     procVars
<1> QED
  BY <1>1, <1>2, <1>3, <1>4, <1>5, <1>6, <1>7, <1>8 DEF IInv

-----------------------------------------------------------------------------
LEMMA InitIInv == Init => IInv
<1> SUFFICES ASSUME Init PROVE IInv
  OBVIOUS
<1>1. TypeOK
  <2>1. rules \in 0..NRules /\ losses \in 0..MaxLosses
    BY OrchestratorAssumption DEF OrchestratorAssumption, Init
  <2>2. baseline \in Snapshots
    BY DEF Init, NoSnapshot, Snapshots
  <2> QED
    BY <2>1, <2>2 DEF Init, TypeOK, Pc
<1>2. ChainOwner /\ Installed /\ TakenBack
  BY OrchestratorAssumption DEF OrchestratorAssumption, Init, ChainOwner, Installed,
     TakenBack, Installing, Benching, Ending, Cleaning
<1>3. RunnerPlaced /\ Pulled /\ ServiceFollows
  BY DEF Init, RunnerPlaced, Pulled, ServiceFollows, Ending, Cleaning, Closing
<1>4. Compared
  BY DEF Init, Compared, NoSnapshot, Unreadable
<1> QED
  BY <1>1, <1>2, <1>3, <1>4 DEF IInv

LEMMA NextKeeps == IInv /\ [Next]_vars => IInv'
<1> SUFFICES ASSUME IInv, [Next]_vars PROVE IInv'
  OBVIOUS
<1>1. CASE Program
  BY <1>1, VerifyRootKeeps, SnapshotBeforeKeeps, ReadStatusKeeps, StopServiceKeeps,
     WaitDownKeeps, SnapshotBaselineKeeps, CreateChainKeeps, AppendRuleKeeps,
     InsertJumpKeeps, MakeDirectoryKeeps, DeployKeeps, LaunchMatrixKeeps,
     MatrixReturnsKeeps, PullKeeps, RemoveRemoteKeeps, CleanupProcessesKeeps,
     ProcessesCleanedKeeps, DeleteJumpKeeps, FlushChainKeeps, DeleteChainKeeps,
     SnapshotAfterKeeps, StartServiceKeeps, WaitUpKeeps, SnapshotFinalKeeps DEF Program
<1>2. CASE Next /\ ~Program
  BY <1>2, ScriptTerminatesKeeps, ScriptKillsKeeps, RunnerWorksKeeps, RunnerEndsKeeps,
     ServiceSettlesKeeps, SignalKeeps, ExpireKeeps DEF Next, Script
<1>3. CASE UNCHANGED vars
  BY <1>3 DEF IInv, TypeOK, ChainOwner, Installed, TakenBack, RunnerPlaced, Pulled,
     ServiceFollows, Compared, HasTranslation, KeepRemote, vars, progVars, deviceVars,
     natVars, procVars, fileVars, faultVars
<1> QED
  BY <1>1, <1>2, <1>3

LEMMA Invariance == Spec => []IInv
  BY InitIInv, NextKeeps, PTL DEF Spec

(* The variables of RunDevice and the state of the device keep their types.*)
THEOREM OrchestratorTypeOK == Spec => []TypeOK
<1>1. IInv => TypeOK
  BY DEF IInv
<1> QED
  BY <1>1, Invariance, PTL

(* While no error has occurred, the matrix runs with the whole translation *)
(* in place, however many rules it has.                                    *)
THEOREM OrchestratorRunsTranslated == Spec => []RunsTranslated
<1>1. IInv => RunsTranslated
  BY DEF IInv, TypeOK, Pc, RunsTranslated, Installed, RunnerPlaced, Early, Installing,
     Benching, Ending, Cleaning, Closing
<1> QED
  BY <1>1, Invariance, PTL

(* No translation of this run stays active after a restore that could      *)
(* execute its commands.                                                   *)
THEOREM OrchestratorTranslationIsInert == Spec => []TranslationIsInert
<1>1. IInv => TranslationIsInert
  BY DEF IInv, TranslationIsInert, TakenBack, Closing
<1> QED
  BY <1>1, Invariance, PTL

(* RunDevice returns no error only when the results are on the host, the   *)
(* service and the translation are as they were, and nothing of the matrix *)
(* is left that a comparable command of the snapshots shows a marker of,   *)
(* however many commands were lost on the way.                             *)
THEOREM OrchestratorSuccessMeansRestored == Spec => []SuccessMeansRestored
<1>1. IInv => SuccessMeansRestored
  BY DEF IInv, SuccessMeansRestored, TakenBack, RunnerPlaced, Pulled, ServiceFollows,
     Compared, Closing, Alive
<1> QED
  BY <1>1, Invariance, PTL

(* A command on the chain runs only at a step where the chain is not the   *)
(* one of another run.                                                     *)
LEMMA StepKeepsOthersChain == IInv /\ [Next]_vars => (chain = "other" => UNCHANGED natVars)
<1> SUFFICES ASSUME IInv, [Next]_vars, chain = "other" PROVE UNCHANGED natVars
  OBVIOUS
<1>1. ~chainCreated /\ pc \notin Installing /\ pc \notin Cleaning
  BY DEF IInv, ChainOwner, Installed, TakenBack
<1>2. CASE CreateChain
  BY <1>2 DEF CreateChain, natVars
<1>3. ~AppendRule /\ ~InsertJump /\ ~DeleteJump /\ ~FlushChain /\ ~DeleteChain
  BY <1>1 DEF AppendRule, AppendRuleUntil, InsertJump, DeleteJump, FlushChain,
     DeleteChain,
     Installing, Cleaning
<1>4. CASE [Next]_vars /\ ~CreateChain
  BY <1>3, <1>4 DEF Next, Program, Script, VerifyRoot, SnapshotBefore, ReadStatus,
     StopService, WaitDown, SnapshotBaseline, MakeDirectory, Deploy, LaunchMatrix,
     MatrixReturns, Pull, RemoveRemote, CleanupProcesses, ProcessesCleaned, SnapshotAfter,
     SnapshotAfterThen, StartService, WaitUp, SnapshotFinal, ScriptTerminates, ScriptKills, RunnerWorks,
     RunnerEnds, ServiceSettles, Signal, Expire, Bench, Device, Give, vars, deviceVars
<1> QED
  BY <1>2, <1>4

(* A chain of the same name that another run made is never touched. *)
THEOREM OrchestratorOthersChainIsKept == Spec => OthersChainIsKept
<1>1. IInv /\ [Next]_vars => [chain = "other" => UNCHANGED natVars]_vars
  BY StepKeepsOthersChain
<1> QED
  BY <1>1, Invariance, PTL DEF Spec, OthersChainIsKept
=============================================================================
