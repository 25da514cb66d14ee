--------------------------- MODULE NetfilterProofs ---------------------------
(***************************************************************************)
(* Ownership and restore safety of the firewall manager, for any number of *)
(* runs, any assignment of kinds, chain names and tables, and any faults.  *)
(***************************************************************************)
EXTENDS Netfilter, TLAPS

USE NetfilterAssumption

(* A rule or jump stands next to the chain of the same creator, unless a   *)
(* delete of that chain was ambiguous.                                     *)
Contained ==
  \A e \in kernel : Diverts(e.obj) =>
    \/ ChainOf(e.obj) \in ambiguous
    \/ [obj |-> ChainOf(e.obj), by |-> e.by] \in kernel

(* What has to be deleted before an object can be gone for good: a rule or *)
(* a jump cannot outlive the chain it belongs to.                          *)
Anchor(o) == IF Diverts(o) THEN ChainOf(o) ELSE o

Pending(r, i) == i <= Len(undo[r]) /\ ~undo[r][i]

(* Every object of a run is anchored in the subject of a pending inverse,  *)
(* or is that of the one command after them, interrupted while Install was *)
(* being left.                                                             *)
AccountedBy(e, i) ==
  /\ Anchor(e.obj) = Plan(e.by)[i]
  /\ \/ Pending(e.by, i)
     \/ /\ i = Len(undo[e.by]) + 1 /\ ~Diverts(e.obj)
        /\ stage[e.by] \notin {"new", "setup", "active"}

Accounted ==
  \A e \in kernel : e.by \in Run => \E i \in PlanSteps(e.by) : AccountedBy(e, i)

(* Before the first pass nothing is undone. *)
Fresh ==
  \A r \in Run : stage[r] \in {"new", "setup", "active"} =>
    /\ \A i \in 1..Len(undo[r]) : ~undo[r][i]
    /\ stage[r] = "new" => undo[r] = <<>>

(* A run is certified on an undo slice that is all done. *)
Certified == \A r \in Run : stage[r] = "verified" => AllUndone(r)

(* The rest of the host only makes what the kernel lets nobody make twice. *)
HostPlain == \A e \in kernel : e.by = Host => ~Diverts(e.obj)

IInv ==
  /\ TypeOK
  /\ OneHolder
  /\ PendingIsPresent
  /\ Contained
  /\ Accounted
  /\ Fresh
  /\ Certified
  /\ HostPlain

-----------------------------------------------------------------------------
(* The plan of a run lists distinct well-formed objects, and each rule or  *)
(* jump comes after the chain it needs.                                    *)
LEMMA PlanFacts ==
  ASSUME NEW r \in Run
  PROVE  /\ PlanSteps(r) \subseteq Nat \ {0}
         /\ \A i \in PlanSteps(r) : Plan(r)[i] \in Object
         /\ \A i, j \in PlanSteps(r) : Plan(r)[i] = Plan(r)[j] => i = j
         /\ \A i \in PlanSteps(r) : Diverts(Plan(r)[i]) =>
              \E j \in PlanSteps(r) : j < i /\ Plan(r)[j] = ChainOf(Plan(r)[i])
         /\ \A i \in PlanSteps(r), j \in Nat \ {0} : j <= i => j \in PlanSteps(r)
<1>0. ChainName[r] \in Name /\ Table[r] \in Name
  OBVIOUS
<1>1. CASE Kind[r] = "redirect"
  <2>1. /\ Plan(r) = RedirectPlan(ChainName[r])
        /\ PlanSteps(r) = 1..3
    BY <1>1 DEF Plan, PlanSteps
  <2>2. QED
    BY <1>0, <2>1 DEF RedirectPlan, Obj, Object, ObjectType, Side, Diverts, ChainOf
<1>2. CASE Kind[r] # "redirect"
  <2>1. /\ Plan(r) = TProxyPlan(ChainName[r], Table[r])
        /\ PlanSteps(r) = 1..8
    BY <1>2 DEF Plan, PlanSteps
  <2> DEFINE n == ChainName[r]
             t == Table[r]
             P == TProxyPlan(n, t)
  <2>2. /\ P[1] = Obj("route", t, "ip") /\ P[2] = Obj("policy", t, "ip")
        /\ P[3] = Obj("chain", n, "O") /\ P[4] = Obj("chain", n, "P")
        /\ P[5] = Obj("rule", n, "O") /\ P[6] = Obj("rule", n, "P")
        /\ P[7] = Obj("jump", n, "O") /\ P[8] = Obj("jump", n, "P")
    BY DEF TProxyPlan
  <2> HIDE DEF P
  <2>3. \A i \in 1..8 : P[i] \in Object
    BY <1>0, <2>2 DEF Obj, Object, ObjectType, Side
  <2>4. \A i, j \in 1..8 : P[i] = P[j] => i = j
    BY <2>2 DEF Obj
  <2>5. \A i \in 1..8 : Diverts(P[i]) => \E j \in 1..8 : j < i /\ P[j] = ChainOf(P[i])
    BY <2>2 DEF Obj, Diverts, ChainOf
  <2>6. QED
    BY <2>1, <2>3, <2>4, <2>5 DEF P
<1>3. QED
  BY <1>1, <1>2

-----------------------------------------------------------------------------
LEMMA InitIInv == Init => IInv
<1> SUFFICES ASSUME Init PROVE IInv
  OBVIOUS
<1>1. TypeOK
  BY DEF Init, TypeOK, Stages, PlanSteps
<1>2. QED
  BY <1>1 DEF Init, IInv, OneHolder, PendingIsPresent, Contained, Accounted, Fresh, Certified, HostPlain

(* Whoever creates an object that the kernel accepts is its only holder,   *)
(* and a diverting one finds the chain of its own creator, both where no   *)
(* delete was ambiguous.                                                   *)
LEMMA AddKeepsKernel ==
  ASSUME IInv, NEW c \in Run \cup {Host}, NEW o \in Object, CanAdd(o),
         Diverts(o) => \/ ChainOf(o) \in ambiguous
                       \/ [obj |-> ChainOf(o), by |-> c] \in kernel,
         kernel' = kernel \cup {[obj |-> o, by |-> c]}, ambiguous' = ambiguous
  PROVE  /\ kernel' \subseteq Entry
         /\ OneHolder'
         /\ Contained'
<1> DEFINE new == [obj |-> o, by |-> c]
<1>1. new \in Entry
  BY DEF Entry
<1>2. ASSUME NEW e \in kernel, e.obj = o
      PROVE  e.by = c \/ (Diverts(o) /\ ChainOf(o) \in ambiguous)
  <2> SUFFICES ASSUME ~(Diverts(o) /\ ChainOf(o) \in ambiguous) PROVE e.by = c
    OBVIOUS
  <2>1. Diverts(o)
    BY <1>2 DEF CanAdd, Present
  <2>2. /\ [obj |-> ChainOf(o), by |-> c] \in kernel
        /\ [obj |-> ChainOf(o), by |-> e.by] \in kernel
    BY <1>2, <2>1 DEF IInv, Contained
  <2>3. ~Diverts(ChainOf(o))
    BY DEF ChainOf, Obj, Diverts
  <2>4. QED
    BY <2>2, <2>3 DEF IInv, OneHolder
<1>3. OneHolder'
  BY <1>2 DEF IInv, OneHolder, Diverts, ChainOf
<1>4. Contained'
  BY DEF IInv, Contained
<1>5. QED
  BY <1>1, <1>3, <1>4 DEF IInv, TypeOK

(* Whatever the kernel lets be deleted leaves no rule or jump without its  *)
(* chain.                                                                  *)
LEMMA DeleteKeepsKernel ==
  ASSUME IInv, NEW e \in kernel, CanDelete(e.obj), kernel' = kernel \ {e},
         ambiguous \subseteq ambiguous'
  PROVE  /\ kernel' \subseteq Entry
         /\ OneHolder'
         /\ Contained'
         /\ HostPlain'
<1>1. Contained'
  <2> SUFFICES ASSUME NEW f \in kernel', Diverts(f.obj), ChainOf(f.obj) \notin ambiguous'
               PROVE  [obj |-> ChainOf(f.obj), by |-> f.by] \in kernel'
    BY DEF Contained
  <2>1. [obj |-> ChainOf(f.obj), by |-> f.by] \in kernel
    BY DEF IInv, Contained
  <2>2. [obj |-> ChainOf(f.obj), by |-> f.by] # e
    BY DEF CanDelete, ChainOf, Obj
  <2>3. QED
    BY <2>1, <2>2
<1>2. OneHolder'
  BY DEF IInv, OneHolder
<1>3. QED
  BY <1>1, <1>2 DEF IInv, TypeOK, HostPlain

(* During Install the run's own chain is recorded before what it is for... *)
LEMMA OwnChainPending ==
  ASSUME IInv, NEW r \in Run, stage[r] = "setup",
         NEW i \in PlanSteps(r), i = Len(undo[r]) + 1, Diverts(Plan(r)[i])
  PROVE  \E j \in PlanSteps(r) : /\ j \in 1..Len(undo[r])
                                 /\ Plan(r)[j] = ChainOf(Plan(r)[i])
                                 /\ ~undo[r][j]
<1>1. PICK j \in PlanSteps(r) : j < i /\ Plan(r)[j] = ChainOf(Plan(r)[i])
  BY PlanFacts
<1>2. j \in 1..Len(undo[r])
  BY <1>1, PlanFacts DEF IInv, TypeOK
<1>3. QED
  BY <1>1, <1>2 DEF IInv, Fresh

(* ... and the next step finds it in the kernel.                           *)
LEMMA OwnChainReady ==
  ASSUME IInv, NEW r \in Run, stage[r] = "setup",
         NEW i \in PlanSteps(r), i = Len(undo[r]) + 1, Diverts(Plan(r)[i]),
         ChainOf(Plan(r)[i]) \notin ambiguous
  PROVE  [obj |-> ChainOf(Plan(r)[i]), by |-> r] \in kernel
<1>1. PICK j \in PlanSteps(r) : /\ j \in 1..Len(undo[r])
                                /\ Plan(r)[j] = ChainOf(Plan(r)[i])
                                /\ ~undo[r][j]
  BY OwnChainPending
<1>2. ~Doubtful(Plan(r)[j])
  BY <1>1 DEF Doubtful, ChainOf, Obj
<1>3. QED
  BY <1>1, <1>2 DEF IInv, PendingIsPresent, Owned

-----------------------------------------------------------------------------
(* A step of a command that took effect during Install, recorded or not.   *)
LEMMA InstallKeepsKernel ==
  ASSUME IInv, NEW r \in Run, stage[r] = "setup",
         NEW i \in PlanSteps(r), i = Len(undo[r]) + 1, CanAdd(Plan(r)[i]),
         kernel' = kernel \cup {Owned(r, i)}, ambiguous' = ambiguous
  PROVE  kernel' \subseteq Entry /\ OneHolder' /\ Contained' /\ HostPlain'
<1>1. Plan(r)[i] \in Object
  BY PlanFacts
<1>2. kernel' \subseteq Entry /\ OneHolder' /\ Contained'
  BY <1>1, OwnChainReady, AddKeepsKernel DEF Owned
<1>3. HostPlain'
  BY DEF IInv, HostPlain, Owned
<1>4. QED
  BY <1>2, <1>3

LEMMA InstallStepInv ==
  ASSUME IInv, NEW r \in Run, InstallStep(r)
  PROVE  IInv'
<1> DEFINE i == Len(undo[r]) + 1
<1>0. /\ stage[r] = "setup" /\ i \in PlanSteps(r) /\ CanAdd(Plan(r)[i])
      /\ kernel' = kernel \cup {Owned(r, i)}
      /\ undo' = [undo EXCEPT ![r] = Append(@, FALSE)]
      /\ stage' = [stage EXCEPT ![r] = IF i + 1 \in PlanSteps(r) THEN "setup" ELSE "active"]
      /\ cursor' = cursor /\ expired' = expired /\ ambiguous' = ambiguous
  BY DEF InstallStep, IInv, TypeOK
<1>1. kernel' \subseteq Entry /\ OneHolder' /\ Contained' /\ HostPlain'
  BY <1>0, InstallKeepsKernel
<1>2. /\ undo' \in [Run -> Seq(BOOLEAN)]
      /\ Len(undo'[r]) = i /\ undo'[r][i] = FALSE
      /\ \A j \in 1..Len(undo[r]) : undo'[r][j] = undo[r][j]
      /\ \A q \in Run : q # r => undo'[q] = undo[q]
  BY <1>0 DEF IInv, TypeOK
<1>3. 1..i \subseteq PlanSteps(r)
  BY <1>0, PlanFacts
<1>4. /\ stage' \in [Run -> Stages] /\ stage'[r] \in {"setup", "active"}
      /\ \A q \in Run : q # r => stage'[q] = stage[q]
  BY <1>0 DEF IInv, TypeOK, Stages
<1>5. TypeOK'
  BY <1>0, <1>1, <1>2, <1>3, <1>4 DEF IInv, TypeOK
<1>6. PendingIsPresent'
  <2> SUFFICES ASSUME NEW q \in Run, NEW j \in 1..Len(undo'[q]), ~undo'[q][j],
                      ~Doubtful(Plan(q)[j])
               PROVE  Owned(q, j) \in kernel'
    BY <1>0 DEF PendingIsPresent, Owned, Plan, Doubtful
  <2>1. CASE q = r /\ j = i
    BY <2>1, <1>0
  <2>2. CASE q # r
    BY <2>2, <1>0, <1>2 DEF IInv, PendingIsPresent
  <2>3. CASE q = r /\ j # i
    <3>0. Len(undo[r]) \in Nat
      BY DEF IInv, TypeOK
    <3>1. j \in 1..Len(undo[r]) /\ ~undo[r][j]
      <4>1. j \in 1..i /\ j # i
        BY <2>3, <1>2
      <4>2. j \in 1..Len(undo[r])
        BY <4>1, <3>0
      <4>3. QED
        BY <4>2, <2>3, <1>2
    <3>2. QED
      BY <2>3, <3>1, <1>0 DEF IInv, PendingIsPresent
  <2>4. QED
    BY <2>1, <2>2, <2>3
<1>7. Accounted'
  <2> SUFFICES ASSUME NEW e \in kernel', e.by \in Run
               PROVE  \E k \in PlanSteps(e.by) : AccountedBy(e, k)'
    BY DEF Accounted, AccountedBy, Plan, PlanSteps, Pending
  <2>1. CASE e = Owned(r, i) /\ ~Diverts(Plan(r)[i])
    <3>1. Anchor(e.obj) = Plan(r)[i] /\ e.by = r
      BY <2>1 DEF Owned, Anchor
    <3>2. PICK n \in PlanSteps(r) : n = i
      BY <1>0
    <3>3. n <= Len(undo'[r]) /\ ~undo'[r][n]
      BY <3>2, <1>2, PlanFacts DEF IInv, TypeOK
    <3>4. AccountedBy(e, n)'
      BY <3>1, <3>2, <3>3 DEF AccountedBy, Plan, Pending
    <3>5. QED
      BY <3>1, <3>4
  <2>2. CASE e = Owned(r, i) /\ Diverts(Plan(r)[i])
    <3>1. PICK j \in PlanSteps(r) : /\ j \in 1..Len(undo[r])
                                    /\ Plan(r)[j] = ChainOf(Plan(r)[i])
                                    /\ ~undo[r][j]
      BY <2>2, <1>0, OwnChainPending
    <3>2. Anchor(e.obj) = Plan(r)[j] /\ e.by = r
      BY <2>2, <3>1 DEF Owned, Anchor
    <3>3. j <= i /\ ~undo'[r][j]
      BY <3>1, <1>2 DEF IInv, TypeOK
    <3>4. AccountedBy(e, j)'
      BY <3>2, <3>3, <1>2 DEF AccountedBy, Plan, Pending
    <3>5. QED
      BY <3>2, <3>4
  <2>3. CASE e \in kernel /\ e.by = r
    <3>1. PICK k \in PlanSteps(r) : Anchor(e.obj) = Plan(r)[k] /\ k <= Len(undo[r]) /\ ~undo[r][k]
      BY <2>3, <1>0 DEF IInv, Accounted, AccountedBy, Pending
    <3>2. k \in 1..Len(undo[r])
      BY <3>1, PlanFacts DEF IInv, TypeOK
    <3>3. k <= i /\ ~undo'[r][k]
      BY <3>1, <3>2, <1>2 DEF IInv, TypeOK
    <3>4. AccountedBy(e, k)'
      BY <2>3, <3>1, <3>3, <1>2 DEF AccountedBy, Plan, Pending
    <3>5. QED
      BY <2>3, <3>4
  <2>4. CASE e \in kernel /\ e.by # r
    <3>1. undo'[e.by] = undo[e.by] /\ stage'[e.by] = stage[e.by]
      BY <2>4, <1>2, <1>4
    <3>2. QED
      BY <2>4, <3>1 DEF IInv, Accounted, AccountedBy, Pending, Plan
  <2>5. QED
    BY <2>1, <2>2, <2>3, <2>4, <1>0
<1>8. Fresh'
  <2>1. \A j \in 1..Len(undo'[r]) : ~undo'[r][j]
    BY <1>0, <1>2 DEF IInv, Fresh, TypeOK
  <2>2. QED
    BY <2>1, <1>0, <1>2, <1>4 DEF IInv, Fresh
<1>9. Certified'
  BY <1>2, <1>4 DEF IInv, Certified, AllUndone
<1>10. QED
  BY <1>1, <1>5, <1>6, <1>7, <1>8, <1>9 DEF IInv

-----------------------------------------------------------------------------
(* Steps that run no command: only stages, cursors and deadlines move, and *)
(* no run goes back to a stage before its first pass.                      *)
Quiet ==
  /\ UNCHANGED <<kernel, undo, ambiguous>>
  /\ stage' \in [Run -> Stages] /\ expired' \in [Run -> BOOLEAN]
  /\ cursor' \in [Run -> Nat]
  /\ \A q \in Run :
       /\ cursor'[q] <= Len(undo[q])
       /\ stage'[q] = "new" => stage[q] = "new"
       /\ stage'[q] = "verified" => stage[q] = "verified" \/ AllUndone(q)
       /\ stage'[q] \in {"new", "setup", "active"} => stage[q] \in {"new", "setup", "active"}

LEMMA QuietKeepsInv == ASSUME IInv, Quiet PROVE IInv'
<1>1. TypeOK'
  BY DEF IInv, TypeOK, Quiet, PlanSteps
<1>2. OneHolder' /\ Contained' /\ HostPlain'
  BY DEF IInv, OneHolder, Contained, HostPlain, Quiet
<1>3. PendingIsPresent'
  BY DEF IInv, PendingIsPresent, Quiet, Owned, Plan, Doubtful
<1>4. Accounted'
  <2> SUFFICES ASSUME NEW e \in kernel, e.by \in Run
               PROVE  \E k \in PlanSteps(e.by) : AccountedBy(e, k)'
    BY DEF Accounted, AccountedBy, Plan, PlanSteps, Pending, Quiet
  <2>1. PICK k \in PlanSteps(e.by) : AccountedBy(e, k)
    BY DEF IInv, Accounted
  <2>2. AccountedBy(e, k)'
    BY <2>1 DEF AccountedBy, Plan, Pending, Quiet
  <2>3. QED
    BY <2>2
<1>5. Fresh'
  BY DEF IInv, Fresh, Quiet
<1>6. Certified'
  BY DEF IInv, Certified, AllUndone, Quiet
<1>7. QED
  BY <1>1, <1>2, <1>3, <1>4, <1>5, <1>6 DEF IInv

LEMMA QuietSteps ==
  ASSUME IInv, NEW r \in Run,
         \/ Snapshot(r) \/ SetupFails(r) \/ InstallFails(r) \/ Finish(r)
         \/ SkipDone(r) \/ UndoFails(r) \/ Expire(r)
         \/ SecondPass(r) \/ VerifyRestore(r) \/ Die(r)
  PROVE  Quiet
<1> USE DEF IInv, TypeOK, Quiet, Stages
<1>1. CASE Snapshot(r)
  BY <1>1 DEF Snapshot
<1>2. CASE SetupFails(r)
  BY <1>2 DEF SetupFails
<1>3. CASE InstallFails(r)
  BY <1>3 DEF InstallFails, BeginStop
<1>4. CASE Finish(r)
  BY <1>4 DEF Finish, BeginStop
<1>5. CASE SkipDone(r) \/ UndoFails(r)
  <2>1. /\ cursor[r] > 0
        /\ cursor' = [cursor EXCEPT ![r] = @ - 1]
        /\ UNCHANGED <<kernel, stage, undo, expired, ambiguous>>
    BY <1>5 DEF SkipDone, UndoFails, Advance
  <2>2. cursor[r] - 1 \in Nat /\ cursor[r] - 1 <= Len(undo[r])
    BY <2>1
  <2>3. QED
    BY <2>1, <2>2
<1>6. CASE Expire(r)
  BY <1>6 DEF Expire, Restoring
<1>7. CASE SecondPass(r)
  BY <1>7 DEF SecondPass
<1>8. CASE VerifyRestore(r)
  BY <1>8 DEF VerifyRestore
<1>9. CASE Die(r)
  BY <1>9 DEF Die
<1>10. QED
  BY <1>1, <1>2, <1>3, <1>4, <1>5, <1>6, <1>7, <1>8, <1>9

(* The interrupted command of Install leaves an unrecorded object, which   *)
(* Accounted allows only because Install is left with it.                  *)
LEMMA InstallInterruptedInv ==
  ASSUME IInv, NEW r \in Run, InstallInterrupted(r)
  PROVE  IInv'
<1> DEFINE i == Len(undo[r]) + 1
<1>0. /\ stage[r] = "setup" /\ CanAdd(Plan(r)[i])
      /\ kernel' = kernel \cup {Owned(r, i)}
      /\ undo' = undo /\ expired' = expired /\ ambiguous' = ambiguous
      /\ stage' = [stage EXCEPT ![r] = "stop"]
      /\ cursor' = [cursor EXCEPT ![r] = Len(undo[r])]
  BY DEF InstallInterrupted, BeginStop
<1>00. i \in PlanSteps(r)
  BY DEF InstallInterrupted
<1>1. kernel' \subseteq Entry /\ OneHolder' /\ Contained' /\ HostPlain'
  BY <1>0, <1>00, InstallKeepsKernel
<1>2. TypeOK'
  BY <1>0, <1>1 DEF IInv, TypeOK, Stages, PlanSteps
<1>3. PendingIsPresent'
  BY <1>0 DEF IInv, PendingIsPresent, Owned, Plan, Doubtful
<1>4. Accounted'
  <2> SUFFICES ASSUME NEW e \in kernel', e.by \in Run
               PROVE  \E k \in PlanSteps(e.by) : AccountedBy(e, k)'
    BY DEF Accounted, AccountedBy, Plan, PlanSteps, Pending
  <2>0. stage'[r] = "stop"
    BY <1>0 DEF IInv, TypeOK
  <2>1. CASE e = Owned(r, i) /\ ~Diverts(Plan(r)[i])
    <3>1. Anchor(e.obj) = Plan(r)[i] /\ e.by = r /\ ~Diverts(e.obj)
      BY <2>1 DEF Owned, Anchor
    <3>2. PICK n \in PlanSteps(r) : n = i
      BY <1>00
    <3>3. AccountedBy(e, n)'
      BY <3>1, <3>2, <2>0, <1>0 DEF AccountedBy, Plan
    <3>4. QED
      BY <3>1, <3>3
  <2>2. CASE e = Owned(r, i) /\ Diverts(Plan(r)[i])
    <3>1. PICK j \in PlanSteps(r) : /\ j \in 1..Len(undo[r])
                                    /\ Plan(r)[j] = ChainOf(Plan(r)[i])
                                    /\ ~undo[r][j]
      BY <2>2, <1>0, <1>00, OwnChainPending
    <3>2. Anchor(e.obj) = Plan(r)[j] /\ e.by = r /\ j <= Len(undo[r])
      BY <2>2, <3>1 DEF Owned, Anchor
    <3>3. AccountedBy(e, j)'
      BY <3>1, <3>2, <1>0 DEF AccountedBy, Plan, Pending
    <3>4. QED
      BY <3>2, <3>3
  <2>3. CASE e \in kernel
    <3>1. PICK k \in PlanSteps(e.by) : AccountedBy(e, k)
      BY <2>3 DEF IInv, Accounted
    <3>2. stage[e.by] \notin {"new", "setup", "active"} =>
            stage'[e.by] \notin {"new", "setup", "active"}
      BY <1>0 DEF IInv, TypeOK
    <3>3. AccountedBy(e, k)'
      BY <3>1, <3>2, <1>0 DEF AccountedBy, Plan, Pending
    <3>4. QED
      BY <3>3
  <2>4. QED
    BY <2>1, <2>2, <2>3, <1>0
<1>5. Fresh'
  BY <1>0 DEF IInv, Fresh, TypeOK
<1>6. Certified'
  BY <1>0 DEF IInv, Certified, AllUndone, TypeOK
<1>7. QED
  BY <1>1, <1>2, <1>3, <1>4, <1>5, <1>6 DEF IInv

-----------------------------------------------------------------------------
(* The instance a delete command hits is the run's own, unless a delete of *)
(* it was ambiguous: this is where OneHolder and PendingIsPresent are      *)
(* needed.                                                                 *)
LEMMA DeleteHitsOwn ==
  ASSUME IInv, NEW r \in Run, cursor[r] > 0, ~undo[r][cursor[r]],
         NEW e \in kernel, e.obj = AtCursor(r), ~Doubtful(AtCursor(r))
  PROVE  e = Owned(r, cursor[r])
<1>1. cursor[r] \in 1..Len(undo[r])
  BY DEF IInv, TypeOK
<1>2. Owned(r, cursor[r]) \in kernel
  BY <1>1 DEF IInv, PendingIsPresent, AtCursor
<1>3. e.by = r
  BY <1>2 DEF IInv, OneHolder, Owned, AtCursor, Doubtful
<1>4. e \in Entry
  BY DEF IInv, TypeOK
<1>5. QED
  BY <1>3, <1>4 DEF Entry, Owned, AtCursor

(* A delete takes nothing that a pending inverse of another entry is for.  *)
LEMMA DeleteKeepsPending ==
  ASSUME IInv, NEW r \in Run, cursor[r] > 0, ~undo[r][cursor[r]],
         NEW e \in kernel, e.obj = AtCursor(r),
         NEW q \in Run, NEW j \in 1..Len(undo[q]), ~undo[q][j], ~Doubtful(Plan(q)[j]),
         q # r \/ j # cursor[r]
  PROVE  Owned(q, j) \in kernel \ {e}
<1>1. Owned(q, j) \in kernel
  BY DEF IInv, PendingIsPresent
<1>2. ASSUME Owned(q, j) = e PROVE FALSE
  <2>1. Plan(q)[j] = AtCursor(r) /\ e.by = q
    BY <1>2 DEF Owned
  <2>2. e = Owned(r, cursor[r])
    BY <2>1, DeleteHitsOwn
  <2>3. q = r
    BY <2>1, <2>2 DEF Owned
  <2>4. cursor[r] \in PlanSteps(r) /\ j \in PlanSteps(r)
    <3>1. cursor[r] \in 1..Len(undo[r]) /\ 1..Len(undo[r]) \subseteq PlanSteps(r)
      BY DEF IInv, TypeOK
    <3>2. QED
      BY <2>3, <3>1
  <2>5. j = cursor[r]
    BY <2>1, <2>3, <2>4, PlanFacts DEF AtCursor
  <2>6. QED
    BY <2>3, <2>5
<1>3. QED
  BY <1>1, <1>2

(* Once the kernel has let an object be deleted, nothing is anchored in it *)
(* any more: a chain is deleted empty, and whatever else a run makes but   *)
(* rules and jumps exists only once.                                       *)
LEMMA DeleteLeavesNoAnchor ==
  ASSUME IInv, NEW e \in kernel, CanDelete(e.obj), ~Diverts(e.obj),
         NEW f \in kernel \ {e}, Anchor(f.obj) = e.obj
  PROVE  FALSE
<1>1. CASE Diverts(f.obj)
  <2>1. ChainOf(f.obj) = e.obj
    BY <1>1 DEF Anchor
  <2>2. e.obj.type = "chain"
    BY <2>1 DEF ChainOf, Obj
  <2>3. QED
    BY <1>1, <2>1, <2>2 DEF CanDelete
<1>2. CASE ~Diverts(f.obj)
  <2>1. f.obj = e.obj
    BY <1>2 DEF Anchor
  <2>2. f.by = e.by
    BY <2>1 DEF IInv, OneHolder
  <2>3. e = [obj |-> e.obj, by |-> e.by] /\ f = [obj |-> f.obj, by |-> f.by]
    BY DEF IInv, TypeOK, Entry
  <2>4. QED
    BY <2>1, <2>2, <2>3
<1>3. QED
  BY <1>1, <1>2

(* A rule or a jump anchors nothing. *)
LEMMA AnchorNeverDiverts == ASSUME NEW o PROVE ~Diverts(Anchor(o))
BY DEF Anchor, Diverts, ChainOf, Obj

LEMMA UndoStepInv ==
  ASSUME IInv, NEW r \in Run, UndoStep(r)
  PROVE  IInv'
<1> DEFINE c == cursor[r]
<1>0. /\ stage[r] \in {"stop", "cleanup"} /\ c > 0 /\ ~undo[r][c]
      /\ CanDelete(AtCursor(r))
      /\ undo' = [undo EXCEPT ![r][c] = TRUE]
      /\ cursor' = [cursor EXCEPT ![r] = @ - 1]
      /\ UNCHANGED <<stage, expired, ambiguous>>
  BY DEF UndoStep, Restoring, Advance
<1>e. PICK e \in kernel : e.obj = AtCursor(r) /\ kernel' = kernel \ {e}
  BY DEF UndoStep
<1>1. kernel' \subseteq Entry /\ OneHolder' /\ Contained' /\ HostPlain'
  BY <1>0, <1>e, DeleteKeepsKernel
<1>2. /\ c \in 1..Len(undo[r]) /\ c \in PlanSteps(r)
      /\ undo' \in [Run -> Seq(BOOLEAN)]
      /\ Len(undo'[r]) = Len(undo[r]) /\ undo'[r][c]
      /\ \A j \in 1..Len(undo[r]) : j # c => undo'[r][j] = undo[r][j]
      /\ \A q \in Run : q # r => undo'[q] = undo[q]
  BY <1>0 DEF IInv, TypeOK
<1>3. TypeOK'
  BY <1>0, <1>1, <1>2 DEF IInv, TypeOK, PlanSteps
<1>4. PendingIsPresent'
  <2> SUFFICES ASSUME NEW q \in Run, NEW j \in 1..Len(undo'[q]), ~undo'[q][j],
                      ~Doubtful(Plan(q)[j])
               PROVE  Owned(q, j) \in kernel'
    BY <1>0 DEF PendingIsPresent, Owned, Plan, Doubtful
  <2>1. j \in 1..Len(undo[q]) /\ ~undo[q][j] /\ (q # r \/ j # c)
    BY <1>2
  <2>2. QED
    BY <2>1, <1>0, <1>e, DeleteKeepsPending
<1>5. Accounted'
  <2> SUFFICES ASSUME NEW f \in kernel \ {e}, f.by \in Run
               PROVE  \E k \in PlanSteps(f.by) : AccountedBy(f, k)'
    BY <1>e DEF Accounted, AccountedBy, Plan, PlanSteps, Pending
  <2>1. PICK k \in PlanSteps(f.by) : AccountedBy(f, k)
    BY DEF IInv, Accounted
  <2>2. ~(f.by = r /\ k = c)
    <3> SUFFICES ASSUME f.by = r, k = c PROVE FALSE
      OBVIOUS
    <3>1. Anchor(f.obj) = e.obj
      BY <2>1, <1>e DEF AccountedBy, AtCursor
    <3>2. ~Diverts(e.obj)
      BY <3>1, AnchorNeverDiverts
    <3>3. QED
      BY <3>1, <3>2, <1>0, <1>e, DeleteLeavesNoAnchor
  <2>3. k \in Nat \ {0}
    BY PlanFacts
  <2>4. Len(undo'[f.by]) = Len(undo[f.by]) /\ (Pending(f.by, k) => ~undo'[f.by][k])
    <3>1. CASE f.by = r
      <4>1. Pending(f.by, k) => k \in 1..Len(undo[r]) /\ k # c /\ ~undo[r][k]
        BY <2>2, <2>3, <3>1 DEF Pending, IInv, TypeOK
      <4>2. QED
        BY <3>1, <4>1, <1>2
    <3>2. CASE f.by # r
      BY <3>2, <1>2 DEF Pending
    <3>3. QED
      BY <3>1, <3>2
  <2>5. AccountedBy(f, k)'
    BY <2>1, <2>4, <1>0 DEF AccountedBy, Pending, Plan
  <2>6. QED
    BY <2>5
<1>6. Fresh'
  BY <1>0, <1>2 DEF IInv, Fresh
<1>7. Certified'
  BY <1>0, <1>2 DEF IInv, Certified, AllUndone
<1>8. QED
  BY <1>1, <1>3, <1>4, <1>5, <1>6, <1>7 DEF IInv

LEMMA UndoInterruptedInv ==
  ASSUME IInv, NEW r \in Run, UndoInterrupted(r)
  PROVE  IInv'
<1>0. /\ stage[r] \in {"stop", "cleanup"} /\ cursor[r] > 0 /\ ~undo[r][cursor[r]]
      /\ CanDelete(AtCursor(r))
      /\ ambiguous' = ambiguous \cup {AtCursor(r)}
      /\ cursor' = [cursor EXCEPT ![r] = @ - 1]
      /\ UNCHANGED <<stage, undo, expired>>
  BY DEF UndoInterrupted, Restoring, Advance
<1>e. PICK e \in kernel : e.obj = AtCursor(r) /\ kernel' = kernel \ {e}
  BY DEF UndoInterrupted
<1>1. kernel' \subseteq Entry /\ OneHolder' /\ Contained' /\ HostPlain'
  BY <1>0, <1>e, DeleteKeepsKernel
<1>2. cursor[r] \in 1..Len(undo[r]) /\ cursor[r] \in PlanSteps(r)
  BY <1>0 DEF IInv, TypeOK
<1>3. TypeOK'
  <2>1. AtCursor(r) \in Object
    BY <1>2, PlanFacts DEF AtCursor
  <2>2. QED
    BY <2>1, <1>0, <1>1 DEF IInv, TypeOK, PlanSteps
<1>4. PendingIsPresent'
  <2> SUFFICES ASSUME NEW q \in Run, NEW j \in 1..Len(undo[q]), ~undo[q][j],
                      ~Doubtful(Plan(q)[j])'
               PROVE  Owned(q, j) \in kernel'
    BY <1>0 DEF PendingIsPresent, Owned, Plan
  <2>1. ~Doubtful(Plan(q)[j])
    BY <1>0 DEF Doubtful, Plan
  <2>2. Plan(q)[j] # AtCursor(r)
    BY <1>0 DEF Doubtful, Plan
  <2>3. q # r \/ j # cursor[r]
    BY <2>2 DEF AtCursor
  <2>4. QED
    BY <2>1, <2>3, <1>0, <1>e, DeleteKeepsPending
<1>5. Accounted'
  <2> SUFFICES ASSUME NEW f \in kernel, f.by \in Run
               PROVE  \E k \in PlanSteps(f.by) : AccountedBy(f, k)'
    BY <1>e DEF Accounted, AccountedBy, Plan, PlanSteps, Pending
  <2>1. PICK k \in PlanSteps(f.by) : AccountedBy(f, k)
    BY DEF IInv, Accounted
  <2>2. AccountedBy(f, k)'
    BY <2>1, <1>0 DEF AccountedBy, Plan, Pending
  <2>3. QED
    BY <2>2
<1>6. Fresh'
  BY <1>0 DEF IInv, Fresh
<1>7. Certified'
  BY <1>0 DEF IInv, Certified, AllUndone
<1>8. QED
  BY <1>1, <1>3, <1>4, <1>5, <1>6, <1>7 DEF IInv

LEMMA HostInv == ASSUME IInv, HostAdds \/ HostRemoves PROVE IInv'
<1>1. CASE HostAdds
  <2>5. UNCHANGED <<stage, undo, cursor, expired, ambiguous>>
    BY <1>1 DEF HostAdds
  <2>1. PICK o \in Contested : CanAdd(o) /\ kernel' = kernel \cup {[obj |-> o, by |-> Host]}
    BY <1>1 DEF HostAdds
  <2>2. o \in Object /\ ~Diverts(o)
    BY PlanFacts DEF Contested
  <2>3. kernel' \subseteq Entry /\ OneHolder' /\ Contained'
    BY <2>1, <2>2, <2>5, AddKeepsKernel
  <2>4. HostPlain'
    BY <2>1, <2>2 DEF IInv, HostPlain
  <2>6. Accounted'
    <3> SUFFICES ASSUME NEW e \in kernel, e.by \in Run
                 PROVE  \E k \in PlanSteps(e.by) : AccountedBy(e, k)'
      BY <2>1, NetfilterAssumption DEF Accounted, AccountedBy, Plan, PlanSteps, Pending
    <3>1. PICK k \in PlanSteps(e.by) : AccountedBy(e, k)
      BY DEF IInv, Accounted
    <3>2. AccountedBy(e, k)'
      BY <3>1, <2>5 DEF AccountedBy, Plan, Pending
    <3>3. QED
      BY <3>2
  <2>7. TypeOK' /\ PendingIsPresent'
    BY <2>1, <2>3, <2>5 DEF IInv, TypeOK, PendingIsPresent, Owned, Plan, PlanSteps, Doubtful
  <2>8. Fresh' /\ Certified'
    BY <2>5 DEF IInv, Fresh, Certified, AllUndone
  <2>9. QED
    BY <2>3, <2>4, <2>6, <2>7, <2>8 DEF IInv
<1>2. CASE HostRemoves
  <2>1. PICK e \in Mine(Host) : CanDelete(e.obj) /\ kernel' = kernel \ {e}
    BY <1>2 DEF HostRemoves
  <2>2. e \in kernel /\ e.by = Host
    BY DEF Mine
  <2>3. UNCHANGED <<stage, undo, cursor, expired, ambiguous>>
    BY <1>2 DEF HostRemoves
  <2>4. kernel' \subseteq Entry /\ OneHolder' /\ Contained' /\ HostPlain'
    BY <2>1, <2>2, <2>3, DeleteKeepsKernel
  <2>5. PendingIsPresent'
    BY <2>1, <2>2, <2>3 DEF IInv, PendingIsPresent, Owned, Plan, Doubtful
  <2>6. Accounted'
    <3> SUFFICES ASSUME NEW f \in kernel, f.by \in Run
                 PROVE  \E k \in PlanSteps(f.by) : AccountedBy(f, k)'
      BY <2>1 DEF Accounted, AccountedBy, Plan, PlanSteps, Pending
    <3>1. PICK k \in PlanSteps(f.by) : AccountedBy(f, k)
      BY DEF IInv, Accounted
    <3>2. AccountedBy(f, k)'
      BY <3>1, <2>3 DEF AccountedBy, Plan, Pending
    <3>3. QED
      BY <3>2
  <2>7. Fresh' /\ Certified' /\ TypeOK'
    BY <2>3, <2>4 DEF IInv, TypeOK, Fresh, Certified, AllUndone, PlanSteps
  <2>8. QED
    BY <2>4, <2>5, <2>6, <2>7 DEF IInv
<1>3. QED
  BY <1>1, <1>2

LEMMA NextIInv == IInv /\ [Next]_vars => IInv'
<1> SUFFICES ASSUME IInv, [Next]_vars PROVE IInv'
  OBVIOUS
<1>1. ASSUME NEW r \in Run, RunStep(r) PROVE IInv'
  BY <1>1, InstallStepInv, InstallInterruptedInv, UndoStepInv, UndoInterruptedInv,
     QuietSteps, QuietKeepsInv DEF RunStep, Progress
<1>2. CASE UNCHANGED vars
  <2>1. Quiet
    BY <1>2 DEF vars, Quiet, IInv, TypeOK
  <2>2. QED
    BY <2>1, QuietKeepsInv
<1>3. QED
  BY <1>1, <1>2, HostInv DEF Next

THEOREM NetfilterInvariant == Spec => []IInv
BY InitIInv, NextIInv, PTL DEF Spec

-----------------------------------------------------------------------------
(* Types, and the bounds of the undo slice and of the cleanup loop.        *)
THEOREM NetfilterTypeOK == Spec => []TypeOK
<1>1. IInv => TypeOK
  BY DEF IInv
<1>2. QED
  BY <1>1, NetfilterInvariant, PTL

(* No two creators share an object identity, unless a delete of its chain  *)
(* was ambiguous.                                                          *)
THEOREM NetfilterOneHolder == Spec => []OneHolder
<1>1. IInv => OneHolder
  BY DEF IInv
<1>2. QED
  BY <1>1, NetfilterInvariant, PTL

(* The undo slice never goes stale, but where a delete was ambiguous. *)
THEOREM NetfilterPendingIsPresent == Spec => []PendingIsPresent
<1>1. IInv => PendingIsPresent
  BY DEF IInv
<1>2. QED
  BY <1>1, NetfilterInvariant, PTL

(* When every inverse has been played, all that Accounted leaves is the    *)
(* interrupted command's object, and that is neither a rule nor a jump.    *)
LEMMA IInvVerifiedInert == IInv => VerifiedInert
<1> SUFFICES ASSUME IInv, NEW r \in Run, stage[r] = "verified"
             PROVE  /\ \A e \in Mine(r) : ~Diverts(e.obj)
                    /\ \A e, f \in Mine(r) : e = f
  BY DEF VerifiedInert
<1> DEFINE last == Len(undo[r]) + 1
<1>1. ASSUME NEW e \in kernel, e.by = r
      PROVE  ~Diverts(e.obj) /\ e = [obj |-> Plan(r)[last], by |-> r]
  <2>1. PICK i \in PlanSteps(r) : AccountedBy(e, i)
    BY <1>1 DEF IInv, Accounted
  <2>2. ~Pending(r, i)
    BY PlanFacts DEF IInv, Certified, AllUndone, TypeOK, Pending
  <2>3. ~Diverts(e.obj) /\ e.obj = Plan(r)[last]
    BY <1>1, <2>1, <2>2 DEF AccountedBy, Anchor
  <2>4. e = [obj |-> e.obj, by |-> e.by]
    BY DEF IInv, TypeOK, Entry
  <2>5. QED
    BY <1>1, <2>3, <2>4
<1>2. QED
  BY <1>1 DEF Mine

(* A passing VerifyRestore leaves nothing of the run that diverts traffic, *)
(* and at most one object.                                                 *)
THEOREM NetfilterVerifiedInert == Spec => []VerifiedInert
BY IInvVerifiedInert, NetfilterInvariant, PTL

(* Every step that removes an object is taken by the object's creator,     *)
(* unless a delete of the object was ambiguous.                            *)
THEOREM NetfilterOnlyOwnRemoved == Spec => OnlyOwnRemoved
<1> DEFINE A == \A e \in kernel \ kernel' : ~Doubtful(e.obj) =>
                  IF e.by = Host THEN UNCHANGED <<stage, undo, cursor>>
                                 ELSE cursor'[e.by] # cursor[e.by]
<1>1. IInv /\ [Next]_vars => [A]_vars
  <2> SUFFICES ASSUME IInv, Next PROVE A
    OBVIOUS
  <2>1. ASSUME NEW r \in Run, UndoStep(r) \/ UndoInterrupted(r) PROVE A
    <3>1. cursor[r] > 0 /\ ~undo[r][cursor[r]]
      BY <2>1 DEF UndoStep, UndoInterrupted
    <3>2. PICK e \in kernel : e.obj = AtCursor(r) /\ kernel' = kernel \ {e}
      BY <2>1 DEF UndoStep, UndoInterrupted
    <3>3. ~Doubtful(e.obj) => e.by = r
      BY <3>1, <3>2, DeleteHitsOwn DEF Owned
    <3>4. cursor'[r] = cursor[r] - 1
      BY <2>1 DEF UndoStep, UndoInterrupted, Advance, IInv, TypeOK
    <3>5. cursor'[r] # cursor[r]
      BY <3>4 DEF IInv, TypeOK
    <3>6. QED
      BY <3>2, <3>3, <3>5
  <2>2. ASSUME NEW r \in Run, InstallStep(r) \/ InstallInterrupted(r) PROVE A
    BY <2>2 DEF InstallStep, InstallInterrupted
  <2>3. ASSUME NEW r \in Run, RunStep(r) PROVE A
    <3>1. CASE Quiet
      BY <3>1 DEF Quiet
    <3>2. QED
      BY <2>1, <2>2, <2>3, <3>1, QuietSteps DEF RunStep, Progress
  <2>4. CASE HostAdds \/ HostRemoves
    BY <2>4 DEF HostAdds, HostRemoves, Mine
  <2>5. QED
    BY <2>3, <2>4 DEF Next
<1>2. QED
  BY <1>1, NetfilterInvariant, PTL DEF Spec, OnlyOwnRemoved

-----------------------------------------------------------------------------
(* Refinement: the manager of each run implements RestoreContract.         *)
(* Only the steps of a run itself add to what it holds or change where it  *)
(* is; another run may take from it, where a delete was ambiguous.         *)
LEMMA OthersOnlyTake ==
  ASSUME IInv, NEW r \in Run, NEW q \in Run, q # r, RunStep(q)
  PROVE  Mine(r)' \subseteq Mine(r) /\ stage'[r] = stage[r]
<1>1. stage'[r] = stage[r]
  BY DEF IInv, TypeOK, RunStep, Progress, Snapshot, SetupFails, InstallStep, InstallFails,
         InstallInterrupted, BeginStop, Finish, SkipDone, UndoStep, UndoFails, UndoInterrupted,
         SecondPass, VerifyRestore, Expire, Die
<1>2. CASE InstallStep(q) \/ InstallInterrupted(q)
  <2>1. kernel' = kernel \cup {[obj |-> Plan(q)[Len(undo[q]) + 1], by |-> q]}
    BY <1>2 DEF InstallStep, InstallInterrupted, Owned
  <2>2. QED
    BY <1>1, <2>1 DEF Mine
<1>3. CASE UndoStep(q) \/ UndoInterrupted(q)
  BY <1>1, <1>3 DEF UndoStep, UndoInterrupted, Mine
<1>4. CASE Quiet
  BY <1>1, <1>4 DEF Quiet, Mine
<1>5. QED
  BY <1>2, <1>3, <1>4, QuietSteps DEF RunStep, Progress

(* A run that has not begun has nothing that could be taken from it.       *)
LEMMA NewHoldsNothing ==
  ASSUME IInv, NEW r \in Run, stage[r] = "new" PROVE Mine(r) = {}
<1>1. undo[r] = <<>>
  BY DEF IInv, Fresh
<1>2. ASSUME NEW e \in kernel, e.by = r PROVE FALSE
  <2>1. PICK i \in PlanSteps(r) : AccountedBy(e, i)
    BY <1>2 DEF IInv, Accounted
  <2>2. i \in Nat \ {0}
    BY PlanFacts
  <2>3. QED
    BY <1>1, <1>2, <2>1, <2>2 DEF AccountedBy, Pending
<1>3. QED
  BY <1>2 DEF Mine

(* The manager of any one run implements the restore contract, beside any  *)
(* number of others.                                                       *)
THEOREM NetfilterImplementsContract == Spec => ImplementsContract
<1>0. One \in Run
  BY NetfilterAssumption
<1>1. Init => Contract!ContractInit
  BY DEF Init, Contract!ContractInit, Held, Mine, OutcomeOf
<1>2. ASSUME IInv, IInv', RunStep(One)
      PROVE  Contract!ContractNext \/ UNCHANGED <<Held(One), OutcomeOf(One)>>
  <2> USE <1>2
  <2>1. /\ stage[One] \in Stages /\ stage'[One] \in Stages
        /\ stage' = [stage EXCEPT ![One] = stage'[One]]
    BY DEF IInv, TypeOK, RunStep, Progress, Snapshot, SetupFails, InstallStep, InstallFails,
           InstallInterrupted, BeginStop, Finish, SkipDone, UndoStep, UndoFails, UndoInterrupted,
           SecondPass, VerifyRestore, Expire, Die
  <2>2. CASE Quiet /\ Snapshot(One)
    BY <2>1, <2>2 DEF Quiet, Snapshot, Held, Mine, OutcomeOf, IInv, TypeOK,
                      Contract!ContractNext, Contract!Begin
  <2>3. CASE Quiet /\ (SetupFails(One) \/ InstallFails(One) \/ Finish(One))
    BY <2>1, <2>3 DEF Quiet, SetupFails, InstallFails, Finish, BeginStop, Held, Mine, OutcomeOf,
                      IInv, TypeOK, Contract!ContractNext, Contract!GiveBack
  <2>4. CASE Quiet /\ (SkipDone(One) \/ UndoFails(One) \/ Expire(One) \/ SecondPass(One))
    BY <2>1, <2>4 DEF Quiet, SkipDone, UndoFails, Expire, SecondPass, Held, Mine, OutcomeOf,
                      IInv, TypeOK
  <2>5. CASE Quiet /\ VerifyRestore(One)
    <3>1. stage[One] = "cleanup" /\ stage'[One] \in {"verified", "failed"} /\ kernel' = kernel
      BY <2>5 DEF VerifyRestore, Quiet, IInv, TypeOK
    <3>2. Held(One)' = Held(One)
      BY <3>1 DEF Held, Mine
    <3>3. stage'[One] = "verified" => Held(One) \subseteq InertObject
      <4>1. VerifiedInert'
        BY IInvVerifiedInert, PTL
      <4>2. QED
        BY <3>1, <4>1 DEF VerifiedInert, Held, Mine, InertObject, IInv, TypeOK, Entry
    <3>4. QED
      BY <3>1, <3>2, <3>3 DEF OutcomeOf, Contract!ContractNext, Contract!Certify, Contract!Admit
  <2>6. CASE Quiet /\ Die(One)
    BY <2>1, <2>6 DEF Quiet, Die, Finished, Stages, Held, Mine, OutcomeOf, IInv, TypeOK,
                      Contract!ContractNext, Contract!Admit
  <2>7. CASE InstallStep(One) \/ InstallInterrupted(One)
    <3> DEFINE i == Len(undo[One]) + 1
    <3>1. /\ stage[One] = "setup" /\ stage'[One] \in {"setup", "active", "stop"}
          /\ i \in PlanSteps(One) /\ kernel' = kernel \cup {[obj |-> Plan(One)[i], by |-> One]}
      BY <2>7 DEF InstallStep, InstallInterrupted, BeginStop, Owned, IInv, TypeOK
    <3>2. Plan(One)[i] \in Object
      BY <3>1, PlanFacts
    <3>3. Held(One)' = Held(One) \cup {Plan(One)[i]}
      <4>1. Mine(One)' = Mine(One) \cup {[obj |-> Plan(One)[i], by |-> One]}
        BY <3>1 DEF Mine
      <4> DEFINE new == [obj |-> Plan(One)[i], by |-> One]
      <4>2. new.obj = Plan(One)[i]
        OBVIOUS
      <4> HIDE DEF new
      <4>3. Mine(One)' = Mine(One) \cup {new}
        BY <4>1 DEF new
      <4>4. Held(One)' = {e.obj : e \in Mine(One)'}
        BY DEF Held
      <4>5. QED
        BY <4>2, <4>3, <4>4 DEF Held
    <3>4. Held(One)' \in SUBSET Object
      BY DEF Held, Mine, IInv, TypeOK, Entry
    <3>5. Held(One) \subseteq Held(One)'
      BY <3>3
    <3>6. OutcomeOf(One) = "changing" /\ OutcomeOf(One)' \in {"changing", "restoring"}
      BY <3>1 DEF OutcomeOf
    <3>7. QED
      BY <3>4, <3>5, <3>6 DEF Contract!ContractNext, Contract!Acquire
  <2>8. CASE UndoStep(One) \/ UndoInterrupted(One)
    <3>0. stage[One] \in {"stop", "cleanup"} /\ stage' = stage
      BY <2>8 DEF UndoStep, UndoInterrupted, Restoring
    <3>1. PICK e \in kernel : e.obj = AtCursor(One) /\ kernel' = kernel \ {e}
      BY <2>8 DEF UndoStep, UndoInterrupted
    <3>2. Mine(One)' \subseteq Mine(One)
      BY <3>1 DEF Mine
    <3>3. Held(One)' \in SUBSET Held(One)
      BY <3>2 DEF Held
    <3>4. OutcomeOf(One)' = OutcomeOf(One) /\ OutcomeOf(One) # "idle"
      BY <3>0 DEF OutcomeOf
    <3>5. QED
      BY <3>3, <3>4 DEF Contract!ContractNext, Contract!Release
  <2>9. QED
    BY <2>2, <2>3, <2>4, <2>5, <2>6, <2>7, <2>8, QuietSteps DEF RunStep, Progress
<1>3. ASSUME IInv, IInv', [Next]_vars
      PROVE  Contract!ContractNext \/ UNCHANGED <<Held(One), OutcomeOf(One)>>
  <2>1. CASE RunStep(One)
    BY <1>2, <1>3, <2>1
  <2>2. CASE \E q \in Run \ {One} : RunStep(q)
    <3>1. Mine(One)' \subseteq Mine(One) /\ stage'[One] = stage[One]
      BY <1>3, <2>2, OthersOnlyTake
    <3>2. Held(One)' \in SUBSET Held(One) /\ OutcomeOf(One)' = OutcomeOf(One)
      BY <3>1 DEF Held, OutcomeOf
    <3>3. CASE stage[One] = "new"
      <4>1. Mine(One) = {}
        BY <1>3, <3>3, NewHoldsNothing
      <4>2. QED
        BY <3>1, <3>2, <4>1 DEF Held
    <3>4. CASE stage[One] # "new"
      <4>1. OutcomeOf(One) # "idle"
        BY <3>4 DEF OutcomeOf
      <4>2. QED
        BY <3>2, <4>1 DEF Contract!ContractNext, Contract!Release
    <3>5. QED
      BY <3>3, <3>4
  <2>3. CASE HostAdds \/ HostRemoves
    <3>1. Mine(One)' = Mine(One) /\ stage' = stage
      BY <2>3 DEF HostAdds, HostRemoves, Mine
    <3>2. QED
      BY <3>1 DEF Held, OutcomeOf
  <2>4. CASE UNCHANGED vars
    BY <2>4 DEF vars, Held, Mine, OutcomeOf
  <2>5. QED
    BY <1>3, <2>1, <2>2, <2>3, <2>4 DEF Next
<1>4. IInv /\ IInv' /\ [Next]_vars => [Contract!ContractNext]_(Contract!contractVars)
  BY <1>3 DEF Contract!contractVars
<1>5. QED
  BY <1>1, <1>4, NetfilterInvariant, PTL DEF Spec, ImplementsContract, Contract!ContractSpec
=============================================================================
