----------------------------- MODULE PlanProofs -----------------------------
(***************************************************************************)
(* Proofs about MatrixCommands, for any options of generate-matrix and any *)
(* matrix written by hand: what Generate refuses, what those that take its *)
(* matrix can rely on, and that the plan runs each repetition once.        *)
(***************************************************************************)
EXTENDS MatrixCommands, Sums, SequenceTheorems

-----------------------------------------------------------------------------
(* The plan.  What FlattenSeq makes of n pieces: s[i] is the number of     *)
(* elements in front of the i-th.                                          *)

Placing(seqs, n, flat, s) ==
  /\ \A i \in 1..n : s[i] \in Nat
  /\ \A i \in 1..n : \A j \in DOMAIN seqs[i] : s[i] + j \in DOMAIN flat /\ flat[s[i] + j] = seqs[i][j]
  /\ \A k \in DOMAIN flat : \E i \in 1..n : \E j \in DOMAIN seqs[i] : k = s[i] + j
  /\ \A i, m \in 1..n : i < m => s[i] + Len(seqs[i]) <= s[m]

Glued(seqs, n, F) == F = [i \in 1..n |-> IF i = 1 THEN seqs[i] ELSE F[i-1] \o seqs[i]]

LEMMA FlattenIsGlued ==
  ASSUME NEW seqs, Len(seqs) # 0
  PROVE  FlattenSeq(seqs) = (CHOOSE F : Glued(seqs, Len(seqs), F))[Len(seqs)]
BY DEF FlattenSeq, Glued

LEMMA GluedExists ==
  ASSUME NEW seqs, NEW n \in Nat
  PROVE  \E F : Glued(seqs, n, F)
<1> DEFINE Body(F, i) == IF i = 1 THEN seqs[i] ELSE F[i-1] \o seqs[i]
           P(m) == \E F : F = [i \in 1..m |-> Body(F, i)]
           N == {m \in Nat : P(m)}
<1>1. 0 \in N
  <2> DEFINE F == [i \in 1..0 |-> 0]
  <2>1. F = [i \in 1..0 |-> Body(F, i)]
    OBVIOUS
  <2> HIDE DEF F
  <2> QED
    BY <2>1
<1>2. ASSUME NEW m \in Nat, m \in N PROVE m + 1 \in N
  <2>1. PICK F : F = [i \in 1..m |-> Body(F, i)]
    BY <1>2
  <2> DEFINE H == [i \in 1..m+1 |-> Body(F, i)]
  <2>2. ASSUME NEW i \in 1..m+1 PROVE Body(F, i) = Body(H, i)
    <3>1. CASE i = 1
      BY <3>1
    <3>2. CASE i # 1
      <4>1. i - 1 \in 1..m /\ i - 1 \in 1..m+1
        BY <3>2
      <4>2. F[i-1] = Body(F, i-1) /\ H[i-1] = Body(F, i-1)
        BY <2>1, <4>1
      <4> QED
        BY <3>2, <4>2
    <3> QED
      BY <3>1, <3>2
  <2>3. H = [i \in 1..m+1 |-> Body(H, i)]
    BY <2>2
  <2> HIDE DEF H
  <2>4. P(m + 1)
    BY <2>3
  <2> HIDE DEF P
  <2> QED
    BY <2>4
<1> HIDE DEF N
<1>3. n \in N
  BY <1>1, <1>2, AllNaturals
<1>4. PICK F : F = [i \in 1..n |-> Body(F, i)]
  BY <1>3 DEF N
<1> QED
  BY <1>4 DEF Glued

(* Another piece goes behind what there is.                                *)
LEMMA PlacingGrows ==
  ASSUME NEW T, NEW n \in Nat, NEW seqs, \A i \in 1..n+1 : seqs[i] \in Seq(T),
         NEW flat \in Seq(T), NEW s, Placing(seqs, n, flat, s),
         \A i \in 1..n : s[i] + Len(seqs[i]) <= Len(flat),
         s[n+1] = Len(flat)
  PROVE  /\ flat \o seqs[n+1] \in Seq(T)
         /\ Placing(seqs, n + 1, flat \o seqs[n+1], s)
         /\ \A i \in 1..n+1 : s[i] + Len(seqs[i]) <= Len(flat \o seqs[n+1])
         /\ Len(flat \o seqs[n+1]) = s[n+1] + Len(seqs[n+1])
<1> DEFINE piece == seqs[n+1]
           next == flat \o piece
<1>1. n + 1 \in 1..n+1 /\ piece \in Seq(T) /\ Len(flat) \in Nat /\ Len(piece) \in Nat
  OBVIOUS
<1>2. /\ next \in Seq(T) /\ Len(next) = Len(flat) + Len(piece)
      /\ \A i \in 1 .. Len(flat) + Len(piece) :
           next[i] = IF i <= Len(flat) THEN flat[i] ELSE piece[i - Len(flat)]
  BY <1>1, ConcatProperties
<1>3. DOMAIN next = 1 .. Len(flat) + Len(piece) /\ DOMAIN flat = 1 .. Len(flat)
      /\ DOMAIN piece = 1 .. Len(piece)
  BY <1>1, <1>2
<1>4. \A i \in 1..n+1 : i \in 1..n \/ i = n + 1
  OBVIOUS
<1>5. \A i \in 1..n+1 : Len(seqs[i]) \in Nat /\ DOMAIN seqs[i] = 1 .. Len(seqs[i])
  OBVIOUS
<1> HIDE DEF next
<1>6. \A i \in 1..n+1 : s[i] \in Nat
  BY <1>1, <1>4 DEF Placing
<1>7. ASSUME NEW i \in 1..n+1, NEW j \in DOMAIN seqs[i]
      PROVE  s[i] + j \in DOMAIN next /\ next[s[i] + j] = seqs[i][j]
  <2>1. CASE i \in 1..n
    <3>1. s[i] + j \in DOMAIN flat /\ flat[s[i] + j] = seqs[i][j]
      BY <1>7, <2>1 DEF Placing
    <3>2. s[i] + j \in 1 .. Len(flat) + Len(piece) /\ s[i] + j <= Len(flat)
      BY <1>1, <1>3, <3>1
    <3> QED
      BY <1>2, <1>3, <3>1, <3>2
  <2>2. CASE i = n + 1
    <3>1. j \in 1 .. Len(piece) /\ s[i] = Len(flat)
      BY <1>3, <1>7, <2>2
    <3>2. s[i] + j \in 1 .. Len(flat) + Len(piece) /\ ~(s[i] + j <= Len(flat))
          /\ (s[i] + j) - Len(flat) = j
      BY <1>1, <3>1
    <3> QED
      BY <1>2, <1>3, <2>2, <3>2
  <2> QED
    BY <1>4, <2>1, <2>2
<1>8. ASSUME NEW k \in DOMAIN next PROVE \E i \in 1..n+1 : \E j \in DOMAIN seqs[i] : k = s[i] + j
  <2>1. CASE k <= Len(flat)
    <3>1. k \in DOMAIN flat
      BY <1>1, <1>3, <2>1
    <3>2. PICK i \in 1..n : \E j \in DOMAIN seqs[i] : k = s[i] + j
      BY <3>1 DEF Placing
    <3>3. i \in 1..n+1
      OBVIOUS
    <3> QED
      BY <3>2, <3>3
  <2>2. CASE ~(k <= Len(flat))
    <3>1. k - Len(flat) \in DOMAIN piece /\ k = s[n+1] + (k - Len(flat))
      BY <1>1, <1>3, <2>2
    <3> QED
      BY <1>1, <3>1
  <2> QED
    BY <2>1, <2>2
<1>9. ASSUME NEW i \in 1..n+1, NEW m \in 1..n+1, i < m PROVE s[i] + Len(seqs[i]) <= s[m]
  <2>1. CASE m \in 1..n
    BY <1>9, <2>1 DEF Placing
  <2>2. CASE m = n + 1
    BY <1>9, <2>2
  <2> QED
    BY <1>4, <2>1, <2>2
<1>10. \A i \in 1..n+1 : s[i] + Len(seqs[i]) <= Len(next)
  <2>1. \A i \in 1..n : s[i] + Len(seqs[i]) <= Len(flat)
    OBVIOUS
  <2>2. \A i \in 1..n : i \in 1..n+1
    OBVIOUS
  <2> QED
    BY <1>1, <1>2, <1>4, <1>5, <1>6, <2>1, <2>2
<1> QED
  BY <1>2, <1>6, <1>7, <1>8, <1>9, <1>10 DEF Placing, next

LEMMA Flattened ==
  ASSUME NEW T, NEW n \in Nat, NEW seqs \in [1..n -> Seq(T)]
  PROVE  FlattenSeq(seqs) \in Seq(T) /\ \E s : Placing(seqs, n, FlattenSeq(seqs), s)
<1>1. Len(seqs) = n
  OBVIOUS
<1>2. CASE n = 0
  <2>1. FlattenSeq(seqs) = seqs /\ seqs \in Seq(T) /\ DOMAIN seqs = {}
    BY <1>1, <1>2 DEF FlattenSeq
  <2>2. Placing(seqs, n, seqs, seqs)
    BY <1>2, <2>1 DEF Placing
  <2> QED
    BY <2>1, <2>2
<1>3. CASE n # 0
  <2>1. PICK F : Glued(seqs, n, F) /\ FlattenSeq(seqs) = F[n]
    BY <1>1, <1>3, FlattenIsGlued, GluedExists
  <2> DEFINE s == [i \in 1..n |-> IF i = 1 THEN 0 ELSE Len(F[i-1])]
             P(i) == /\ F[i] \in Seq(T)
                     /\ Placing(seqs, i, F[i], s)
                     /\ \A m \in 1..i : s[m] + Len(seqs[m]) <= Len(F[i])
             G == {i \in Nat : i + 1 \in 1..n => P(i + 1)}
  <2>2. 0 \in G
    <3>1. F[1] = seqs[1] /\ s[1] = 0 /\ seqs[1] \in Seq(T)
      BY <1>3, <2>1 DEF Glued
    <3> HIDE DEF s
    <3>2. Placing(seqs, 1, seqs[1], s)
      BY <3>1 DEF Placing
    <3>3. P(1)
      BY <3>1, <3>2
    <3> QED
      BY <3>3
  <2>3. ASSUME NEW i \in Nat, i \in G PROVE i + 1 \in G
    <3> HIDE DEF P
    <3> SUFFICES ASSUME (i + 1) + 1 \in 1..n PROVE P((i + 1) + 1)
      OBVIOUS
    <3> DEFINE k == i + 1
    <3>1. k \in Nat /\ k \in 1..n /\ k + 1 \in 1..n /\ k + 1 # 1 /\ (k + 1) - 1 = k
      OBVIOUS
    <3>2. P(k)
      BY <2>3, <3>1
    <3> SUFFICES P(k + 1)
      OBVIOUS
    <3> HIDE DEF k
    <3> USE DEF P
    <3>3. F[k + 1] = F[k] \o seqs[k + 1] /\ s[k + 1] = Len(F[k])
      BY <2>1, <3>1 DEF Glued
    <3>4. \A m \in 1..k+1 : seqs[m] \in Seq(T)
      BY <3>1
    <3> HIDE DEF s
    <3>5. /\ F[k] \o seqs[k+1] \in Seq(T)
          /\ Placing(seqs, k + 1, F[k] \o seqs[k+1], s)
          /\ \A m \in 1..k+1 : s[m] + Len(seqs[m]) <= Len(F[k] \o seqs[k+1])
      BY <3>1, <3>2, <3>3, <3>4, PlacingGrows
    <3> QED
      BY <3>1, <3>3, <3>5
  <2> HIDE DEF G
  <2>4. n - 1 \in G
    <3>1. \A i \in Nat : i \in G
      BY <2>2, <2>3, AllNaturals
    <3>2. n - 1 \in Nat
      BY <1>3
    <3> QED
      BY <3>1, <3>2
  <2>5. P(n)
    BY <1>3, <2>4 DEF G
  <2> HIDE DEF s
  <2> QED
    BY <2>1, <2>5
<1> QED
  BY <1>2, <1>3

(* There are enough blocks for every case, and no more.                    *)
LEMMA EnoughBlocks ==
  ASSUME NEW Ids, IsFiniteSet(Ids), NEW warmups \in [Ids -> Nat], NEW repetitions \in [Ids -> Nat]
  PROVE  /\ Blocks(warmups, repetitions) \in Nat
         /\ \A c \in Ids : Repetitions(warmups, repetitions, c) <= Blocks(warmups, repetitions)
<1> DEFINE R(c) == Repetitions(warmups, repetitions, c)
           S == {0} \cup {R(c) : c \in Ids}
           G == {D \in SUBSET Ids : \E n \in Nat : \A c \in D : R(c) <= n}
           Bounds == {n \in Nat : \A m \in S : m <= n}
<1>1. \A c \in Ids : R(c) \in Nat
  BY DEF Repetitions
<1>2. \E n \in Nat : \A c \in Ids : R(c) <= n
  <2>1. {} \in G
    OBVIOUS
  <2>2. ASSUME NEW D \in SUBSET Ids, D # {}, D \ {Pick(D)} \in G PROVE D \in G
    <3>1. PICK n \in Nat : \A c \in D \ {Pick(D)} : R(c) <= n
      BY <2>2
    <3>2. Pick(D) \in Ids /\ R(Pick(D)) \in Nat
      BY <1>1, <2>2, Picked
    <3> HIDE DEF R
    <3>3. n + R(Pick(D)) \in Nat /\ \A c \in D : R(c) <= n + R(Pick(D))
      BY <1>1, <3>1, <3>2
    <3> QED
      BY <3>3
  <2> HIDE DEF G
  <2>3. Ids \in G
    BY <2>1, <2>2, AllSubsets
  <2> QED
    BY <2>3 DEF G
<1> HIDE DEF R
<1>3. Bounds \in SUBSET Nat /\ Bounds # {} /\ S \subseteq Nat /\ 0 \in S
  <2>1. PICK n \in Nat : \A c \in Ids : R(c) <= n
    BY <1>2
  <2>2. \A m \in S : m <= n
    BY <2>1
  <2>3. n \in Bounds
    BY <2>2
  <2> QED
    BY <1>1, <2>3
<1>4. PICK n \in Bounds : \A m \in Bounds : n <= m
  BY <1>3, LeastNatural
<1>5. n \in S
  <2> SUFFICES ASSUME n \notin S PROVE FALSE
    OBVIOUS
  <2>1. n \in Nat /\ n # 0 /\ \A m \in S : m <= n /\ m # n
    BY <1>3, <1>4
  <2>2. n - 1 \in Nat /\ \A m \in S : m <= n - 1
    BY <1>3, <2>1
  <2>3. n - 1 \in Bounds
    BY <2>2
  <2> QED
    BY <1>4, <2>1, <2>3
<1>6. \A m \in S : n >= m
  BY <1>3, <1>4
<1> HIDE DEF S, Bounds
<1>7. Max(S) \in S /\ \A m \in S : Max(S) >= m
  BY <1>5, <1>6 DEF Max
<1>8. Blocks(warmups, repetitions) = Max(S)
  BY DEF Blocks, S, R
<1>9. \A c \in Ids : R(c) \in S
  BY DEF S
<1> QED
  BY <1>1, <1>3, <1>7, <1>8, <1>9 DEF R

LEMMA CaseJobFields ==
  ASSUME NEW warmups, NEW c, NEW b
  PROVE  /\ CaseJob(warmups, c, b).case = c
         /\ CaseJob(warmups, c, b).block = b
         /\ CaseJob(warmups, c, b).control = ""
BY DEF CaseJob

PlannedJob(Ids) ==
  [case : Ids \cup {"raw-control"}, block : Nat, control : {"", "before", "after"}, warmup : BOOLEAN]

LEMMA JobTypes ==
  ASSUME NEW Ids, NEW warmups \in [Ids -> Nat], NEW b \in Nat
  PROVE  /\ \A c \in Ids : /\ CaseJob(warmups, c, b) \in PlannedJob(Ids)
                             /\ CaseJob(warmups, c, b).case = c
                             /\ CaseJob(warmups, c, b).block = b
                             /\ CaseJob(warmups, c, b).control = ""
         /\ \A p \in {"before", "after"} : /\ ControlJob(b, p) \in PlannedJob(Ids)
                                           /\ ControlJob(b, p).block = b
                                           /\ ControlJob(b, p).control = p
BY DEF CaseJob, ControlJob, PlannedJob

(* An order of the cases, as a sort gives it: each of them once. *)
Ordering(o, Ids) ==
  /\ o \in Seq(Ids) /\ IsInjective(o)
  /\ \A c \in Ids : \E i \in DOMAIN o : o[i] = c

Due(warmups, repetitions, c, b) == b < Repetitions(warmups, repetitions, c)

(* In a block stands each case once that has a repetition left. *)
CasesOnce(Ids, warmups, repetitions, b, jobs) ==
  /\ \A k \in DOMAIN jobs : jobs[k].control = "" =>
       \E c \in Ids : Due(warmups, repetitions, c, b) /\ jobs[k] = CaseJob(warmups, c, b)
  /\ \A k, l \in DOMAIN jobs :
       jobs[k].control = "" /\ jobs[l].control = "" /\ jobs[k].case = jobs[l].case => k = l
  /\ \A c \in Ids : Due(warmups, repetitions, c, b) =>
       \E k \in DOMAIN jobs : jobs[k] = CaseJob(warmups, c, b)

NoControls(jobs) == \A k \in DOMAIN jobs : jobs[k].control = ""

LEMMA CasesOfBlock ==
  ASSUME NEW Ids, NEW warmups \in [Ids -> Nat], NEW repetitions \in [Ids -> Nat],
         NEW o, Ordering(o, Ids), NEW b \in Nat
  PROVE  /\ CaseJobs(warmups, repetitions, o, b) \in Seq(PlannedJob(Ids))
         /\ NoControls(CaseJobs(warmups, repetitions, o, b))
         /\ CasesOnce(Ids, warmups, repetitions, b, CaseJobs(warmups, repetitions, o, b))
<1> DEFINE seqs == [i \in DOMAIN o |-> IF b < Repetitions(warmups, repetitions, o[i])
                                       THEN <<CaseJob(warmups, o[i], b)>> ELSE <<>>]
           jobs == CaseJobs(warmups, repetitions, o, b)
           n == Len(o)
<1>1. n \in Nat /\ DOMAIN o = 1..n /\ \A i \in 1..n : o[i] \in Ids
  BY DEF Ordering
<1>2. \A i \in 1..n : CaseJob(warmups, o[i], b) \in PlannedJob(Ids)
  BY <1>1, JobTypes
<1>3. ASSUME NEW i \in 1..n
      PROVE  /\ seqs[i] \in Seq(PlannedJob(Ids))
             /\ Due(warmups, repetitions, o[i], b) =>
                  DOMAIN seqs[i] = {1} /\ seqs[i][1] = CaseJob(warmups, o[i], b)
             /\ ~Due(warmups, repetitions, o[i], b) => DOMAIN seqs[i] = {}
  <2>1. seqs[i] = IF b < Repetitions(warmups, repetitions, o[i])
                  THEN <<CaseJob(warmups, o[i], b)>> ELSE <<>>
    BY <1>1
  <2>2. CaseJob(warmups, o[i], b) \in PlannedJob(Ids)
    BY <1>2
  <2> HIDE DEF seqs
  <2>3. CASE Due(warmups, repetitions, o[i], b)
    <3>1. seqs[i] = <<CaseJob(warmups, o[i], b)>>
      BY <2>1, <2>3 DEF Due
    <3> QED
      BY <2>2, <2>3, <3>1
  <2>4. CASE ~Due(warmups, repetitions, o[i], b)
    <3>1. seqs[i] = <<>>
      BY <2>1, <2>4 DEF Due
    <3> QED
      BY <2>4, <3>1
  <2> QED
    BY <2>3, <2>4
<1>4. seqs \in [1..n -> Seq(PlannedJob(Ids))]
  BY <1>1, <1>3
<1>5. jobs = FlattenSeq(seqs)
  BY DEF CaseJobs
<1> HIDE DEF seqs, jobs, n
<1>6. jobs \in Seq(PlannedJob(Ids))
  BY <1>1, <1>4, <1>5, Flattened
<1>7. PICK s : Placing(seqs, n, jobs, s)
  BY <1>1, <1>4, <1>5, Flattened
<1>8. ASSUME NEW k \in DOMAIN jobs
      PROVE  \E i \in 1..n : /\ Due(warmups, repetitions, o[i], b)
                             /\ k = s[i] + 1 /\ jobs[k] = CaseJob(warmups, o[i], b)
  <2>a. PICK i \in 1..n : \E j \in DOMAIN seqs[i] : k = s[i] + j
    BY <1>7 DEF Placing
  <2>1. PICK j \in DOMAIN seqs[i] : k = s[i] + j
    BY <2>a
  <2>2. Due(warmups, repetitions, o[i], b) /\ j = 1 /\ seqs[i][1] = CaseJob(warmups, o[i], b)
    BY <1>3, <2>1
  <2>3. jobs[k] = seqs[i][j]
    BY <1>7, <2>1 DEF Placing
  <2> QED
    BY <2>1, <2>2, <2>3
<1>a. \A i : /\ CaseJob(warmups, o[i], b).control = ""
             /\ CaseJob(warmups, o[i], b).case = o[i]
  BY DEF CaseJob
<1>9. ASSUME NEW k \in DOMAIN jobs PROVE jobs[k].control = ""
  <2>1. PICK i \in 1..n : jobs[k] = CaseJob(warmups, o[i], b)
    BY <1>8
  <2> QED
    BY <1>a, <2>1
<1>10. ASSUME NEW k \in DOMAIN jobs, NEW l \in DOMAIN jobs, jobs[k].case = jobs[l].case
       PROVE  k = l
  <2>1. PICK i \in 1..n : k = s[i] + 1 /\ jobs[k] = CaseJob(warmups, o[i], b)
    BY <1>8
  <2>2. PICK m \in 1..n : l = s[m] + 1 /\ jobs[l] = CaseJob(warmups, o[m], b)
    BY <1>8
  <2>3. o[i] = o[m]
    <3>1. jobs[k].case = o[i] /\ jobs[l].case = o[m]
      BY <1>a, <2>1, <2>2
    <3> QED
      BY <1>10, <3>1
  <2>4. i = m
    BY <1>1, <2>3 DEF Ordering, IsInjective
  <2> QED
    BY <2>1, <2>2, <2>4
<1>11. ASSUME NEW c \in Ids, Due(warmups, repetitions, c, b)
       PROVE  \E k \in DOMAIN jobs : jobs[k] = CaseJob(warmups, c, b)
  <2>1. PICK i \in 1..n : o[i] = c
    BY <1>1 DEF Ordering
  <2>2. 1 \in DOMAIN seqs[i] /\ seqs[i][1] = CaseJob(warmups, c, b)
    BY <1>3, <1>11, <2>1
  <2>3. s[i] + 1 \in DOMAIN jobs /\ jobs[s[i] + 1] = CaseJob(warmups, c, b)
    BY <1>7, <2>2 DEF Placing
  <2> QED
    BY <2>3
<1>12. ASSUME NEW k \in DOMAIN jobs
       PROVE  \E c \in Ids : Due(warmups, repetitions, c, b) /\ jobs[k] = CaseJob(warmups, c, b)
  BY <1>1, <1>8
<1>13. CasesOnce(Ids, warmups, repetitions, b, jobs)
  BY <1>10, <1>11, <1>12 DEF CasesOnce
<1>14. NoControls(jobs)
  BY <1>9 DEF NoControls
<1> QED
  BY <1>6, <1>13, <1>14 DEF jobs

(* A block: its cases once, between its controls.                          *)
CasesInside(hasControl, b, jobs) ==
  /\ \A k \in DOMAIN jobs : jobs[k].block = b
  /\ \A k, l \in DOMAIN jobs : k < l => jobs[k].control # "after" /\ jobs[l].control # "before"
  /\ hasControl => \A k \in DOMAIN jobs : jobs[k].control = "" => 1 < k /\ k < Len(jobs)

LEMMA ShapeOfBlock ==
  ASSUME NEW Ids, NEW warmups \in [Ids -> Nat], NEW repetitions \in [Ids -> Nat],
         NEW hasControl \in BOOLEAN, NEW o, Ordering(o, Ids), NEW b \in Nat
  PROVE  /\ Block(warmups, repetitions, hasControl, o, b) \in Seq(PlannedJob(Ids))
         /\ CasesOnce(Ids, warmups, repetitions, b, Block(warmups, repetitions, hasControl, o, b))
         /\ CasesInside(hasControl, b, Block(warmups, repetitions, hasControl, o, b))
<1> DEFINE cases == CaseJobs(warmups, repetitions, o, b)
           jobs == Block(warmups, repetitions, hasControl, o, b)
           n == Len(cases)
<1>1. /\ cases \in Seq(PlannedJob(Ids)) /\ CasesOnce(Ids, warmups, repetitions, b, cases)
      /\ NoControls(cases)
  BY CasesOfBlock
<1>2. ASSUME NEW k \in DOMAIN cases PROVE cases[k].block = b /\ cases[k].control = ""
  <2> HIDE DEF cases
  <2>1. cases[k].control = ""
    BY <1>1 DEF NoControls
  <2>2. PICK c \in Ids : cases[k] = CaseJob(warmups, c, b)
    BY <1>1, <2>1 DEF CasesOnce
  <2>3. CaseJob(warmups, c, b).block = b
    BY DEF CaseJob
  <2> QED
    BY <2>1, <2>2, <2>3
<1>3. CASE ~hasControl
  <2>1. jobs = cases
    <3>1. jobs = <<>> \o cases \o <<>>
      BY <1>3 DEF Block
    <3> HIDE DEF jobs, cases
    <3>2. <<>> \o cases = cases /\ cases \o <<>> = cases
      BY <1>1, ConcatEmptySeq
    <3> QED
      BY <3>1, <3>2
  <2> HIDE DEF jobs, cases
  <2>2. CasesInside(hasControl, b, jobs)
    BY <1>1, <1>2, <1>3, <2>1 DEF CasesInside
  <2> QED
    BY <1>1, <2>1, <2>2 DEF jobs
<1>4. CASE hasControl
  <2> DEFINE before == ControlJob(b, "before")
             after == ControlJob(b, "after")
             front == <<before>> \o cases
  <2>1. jobs = front \o <<after>>
    BY <1>4 DEF Block
  <2>2. /\ before \in PlannedJob(Ids) /\ before.control = "before" /\ before.block = b
        /\ after \in PlannedJob(Ids) /\ after.control = "after" /\ after.block = b
    BY JobTypes
  <2>3. <<before>> \in Seq(PlannedJob(Ids)) /\ Len(<<before>>) = 1 /\ <<before>>[1] = before
        /\ <<after>> \in Seq(PlannedJob(Ids)) /\ Len(<<after>>) = 1 /\ <<after>>[1] = after
    BY <2>2
  <2> HIDE DEF jobs, cases, before, after
  <2>4. n \in Nat /\ DOMAIN cases = 1..n
    BY <1>1, LenProperties
  <2>5. /\ front \in Seq(PlannedJob(Ids)) /\ Len(front) = 1 + n
        /\ \A i \in 1 .. 1 + n : front[i] = IF i <= 1 THEN <<before>>[i] ELSE cases[i - 1]
    BY <1>1, <2>3, ConcatProperties
  <2> HIDE DEF n, front
  <2>6. /\ jobs \in Seq(PlannedJob(Ids)) /\ Len(jobs) = (1 + n) + 1
        /\ \A i \in 1 .. (1 + n) + 1 : jobs[i] = IF i <= 1 + n THEN front[i] ELSE <<after>>[i - (1 + n)]
    BY <2>1, <2>3, <2>5, ConcatProperties
  <2>7. /\ DOMAIN jobs = 1 .. n + 2 /\ Len(jobs) = n + 2
        /\ jobs[1] = before /\ jobs[n + 2] = after
        /\ \A i \in 1..n : jobs[i + 1] = cases[i]
    <3>1. DOMAIN jobs = 1 .. n + 2 /\ Len(jobs) = n + 2
      BY <2>4, <2>6
    <3>2. jobs[1] = before
      <4>1. 1 \in 1 .. (1 + n) + 1 /\ 1 \in 1 .. 1 + n /\ 1 <= 1 + n /\ 1 <= 1
        BY <2>4
      <4>2. jobs[1] = front[1] /\ front[1] = <<before>>[1]
        BY <2>5, <2>6, <4>1
      <4> QED
        BY <2>3, <4>2
    <3>3. jobs[n + 2] = after
      <4>1. n + 2 \in 1 .. (1 + n) + 1 /\ ~(n + 2 <= 1 + n) /\ (n + 2) - (1 + n) = 1
        BY <2>4
      <4> QED
        BY <2>3, <2>6, <4>1
    <3>4. ASSUME NEW i \in 1..n PROVE jobs[i + 1] = cases[i]
      <4>1. /\ i + 1 \in 1 .. (1 + n) + 1 /\ i + 1 \in 1 .. 1 + n /\ i + 1 <= 1 + n /\ ~(i + 1 <= 1)
            /\ (i + 1) - 1 = i
        BY <2>4
      <4> QED
        BY <2>5, <2>6, <4>1
    <3> QED
      BY <3>1, <3>2, <3>3, <3>4
  <2>8. ASSUME NEW k \in 1 .. n + 2
        PROVE  \/ k = 1 /\ jobs[k] = before
               \/ k = n + 2 /\ jobs[k] = after
               \/ k - 1 \in 1..n /\ jobs[k] = cases[k - 1] /\ 1 < k /\ k < n + 2
    <3>1. CASE k # 1 /\ k # n + 2
      <4>1. k - 1 \in 1..n /\ (k - 1) + 1 = k /\ 1 < k /\ k < n + 2
        BY <2>4, <3>1
      <4> QED
        BY <2>7, <4>1
    <3> QED
      BY <2>7, <3>1
  <2>9. ASSUME NEW k \in DOMAIN jobs, jobs[k].control = ""
        PROVE  k - 1 \in DOMAIN cases /\ jobs[k] = cases[k - 1] /\ 1 < k /\ k < Len(jobs) /\ k \in Int
    <3>1. k \in 1 .. n + 2 /\ k # 1 /\ k # n + 2
      BY <2>2, <2>7, <2>9
    <3> QED
      BY <2>4, <2>7, <2>8, <3>1
  <2>10. ASSUME NEW k \in DOMAIN jobs
         PROVE  /\ jobs[k].block = b
                /\ jobs[k].control = "before" => k = 1
                /\ jobs[k].control = "after" => k = n + 2
    <3>1. CASE k = 1 \/ k = n + 2
      BY <2>2, <2>7, <3>1
    <3>2. CASE k # 1 /\ k # n + 2
      <4>1. k - 1 \in DOMAIN cases /\ jobs[k] = cases[k - 1]
        BY <2>4, <2>7, <2>8, <3>2
      <4> QED
        BY <1>2, <4>1
    <3> QED
      BY <3>1, <3>2
  <2>11. CasesInside(hasControl, b, jobs)
    <3>1. \A k, l \in DOMAIN jobs : k < l => jobs[k].control # "after" /\ jobs[l].control # "before"
      BY <2>4, <2>7, <2>10
    <3> QED
      BY <2>9, <2>10, <3>1 DEF CasesInside
  <2>12. CasesOnce(Ids, warmups, repetitions, b, jobs)
    <3>1. ASSUME NEW k \in DOMAIN jobs, jobs[k].control = ""
          PROVE  \E c \in Ids : Due(warmups, repetitions, c, b) /\ jobs[k] = CaseJob(warmups, c, b)
      <4>1. k - 1 \in DOMAIN cases /\ jobs[k] = cases[k - 1]
        BY <2>9, <3>1
      <4> QED
        BY <1>1, <3>1, <4>1 DEF CasesOnce
    <3>2. ASSUME NEW k \in DOMAIN jobs, NEW l \in DOMAIN jobs,
                 jobs[k].control = "", jobs[l].control = "", jobs[k].case = jobs[l].case
          PROVE  k = l
      <4>1. /\ k - 1 \in DOMAIN cases /\ jobs[k] = cases[k - 1] /\ k \in Int
            /\ l - 1 \in DOMAIN cases /\ jobs[l] = cases[l - 1] /\ l \in Int
        BY <2>9, <3>2
      <4>2. k - 1 = l - 1
        BY <1>1, <3>2, <4>1 DEF CasesOnce
      <4> QED
        BY <4>1, <4>2
    <3>3. ASSUME NEW c \in Ids, Due(warmups, repetitions, c, b)
          PROVE  \E k \in DOMAIN jobs : jobs[k] = CaseJob(warmups, c, b)
      <4>1. PICK i \in DOMAIN cases : cases[i] = CaseJob(warmups, c, b)
        BY <1>1, <3>3 DEF CasesOnce
      <4>2. i + 1 \in DOMAIN jobs /\ jobs[i + 1] = CaseJob(warmups, c, b)
        BY <2>4, <2>7, <4>1
      <4> QED
        BY <4>2
    <3> QED
      BY <3>1, <3>2, <3>3 DEF CasesOnce
  <2> QED
    BY <2>6, <2>11, <2>12 DEF jobs
<1> QED
  BY <1>3, <1>4

(* The jobs of all blocks: where each of them comes from.                  *)
LEMMA JobsInBlocks ==
  ASSUME NEW Ids, IsFiniteSet(Ids), NEW warmups \in [Ids -> Nat], NEW repetitions \in [Ids -> Nat],
         NEW hasControl \in BOOLEAN,
         NEW order, \A b \in Nat : b < Blocks(warmups, repetitions) => Ordering(order[b], Ids)
  PROVE  LET n == Blocks(warmups, repetitions)
             jobs == BuildMatrixState(warmups, repetitions, hasControl, order)
         IN  /\ n \in Nat /\ jobs \in Seq(PlannedJob(Ids))
             /\ \A c \in Ids : Repetitions(warmups, repetitions, c) <= n
             /\ \E seqs, s :
                  /\ Placing(seqs, n, jobs, s)
                  /\ \A i \in 1..n : /\ seqs[i] \in Seq(PlannedJob(Ids))
                                     /\ CasesOnce(Ids, warmups, repetitions, i - 1, seqs[i])
                                     /\ CasesInside(hasControl, i - 1, seqs[i])
<1> DEFINE n == Blocks(warmups, repetitions)
           jobs == BuildMatrixState(warmups, repetitions, hasControl, order)
           seqs == [i \in 1..n |-> Block(warmups, repetitions, hasControl, order[i - 1], i - 1)]
<1>1. n \in Nat /\ \A c \in Ids : Repetitions(warmups, repetitions, c) <= n
  BY EnoughBlocks
<1>2. jobs = FlattenSeq(seqs)
  BY DEF BuildMatrixState
<1> HIDE DEF n, jobs
<1>3. ASSUME NEW i \in 1..n
      PROVE  /\ seqs[i] \in Seq(PlannedJob(Ids))
             /\ CasesOnce(Ids, warmups, repetitions, i - 1, seqs[i])
             /\ CasesInside(hasControl, i - 1, seqs[i])
  <2> DEFINE b == i - 1
  <2>1. b \in Nat /\ b < n
    BY <1>1
  <2>2. Ordering(order[b], Ids)
    BY <2>1 DEF n
  <2>3. seqs[i] = Block(warmups, repetitions, hasControl, order[b], b)
    OBVIOUS
  <2> HIDE DEF b, seqs
  <2>4. /\ seqs[i] \in Seq(PlannedJob(Ids))
        /\ CasesOnce(Ids, warmups, repetitions, b, seqs[i])
        /\ CasesInside(hasControl, b, seqs[i])
    BY <2>1, <2>2, <2>3, ShapeOfBlock
  <2> QED
    BY <2>4 DEF b
<1>4. seqs \in [1..n -> Seq(PlannedJob(Ids))]
  <2>1. seqs = [i \in 1..n |-> seqs[i]]
    OBVIOUS
  <2> HIDE DEF seqs
  <2> QED
    BY <1>3, <2>1
<1> HIDE DEF seqs
<1>5. jobs \in Seq(PlannedJob(Ids)) /\ \E s : Placing(seqs, n, jobs, s)
  BY <1>1, <1>2, <1>4, Flattened
<1> QED
  BY <1>1, <1>3, <1>5 DEF n, jobs

LEMMA PathsDiffer ==
  ASSUME NEW x, NEW p, NEW q, NEW y, NEW r, NEW t, <<x, p, q>> = <<y, r, t>>
  PROVE  p = r /\ q = t
OBVIOUS

LEMMA NamesDiffer ==
  ASSUME NEW a \in Nat, NEW b \in Nat, NEW w \in Nat, RepetitionName(a, w) = RepetitionName(b, w)
  PROVE  a = b
<1>1. CASE a < w /\ b < w
  BY <1>1 DEF RepetitionName
<1>2. CASE ~(a < w) /\ ~(b < w)
  <2>1. RepetitionName(a, w) = <<"rep", a - w>> /\ RepetitionName(b, w) = <<"rep", b - w>>
    BY <1>2 DEF RepetitionName
  <2>2. a - w = b - w
    <3> DEFINE x == a - w
               y == b - w
    <3>1. <<"rep", x>> = <<"rep", y>>
      BY <2>1
    <3> HIDE DEF x, y
    <3>2. x = y
      BY <3>1
    <3> QED
      BY <3>2 DEF x, y
  <2> QED
    BY <2>2
<1>3. CASE (a < w) # (b < w)
  BY <1>3 DEF RepetitionName
<1> QED
  BY <1>1, <1>2, <1>3

LEMMA IndexOfControl ==
  ASSUME NEW job, job.control \in {"before", "after"}, job.block \in Nat
  PROVE  JobIndex(job) = job.block * 2 + (IF job.control = "before" THEN 0 ELSE 1)
<1>1. CASE job.control = "before"
  BY <1>1 DEF JobIndex
<1>2. CASE job.control = "after"
  BY <1>2 DEF JobIndex
<1> QED
  BY <1>1, <1>2

(* For any cases, with any numbers of warmups and repetitions and in any   *)
(* order for each block, buildMatrixState runs every repetition once, in   *)
(* its block and after the ones before it, with a result of its own, and   *)
(* with nothing but its own block between it and its raw controls.         *)
THEOREM PlanRunsEachRepetitionOnce ==
  ASSUME NEW Ids, IsFiniteSet(Ids), NEW warmups \in [Ids -> Nat], NEW repetitions \in [Ids -> Nat],
         NEW hasControl \in BOOLEAN,
         NEW order, \A b \in Nat : b < Blocks(warmups, repetitions) => Ordering(order[b], Ids)
  PROVE  EachRepetitionOnce(BuildMatrixState(warmups, repetitions, hasControl, order),
                            warmups, repetitions, hasControl)
<1> DEFINE n == Blocks(warmups, repetitions)
           jobs == BuildMatrixState(warmups, repetitions, hasControl, order)
<1>1. /\ n \in Nat /\ jobs \in Seq(PlannedJob(Ids))
      /\ \A c \in Ids : Repetitions(warmups, repetitions, c) <= n
      /\ \E seqs, s :
           /\ Placing(seqs, n, jobs, s)
           /\ \A i \in 1..n : /\ seqs[i] \in Seq(PlannedJob(Ids))
                              /\ CasesOnce(Ids, warmups, repetitions, i - 1, seqs[i])
                              /\ CasesInside(hasControl, i - 1, seqs[i])
  BY JobsInBlocks
<1> HIDE DEF n, jobs
<1>2. PICK seqs, s :
        /\ Placing(seqs, n, jobs, s)
        /\ \A i \in 1..n : /\ seqs[i] \in Seq(PlannedJob(Ids))
                           /\ CasesOnce(Ids, warmups, repetitions, i - 1, seqs[i])
                           /\ CasesInside(hasControl, i - 1, seqs[i])
  BY <1>1
<1>3. ASSUME NEW i \in 1..n, NEW j \in DOMAIN seqs[i]
      PROVE  /\ i \in Nat /\ s[i] \in Nat /\ Len(seqs[i]) \in Nat /\ j \in 1 .. Len(seqs[i])
             /\ s[i] + j \in DOMAIN jobs /\ jobs[s[i] + j] = seqs[i][j]
             /\ seqs[i][j].block = i - 1 /\ seqs[i][j] \in PlannedJob(Ids)
  <2>1. seqs[i] \in Seq(PlannedJob(Ids)) /\ CasesInside(hasControl, i - 1, seqs[i])
    BY <1>2
  <2>2. s[i] \in Nat /\ s[i] + j \in DOMAIN jobs /\ jobs[s[i] + j] = seqs[i][j]
    BY <1>2 DEF Placing
  <2>3. seqs[i][j].block = i - 1
    BY <2>1 DEF CasesInside
  <2>4. Len(seqs[i]) \in Nat /\ j \in 1 .. Len(seqs[i]) /\ seqs[i][j] \in PlannedJob(Ids)
    BY <2>1
  <2> QED
    BY <1>1, <2>2, <2>3, <2>4
<1>4. ASSUME NEW k \in DOMAIN jobs
      PROVE  \E i \in 1..n : \E j \in DOMAIN seqs[i] :
               k = s[i] + j /\ jobs[k] = seqs[i][j] /\ jobs[k].block = i - 1
  <2>a. PICK i \in 1..n : \E j \in DOMAIN seqs[i] : k = s[i] + j
    BY <1>2 DEF Placing
  <2>1. PICK j \in DOMAIN seqs[i] : k = s[i] + j
    BY <2>a
  <2> QED
    BY <1>3, <2>1
<1>5. ASSUME NEW i \in 1..n, NEW j \in DOMAIN seqs[i], NEW m \in 1..n, NEW q \in DOMAIN seqs[m],
             s[i] + j < s[m] + q
      PROVE  i < m \/ (i = m /\ j < q)
  <2>1. /\ i \in Nat /\ s[i] \in Nat /\ Len(seqs[i]) \in Nat /\ j \in 1 .. Len(seqs[i])
        /\ m \in Nat /\ s[m] \in Nat /\ Len(seqs[m]) \in Nat /\ q \in 1 .. Len(seqs[m])
    BY <1>3
  <2>2. m < i => s[m] + Len(seqs[m]) <= s[i]
    BY <1>2 DEF Placing
  <2>3. ~(m < i)
    BY <1>5, <2>1, <2>2
  <2>4. i = m => j < q
    BY <1>5, <2>1
  <2> QED
    BY <2>1, <2>3, <2>4
<1>6. ASSUME NEW k \in DOMAIN jobs, NEW l \in DOMAIN jobs, k < l, jobs[k].block = jobs[l].block
      PROVE  /\ jobs[k].control # "after" /\ jobs[l].control # "before"
             /\ jobs[k].control = "" /\ jobs[l].control = "" => jobs[k].case # jobs[l].case
  <2>1. PICK i \in 1..n : \E j \in DOMAIN seqs[i] :
               k = s[i] + j /\ jobs[k] = seqs[i][j] /\ jobs[k].block = i - 1
    BY <1>4
  <2>2. PICK j \in DOMAIN seqs[i] : k = s[i] + j /\ jobs[k] = seqs[i][j]
    BY <2>1
  <2>3. PICK m \in 1..n : \E q \in DOMAIN seqs[m] :
               l = s[m] + q /\ jobs[l] = seqs[m][q] /\ jobs[l].block = m - 1
    BY <1>4
  <2>4. PICK q \in DOMAIN seqs[m] : l = s[m] + q /\ jobs[l] = seqs[m][q]
    BY <2>3
  <2>5. i \in Nat /\ m \in Nat
    BY <1>1
  <2>6. i = m
    BY <1>6, <2>1, <2>3, <2>5
  <2>7. j < q /\ j \in Nat /\ q \in Nat
    <3>1. i < m \/ (i = m /\ j < q)
      BY <1>5, <1>6, <2>2, <2>4
    <3>2. j \in 1 .. Len(seqs[i]) /\ q \in 1 .. Len(seqs[m]) /\ Len(seqs[i]) \in Nat
      BY <1>3, <2>6
    <3> QED
      BY <2>5, <2>6, <3>1, <3>2
  <2>8. CasesInside(hasControl, i - 1, seqs[i]) /\ CasesOnce(Ids, warmups, repetitions, i - 1, seqs[i])
    BY <1>2
  <2>9. seqs[i][j].control # "after" /\ seqs[i][q].control # "before"
    BY <2>6, <2>7, <2>8 DEF CasesInside
  <2>10. seqs[i][j].control = "" /\ seqs[i][q].control = "" => seqs[i][j].case # seqs[i][q].case
    <3>1. j \in DOMAIN seqs[i] /\ q \in DOMAIN seqs[i] /\ j # q
      BY <2>6, <2>7
    <3> QED
      BY <2>8, <3>1 DEF CasesOnce
  <2> QED
    BY <2>2, <2>4, <2>6, <2>9, <2>10
<1>7. ASSUME NEW k \in DOMAIN jobs, NEW l \in DOMAIN jobs, k < l
      PROVE  jobs[k].block \in Nat /\ jobs[l].block \in Nat /\ jobs[k].block <= jobs[l].block
  <2>a. PICK i \in 1..n : \E j \in DOMAIN seqs[i] : k = s[i] + j /\ jobs[k].block = i - 1
    BY <1>4
  <2>1. PICK j \in DOMAIN seqs[i] : k = s[i] + j /\ jobs[k].block = i - 1
    BY <2>a
  <2>b. PICK m \in 1..n : \E q \in DOMAIN seqs[m] : l = s[m] + q /\ jobs[l].block = m - 1
    BY <1>4
  <2>2. PICK q \in DOMAIN seqs[m] : l = s[m] + q /\ jobs[l].block = m - 1
    BY <2>b
  <2>3. i < m \/ i = m
    BY <1>5, <1>7, <2>1, <2>2
  <2> QED
    BY <1>1, <2>1, <2>2, <2>3
<1>8. DOMAIN jobs = 1 .. Len(jobs) /\ Len(jobs) \in Nat /\ \A k \in DOMAIN jobs : jobs[k] \in PlannedJob(Ids)
  BY <1>1
<1>9. ASSUME NEW k \in DOMAIN jobs, jobs[k].control = ""
      PROVE  /\ jobs[k].case \in Ids /\ jobs[k].block \in Nat
             /\ Due(warmups, repetitions, jobs[k].case, jobs[k].block)
             /\ jobs[k] = CaseJob(warmups, jobs[k].case, jobs[k].block)
  <2>1. PICK i \in 1..n : \E j \in DOMAIN seqs[i] :
               k = s[i] + j /\ jobs[k] = seqs[i][j] /\ jobs[k].block = i - 1
    BY <1>4
  <2>2. PICK j \in DOMAIN seqs[i] : jobs[k] = seqs[i][j]
    BY <2>1
  <2>3. CasesOnce(Ids, warmups, repetitions, i - 1, seqs[i]) /\ i - 1 \in Nat
    BY <1>1, <1>2
  <2>4. PICK c \in Ids : Due(warmups, repetitions, c, i - 1) /\ jobs[k] = CaseJob(warmups, c, i - 1)
    BY <1>9, <2>2, <2>3 DEF CasesOnce
  <2>a. CaseJob(warmups, c, i - 1).case = c
    BY DEF CaseJob
  <2>5. jobs[k].case = c
    BY <2>4, <2>a
  <2> QED
    BY <2>1, <2>3, <2>4, <2>5
(* Each repetition of each case, and no other. *)
<1>10. {job \in ToSet(jobs) : job.control = ""}
         = UNION {{CaseJob(warmups, c, b) : b \in 0..(warmups[c] + repetitions[c] - 1)} :
                    c \in DOMAIN warmups}
  <2>1. ASSUME NEW k \in DOMAIN jobs, jobs[k].control = ""
        PROVE  \E c \in Ids : \E b \in 0..(warmups[c] + repetitions[c] - 1) :
                 jobs[k] = CaseJob(warmups, c, b)
    <3> DEFINE c == jobs[k].case
               b == jobs[k].block
    <3>1. c \in Ids /\ b \in Nat /\ b < warmups[c] + repetitions[c] /\ jobs[k] = CaseJob(warmups, c, b)
      BY <1>9, <2>1 DEF Due, Repetitions
    <3> HIDE DEF c, b
    <3>2. warmups[c] \in Nat /\ repetitions[c] \in Nat
      BY <3>1
    <3>3. b \in 0..(warmups[c] + repetitions[c] - 1)
      BY <3>1, <3>2
    <3> QED
      BY <3>1, <3>3
  <2>2. ASSUME NEW c \in Ids, NEW b \in 0..(warmups[c] + repetitions[c] - 1)
        PROVE  CaseJob(warmups, c, b).control = "" /\ \E k \in DOMAIN jobs : jobs[k] = CaseJob(warmups, c, b)
    <3>1. warmups[c] \in Nat /\ repetitions[c] \in Nat /\ b \in Nat /\ b < warmups[c] + repetitions[c]
      OBVIOUS
    <3>2. Due(warmups, repetitions, c, b) /\ b + 1 \in 1..n /\ (b + 1) - 1 = b
      <4>1. warmups[c] + repetitions[c] <= n
        BY <1>1 DEF Repetitions
      <4> QED
        BY <1>1, <3>1, <4>1 DEF Due, Repetitions
    <3>3. CasesOnce(Ids, warmups, repetitions, b, seqs[b + 1])
      BY <1>2, <3>2
    <3>4. PICK j \in DOMAIN seqs[b + 1] : seqs[b + 1][j] = CaseJob(warmups, c, b)
      BY <3>2, <3>3 DEF CasesOnce
    <3>5. s[b + 1] + j \in DOMAIN jobs /\ jobs[s[b + 1] + j] = CaseJob(warmups, c, b)
      BY <1>3, <3>2, <3>4
    <3>6. CaseJob(warmups, c, b).control = ""
      BY DEF CaseJob
    <3> QED
      BY <3>5, <3>6
  <2>3. DOMAIN warmups = Ids
    OBVIOUS
  <2> DEFINE OfCase(c) == {CaseJob(warmups, c, b) : b \in 0..(warmups[c] + repetitions[c] - 1)}
  <2>4. ASSUME NEW job \in ToSet(jobs), job.control = "" PROVE \E c \in Ids : job \in OfCase(c)
    BY <2>1, <2>4 DEF ToSet
  <2>5. ASSUME NEW c \in Ids, NEW job \in OfCase(c) PROVE job \in ToSet(jobs) /\ job.control = ""
    BY <2>2 DEF ToSet
  <2> HIDE DEF OfCase
  <2>6. {job \in ToSet(jobs) : job.control = ""} = UNION {OfCase(c) : c \in Ids}
    BY <2>4, <2>5
  <2> QED
    BY <2>3, <2>6 DEF OfCase
(* Two jobs with one result are one job. *)
<1>11. ASSUME NEW k \in DOMAIN jobs, NEW l \in DOMAIN jobs, k < l
       PROVE  ResultPath(jobs[k], warmups) # ResultPath(jobs[l], warmups)
  <2>1. CASE jobs[k].control = "" /\ jobs[l].control = ""
    <3> SUFFICES ASSUME ResultPath(jobs[k], warmups) = ResultPath(jobs[l], warmups) PROVE FALSE
      OBVIOUS
    <3> DEFINE c == jobs[k].case
               d == jobs[l].case
               a == jobs[k].block
               b == jobs[l].block
    <3>1. /\ ResultPath(jobs[k], warmups) = <<"cases", c, RepetitionName(a, warmups[c])>>
          /\ ResultPath(jobs[l], warmups) = <<"cases", d, RepetitionName(b, warmups[d])>>
      BY <2>1 DEF ResultPath
    <3>2. a \in Nat /\ b \in Nat /\ c \in Ids
      BY <1>9, <2>1
    <3> HIDE DEF a, b, c, d
    <3>a. <<"cases", c, RepetitionName(a, warmups[c])>> = <<"cases", d, RepetitionName(b, warmups[d])>>
      BY <3>1
    <3>3. c = d /\ RepetitionName(a, warmups[c]) = RepetitionName(b, warmups[d])
      BY <3>a
    <3>4. warmups[c] \in Nat /\ RepetitionName(a, warmups[c]) = RepetitionName(b, warmups[c])
      BY <3>2, <3>3
    <3>5. a = b
      BY <3>2, <3>4, NamesDiffer
    <3> QED
      BY <1>6, <1>11, <2>1, <3>3, <3>5 DEF a, b, c, d
  <2>2. CASE jobs[k].control # "" /\ jobs[l].control # ""
    <3>1. /\ ResultPath(jobs[k], warmups) = <<"controls", jobs[k].control, jobs[k].block>>
          /\ ResultPath(jobs[l], warmups) = <<"controls", jobs[l].control, jobs[l].block>>
      BY <2>2 DEF ResultPath
    <3>2. jobs[k].block = jobs[l].block => jobs[k].control # jobs[l].control
      <4>1. jobs[k].control \in {"before", "after"}
        BY <1>8, <2>2 DEF PlannedJob
      <4> QED
        BY <1>6, <1>11, <4>1
    <3> QED
      BY <3>1, <3>2
  <2>3. CASE jobs[k].control = "" /\ jobs[l].control # ""
    BY <2>3 DEF ResultPath
  <2>4. CASE jobs[k].control # "" /\ jobs[l].control = ""
    BY <2>4 DEF ResultPath
  <2> QED
    BY <2>1, <2>2, <2>3, <2>4
<1>12. IsInjective([k \in DOMAIN jobs |-> ResultPath(jobs[k], warmups)])
  <2> SUFFICES ASSUME NEW k \in DOMAIN jobs, NEW l \in DOMAIN jobs,
                      ResultPath(jobs[k], warmups) = ResultPath(jobs[l], warmups)
               PROVE  k = l
    BY DEF IsInjective
  <2>1. ~(k < l) /\ ~(l < k)
    BY <1>11
  <2>2. k \in Int /\ l \in Int
    BY <1>8
  <2> QED
    BY <2>1, <2>2
(* In their order. *)
<1>13. ASSUME NEW k \in DOMAIN jobs, NEW l \in DOMAIN jobs, k < l
       PROVE  /\ jobs[k].control # "" /\ jobs[l].control # "" => JobIndex(jobs[k]) # JobIndex(jobs[l])
              /\ jobs[k].control = "" /\ jobs[l].control = "" /\ jobs[k].case = jobs[l].case =>
                   jobs[k].block < jobs[l].block
  <2>1. jobs[k].block \in Nat /\ jobs[l].block \in Nat /\ jobs[k].block <= jobs[l].block
    BY <1>7, <1>13
  <2>2. ASSUME jobs[k].control # "", jobs[l].control # "" PROVE JobIndex(jobs[k]) # JobIndex(jobs[l])
    <3>1. jobs[k].control \in {"before", "after"} /\ jobs[l].control \in {"before", "after"}
      BY <1>8, <2>2 DEF PlannedJob
    <3>2. /\ JobIndex(jobs[k]) = jobs[k].block * 2 + (IF jobs[k].control = "before" THEN 0 ELSE 1)
          /\ JobIndex(jobs[l]) = jobs[l].block * 2 + (IF jobs[l].control = "before" THEN 0 ELSE 1)
      BY <2>1, <3>1, IndexOfControl
    <3>3. jobs[k].block = jobs[l].block => jobs[k].control = "before" /\ jobs[l].control = "after"
      BY <1>6, <1>13, <3>1
    <3> QED
      BY <2>1, <3>2, <3>3
  <2>3. ASSUME jobs[k].control = "", jobs[l].control = "", jobs[k].case = jobs[l].case
        PROVE  jobs[k].block < jobs[l].block
    <3>1. jobs[k].block # jobs[l].block
      BY <1>6, <1>13, <2>3
    <3> QED
      BY <2>1, <3>1
  <2> QED
    BY <2>2, <2>3
(* Nothing but the own block around a case. *)
<1>14. ASSUME hasControl, NEW k \in DOMAIN jobs, jobs[k].control = ""
       PROVE  /\ k > 1 /\ k < Len(jobs)
              /\ jobs[k - 1].block = jobs[k].block /\ jobs[k - 1].control # "after"
              /\ jobs[k].block = jobs[k + 1].block /\ jobs[k + 1].control # "before"
  <2>a. PICK i \in 1..n : \E j \in DOMAIN seqs[i] : k = s[i] + j /\ jobs[k] = seqs[i][j]
    BY <1>4
  <2>1. PICK j \in DOMAIN seqs[i] : k = s[i] + j /\ jobs[k] = seqs[i][j]
    BY <2>a
  <2>2. s[i] \in Nat /\ Len(seqs[i]) \in Nat /\ j \in 1 .. Len(seqs[i])
    BY <1>3
  <2>3. CasesInside(hasControl, i - 1, seqs[i]) /\ seqs[i] \in Seq(PlannedJob(Ids))
    BY <1>2
  <2>4. 1 < j /\ j < Len(seqs[i])
    BY <1>14, <2>1, <2>3 DEF CasesInside
  <2>5. j - 1 \in DOMAIN seqs[i] /\ j + 1 \in DOMAIN seqs[i] /\ j - 1 < j /\ j < j + 1
    BY <2>2, <2>3, <2>4
  <2>6. /\ s[i] + (j - 1) \in DOMAIN jobs /\ jobs[s[i] + (j - 1)] = seqs[i][j - 1]
        /\ s[i] + (j + 1) \in DOMAIN jobs /\ jobs[s[i] + (j + 1)] = seqs[i][j + 1]
        /\ seqs[i][j - 1].block = i - 1 /\ seqs[i][j + 1].block = i - 1 /\ seqs[i][j].block = i - 1
    BY <1>3, <2>5
  <2>7. s[i] + (j - 1) = k - 1 /\ s[i] + (j + 1) = k + 1
    BY <2>1, <2>2
  <2>8. k - 1 \in DOMAIN jobs /\ k + 1 \in DOMAIN jobs
    BY <2>6, <2>7
  <2>9. seqs[i][j - 1].control # "after" /\ seqs[i][j + 1].control # "before"
    BY <2>3, <2>5 DEF CasesInside
  <2>10. k > 1 /\ k < Len(jobs)
    BY <1>8, <2>8
  <2>11. jobs[k - 1] = seqs[i][j - 1] /\ jobs[k + 1] = seqs[i][j + 1]
    BY <2>6, <2>7
  <2>12. jobs[k - 1].block = i - 1 /\ jobs[k + 1].block = i - 1 /\ jobs[k].block = i - 1
    BY <2>1, <2>6, <2>11
  <2>13. jobs[k - 1].control # "after" /\ jobs[k + 1].control # "before"
    BY <2>9, <2>11
  <2> QED
    BY <2>10, <2>12, <2>13
<1> QED
  BY <1>10, <1>12, <1>13, <1>14 DEF EachRepetitionOnce, jobs

-----------------------------------------------------------------------------
(* The generator (module Suite): which options it accepts, and what the    *)
(* commands that take its matrix can rely on.                              *)

(* The types of the fields, for any names and targets.                     *)
Workload(N, A) ==
  [name : N, protocol : {"tcp", "udp"},
   mode : {"echo", "bulk-upload", "bulk-download", "short", "idle", "standby", "pps"},
   target : A, payload : Int, requests : Int, duration : Int, connections : Int, flows : Int,
   offeredPPS : Int, socket : {"unset", "connected", "unconnected"}]

(* The row of a template can be read from what its key holds.              *)
RowFrom(protocol, mode, socket, payload, connections, flows) ==
  CASE protocol = "tcp" /\ mode = "standby" -> 1
    [] protocol = "tcp" /\ mode = "echo" -> 2
    [] mode = "bulk-upload" -> IF connections = 1 THEN 3 ELSE 4
    [] mode = "bulk-download" -> IF connections = 1 THEN 5 ELSE 6
    [] mode = "short" -> IF connections = 1 THEN 7 ELSE IF connections = 32 THEN 8 ELSE 9
    [] protocol = "udp" /\ mode = "echo" ->
         IF flows # 1 THEN 17 ELSE IF socket = "unconnected" THEN 11 ELSE 10
    [] mode = "pps" ->
         IF payload # 64 THEN 16
         ELSE (IF flows = 1 THEN 12 ELSE 14) + (IF socket = "unconnected" THEN 1 ELSE 0)
    [] mode = "idle" ->
         IF connections = 1 THEN 18 ELSE IF connections = 250 THEN 19
         ELSE IF connections = 500 THEN 20 ELSE IF connections = 750 THEN 21 ELSE 22
RowOf(w) == RowFrom(w.protocol, w.mode, w.socket, w.payload, w.connections, w.flows)

Plain(w) ==
  /\ w.protocol \in {"tcp", "udp"} /\ w.mode \in Modes[w.protocol]
  /\ w.payload \in {1, 64, 1432, 65536} /\ (w.protocol = "udp" => w.payload # 65536)
  /\ w.socket \in {"unset", "unconnected"} /\ (w.protocol = "tcp" => w.socket = "unset")
  /\ w.connections \in 1..1000 /\ w.flows \in 1..1000

Row(k, w) ==
  /\ w \in Workload({w.name}, {NoAddress})
  /\ w.name = "udp-churn" => w.mode = "echo"
  /\ Plain(w) /\ RowOf(w) = k

LEMMA TemplateRows ==
  /\ DOMAIN BareTemplates = 1..22
  /\ \A k \in 1..22 : Row(k, BareTemplates[k])
<1> DEFINE Good == {k \in 1..22 : Row(k, BareTemplates[k])}
<1>0. DOMAIN BareTemplates = 1..22
  BY DEF BareTemplates
<1>1. 1 \in Good
  <2>1. BareTemplates[1] =
          Bare("standby", "tcp", "standby", 1, 1, 1, "unset")
    BY DEF BareTemplates
  <2> QED
    BY <2>1 DEF Row, RowOf, RowFrom, Plain, Bare, Modes, Workload
<1>2. 2 \in Good
  <2>1. BareTemplates[2] =
          Bare("tcp-rtt", "tcp", "echo", 64, 1, 1, "unset")
    BY DEF BareTemplates
  <2> QED
    BY <2>1 DEF Row, RowOf, RowFrom, Plain, Bare, Modes, Workload
<1>3. 3 \in Good
  <2>1. BareTemplates[3] =
          Bare("tcp-upload-1", "tcp", "bulk-upload", 65536, 1, 1, "unset")
    BY DEF BareTemplates
  <2> QED
    BY <2>1 DEF Row, RowOf, RowFrom, Plain, Bare, Modes, Workload
<1>4. 4 \in Good
  <2>1. BareTemplates[4] =
          Bare("tcp-upload-8", "tcp", "bulk-upload", 65536, 8, 1, "unset")
    BY DEF BareTemplates
  <2> QED
    BY <2>1 DEF Row, RowOf, RowFrom, Plain, Bare, Modes, Workload
<1>5. 5 \in Good
  <2>1. BareTemplates[5] =
          Bare("tcp-download-1", "tcp", "bulk-download", 65536, 1, 1, "unset")
    BY DEF BareTemplates
  <2> QED
    BY <2>1 DEF Row, RowOf, RowFrom, Plain, Bare, Modes, Workload
<1>6. 6 \in Good
  <2>1. BareTemplates[6] =
          Bare("tcp-download-8", "tcp", "bulk-download", 65536, 8, 1, "unset")
    BY DEF BareTemplates
  <2> QED
    BY <2>1 DEF Row, RowOf, RowFrom, Plain, Bare, Modes, Workload
<1>7. 7 \in Good
  <2>1. BareTemplates[7] =
          Bare("tcp-short-1", "tcp", "short", 64, 1, 1, "unset")
    BY DEF BareTemplates
  <2> QED
    BY <2>1 DEF Row, RowOf, RowFrom, Plain, Bare, Modes, Workload
<1>8. 8 \in Good
  <2>1. BareTemplates[8] =
          Bare("tcp-short-32", "tcp", "short", 64, 32, 1, "unset")
    BY DEF BareTemplates
  <2> QED
    BY <2>1 DEF Row, RowOf, RowFrom, Plain, Bare, Modes, Workload
<1>9. 9 \in Good
  <2>1. BareTemplates[9] =
          Bare("tcp-short-128", "tcp", "short", 64, 128, 1, "unset")
    BY DEF BareTemplates
  <2> QED
    BY <2>1 DEF Row, RowOf, RowFrom, Plain, Bare, Modes, Workload
<1>10. 10 \in Good
  <2>1. BareTemplates[10] =
          Bare("udp-rtt", "udp", "echo", 64, 1, 1, "unset")
    BY DEF BareTemplates
  <2> QED
    BY <2>1 DEF Row, RowOf, RowFrom, Plain, Bare, Modes, Workload
<1>11. 11 \in Good
  <2>1. BareTemplates[11] =
          Bare("udp-rtt-unconnected", "udp", "echo", 64, 1, 1, "unconnected")
    BY DEF BareTemplates
  <2> QED
    BY <2>1 DEF Row, RowOf, RowFrom, Plain, Bare, Modes, Workload
<1>12. 12 \in Good
  <2>1. BareTemplates[12] =
          Bare("udp-pps-1", "udp", "pps", 64, 1, 1, "unset")
    BY DEF BareTemplates
  <2> QED
    BY <2>1 DEF Row, RowOf, RowFrom, Plain, Bare, Modes, Workload
<1>13. 13 \in Good
  <2>1. BareTemplates[13] =
          Bare("udp-pps-1-unconnected", "udp", "pps", 64, 1, 1, "unconnected")
    BY DEF BareTemplates
  <2> QED
    BY <2>1 DEF Row, RowOf, RowFrom, Plain, Bare, Modes, Workload
<1>14. 14 \in Good
  <2>1. BareTemplates[14] =
          Bare("udp-pps-64", "udp", "pps", 64, 1, 64, "unset")
    BY DEF BareTemplates
  <2> QED
    BY <2>1 DEF Row, RowOf, RowFrom, Plain, Bare, Modes, Workload
<1>15. 15 \in Good
  <2>1. BareTemplates[15] =
          Bare("udp-pps-64-unconnected", "udp", "pps", 64, 1, 64, "unconnected")
    BY DEF BareTemplates
  <2> QED
    BY <2>1 DEF Row, RowOf, RowFrom, Plain, Bare, Modes, Workload
<1>16. 16 \in Good
  <2>1. BareTemplates[16] =
          Bare("udp-mtu", "udp", "pps", 1432, 1, 1, "unset")
    BY DEF BareTemplates
  <2> QED
    BY <2>1 DEF Row, RowOf, RowFrom, Plain, Bare, Modes, Workload
<1>17. 17 \in Good
  <2>1. BareTemplates[17] =
          Bare("udp-churn", "udp", "echo", 64, 1, 1000, "unset")
    BY DEF BareTemplates
  <2> QED
    BY <2>1 DEF Row, RowOf, RowFrom, Plain, Bare, Modes, Workload
<1>18. 18 \in Good
  <2>1. BareTemplates[18] =
          Bare("tcp-idle-1", "tcp", "idle", 1, 1, 1, "unset")
    BY DEF BareTemplates
  <2> QED
    BY <2>1 DEF Row, RowOf, RowFrom, Plain, Bare, Modes, Workload
<1>19. 19 \in Good
  <2>1. BareTemplates[19] =
          Bare("tcp-idle-250", "tcp", "idle", 1, 250, 1, "unset")
    BY DEF BareTemplates
  <2> QED
    BY <2>1 DEF Row, RowOf, RowFrom, Plain, Bare, Modes, Workload
<1>20. 20 \in Good
  <2>1. BareTemplates[20] =
          Bare("tcp-idle-500", "tcp", "idle", 1, 500, 1, "unset")
    BY DEF BareTemplates
  <2> QED
    BY <2>1 DEF Row, RowOf, RowFrom, Plain, Bare, Modes, Workload
<1>21. 21 \in Good
  <2>1. BareTemplates[21] =
          Bare("tcp-idle-750", "tcp", "idle", 1, 750, 1, "unset")
    BY DEF BareTemplates
  <2> QED
    BY <2>1 DEF Row, RowOf, RowFrom, Plain, Bare, Modes, Workload
<1>22. 22 \in Good
  <2>1. BareTemplates[22] =
          Bare("tcp-idle-1000", "tcp", "idle", 1, 1000, 1, "unset")
    BY DEF BareTemplates
  <2> QED
    BY <2>1 DEF Row, RowOf, RowFrom, Plain, Bare, Modes, Workload
<1> HIDE DEF Good
<1>23. 1..22 \subseteq Good
  BY <1>1, <1>2, <1>3, <1>4, <1>5, <1>6, <1>7, <1>8, <1>9, <1>10, <1>11, <1>12, <1>13, <1>14, <1>15, <1>16, <1>17, <1>18, <1>19, <1>20, <1>21, <1>22
<1> QED
  BY <1>0, <1>23 DEF Good

(* Rates, durations and repetitions there are: the preset's or the user's. *)
Complete(o) ==
  /\ o.duration \in Nat \ {0} /\ o.idleDuration \in Nat \ {0}
  /\ o.udpPPS \in Nat \ {0} /\ o.udpMTUPPS \in Nat \ {0}
  /\ o.requests \in Nat /\ o.warmups \in Nat /\ o.repetitions \in Nat \ {0}

Paced(w) ==
  /\ w.requests \in Nat /\ w.duration \in Nat /\ w.offeredPPS \in Nat
  /\ w.requests = 0 <=> w.duration > 0
  /\ w.mode = "pps" => w.requests = 0 /\ w.offeredPPS > 0
  /\ w.mode # "pps" => w.offeredPPS = 0
  /\ w.mode \in {"echo", "short"} => w.requests > 0

LEMMA Smaller == ASSUME NEW a \in Int, NEW b \in Int PROVE Min({a, b}) = IF a <= b THEN a ELSE b
BY DEF Min
LEMMA Greater == ASSUME NEW a \in Int, NEW b \in Int PROVE Max({a, b}) = IF a >= b THEN a ELSE b
BY DEF Max
LEMMA Greatest ==
  ASSUME NEW a \in Int, NEW b \in Int, NEW c \in Int
  PROVE  Max({a, b, c}) \in Int /\ Max({a, b, c}) >= a /\ Max({a, b, c}) >= b /\ Max({a, b, c}) >= c
<1>1. \E m \in {a, b, c} : \A y \in {a, b, c} : m >= y
  OBVIOUS
<1> QED
  BY <1>1 DEF Max

LEMMA TemplateFields ==
  ASSUME NEW o, Complete(o), NEW k \in 1..22, NEW w, w = Template(o, BareTemplates[k])
  PROVE  /\ w \in Workload({w.name}, {NoAddress}) /\ w.name = BareTemplates[k].name
         /\ Plain(w) /\ Paced(w) /\ RowOf(w) = k
<1> DEFINE b == BareTemplates[k]
<1>1. Row(k, b)
  BY TemplateRows
<1> HIDE DEF b
<1>2. b \in Workload({b.name}, {NoAddress})
  BY <1>1 DEF Row
<1>3. w = Template(o, b)
  BY DEF b
<1> DEFINE requests == IF b.name = "udp-churn" THEN 1000 ELSE IF b.mode \in {"echo", "short"} THEN 20000 ELSE 0
           duration == IF b.mode \in {"idle", "standby"} THEN o.idleDuration
                       ELSE IF b.mode \in {"echo", "short"} THEN 0 ELSE o.duration
           rate == IF b.mode # "pps" THEN 0 ELSE IF b.name = "udp-mtu" THEN o.udpMTUPPS ELSE o.udpPPS
<1>a. w = [b EXCEPT !.requests = requests, !.duration = duration, !.offeredPPS = rate]
  BY <1>3, <1>2 DEF Template
<1>4. /\ w.name = b.name /\ w.protocol = b.protocol /\ w.mode = b.mode /\ w.target = NoAddress
      /\ w.payload = b.payload /\ w.connections = b.connections /\ w.flows = b.flows /\ w.socket = b.socket
      /\ w.requests = requests /\ w.duration = duration /\ w.offeredPPS = rate
  <2> HIDE DEF requests, duration, rate
  <2> QED
    BY <1>2, <1>a DEF Workload
<1>5. b.name = "udp-churn" => b.mode = "echo"
  BY <1>1 DEF Row, Plain
<1>6. Plain(b) /\ RowOf(b) = k
  BY <1>1 DEF Row
<1>7. Plain(w)
  BY <1>4, <1>6 DEF Plain
<1>8. RowOf(w) = k
  BY <1>4, <1>6 DEF RowOf
<1>9. Paced(w)
  BY <1>4, <1>5, <1>6 DEF Plain, Paced, Complete, Modes
<1>12. w \in Workload({w.name}, {NoAddress})
  <2> HIDE DEF requests, duration, rate
  <2>1. requests \in Int /\ duration \in Int /\ rate \in Int
    BY <1>4, <1>9 DEF Paced
  <2>2. w \in Workload({b.name}, {NoAddress})
    BY <1>2, <1>a, <2>1 DEF Workload
  <2> QED
    BY <1>4, <2>2
<1> QED
  BY <1>4, <1>7, <1>8, <1>9, <1>12 DEF b

(* --requests and the smoke preset change the requests only, and leave one. *)
LEMMA OverrideKeeps ==
  ASSUME NEW o, Complete(o), NEW t, t \in Workload({t.name}, {NoAddress}), Plain(t), Paced(t),
         NEW w, w = Override(o, t)
  PROVE  /\ w \in Workload({w.name}, {NoAddress}) /\ w.name = t.name
         /\ Plain(w) /\ Paced(w) /\ RowOf(w) = RowOf(t)
<1> DEFINE capped == IF o.preset = "smoke" THEN Min({t.requests, 64}) ELSE t.requests
           fixed == o.requests > 0 /\ t.name # "udp-churn" /\ t.mode \in {"echo", "short"}
           requests == IF fixed THEN o.requests ELSE capped
<1>1. w = [t EXCEPT !.requests = requests]
  BY DEF Override
<1>2. Min({t.requests, 64}) = IF t.requests <= 64 THEN t.requests ELSE 64
  BY Smaller DEF Paced
<1>3. capped \in Nat /\ (capped = 0 <=> t.requests = 0)
  BY <1>2 DEF Paced
<1>4. t.mode \in {"echo", "short"} => t.requests > 0
  BY DEF Plain, Paced
<1> HIDE DEF capped
<1>5. requests \in Nat /\ (requests = 0 <=> t.requests = 0)
  BY <1>3, <1>4 DEF Complete
<1> HIDE DEF requests
<1>6. /\ w.name = t.name /\ w.protocol = t.protocol /\ w.mode = t.mode /\ w.target = NoAddress
      /\ w.payload = t.payload /\ w.connections = t.connections /\ w.flows = t.flows /\ w.socket = t.socket
      /\ w.requests = requests /\ w.duration = t.duration /\ w.offeredPPS = t.offeredPPS
  BY <1>1 DEF Workload
<1>7. w \in Workload({t.name}, {NoAddress})
  BY <1>1, <1>5 DEF Workload
<1>8. Plain(w) /\ RowOf(w) = RowOf(t)
  BY <1>6 DEF Plain, RowOf
<1>9. Paced(w)
  BY <1>5, <1>6 DEF Paced
<1> QED
  BY <1>6, <1>7, <1>8, <1>9

(* The presets name workloads there are. *)
LEMMA NamesKnown ==
  ASSUME NEW o, o.preset \in DOMAIN Presets
  PROVE  ToSet(PresetWorkloads(o)) \subseteq ToSet(Names)
<1>1. ASSUME NEW k \in 1..22, NEW name, name = BareTemplates[k].name PROVE name \in ToSet(Names)
  BY <1>1, TemplateRows DEF Names, ToSet
<1>2. o.preset \in {"smoke", "core", "full"}
  BY DEF Presets
<1>3. CASE o.preset = "full"
  BY <1>3 DEF PresetWorkloads
<1>4. CASE o.preset = "smoke"
  <2>1. PresetWorkloads(o) = <<"tcp-rtt", "udp-rtt", "udp-rtt-unconnected">>
    BY <1>4 DEF PresetWorkloads
  <2>2. /\ BareTemplates[2].name = "tcp-rtt"
        /\ BareTemplates[10].name = "udp-rtt"
        /\ BareTemplates[11].name = "udp-rtt-unconnected"
    BY DEF BareTemplates, Bare
  <2>3. "tcp-rtt" \in ToSet(Names) /\ "udp-rtt" \in ToSet(Names) /\ "udp-rtt-unconnected" \in ToSet(Names)
    BY <1>1, <2>2
  <2> QED
    BY <2>1, <2>3 DEF ToSet
<1>5. CASE o.preset = "core"
  <2> DEFINE L == PresetWorkloads(o)
             Known == {i \in 1..15 : L[i] \in ToSet(Names)}
  <2>0. L = <<"standby", "tcp-rtt", "tcp-upload-1", "tcp-upload-8", "tcp-download-1", "tcp-download-8",
              "tcp-short-32", "tcp-idle-1", "tcp-idle-500", "udp-rtt", "udp-rtt-unconnected",
              "udp-pps-1", "udp-pps-64", "udp-pps-64-unconnected", "udp-churn">>
    BY <1>5 DEF PresetWorkloads
  <2>1. 1 \in Known
    <3>1. L[1] = "standby" /\ BareTemplates[1].name = "standby"
      BY <2>0 DEF BareTemplates, Bare
    <3> QED
      BY <1>1, <3>1
  <2>2. 2 \in Known
    <3>1. L[2] = "tcp-rtt" /\ BareTemplates[2].name = "tcp-rtt"
      BY <2>0 DEF BareTemplates, Bare
    <3> QED
      BY <1>1, <3>1
  <2>3. 3 \in Known
    <3>1. L[3] = "tcp-upload-1" /\ BareTemplates[3].name = "tcp-upload-1"
      BY <2>0 DEF BareTemplates, Bare
    <3> QED
      BY <1>1, <3>1
  <2>4. 4 \in Known
    <3>1. L[4] = "tcp-upload-8" /\ BareTemplates[4].name = "tcp-upload-8"
      BY <2>0 DEF BareTemplates, Bare
    <3> QED
      BY <1>1, <3>1
  <2>5. 5 \in Known
    <3>1. L[5] = "tcp-download-1" /\ BareTemplates[5].name = "tcp-download-1"
      BY <2>0 DEF BareTemplates, Bare
    <3> QED
      BY <1>1, <3>1
  <2>6. 6 \in Known
    <3>1. L[6] = "tcp-download-8" /\ BareTemplates[6].name = "tcp-download-8"
      BY <2>0 DEF BareTemplates, Bare
    <3> QED
      BY <1>1, <3>1
  <2>7. 7 \in Known
    <3>1. L[7] = "tcp-short-32" /\ BareTemplates[8].name = "tcp-short-32"
      BY <2>0 DEF BareTemplates, Bare
    <3> QED
      BY <1>1, <3>1
  <2>8. 8 \in Known
    <3>1. L[8] = "tcp-idle-1" /\ BareTemplates[18].name = "tcp-idle-1"
      BY <2>0 DEF BareTemplates, Bare
    <3> QED
      BY <1>1, <3>1
  <2>9. 9 \in Known
    <3>1. L[9] = "tcp-idle-500" /\ BareTemplates[20].name = "tcp-idle-500"
      BY <2>0 DEF BareTemplates, Bare
    <3> QED
      BY <1>1, <3>1
  <2>10. 10 \in Known
    <3>1. L[10] = "udp-rtt" /\ BareTemplates[10].name = "udp-rtt"
      BY <2>0 DEF BareTemplates, Bare
    <3> QED
      BY <1>1, <3>1
  <2>11. 11 \in Known
    <3>1. L[11] = "udp-rtt-unconnected" /\ BareTemplates[11].name = "udp-rtt-unconnected"
      BY <2>0 DEF BareTemplates, Bare
    <3> QED
      BY <1>1, <3>1
  <2>12. 12 \in Known
    <3>1. L[12] = "udp-pps-1" /\ BareTemplates[12].name = "udp-pps-1"
      BY <2>0 DEF BareTemplates, Bare
    <3> QED
      BY <1>1, <3>1
  <2>13. 13 \in Known
    <3>1. L[13] = "udp-pps-64" /\ BareTemplates[14].name = "udp-pps-64"
      BY <2>0 DEF BareTemplates, Bare
    <3> QED
      BY <1>1, <3>1
  <2>14. 14 \in Known
    <3>1. L[14] = "udp-pps-64-unconnected" /\ BareTemplates[15].name = "udp-pps-64-unconnected"
      BY <2>0 DEF BareTemplates, Bare
    <3> QED
      BY <1>1, <3>1
  <2>15. 15 \in Known
    <3>1. L[15] = "udp-churn" /\ BareTemplates[17].name = "udp-churn"
      BY <2>0 DEF BareTemplates, Bare
    <3> QED
      BY <1>1, <3>1
  <2> HIDE DEF Known
  <2>16. 1..15 \subseteq Known
    BY <2>1, <2>2, <2>3, <2>4, <2>5, <2>6, <2>7, <2>8, <2>9, <2>10, <2>11, <2>12, <2>13, <2>14, <2>15
  <2>17. DOMAIN L = 1..15
    BY <2>0
  <2> QED
    BY <2>16, <2>17 DEF Known, ToSet
<1> QED
  BY <1>2, <1>3, <1>4, <1>5

(* Options whose names are known, and what is made of one of them.         *)
Known(o) == o.preset \in DOMAIN Presets /\ (o.workloads # <<>> => ToSet(o.workloads) \subseteq ToSet(Names))

Named(o, name) == CHOOSE t \in ToSet(Templates(o)) : t.name = name

Made(o, w) ==
  /\ w \in Workload({w.name}, {NoAddress}) /\ Plain(w) /\ Paced(w)
  /\ w = Override(o, Named(o, w.name))
  /\ RowOf(w) \in 1..22 /\ w.name = BareTemplates[RowOf(w)].name

LEMMA WorkloadAt ==
  ASSUME NEW o, Complete(o), Known(o), NEW i \in DOMAIN SelectedNames(o), NEW w \in {Workloads(o)[i]}
  PROVE  Made(o, w) /\ w.name = SelectedNames(o)[i]
<1> DEFINE names == SelectedNames(o)
<1>1. ToSet(names) \subseteq ToSet(Names)
  BY NamesKnown DEF SelectedNames, Known
<1>2. Workloads(o) = [j \in DOMAIN names |-> Override(o, Named(o, names[j]))]
  BY DEF Workloads, Named
<1> HIDE DEF names
<1>3. i \in DOMAIN names /\ w = Override(o, Named(o, names[i]))
  BY <1>2 DEF names
<1> DEFINE name == names[i]
<1>4. name \in ToSet(Names)
  BY <1>1, <1>3 DEF ToSet
<1> HIDE DEF name
<1>5. PICK k \in 1..22 : name = BareTemplates[k].name
  BY <1>4, TemplateRows DEF Names, ToSet
<1>6. Template(o, BareTemplates[k]) \in ToSet(Templates(o))
  BY TemplateRows DEF Templates, ToSet
<1>7. Template(o, BareTemplates[k]).name = name
  BY <1>5, TemplateFields
<1> DEFINE t == Named(o, name)
<1>8. t \in ToSet(Templates(o)) /\ t.name = name
  BY <1>6, <1>7 DEF Named
<1> HIDE DEF t
<1>9. PICK m \in 1..22 : t = Template(o, BareTemplates[m])
  BY <1>8, TemplateRows DEF Templates, ToSet
<1>10. /\ t \in Workload({t.name}, {NoAddress}) /\ t.name = BareTemplates[m].name
       /\ Plain(t) /\ Paced(t) /\ RowOf(t) = m
  BY <1>9, TemplateFields
<1>11. w = Override(o, t)
  BY <1>3 DEF t, name
<1>12. /\ w \in Workload({w.name}, {NoAddress}) /\ w.name = t.name
       /\ Plain(w) /\ Paced(w) /\ RowOf(w) = RowOf(t)
  <2>1. t \in Workload({t.name}, {NoAddress}) /\ Plain(t) /\ Paced(t)
    BY <1>10
  <2> QED
    BY <1>11, <2>1, OverrideKeeps
<1>13. w = Override(o, Named(o, w.name))
  BY <1>8, <1>11, <1>12 DEF t
<1> QED
  BY <1>8, <1>10, <1>12, <1>13 DEF Made, t, name, names

LEMMA WorkloadsMade ==
  ASSUME NEW o, Complete(o), Known(o), NEW w \in ToSet(Workloads(o))
  PROVE  Made(o, w)
<1>1. DOMAIN Workloads(o) = DOMAIN SelectedNames(o)
  BY DEF Workloads
<1>2. PICK i \in DOMAIN SelectedNames(o) : w = Workloads(o)[i]
  BY <1>1 DEF ToSet
<1> QED
  BY <1>2, WorkloadAt

(* The fields of a case, and of its workload. *)
Shape(o, kind, w, c, T, v) ==
  /\ c.runID = RunID(kind, w.name)
  /\ c.kind = kind /\ c.warmups = o.warmups /\ c.repetitions = o.repetitions
  /\ c.listen = (IF kind \in {"direct", "redirect", "tproxy"} THEN Loopback(T.family) ELSE NoAddress)
  /\ c.subjectTarget = (IF kind = "direct" THEN T ELSE NoAddress)
  /\ c.api = (IF kind = "raw" THEN NoAddress ELSE Loopback(T.family))
  /\ v.target = (IF kind = "direct" THEN Loopback(T.family) ELSE T)
  /\ v.socket = (IF w.protocol = "udp" /\ w.socket = "unset" THEN "connected" ELSE w.socket)
  /\ v.name = w.name /\ v.protocol = w.protocol /\ v.mode = w.mode /\ v.payload = w.payload
  /\ v.requests = w.requests /\ v.duration = w.duration /\ v.connections = w.connections
  /\ v.flows = w.flows /\ v.offeredPPS = w.offeredPPS
  /\ v \in Workload({v.name}, {v.target})

LEMMA CaseFields ==
  ASSUME NEW o, NEW kind, NEW w, w \in Workload({w.name}, {NoAddress})
  PROVE  Shape(o, kind, w, Case(o, kind, w), TargetOf(o, kind), Case(o, kind, w).workload)
<1> SUFFICES ASSUME NEW c, c = Case(o, kind, w), NEW T, T = TargetOf(o, kind), NEW v, v = c.workload
             PROVE  Shape(o, kind, w, c, T, v)
  OBVIOUS
<1> DEFINE target == IF kind = "direct" THEN Loopback(T.family) ELSE T
           u == [w EXCEPT !.target = target]
           config == BuildConfig(o, T, kind, [w EXCEPT !.target = T])
<1>1. [w EXCEPT !.target = T] \in Workload({w.name}, {T}) /\ [w EXCEPT !.target = T].name = w.name
  BY DEF Workload
<1>2. [[w EXCEPT !.target = T] EXCEPT !.target = Loopback(T.family)] = [w EXCEPT !.target = Loopback(T.family)]
  BY DEF Workload
<1>3. config = [runID |-> RunID(kind, w.name), kind |-> kind,
                listen |-> IF kind \in {"direct", "redirect", "tproxy"} THEN Loopback(T.family) ELSE NoAddress,
                subjectTarget |-> IF kind = "direct" THEN T ELSE NoAddress,
                api |-> IF kind = "raw" THEN NoAddress ELSE Loopback(T.family),
                workload |-> u, warmups |-> o.warmups, repetitions |-> o.repetitions]
  BY <1>1, <1>2 DEF BuildConfig
<1>4. c = ApplyDefaults(config)
  BY DEF Case
<1>5. /\ u.target = target /\ u.socket = w.socket
      /\ u.name = w.name /\ u.protocol = w.protocol /\ u.mode = w.mode /\ u.payload = w.payload
      /\ u.requests = w.requests /\ u.duration = w.duration /\ u.connections = w.connections
      /\ u.flows = w.flows /\ u.offeredPPS = w.offeredPPS
      /\ u \in Workload({w.name}, {target})
  BY DEF Workload
<1> HIDE DEF config, u, target
<1>6. CASE w.protocol = "udp" /\ w.socket = "unset"
  <2>1. c = [config EXCEPT !.workload.socket = "connected"]
    BY <1>3, <1>4, <1>5, <1>6 DEF ApplyDefaults
  <2>2. v = [u EXCEPT !.socket = "connected"]
    BY <1>3, <2>1
  <2>3. /\ c.runID = config.runID /\ c.kind = config.kind /\ c.warmups = config.warmups /\ c.repetitions = config.repetitions
        /\ c.listen = config.listen /\ c.subjectTarget = config.subjectTarget /\ c.api = config.api
    BY <1>3, <2>1
  <2>4. /\ v.target = u.target /\ v.socket = "connected" /\ v.name = u.name /\ v.protocol = u.protocol
        /\ v.mode = u.mode /\ v.payload = u.payload /\ v.requests = u.requests /\ v.duration = u.duration
        /\ v.connections = u.connections /\ v.flows = u.flows /\ v.offeredPPS = u.offeredPPS
        /\ v \in Workload({w.name}, {target})
    BY <1>5, <2>2 DEF Workload
  <2>5. v \in Workload({v.name}, {v.target})
    BY <1>5, <2>4
  <2> QED
    BY <1>3, <1>5, <1>6, <2>3, <2>4, <2>5 DEF target, Shape
<1>7. CASE ~(w.protocol = "udp" /\ w.socket = "unset")
  <2>1. c = config
    BY <1>3, <1>4, <1>5, <1>7 DEF ApplyDefaults
  <2>2. v = u
    BY <1>3, <2>1
  <2>3. v \in Workload({v.name}, {v.target})
    BY <1>5, <2>2
  <2> QED
    BY <1>3, <1>5, <1>7, <2>1, <2>2, <2>3 DEF target, Shape
<1> QED
  BY <1>6, <1>7

(* PacketCount rounds the seconds and the rest down, one by one, and still *)
(* gives every flow a packet exactly when the whole duration would.        *)
LEMMA PacketsForFlows ==
  ASSUME NEW d \in Nat, NEW r \in Nat, NEW f \in Nat
  PROVE  (d \div 1000) * r + ((d % 1000) * r) \div 1000 >= f <=> ~(d * r < 1000 * f)
<1> DEFINE q == d \div 1000
           m == d % 1000
<1>1. q \in Nat /\ m \in Nat /\ d = 1000 * q + m
  OBVIOUS
<1> HIDE DEF q, m
<1> DEFINE x == q * r
           y == m * r
<1>2. x \in Nat /\ y \in Nat
  BY <1>1
<1>3. d * r = 1000 * x + y
  <2>1. d * r = (1000 * q + m) * r
    BY <1>1
  <2>2. (1000 * q + m) * r = 1000 * (q * r) + m * r
    BY <1>1
  <2> QED
    BY <2>1, <2>2
<1> HIDE DEF x, y
<1>4. x + y \div 1000 >= f <=> ~(1000 * x + y < 1000 * f)
  BY <1>2
<1> QED
  BY <1>3, <1>4 DEF x, y, q, m

LEMMA PaceOf ==
  ASSUME NEW d \in Nat, NEW r \in Nat, r > 0, NEW f \in Nat,
         NEW v, v.mode = "pps", v.requests = 0, v.duration = d, v.offeredPPS = r, v.flows = f
  PROVE  ValidPace(v) <=> ~(d * r < 1000 * f) /\ r <= MaxOfferedPPS
<1> DEFINE packets == (d \div 1000) * r + ((d % 1000) * r) \div 1000
<1>1. PacketCount(v) = packets
  BY DEF PacketCount
<1>2. packets >= f <=> ~(d * r < 1000 * f)
  BY PacketsForFlows
<1> HIDE DEF packets
<1>3. ValidPace(v) <=> r <= MaxOfferedPPS /\ packets >= f
  BY <1>1 DEF ValidPace
<1> QED
  BY <1>2, <1>3, Zenon

LEMMA CasePace ==
  ASSUME NEW w, Plain(w), Paced(w), NEW v,
         v.requests = w.requests, v.duration = w.duration, v.flows = w.flows, v.offeredPPS = w.offeredPPS,
         v.mode = w.mode
  PROVE  ValidPace(v) <=> ~Starved(w) /\ w.offeredPPS <= MaxOfferedPPS
<1>1. CASE w.mode = "pps"
  <2>1. w.duration \in Nat /\ w.offeredPPS \in Nat /\ w.offeredPPS > 0 /\ w.flows \in Nat /\ w.requests = 0
    BY <1>1 DEF Plain, Paced
  <2>2. PICK d \in Nat, r \in Nat, f \in Nat : d = w.duration /\ r = w.offeredPPS /\ f = w.flows
    BY <2>1
  <2>3. v.mode = "pps" /\ v.requests = 0 /\ v.duration = d /\ v.offeredPPS = r /\ v.flows = f /\ r > 0
    BY <1>1, <2>1, <2>2
  <2>4. ValidPace(v) <=> ~(d * r < 1000 * f) /\ r <= MaxOfferedPPS
    BY <2>3, PaceOf
  <2>5. Starved(w) <=> d * r < 1000 * f
    BY <1>1, <2>2 DEF Starved
  <2> QED
    BY <2>2, <2>4, <2>5
<1>2. CASE w.mode # "pps"
  <2>1. v.offeredPPS = 0 /\ w.offeredPPS = 0 /\ ~Starved(w) /\ v.mode # "pps"
    BY <1>2 DEF Paced, Starved
  <2>2. w.offeredPPS <= MaxOfferedPPS
    BY <2>1, SMT DEF MaxOfferedPPS
  <2> QED
    BY <2>1, <2>2 DEF ValidPace
<1> QED
  BY <1>1, <1>2

LEMMA PlainOpens == ASSUME NEW w, Plain(w) PROVE w.connections >= 1 /\ w.flows >= 1
<1>1. ASSUME NEW n \in 1..1000 PROVE n >= 1
  OBVIOUS
<1>2. w.connections \in 1..1000 /\ w.flows \in 1..1000
  BY DEF Plain
<1> QED
  BY <1>1, <1>2

LEMMA CaseValid ==
  ASSUME NEW o, Complete(o), NEW kind \in ToSet(AvailableSubjects), NEW w, Made(o, w),
         kind = "redirect" => w.protocol # "udp",
         TargetOf(o, kind).host = "server" \/ (kind = "raw" /\ TargetOf(o, kind) # NoAddress),
         NEW c, c = Case(o, kind, w)
  PROVE  Validate(c) <=> ~Starved(w) /\ w.offeredPPS <= MaxOfferedPPS
<1>t. PICK T : T = TargetOf(o, kind)
  OBVIOUS
<1>v. PICK v : v = c.workload
  OBVIOUS
<1>1. w \in Workload({w.name}, {NoAddress}) /\ Plain(w) /\ Paced(w)
  BY DEF Made
<1>2. /\ c.kind = kind /\ c.warmups = o.warmups /\ c.repetitions = o.repetitions
      /\ c.listen = (IF kind \in {"direct", "redirect", "tproxy"} THEN Loopback(T.family) ELSE NoAddress)
      /\ c.subjectTarget = (IF kind = "direct" THEN T ELSE NoAddress)
      /\ c.api = (IF kind = "raw" THEN NoAddress ELSE Loopback(T.family))
      /\ v.target = (IF kind = "direct" THEN Loopback(T.family) ELSE T)
      /\ v.socket = (IF w.protocol = "udp" /\ w.socket = "unset" THEN "connected" ELSE w.socket)
      /\ v.name = w.name /\ v.protocol = w.protocol /\ v.mode = w.mode /\ v.payload = w.payload
      /\ v.requests = w.requests /\ v.duration = w.duration /\ v.connections = w.connections
      /\ v.flows = w.flows /\ v.offeredPPS = w.offeredPPS
      /\ v \in Workload({v.name}, {v.target})
  <2>1. Shape(o, kind, w, Case(o, kind, w), TargetOf(o, kind), Case(o, kind, w).workload)
    BY <1>1, CaseFields
  <2>2. Shape(o, kind, w, c, T, v)
    BY <2>1, <1>t, <1>v, Zenon
  <2> QED
    BY <2>2 DEF Shape
<1>3. ValidPace(v) <=> ~Starved(w) /\ w.offeredPPS <= MaxOfferedPPS
  BY <1>1, <1>2, CasePace
<1>4. /\ \A family : /\ Loopback(family) # NoAddress /\ Loopback(family).host = "loopback"
                     /\ Loopback(family).family = family
      /\ NoAddress.host = "none"
  BY DEF Loopback, NoAddress
<1>5. T # NoAddress /\ v.target # NoAddress
  BY <1>2, <1>4, <1>t
<1>6. /\ v.protocol \in DOMAIN Modes /\ v.mode \in Modes[v.protocol]
      /\ v.payload >= 1 /\ v.payload <= MaxPayload
      /\ v.protocol = "udp" => v.payload + 40 <= 65507 /\ v.socket \in {"unset", "connected", "unconnected"}
      /\ v.protocol # "udp" => v.socket = "unset"
  BY <1>1, <1>2, SMT DEF Plain, Modes, MaxPayload
<1>7. /\ v.requests >= 0 /\ v.duration >= 0 /\ v.offeredPPS >= 0
      /\ v.connections >= 1 /\ v.flows >= 1
  <2>1. w.requests \in Nat /\ w.duration \in Nat /\ w.offeredPPS \in Nat
    BY <1>1 DEF Paced
  <2>2. w.connections >= 1 /\ w.flows >= 1
    BY <1>1, PlainOpens
  <2> QED
    BY <1>2, <2>1, <2>2
<1>a. (v.requests = 0) # (v.duration = 0)
  <2>1. w.requests \in Nat /\ w.duration \in Nat /\ (w.requests = 0 <=> w.duration > 0)
    BY <1>1 DEF Paced
  <2>2. v.requests \in Nat /\ v.duration \in Nat /\ (v.requests = 0 <=> v.duration > 0)
    BY <1>2, <2>1
  <2>3. CASE v.requests = 0
    BY <2>2, <2>3
  <2>4. CASE v.requests # 0
    BY <2>2, <2>4
  <2> QED
    BY <2>3, <2>4
<1>8. ValidWorkload(v) <=> ValidPace(v)
  BY <1>5, <1>6, <1>7, <1>a DEF ValidWorkload
<1>9. ValidSubject(c)
  <2>1. kind \in {"redirect", "tproxy"} =>
          c.listen = Loopback(T.family) /\ v.target = T
    BY <1>2
  <2>2. kind = "direct" =>
          c.listen = Loopback(T.family) /\ v.target = Loopback(T.family) /\ c.subjectTarget = T
    BY <1>2
  <2>3. kind \in {"ebpf-tc", "ebpf-cgroup"} => c.api = Loopback(T.family)
    BY <1>2
  <2>4. kind = "redirect" => v.protocol = "tcp"
    BY <1>1, <1>2 DEF Plain
  <2> QED
    BY <1>2, <1>4, <1>5, <1>v, <2>1, <2>2, <2>3, <2>4 DEF ValidSubject
<1>10. c.repetitions >= 1 /\ c.warmups >= 0
  BY <1>2 DEF Complete
<1> QED
  BY <1>3, <1>8, <1>9, <1>10, <1>v DEF Validate

(* What a flattened sequence holds, what Those keeps, and what cases there are. *)
Listed(seq) == \E n \in Nat : seq = [i \in 1..n |-> seq[i]]

LEMMA ListedSeq ==
  ASSUME NEW n \in Nat, NEW f, f = [i \in 1..n |-> f[i]]
  PROVE  f \in Seq(ToSet(f)) /\ Len(f) = n
<1>1. f \in [1..n -> ToSet(f)]
  BY DEF ToSet
<1> QED
  BY <1>1

LEMMA SeqListed ==
  ASSUME NEW T, NEW seq \in Seq(T)
  PROVE  Listed(seq)
<1>1. Len(seq) \in Nat /\ seq = [i \in 1..Len(seq) |-> seq[i]]
  OBVIOUS
<1> QED
  BY <1>1 DEF Listed

LEMMA ListedDomain ==
  ASSUME NEW seq, Listed(seq)
  PROVE  \E n \in Nat : DOMAIN seq = 1..n
<1>1. PICK n \in Nat : seq = [i \in 1..n |-> seq[i]]
  BY DEF Listed
<1> QED
  BY <1>1

LEMMA FlattenedHolds ==
  ASSUME NEW T, NEW n \in Nat, NEW seqs \in [1..n -> Seq(T)]
  PROVE  /\ \A x : x \in ToSet(FlattenSeq(seqs)) <=> \E i \in 1..n : x \in ToSet(seqs[i])
         /\ FlattenSeq(seqs) \in Seq(T)
<1> DEFINE flat == FlattenSeq(seqs)
<1>1. flat \in Seq(T) /\ \E s : Placing(seqs, n, flat, s)
  BY Flattened
<1> HIDE DEF flat
<1>2. PICK s : Placing(seqs, n, flat, s)
  BY <1>1
<1>3. ASSUME NEW x \in ToSet(flat) PROVE \E i \in 1..n : x \in ToSet(seqs[i])
  <2>1. PICK k \in DOMAIN flat : flat[k] = x
    BY DEF ToSet
  <2>i. PICK i \in 1..n : \E j \in DOMAIN seqs[i] : k = s[i] + j
    BY <1>2 DEF Placing
  <2>2. PICK j \in DOMAIN seqs[i] : k = s[i] + j
    BY <2>i
  <2>3. seqs[i][j] = x
    BY <1>2, <2>1, <2>2 DEF Placing
  <2> QED
    BY <2>3 DEF ToSet
<1>4. ASSUME NEW i \in 1..n, NEW x \in ToSet(seqs[i]) PROVE x \in ToSet(flat)
  <2>1. PICK j \in DOMAIN seqs[i] : seqs[i][j] = x
    BY DEF ToSet
  <2>2. s[i] + j \in DOMAIN flat /\ flat[s[i] + j] = x
    BY <1>2, <2>1 DEF Placing
  <2> QED
    BY <2>2 DEF ToSet
<1> QED
  BY <1>1, <1>3, <1>4 DEF flat

LEMMA ThoseAre ==
  ASSUME NEW S, NEW n \in Nat, NEW seq, DOMAIN seq = 1..n
  PROVE  /\ \A x : x \in ToSet(Those(seq, S)) <=> x \in ToSet(seq) /\ x \in S
         /\ Listed(Those(seq, S))
<1> DEFINE piece(i) == IF seq[i] \in S THEN <<seq[i]>> ELSE <<>>
           pieces == [i \in 1..n |-> piece(i)]
<1>1. Those(seq, S) = FlattenSeq(pieces)
  BY DEF Those
<1>2. ASSUME NEW i \in 1..n PROVE piece(i) \in Seq(ToSet(seq))
  <2>1. seq[i] \in ToSet(seq)
    BY DEF ToSet
  <2> DEFINE K == ToSet(seq)
  <2>2. seq[i] \in K
    BY <2>1
  <2> HIDE DEF K
  <2>3. <<seq[i]>> \in Seq(K) /\ <<>> \in Seq(K)
    BY <2>2
  <2> QED
    BY <2>3 DEF K
<1>3. \A i \in 1..n : \A x : x \in ToSet(piece(i)) <=> x = seq[i] /\ x \in S
  BY DEF ToSet
<1> HIDE DEF piece
<1>4. pieces \in [1..n -> Seq(ToSet(seq))]
  BY <1>2
<1>5. /\ \A x : x \in ToSet(FlattenSeq(pieces)) <=> \E i \in 1..n : x \in ToSet(pieces[i])
      /\ FlattenSeq(pieces) \in Seq(ToSet(seq))
  <2> HIDE DEF pieces
  <2> QED
    BY <1>4, FlattenedHolds
<1>6. \A i \in 1..n : pieces[i] = piece(i)
  OBVIOUS
<1> HIDE DEF pieces
<1>7. ASSUME NEW x PROVE x \in ToSet(FlattenSeq(pieces)) <=> x \in ToSet(seq) /\ x \in S
  <2>1. x \in ToSet(FlattenSeq(pieces)) <=> \E i \in 1..n : x = seq[i] /\ x \in S
    BY <1>3, <1>5, <1>6
  <2>2. x \in ToSet(seq) <=> \E i \in 1..n : seq[i] = x
    BY DEF ToSet
  <2> QED
    BY <2>1, <2>2
<1>8. Listed(FlattenSeq(pieces))
  BY <1>5, SeqListed
<1> QED
  BY <1>1, <1>7, <1>8

(* The subjects of a case, and the workloads it takes. *)
LEMMA SubjectsAre ==
  ASSUME NEW o, ToSet(o.subjects) \subseteq ToSet(AvailableSubjects), Listed(o.subjects)
  PROVE  /\ Listed(SelectedSubjects(o))
         /\ ToSet(SelectedSubjects(o)) \subseteq ToSet(AvailableSubjects)
         /\ ToSet(SelectedSubjects(o)) # {}
<1>1. DOMAIN AvailableSubjects = 1..8
  BY DEF AvailableSubjects
<1>2. Listed(AvailableSubjects) /\ ToSet(AvailableSubjects) # {}
  <2>1. AvailableSubjects = [i \in 1..8 |-> AvailableSubjects[i]]
    BY DEF AvailableSubjects
  <2>2. AvailableSubjects[1] \in ToSet(AvailableSubjects)
    BY <1>1 DEF ToSet
  <2> QED
    BY <2>1, <2>2 DEF Listed
<1>3. CASE o.subjects = <<>>
  BY <1>2, <1>3 DEF SelectedSubjects
<1>4. CASE o.subjects # <<>>
  <2>1. SelectedSubjects(o) = Those(AvailableSubjects, ToSet(o.subjects))
    BY <1>4 DEF SelectedSubjects
  <2>2. /\ \A x : x \in ToSet(Those(AvailableSubjects, ToSet(o.subjects))) <=>
                    x \in ToSet(AvailableSubjects) /\ x \in ToSet(o.subjects)
        /\ Listed(Those(AvailableSubjects, ToSet(o.subjects)))
    BY <1>1, ThoseAre
  <2>3. PICK x : x \in ToSet(o.subjects)
    <3>1. PICK n \in Nat : o.subjects = [i \in 1..n |-> o.subjects[i]]
      BY DEF Listed
    <3>2. n # 0
      BY <1>4, <3>1
    <3>3. 1 \in DOMAIN o.subjects
      BY <3>1, <3>2
    <3> QED
      BY <3>3 DEF ToSet
  <2> QED
    BY <2>1, <2>2, <2>3
<1> QED
  BY <1>3, <1>4

LEMMA WorkloadsListed ==
  ASSUME NEW o, o.preset \in DOMAIN Presets, Listed(o.workloads)
  PROVE  Listed(Workloads(o))
<1>1. \E n \in Nat : DOMAIN SelectedNames(o) = 1..n
  <2>1. CASE o.workloads # <<>>
    BY <2>1, ListedDomain DEF SelectedNames
  <2>2. CASE o.workloads = <<>>
    <3>1. SelectedNames(o) = PresetWorkloads(o)
      BY <2>2 DEF SelectedNames
    <3>2. o.preset \in {"smoke", "core", "full"}
      BY DEF Presets
    <3>3. CASE o.preset = "smoke"
      <4>1. DOMAIN PresetWorkloads(o) = 1..3
        BY <3>3 DEF PresetWorkloads
      <4> QED
        BY <3>1, <4>1
    <3>4. CASE o.preset = "core"
      <4>1. DOMAIN PresetWorkloads(o) = 1..15
        BY <3>4 DEF PresetWorkloads
      <4> QED
        BY <3>1, <4>1
    <3>5. CASE o.preset = "full"
      <4>1. DOMAIN PresetWorkloads(o) = 1..22
        BY <3>5, TemplateRows DEF PresetWorkloads, Names
      <4> QED
        BY <3>1, <4>1
    <3> QED
      BY <3>2, <3>3, <3>4, <3>5
  <2> QED
    BY <2>1, <2>2
<1>2. PICK n \in Nat : DOMAIN SelectedNames(o) = 1..n
  BY <1>1
<1> DEFINE made(i) == Override(o, Named(o, SelectedNames(o)[i]))
<1>3. Workloads(o) = [i \in 1..n |-> made(i)]
  BY <1>2 DEF Workloads, Named
<1> HIDE DEF made
<1>4. Workloads(o) = [i \in 1..n |-> Workloads(o)[i]]
  BY <1>3
<1> QED
  BY <1>4 DEF Listed

LEMMA SupportedAre ==
  ASSUME NEW o, NEW kind, Listed(Workloads(o))
  PROVE  /\ \A w : w \in ToSet(Supported(o, kind)) <=>
                     w \in ToSet(Workloads(o)) /\ (kind = "redirect" => w.protocol # "udp")
         /\ Listed(Supported(o, kind))
<1> DEFINE S == {w \in ToSet(Workloads(o)) : kind = "redirect" => w.protocol # "udp"}
<1>1. Supported(o, kind) = Those(Workloads(o), S)
  BY DEF Supported
<1>2. \A w : w \in S <=> w \in ToSet(Workloads(o)) /\ (kind = "redirect" => w.protocol # "udp")
  OBVIOUS
<1> HIDE DEF S
<1>3. PICK n \in Nat : DOMAIN Workloads(o) = 1..n
  BY DEF Listed
<1>4. /\ \A x : x \in ToSet(Those(Workloads(o), S)) <=> x \in ToSet(Workloads(o)) /\ x \in S
      /\ Listed(Those(Workloads(o), S))
  BY <1>3, ThoseAre
<1> QED
  BY <1>1, <1>2, <1>4

LEMMA CasesAre ==
  ASSUME NEW o, Listed(SelectedSubjects(o)), Listed(Workloads(o))
  PROVE  /\ \A c : c \in ToSet(Cases(o)) <=>
                     \E kind \in ToSet(SelectedSubjects(o)), w \in ToSet(Workloads(o)) :
                       (kind = "redirect" => w.protocol # "udp") /\ c = Case(o, kind, w)
         /\ Listed(Cases(o))
<1> DEFINE subjects == SelectedSubjects(o)
           casesOf(kind) == [i \in DOMAIN Supported(o, kind) |-> Case(o, kind, Supported(o, kind)[i])]
           pieces == [i \in DOMAIN subjects |-> casesOf(subjects[i])]
           T == UNION {ToSet(casesOf(kind)) : kind \in ToSet(subjects)}
<1>1. Cases(o) = FlattenSeq(pieces)
  BY DEF Cases
<1>2. PICK n \in Nat : DOMAIN subjects = 1..n
  BY ListedDomain
<1>3. ASSUME NEW kind PROVE casesOf(kind) \in Seq(ToSet(casesOf(kind)))
  <2>1. PICK m \in Nat : DOMAIN Supported(o, kind) = 1..m
    BY SupportedAre, ListedDomain
  <2> DEFINE f == casesOf(kind)
  <2>2. f = [i \in 1..m |-> f[i]]
    BY <2>1
  <2> HIDE DEF f
  <2>3. f \in Seq(ToSet(f))
    BY <2>2, ListedSeq
  <2> QED
    BY <2>3 DEF f
<1>4. ASSUME NEW kind, NEW c
      PROVE  c \in ToSet(casesOf(kind)) <=>
               \E w \in ToSet(Workloads(o)) : (kind = "redirect" => w.protocol # "udp") /\ c = Case(o, kind, w)
  <2>1. c \in ToSet(casesOf(kind)) <=> \E w \in ToSet(Supported(o, kind)) : c = Case(o, kind, w)
    BY DEF ToSet
  <2>2. \A w : w \in ToSet(Supported(o, kind)) <=>
                 w \in ToSet(Workloads(o)) /\ (kind = "redirect" => w.protocol # "udp")
    BY SupportedAre
  <2> QED
    BY <2>1, <2>2
<1> HIDE DEF casesOf
<1>5. pieces \in [1..n -> Seq(T)]
  <2>1. ASSUME NEW i \in 1..n PROVE casesOf(subjects[i]) \in Seq(T)
    <3>1. subjects[i] \in ToSet(subjects)
      BY <1>2 DEF ToSet
    <3>2. ToSet(casesOf(subjects[i])) \subseteq T
      BY <3>1
    <3>3. casesOf(subjects[i]) \in Seq(ToSet(casesOf(subjects[i])))
      BY <1>3
    <3> HIDE DEF T
    <3> QED
      BY <3>2, <3>3
  <2> HIDE DEF T
  <2> QED
    BY <1>2, <2>1
<1>6. \A i \in 1..n : pieces[i] = casesOf(subjects[i])
  BY <1>2
<1> HIDE DEF pieces, T
<1>7. /\ \A c : c \in ToSet(FlattenSeq(pieces)) <=> \E i \in 1..n : c \in ToSet(pieces[i])
      /\ FlattenSeq(pieces) \in Seq(T)
  BY <1>5, FlattenedHolds
<1>8. ASSUME NEW c
      PROVE  c \in ToSet(FlattenSeq(pieces)) <=> \E kind \in ToSet(subjects) : c \in ToSet(casesOf(kind))
  <2>1. c \in ToSet(FlattenSeq(pieces)) <=> \E i \in 1..n : c \in ToSet(casesOf(subjects[i]))
    BY <1>6, <1>7
  <2>2. \A kind : kind \in ToSet(subjects) <=> \E i \in 1..n : subjects[i] = kind
    BY <1>2 DEF ToSet
  <2> QED
    BY <2>1, <2>2
<1>9. Listed(FlattenSeq(pieces))
  BY <1>7, SeqListed
<1> HIDE DEF subjects
<1>10. ASSUME NEW c
       PROVE  c \in ToSet(FlattenSeq(pieces)) <=>
                \E kind \in ToSet(subjects), w \in ToSet(Workloads(o)) :
                  (kind = "redirect" => w.protocol # "udp") /\ c = Case(o, kind, w)
  BY <1>4, <1>8
<1> QED
  BY <1>1, <1>9, <1>10 DEF subjects

(* What is made of an accepted case later is served as well. *)
LEMMA Asked ==
  ASSUME NEW v, v.protocol \in {"tcp", "udp"}, v.mode = "echo", v.target # NoAddress,
         v.payload \in Int, v.payload >= 1, v.payload <= 64,
         v.protocol = "udp" => v.socket \in {"unset", "connected", "unconnected"},
         v.protocol # "udp" => v.socket = "unset",
         v.requests \in Int, v.requests >= 1, v.duration = 0, v.offeredPPS = 0,
         v.connections \in Int, v.connections >= 1, v.connections <= v.requests,
         v.flows \in Int, v.flows >= 1, v.flows <= v.requests
  PROVE  Served(v)
<1>1. v.protocol \in DOMAIN Modes /\ v.mode \in Modes[v.protocol]
  BY DEF Modes
<1>2. v.payload <= MaxPayload /\ v.payload + 40 <= 65507
  BY DEF MaxPayload
<1>3. ValidPace(v)
  BY DEF ValidPace
<1>4. ~(v.requests = 0) /\ v.duration = 0
  OBVIOUS
<1>5. (v.requests = 0) # (v.duration = 0)
  BY <1>4
<1>6. ValidWorkload(v)
  BY <1>1, <1>2, <1>3, <1>5 DEF ValidWorkload
<1> QED
  BY <1>6 DEF Served, ReadRequest

LEMMA WarmupIsServed ==
  ASSUME NEW N, NEW A, NEW w \in Workload(N, A), ValidWorkload(w)
  PROVE  Served(WarmupWorkload(w))
<1> DEFINE connections == Min({Max({w.connections, 1}), 8})
           flows == Min({Max({w.flows, 1}), 8})
           requests == Max({8, connections, flows})
           payload == Min({w.payload, 64})
           v == WarmupWorkload(w)
<1>1. /\ w.connections \in Int /\ w.flows \in Int /\ w.payload \in Int
      /\ w.protocol \in {"tcp", "udp"} /\ w.socket \in {"unset", "connected", "unconnected"}
  BY DEF Workload
<1>2. /\ w.target # NoAddress /\ w.payload >= 1
      /\ w.protocol # "udp" => w.socket = "unset"
  BY DEF ValidWorkload
<1>3. connections \in Int /\ connections >= 1
  <2>1. PICK m \in Int : m = Max({w.connections, 1}) /\ m >= 1
    BY <1>1, Greater
  <2> QED
    BY <2>1, Smaller
<1>4. flows \in Int /\ flows >= 1
  <2>1. PICK m \in Int : m = Max({w.flows, 1}) /\ m >= 1
    BY <1>1, Greater
  <2> QED
    BY <2>1, Smaller
<1>5. payload \in Int /\ payload >= 1 /\ payload <= 64
  BY <1>1, <1>2, Smaller
<1>6. v = [w EXCEPT !.connections = connections, !.flows = flows, !.requests = requests, !.duration = 0,
                    !.mode = "echo", !.payload = payload, !.offeredPPS = 0]
  BY DEF WarmupWorkload, Workload
<1> HIDE DEF connections, flows, payload
<1>7. requests \in Int /\ requests >= 8 /\ requests >= connections /\ requests >= flows
  <2> DEFINE least == 8
  <2>1. least \in Int
    OBVIOUS
  <2> HIDE DEF least
  <2>2. /\ Max({least, connections, flows}) \in Int /\ Max({least, connections, flows}) >= least
        /\ Max({least, connections, flows}) >= connections /\ Max({least, connections, flows}) >= flows
    BY <1>3, <1>4, <2>1, Greatest
  <2> QED
    BY <2>2 DEF least
<1> HIDE DEF requests, v
<1>8. /\ v.connections = connections /\ v.flows = flows /\ v.requests = requests /\ v.duration = 0
      /\ v.mode = "echo" /\ v.payload = payload /\ v.offeredPPS = 0
      /\ v.protocol = w.protocol /\ v.target = w.target /\ v.socket = w.socket
  BY <1>6 DEF Workload
<1>9. Served(v)
  <2>1. v.protocol \in {"tcp", "udp"} /\ v.mode = "echo" /\ v.target # NoAddress
    BY <1>1, <1>2, <1>8
  <2>2. v.payload \in Int /\ v.payload >= 1 /\ v.payload <= 64
    BY <1>5, <1>8
  <2>3. /\ v.protocol = "udp" => v.socket \in {"unset", "connected", "unconnected"}
        /\ v.protocol # "udp" => v.socket = "unset"
    BY <1>1, <1>2, <1>8
  <2>4. v.requests \in Int /\ v.requests >= 1 /\ v.duration = 0 /\ v.offeredPPS = 0
    BY <1>7, <1>8
  <2>5. /\ v.connections \in Int /\ v.connections >= 1 /\ v.connections <= v.requests
        /\ v.flows \in Int /\ v.flows >= 1 /\ v.flows <= v.requests
    BY <1>3, <1>4, <1>7, <1>8
  <2> QED
    BY <2>1, <2>2, <2>3, <2>4, <2>5, Asked
<1> QED
  BY <1>9 DEF v

(* The control of a matrix is valid, whatever its cases are, and so is its probe. *)
LEMMA ControlIsValid ==
  ASSUME NEW o, Complete(o), NEW T, T = TargetOf(o, "raw"), T # NoAddress
  PROVE  /\ Validate(Control(o)) /\ Control(o).kind = "raw"
         /\ Control(o).workload.target = T
         /\ Served(MatrixRecoveryRequest(Control(o)))
<1> DEFINE b == Base("control", "tcp", "bulk-upload", 65536)
           w == [b EXCEPT !.target = T, !.duration = o.duration]
           c == BuildConfig(o, T, "raw", w)
           d == Control(o)
<1>1. b \in Workload({"control"}, {NoAddress}) /\ b.requests = 0
  BY DEF Base, Bare, Workload
<1>2. /\ b.protocol = "tcp" /\ b.mode = "bulk-upload" /\ b.payload = 65536 /\ b.connections = 1 /\ b.flows = 1
      /\ b.socket = "unset" /\ b.offeredPPS = 0
  BY DEF Base, Bare
<1> HIDE DEF b
<1>3. /\ w.target = T /\ w.duration = o.duration /\ w.requests = 0
      /\ w.protocol = "tcp" /\ w.mode = "bulk-upload" /\ w.payload = 65536 /\ w.connections = 1 /\ w.flows = 1
      /\ w.socket = "unset" /\ w.offeredPPS = 0
  BY <1>1, <1>2 DEF Workload
<1>4. c = [runID |-> RunID("raw", w.name), kind |-> "raw", listen |-> NoAddress, subjectTarget |-> NoAddress,
           api |-> NoAddress, workload |-> w, warmups |-> o.warmups, repetitions |-> o.repetitions]
  BY DEF BuildConfig
<1>5. d = [c EXCEPT !.runID = "raw-control", !.warmups = 0, !.repetitions = 1]
  BY DEF Control, b
<1> HIDE DEF w, c, d
<1>6. d.kind = "raw" /\ d.workload = w /\ d.warmups = 0 /\ d.repetitions = 1
  BY <1>4, <1>5
<1>7. ValidWorkload(w)
  <2>1. w.protocol \in DOMAIN Modes /\ w.mode \in Modes[w.protocol]
    BY <1>3 DEF Modes
  <2>2. w.payload >= 1 /\ w.payload <= MaxPayload
    BY <1>3 DEF MaxPayload
  <2>3. w.duration \in Nat /\ ~(w.duration = 0)
    BY <1>3 DEF Complete
  <2>4. w.requests = 0
    BY <1>3
  <2>5. (w.requests = 0) # (w.duration = 0)
    BY <2>3, <2>4
  <2>6. ValidPace(w)
    BY <1>3 DEF ValidPace
  <2>7. w.requests >= 0 /\ w.duration >= 0 /\ w.offeredPPS >= 0 /\ w.connections >= 1 /\ w.flows >= 1
    BY <1>3, <2>3
  <2> QED
    BY <1>3, <2>1, <2>2, <2>5, <2>6, <2>7 DEF ValidWorkload
<1>8. ValidSubject(d)
  <2>1. d.kind \in ToSet(AvailableSubjects)
    BY <1>6 DEF AvailableSubjects, ToSet
  <2> QED
    BY <1>6, <2>1 DEF ValidSubject
<1>9. Validate(d)
  BY <1>6, <1>7, <1>8 DEF Validate
<1> DEFINE p == Base("matrix-recovery", "udp", "echo", 64)
           v == [p EXCEPT !.target = d.workload.target, !.requests = 8]
<1>10. p \in Workload({"matrix-recovery"}, {NoAddress})
  BY DEF Base, Bare, Workload
<1>11. /\ p.protocol = "udp" /\ p.mode = "echo" /\ p.payload = 64 /\ p.connections = 1 /\ p.flows = 1
       /\ p.socket = "unset" /\ p.offeredPPS = 0 /\ p.duration = 0
  BY DEF Base, Bare
<1>12. MatrixRecoveryRequest(d) = v
  BY DEF MatrixRecoveryRequest
<1> HIDE DEF p
<1>13. /\ v.target = T /\ v.requests = 8 /\ v.duration = 0
       /\ v.protocol = "udp" /\ v.mode = "echo" /\ v.payload = 64 /\ v.connections = 1 /\ v.flows = 1
       /\ v.socket = "unset" /\ v.offeredPPS = 0
  BY <1>3, <1>6, <1>10, <1>11 DEF Workload
<1> HIDE DEF v
<1>14. Served(v)
  BY <1>13, Asked
<1> QED
  BY <1>3, <1>6, <1>9, <1>12, <1>14 DEF d

(* No two cases of a generated matrix have one run ID. *)
LEMMA ThosePlaces ==
  ASSUME NEW S, NEW n \in Nat, NEW seq, DOMAIN seq = 1..n
  PROVE  \E at : \A k \in DOMAIN Those(seq, S) :
           /\ at[k] \in 1..n /\ Those(seq, S)[k] = seq[at[k]]
           /\ \A m \in DOMAIN Those(seq, S) : at[k] = at[m] => k = m
<1> DEFINE piece(i) == IF seq[i] \in S THEN <<seq[i]>> ELSE <<>>
           pieces == [i \in 1..n |-> piece(i)]
           flat == FlattenSeq(pieces)
<1>1. Those(seq, S) = flat
  BY DEF Those
<1>2. ASSUME NEW i \in 1..n PROVE piece(i) \in Seq(ToSet(seq))
  <2>1. seq[i] \in ToSet(seq)
    BY DEF ToSet
  <2> DEFINE K == ToSet(seq)
  <2>2. seq[i] \in K
    BY <2>1
  <2> HIDE DEF K
  <2>3. <<seq[i]>> \in Seq(K) /\ <<>> \in Seq(K)
    BY <2>2
  <2> QED
    BY <2>3 DEF K
<1>3. ASSUME NEW i \in 1..n, NEW j \in DOMAIN piece(i) PROVE j = 1 /\ piece(i)[j] = seq[i]
  OBVIOUS
<1> HIDE DEF piece
<1>4. pieces \in [1..n -> Seq(ToSet(seq))] /\ \A i \in 1..n : pieces[i] = piece(i)
  BY <1>2
<1> HIDE DEF pieces
<1>5. PICK s : Placing(pieces, n, flat, s)
  BY <1>4, Flattened
<1> HIDE DEF flat
<1>6. \A k \in DOMAIN flat : \E i \in 1..n : k = s[i] + 1 /\ flat[k] = seq[i]
  <2> SUFFICES ASSUME NEW k \in DOMAIN flat PROVE \E i \in 1..n : k = s[i] + 1 /\ flat[k] = seq[i]
    OBVIOUS
  <2>1. PICK i \in 1..n : \E j \in DOMAIN pieces[i] : k = s[i] + j
    BY <1>5 DEF Placing
  <2>2. PICK j \in DOMAIN pieces[i] : k = s[i] + j
    BY <2>1
  <2>3. flat[s[i] + j] = pieces[i][j]
    BY <1>5 DEF Placing
  <2>4. j = 1 /\ pieces[i][j] = seq[i]
    BY <1>3, <1>4
  <2> QED
    BY <2>2, <2>3, <2>4
<1> DEFINE at == [k \in DOMAIN flat |-> CHOOSE i \in 1..n : k = s[i] + 1 /\ flat[k] = seq[i]]
<1>7. \A k \in DOMAIN flat : at[k] \in 1..n /\ k = s[at[k]] + 1 /\ flat[k] = seq[at[k]]
  BY <1>6
<1> HIDE DEF at
<1> QED
  BY <1>1, <1>7

LEMMA SubjectsDiffer ==
  ASSUME NEW o
  PROVE  IsInjective(SelectedSubjects(o))
<1>1. DOMAIN AvailableSubjects = 1..8
  BY DEF AvailableSubjects
<1>2. ASSUME NEW i \in 1..8, NEW j \in 1..8, AvailableSubjects[i] = AvailableSubjects[j] PROVE i = j
  BY <1>2 DEF AvailableSubjects
<1>3. CASE o.subjects = <<>>
  BY <1>1, <1>2, <1>3 DEF SelectedSubjects, IsInjective
<1>4. CASE o.subjects # <<>>
  <2> DEFINE S == ToSet(o.subjects)
             those == Those(AvailableSubjects, S)
  <2>0. SelectedSubjects(o) = those
    BY <1>4 DEF SelectedSubjects
  <2> HIDE DEF S
  <2>1. PICK at : \A k \in DOMAIN those :
                    /\ at[k] \in 1..8 /\ those[k] = AvailableSubjects[at[k]]
                    /\ \A m \in DOMAIN those : at[k] = at[m] => k = m
    BY <1>1, ThosePlaces
  <2> HIDE DEF those
  <2> QED
    BY <1>2, <2>0, <2>1 DEF IsInjective
<1> QED
  BY <1>3, <1>4

LEMMA SelectedNamesDiffer ==
  ASSUME NEW o, o.preset \in DOMAIN Presets, IsInjective(o.workloads)
  PROVE  IsInjective(SelectedNames(o))
<1>1. o.preset \in {"smoke", "core", "full"}
  BY DEF Presets
<1>2. CASE o.preset = "smoke"
  <2> DEFINE L == <<"tcp-rtt", "udp-rtt", "udp-rtt-unconnected">>
  <2>1. PresetWorkloads(o) = L
    BY <1>2 DEF PresetWorkloads
  <2>2. DOMAIN L = 1..3 /\ \A i, j \in 1..3 : L[i] = L[j] => i = j
    OBVIOUS
  <2> QED
    BY <2>1, <2>2 DEF SelectedNames, IsInjective
<1>3. CASE o.preset = "core"
  <2> DEFINE L == <<"standby", "tcp-rtt", "tcp-upload-1", "tcp-upload-8", "tcp-download-1", "tcp-download-8",
                    "tcp-short-32", "tcp-idle-1", "tcp-idle-500", "udp-rtt", "udp-rtt-unconnected",
                    "udp-pps-1", "udp-pps-64", "udp-pps-64-unconnected", "udp-churn">>
  <2>1. PresetWorkloads(o) = L
    BY <1>3 DEF PresetWorkloads
  <2>2. DOMAIN L = 1..15
    OBVIOUS
  <2>3. ASSUME NEW i \in 1..15, NEW j \in 1..15, L[i] = L[j] PROVE i = j
    BY <2>3
  <2> HIDE DEF L
  <2> QED
    BY <2>1, <2>2, <2>3 DEF SelectedNames, IsInjective
<1>4. CASE o.preset = "full"
  <2>1. DOMAIN BareTemplates = 1..22
    BY TemplateRows
  <2>2. Names = [k \in 1..22 |-> BareTemplates[k].name]
    BY <2>1 DEF Names
  <2>3. ASSUME NEW i \in 1..22, NEW j \in 1..22, Names[i] = Names[j] PROVE i = j
    <3>1. BareTemplates[i].name = BareTemplates[j].name
      BY <2>2, <2>3
    <3> QED
      BY <3>1 DEF BareTemplates, Bare
  <2>4. PresetWorkloads(o) = Names
    BY <1>4 DEF PresetWorkloads
  <2>5. IsInjective(Names)
    BY <2>2, <2>3 DEF IsInjective
  <2> QED
    BY <2>4, <2>5 DEF SelectedNames
<1> QED
  BY <1>1, <1>2, <1>3, <1>4

LEMMA CaseRunID ==
  ASSUME NEW o, NEW kind, NEW w, Made(o, w)
  PROVE  Case(o, kind, w).runID = RunID(kind, w.name)
<1>1. w \in Workload({w.name}, {NoAddress})
  BY DEF Made
<1> DEFINE c == Case(o, kind, w)
           T == TargetOf(o, kind)
           v == c.workload
<1>2. Shape(o, kind, w, c, T, v)
  BY <1>1, CaseFields
<1> HIDE DEF c, T, v
<1>3. c.runID = RunID(kind, w.name)
  BY <1>2 DEF Shape
<1> QED
  BY <1>3 DEF c

LEMMA RunIDsAreDistinct ==
  ASSUME NEW o, Complete(o), Known(o), Listed(SelectedSubjects(o)), Listed(Workloads(o)),
         ToSet(SelectedSubjects(o)) \subseteq ToSet(AvailableSubjects),
         IsInjective(SelectedSubjects(o)), IsInjective(SelectedNames(o))
  PROVE  IsInjective(RunIDs(Cases(o)))
<1> DEFINE subjects == SelectedSubjects(o)
           supported(i) == Supported(o, subjects[i])
           case(i, j) == Case(o, subjects[i], supported(i)[j])
           piece(i) == [j \in DOMAIN supported(i) |-> case(i, j)]
           pieces == [i \in DOMAIN subjects |-> piece(i)]
           T == UNION {ToSet(piece(i)) : i \in DOMAIN subjects}
           flat == Cases(o)
<1>1. flat = FlattenSeq(pieces)
  BY DEF Cases
<1>2. PICK n \in Nat : DOMAIN subjects = 1..n
  BY ListedDomain
<1>3. ASSUME NEW i \in 1..n PROVE piece(i) \in Seq(ToSet(piece(i)))
  <2>1. PICK m \in Nat : DOMAIN supported(i) = 1..m
    BY SupportedAre, ListedDomain
  <2> DEFINE f == piece(i)
  <2>2. f = [j \in 1..m |-> f[j]]
    BY <2>1
  <2> HIDE DEF f
  <2>3. f \in Seq(ToSet(f))
    BY <2>2, ListedSeq
  <2> QED
    BY <2>3 DEF f
<1>4. \A i \in 1..n : \A j \in DOMAIN piece(i) : j \in DOMAIN supported(i) /\ piece(i)[j] = case(i, j)
  OBVIOUS
<1> HIDE DEF piece
<1>5. pieces \in [1..n -> Seq(T)]
  <2>1. ASSUME NEW i \in 1..n PROVE piece(i) \in Seq(T)
    <3>1. ToSet(piece(i)) \subseteq T
      BY <1>2
    <3>2. piece(i) \in Seq(ToSet(piece(i)))
      BY <1>3
    <3> HIDE DEF T
    <3> QED
      BY <3>1, <3>2
  <2> HIDE DEF T
  <2> QED
    BY <1>2, <2>1
<1>6. \A i \in 1..n : pieces[i] = piece(i)
  BY <1>2
<1> HIDE DEF pieces, T, flat, supported, case
<1>7. PICK s : Placing(pieces, n, flat, s)
  BY <1>1, <1>5, Flattened
<1>8. ASSUME NEW k \in DOMAIN flat
      PROVE  \E i \in 1..n : \E j \in DOMAIN supported(i) : k = s[i] + j /\ flat[k] = case(i, j)
  <2>1. PICK i \in 1..n : \E j \in DOMAIN pieces[i] : k = s[i] + j
    BY <1>7 DEF Placing
  <2>2. PICK j \in DOMAIN pieces[i] : k = s[i] + j
    BY <2>1
  <2>3. flat[s[i] + j] = pieces[i][j]
    BY <1>7 DEF Placing
  <2> QED
    BY <1>4, <1>6, <2>2, <2>3
<1>9. ASSUME NEW i \in 1..n, NEW j \in DOMAIN supported(i)
      PROVE  Made(o, supported(i)[j]) /\ case(i, j).runID = RunID(subjects[i], supported(i)[j].name)
  <2>1. supported(i)[j] \in ToSet(Workloads(o))
    <3>1. supported(i)[j] \in ToSet(supported(i))
      BY DEF ToSet
    <3> QED
      BY <3>1, SupportedAre DEF supported
  <2> DEFINE w == supported(i)[j]
  <2>2. Made(o, w)
    BY <2>1, WorkloadsMade
  <2>3. case(i, j) = Case(o, subjects[i], w)
    BY DEF case
  <2> HIDE DEF w
  <2>4. Case(o, subjects[i], w).runID = RunID(subjects[i], w.name)
    BY <2>2, CaseRunID
  <2> QED
    BY <2>2, <2>3, <2>4 DEF w
<1>10. ASSUME NEW i \in 1..n, NEW j \in DOMAIN supported(i), NEW l \in DOMAIN supported(i),
              supported(i)[j].name = supported(i)[l].name
       PROVE  j = l
  <2> DEFINE S == {w \in ToSet(Workloads(o)) : subjects[i] = "redirect" => w.protocol # "udp"}
  <2>1. supported(i) = Those(Workloads(o), S)
    BY DEF supported, Supported
  <2> HIDE DEF S
  <2>2. PICK m \in Nat : DOMAIN Workloads(o) = 1..m
    BY ListedDomain
  <2>3. PICK at : \A k \in DOMAIN supported(i) :
                    /\ at[k] \in 1..m /\ supported(i)[k] = Workloads(o)[at[k]]
                    /\ \A h \in DOMAIN supported(i) : at[k] = at[h] => k = h
    BY <2>1, <2>2, ThosePlaces
  <2>4. DOMAIN SelectedNames(o) = 1..m
    BY <2>2 DEF Workloads
  <2>5. \A k \in 1..m : Workloads(o)[k].name = SelectedNames(o)[k]
    BY <2>4, WorkloadAt
  <2>6. SelectedNames(o)[at[j]] = SelectedNames(o)[at[l]]
    BY <1>10, <2>3, <2>5
  <2>7. at[j] = at[l]
    BY <2>3, <2>4, <2>6 DEF IsInjective
  <2> QED
    BY <2>3, <2>7
<1>11. ASSUME NEW i \in 1..n, NEW j \in DOMAIN supported(i), NEW m \in 1..n, NEW l \in DOMAIN supported(m),
              case(i, j).runID = case(m, l).runID
       PROVE  i = m /\ j = l
  <2>1. RunID(subjects[i], supported(i)[j].name) = RunID(subjects[m], supported(m)[l].name)
    BY <1>9, <1>11
  <2>2. subjects[i] \in ToSet(AvailableSubjects) /\ subjects[m] \in ToSet(AvailableSubjects)
    BY <1>2 DEF ToSet
  <2>3. supported(i)[j].name \in ToSet(Names) /\ supported(m)[l].name \in ToSet(Names)
    <3>1. ASSUME NEW w, Made(o, w) PROVE w.name \in ToSet(Names)
      <4>1. RowOf(w) \in 1..22 /\ w.name = BareTemplates[RowOf(w)].name
        BY <3>1 DEF Made
      <4>2. \A r \in 1..22 : Names[r] = BareTemplates[r].name /\ r \in DOMAIN Names
        BY TemplateRows DEF Names
      <4> QED
        BY <4>1, <4>2 DEF ToSet
    <3> QED
      BY <1>9, <3>1
  <2>4. subjects[i] = subjects[m] /\ supported(i)[j].name = supported(m)[l].name
    BY <2>1, <2>2, <2>3, RunIDsDiffer
  <2>5. i = m
    BY <1>2, <2>4 DEF IsInjective
  <2> QED
    BY <1>10, <2>4, <2>5
<1>12. ASSUME NEW a \in DOMAIN flat, NEW b \in DOMAIN flat, flat[a].runID = flat[b].runID PROVE a = b
  <2>1. PICK i \in 1..n : \E j \in DOMAIN supported(i) : a = s[i] + j /\ flat[a] = case(i, j)
    BY <1>8
  <2>2. PICK j \in DOMAIN supported(i) : a = s[i] + j /\ flat[a] = case(i, j)
    BY <2>1
  <2>3. PICK m \in 1..n : \E l \in DOMAIN supported(m) : b = s[m] + l /\ flat[b] = case(m, l)
    BY <1>8
  <2>4. PICK l \in DOMAIN supported(m) : b = s[m] + l /\ flat[b] = case(m, l)
    BY <2>3
  <2>5. i = m /\ j = l
    BY <1>11, <1>12, <2>2, <2>4
  <2> QED
    BY <2>2, <2>4, <2>5
<1> QED
  BY <1>12 DEF IsInjective, RunIDs, flat

(* Options whose defaults are filled in. *)
Completed(asked, o) ==
  /\ Complete(o) /\ o.preset \in DOMAIN Presets
  /\ o.subjects = asked.subjects /\ o.workloads = asked.workloads
  /\ o.target = asked.target /\ o.rawTarget = asked.rawTarget

(* What ApplyPresetDefaults leaves of them. *)
LEMMA DefaultsComplete ==
  ASSUME NEW asked \in Options, ~Malformed(asked)
  PROVE  Completed(asked, ApplyPresetDefaults(asked))
<1> DEFINE fields == {"repetitions", "duration", "idleDuration", "requests", "udpPPS", "udpMTUPPS"}
<1>1. asked.preset \in DOMAIN Presets /\ asked.warmups \in Int /\ asked.warmups >= -1
  BY DEF Malformed, Options
<1>2. \A field \in fields : ~(asked[field] < 0)
  BY DEF Malformed
<1>3. /\ asked.repetitions \in Nat /\ asked.duration \in Nat /\ asked.idleDuration \in Nat
      /\ asked.requests \in Nat /\ asked.udpPPS \in Nat /\ asked.udpMTUPPS \in Nat
  BY <1>2 DEF Options
<1> DEFINE preset == Presets[asked.preset]
<1>4. /\ preset.warmups \in Nat /\ preset.repetitions \in Nat \ {0} /\ preset.duration \in Nat \ {0}
      /\ preset.idleDuration \in Nat \ {0} /\ preset.udpPPS \in Nat \ {0}
  <2>1. asked.preset \in {"smoke", "core", "full"}
    BY <1>1 DEF Presets
  <2> QED
    BY <2>1 DEF Presets
<1> DEFINE warmups == IF asked.warmups = -1 THEN preset.warmups ELSE asked.warmups
           repetitions == IF asked.repetitions = 0 THEN preset.repetitions ELSE asked.repetitions
           duration == IF asked.duration = 0 THEN preset.duration ELSE asked.duration
           idleDuration == IF asked.idleDuration = 0 THEN preset.idleDuration ELSE asked.idleDuration
           udpPPS == IF asked.udpPPS = 0 THEN preset.udpPPS ELSE asked.udpPPS
           udpMTUPPS == IF asked.udpMTUPPS = 0 THEN udpPPS ELSE asked.udpMTUPPS
           o == ApplyPresetDefaults(asked)
<1>5. o = [asked EXCEPT !.warmups = warmups, !.repetitions = repetitions, !.duration = duration,
                          !.idleDuration = idleDuration, !.udpPPS = udpPPS, !.udpMTUPPS = udpMTUPPS]
  BY DEF ApplyPresetDefaults, Options
<1>6. /\ warmups \in Nat /\ repetitions \in Nat \ {0} /\ duration \in Nat \ {0}
      /\ idleDuration \in Nat \ {0} /\ udpPPS \in Nat \ {0}
  <2> HIDE DEF preset
  <2> QED
    BY <1>1, <1>3, <1>4
<1> HIDE DEF o, warmups, repetitions, duration, idleDuration, udpPPS
<1>7. udpMTUPPS \in Nat \ {0}
  BY <1>3, <1>6
<1> HIDE DEF udpMTUPPS
<1>8. /\ o.warmups = warmups /\ o.repetitions = repetitions /\ o.duration = duration
      /\ o.idleDuration = idleDuration /\ o.udpPPS = udpPPS /\ o.udpMTUPPS = udpMTUPPS
      /\ o.requests = asked.requests /\ o.preset = asked.preset
      /\ o.subjects = asked.subjects /\ o.workloads = asked.workloads
      /\ o.target = asked.target /\ o.rawTarget = asked.rawTarget
  BY <1>5 DEF Options
<1>9. Complete(o)
  BY <1>3, <1>6, <1>7, <1>8 DEF Complete
<1> QED
  BY <1>1, <1>8, <1>9 DEF Completed, o

LEMMA Targets ==
  ASSUME NEW asked \in Options, NEW o, Completed(asked, o), NEW kind
  PROVE  /\ TargetOf(o, kind) = TargetOf(asked, kind)
         /\ TargetOf(o, kind).host = "server" \/ (kind = "raw" /\ TargetOf(o, kind) # NoAddress)
         /\ TargetOf(o, kind) # NoAddress
<1>1. /\ o.target = asked.target /\ o.rawTarget = asked.rawTarget
      /\ asked.target \in {Server(4), Server(6)}
  BY DEF Completed, Options
<1>2. asked.target.host = "server" /\ NoAddress.host = "none"
  BY <1>1 DEF Server, NoAddress
<1> QED
  BY <1>1, <1>2 DEF TargetOf

LEMMA OptionsListed ==
  ASSUME NEW asked \in Options, ~Malformed(asked), NEW o, Completed(asked, o)
  PROVE  /\ Known(o) /\ Listed(SelectedSubjects(o)) /\ Listed(Workloads(o))
         /\ ToSet(SelectedSubjects(o)) \subseteq ToSet(AvailableSubjects) /\ ToSet(SelectedSubjects(o)) # {}
         /\ IsInjective(SelectedNames(o))
<1>1. o.subjects = asked.subjects /\ o.workloads = asked.workloads /\ o.preset \in DOMAIN Presets
  BY DEF Completed
<1>2. asked.subjects \in Seq(STRING) /\ asked.workloads \in Seq(STRING)
  BY DEF Options
<1>3. Listed(o.subjects) /\ Listed(o.workloads)
  BY <1>1, <1>2, SeqListed
<1>4. /\ ToSet(o.subjects) \subseteq ToSet(AvailableSubjects)
      /\ IsInjective(o.workloads) /\ ToSet(o.workloads) \subseteq ToSet(Names)
  BY <1>1 DEF Malformed
<1>5. Known(o)
  BY <1>1, <1>4 DEF Known
<1> QED
  BY <1>1, <1>3, <1>4, <1>5, SubjectsAre, WorkloadsListed, SelectedNamesDiffer

(* What is accepted, and of which parts it is made. *)
LEMMA Accepts ==
  ASSUME NEW asked, NEW o, o = ApplyPresetDefaults(asked)
  PROVE  /\ Generate(asked).accepted <=>
              /\ ~Malformed(asked)
              /\ TargetOf(o, "raw").family = o.target.family /\ ValidMatrix(Cases(o), Control(o))
         /\ Generate(asked).accepted =>
              Generate(asked).cases = Cases(o) /\ Generate(asked).control = Control(o)
<1> DEFINE valid == TargetOf(o, "raw").family = o.target.family /\ ValidMatrix(Cases(o), Control(o))
<1>1. CASE Malformed(asked)
  BY <1>1 DEF Generate, Refusal
<1>2. CASE ~Malformed(asked) /\ ~valid
  BY <1>2 DEF Generate, Refusal
<1>3. CASE ~Malformed(asked) /\ valid
  <2>1. Generate(asked) = [accepted |-> TRUE, cases |-> Cases(o), control |-> Control(o)]
    BY <1>3 DEF Generate
  <2> QED
    BY <1>3, <2>1
<1> QED
  BY <1>1, <1>2, <1>3

(* A workload can be run by some subject unless all of them are redirect.  *)
LEMMA SomeSubject ==
  ASSUME NEW o, ToSet(SelectedSubjects(o)) # {}, NEW w, Plain(w), w \in ToSet(Workloads(o))
  PROVE  w \in ToRun(o) <=>
           \E kind \in ToSet(SelectedSubjects(o)) : kind = "redirect" => w.protocol # "udp"
<1> DEFINE subjects == ToSet(SelectedSubjects(o))
<1>1. w \in ToRun(o) <=> w.protocol = "tcp" \/ subjects # {"redirect"}
  BY DEF ToRun
<1> HIDE DEF subjects
<1>2. w.protocol \in {"tcp", "udp"}
  BY DEF Plain
<1>3. subjects # {}
  BY DEF subjects
<1>4. subjects = {"redirect"} <=> \A kind \in subjects : kind = "redirect"
  BY <1>3
<1> QED
  BY <1>1, <1>2, <1>3, <1>4 DEF subjects

-----------------------------------------------------------------------------
(* Generate accepts options that are well-formed exactly when a matrix of  *)
(* them can be run: the targets are of one family, some subject takes some *)
(* workload, and no PPS workload leaves a flow without a packet or offers  *)
(* more than a worker takes.  Whatever rates, durations, counts, subjects  *)
(* and workloads are asked for, nothing else is refused (validate of       *)
(* internal/protocol/protocol.go).                                         *)
THEOREM GeneratedWhenFeasible ==
  ASSUME NEW asked \in Options, ~Malformed(asked)
  PROVE  Generate(asked).accepted <=> Feasible(asked)
<1> DEFINE o == ApplyPresetDefaults(asked)
<1>1. Completed(asked, o)
  BY DefaultsComplete
<1>2. Complete(o)
  BY <1>1 DEF Completed
<1>3. Generate(asked).accepted <=>
        TargetOf(o, "raw").family = o.target.family /\ ValidMatrix(Cases(o), Control(o))
  BY Accepts
<1>4. Feasible(asked) <=>
        /\ TargetOf(o, "raw").family = o.target.family
        /\ ToRun(o) # {}
        /\ \A w \in ToRun(o) : ~Starved(w) /\ w.offeredPPS <= MaxOfferedPPS
  BY DEF Feasible
<1> HIDE DEF o
<1>5. /\ Known(o) /\ Listed(SelectedSubjects(o)) /\ Listed(Workloads(o))
      /\ ToSet(SelectedSubjects(o)) \subseteq ToSet(AvailableSubjects) /\ ToSet(SelectedSubjects(o)) # {}
      /\ IsInjective(SelectedNames(o))
  BY <1>1, OptionsListed
<1>6. IsInjective(RunIDs(Cases(o)))
  BY <1>2, <1>5, SubjectsDiffer, RunIDsAreDistinct
<1>7. Validate(Control(o)) /\ Control(o).kind = "raw"
  <2>1. TargetOf(o, "raw") # NoAddress
    BY <1>1, Targets
  <2> QED
    BY <1>2, <2>1, ControlIsValid
<1>8. \A w \in ToSet(Workloads(o)) : Made(o, w) /\ Plain(w)
  BY <1>2, <1>5, WorkloadsMade DEF Made
<1>9. \A c : c \in ToSet(Cases(o)) <=>
               \E kind \in ToSet(SelectedSubjects(o)), w \in ToSet(Workloads(o)) :
                 (kind = "redirect" => w.protocol # "udp") /\ c = Case(o, kind, w)
  BY <1>5, CasesAre
<1>10. \A w \in ToSet(Workloads(o)) :
         w \in ToRun(o) <=> \E kind \in ToSet(SelectedSubjects(o)) : kind = "redirect" => w.protocol # "udp"
  BY <1>5, <1>8, SomeSubject
<1>11. ToRun(o) \subseteq ToSet(Workloads(o))
  BY DEF ToRun
<1>12. ASSUME NEW kind \in ToSet(SelectedSubjects(o)), NEW w \in ToSet(Workloads(o)),
              kind = "redirect" => w.protocol # "udp"
       PROVE  Validate(Case(o, kind, w)) <=> ~Starved(w) /\ w.offeredPPS <= MaxOfferedPPS
  <2>1. kind \in ToSet(AvailableSubjects) /\ Made(o, w)
    BY <1>5, <1>8
  <2>2. TargetOf(o, kind).host = "server" \/ (kind = "raw" /\ TargetOf(o, kind) # NoAddress)
    BY <1>1, Targets
  <2> QED
    BY <1>2, <1>12, <2>1, <2>2, CaseValid
<1>13. Cases(o) # <<>> <=> ToRun(o) # {}
  <2>1. Cases(o) # <<>> <=> ToSet(Cases(o)) # {}
    <3>1. PICK n \in Nat : Cases(o) = [i \in 1..n |-> Cases(o)[i]]
      BY <1>5, CasesAre DEF Listed
    <3>2. DOMAIN Cases(o) = 1..n /\ (Cases(o) = <<>> <=> n = 0)
      BY <3>1
    <3> QED
      BY <3>2 DEF ToSet
  <2>2. ToSet(Cases(o)) # {} <=> ToRun(o) # {}
    BY <1>9, <1>10, <1>11
  <2> QED
    BY <2>1, <2>2
<1>14. (\A c \in ToSet(Cases(o)) : Validate(c)) <=>
         \A w \in ToRun(o) : ~Starved(w) /\ w.offeredPPS <= MaxOfferedPPS
  <2>1. ASSUME \A c \in ToSet(Cases(o)) : Validate(c), NEW w \in ToRun(o)
        PROVE  ~Starved(w) /\ w.offeredPPS <= MaxOfferedPPS
    <3>1. PICK kind \in ToSet(SelectedSubjects(o)) : kind = "redirect" => w.protocol # "udp"
      BY <1>10, <1>11
    <3>2. Validate(Case(o, kind, w))
      BY <1>9, <1>11, <2>1, <3>1
    <3> QED
      BY <1>11, <1>12, <3>1, <3>2
  <2>2. ASSUME \A w \in ToRun(o) : ~Starved(w) /\ w.offeredPPS <= MaxOfferedPPS, NEW c \in ToSet(Cases(o))
        PROVE  Validate(c)
    <3>1. PICK kind \in ToSet(SelectedSubjects(o)), w \in ToSet(Workloads(o)) :
            (kind = "redirect" => w.protocol # "udp") /\ c = Case(o, kind, w)
      BY <1>9
    <3>2. w \in ToRun(o)
      BY <1>10, <3>1
    <3> QED
      BY <1>12, <2>2, <3>1, <3>2
  <2> QED
    BY <2>1, <2>2
<1>15. (\A i \in DOMAIN Cases(o) : Validate(Cases(o)[i])) <=> \A c \in ToSet(Cases(o)) : Validate(c)
  BY DEF ToSet
<1>16. ValidMatrix(Cases(o), Control(o)) <=>
         Cases(o) # <<>> /\ \A i \in DOMAIN Cases(o) : Validate(Cases(o)[i])
  BY <1>6, <1>7 DEF ValidMatrix
<1> QED
  BY <1>3, <1>4, <1>13, <1>14, <1>15, <1>16

(* The cases of an accepted matrix. *)
LEMMA AcceptedCases ==
  ASSUME NEW asked \in Options, Generate(asked).accepted, NEW o, o = ApplyPresetDefaults(asked)
  PROVE  /\ Completed(asked, o) /\ Complete(o) /\ ValidMatrix(Cases(o), Control(o))
         /\ \A c \in ToSet(Generate(asked).cases) :
              /\ Validate(c)
              /\ \E kind, w : Made(o, w) /\ c = Case(o, kind, w)
                              /\ Shape(o, kind, w, c, TargetOf(o, kind), c.workload)
<1>1. /\ ~Malformed(asked) /\ ValidMatrix(Cases(o), Control(o)) /\ Generate(asked).cases = Cases(o)
  BY Accepts
<1>2. Completed(asked, o) /\ Complete(o)
  BY <1>1, DefaultsComplete DEF Completed
<1>3. /\ Known(o) /\ Listed(SelectedSubjects(o)) /\ Listed(Workloads(o))
  BY <1>1, <1>2, OptionsListed
<1>4. ASSUME NEW c \in ToSet(Cases(o))
      PROVE  /\ Validate(c)
             /\ \E kind, w : Made(o, w) /\ c = Case(o, kind, w)
                             /\ Shape(o, kind, w, c, TargetOf(o, kind), c.workload)
  <2>1. Validate(c)
    BY <1>1 DEF ValidMatrix, ToSet
  <2>2. PICK kind \in ToSet(SelectedSubjects(o)), w \in ToSet(Workloads(o)) : c = Case(o, kind, w)
    BY <1>3, CasesAre
  <2>3. Made(o, w)
    BY <1>2, <1>3, WorkloadsMade
  <2>4. w \in Workload({w.name}, {NoAddress})
    BY <2>3 DEF Made
  <2>5. Shape(o, kind, w, Case(o, kind, w), TargetOf(o, kind), Case(o, kind, w).workload)
    BY <2>4, CaseFields
  <2>6. Shape(o, kind, w, c, TargetOf(o, kind), c.workload)
    BY <2>2, <2>5
  <2> QED
    BY <2>1, <2>2, <2>3, <2>6
<1> QED
  BY <1>1, <1>2, <1>4

(* What Generate accepts, no worker refuses later, after hours of the      *)
(* matrix have run: neither the workload of a case, nor the warmup made of *)
(* it, nor the recovery probe made of the control; and a warmup and a      *)
(* probe have a request for each connection and flow they open             *)
(* (warmupWorkload of cmd/inbound-bench, ReadRequest of internal/worker).  *)
THEOREM NoWorkerRefusesGenerated ==
  ASSUME NEW asked \in Options, Generate(asked).accepted
  PROVE  NoWorkerRefuses(Generate(asked))
<1> DEFINE o == ApplyPresetDefaults(asked)
           made == Generate(asked)
<1>1. /\ Completed(asked, o) /\ Complete(o)
      /\ \A c \in ToSet(made.cases) :
           /\ Validate(c)
           /\ \E kind, w : Made(o, w) /\ c = Case(o, kind, w)
                           /\ Shape(o, kind, w, c, TargetOf(o, kind), c.workload)
  BY AcceptedCases
<1>2. made.control = Control(o)
  BY Accepts
<1> HIDE DEF o, made
<1>3. Served(MatrixRecoveryRequest(made.control))
  <2>1. TargetOf(o, "raw") # NoAddress
    BY <1>1, Targets
  <2>2. Served(MatrixRecoveryRequest(Control(o)))
    BY <1>1, <2>1, ControlIsValid
  <2> QED
    BY <1>2, <2>2
<1>4. ASSUME NEW c \in ToSet(made.cases) PROVE ReadRequest(c.workload) /\ Served(WarmupWorkload(c.workload))
  <2>1. ValidWorkload(c.workload)
    BY <1>1 DEF Validate
  <2>2. PICK kind, w : Shape(o, kind, w, c, TargetOf(o, kind), c.workload)
    BY <1>1
  <2>3. c.workload \in Workload({c.workload.name}, {c.workload.target})
    BY <2>2 DEF Shape
  <2>4. Served(WarmupWorkload(c.workload))
    BY <2>1, <2>3, WarmupIsServed
  <2> QED
    BY <2>1, <2>4 DEF ReadRequest
<1> QED
  BY <1>3, <1>4 DEF NoWorkerRefuses, made

(* Two workloads of one key come from one row of the templates. *)
LEMMA KeyTellsRow ==
  ASSUME NEW o, NEW kind, NEW w, NEW c, NEW T, NEW v, Shape(o, kind, w, c, T, v),
         NEW kind2, NEW w2, NEW c2, NEW T2, NEW v2, Shape(o, kind2, w2, c2, T2, v2),
         WorkloadKey(v) = WorkloadKey(v2)
  PROVE  RowOf(w) = RowOf(w2)
<1>1. /\ v.protocol = v2.protocol /\ v.mode = v2.mode /\ v.socket = v2.socket /\ v.payload = v2.payload
      /\ v.connections = v2.connections /\ v.flows = v2.flows
  BY DEF WorkloadKey
<1>2. /\ w.protocol = w2.protocol /\ w.mode = w2.mode /\ w.payload = w2.payload
      /\ w.connections = w2.connections /\ w.flows = w2.flows
  BY <1>1 DEF Shape
<1>3. w.socket = "unconnected" <=> w2.socket = "unconnected"
  <2>1. v.socket = "unconnected" <=> w.socket = "unconnected"
    BY DEF Shape
  <2>2. v2.socket = "unconnected" <=> w2.socket = "unconnected"
    BY DEF Shape
  <2> QED
    BY <1>1, <2>1, <2>2
<1> QED
  BY <1>2, <1>3 DEF RowOf, RowFrom

LEMMA NameTellsKey ==
  ASSUME NEW o, NEW kind, NEW w, NEW c, NEW T, NEW v, Shape(o, kind, w, c, T, v),
         NEW kind2, NEW c2, NEW T2, NEW v2, Shape(o, kind2, w, c2, T2, v2)
  PROVE  WorkloadKey(v) = WorkloadKey(v2)
<1>1. /\ v.protocol = v2.protocol /\ v.mode = v2.mode /\ v.socket = v2.socket /\ v.payload = v2.payload
      /\ v.requests = v2.requests /\ v.duration = v2.duration
      /\ v.connections = v2.connections /\ v.flows = v2.flows /\ v.offeredPPS = v2.offeredPPS
  BY DEF Shape
<1> QED
  BY <1>1 DEF WorkloadKey

(* The key under which the report compares cases identifies a workload of  *)
(* a generated matrix: two cases have one key exactly when they are made   *)
(* from one workload, whatever --requests and the preset make of its       *)
(* requests, and no subject has two of them; and the raw cases that are    *)
(* the baseline, like the raw control, go to the server the operator named *)
(* for them (workloadKey of internal/report, buildConfig of                *)
(* internal/suite).                                                        *)
THEOREM GeneratedAreComparable ==
  ASSUME NEW asked \in Options, Generate(asked).accepted
  PROVE  Comparable(asked, Generate(asked))
<1> DEFINE o == ApplyPresetDefaults(asked)
           made == Generate(asked)
<1>1. /\ Completed(asked, o) /\ Complete(o) /\ ValidMatrix(Cases(o), Control(o))
      /\ \A c \in ToSet(made.cases) :
           /\ Validate(c)
           /\ \E kind, w : Made(o, w) /\ c = Case(o, kind, w)
                           /\ Shape(o, kind, w, c, TargetOf(o, kind), c.workload)
  BY AcceptedCases
<1>2. made.control = Control(o) /\ made.cases = Cases(o)
  BY Accepts
<1> HIDE DEF o, made
<1>3. IsInjective(RunIDs(made.cases))
  BY <1>1, <1>2 DEF ValidMatrix
<1>4. ASSUME NEW c \in ToSet(made.cases), NEW d \in ToSet(made.cases)
      PROVE  (WorkloadKey(c.workload) = WorkloadKey(d.workload)) <=> (c.workload.name = d.workload.name)
  <2>1. PICK kind, w : Made(o, w) /\ Shape(o, kind, w, c, TargetOf(o, kind), c.workload)
    BY <1>1
  <2>2. PICK kind2, w2 : Made(o, w2) /\ Shape(o, kind2, w2, d, TargetOf(o, kind2), d.workload)
    BY <1>1
  <2>3. c.workload.name = w.name /\ d.workload.name = w2.name
    BY <2>1, <2>2 DEF Shape
  <2>4. ASSUME WorkloadKey(c.workload) = WorkloadKey(d.workload) PROVE w.name = w2.name
    <3>1. RowOf(w) = RowOf(w2)
      BY <2>1, <2>2, <2>4, KeyTellsRow
    <3> QED
      BY <2>1, <2>2, <3>1 DEF Made
  <2>5. ASSUME w.name = w2.name PROVE WorkloadKey(c.workload) = WorkloadKey(d.workload)
    <3>1. w = Override(o, Named(o, w.name)) /\ w2 = Override(o, Named(o, w2.name))
      BY <2>1, <2>2 DEF Made
    <3>2. w = w2
      BY <2>5, <3>1
    <3>3. Shape(o, kind2, w, d, TargetOf(o, kind2), d.workload)
      BY <2>2, <3>2
    <3> QED
      BY <2>1, <3>3, NameTellsKey
  <2> QED
    BY <2>3, <2>4, <2>5
<1>5. TargetOf(o, "raw") = TargetOf(asked, "raw") /\ TargetOf(o, "raw") # NoAddress
  BY <1>1, Targets
<1>6. ASSUME NEW c \in ToSet(made.cases), c.kind = "raw" PROVE c.workload.target = TargetOf(asked, "raw")
  <2>1. PICK kind, w : Shape(o, kind, w, c, TargetOf(o, kind), c.workload)
    BY <1>1
  <2>2. c.kind = kind /\ c.workload.target = (IF kind = "direct" THEN Loopback(TargetOf(o, kind).family)
                                              ELSE TargetOf(o, kind))
    BY <2>1 DEF Shape
  <2>3. kind = "raw"
    BY <1>6, <2>2
  <2> QED
    BY <1>5, <2>2, <2>3
<1>7. made.control.workload.target = TargetOf(asked, "raw")
  <2>1. Control(o).workload.target = TargetOf(o, "raw")
    BY <1>1, <1>5, ControlIsValid
  <2> QED
    BY <1>2, <1>5, <2>1
<1> QED
  BY <1>3, <1>4, <1>6, <1>7 DEF Comparable, made

-----------------------------------------------------------------------------
(* The commands.  The invariant: a matrix is what Generate made of options *)
(* there are, or one that was written; a plan is one of its plans.         *)
Planned ==
  \E order \in [0..(Blocks(Of("warmups"), Of("repetitions")) - 1) -> Orders] :
    plan = BuildMatrixState(Of("warmups"), Of("repetitions"), HasControl, order)

CInv ==
  /\ \/ options \in Requested /\ options # None /\ matrix \in {NoMatrix, Generate(options)}
     \/ options = None /\ matrix \in Written
  /\ plan # <<>> => matrix.accepted /\ Planned

LEMMA OptionsAreOptions ==
  ASSUME NEW asked \in Requested
  PROVE  asked \in Options /\ asked # None
<1>1. asked \in Options
  BY CommandsAssumption DEF CommandsAssumption
<1>2. DOMAIN asked # DOMAIN None
  <2>1. "warmups" \in DOMAIN asked
    BY <1>1 DEF Options
  <2>2. "warmups" \notin DOMAIN None
    BY DEF None
  <2> QED
    BY <2>1, <2>2
<1> QED
  BY <1>1, <1>2

LEMMA NothingIsNoMatrix ==
  ASSUME NEW asked
  PROVE  Generate(asked) # NoMatrix /\ ~NoMatrix.accepted
<1>1. "cases" \in DOMAIN Generate(asked)
  BY DEF Generate, Refusal
<1>2. "cases" \notin DOMAIN NoMatrix
  BY DEF NoMatrix
<1> QED
  BY <1>1, <1>2 DEF NoMatrix

(* The plans depend on the matrix only. *)
LEMMA SameMatrix ==
  ASSUME options' = options, matrix' = matrix
  PROVE  Of("warmups")' = Of("warmups") /\ Of("repetitions")' = Of("repetitions")
         /\ Orders' = Orders /\ HasControl' = HasControl
<1>1. IDs' = IDs
  BY DEF IDs
<1>2. Of("warmups")' = Of("warmups") /\ Of("repetitions")' = Of("repetitions")
  BY <1>1 DEF Of
<1>3. Orders' = Orders
  BY <1>1 DEF Orders
<1>4. HasControl' = HasControl
  BY DEF HasControl
<1> QED
  BY <1>2, <1>3, <1>4

LEMMA CommandsInit == Init => CInv
  BY OptionsAreOptions DEF Init, CInv

LEMMA CommandsStep == CInv /\ [Next]_vars => CInv'
<1> SUFFICES ASSUME CInv, [Next]_vars PROVE CInv'
  OBVIOUS
<1>1. CASE GenerateMatrix
  <2>1. options \in Requested /\ options # None
    BY <1>1 DEF CInv, GenerateMatrix
  <2>2. plan = <<>>
    BY <1>1, NothingIsNoMatrix DEF CInv, GenerateMatrix
  <2> QED
    BY <1>1, <2>1, <2>2 DEF CInv, GenerateMatrix
<1>2. CASE PlanMatrix
  <2>1. options' = options /\ matrix' = matrix /\ matrix.accepted
    BY <1>2 DEF PlanMatrix
  <2>2. Planned'
    <3>1. \E order \in [0..(Blocks(Of("warmups"), Of("repetitions")) - 1) -> Orders] :
            plan' = BuildMatrixState(Of("warmups"), Of("repetitions"), HasControl, order)
      BY <1>2 DEF PlanMatrix
    <3> QED
      BY <2>1, <3>1, SameMatrix DEF Planned
  <2> QED
    BY <2>1, <2>2 DEF CInv
<1>3. CASE UNCHANGED vars
  <2>1. options' = options /\ matrix' = matrix /\ plan' = plan
    BY <1>3 DEF vars
  <2>2. Planned => Planned'
    BY <2>1, SameMatrix DEF Planned
  <2> QED
    BY <2>1, <2>2 DEF CInv
<1> QED
  BY <1>1, <1>2, <1>3 DEF Next

LEMMA CommandsInvariance == Spec => []CInv
  BY CommandsInit, CommandsStep, PTL DEF Spec

(* What Generate refuses is what cannot be run, and what it accepts no     *)
(* worker refuses later, for any options of generate-matrix                *)
(* (internal/suite/matrix.go, ReadRequest of internal/worker).             *)
THEOREM CommandsOnlyTheInfeasible == Spec => []OnlyTheInfeasibleIsRefused
<1>1. CInv => OnlyTheInfeasibleIsRefused
  <2> SUFFICES ASSUME CInv, Generated, ~Malformed(options)
               PROVE  /\ matrix.accepted <=> Feasible(options)
                      /\ matrix.accepted => NoWorkerRefuses(matrix)
    BY DEF OnlyTheInfeasibleIsRefused
  <2>1. options \in Options /\ matrix = Generate(options)
    BY OptionsAreOptions DEF CInv, Generated
  <2> QED
    BY <2>1, GeneratedWhenFeasible, NoWorkerRefusesGenerated
<1> QED
  BY <1>1, CommandsInvariance, PTL

(* The report compares only cases of one workload, and each with the raw   *)
(* one that went to the physical server, for any options (workloadKey of   *)
(* internal/report).                                                       *)
THEOREM CommandsBaselines == Spec => []BaselinesAreComparable
<1>1. CInv => BaselinesAreComparable
  <2> SUFFICES ASSUME CInv, Accepted PROVE Comparable(options, matrix)
    BY DEF BaselinesAreComparable
  <2>1. options \in Options /\ matrix = Generate(options) /\ matrix.accepted
    BY OptionsAreOptions DEF CInv, Accepted, Generated
  <2> QED
    BY <2>1, GeneratedAreComparable
<1> QED
  BY <1>1, CommandsInvariance, PTL

(* The cases a plan is made for. *)
Counted(c) == c.warmups \in Nat /\ c.repetitions \in Nat

LEMMA CasesCounted ==
  ASSUME CInv, matrix.accepted
  PROVE  /\ Listed(matrix.cases) /\ IsInjective(RunIDs(matrix.cases)) /\ HasControl \in BOOLEAN
         /\ \A c \in ToSet(matrix.cases) : Counted(c)
<1>1. CASE options = None
  <2>1. matrix \in HandMade /\ IsInjective(RunIDs(matrix.cases))
    BY <1>1, CommandsAssumption DEF CInv, CommandsAssumption
  <2> DEFINE C == [runID : STRING, warmups : Nat, repetitions : Nat]
  <2>2. matrix.cases \in Seq(C) /\ matrix.hasControl \in BOOLEAN
    BY <2>1 DEF HandMade
  <2>3. HasControl \in BOOLEAN
    BY <1>1, <2>2 DEF HasControl
  <2>4. \A c \in C : Counted(c)
    BY DEF Counted
  <2> HIDE DEF C
  <2>5. Listed(matrix.cases)
    BY <2>2, SeqListed
  <2>6. \A c \in ToSet(matrix.cases) : c \in C
    BY <2>2 DEF ToSet
  <2> QED
    BY <2>1, <2>3, <2>4, <2>5, <2>6
<1>2. CASE options # None
  <2>1. options \in Options /\ matrix = Generate(options)
    BY <1>2, OptionsAreOptions, NothingIsNoMatrix DEF CInv
  <2> DEFINE o == ApplyPresetDefaults(options)
  <2>2. /\ Completed(options, o) /\ Complete(o) /\ ValidMatrix(Cases(o), Control(o))
        /\ \A c \in ToSet(matrix.cases) : \E kind, w : Shape(o, kind, w, c, TargetOf(o, kind), c.workload)
    BY <2>1, AcceptedCases
  <2>3. matrix.cases = Cases(o) /\ ~Malformed(options)
    BY <2>1, Accepts
  <2> HIDE DEF o
  <2>4. IsInjective(RunIDs(matrix.cases))
    BY <2>2, <2>3 DEF ValidMatrix
  <2>5. Listed(SelectedSubjects(o)) /\ Listed(Workloads(o))
    BY <2>1, <2>2, <2>3, OptionsListed
  <2>6. Listed(matrix.cases)
    BY <2>3, <2>5, CasesAre
  <2>7. ASSUME NEW c \in ToSet(matrix.cases) PROVE Counted(c)
    <3>1. c.warmups = o.warmups /\ c.repetitions = o.repetitions
      BY <2>2 DEF Shape
    <3> QED
      BY <2>2, <3>1 DEF Complete, Counted
  <2>8. HasControl \in BOOLEAN
    BY <1>2 DEF HasControl
  <2> QED
    BY <2>4, <2>6, <2>7, <2>8
<1> QED
  BY <1>1, <1>2

(* Whatever is asked of generate-matrix or written by hand, and however    *)
(* the cases are shuffled, the jobs of a matrix are each repetition of     *)
(* each case once, in order and between its own raw controls               *)
(* (buildMatrixState of cmd/inbound-bench/main.go).                        *)
THEOREM CommandsEveryRepetitionOnce == Spec => []EveryRepetitionRunsOnce
<1>1. CInv => EveryRepetitionRunsOnce
  <2> SUFFICES ASSUME CInv, plan # <<>>
               PROVE  EachRepetitionOnce(plan, Of("warmups"), Of("repetitions"), HasControl)
    BY DEF EveryRepetitionRunsOnce
  <2> DEFINE cases == matrix.cases
             warmups == Of("warmups")
             repetitions == Of("repetitions")
             caseOf(id) == CHOOSE c \in ToSet(cases) : c.runID = id
  <2>1. /\ Listed(cases) /\ IsInjective(RunIDs(cases)) /\ HasControl \in BOOLEAN
        /\ \A c \in ToSet(cases) : Counted(c)
    BY CasesCounted DEF CInv
  <2>2. PICK n \in Nat : cases = [i \in 1..n |-> cases[i]]
    BY <2>1 DEF Listed
  <2> DEFINE runIDs == RunIDs(cases)
  <2>3. DOMAIN runIDs = 1..n /\ IDs = ToSet(runIDs) /\ runIDs \in Seq(IDs) /\ IsInjective(runIDs)
    <3>1. runIDs = [i \in 1..n |-> cases[i].runID] /\ IDs = ToSet(runIDs)
      BY <2>2 DEF RunIDs, IDs
    <3>2. runIDs \in [1..n -> IDs]
      BY <3>1 DEF ToSet
    <3> QED
      BY <2>1, <3>1, <3>2
  <2>4. IsFiniteSet(IDs)
    <3>1. IsFiniteSet(1..n)
      BY FS_Interval
    <3>2. IDs = {runIDs[i] : i \in 1..n}
      BY <2>3 DEF ToSet
    <3> DEFINE f == [i \in 1..n |-> runIDs[i]]
    <3>3. f \in Surjection(1..n, IDs)
      <4> HIDE DEF runIDs
      <4> QED
        BY <3>2 DEF Surjection
    <3> HIDE DEF f
    <3> QED
      BY <3>1, <3>3, FS_Surjection
  <2>5. ASSUME NEW id \in IDs PROVE caseOf(id) \in ToSet(cases)
    <3>1. PICK i \in 1..n : id = cases[i].runID
      BY <2>2, <2>3 DEF RunIDs, ToSet
    <3>2. cases[i] \in ToSet(cases)
      BY <2>2 DEF ToSet
    <3> QED
      BY <3>1, <3>2
  <2>6. warmups \in [IDs -> Nat] /\ repetitions \in [IDs -> Nat]
    <3>1. warmups = [id \in IDs |-> caseOf(id).warmups] /\ repetitions = [id \in IDs |-> caseOf(id).repetitions]
      BY DEF Of
    <3>2. \A id \in IDs : Counted(caseOf(id))
      BY <2>1, <2>5
    <3> HIDE DEF caseOf, warmups, repetitions
    <3> QED
      BY <3>1, <3>2 DEF Counted
  <2>7. \A order \in Orders : Ordering(order, IDs)
    <3>1. Ordering(runIDs, IDs)
      BY <2>3 DEF Ordering, ToSet
    <3>2. ASSUME NEW order \in [DOMAIN cases -> IDs], IsInjective(order), ToSet(order) = IDs
          PROVE  Ordering(order, IDs)
      <4>1. DOMAIN cases = 1..n
        BY <2>2
      <4>2. order \in Seq(IDs) /\ DOMAIN order = 1..n
        BY <4>1
      <4> QED
        BY <3>2, <4>2 DEF Ordering, ToSet
    <3> QED
      BY <3>1, <3>2 DEF Orders
  <2>8. PICK order \in [0..(Blocks(warmups, repetitions) - 1) -> Orders] :
          plan = BuildMatrixState(warmups, repetitions, HasControl, order)
    BY DEF CInv, Planned
  <2> HIDE DEF warmups, repetitions, cases, runIDs
  <2>9. Blocks(warmups, repetitions) \in Nat
    BY <2>4, <2>6, EnoughBlocks
  <2>10. \A b \in Nat : b < Blocks(warmups, repetitions) => Ordering(order[b], IDs)
    BY <2>7, <2>8, <2>9
  <2> QED
    BY <2>1, <2>4, <2>6, <2>8, <2>10, PlanRunsEachRepetitionOnce DEF warmups, repetitions
<1> QED
  BY <1>1, CommandsInvariance, PTL
=============================================================================
