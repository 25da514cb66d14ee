---------------------------- MODULE WorkerProofs ----------------------------
(***************************************************************************)
(* Proofs about Tcp, and about Worker, which runs it in a process of its   *)
(* own, for any number of connections, requests and faults, any payload,   *)
(* acknowledgement interval and buffer.                                    *)
(*                                                                         *)
(* Of Tcp: no client counts more than the server did for it, the two never *)
(* wait for each other, and what a complete workload has counted is what   *)
(* it was asked for.  The invariant is a ledger of each connection: what   *)
(* the two ends have counted against the frames that are under way.  It is *)
(* stated about the values of one connection (p, k, o: the client's place, *)
(* completed, operations; l: the link; u, d: the frames up and down; s, n: *)
(* the server's place, served), so that a step of one connection is an     *)
(* argument about values, and all others are left alone.  Accounts says in *)
(* the same way what a client has counted of its share of the requests.    *)
(*                                                                         *)
(* Of Worker: the workload keeps its ledgers when its process may be       *)
(* killed at any time, and what the controller accepts was sampled after   *)
(* the workload and before its connections were closed.                    *)
(***************************************************************************)
EXTENDS Worker, Sums

Awaiting == {"backlog", "header"}

(* Where the two ends and the link between them can be. *)
Placed(p, l, s) ==
  /\ s \in {"none", "closed"} \cup Awaiting \cup ({config.mode} \ {"short", "idle"})
  /\ p = "start" => l = "none" /\ s = "none"
  /\ p = "dial" /\ config.mode # "short" => l = "none" /\ s = "none"
  /\ p = "next" => config.mode # "idle"
  /\ p = "send" => config.mode = "short"
  /\ p = "reply" => config.mode \in {"echo", "short", "download"}
  /\ p \in {"ack", "final"} => config.mode = "upload"
  /\ p \in Dialled => config.mode = "idle"
  /\ l = "open" => /\ p \in {"next", "send", "reply", "ack", "final", "held"}
                   /\ p = "next" => config.mode # "short"
                   /\ s # "none"
  /\ p \in {"send", "reply", "ack", "final", "held"} => l \in {"open", "broken"}
  /\ p = "next" /\ config.mode # "short" => l \in {"open", "broken"}

(* Nothing is counted before the connection is, and the client counts the  *)
(* operations it has completed.                                            *)
Counted(p, k, o, s, n) ==
  config.mode # "short" =>
    /\ p \in {"start", "dial"} => k = 0
    /\ s \in {"none"} \cup Awaiting => n = 0
    /\ config.mode # "idle" => o = k

Bounded(q, m) == \A i \in DOMAIN q : q[i].sequence <= m
DataBounded(q, m) == \A i \in DOMAIN q : q[i].op = "data" => q[i].sequence <= m

(* Echo and short: one request is under way while the client waits.        *)
OneUnderWay(p, l, u, d, s) ==
  config.mode \in {"echo", "short"} =>
    /\ \A i \in DOMAIN u : u[i].op = config.mode
    /\ l = "open" /\ s # "closed" => Len(u) + Len(d) = (IF p = "reply" THEN 1 ELSE 0)

EchoLedger(k, u, d, n) ==
  config.mode = "echo" => Bounded(u, n + 1) /\ Bounded(d, n) /\ k <= n

DownloadLedger(k, l, u, d, s, n) ==
  config.mode = "download" =>
    /\ Bounded(d, n) /\ k <= n
    /\ \A i \in DOMAIN u : u[i].op = "download"
    /\ s \in {"none"} \cup Awaiting => d = <<>>
    /\ l = "open" /\ s # "closed" => Len(u) = (IF s \in Awaiting THEN 1 ELSE 0)

(* Upload: the server has an acknowledgement under way exactly when the    *)
(* client waits for it and every block has arrived.                        *)
UploadLedger(p, k, l, u, d, s, n) ==
  config.mode = "upload" =>
    /\ DataBounded(u, k)
    /\ Bounded(d, n) /\ n <= k /\ k <= n + AckInterval
    /\ p \in {"next", "final"} => k - (k % AckInterval) <= n
    /\ p = "ack" => k % AckInterval = 0 /\ k > 0
    /\ p = "ended" => n = k
    /\ s \in Awaiting /\ u # <<>> => Head(u).op = "upload"
    /\ l = "open" /\ s # "closed" =>
         /\ Len(u) = (IF s = "upload" THEN 0 ELSE 1) + (k - n) + (IF p = "final" THEN 1 ELSE 0)
         /\ Len(d) = (IF p = "ack" /\ n = k THEN 1 ELSE 0)

(* Idle: no frame at all, and an operation for each connection held. *)
IdleLedger(p, o, u, d) ==
  config.mode = "idle" =>
    /\ u = <<>> /\ d = <<>>
    /\ p \in {"start", "dial", "refused"} => o = 0
    /\ p # "failed"

Ledger(p, k, o, l, u, d, s, n) ==
  /\ Placed(p, l, s)
  /\ Counted(p, k, o, s, n)
  /\ OneUnderWay(p, l, u, d, s)
  /\ EchoLedger(k, u, d, n)
  /\ DownloadLedger(k, l, u, d, s, n)
  /\ UploadLedger(p, k, l, u, d, s, n)
  /\ IdleLedger(p, o, u, d)

LedgerOf(c) ==
  Ledger(pc[c], completed[c], operations[c], link[c], up[c], down[c], server[c], served[c])

(* Before RunDetailed is called no goroutine has begun.                    *)
NotBegun == run = "before" => \A c \in Connections : pc[c] = "start"

TInv == TypeOK /\ NotBegun /\ \A c \in Connections : LedgerOf(c)

-----------------------------------------------------------------------------
(* Arithmetic, and sequences of frames.                                    *)
LEMMA NextRemainder ==
  ASSUME NEW i \in Nat, NEW n \in Nat \ {0}
  PROVE  (i + 1) % n = 0 \/ (i + 1) % n = (i % n) + 1
<1> DEFINE q == i \div n
           r == i % n
           p == (i + 1) \div n
           s == (i + 1) % n
<1>1. q \in Nat /\ p \in Nat /\ r \in 0 .. n - 1 /\ s \in 0 .. n - 1
  <2>1. i + 1 \in Nat
    OBVIOUS
  <2> QED
    BY <2>1, Quotient
<1>2. n * (p - q) = r + 1 - s
  <2>1. i = n * q + r /\ i + 1 = n * p + s
    <3>1. i + 1 \in Nat
      OBVIOUS
    <3> QED
      BY <3>1, Quotient
  <2> HIDE DEF q, r, p, s
  <2> QED
    BY <1>1, <2>1
<1> HIDE DEF q, r, p, s
<1>3. CASE p - q <= -1
  <2>1. n * (p - q) <= -n
    BY <1>1, <1>3
  <2> QED
    BY <1>1, <1>2, <2>1
<1>4. CASE p - q = 0
  BY <1>1, <1>2, <1>4 DEF r, s
<1>5. CASE p - q >= 1
  <2>1. n * (p - q) >= n
    BY <1>1, <1>5
  <2> QED
    BY <1>1, <1>2, <2>1 DEF s
<1> QED
  BY <1>1, <1>3, <1>4, <1>5

(* Between a number and its last multiple lies no other multiple.          *)
LEMMA NoMultipleBetween ==
  ASSUME NEW i \in Nat, NEW n \in Nat \ {0}, NEW j \in Nat, j % n = 0,
         i - (i % n) < j, j < i - (i % n) + n
  PROVE  FALSE
<1> DEFINE q == i \div n
           p == j \div n
<1>1. q \in Nat /\ p \in Nat /\ i - (i % n) = n * q /\ j = n * p
  BY Quotient
<1> HIDE DEF q, p
<1>2. CASE p <= q
  <2>1. n * (q - p) >= 0
    BY <1>1, <1>2
  <2> QED
    BY <1>1, <2>1
<1>3. CASE p >= q + 1
  <2>1. n * (p - q - 1) >= 0
    BY <1>1, <1>3
  <2>2. n * (p - q - 1) = n * p - n * q - n
    BY <1>1
  <2> QED
    BY <1>1, <2>1, <2>2
<1> QED
  BY <1>1, <1>2, <1>3

LEMMA LastMultiple ==
  ASSUME NEW i \in Nat, NEW n \in Nat \ {0}, i % n = 0, i > 0
  PROVE  i - n \in Nat /\ (i - n) % n = 0
<1> DEFINE q == i \div n
<1>1. q \in Nat /\ i = n * q
  BY Quotient
<1> HIDE DEF q
<1>2. q >= 1
  BY <1>1
<1>3. n * (q - 1) >= 0 /\ n * (q - 1) = i - n
  BY <1>1, <1>2
<1>4. i - n \in Nat
  BY <1>1, <1>3
<1> DEFINE j == i - n
           p == j \div n
           r == j % n
<1>5. j = n * p + r /\ p \in Nat /\ r \in 0 .. n - 1
  BY <1>4, Quotient
<1> SUFFICES r = 0
  BY <1>4
<1>6. j = n * (q - 1) /\ j \in Nat
  BY <1>3, <1>4
<1> HIDE DEF j, p, r
<1>7. n * (q - 1 - p) = r
  BY <1>1, <1>5, <1>6
<1>8. CASE q - 1 - p >= 1
  <2>1. n * (q - 1 - p) >= n
    BY <1>1, <1>5, <1>8
  <2> QED
    BY <1>5, <1>7, <2>1
<1>9. CASE q - 1 - p <= 0
  <2>1. n * (q - 1 - p) <= 0
    BY <1>1, <1>5, <1>9
  <2> QED
    BY <1>5, <1>7, <2>1
<1> QED
  BY <1>1, <1>5, <1>8, <1>9

LEMMA ConfigOK ==
  ASSUME TypeOK
  PROVE  /\ config.mode \in Mode
         /\ AckInterval \in Nat \ {0}
         /\ \A c \in Connections : c \in Nat /\ Share(c) \in Nat
<1>1. /\ config.mode \in Mode /\ config.connections \in Nat \ {0} /\ config.requests \in Nat
      /\ config.payload \in Nat \ {0} /\ AckWindow \in Nat \ {0}
  BY TcpAssumption DEF TcpAssumption, TypeOK, Config
<1>2. AckInterval \in Nat \ {0}
  <2>1. CASE config.payload >= AckWindow
    BY <2>1 DEF AckInterval
  <2>2. CASE ~(config.payload >= AckWindow)
    <3> DEFINE q == AckWindow \div config.payload
    <3>1. q \in Nat /\ AckWindow = config.payload * q + (AckWindow % config.payload)
          /\ AckWindow % config.payload \in 0 .. config.payload - 1
      BY <1>1, Quotient
    <3>2. q # 0
      BY <1>1, <2>2, <3>1
    <3> QED
      BY <2>2, <3>1, <3>2 DEF AckInterval
  <2> QED
    BY <2>1, <2>2
<1>3. \A c \in Connections : c \in Nat /\ Share(c) \in Nat
  <2>1. config.requests \div config.connections \in Nat
    BY <1>1, Quotient
  <2> QED
    BY <1>1, <2>1 DEF Connections, Share
<1> QED
  BY <1>1, <1>2, <1>3

LEMMA TailOf ==
  ASSUME NEW q \in Seq(Frame), q # <<>>
  PROVE  /\ Head(q) \in Frame /\ 1 \in DOMAIN q /\ Head(q) = q[1]
         /\ Tail(q) \in Seq(Frame) /\ Len(Tail(q)) = Len(q) - 1 /\ Len(q) > 0
         /\ \A i \in DOMAIN Tail(q) : i + 1 \in DOMAIN q /\ Tail(q)[i] = q[i + 1]
OBVIOUS

LEMMA AppendTo ==
  ASSUME NEW q \in Seq(Frame), NEW f \in Frame
  PROVE  /\ Append(q, f) \in Seq(Frame) /\ Len(Append(q, f)) = Len(q) + 1
         /\ Append(q, f) # <<>>
         /\ \A i \in DOMAIN Append(q, f) :
              \/ i \in DOMAIN q /\ Append(q, f)[i] = q[i]
              \/ Append(q, f)[i] = f
         /\ Head(Append(q, f)) = (IF q = <<>> THEN f ELSE Head(q))
<1>1. Append(q, f) \in Seq(Frame) /\ Len(Append(q, f)) = Len(q) + 1 /\ Append(q, f) # <<>>
  OBVIOUS
<1>2. \A i \in DOMAIN Append(q, f) :
        \/ i \in DOMAIN q /\ Append(q, f)[i] = q[i]
        \/ Append(q, f)[i] = f
  OBVIOUS
<1>3. Head(Append(q, f)) = Append(q, f)[1]
  BY <1>1
<1>4. CASE q = <<>>
  BY <1>3, <1>4
<1>5. CASE q # <<>>
  <2>1. Len(q) \in Nat /\ Len(q) # 0 /\ Head(q) = q[1]
    BY <1>5
  <2>2. Append(q, f)[1] = q[1]
    BY <2>1
  <2> QED
    BY <1>3, <1>5, <2>1, <2>2
<1> QED
  BY <1>1, <1>2, <1>4, <1>5

LEMMA NewFrameOK ==
  ASSUME NEW op \in Operation, NEW m \in Nat
  PROVE  /\ NewFrame(op, m) \in Frame /\ NewFrame(op, m).op = op
         /\ NewFrame(op, m).sequence = m
BY DEF NewFrame, Frame

LEMMA BoundedKept ==
  ASSUME NEW q \in Seq(Frame), NEW m \in Nat, NEW j \in Nat, m <= j, Bounded(q, m)
  PROVE  /\ Bounded(q, j) /\ Bounded(<<>>, j)
         /\ q # <<>> => Bounded(Tail(q), j) /\ Head(q).sequence <= m
         /\ \A f \in Frame : f.sequence <= j => Bounded(Append(q, f), j)
<1>0. \A i \in DOMAIN q : q[i] \in Frame
  OBVIOUS
<1>1. \A i \in DOMAIN q : q[i].sequence \in Nat /\ q[i].sequence <= j
  BY <1>0 DEF Bounded, Frame
<1>2. Bounded(q, j) /\ Bounded(<<>>, j)
  BY <1>1 DEF Bounded
<1>3. ASSUME q # <<>> PROVE Bounded(Tail(q), j) /\ Head(q).sequence <= m
  BY <1>1, <1>3, TailOf DEF Bounded
<1>4. ASSUME NEW f \in Frame, f.sequence <= j PROVE Bounded(Append(q, f), j)
  BY <1>1, <1>4, AppendTo DEF Bounded
<1> QED
  BY <1>2, <1>3, <1>4

LEMMA DataBoundedKept ==
  ASSUME NEW q \in Seq(Frame), NEW m \in Nat, NEW j \in Nat, m <= j, DataBounded(q, m)
  PROVE  /\ DataBounded(q, j) /\ DataBounded(<<>>, j)
         /\ q # <<>> => /\ DataBounded(Tail(q), j)
                        /\ Head(q).op = "data" => Head(q).sequence <= m
         /\ \A f \in Frame :
              (f.op = "data" => f.sequence <= j) => DataBounded(Append(q, f), j)
<1>0. \A i \in DOMAIN q : q[i] \in Frame
  OBVIOUS
<1>1. \A i \in DOMAIN q : q[i].op = "data" => q[i].sequence \in Nat /\ q[i].sequence <= j
  BY <1>0 DEF DataBounded, Frame
<1>2. DataBounded(q, j) /\ DataBounded(<<>>, j)
  BY <1>1 DEF DataBounded
<1>3. ASSUME q # <<>>
      PROVE  DataBounded(Tail(q), j) /\ (Head(q).op = "data" => Head(q).sequence <= m)
  BY <1>1, <1>3, TailOf DEF DataBounded
<1>4. ASSUME NEW f \in Frame, f.op = "data" => f.sequence <= j
      PROVE  DataBounded(Append(q, f), j)
  BY <1>1, <1>4, AppendTo DEF DataBounded
<1> QED
  BY <1>2, <1>3, <1>4

-----------------------------------------------------------------------------
(* Steps of a connection, on its values.                                   *)

(* A client that leaves keeps its ledger. *)
LEMMA LeaveKeeps ==
  ASSUME NEW p, NEW k \in Nat, NEW o \in Nat, NEW l, NEW u \in Seq(Frame),
         NEW d \in Seq(Frame), NEW s, NEW n \in Nat, Ledger(p, k, o, l, u, d, s, n),
         NEW q,
         NEW m,
         NEW e \in Seq(Frame),
         e = d \/ (d # <<>> /\ e = Tail(d)),
         q \in {"failed", "dropped", "ended"},
         q = "failed" => config.mode # "idle",
         q = "ended" => config.mode # "upload",
         m # "open"
  PROVE  Ledger(q, k, o, m, u, e, s, n)
<1>b. (\A j \in Nat : Bounded(d, j) => Bounded(e, j)) /\ (d = <<>> => e = <<>>)
  <2>1. ASSUME NEW j \in Nat, Bounded(d, j) PROVE Bounded(e, j)
    <3>1. d # <<>> => Bounded(Tail(d), j)
      BY <2>1, BoundedKept
    <3> QED
      BY <2>1, <3>1
  <2> QED
    BY <2>1
<1>1. Placed(q, m, s)
  BY <1>b DEF Ledger, Placed, Awaiting, Dialled, Over
<1>2. Counted(q, k, o, s, n)
  BY <1>b DEF Ledger, Counted, Awaiting
<1>3. OneUnderWay(q, m, u, e, s)
  BY <1>b DEF Ledger, OneUnderWay
<1>4. EchoLedger(k, u, e, n)
  BY <1>b DEF Ledger, EchoLedger
<1>5. DownloadLedger(k, m, u, e, s, n)
  BY <1>b DEF Ledger, DownloadLedger, Awaiting
<1>6. UploadLedger(q, k, m, u, e, s, n)
  BY <1>b DEF Ledger, UploadLedger, Awaiting
<1>7. IdleLedger(q, o, u, e)
  BY <1>b DEF Ledger, IdleLedger
<1> QED
  BY <1>1, <1>2, <1>3, <1>4, <1>5, <1>6, <1>7 DEF Ledger

(* An upload that ends with its final acknowledgement. *)
LEMMA EndedUpload ==
  ASSUME NEW p, NEW k \in Nat, NEW o \in Nat, NEW l, NEW u \in Seq(Frame),
         NEW d \in Seq(Frame), NEW s, NEW n \in Nat, Ledger(p, k, o, l, u, d, s, n),
         NEW m,
         NEW e \in Seq(Frame),
         config.mode = "upload",
         n = k,
         m # "open",
         Bounded(e, n)
  PROVE  Ledger("ended", k, o, m, u, e, s, n)
<1>1. Placed("ended", m, s)
  BY DEF Ledger, Placed, Awaiting, Dialled, Over
<1>2. Counted("ended", k, o, s, n)
  BY DEF Ledger, Counted, Awaiting
<1>3. OneUnderWay("ended", m, u, e, s)
  BY DEF Ledger, OneUnderWay
<1>4. EchoLedger(k, u, e, n)
  BY BoundedKept DEF Ledger, EchoLedger
<1>5. DownloadLedger(k, m, u, e, s, n)
  BY BoundedKept DEF Ledger, DownloadLedger, Awaiting
<1>6. UploadLedger("ended", k, m, u, e, s, n)
  BY BoundedKept, DataBoundedKept DEF Ledger, UploadLedger, Awaiting
<1>7. IdleLedger("ended", o, u, e)
  BY DEF Ledger, IdleLedger
<1> QED
  BY <1>1, <1>2, <1>3, <1>4, <1>5, <1>6, <1>7 DEF Ledger

(* A short attempt is over. *)
LEMMA ShortGoesOn ==
  ASSUME NEW p, NEW k \in Nat, NEW o \in Nat, NEW l, NEW u \in Seq(Frame),
         NEW d \in Seq(Frame), NEW s, NEW n \in Nat, Ledger(p, k, o, l, u, d, s, n),
         NEW m,
         NEW j \in Nat,
         NEW i \in Nat,
         NEW e \in Seq(Frame),
         config.mode = "short",
         m # "open"
  PROVE  Ledger("next", j, i, m, u, e, s, n)
<1>1. Placed("next", m, s)
  BY DEF Ledger, Placed, Awaiting, Dialled, Over
<1>2. Counted("next", j, i, s, n)
  BY DEF Ledger, Counted, Awaiting
<1>3. OneUnderWay("next", m, u, e, s)
  BY DEF Ledger, OneUnderWay
<1>4. EchoLedger(j, u, e, n)
  BY BoundedKept DEF Ledger, EchoLedger
<1>5. DownloadLedger(j, m, u, e, s, n)
  BY BoundedKept DEF Ledger, DownloadLedger, Awaiting
<1>6. UploadLedger("next", j, m, u, e, s, n)
  BY BoundedKept, DataBoundedKept DEF Ledger, UploadLedger, Awaiting
<1>7. IdleLedger("next", i, u, e)
  BY DEF Ledger, IdleLedger
<1> QED
  BY <1>1, <1>2, <1>3, <1>4, <1>5, <1>6, <1>7 DEF Ledger

(* The goroutines begin. *)
LEMMA BeginKeeps ==
  ASSUME NEW p, NEW k \in Nat, NEW o \in Nat, NEW l, NEW u \in Seq(Frame),
         NEW d \in Seq(Frame), NEW s, NEW n \in Nat, Ledger(p, k, o, l, u, d, s, n),
         NEW q,
         p = "start",
         q = (IF config.mode = "short" THEN "next" ELSE "dial")
  PROVE  Ledger(q, k, o, l, u, d, s, n)
<1>1. Placed(q, l, s)
  BY DEF Ledger, Placed, Awaiting, Dialled, Over
<1>2. Counted(q, k, o, s, n)
  BY DEF Ledger, Counted, Awaiting
<1>3. OneUnderWay(q, l, u, d, s)
  BY DEF Ledger, OneUnderWay
<1>4. EchoLedger(k, u, d, n)
  BY BoundedKept DEF Ledger, EchoLedger
<1>5. DownloadLedger(k, l, u, d, s, n)
  BY BoundedKept DEF Ledger, DownloadLedger, Awaiting
<1>6. UploadLedger(q, k, l, u, d, s, n)
  BY BoundedKept, DataBoundedKept DEF Ledger, UploadLedger, Awaiting
<1>7. IdleLedger(q, o, u, d)
  BY DEF Ledger, IdleLedger
<1> QED
  BY <1>1, <1>2, <1>3, <1>4, <1>5, <1>6, <1>7 DEF Ledger

(* A new connection. *)
LEMMA DialKeeps ==
  ASSUME NEW p, NEW k \in Nat, NEW o \in Nat, NEW l, NEW u \in Seq(Frame),
         NEW d \in Seq(Frame), NEW s, NEW n \in Nat, Ledger(p, k, o, l, u, d, s, n),
         NEW v \in Seq(Frame),
         p = "dial",
         config.mode \in Mode,
         IF config.mode \in {"upload", "download"} THEN Len(v) = 1 /\ v[1].op = config.mode
           ELSE v = <<>>,
         AckInterval \in Nat \ {0}
  PROVE  Ledger(AfterDial, k, (IF config.mode = "idle" THEN 1 ELSE o), "open", v, <<>>, "backlog", n)
<1>1. Placed(AfterDial, "open", "backlog")
  BY DEF Ledger, AfterDial, Mode, Placed, Awaiting, Dialled, Over
<1>2. Counted(AfterDial, k, (IF config.mode = "idle" THEN 1 ELSE o), "backlog", n)
  BY DEF Ledger, Placed, Counted, Awaiting
<1>3. OneUnderWay(AfterDial, "open", v, <<>>, "backlog")
  BY DEF Ledger, AfterDial, Mode, OneUnderWay
<1>4. EchoLedger(k, v, <<>>, n)
  BY BoundedKept DEF Ledger, AfterDial, Mode, EchoLedger
<1>5. DownloadLedger(k, "open", v, <<>>, "backlog", n)
  BY BoundedKept DEF Ledger, AfterDial, Mode, DownloadLedger, Awaiting
<1>6. UploadLedger(AfterDial, k, "open", v, <<>>, "backlog", n)
  <2>1. ASSUME config.mode = "upload"
        PROVE  k = 0 /\ n = 0 /\ AfterDial = "next" /\ o = k /\ s = "none"
    BY <2>1 DEF Ledger, Placed, Counted, AfterDial
  <2>2. ASSUME config.mode = "upload" PROVE DataBounded(v, k) /\ Bounded(<<>>, n)
    BY <2>1, <2>2 DEF DataBounded, Bounded
  <2>3. ASSUME config.mode = "upload" PROVE k - (k % AckInterval) <= n /\ k <= n + AckInterval
    BY <2>1, <2>3, Quotient
  <2>4. Len(<<>>) = 0 /\ (Len(v) = 1 => Head(v) = v[1])
    OBVIOUS
  <2> QED
    BY <2>1, <2>2, <2>3, <2>4 DEF UploadLedger, Awaiting
<1>7. IdleLedger(AfterDial, (IF config.mode = "idle" THEN 1 ELSE o), v, <<>>)
  BY DEF Ledger, AfterDial, Mode, IdleLedger
<1> QED
  BY <1>1, <1>2, <1>3, <1>4, <1>5, <1>6, <1>7 DEF Ledger

(* RunIdle goes on without a connection that was refused. *)
LEMMA RefusedKeeps ==
  ASSUME NEW p, NEW k \in Nat, NEW o \in Nat, NEW l, NEW u \in Seq(Frame),
         NEW d \in Seq(Frame), NEW s, NEW n \in Nat, Ledger(p, k, o, l, u, d, s, n),
         p = "dial",
         config.mode = "idle"
  PROVE  Ledger("refused", k, o, l, u, d, s, n)
<1>1. Placed("refused", l, s)
  BY DEF Ledger, Placed, Awaiting, Dialled, Over
<1>2. Counted("refused", k, o, s, n)
  BY DEF Ledger, Counted, Awaiting
<1>3. OneUnderWay("refused", l, u, d, s)
  BY DEF Ledger, OneUnderWay
<1>4. EchoLedger(k, u, d, n)
  BY BoundedKept DEF Ledger, EchoLedger
<1>5. DownloadLedger(k, l, u, d, s, n)
  BY BoundedKept DEF Ledger, DownloadLedger, Awaiting
<1>6. UploadLedger("refused", k, l, u, d, s, n)
  BY BoundedKept, DataBoundedKept DEF Ledger, UploadLedger, Awaiting
<1>7. IdleLedger("refused", o, u, d)
  BY DEF Ledger, IdleLedger
<1> QED
  BY <1>1, <1>2, <1>3, <1>4, <1>5, <1>6, <1>7 DEF Ledger

(* A request of an echo or short connection. *)
LEMMA RequestKeeps ==
  ASSUME NEW p, NEW k \in Nat, NEW o \in Nat, NEW l, NEW u \in Seq(Frame),
         NEW d \in Seq(Frame), NEW s, NEW n \in Nat, Ledger(p, k, o, l, u, d, s, n),
         NEW f \in Frame,
         (p = "next" /\ config.mode = "echo") \/ p = "send",
         l = "open",
         s # "closed",
         f.op = config.mode,
         f.sequence = k + 1
  PROVE  Ledger("reply", k, o, l, Append(u, f), d, s, n)
<1>m. config.mode \in {"echo", "short"}
  BY DEF Ledger, Placed
<1>1. Placed("reply", l, s)
  BY <1>m, AppendTo DEF Ledger, Placed, Awaiting, Dialled, Over
<1>2. Counted("reply", k, o, s, n)
  BY <1>m, AppendTo DEF Ledger, Counted, Awaiting
<1>3. OneUnderWay("reply", l, Append(u, f), d, s)
  BY <1>m, AppendTo DEF Ledger, OneUnderWay
<1>4. EchoLedger(k, Append(u, f), d, n)
  BY <1>m, AppendTo, BoundedKept DEF Ledger, EchoLedger
<1>5. DownloadLedger(k, l, Append(u, f), d, s, n)
  BY <1>m, AppendTo, BoundedKept DEF Ledger, DownloadLedger, Awaiting
<1>6. UploadLedger("reply", k, l, Append(u, f), d, s, n)
  BY <1>m, AppendTo, BoundedKept, DataBoundedKept DEF Ledger, UploadLedger,
     Awaiting
<1>7. IdleLedger("reply", o, Append(u, f), d)
  BY <1>m, AppendTo DEF Ledger, IdleLedger
<1> QED
  BY <1>1, <1>2, <1>3, <1>4, <1>5, <1>6, <1>7 DEF Ledger

(* The expected reply or block: the server has counted it before. *)
LEMMA ReplyKeeps ==
  ASSUME NEW p, NEW k \in Nat, NEW o \in Nat, NEW l, NEW u \in Seq(Frame),
         NEW d \in Seq(Frame), NEW s, NEW n \in Nat, Ledger(p, k, o, l, u, d, s, n),
         NEW e \in Seq(Frame),
         p = "reply",
         config.mode \in {"echo", "download"},
         d # <<>>,
         e = Tail(d),
         Head(d).sequence = k + 1
  PROVE  Ledger("next", k + 1, o + 1, l, u, e, s, n)
<1>1. Placed("next", l, s)
  BY TailOf DEF Ledger, Placed, Awaiting, Dialled, Over
<1>2. Counted("next", k + 1, o + 1, s, n)
  BY TailOf DEF Ledger, Counted, Awaiting
<1>3. OneUnderWay("next", l, u, e, s)
  BY TailOf DEF Ledger, OneUnderWay
<1>4. EchoLedger(k + 1, u, e, n)
  BY TailOf, BoundedKept DEF Ledger, EchoLedger
<1>5. DownloadLedger(k + 1, l, u, e, s, n)
  BY TailOf, BoundedKept DEF Ledger, DownloadLedger, Awaiting
<1>6. UploadLedger("next", k + 1, l, u, e, s, n)
  BY TailOf, BoundedKept, DataBoundedKept DEF Ledger, UploadLedger, Awaiting
<1>7. IdleLedger("next", o + 1, u, e)
  BY TailOf DEF Ledger, IdleLedger
<1> QED
  BY <1>1, <1>2, <1>3, <1>4, <1>5, <1>6, <1>7 DEF Ledger

(* The next attempt, or the next block. *)
LEMMA LoopKeeps ==
  ASSUME NEW p, NEW k \in Nat, NEW o \in Nat, NEW l, NEW u \in Seq(Frame),
         NEW d \in Seq(Frame), NEW s, NEW n \in Nat, Ledger(p, k, o, l, u, d, s, n),
         NEW q,
         p = "next",
         q = (IF config.mode = "short" THEN "dial" ELSE "reply"),
         config.mode \in {"short", "download"}
  PROVE  Ledger(q, k, o, l, u, d, s, n)
<1>1. Placed(q, l, s)
  BY DEF Ledger, Placed, Awaiting, Dialled, Over
<1>2. Counted(q, k, o, s, n)
  BY DEF Ledger, Counted, Awaiting
<1>3. OneUnderWay(q, l, u, d, s)
  BY DEF Ledger, OneUnderWay
<1>4. EchoLedger(k, u, d, n)
  BY BoundedKept DEF Ledger, EchoLedger
<1>5. DownloadLedger(k, l, u, d, s, n)
  BY BoundedKept DEF Ledger, DownloadLedger, Awaiting
<1>6. UploadLedger(q, k, l, u, d, s, n)
  BY BoundedKept, DataBoundedKept DEF Ledger, UploadLedger, Awaiting
<1>7. IdleLedger(q, o, u, d)
  BY DEF Ledger, IdleLedger
<1> QED
  BY <1>1, <1>2, <1>3, <1>4, <1>5, <1>6, <1>7 DEF Ledger

(* A block of an upload. *)
LEMMA BlockKeeps ==
  ASSUME NEW p, NEW k \in Nat, NEW o \in Nat, NEW l, NEW u \in Seq(Frame),
         NEW d \in Seq(Frame), NEW s, NEW n \in Nat, Ledger(p, k, o, l, u, d, s, n),
         NEW q,
         NEW f \in Frame,
         p = "next",
         config.mode = "upload",
         l = "open",
         f.op = "data",
         f.sequence = k + 1,
         s # "closed",
         q = (IF (k + 1) % AckInterval = 0 THEN "ack" ELSE "next"),
         AckInterval \in Nat \ {0}
  PROVE  Ledger(q, k + 1, o + 1, l, Append(u, f), d, s, n)
<1>1. Placed(q, l, s)
  BY AppendTo DEF Ledger, Placed, Awaiting, Dialled, Over
<1>2. Counted(q, k + 1, o + 1, s, n)
  BY AppendTo DEF Ledger, Counted, Awaiting
<1>3. OneUnderWay(q, l, Append(u, f), d, s)
  BY AppendTo DEF Ledger, OneUnderWay
<1>4. EchoLedger(k + 1, Append(u, f), d, n)
  BY AppendTo, BoundedKept DEF Ledger, EchoLedger
<1>5. DownloadLedger(k + 1, l, Append(u, f), d, s, n)
  BY AppendTo, BoundedKept DEF Ledger, DownloadLedger, Awaiting
<1>6. UploadLedger(q, k + 1, l, Append(u, f), d, s, n)
  <2> DEFINE v == Append(u, f)
             h == IF s = "upload" THEN 0 ELSE 1
  <2>1. /\ DataBounded(u, k) /\ Bounded(d, n) /\ n <= k /\ k - (k % AckInterval) <= n
        /\ s \in Awaiting /\ u # <<>> => Head(u).op = "upload"
        /\ Len(u) = h + (k - n) /\ Len(d) = 0
    BY DEF Ledger, UploadLedger
  <2>2. DataBounded(v, k + 1)
    BY <2>1, DataBoundedKept
  <2>3. Len(v) = Len(u) + 1 /\ (u # <<>> => Head(v) = Head(u))
    BY AppendTo
  <2>4. k + 1 <= n + AckInterval
    BY <2>1, Quotient
  <2>5. q = "next" => k + 1 - ((k + 1) % AckInterval) <= n
    <3>1. k % AckInterval \in 0 .. AckInterval - 1
      BY Quotient
    <3>2. q = "next" => (k + 1) % AckInterval = (k % AckInterval) + 1
      BY NextRemainder
    <3> QED
      BY <2>1, <3>1, <3>2
  <2>6. q = "ack" => (k + 1) % AckInterval = 0
    OBVIOUS
  <2>7. s \in Awaiting => u # <<>>
    BY <2>1 DEF Awaiting
  <2>8. q \in {"ack", "next"} /\ n # k + 1
    BY <2>1
  <2>9. Len(v) = h + (k + 1 - n) /\ Bounded(d, n) /\ n <= k + 1
    BY <2>1, <2>3
  <2>10. (IF q = "final" THEN 1 ELSE 0) = 0 /\ (IF q = "ack" /\ n = k + 1 THEN 1 ELSE 0) = 0
    BY <2>8
  <2>11. h = IF s = "upload" THEN 0 ELSE 1
    OBVIOUS
  <2>12. s \in Awaiting => Head(v).op = "upload"
    BY <2>1, <2>3, <2>7
  <2> HIDE DEF h
  <2> QED
    BY <2>9, <2>10, <2>11, <2>12, <2>1, <2>2, <2>3, <2>4, <2>5, <2>6, <2>7, <2>8 DEF UploadLedger
<1>7. IdleLedger(q, o + 1, Append(u, f), d)
  BY AppendTo DEF Ledger, IdleLedger
<1> QED
  BY <1>1, <1>2, <1>3, <1>4, <1>5, <1>6, <1>7 DEF Ledger

(* The final frame of an upload. *)
LEMMA DoneKeeps ==
  ASSUME NEW p, NEW k \in Nat, NEW o \in Nat, NEW l, NEW u \in Seq(Frame),
         NEW d \in Seq(Frame), NEW s, NEW n \in Nat, Ledger(p, k, o, l, u, d, s, n),
         NEW f \in Frame,
         p = "next",
         config.mode = "upload",
         l = "open",
         f.op = "done",
         s # "closed",
         AckInterval \in Nat \ {0}
  PROVE  Ledger("final", k, o, l, Append(u, f), d, s, n)
<1>1. Placed("final", l, s)
  BY AppendTo DEF Ledger, Placed, Awaiting, Dialled, Over
<1>2. Counted("final", k, o, s, n)
  BY AppendTo DEF Ledger, Counted, Awaiting
<1>3. OneUnderWay("final", l, Append(u, f), d, s)
  BY AppendTo DEF Ledger, OneUnderWay
<1>4. EchoLedger(k, Append(u, f), d, n)
  BY AppendTo, BoundedKept DEF Ledger, EchoLedger
<1>5. DownloadLedger(k, l, Append(u, f), d, s, n)
  BY AppendTo, BoundedKept DEF Ledger, DownloadLedger, Awaiting
<1>6. UploadLedger("final", k, l, Append(u, f), d, s, n)
  <2> DEFINE v == Append(u, f)
             h == IF s = "upload" THEN 0 ELSE 1
  <2>1. /\ DataBounded(u, k) /\ Bounded(d, n) /\ n <= k /\ k - (k % AckInterval) <= n
        /\ k <= n + AckInterval
        /\ s \in Awaiting /\ u # <<>> => Head(u).op = "upload"
        /\ Len(u) = h + (k - n) /\ Len(d) = 0
    BY DEF Ledger, UploadLedger
  <2>2. DataBounded(v, k)
    BY <2>1, DataBoundedKept
  <2>3. Len(v) = Len(u) + 1 /\ (u # <<>> => Head(v) = Head(u))
    BY AppendTo
  <2>4. s \in Awaiting => u # <<>>
    BY <2>1 DEF Awaiting
  <2>5. Len(v) = h + (k - n) + 1
    BY <2>1, <2>3
  <2> QED
    BY <2>1, <2>2, <2>3, <2>4, <2>5 DEF UploadLedger
<1>7. IdleLedger("final", o, Append(u, f), d)
  BY AppendTo DEF Ledger, IdleLedger
<1> QED
  BY <1>1, <1>2, <1>3, <1>4, <1>5, <1>6, <1>7 DEF Ledger

(* The acknowledgement of an interval. *)
LEMMA AckKeeps ==
  ASSUME NEW p, NEW k \in Nat, NEW o \in Nat, NEW l, NEW u \in Seq(Frame),
         NEW d \in Seq(Frame), NEW s, NEW n \in Nat, Ledger(p, k, o, l, u, d, s, n),
         NEW e \in Seq(Frame),
         p = "ack",
         config.mode = "upload",
         d # <<>>,
         e = Tail(d),
         Head(d).sequence = k,
         AckInterval \in Nat \ {0}
  PROVE  Ledger("next", k, o, l, u, e, s, n)
<1>1. Placed("next", l, s)
  BY TailOf DEF Ledger, Placed, Awaiting, Dialled, Over
<1>2. Counted("next", k, o, s, n)
  BY TailOf DEF Ledger, Counted, Awaiting
<1>3. OneUnderWay("next", l, u, e, s)
  BY TailOf DEF Ledger, OneUnderWay
<1>4. EchoLedger(k, u, e, n)
  BY TailOf, BoundedKept DEF Ledger, EchoLedger
<1>5. DownloadLedger(k, l, u, e, s, n)
  BY TailOf, BoundedKept DEF Ledger, DownloadLedger, Awaiting
<1>6. UploadLedger("next", k, l, u, e, s, n)
  BY TailOf, BoundedKept, DataBoundedKept DEF Ledger, UploadLedger, Awaiting
<1>7. IdleLedger("next", o, u, e)
  BY TailOf DEF Ledger, IdleLedger
<1> QED
  BY <1>1, <1>2, <1>3, <1>4, <1>5, <1>6, <1>7 DEF Ledger

(* The server accepts. *)
LEMMA AcceptKeeps ==
  ASSUME NEW p, NEW k \in Nat, NEW o \in Nat, NEW l, NEW u \in Seq(Frame),
         NEW d \in Seq(Frame), NEW s, NEW n \in Nat, Ledger(p, k, o, l, u, d, s, n),
         s = "backlog"
  PROVE  Ledger(p, k, o, l, u, d, "header", 0)
<1>m. config.mode # "short" => n = 0
  BY DEF Ledger, Counted, Awaiting
<1>1. Placed(p, l, "header")
  BY <1>m DEF Ledger, Placed, Awaiting, Dialled, Over
<1>2. Counted(p, k, o, "header", 0)
  BY <1>m DEF Ledger, Counted, Awaiting
<1>3. OneUnderWay(p, l, u, d, "header")
  BY <1>m DEF Ledger, OneUnderWay
<1>4. EchoLedger(k, u, d, 0)
  BY <1>m, BoundedKept DEF Ledger, EchoLedger
<1>5. DownloadLedger(k, l, u, d, "header", 0)
  BY <1>m, BoundedKept DEF Ledger, DownloadLedger, Awaiting
<1>6. UploadLedger(p, k, l, u, d, "header", 0)
  BY <1>m, BoundedKept, DataBoundedKept DEF Ledger, UploadLedger, Awaiting
<1>7. IdleLedger(p, o, u, d)
  BY <1>m DEF Ledger, IdleLedger
<1> QED
  BY <1>1, <1>2, <1>3, <1>4, <1>5, <1>6, <1>7 DEF Ledger

(* An answered request. *)
LEMMA EchoKeeps ==
  ASSUME NEW p, NEW k \in Nat, NEW o \in Nat, NEW l, NEW u \in Seq(Frame),
         NEW d \in Seq(Frame), NEW s, NEW n \in Nat, Ledger(p, k, o, l, u, d, s, n),
         NEW t,
         NEW e \in Seq(Frame),
         s \in {"header", "echo"},
         u # <<>>,
         config.mode \in Mode,
         Head(u).op \in {"echo"} \cup (IF s = "header" THEN {"short"} ELSE {}),
         t = (IF Head(u).op = "short" THEN "closed" ELSE "echo"),
         IF l = "open" THEN e = Append(d, Head(u)) ELSE e = d
  PROVE  Ledger(p, k, o, l, Tail(u), e, t, n + 1)
<1>m. config.mode \in {"echo", "short"} /\ Head(u).op = config.mode
  BY TailOf DEF Ledger, Placed, OneUnderWay, DownloadLedger, UploadLedger, IdleLedger, Mode, Awaiting
<1>1. Placed(p, l, t)
  BY <1>m, TailOf, AppendTo DEF Ledger, Placed, Awaiting, Dialled, Over
<1>2. Counted(p, k, o, t, n + 1)
  BY <1>m, TailOf, AppendTo DEF Ledger, Counted, Awaiting
<1>3. OneUnderWay(p, l, Tail(u), e, t)
  BY <1>m, TailOf, AppendTo DEF Ledger, OneUnderWay
<1>4. EchoLedger(k, Tail(u), e, n + 1)
  <2> SUFFICES ASSUME config.mode = "echo"
               PROVE  Bounded(Tail(u), n + 2) /\ Bounded(e, n + 1) /\ k <= n + 1
    BY DEF EchoLedger
  <2>1. Bounded(u, n + 1) /\ Bounded(d, n) /\ k <= n
    BY DEF Ledger, EchoLedger
  <2>2. Bounded(Tail(u), n + 2) /\ Head(u).sequence <= n + 1 /\ Head(u) \in Frame
    BY <2>1, BoundedKept, TailOf
  <2>3. Bounded(e, n + 1)
    <3>1. Bounded(d, n + 1) /\ Bounded(Append(d, Head(u)), n + 1)
      BY <2>1, <2>2, BoundedKept
    <3> QED
      BY <3>1
  <2> QED
    BY <2>1, <2>2, <2>3
<1>5. DownloadLedger(k, l, Tail(u), e, t, n + 1)
  BY <1>m, TailOf, AppendTo, BoundedKept DEF Ledger, DownloadLedger, Awaiting
<1>6. UploadLedger(p, k, l, Tail(u), e, t, n + 1)
  BY <1>m, TailOf, AppendTo, BoundedKept, DataBoundedKept DEF Ledger,
     UploadLedger, Awaiting
<1>7. IdleLedger(p, o, Tail(u), e)
  BY <1>m, TailOf, AppendTo DEF Ledger, IdleLedger
<1> QED
  BY <1>1, <1>2, <1>3, <1>4, <1>5, <1>6, <1>7 DEF Ledger

(* The control frame of an upload or a download. *)
LEMMA ControlKeeps ==
  ASSUME NEW p, NEW k \in Nat, NEW o \in Nat, NEW l, NEW u \in Seq(Frame),
         NEW d \in Seq(Frame), NEW s, NEW n \in Nat, Ledger(p, k, o, l, u, d, s, n),
         NEW t,
         s = "header",
         u # <<>>,
         config.mode \in Mode,
         Head(u).op \in {"upload", "download"},
         t = Head(u).op
  PROVE  Ledger(p, k, o, l, Tail(u), d, t, n)
<1>m. config.mode \in {"upload", "download"} /\ Head(u).op = config.mode
  BY TailOf DEF Ledger, Placed, OneUnderWay, DownloadLedger, UploadLedger, IdleLedger, Mode, Awaiting
<1>1. Placed(p, l, t)
  BY <1>m, TailOf DEF Ledger, Placed, Awaiting, Dialled, Over
<1>2. Counted(p, k, o, t, n)
  BY <1>m, TailOf DEF Ledger, Counted, Awaiting
<1>3. OneUnderWay(p, l, Tail(u), d, t)
  BY <1>m, TailOf DEF Ledger, OneUnderWay
<1>4. EchoLedger(k, Tail(u), d, n)
  BY <1>m, TailOf, BoundedKept DEF Ledger, EchoLedger
<1>5. DownloadLedger(k, l, Tail(u), d, t, n)
  BY <1>m, TailOf, BoundedKept DEF Ledger, DownloadLedger, Awaiting
<1>6. UploadLedger(p, k, l, Tail(u), d, t, n)
  BY <1>m, TailOf, BoundedKept, DataBoundedKept DEF Ledger, UploadLedger,
     Awaiting
<1>7. IdleLedger(p, o, Tail(u), d)
  BY <1>m, TailOf DEF Ledger, IdleLedger
<1> QED
  BY <1>1, <1>2, <1>3, <1>4, <1>5, <1>6, <1>7 DEF Ledger

(* A block arrives; the acknowledgement is the one the client waits for. *)
LEMMA DataKeeps ==
  ASSUME NEW p, NEW k \in Nat, NEW o \in Nat, NEW l, NEW u \in Seq(Frame),
         NEW d \in Seq(Frame), NEW s, NEW n \in Nat, Ledger(p, k, o, l, u, d, s, n),
         NEW f \in Frame,
         NEW e \in Seq(Frame),
         s = "upload",
         u # <<>>,
         Head(u).op = "data",
         Head(u).sequence = n + 1,
         f.sequence = n + 1,
         IF (n + 1) % AckInterval = 0 /\ l = "open" THEN e = Append(d, f) ELSE e = d,
         AckInterval \in Nat \ {0}
  PROVE  Ledger(p, k, o, l, Tail(u), e, s, n + 1)
<1>m. config.mode = "upload" /\ n + 1 <= k
  BY DataBoundedKept DEF Ledger, Placed, UploadLedger, Awaiting
<1>1. Placed(p, l, s)
  BY <1>m, TailOf, AppendTo DEF Ledger, Placed, Awaiting, Dialled, Over
<1>2. Counted(p, k, o, s, n + 1)
  BY <1>m, TailOf, AppendTo DEF Ledger, Counted, Awaiting
<1>3. OneUnderWay(p, l, Tail(u), e, s)
  BY <1>m, TailOf, AppendTo DEF Ledger, OneUnderWay
<1>4. EchoLedger(k, Tail(u), e, n + 1)
  BY <1>m, TailOf, AppendTo, BoundedKept DEF Ledger, EchoLedger
<1>5. DownloadLedger(k, l, Tail(u), e, s, n + 1)
  BY <1>m, TailOf, AppendTo, BoundedKept DEF Ledger, DownloadLedger, Awaiting
<1>6. UploadLedger(p, k, l, Tail(u), e, s, n + 1)
  <2>1. /\ DataBounded(u, k) /\ Bounded(d, n) /\ k <= n + AckInterval
        /\ p \in {"next", "final"} => k - (k % AckInterval) <= n
        /\ p = "ack" => k % AckInterval = 0 /\ k > 0
        /\ p = "ended" => n = k
    BY <1>m DEF Ledger, UploadLedger
  <2>2. DataBounded(Tail(u), k) /\ Bounded(e, n + 1)
    <3>1. Bounded(d, n + 1) /\ Bounded(Append(d, f), n + 1) /\ DataBounded(Tail(u), k)
      BY <2>1, BoundedKept, DataBoundedKept
    <3> QED
      BY <3>1
  <2>3. ASSUME l = "open"
        PROVE  /\ Len(Tail(u)) = (k - (n + 1)) + (IF p = "final" THEN 1 ELSE 0)
               /\ Len(e) = (IF p = "ack" /\ n + 1 = k THEN 1 ELSE 0)
    <3>1. Len(u) = (k - n) + (IF p = "final" THEN 1 ELSE 0) /\ Len(d) = 0
      BY <1>m, <2>3 DEF Ledger, UploadLedger
    <3>2. p \in {"next", "ack", "final"}
      BY <1>m, <2>3 DEF Ledger, Placed, Dialled
    <3>3. (n + 1) % AckInterval = 0 => p = "ack" /\ n + 1 = k
      <4> SUFFICES ASSUME (n + 1) % AckInterval = 0 PROVE p = "ack" /\ n + 1 = k
        OBVIOUS
      <4>1. CASE p \in {"next", "final"}
        <5>1. k % AckInterval \in 0 .. AckInterval - 1
          BY Quotient
        <5>2. k - (k % AckInterval) < n + 1
          BY <2>1, <4>1, <5>1
        <5>3. n + 1 < k - (k % AckInterval) + AckInterval
          BY <1>m, <5>1
        <5>4. n + 1 \in Nat
          OBVIOUS
        <5> QED
          BY <5>2, <5>3, <5>4, NoMultipleBetween
      <4>2. CASE p = "ack" /\ n + 1 # k
        <5>1. k - AckInterval \in Nat /\ (k - AckInterval) % AckInterval = 0
          BY <2>1, <4>2, LastMultiple
        <5> DEFINE i == k - AckInterval
                   j == n + 1
        <5>2. i \in Nat /\ i % AckInterval = 0 /\ j \in Nat /\ j % AckInterval = 0
          BY <5>1
        <5>3. i < j /\ j < i + AckInterval
          BY <1>m, <2>1, <4>2, <5>1
        <5> HIDE DEF i, j
        <5>4. i - (i % AckInterval) < j /\ j < i - (i % AckInterval) + AckInterval
          BY <5>2, <5>3
        <5> QED
          BY <5>2, <5>4, NoMultipleBetween
      <4> QED
        BY <3>2, <4>1, <4>2
    <3>4. p = "ack" /\ n + 1 = k => (n + 1) % AckInterval = 0
      BY <2>1
    <3> QED
      BY <2>3, <3>1, <3>3, <3>4, TailOf, AppendTo
  <2> QED
    BY <1>m, <2>1, <2>2, <2>3 DEF UploadLedger, Ledger, Placed, Awaiting
<1>7. IdleLedger(p, o, Tail(u), e)
  BY <1>m, TailOf, AppendTo DEF Ledger, IdleLedger
<1> QED
  BY <1>1, <1>2, <1>3, <1>4, <1>5, <1>6, <1>7 DEF Ledger

(* The final acknowledgement. *)
LEMMA ServerDoneKeeps ==
  ASSUME NEW p, NEW k \in Nat, NEW o \in Nat, NEW l, NEW u \in Seq(Frame),
         NEW d \in Seq(Frame), NEW s, NEW n \in Nat, Ledger(p, k, o, l, u, d, s, n),
         NEW f \in Frame,
         NEW e \in Seq(Frame),
         s = "upload",
         u # <<>>,
         f.sequence = n,
         e = d \/ e = Append(d, f)
  PROVE  Ledger(p, k, o, l, Tail(u), e, "closed", n)
<1>m. config.mode = "upload"
  BY DEF Ledger, Placed, Awaiting
<1>1. Placed(p, l, "closed")
  BY <1>m, TailOf, AppendTo DEF Ledger, Placed, Awaiting, Dialled, Over
<1>2. Counted(p, k, o, "closed", n)
  BY <1>m, TailOf, AppendTo DEF Ledger, Counted, Awaiting
<1>3. OneUnderWay(p, l, Tail(u), e, "closed")
  BY <1>m, TailOf, AppendTo DEF Ledger, OneUnderWay
<1>4. EchoLedger(k, Tail(u), e, n)
  BY <1>m, TailOf, AppendTo, BoundedKept DEF Ledger, EchoLedger
<1>5. DownloadLedger(k, l, Tail(u), e, "closed", n)
  BY <1>m, TailOf, AppendTo, BoundedKept DEF Ledger, DownloadLedger, Awaiting
<1>6. UploadLedger(p, k, l, Tail(u), e, "closed", n)
  <2>1. Bounded(e, n) /\ DataBounded(Tail(u), k)
    <3>1. Bounded(d, n) /\ DataBounded(u, k)
      BY <1>m DEF Ledger, UploadLedger
    <3>2. Bounded(Append(d, f), n) /\ DataBounded(Tail(u), k)
      BY <3>1, BoundedKept, DataBoundedKept
    <3> QED
      BY <3>1, <3>2
  <2> QED
    BY <1>m, <2>1 DEF Ledger, UploadLedger, Awaiting
<1>7. IdleLedger(p, o, Tail(u), e)
  BY <1>m, TailOf, AppendTo DEF Ledger, IdleLedger
<1> QED
  BY <1>1, <1>2, <1>3, <1>4, <1>5, <1>6, <1>7 DEF Ledger

(* A block of a download. *)
LEMMA DownloadKeeps ==
  ASSUME NEW p, NEW k \in Nat, NEW o \in Nat, NEW l, NEW u \in Seq(Frame),
         NEW d \in Seq(Frame), NEW s, NEW n \in Nat, Ledger(p, k, o, l, u, d, s, n),
         NEW f \in Frame,
         s = "download",
         f.sequence = n + 1
  PROVE  Ledger(p, k, o, l, u, Append(d, f), s, n + 1)
<1>m. config.mode = "download"
  BY DEF Ledger, Placed, Awaiting
<1>1. Placed(p, l, s)
  BY <1>m, AppendTo DEF Ledger, Placed, Awaiting, Dialled, Over
<1>2. Counted(p, k, o, s, n + 1)
  BY <1>m, AppendTo DEF Ledger, Counted, Awaiting
<1>3. OneUnderWay(p, l, u, Append(d, f), s)
  BY <1>m, AppendTo DEF Ledger, OneUnderWay
<1>4. EchoLedger(k, u, Append(d, f), n + 1)
  BY <1>m, AppendTo, BoundedKept DEF Ledger, EchoLedger
<1>5. DownloadLedger(k, l, u, Append(d, f), s, n + 1)
  BY <1>m, AppendTo, BoundedKept DEF Ledger, DownloadLedger, Awaiting
<1>6. UploadLedger(p, k, l, u, Append(d, f), s, n + 1)
  BY <1>m, AppendTo, BoundedKept, DataBoundedKept DEF Ledger, UploadLedger,
     Awaiting
<1>7. IdleLedger(p, o, u, Append(d, f))
  BY <1>m, AppendTo DEF Ledger, IdleLedger
<1> QED
  BY <1>1, <1>2, <1>3, <1>4, <1>5, <1>6, <1>7 DEF Ledger

(* The server closes. *)
LEMMA CloseKeeps ==
  ASSUME NEW p, NEW k \in Nat, NEW o \in Nat, NEW l, NEW u \in Seq(Frame),
         NEW d \in Seq(Frame), NEW s, NEW n \in Nat, Ledger(p, k, o, l, u, d, s, n),
         s # "none"
  PROVE  Ledger(p, k, o, l, u, d, "closed", n)
<1>1. Placed(p, l, "closed")
  BY DEF Ledger, Placed, Awaiting, Dialled, Over
<1>2. Counted(p, k, o, "closed", n)
  BY DEF Ledger, Counted, Awaiting
<1>3. OneUnderWay(p, l, u, d, "closed")
  BY DEF Ledger, OneUnderWay
<1>4. EchoLedger(k, u, d, n)
  BY BoundedKept DEF Ledger, EchoLedger
<1>5. DownloadLedger(k, l, u, d, "closed", n)
  BY BoundedKept DEF Ledger, DownloadLedger, Awaiting
<1>6. UploadLedger(p, k, l, u, d, "closed", n)
  BY BoundedKept, DataBoundedKept DEF Ledger, UploadLedger, Awaiting
<1>7. IdleLedger(p, o, u, d)
  BY DEF Ledger, IdleLedger
<1> QED
  BY <1>1, <1>2, <1>3, <1>4, <1>5, <1>6, <1>7 DEF Ledger

(* The listener closes before the connection is accepted. *)
LEMMA RefuseKeeps ==
  ASSUME NEW p, NEW k \in Nat, NEW o \in Nat, NEW l, NEW u \in Seq(Frame),
         NEW d \in Seq(Frame), NEW s, NEW n \in Nat, Ledger(p, k, o, l, u, d, s, n),
         s = "backlog"
  PROVE  Ledger(p, k, o, l, <<>>, d, "closed", n)
<1>1. Placed(p, l, "closed")
  BY DEF Ledger, Placed, Awaiting, Dialled, Over
<1>2. Counted(p, k, o, "closed", n)
  BY DEF Ledger, Counted, Awaiting
<1>3. OneUnderWay(p, l, <<>>, d, "closed")
  BY DEF Ledger, OneUnderWay
<1>4. EchoLedger(k, <<>>, d, n)
  BY BoundedKept DEF Ledger, EchoLedger
<1>5. DownloadLedger(k, l, <<>>, d, "closed", n)
  BY BoundedKept DEF Ledger, DownloadLedger, Awaiting
<1>6. UploadLedger(p, k, l, <<>>, d, "closed", n)
  BY BoundedKept, DataBoundedKept DEF Ledger, UploadLedger, Awaiting
<1>7. IdleLedger(p, o, <<>>, d)
  BY DEF Ledger, IdleLedger
<1> QED
  BY <1>1, <1>2, <1>3, <1>4, <1>5, <1>6, <1>7 DEF Ledger

(* A connection breaks. *)
LEMMA BreakKeeps ==
  ASSUME NEW p, NEW k \in Nat, NEW o \in Nat, NEW l, NEW u \in Seq(Frame),
         NEW d \in Seq(Frame), NEW s, NEW n \in Nat, Ledger(p, k, o, l, u, d, s, n),
         l = "open"
  PROVE  Ledger(p, k, o, "broken", <<>>, <<>>, s, n)
<1>1. Placed(p, "broken", s)
  BY DEF Ledger, Placed, Awaiting, Dialled, Over
<1>2. Counted(p, k, o, s, n)
  BY DEF Ledger, Counted, Awaiting
<1>3. OneUnderWay(p, "broken", <<>>, <<>>, s)
  BY DEF Ledger, OneUnderWay
<1>4. EchoLedger(k, <<>>, <<>>, n)
  BY BoundedKept DEF Ledger, EchoLedger
<1>5. DownloadLedger(k, "broken", <<>>, <<>>, s, n)
  BY BoundedKept DEF Ledger, DownloadLedger, Awaiting
<1>6. UploadLedger(p, k, "broken", <<>>, <<>>, s, n)
  BY BoundedKept, DataBoundedKept DEF Ledger, UploadLedger, Awaiting
<1>7. IdleLedger(p, o, <<>>, <<>>)
  BY DEF Ledger, IdleLedger
<1> QED
  BY <1>1, <1>2, <1>3, <1>4, <1>5, <1>6, <1>7 DEF Ledger

(* Damaged frames are where the intact ones were. *)
LEMMA DamageKeeps ==
  ASSUME NEW p, NEW k \in Nat, NEW o \in Nat, NEW l, NEW u \in Seq(Frame),
         NEW d \in Seq(Frame), NEW s, NEW n \in Nat, Ledger(p, k, o, l, u, d, s, n),
         NEW v \in Seq(Frame),
         NEW e \in Seq(Frame),
         Len(v) = Len(u),
         \A i \in DOMAIN u : v[i].op = u[i].op /\ v[i].sequence = u[i].sequence,
         Len(e) = Len(d),
         \A i \in DOMAIN d : e[i].sequence = d[i].sequence
  PROVE  Ledger(p, k, o, l, v, e, s, n)
<1>b. DOMAIN v = DOMAIN u /\ DOMAIN e = DOMAIN d
  OBVIOUS
<1>c. /\ \A j : Bounded(u, j) => Bounded(v, j)
      /\ \A j : Bounded(d, j) => Bounded(e, j)
      /\ \A j : DataBounded(u, j) => DataBounded(v, j)
  BY <1>b DEF Bounded, DataBounded
<1>d. (u = <<>> <=> v = <<>>) /\ (d = <<>> <=> e = <<>>)
  OBVIOUS
<1>e. u # <<>> => Head(v).op = Head(u).op
  <2>1. u # <<>> => 1 \in DOMAIN u /\ Head(u) = u[1] /\ Head(v) = v[1]
    BY <1>d, TailOf
  <2> QED
    BY <2>1
<1>1. Placed(p, l, s)
  BY <1>b, <1>c, <1>d, <1>e DEF Ledger, Placed, Awaiting, Dialled, Over
<1>2. Counted(p, k, o, s, n)
  BY <1>b, <1>c, <1>d, <1>e DEF Ledger, Counted, Awaiting
<1>3. OneUnderWay(p, l, v, e, s)
  BY <1>b, <1>c, <1>d, <1>e DEF Ledger, OneUnderWay
<1>4. EchoLedger(k, v, e, n)
  BY <1>b, <1>c, <1>d, <1>e DEF Ledger, EchoLedger
<1>5. DownloadLedger(k, l, v, e, s, n)
  BY <1>b, <1>c, <1>d, <1>e DEF Ledger, DownloadLedger, Awaiting
<1>6. UploadLedger(p, k, l, v, e, s, n)
  BY <1>b, <1>c, <1>d, <1>e DEF Ledger, UploadLedger, Awaiting
<1>7. IdleLedger(p, o, v, e)
  BY <1>b, <1>c, <1>d, <1>e DEF Ledger, IdleLedger
<1> QED
  BY <1>1, <1>2, <1>3, <1>4, <1>5, <1>6, <1>7 DEF Ledger

-----------------------------------------------------------------------------
(* Steps of the model.                                                     *)
USE DEF loopVars, wireVars, peerVars, clientVars

SameAt(x) ==
  /\ pc'[x] = pc[x] /\ completed'[x] = completed[x] /\ operations'[x] = operations[x]
  /\ link'[x] = link[x] /\ up'[x] = up[x] /\ down'[x] = down[x]
  /\ server'[x] = server[x] /\ served'[x] = served[x]

NewLedger(x) ==
  Ledger(pc'[x], completed'[x], operations'[x], link'[x], up'[x], down'[x], server'[x],
         served'[x])

LEMMA ValuesAt ==
  ASSUME TInv, NEW c \in Connections
  PROVE  /\ completed[c] \in Nat /\ operations[c] \in Nat /\ served[c] \in Nat
         /\ up[c] \in Seq(Frame) /\ down[c] \in Seq(Frame)
         /\ Ledger(pc[c], completed[c], operations[c], link[c], up[c], down[c], server[c],
                   served[c])
BY DEF TInv, TypeOK, LedgerOf

LEMMA SameConfig ==
  ASSUME config' = config, NEW x, NewLedger(x)
  PROVE  LedgerOf(x)'
BY DEF NewLedger, LedgerOf, Ledger, Placed, Counted, OneUnderWay, EchoLedger, DownloadLedger,
       UploadLedger, IdleLedger, AckInterval

(* A step of one connection leaves the ledgers of all others alone.        *)
LEMMA StepKeeps ==
  ASSUME TInv, NEW c \in Connections, config' = config,
         \A x \in Connections : x # c => SameAt(x), NewLedger(c)
  PROVE  \A x \in Connections' : LedgerOf(x)'
<1>1. Connections' = Connections
  BY DEF Connections
<1>2. ASSUME NEW x \in Connections, x # c PROVE NewLedger(x)
  BY <1>2 DEF TInv, LedgerOf, NewLedger, SameAt
<1> QED
  BY <1>1, <1>2, SameConfig

LEMMA LoopGoesOnStep == ASSUME TInv, NEW c \in Connections, LoopGoesOn(c) PROVE TInv'
<1>1. TypeOK'
  <2>1. UNCHANGED <<config, ctx, run, completed, operations, failed, expired, link, up,
           down, server, served, lingering, serving, faults>>
    BY DEF TInv, LoopGoesOn
  <2>2. pc' \in [Connections -> ClientState]
    BY DEF TypeOK, TInv, LoopGoesOn, ClientState, Dialled, Over
  <2> QED
    BY <2>1, <2>2 DEF TInv, TypeOK, Connections
<1>2. config' = config /\ \A x \in Connections : x # c => SameAt(x)
  BY DEF TInv, TypeOK, SameAt, LoopGoesOn
<1>3. NewLedger(c)
  <2>1. /\ pc'[c] = (IF config.mode = "short" THEN "dial" ELSE "reply") /\ completed'[c] = completed[c]
        /\ operations'[c] = operations[c] /\ link'[c] = link[c]
        /\ up'[c] = up[c] /\ down'[c] = down[c]
        /\ server'[c] = server[c] /\ served'[c] = served[c]
    BY DEF TInv, TypeOK, LoopGoesOn
  <2>2. pc[c] = "next" /\ config.mode \in {"short", "download"}
    BY DEF LoopGoesOn
  <2> QED
    BY <2>1, ValuesAt, LoopKeeps, <2>2 DEF NewLedger
<1>4. NotBegun'
  BY DEF TInv, NotBegun, Connections, LoopGoesOn
<1> QED
  BY <1>1, <1>2, <1>3, <1>4, StepKeeps DEF TInv

LEMMA LoopEndsStep == ASSUME TInv, NEW c \in Connections, LoopEnds(c) PROVE TInv'
<1>1. TypeOK'
  <2>1. UNCHANGED <<config, ctx, run, completed, operations, failed, expired, up, down,
           server, served, lingering, serving, faults>>
    BY DEF TInv, LoopEnds, Leave
  <2>2. pc' \in [Connections -> ClientState]
    BY DEF TypeOK, TInv, LoopEnds, Leave, ClientState, Dialled, Over
  <2>3. link' \in [Connections -> {"none", "open", "closed", "broken"}]
    BY DEF TypeOK, TInv, LoopEnds, Leave
  <2> QED
    BY <2>1, <2>2, <2>3 DEF TInv, TypeOK, Connections
<1>2. config' = config /\ \A x \in Connections : x # c => SameAt(x)
  BY DEF TInv, TypeOK, SameAt, LoopEnds, Leave
<1>3. NewLedger(c)
  <2>1. /\ pc'[c] = "ended" /\ completed'[c] = completed[c]
        /\ operations'[c] = operations[c] /\ link'[c] = (IF link[c] = "open" THEN "closed" ELSE link[c])
        /\ up'[c] = up[c] /\ down'[c] = down[c]
        /\ server'[c] = server[c] /\ served'[c] = served[c]
    BY DEF TInv, TypeOK, LoopEnds, Leave
  <2>2. config.mode # "upload" /\ link'[c] # "open"
    BY <2>1 DEF LoopEnds
  <2> QED
    BY <2>1, ValuesAt, LeaveKeeps, <2>2 DEF NewLedger
<1>4. NotBegun'
  BY DEF TInv, NotBegun, Connections, LoopEnds, Leave
<1> QED
  BY <1>1, <1>2, <1>3, <1>4, StepKeeps DEF TInv

LEMMA AttemptDroppedStep == ASSUME TInv, NEW c \in Connections, AttemptDropped(c) PROVE TInv'
<1>1. TypeOK'
  <2>1. UNCHANGED <<config, ctx, run, completed, operations, failed, expired, up, down,
           server, served, lingering, serving, faults>>
    BY DEF TInv, AttemptDropped, Leave
  <2>2. pc' \in [Connections -> ClientState]
    BY DEF TypeOK, TInv, AttemptDropped, Leave, ClientState, Dialled, Over
  <2>3. link' \in [Connections -> {"none", "open", "closed", "broken"}]
    BY DEF TypeOK, TInv, AttemptDropped, Leave
  <2> QED
    BY <2>1, <2>2, <2>3 DEF TInv, TypeOK, Connections
<1>2. config' = config /\ \A x \in Connections : x # c => SameAt(x)
  BY DEF TInv, TypeOK, SameAt, AttemptDropped, Leave
<1>3. NewLedger(c)
  <2>1. /\ pc'[c] = "dropped" /\ completed'[c] = completed[c]
        /\ operations'[c] = operations[c] /\ link'[c] = (IF link[c] = "open" THEN "closed" ELSE link[c])
        /\ up'[c] = up[c] /\ down'[c] = down[c]
        /\ server'[c] = server[c] /\ served'[c] = served[c]
    BY DEF TInv, TypeOK, AttemptDropped, Leave
  <2>2. link'[c] # "open"
    BY <2>1
  <2> QED
    BY <2>1, ValuesAt, LeaveKeeps, <2>2 DEF NewLedger
<1>4. NotBegun'
  BY DEF TInv, NotBegun, Connections, AttemptDropped, Leave
<1> QED
  BY <1>1, <1>2, <1>3, <1>4, StepKeeps DEF TInv

LEMMA DialStep == ASSUME TInv, NEW c \in Connections, Dial(c) PROVE TInv'
<1>1. TypeOK'
  <2>1. UNCHANGED <<config, ctx, run, completed, failed, expired, served, serving,
           faults>>
    BY DEF TInv, Dial
  <2>2. pc' \in [Connections -> ClientState]
    BY <2>1 DEF TypeOK, TInv, Dial, AfterDial, ClientState, Dialled, Over
  <2>3. operations' \in [Connections -> Nat]
    BY DEF TypeOK, TInv, Dial
  <2>4. link' \in [Connections -> {"none", "open", "closed", "broken"}]
    BY DEF TypeOK, TInv, Dial
  <2>5. up' \in [Connections -> Seq(Frame)]
    <3>1. Share(c) \in Nat
      BY ConfigOK DEF TInv
    <3>2. config.mode \in {"upload", "download"} => NewFrame(config.mode, Share(c)) \in Frame
      BY <3>1, NewFrameOK DEF Operation
    <3>3. (IF config.mode \in {"upload", "download"}
           THEN <<NewFrame(config.mode, Share(c))>> ELSE <<>>) \in Seq(Frame)
      BY <3>2
    <3> QED
      BY <3>3 DEF TInv, TypeOK, Dial
  <2>6. down' \in [Connections -> Seq(Frame)]
    BY DEF TypeOK, TInv, Dial
  <2>7. server' \in [Connections -> ServerState]
    BY DEF TypeOK, TInv, Dial, ServerState
  <2>8. lingering' \in Nat
    BY DEF TypeOK, TInv, Dial
  <2>9. \A x \in Connections : Len(up'[x]) <= Window
    <3>1. Window \in Nat \ {0}
      BY TcpAssumption DEF TcpAssumption
    <3>2. \A f : Len(<<f>>) = 1 /\ Len(<<>>) = 0
      OBVIOUS
    <3> QED
      BY <3>1, <3>2 DEF TInv, TypeOK, Dial
  <2>10. \A x \in Connections : Len(down'[x]) <= Window
    <3>1. Window \in Nat \ {0} /\ Len(<<>>) = 0
      BY TcpAssumption DEF TcpAssumption
    <3> QED
      BY <3>1 DEF TInv, TypeOK, Dial
  <2> QED
    BY <2>1, <2>2, <2>3, <2>4, <2>5, <2>6, <2>7, <2>8, <2>9, <2>10 DEF TInv,
       TypeOK, Connections
<1>2. config' = config /\ \A x \in Connections : x # c => SameAt(x)
  BY DEF TInv, TypeOK, SameAt, Dial
<1>3. NewLedger(c)
  <2>1. /\ pc'[c] = AfterDial /\ completed'[c] = completed[c]
        /\ operations'[c] = (IF config.mode = "idle" THEN 1 ELSE operations[c]) /\ link'[c] = "open"
        /\ up'[c] = (IF config.mode \in {"upload", "download"}
                     THEN <<NewFrame(config.mode, Share(c))>> ELSE <<>>) /\ down'[c] = <<>>
        /\ server'[c] = "backlog" /\ served'[c] = served[c]
    BY DEF TInv, TypeOK, Dial
  <2>2. pc[c] = "dial" /\ config.mode \in Mode /\ up'[c] \in Seq(Frame) /\ operations'[c] \in Nat
        /\ AckInterval \in Nat \ {0}
    BY <1>1, ConfigOK DEF Dial, TInv, TypeOK, Connections
  <2>3. IF config.mode \in {"upload", "download"}
        THEN Len(up'[c]) = 1 /\ up'[c][1].op = config.mode ELSE up'[c] = <<>>
    <3>1. Share(c) \in Nat
      BY ConfigOK DEF TInv
    <3>2. \A f : Len(<<f>>) = 1 /\ <<f>>[1] = f
      OBVIOUS
    <3> QED
      BY <2>1, <3>1, <3>2, NewFrameOK DEF Operation
  <2>4. Ledger(AfterDial, completed[c], (IF config.mode = "idle" THEN 1 ELSE operations[c]), "open",
               up'[c], <<>>, "backlog", served[c])
    BY <2>2, <2>3, ValuesAt, DialKeeps
  <2> QED
    BY <2>1, <2>4 DEF NewLedger
<1>4. NotBegun'
  BY DEF TInv, NotBegun, Connections, Dial
<1> QED
  BY <1>1, <1>2, <1>3, <1>4, StepKeeps DEF TInv

LEMMA FaultOK ==
  ASSUME TInv, NEW cause, Excused(cause) \/ Fault \/ UNCHANGED faults
  PROVE  faults' \in 0 .. MaxFaults
<1>1. MaxFaults \in Nat /\ faults \in 0 .. MaxFaults
  BY TcpAssumption DEF TcpAssumption, TInv, TypeOK
<1> QED
  BY <1>1 DEF Excused, Fault

(* A transport error or a mismatch of one connection, wherever it happens.  *)
LEMMA ErrorStep ==
  ASSUME TInv, NEW c \in Connections,
         TransportError(c) \/ Mismatch(c),
         config.mode # "idle",
         pc[c] # "start",
         down' = down \/ (down[c] # <<>> /\ down' = Take(down, c)),
         UNCHANGED <<config, ctx, run, expired, up, peerVars>>,
         faults' \in 0 .. MaxFaults
  PROVE  TInv'
<1>1. TypeOK'
  <2>1. UNCHANGED <<config, ctx, run, operations, expired, up, server, served,
           lingering, serving>>
    BY DEF TInv, TransportError, Mismatch, GiveUp, Leave
  <2>2. pc' \in [Connections -> ClientState]
    BY DEF TypeOK, TInv, TransportError, Mismatch, GiveUp, Leave, ClientState,
       Dialled, Over
  <2>3. completed' \in [Connections -> Nat]
    <3>1. completed' = completed \/ completed' = [completed EXCEPT ![c] = @ + 1]
      BY DEF TransportError, Mismatch, GiveUp
    <3>2. completed \in [Connections -> Nat]
      BY DEF TInv, TypeOK
    <3> QED
      BY <3>1, <3>2
  <2>4. failed' \in [Connections -> Nat]
    <3>1. failed' = failed \/ failed' = [failed EXCEPT ![c] = @ + 1]
      BY DEF TransportError, Mismatch, GiveUp
    <3>2. failed \in [Connections -> Nat]
      BY DEF TInv, TypeOK
    <3> QED
      BY <3>1, <3>2
  <2>5. link' \in [Connections -> {"none", "open", "closed", "broken"}]
    BY DEF TypeOK, TInv, TransportError, Mismatch, GiveUp, Leave
  <2>6. down' \in [Connections -> Seq(Frame)]
    <3>1. CASE down' = down
      BY <3>1 DEF TInv, TypeOK
    <3>2. CASE down[c] # <<>> /\ down' = Take(down, c)
      <4>1. Tail(down[c]) \in Seq(Frame) /\ Len(Tail(down[c])) <= Window
        <5>1. down[c] \in Seq(Frame) /\ Len(down[c]) <= Window
          BY DEF TInv, TypeOK
        <5>2. Window \in Nat
          BY TcpAssumption DEF TcpAssumption
        <5> QED
          BY <3>2, <5>1, <5>2, TailOf
      <4> QED
        BY <3>2, <4>1 DEF TInv, TypeOK, Take
    <3> QED
      BY <3>1, <3>2
  <2>7. faults' \in 0 .. MaxFaults
    OBVIOUS
  <2>8. \A x \in Connections : Len(down'[x]) <= Window
    <3>1. CASE down' = down
      BY <3>1 DEF TInv, TypeOK
    <3>2. CASE down[c] # <<>> /\ down' = Take(down, c)
      <4>1. Tail(down[c]) \in Seq(Frame) /\ Len(Tail(down[c])) <= Window
        <5>1. down[c] \in Seq(Frame) /\ Len(down[c]) <= Window
          BY DEF TInv, TypeOK
        <5>2. Window \in Nat
          BY TcpAssumption DEF TcpAssumption
        <5> QED
          BY <3>2, <5>1, <5>2, TailOf
      <4> QED
        BY <3>2, <4>1 DEF TInv, TypeOK, Take
    <3> QED
      BY <3>1, <3>2
  <2> QED
    BY <2>1, <2>2, <2>3, <2>4, <2>5, <2>6, <2>7, <2>8 DEF TInv, TypeOK,
       Connections
<1>2. config' = config /\ \A x \in Connections : x # c => SameAt(x)
  BY DEF TInv, TypeOK, SameAt, TransportError, Mismatch, GiveUp, Leave, Take
<1>3. NewLedger(c)
  <2>1. /\ operations'[c] = operations[c] /\ up'[c] = up[c] /\ server'[c] = server[c]
        /\ served'[c] = served[c] /\ link'[c] # "open"
        /\ down'[c] = down[c] \/ (down[c] # <<>> /\ down'[c] = Tail(down[c]))
    BY DEF TInv, TypeOK, TransportError, Mismatch, GiveUp, Leave, Take
  <2>2. down'[c] \in Seq(Frame) /\ completed'[c] \in Nat
    BY <1>1 DEF TypeOK, Connections
  <2>3. CASE config.mode = "short" /\ ctx = "live" /\ TransportError(c)
    <3>1. pc'[c] = "next"
      BY <2>3 DEF TInv, TypeOK, TransportError, Leave
    <3>2. Ledger("next", completed'[c], operations[c], link'[c], up[c], down'[c], server[c],
                 served[c])
      BY <2>1, <2>2, <2>3, ValuesAt, ShortGoesOn
    <3> QED
      BY <2>1, <3>1, <3>2 DEF NewLedger
  <2>4. CASE GiveUp(c) /\ UNCHANGED <<completed, operations>>
    <3>1. pc'[c] \in {"failed", "dropped"} /\ completed'[c] = completed[c]
      BY <2>4 DEF TInv, TypeOK, GiveUp, Leave
    <3>2. /\ pc'[c] \in {"failed", "dropped", "ended"}
          /\ pc'[c] = "failed" => config.mode # "idle"
          /\ pc'[c] = "ended" => config.mode # "upload"
      BY <3>1
    <3>3. Ledger(pc'[c], completed[c], operations[c], link'[c], up[c], down'[c], server[c],
                 served[c])
      <4> DEFINE e == down'[c]
                 m == link'[c]
                 q == pc'[c]
      <4>1. e \in Seq(Frame) /\ m # "open" /\ (e = down[c] \/ (down[c] # <<>> /\ e = Tail(down[c])))
        BY <2>1, <2>2
      <4>2. q \in {"failed", "dropped", "ended"} /\ (q = "failed" => config.mode # "idle")
            /\ (q = "ended" => config.mode # "upload")
        BY <3>2
      <4> HIDE DEF e, m, q
      <4>3. Ledger(q, completed[c], operations[c], m, up[c], e, server[c], served[c])
        BY <4>1, <4>2, ValuesAt, LeaveKeeps
      <4> QED
        BY <4>3 DEF e, m, q
    <3> QED
      BY <2>1, <3>1, <3>3 DEF NewLedger
  <2> QED
    BY <2>3, <2>4 DEF TransportError, Mismatch
<1>4. NotBegun'
  BY DEF TInv, NotBegun, Connections
<1> QED
  BY <1>1, <1>2, <1>3, <1>4, StepKeeps DEF TInv

LEMMA QueueOK ==
  ASSUME TInv, NEW c \in Connections, NEW q, q = up \/ q = down
  PROVE  /\ q \in [Connections -> Seq(Frame)] /\ \A x \in Connections : Len(q[x]) <= Window
         /\ \A f \in Frame : Len(q[c]) < Window =>
              /\ Put(q, c, f) \in [Connections -> Seq(Frame)]
              /\ \A x \in Connections : Len(Put(q, c, f)[x]) <= Window
         /\ q[c] # <<>> =>
              /\ Take(q, c) \in [Connections -> Seq(Frame)]
              /\ \A x \in Connections : Len(Take(q, c)[x]) <= Window
<1>1. /\ q \in [Connections -> Seq(Frame)] /\ Window \in Nat
      /\ \A x \in Connections : Len(q[x]) <= Window
  BY TcpAssumption DEF TcpAssumption, TInv, TypeOK
<1>2. ASSUME NEW f \in Frame, Len(q[c]) < Window
      PROVE  /\ Put(q, c, f) \in [Connections -> Seq(Frame)]
             /\ \A x \in Connections : Len(Put(q, c, f)[x]) <= Window
  <2>1. Append(q[c], f) \in Seq(Frame) /\ Len(Append(q[c], f)) <= Window
    BY <1>1, <1>2, AppendTo
  <2> QED
    BY <1>1, <2>1 DEF Put
<1>3. ASSUME q[c] # <<>>
      PROVE  /\ Take(q, c) \in [Connections -> Seq(Frame)]
             /\ \A x \in Connections : Len(Take(q, c)[x]) <= Window
  <2>1. Tail(q[c]) \in Seq(Frame) /\ Len(Tail(q[c])) <= Window
    BY <1>1, <1>3, TailOf
  <2> QED
    BY <1>1, <2>1 DEF Take
<1> QED
  BY <1>1, <1>2, <1>3

LEMMA Where ==
  ASSUME TInv, NEW c \in Connections
  PROVE  Placed(pc[c], link[c], server[c])
BY ValuesAt DEF Ledger

(* RunIdle goes on when a dial fails. *)
LEMMA RefusedStep ==
  ASSUME TInv, NEW c \in Connections,
         DialFails(c),
         config.mode = "idle"
  PROVE  TInv'
<1>1. TypeOK'
  <2>1. UNCHANGED <<config, ctx, run, completed, operations, expired, link, up, down,
           server, served, lingering, serving>>
    BY DEF TInv, DialFails
  <2>2. pc' \in [Connections -> ClientState]
    BY DEF TypeOK, TInv, DialFails, ClientState, Dialled, Over
  <2>3. failed' \in [Connections -> Nat]
    <3>1. failed' = [failed EXCEPT ![c] = 1]
      BY <2>1 DEF DialFails
    <3>2. failed \in [Connections -> Nat]
      BY DEF TInv, TypeOK
    <3> QED
      BY <3>1, <3>2
  <2>4. faults' \in 0 .. MaxFaults
    BY FaultOK DEF DialFails
  <2> QED
    BY <2>1, <2>2, <2>3, <2>4 DEF TInv, TypeOK, Connections
<1>2. config' = config /\ \A x \in Connections : x # c => SameAt(x)
  BY DEF TInv, TypeOK, SameAt, DialFails
<1>3. NewLedger(c)
  <2>1. /\ pc'[c] = "refused" /\ completed'[c] = completed[c]
        /\ operations'[c] = operations[c] /\ link'[c] = link[c]
        /\ up'[c] = up[c] /\ down'[c] = down[c]
        /\ server'[c] = server[c] /\ served'[c] = served[c]
    BY DEF TInv, TypeOK, DialFails
  <2>2. pc[c] = "dial" /\ config.mode = "idle"
    BY DEF DialFails
  <2> QED
    BY <2>1, ValuesAt, RefusedKeeps, <2>2 DEF NewLedger
<1>4. NotBegun'
  BY DEF TInv, NotBegun, Connections, DialFails
<1> QED
  BY <1>1, <1>2, <1>3, <1>4, StepKeeps DEF TInv

LEMMA DialFailsStep ==
  ASSUME TInv, NEW c \in Connections, DialFails(c)
  PROVE  TInv'
<1>1. CASE config.mode = "idle"
  BY <1>1, RefusedStep
<1>2. CASE config.mode # "idle"
  <2>1. faults' \in 0 .. MaxFaults
    BY FaultOK DEF DialFails
  <2> QED
    BY <1>2, <2>1, ErrorStep DEF DialFails
<1> QED
  BY <1>1, <1>2

LEMMA RequestSentStep ==
  ASSUME TInv, NEW c \in Connections,
         SendRequest(c),
         ~Gone(c)
  PROVE  TInv'
<1>1. TypeOK'
  <2>1. UNCHANGED <<config, ctx, run, completed, operations, failed, expired, link,
           down, server, served, lingering, serving, faults>>
    BY DEF TInv, SendRequest, Put
  <2>2. pc' \in [Connections -> ClientState]
    BY DEF TypeOK, TInv, SendRequest, Put, ClientState, Dialled, Over
  <2>3. up' \in [Connections -> Seq(Frame)]
    <3>1. NewFrame(config.mode, completed[c] + 1) \in Frame /\ Len(up[c]) < Window
      <4>1. config.mode \in {"echo", "short"} /\ pc[c] # "reply" /\ link[c] = "open" /\ server[c] # "closed"
        BY Where DEF Placed, SendRequest, Gone
      <4>2. Len(up[c]) + Len(down[c]) = 0
        BY <4>1, ValuesAt DEF Ledger, OneUnderWay
      <4>3. Len(up[c]) \in Nat /\ Len(down[c]) \in Nat /\ Window \in Nat \ {0}
        BY ValuesAt, TcpAssumption DEF TcpAssumption
      <4>4. config.mode \in Operation /\ completed[c] + 1 \in Nat
        BY <4>1, ValuesAt DEF Operation
      <4>5. \A i, j \in Nat : i + j = 0 => i = 0
        OBVIOUS
      <4>6. Len(up[c]) = 0
        BY <4>2, <4>3, <4>5
      <4> QED
        BY <4>3, <4>4, <4>6, NewFrameOK
    <3> QED
      BY <3>1, QueueOK DEF SendRequest
  <2>4. \A x \in Connections : Len(up'[x]) <= Window
    <3>1. NewFrame(config.mode, completed[c] + 1) \in Frame /\ Len(up[c]) < Window
      <4>1. config.mode \in {"echo", "short"} /\ pc[c] # "reply" /\ link[c] = "open" /\ server[c] # "closed"
        BY Where DEF Placed, SendRequest, Gone
      <4>2. Len(up[c]) + Len(down[c]) = 0
        BY <4>1, ValuesAt DEF Ledger, OneUnderWay
      <4>3. Len(up[c]) \in Nat /\ Len(down[c]) \in Nat /\ Window \in Nat \ {0}
        BY ValuesAt, TcpAssumption DEF TcpAssumption
      <4>4. config.mode \in Operation /\ completed[c] + 1 \in Nat
        BY <4>1, ValuesAt DEF Operation
      <4>5. \A i, j \in Nat : i + j = 0 => i = 0
        OBVIOUS
      <4>6. Len(up[c]) = 0
        BY <4>2, <4>3, <4>5
      <4> QED
        BY <4>3, <4>4, <4>6, NewFrameOK
    <3> QED
      BY <3>1, QueueOK DEF SendRequest
  <2> QED
    BY <2>1, <2>2, <2>3, <2>4 DEF TInv, TypeOK, Connections
<1>2. config' = config /\ \A x \in Connections : x # c => SameAt(x)
  BY DEF TInv, TypeOK, SameAt, SendRequest, Put
<1>3. NewLedger(c)
  <2> DEFINE f == NewFrame(config.mode, completed[c] + 1)
  <2>1. /\ pc'[c] = "reply" /\ completed'[c] = completed[c]
        /\ operations'[c] = operations[c] /\ link'[c] = link[c]
        /\ up'[c] = Append(up[c], f) /\ down'[c] = down[c]
        /\ server'[c] = server[c] /\ served'[c] = served[c]
    BY DEF TInv, TypeOK, SendRequest, Put
  <2>2. /\ (pc[c] = "next" /\ config.mode = "echo") \/ pc[c] = "send"
        /\ link[c] = "open" /\ server[c] # "closed" /\ config.mode \in {"echo", "short"}
    BY Where DEF Placed, SendRequest, Gone
  <2>3. f \in Frame /\ f.op = config.mode /\ f.sequence = completed[c] + 1
    BY <2>2, ValuesAt, NewFrameOK DEF Operation
  <2> HIDE DEF f
  <2>L. Ledger("reply", completed[c], operations[c], link[c], Append(up[c], f),
           down[c], server[c], served[c])
    BY <2>2, <2>3, ValuesAt, RequestKeeps
  <2> QED
    BY <2>1, <2>L DEF NewLedger
<1>4. NotBegun'
  BY DEF TInv, NotBegun, Connections, SendRequest, Put
<1> QED
  BY <1>1, <1>2, <1>3, <1>4, StepKeeps DEF TInv

LEMMA SendRequestStep ==
  ASSUME TInv, NEW c \in Connections, SendRequest(c)
  PROVE  TInv'
<1>1. CASE ~Gone(c)
  BY <1>1, RequestSentStep
<1>2. CASE Gone(c)
  <2>1. config.mode # "idle" /\ pc[c] # "start"
    BY Where DEF Placed, SendRequest
  <2> QED
    BY <1>2, <2>1, ErrorStep, FaultOK DEF SendRequest
<1> QED
  BY <1>1, <1>2

LEMMA ReplyTakenStep ==
  ASSUME TInv, NEW c \in Connections,
         ReceiveReply(c),
         Head(down[c]) = NewFrame(config.mode, completed[c] + 1)
  PROVE  TInv'
<1>1. TypeOK'
  <2>1. UNCHANGED <<config, ctx, run, failed, expired, up, server, served, lingering,
           serving, faults>>
    BY DEF TInv, ReceiveReply, Leave, Take
  <2>2. pc' \in [Connections -> ClientState]
    BY DEF TypeOK, TInv, ReceiveReply, Leave, Take, ClientState, Dialled, Over
  <2>3. completed' \in [Connections -> Nat]
    <3>1. completed' = [completed EXCEPT ![c] = @ + 1]
      BY DEF ReceiveReply
    <3>2. completed \in [Connections -> Nat]
      BY DEF TInv, TypeOK
    <3> QED
      BY <3>1, <3>2
  <2>4. operations' \in [Connections -> Nat]
    <3>1. operations' = [operations EXCEPT ![c] = @ + 1]
      BY DEF ReceiveReply
    <3>2. operations \in [Connections -> Nat]
      BY DEF TInv, TypeOK
    <3> QED
      BY <3>1, <3>2
  <2>5. link' \in [Connections -> {"none", "open", "closed", "broken"}]
    BY DEF TypeOK, TInv, ReceiveReply, Leave, Take
  <2>6. down' \in [Connections -> Seq(Frame)]
    <3>1. down[c] # <<>>
      BY DEF ReceiveReply
    <3> QED
      BY <3>1, QueueOK DEF ReceiveReply
  <2>7. \A x \in Connections : Len(down'[x]) <= Window
    <3>1. down[c] # <<>>
      BY DEF ReceiveReply
    <3> QED
      BY <3>1, QueueOK DEF ReceiveReply
  <2> QED
    BY <2>1, <2>2, <2>3, <2>4, <2>5, <2>6, <2>7 DEF TInv, TypeOK, Connections
<1>2. config' = config /\ \A x \in Connections : x # c => SameAt(x)
  BY DEF TInv, TypeOK, SameAt, ReceiveReply, Leave, Take
<1>3. NewLedger(c)
  <2>1. /\ completed'[c] = completed[c] + 1 /\ operations'[c] = operations[c] + 1
        /\ up'[c] = up[c] /\ down'[c] = Tail(down[c])
        /\ server'[c] = server[c] /\ served'[c] = served[c] /\ pc'[c] = "next"
        /\ link'[c] = IF config.mode = "short" /\ link[c] = "open" THEN "closed" ELSE link[c]
    BY DEF TInv, TypeOK, ReceiveReply, Leave, Take
  <2>2. pc[c] = "reply" /\ down[c] # <<>> /\ Tail(down[c]) \in Seq(Frame)
        /\ Head(down[c]).sequence = completed[c] + 1
    BY ValuesAt, TailOf DEF ReceiveReply, NewFrame
  <2>3. CASE config.mode = "short"
    <3>1. link'[c] # "open" /\ completed[c] + 1 \in Nat /\ operations[c] + 1 \in Nat
      BY <2>1, <2>3, ValuesAt
    <3> DEFINE m == link'[c]
               e == Tail(down[c])
               j == completed[c] + 1
               i == operations[c] + 1
    <3>2. m # "open" /\ e \in Seq(Frame) /\ j \in Nat /\ i \in Nat
      BY <2>2, <3>1
    <3> HIDE DEF m, e, j, i
    <3>3. Ledger("next", j, i, m, up[c], e, server[c], served[c])
      BY <2>3, <3>2, ValuesAt, ShortGoesOn
    <3> QED
      BY <2>1, <3>3 DEF NewLedger, m, e, j, i
  <2>4. CASE config.mode # "short"
    <3>1. config.mode \in {"echo", "download"}
      BY <2>2, <2>4, Where DEF Placed
    <3>2. Ledger("next", completed[c] + 1, operations[c] + 1, link[c], up[c], Tail(down[c]), server[c], served[c])
      BY <2>2, <3>1, ValuesAt, ReplyKeeps
    <3> QED
      BY <2>1, <2>4, <3>2 DEF NewLedger
  <2> QED
    BY <2>3, <2>4
<1>4. NotBegun'
  BY DEF TInv, NotBegun, Connections, ReceiveReply, Leave, Take
<1> QED
  BY <1>1, <1>2, <1>3, <1>4, StepKeeps DEF TInv

LEMMA ReceiveReplyStep ==
  ASSUME TInv, NEW c \in Connections, ReceiveReply(c)
  PROVE  TInv'
<1>1. CASE Head(down[c]) = NewFrame(config.mode, completed[c] + 1)
  BY <1>1, ReplyTakenStep
<1>2. CASE Head(down[c]) # NewFrame(config.mode, completed[c] + 1)
  <2>1. config.mode # "idle" /\ pc[c] # "start"
    BY Where DEF Placed, ReceiveReply
  <2> QED
    BY <1>2, <2>1, ErrorStep, FaultOK DEF ReceiveReply
<1> QED
  BY <1>1, <1>2

LEMMA DownloadOverStep ==
  ASSUME TInv, NEW c \in Connections,
         ReplyTimesOut(c),
         config.mode = "download" /\ Share(c) = 0
  PROVE  TInv'
<1>1. TypeOK'
  <2>1. UNCHANGED <<config, ctx, run, completed, operations, failed, expired, up, down,
           server, served, lingering, serving>>
    BY DEF TInv, ReplyTimesOut, Leave
  <2>2. pc' \in [Connections -> ClientState]
    BY DEF TypeOK, TInv, ReplyTimesOut, Leave, ClientState, Dialled, Over
  <2>3. link' \in [Connections -> {"none", "open", "closed", "broken"}]
    BY DEF TypeOK, TInv, ReplyTimesOut, Leave
  <2>4. faults' \in 0 .. MaxFaults
    BY FaultOK DEF ReplyTimesOut
  <2> QED
    BY <2>1, <2>2, <2>3, <2>4 DEF TInv, TypeOK, Connections
<1>2. config' = config /\ \A x \in Connections : x # c => SameAt(x)
  BY DEF TInv, TypeOK, SameAt, ReplyTimesOut, Leave
<1>3. NewLedger(c)
  <2>1. /\ pc'[c] = "ended" /\ completed'[c] = completed[c]
        /\ operations'[c] = operations[c] /\ link'[c] = (IF link[c] = "open" THEN "closed" ELSE link[c])
        /\ up'[c] = up[c] /\ down'[c] = down[c]
        /\ server'[c] = server[c] /\ served'[c] = served[c]
    BY DEF TInv, TypeOK, ReplyTimesOut, Leave
  <2>2. config.mode # "upload" /\ link'[c] # "open"
    BY <2>1
  <2> QED
    BY <2>1, ValuesAt, LeaveKeeps, <2>2 DEF NewLedger
<1>4. NotBegun'
  BY DEF TInv, NotBegun, Connections, ReplyTimesOut, Leave
<1> QED
  BY <1>1, <1>2, <1>3, <1>4, StepKeeps DEF TInv

LEMMA ReplyTimesOutStep ==
  ASSUME TInv, NEW c \in Connections, ReplyTimesOut(c)
  PROVE  TInv'
<1>1. CASE config.mode = "download" /\ Share(c) = 0
  BY <1>1, DownloadOverStep
<1>2. CASE ~(config.mode = "download" /\ Share(c) = 0)
  <2>1. config.mode # "idle" /\ pc[c] # "start"
    BY Where DEF Placed, ReplyTimesOut
  <2>2. faults' \in 0 .. MaxFaults
    BY FaultOK DEF ReplyTimesOut
  <2> QED
    BY <1>2, <2>1, <2>2, ErrorStep DEF ReplyTimesOut
<1> QED
  BY <1>1, <1>2

LEMMA ReplyLostStep ==
  ASSUME TInv, NEW c \in Connections, ReplyLost(c)
  PROVE  TInv'
<1>1. config.mode # "idle" /\ pc[c] # "start"
  BY Where DEF Placed, ReplyLost
<1>2. faults' \in 0 .. MaxFaults
  BY FaultOK DEF ReplyLost
<1> QED
  BY <1>1, <1>2, ErrorStep DEF ReplyLost

LEMMA WriteFailsStep ==
  ASSUME TInv, NEW c \in Connections, WriteFails(c)
  PROVE  TInv'
<1>1. config.mode # "idle" /\ pc[c] # "start"
  BY Where DEF Placed, WriteFails
<1>2. faults' \in 0 .. MaxFaults
  BY FaultOK DEF WriteFails
<1> QED
  BY <1>1, <1>2, ErrorStep DEF WriteFails

LEMMA AckMissingStep ==
  ASSUME TInv, NEW c \in Connections, AckMissing(c)
  PROVE  TInv'
<1>1. config.mode # "idle" /\ pc[c] # "start"
  BY Where DEF Placed, AckMissing
<1>2. faults' \in 0 .. MaxFaults
  BY FaultOK DEF AckMissing
<1> QED
  BY <1>1, <1>2, ErrorStep DEF AckMissing

LEMMA SendBlockStep ==
  ASSUME TInv, NEW c \in Connections,
         SendBlock(c)
  PROVE  TInv'
<1>1. TypeOK'
  <2>1. UNCHANGED <<config, ctx, run, failed, expired, link, down, server, served,
           lingering, serving, faults>>
    BY DEF TInv, SendBlock, Put
  <2>2. pc' \in [Connections -> ClientState]
    BY DEF TypeOK, TInv, SendBlock, Put, ClientState, Dialled, Over
  <2>3. completed' \in [Connections -> Nat]
    BY DEF TypeOK, TInv, SendBlock, Put
  <2>4. operations' \in [Connections -> Nat]
    BY DEF TypeOK, TInv, SendBlock, Put
  <2>5. up' \in [Connections -> Seq(Frame)]
    <3>1. NewFrame("data", completed[c] + 1) \in Frame /\ Len(up[c]) < Window
      BY ValuesAt, NewFrameOK DEF SendBlock, HasRoom, Operation
    <3> QED
      BY <3>1, QueueOK DEF SendBlock
  <2>6. \A x \in Connections : Len(up'[x]) <= Window
    <3>1. NewFrame("data", completed[c] + 1) \in Frame /\ Len(up[c]) < Window
      BY ValuesAt, NewFrameOK DEF SendBlock, HasRoom, Operation
    <3> QED
      BY <3>1, QueueOK DEF SendBlock
  <2> QED
    BY <2>1, <2>2, <2>3, <2>4, <2>5, <2>6 DEF TInv, TypeOK, Connections
<1>2. config' = config /\ \A x \in Connections : x # c => SameAt(x)
  BY DEF TInv, TypeOK, SameAt, SendBlock, Put
<1>3. NewLedger(c)
  <2> DEFINE f == NewFrame("data", completed[c] + 1)
  <2>1. /\ pc'[c] = (IF (completed[c] + 1) % AckInterval = 0 THEN "ack" ELSE "next") /\ completed'[c] = completed[c] + 1
        /\ operations'[c] = operations[c] + 1 /\ link'[c] = link[c]
        /\ up'[c] = Append(up[c], f) /\ down'[c] = down[c]
        /\ server'[c] = server[c] /\ served'[c] = served[c]
    BY DEF TInv, TypeOK, SendBlock, Put
  <2>2. /\ pc[c] = "next" /\ config.mode = "upload" /\ link[c] = "open" /\ server[c] # "closed"
        /\ AckInterval \in Nat \ {0}
    BY Where, ConfigOK DEF Placed, SendBlock, Gone, TInv
  <2>3. f \in Frame /\ f.op = "data" /\ f.sequence = completed[c] + 1
    BY <2>2, ValuesAt, NewFrameOK DEF Operation
  <2> HIDE DEF f
  <2>L. Ledger((IF (completed[c] + 1) % AckInterval = 0 THEN "ack" ELSE "next"),
           completed[c] + 1, operations[c] + 1, link[c], Append(up[c], f), down[c],
           server[c], served[c])
    BY <2>2, <2>3, ValuesAt, BlockKeeps
  <2> QED
    BY <2>1, <2>L DEF NewLedger
<1>4. NotBegun'
  BY DEF TInv, NotBegun, Connections, SendBlock, Put
<1> QED
  BY <1>1, <1>2, <1>3, <1>4, StepKeeps DEF TInv

LEMMA SendDoneStep ==
  ASSUME TInv, NEW c \in Connections,
         SendDone(c)
  PROVE  TInv'
<1>1. TypeOK'
  <2>1. UNCHANGED <<config, ctx, run, completed, operations, failed, expired, link,
           down, server, served, lingering, serving, faults>>
    BY DEF TInv, SendDone, Put
  <2>2. pc' \in [Connections -> ClientState]
    BY DEF TypeOK, TInv, SendDone, Put, ClientState, Dialled, Over
  <2>3. up' \in [Connections -> Seq(Frame)]
    <3>1. NewFrame("done", completed[c]) \in Frame /\ Len(up[c]) < Window
      BY ValuesAt, NewFrameOK DEF SendDone, HasRoom, Operation
    <3> QED
      BY <3>1, QueueOK DEF SendDone
  <2>4. \A x \in Connections : Len(up'[x]) <= Window
    <3>1. NewFrame("done", completed[c]) \in Frame /\ Len(up[c]) < Window
      BY ValuesAt, NewFrameOK DEF SendDone, HasRoom, Operation
    <3> QED
      BY <3>1, QueueOK DEF SendDone
  <2> QED
    BY <2>1, <2>2, <2>3, <2>4 DEF TInv, TypeOK, Connections
<1>2. config' = config /\ \A x \in Connections : x # c => SameAt(x)
  BY DEF TInv, TypeOK, SameAt, SendDone, Put
<1>3. NewLedger(c)
  <2> DEFINE f == NewFrame("done", completed[c])
  <2>1. /\ pc'[c] = "final" /\ completed'[c] = completed[c]
        /\ operations'[c] = operations[c] /\ link'[c] = link[c]
        /\ up'[c] = Append(up[c], f) /\ down'[c] = down[c]
        /\ server'[c] = server[c] /\ served'[c] = served[c]
    BY DEF TInv, TypeOK, SendDone, Put
  <2>2. /\ pc[c] = "next" /\ config.mode = "upload" /\ link[c] = "open" /\ server[c] # "closed"
        /\ AckInterval \in Nat \ {0}
    BY Where, ConfigOK DEF Placed, SendDone, Gone, TInv
  <2>3. f \in Frame /\ f.op = "done"
    BY <2>2, ValuesAt, NewFrameOK DEF Operation
  <2> HIDE DEF f
  <2> QED
    BY <2>1, ValuesAt, DoneKeeps, <2>2, <2>3 DEF NewLedger
<1>4. NotBegun'
  BY DEF TInv, NotBegun, Connections, SendDone, Put
<1> QED
  BY <1>1, <1>2, <1>3, <1>4, StepKeeps DEF TInv

LEMMA AckTakenStep ==
  ASSUME TInv, NEW c \in Connections,
         ReceiveAck(c),
         Head(down[c]) = NewFrame("upload", completed[c])
  PROVE  TInv'
<1>1. TypeOK'
  <2>1. UNCHANGED <<config, ctx, run, completed, operations, failed, expired, up,
           server, served, lingering, serving, faults>>
    BY DEF TInv, ReceiveAck, Leave, Take
  <2>2. pc' \in [Connections -> ClientState]
    BY DEF TypeOK, TInv, ReceiveAck, Leave, Take, ClientState, Dialled, Over
  <2>3. link' \in [Connections -> {"none", "open", "closed", "broken"}]
    BY DEF TypeOK, TInv, ReceiveAck, Leave, Take
  <2>4. down' \in [Connections -> Seq(Frame)]
    <3>1. down[c] # <<>>
      BY DEF ReceiveAck
    <3> QED
      BY <3>1, QueueOK DEF ReceiveAck
  <2>5. \A x \in Connections : Len(down'[x]) <= Window
    <3>1. down[c] # <<>>
      BY DEF ReceiveAck
    <3> QED
      BY <3>1, QueueOK DEF ReceiveAck
  <2> QED
    BY <2>1, <2>2, <2>3, <2>4, <2>5 DEF TInv, TypeOK, Connections
<1>2. config' = config /\ \A x \in Connections : x # c => SameAt(x)
  BY DEF TInv, TypeOK, SameAt, ReceiveAck, Leave, Take
<1>3. NewLedger(c)
  <2>1. /\ completed'[c] = completed[c] /\ operations'[c] = operations[c]
        /\ up'[c] = up[c] /\ down'[c] = Tail(down[c])
        /\ server'[c] = server[c] /\ served'[c] = served[c]
        /\ pc'[c] = (IF pc[c] = "ack" THEN "next" ELSE "ended")
        /\ link'[c] = (IF pc[c] # "ack" /\ link[c] = "open" THEN "closed" ELSE link[c])
    BY DEF TInv, TypeOK, ReceiveAck, Leave, Take
  <2>2. pc[c] \in {"ack", "final"} /\ down[c] # <<>> /\ Tail(down[c]) \in Seq(Frame)
        /\ Head(down[c]).sequence = completed[c] /\ config.mode = "upload"
    BY ValuesAt, TailOf, Where DEF ReceiveAck, NewFrame, Placed
  <2>3. CASE pc[c] = "ack"
    <3>1. AckInterval \in Nat \ {0}
      BY ConfigOK DEF TInv
    <3>2. Ledger("next", completed[c], operations[c], link[c], up[c], Tail(down[c]), server[c], served[c])
      BY <2>2, <2>3, <3>1, ValuesAt, AckKeeps
    <3> QED
      BY <2>1, <2>3, <3>2 DEF NewLedger
  <2>4. CASE pc[c] = "final"
    <3>1. link'[c] # "open"
      BY <2>1, <2>4
    <3>2. served[c] <= completed[c] /\ Bounded(down[c], served[c])
      BY <2>2, ValuesAt DEF Ledger, UploadLedger
    <3>3. served[c] = completed[c] /\ Bounded(Tail(down[c]), served[c])
      BY <2>2, <3>2, ValuesAt, BoundedKept
    <3>4. Ledger("ended", completed[c], operations[c], link'[c], up[c], Tail(down[c]), server[c], served[c])
      BY <2>2, <3>1, <3>3, ValuesAt, EndedUpload
    <3> QED
      BY <2>1, <2>4, <3>4 DEF NewLedger
  <2> QED
    BY <2>2, <2>3, <2>4
<1>4. NotBegun'
  BY DEF TInv, NotBegun, Connections, ReceiveAck, Leave, Take
<1> QED
  BY <1>1, <1>2, <1>3, <1>4, StepKeeps DEF TInv

LEMMA ReceiveAckStep ==
  ASSUME TInv, NEW c \in Connections, ReceiveAck(c)
  PROVE  TInv'
<1>1. CASE Head(down[c]) = NewFrame("upload", completed[c])
  BY <1>1, AckTakenStep
<1>2. CASE Head(down[c]) # NewFrame("upload", completed[c])
  <2>1. config.mode # "idle" /\ pc[c] # "start"
    BY Where DEF Placed, ReceiveAck
  <2> QED
    BY <1>2, <2>1, ErrorStep, FaultOK DEF ReceiveAck
<1> QED
  BY <1>1, <1>2

LEMMA AcceptStep ==
  ASSUME TInv, NEW c \in Connections,
         Accept(c)
  PROVE  TInv'
<1>1. TypeOK'
  <2>1. UNCHANGED <<config, ctx, run, pc, completed, operations, failed, expired, link,
           up, down, lingering, serving, faults>>
    BY DEF TInv, Accept, clientVars
  <2>2. server' \in [Connections -> ServerState]
    BY DEF TypeOK, TInv, Accept, clientVars, ServerState
  <2>3. served' \in [Connections -> Nat]
    BY DEF TypeOK, TInv, Accept, clientVars
  <2> QED
    BY <2>1, <2>2, <2>3 DEF TInv, TypeOK, Connections
<1>2. config' = config /\ \A x \in Connections : x # c => SameAt(x)
  BY DEF TInv, TypeOK, SameAt, Accept, clientVars
<1>3. NewLedger(c)
  <2>1. /\ pc'[c] = pc[c] /\ completed'[c] = completed[c]
        /\ operations'[c] = operations[c] /\ link'[c] = link[c]
        /\ up'[c] = up[c] /\ down'[c] = down[c]
        /\ server'[c] = "header" /\ served'[c] = 0
    BY DEF TInv, TypeOK, Accept
  <2>2. server[c] = "backlog"
    BY DEF Accept
  <2> QED
    BY <2>1, ValuesAt, AcceptKeeps, <2>2 DEF NewLedger
<1>4. NotBegun'
  BY DEF TInv, NotBegun, Connections, Accept, clientVars
<1> QED
  BY <1>1, <1>2, <1>3, <1>4, StepKeeps DEF TInv

LEMMA ServeEchoStep ==
  ASSUME TInv, NEW c \in Connections,
         ServeEcho(c)
  PROVE  TInv'
<1>1. TypeOK'
  <2>1. UNCHANGED <<config, ctx, run, pc, completed, operations, failed, expired, link,
           lingering, serving, faults>>
    BY DEF TInv, ServeEcho, clientVars, Take, Answer, Put
  <2>2. up' \in [Connections -> Seq(Frame)]
    <3>1. up[c] # <<>>
      BY DEF ServeEcho
    <3> QED
      BY <3>1, QueueOK DEF ServeEcho
  <2>3. down' \in [Connections -> Seq(Frame)]
    <3>1. Head(up[c]) \in Frame
      BY ValuesAt, TailOf DEF ServeEcho
    <3>2. CASE down' = down
      BY <3>2 DEF TInv, TypeOK
    <3>3. CASE down' = Put(down, c, Head(up[c])) /\ Len(down[c]) < Window
      BY <3>1, <3>3, QueueOK
    <3> QED
      BY <3>2, <3>3 DEF ServeEcho, Answer, HasRoom
  <2>4. server' \in [Connections -> ServerState]
    BY DEF TypeOK, TInv, ServeEcho, clientVars, Take, Answer, Put, ServerState
  <2>5. served' \in [Connections -> Nat]
    <3>1. served' = [served EXCEPT ![c] = @ + 1]
      BY DEF ServeEcho
    <3>2. served \in [Connections -> Nat]
      BY DEF TInv, TypeOK
    <3> QED
      BY <3>1, <3>2
  <2>6. \A x \in Connections : Len(up'[x]) <= Window
    <3>1. up[c] # <<>>
      BY DEF ServeEcho
    <3> QED
      BY <3>1, QueueOK DEF ServeEcho
  <2>7. \A x \in Connections : Len(down'[x]) <= Window
    <3>1. Head(up[c]) \in Frame
      BY ValuesAt, TailOf DEF ServeEcho
    <3>2. CASE down' = down
      BY <3>2 DEF TInv, TypeOK
    <3>3. CASE down' = Put(down, c, Head(up[c])) /\ Len(down[c]) < Window
      BY <3>1, <3>3, QueueOK
    <3> QED
      BY <3>2, <3>3 DEF ServeEcho, Answer, HasRoom
  <2> QED
    BY <2>1, <2>2, <2>3, <2>4, <2>5, <2>6, <2>7 DEF TInv, TypeOK, Connections
<1>2. config' = config /\ \A x \in Connections : x # c => SameAt(x)
  BY DEF TInv, TypeOK, SameAt, ServeEcho, clientVars, Take, Answer, Put
<1>3. NewLedger(c)
  <2>1. /\ pc'[c] = pc[c] /\ completed'[c] = completed[c] /\ operations'[c] = operations[c]
        /\ link'[c] = link[c] /\ up'[c] = Tail(up[c])
        /\ (IF link[c] = "open" THEN down'[c] = Append(down[c], Head(up[c])) ELSE down'[c] = down[c])
        /\ server'[c] = (IF Head(up[c]).op = "short" THEN "closed" ELSE "echo")
        /\ served'[c] = served[c] + 1
    BY DEF TInv, TypeOK, ServeEcho, clientVars, Take, Answer, Put
  <2>2. /\ server[c] \in {"header", "echo"} /\ up[c] # <<>>
        /\ Head(up[c]).op \in {"echo"} \cup (IF server[c] = "header" THEN {"short"} ELSE {})
        /\ config.mode \in Mode /\ down'[c] \in Seq(Frame)
    BY <1>1, ConfigOK DEF ServeEcho, TInv, TypeOK, Connections
  <2> DEFINE e == down'[c]
             t == server'[c]
  <2>3. /\ IF link[c] = "open" THEN e = Append(down[c], Head(up[c])) ELSE e = down[c]
        /\ t = (IF Head(up[c]).op = "short" THEN "closed" ELSE "echo") /\ e \in Seq(Frame)
    BY <2>1, <2>2
  <2> HIDE DEF e, t
  <2>4. Ledger(pc[c], completed[c], operations[c], link[c], Tail(up[c]), e, t, served[c] + 1)
    BY <2>2, <2>3, ValuesAt, EchoKeeps
  <2> QED
    BY <2>1, <2>4 DEF NewLedger, e, t
<1>4. NotBegun'
  BY DEF TInv, NotBegun, Connections, ServeEcho, clientVars, Take, Answer, Put
<1> QED
  BY <1>1, <1>2, <1>3, <1>4, StepKeeps DEF TInv

LEMMA ServeControlStep ==
  ASSUME TInv, NEW c \in Connections,
         ServeControl(c)
  PROVE  TInv'
<1>1. TypeOK'
  <2>1. UNCHANGED <<config, ctx, run, pc, completed, operations, failed, expired, link,
           down, served, lingering, serving, faults>>
    BY DEF TInv, ServeControl, clientVars, Take
  <2>2. up' \in [Connections -> Seq(Frame)]
    <3>1. up[c] # <<>>
      BY DEF ServeControl
    <3> QED
      BY <3>1, QueueOK DEF ServeControl
  <2>3. server' \in [Connections -> ServerState]
    BY DEF TypeOK, TInv, ServeControl, clientVars, Take, ServerState
  <2>4. \A x \in Connections : Len(up'[x]) <= Window
    <3>1. up[c] # <<>>
      BY DEF ServeControl
    <3> QED
      BY <3>1, QueueOK DEF ServeControl
  <2> QED
    BY <2>1, <2>2, <2>3, <2>4 DEF TInv, TypeOK, Connections
<1>2. config' = config /\ \A x \in Connections : x # c => SameAt(x)
  BY DEF TInv, TypeOK, SameAt, ServeControl, clientVars, Take
<1>3. NewLedger(c)
  <2>1. /\ pc'[c] = pc[c] /\ completed'[c] = completed[c]
        /\ operations'[c] = operations[c] /\ link'[c] = link[c]
        /\ up'[c] = Tail(up[c]) /\ down'[c] = down[c]
        /\ server'[c] = Head(up[c]).op /\ served'[c] = served[c]
    BY DEF TInv, TypeOK, ServeControl, Take
  <2>2. /\ server[c] = "header" /\ up[c] # <<>> /\ Head(up[c]).op \in {"upload", "download"}
        /\ config.mode \in Mode
    BY ConfigOK DEF ServeControl, TInv
  <2> QED
    BY <2>1, ValuesAt, ControlKeeps, <2>2 DEF NewLedger
<1>4. NotBegun'
  BY DEF TInv, NotBegun, Connections, ServeControl, clientVars, Take
<1> QED
  BY <1>1, <1>2, <1>3, <1>4, StepKeeps DEF TInv

LEMMA ServeDataStep ==
  ASSUME TInv, NEW c \in Connections,
         ServeData(c)
  PROVE  TInv'
<1>1. TypeOK'
  <2>1. UNCHANGED <<config, ctx, run, pc, completed, operations, failed, expired, link,
           server, lingering, serving, faults>>
    BY DEF TInv, ServeData, clientVars, Take, Answer, Put
  <2>2. up' \in [Connections -> Seq(Frame)]
    <3>1. up[c] # <<>>
      BY DEF ServeData
    <3> QED
      BY <3>1, QueueOK DEF ServeData
  <2>3. down' \in [Connections -> Seq(Frame)]
    <3>1. NewFrame("upload", served[c] + 1) \in Frame
      BY ValuesAt, NewFrameOK DEF Operation
    <3>2. CASE down' = down
      BY <3>2 DEF TInv, TypeOK
    <3>3. CASE down' = Put(down, c, NewFrame("upload", served[c] + 1)) /\ Len(down[c]) < Window
      BY <3>1, <3>3, QueueOK
    <3> QED
      BY <3>2, <3>3 DEF ServeData, Answer, HasRoom
  <2>4. served' \in [Connections -> Nat]
    <3>1. served' = [served EXCEPT ![c] = @ + 1]
      BY DEF ServeData
    <3>2. served \in [Connections -> Nat]
      BY DEF TInv, TypeOK
    <3> QED
      BY <3>1, <3>2
  <2>5. \A x \in Connections : Len(up'[x]) <= Window
    <3>1. up[c] # <<>>
      BY DEF ServeData
    <3> QED
      BY <3>1, QueueOK DEF ServeData
  <2>6. \A x \in Connections : Len(down'[x]) <= Window
    <3>1. NewFrame("upload", served[c] + 1) \in Frame
      BY ValuesAt, NewFrameOK DEF Operation
    <3>2. CASE down' = down
      BY <3>2 DEF TInv, TypeOK
    <3>3. CASE down' = Put(down, c, NewFrame("upload", served[c] + 1)) /\ Len(down[c]) < Window
      BY <3>1, <3>3, QueueOK
    <3> QED
      BY <3>2, <3>3 DEF ServeData, Answer, HasRoom
  <2> QED
    BY <2>1, <2>2, <2>3, <2>4, <2>5, <2>6 DEF TInv, TypeOK, Connections
<1>2. config' = config /\ \A x \in Connections : x # c => SameAt(x)
  BY DEF TInv, TypeOK, SameAt, ServeData, clientVars, Take, Answer, Put
<1>3. NewLedger(c)
  <2> DEFINE f == NewFrame("upload", served[c] + 1)
             e == down'[c]
  <2>1. /\ pc'[c] = pc[c] /\ completed'[c] = completed[c] /\ operations'[c] = operations[c]
        /\ link'[c] = link[c] /\ up'[c] = Tail(up[c])
        /\ (IF (served[c] + 1) % AckInterval = 0 /\ link[c] = "open"
            THEN e = Append(down[c], f) ELSE e = down[c])
        /\ server'[c] = server[c] /\ served'[c] = served[c] + 1
    BY DEF TInv, TypeOK, ServeData, clientVars, Take, Answer, Put
  <2>2. /\ server[c] = "upload" /\ up[c] # <<>> /\ Head(up[c]).op = "data"
        /\ Head(up[c]).sequence = served[c] + 1 /\ AckInterval \in Nat \ {0}
    BY ConfigOK DEF ServeData, NewFrame, TInv
  <2>3. f \in Frame /\ f.sequence = served[c] + 1 /\ e \in Seq(Frame)
    <3>1. e \in Seq(Frame)
      BY <1>1, <1>2 DEF TypeOK, Connections
    <3> QED
      BY <3>1, ValuesAt, NewFrameOK DEF Operation
  <2> HIDE DEF e, f
  <2>4. Ledger(pc[c], completed[c], operations[c], link[c], Tail(up[c]), e, server[c], served[c] + 1)
    BY <2>1, <2>2, <2>3, ValuesAt, DataKeeps
  <2> QED
    BY <2>1, <2>4 DEF NewLedger, e
<1>4. NotBegun'
  BY DEF TInv, NotBegun, Connections, ServeData, clientVars, Take, Answer, Put
<1> QED
  BY <1>1, <1>2, <1>3, <1>4, StepKeeps DEF TInv

LEMMA ServeDoneStep ==
  ASSUME TInv, NEW c \in Connections,
         ServeDone(c)
  PROVE  TInv'
<1>1. TypeOK'
  <2>1. UNCHANGED <<config, ctx, run, pc, completed, operations, failed, expired, link,
           served, lingering, serving, faults>>
    BY DEF TInv, ServeDone, clientVars, Take, Answer, Put
  <2>2. up' \in [Connections -> Seq(Frame)]
    <3>1. up[c] # <<>>
      BY DEF ServeDone
    <3> QED
      BY <3>1, QueueOK DEF ServeDone
  <2>3. down' \in [Connections -> Seq(Frame)]
    <3>1. NewFrame("upload", served[c]) \in Frame
      BY ValuesAt, NewFrameOK DEF Operation
    <3>2. CASE down' = down
      BY <3>2 DEF TInv, TypeOK
    <3>3. CASE down' = Put(down, c, NewFrame("upload", served[c])) /\ Len(down[c]) < Window
      BY <3>1, <3>3, QueueOK
    <3> QED
      BY <3>2, <3>3 DEF ServeDone, Answer, HasRoom
  <2>4. server' \in [Connections -> ServerState]
    BY DEF TypeOK, TInv, ServeDone, clientVars, Take, Answer, Put, ServerState
  <2>5. \A x \in Connections : Len(up'[x]) <= Window
    <3>1. up[c] # <<>>
      BY DEF ServeDone
    <3> QED
      BY <3>1, QueueOK DEF ServeDone
  <2>6. \A x \in Connections : Len(down'[x]) <= Window
    <3>1. NewFrame("upload", served[c]) \in Frame
      BY ValuesAt, NewFrameOK DEF Operation
    <3>2. CASE down' = down
      BY <3>2 DEF TInv, TypeOK
    <3>3. CASE down' = Put(down, c, NewFrame("upload", served[c])) /\ Len(down[c]) < Window
      BY <3>1, <3>3, QueueOK
    <3> QED
      BY <3>2, <3>3 DEF ServeDone, Answer, HasRoom
  <2> QED
    BY <2>1, <2>2, <2>3, <2>4, <2>5, <2>6 DEF TInv, TypeOK, Connections
<1>2. config' = config /\ \A x \in Connections : x # c => SameAt(x)
  BY DEF TInv, TypeOK, SameAt, ServeDone, clientVars, Take, Answer, Put
<1>3. NewLedger(c)
  <2> DEFINE f == NewFrame("upload", served[c])
             e == down'[c]
  <2>1. /\ pc'[c] = pc[c] /\ completed'[c] = completed[c] /\ operations'[c] = operations[c]
        /\ link'[c] = link[c] /\ up'[c] = Tail(up[c]) /\ (e = down[c] \/ e = Append(down[c], f))
        /\ server'[c] = "closed" /\ served'[c] = served[c]
    BY DEF TInv, TypeOK, ServeDone, clientVars, Take, Answer, Put
  <2>2. server[c] = "upload" /\ up[c] # <<>>
    BY DEF ServeDone
  <2>3. f \in Frame /\ f.sequence = served[c] /\ e \in Seq(Frame)
    <3>1. e \in Seq(Frame)
      BY <1>1, <1>2 DEF TypeOK, Connections
    <3> QED
      BY <3>1, ValuesAt, NewFrameOK DEF Operation
  <2> HIDE DEF e, f
  <2>4. e = down[c] \/ e = Append(down[c], f)
    BY <2>1
  <2>5. Ledger(pc[c], completed[c], operations[c], link[c], Tail(up[c]), e, "closed", served[c])
    BY <2>2, <2>3, <2>4, ValuesAt, ServerDoneKeeps
  <2> QED
    BY <2>1, <2>5 DEF NewLedger, e
<1>4. NotBegun'
  BY DEF TInv, NotBegun, Connections, ServeDone, clientVars, Take, Answer, Put
<1> QED
  BY <1>1, <1>2, <1>3, <1>4, StepKeeps DEF TInv

LEMMA ServeBlockStep ==
  ASSUME TInv, NEW c \in Connections,
         ServeBlock(c)
  PROVE  TInv'
<1>1. TypeOK'
  <2>1. UNCHANGED <<config, ctx, run, pc, completed, operations, failed, expired, link,
           up, server, lingering, serving, faults>>
    BY DEF TInv, ServeBlock, clientVars, Answer, Put
  <2>2. down' \in [Connections -> Seq(Frame)]
    <3>1. NewFrame("download", served[c] + 1) \in Frame
      BY ValuesAt, NewFrameOK DEF Operation
    <3>2. CASE down' = down
      BY <3>2 DEF TInv, TypeOK
    <3>3. CASE down' = Put(down, c, NewFrame("download", served[c] + 1)) /\ Len(down[c]) < Window
      BY <3>1, <3>3, QueueOK
    <3> QED
      BY <3>2, <3>3 DEF ServeBlock, Answer, HasRoom
  <2>3. served' \in [Connections -> Nat]
    <3>1. served' = [served EXCEPT ![c] = @ + 1]
      BY DEF ServeBlock
    <3>2. served \in [Connections -> Nat]
      BY DEF TInv, TypeOK
    <3> QED
      BY <3>1, <3>2
  <2>4. \A x \in Connections : Len(down'[x]) <= Window
    <3>1. NewFrame("download", served[c] + 1) \in Frame
      BY ValuesAt, NewFrameOK DEF Operation
    <3>2. CASE down' = down
      BY <3>2 DEF TInv, TypeOK
    <3>3. CASE down' = Put(down, c, NewFrame("download", served[c] + 1)) /\ Len(down[c]) < Window
      BY <3>1, <3>3, QueueOK
    <3> QED
      BY <3>2, <3>3 DEF ServeBlock, Answer, HasRoom
  <2> QED
    BY <2>1, <2>2, <2>3, <2>4 DEF TInv, TypeOK, Connections
<1>2. config' = config /\ \A x \in Connections : x # c => SameAt(x)
  BY DEF TInv, TypeOK, SameAt, ServeBlock, clientVars, Answer, Put
<1>3. NewLedger(c)
  <2> DEFINE f == NewFrame("download", served[c] + 1)
  <2>1. /\ pc'[c] = pc[c] /\ completed'[c] = completed[c]
        /\ operations'[c] = operations[c] /\ link'[c] = link[c]
        /\ up'[c] = up[c] /\ down'[c] = Append(down[c], f)
        /\ server'[c] = server[c] /\ served'[c] = served[c] + 1
    BY DEF TInv, TypeOK, ServeBlock, Answer, Put, clientVars
  <2>2. server[c] = "download"
    BY DEF ServeBlock
  <2>3. f \in Frame /\ f.sequence = served[c] + 1
    BY ValuesAt, NewFrameOK DEF Operation
  <2> HIDE DEF f
  <2>L. Ledger(pc[c], completed[c], operations[c], link[c], up[c], Append(down[c], f),
           server[c], served[c] + 1)
    BY <2>2, <2>3, ValuesAt, DownloadKeeps
  <2> QED
    BY <2>1, <2>L DEF NewLedger
<1>4. NotBegun'
  BY DEF TInv, NotBegun, Connections, ServeBlock, clientVars, Answer, Put
<1> QED
  BY <1>1, <1>2, <1>3, <1>4, StepKeeps DEF TInv

LEMMA ServerEndsStep ==
  ASSUME TInv, NEW c \in Connections,
         ServerEnds(c)
  PROVE  TInv'
<1>1. TypeOK'
  <2>1. UNCHANGED <<config, ctx, run, pc, completed, operations, failed, expired, link,
           up, down, served, lingering, serving, faults>>
    BY DEF TInv, ServerEnds, clientVars
  <2>2. server' \in [Connections -> ServerState]
    BY DEF TypeOK, TInv, ServerEnds, clientVars, ServerState
  <2> QED
    BY <2>1, <2>2 DEF TInv, TypeOK, Connections
<1>2. config' = config /\ \A x \in Connections : x # c => SameAt(x)
  BY DEF TInv, TypeOK, SameAt, ServerEnds, clientVars
<1>3. NewLedger(c)
  <2>1. /\ pc'[c] = pc[c] /\ completed'[c] = completed[c]
        /\ operations'[c] = operations[c] /\ link'[c] = link[c]
        /\ up'[c] = up[c] /\ down'[c] = down[c]
        /\ server'[c] = "closed" /\ served'[c] = served[c]
    BY DEF TInv, TypeOK, ServerEnds, clientVars
  <2>2. server[c] # "none"
    BY DEF ServerEnds
  <2> QED
    BY <2>1, ValuesAt, CloseKeeps, <2>2 DEF NewLedger
<1>4. NotBegun'
  BY DEF TInv, NotBegun, Connections, ServerEnds, clientVars
<1> QED
  BY <1>1, <1>2, <1>3, <1>4, StepKeeps DEF TInv

LEMMA AllKeep ==
  ASSUME TInv, config' = config, \A x \in Connections : SameAt(x) \/ NewLedger(x)
  PROVE  \A x \in Connections' : LedgerOf(x)'
<1>1. Connections' = Connections
  BY DEF Connections
<1>2. ASSUME NEW x \in Connections, SameAt(x) PROVE NewLedger(x)
  BY <1>2 DEF TInv, LedgerOf, NewLedger, SameAt
<1> QED
  BY <1>1, <1>2, SameConfig

LEMMA BeginStep ==
  ASSUME TInv, Begin
  PROVE  TInv'
<1>1. TypeOK'
  <2>1. UNCHANGED <<config, ctx, completed, operations, failed, expired, link, up,
           down, server, served, lingering, serving, faults>>
    BY DEF TInv, Begin
  <2>2. run' \in {"before", "running", "returned", "dead"}
    BY DEF TypeOK, TInv, Begin
  <2>3. pc' \in [Connections -> ClientState]
    BY DEF TypeOK, TInv, Begin, ClientState, Dialled, Over
  <2> QED
    BY <2>1, <2>2, <2>3 DEF TInv, TypeOK, Connections
<1>2. \A x \in Connections : SameAt(x) \/ NewLedger(x)
  <2> SUFFICES ASSUME NEW x \in Connections PROVE NewLedger(x)
    OBVIOUS
  <2>1. pc[x] = "start"
    BY DEF Begin, TInv, NotBegun
  <2>2. /\ pc'[x] = (IF config.mode = "short" THEN "next" ELSE "dial")
        /\ completed'[x] = completed[x] /\ operations'[x] = operations[x] /\ link'[x] = link[x]
        /\ up'[x] = up[x] /\ down'[x] = down[x] /\ server'[x] = server[x] /\ served'[x] = served[x]
    BY DEF Begin
  <2>3. Ledger(pc'[x], completed[x], operations[x], link[x], up[x], down[x], server[x], served[x])
    BY <2>1, <2>2, ValuesAt, BeginKeeps
  <2> QED
    BY <2>2, <2>3 DEF NewLedger
<1>3. config' = config /\ NotBegun'
  BY DEF TInv, NotBegun, Connections, Begin
<1> QED
  BY <1>1, <1>2, <1>3, AllKeep DEF TInv

LEMMA RunReturnsStep ==
  ASSUME TInv, RunReturns
  PROVE  TInv'
<1>1. TypeOK'
  <2>1. UNCHANGED <<config, ctx, completed, operations, failed, expired, up, down,
           server, served, lingering, serving, faults>>
    BY DEF TInv, RunReturns
  <2>2. run' \in {"before", "running", "returned", "dead"}
    BY DEF TypeOK, TInv, RunReturns
  <2>3. pc' \in [Connections -> ClientState]
    BY DEF TypeOK, TInv, RunReturns, ClientState, Dialled, Over
  <2>4. link' \in [Connections -> {"none", "open", "closed", "broken"}]
    BY DEF TypeOK, TInv, RunReturns
  <2> QED
    BY <2>1, <2>2, <2>3, <2>4 DEF TInv, TypeOK, Connections
<1>2. \A x \in Connections : SameAt(x) \/ NewLedger(x)
  <2>1. ASSUME NEW x \in Connections, pc' # pc \/ link' # link
        PROVE  NewLedger(x)
    <3>1. /\ pc'[x] = "dropped"
          /\ completed'[x] = completed[x] /\ operations'[x] = operations[x] /\ link'[x] # "open"
          /\ up'[x] = up[x] /\ down'[x] = down[x] /\ server'[x] = server[x] /\ served'[x] = served[x]
      BY <2>1 DEF RunReturns
    <3> DEFINE q == pc'[x]
               m == link'[x]
    <3>2. /\ q \in {"failed", "dropped", "ended"} /\ (q = "failed" => config.mode # "idle")
          /\ (q = "ended" => config.mode # "upload") /\ m # "open"
      BY <2>1, <3>1 DEF RunReturns
    <3> HIDE DEF q, m
    <3>3. Ledger(q, completed[x], operations[x], m, up[x], down[x], server[x], served[x])
      BY <3>2, ValuesAt, LeaveKeeps
    <3> QED
      BY <3>1, <3>3 DEF NewLedger, q, m
  <2>2. (pc' = pc /\ link' = link) => \A x \in Connections : SameAt(x)
    BY DEF SameAt, RunReturns
  <2> QED
    BY <2>1, <2>2
<1>3. config' = config /\ NotBegun'
  BY DEF TInv, NotBegun, Connections, RunReturns
<1> QED
  BY <1>1, <1>2, <1>3, AllKeep DEF TInv

LEMMA CloseIdleStep ==
  ASSUME TInv, CloseIdle
  PROVE  TInv'
<1>1. TypeOK'
  <2>1. UNCHANGED <<config, ctx, run, completed, operations, failed, expired, up, down,
           server, served, lingering, serving, faults>>
    BY DEF TInv, CloseIdle
  <2>2. pc' \in [Connections -> ClientState]
    BY DEF TypeOK, TInv, CloseIdle, ClientState, Dialled, Over
  <2>3. link' \in [Connections -> {"none", "open", "closed", "broken"}]
    BY DEF TypeOK, TInv, CloseIdle
  <2> QED
    BY <2>1, <2>2, <2>3 DEF TInv, TypeOK, Connections
<1>2. \A x \in Connections : SameAt(x) \/ NewLedger(x)
  <2>1. ASSUME NEW x \in Connections, CloseIdle
        PROVE  NewLedger(x)
    <3>1. /\ pc'[x] = (IF pc[x] = "dropped" THEN "dropped" ELSE "ended")
          /\ completed'[x] = completed[x] /\ operations'[x] = operations[x] /\ link'[x] # "open"
          /\ up'[x] = up[x] /\ down'[x] = down[x] /\ server'[x] = server[x] /\ served'[x] = served[x]
      BY <2>1 DEF CloseIdle
    <3> DEFINE q == pc'[x]
               m == link'[x]
    <3>2. /\ q \in {"failed", "dropped", "ended"} /\ (q = "failed" => config.mode # "idle")
          /\ (q = "ended" => config.mode # "upload") /\ m # "open"
      BY <2>1, <3>1 DEF CloseIdle
    <3> HIDE DEF q, m
    <3>3. Ledger(q, completed[x], operations[x], m, up[x], down[x], server[x], served[x])
      BY <3>2, ValuesAt, LeaveKeeps
    <3> QED
      BY <3>1, <3>3 DEF NewLedger, q, m
  <2> QED
    BY <2>1
<1>3. config' = config /\ NotBegun'
  BY DEF TInv, NotBegun, Connections, CloseIdle
<1> QED
  BY <1>1, <1>2, <1>3, AllKeep DEF TInv

LEMMA DieStep ==
  ASSUME TInv, Die
  PROVE  TInv'
<1>1. TypeOK'
  <2>1. UNCHANGED <<config, ctx, completed, operations, failed, expired, up, down,
           server, served, lingering, serving, faults>>
    BY DEF TInv, Die
  <2>2. run' \in {"before", "running", "returned", "dead"}
    BY DEF TypeOK, TInv, Die
  <2>3. pc' \in [Connections -> ClientState]
    BY DEF TypeOK, TInv, Die, ClientState, Dialled, Over
  <2>4. link' \in [Connections -> {"none", "open", "closed", "broken"}]
    BY DEF TypeOK, TInv, Die
  <2> QED
    BY <2>1, <2>2, <2>3, <2>4 DEF TInv, TypeOK, Connections
<1>2. \A x \in Connections : SameAt(x) \/ NewLedger(x)
  <2>1. ASSUME NEW x \in Connections, Die
        PROVE  NewLedger(x)
    <3>1. /\ pc'[x] = "dropped"
          /\ completed'[x] = completed[x] /\ operations'[x] = operations[x] /\ link'[x] # "open"
          /\ up'[x] = up[x] /\ down'[x] = down[x] /\ server'[x] = server[x] /\ served'[x] = served[x]
      BY <2>1 DEF Die
    <3> DEFINE q == pc'[x]
               m == link'[x]
    <3>2. /\ q \in {"failed", "dropped", "ended"} /\ (q = "failed" => config.mode # "idle")
          /\ (q = "ended" => config.mode # "upload") /\ m # "open"
      BY <2>1, <3>1 DEF Die
    <3> HIDE DEF q, m
    <3>3. Ledger(q, completed[x], operations[x], m, up[x], down[x], server[x], served[x])
      BY <3>2, ValuesAt, LeaveKeeps
    <3> QED
      BY <3>1, <3>3 DEF NewLedger, q, m
  <2> QED
    BY <2>1
<1>3. config' = config /\ NotBegun'
  BY DEF TInv, NotBegun, Connections, Die
<1> QED
  BY <1>1, <1>2, <1>3, AllKeep DEF TInv

LEMMA ExpireStep ==
  ASSUME TInv, NEW c \in Connections, Expire(c)
  PROVE  TInv'
<1>1. TypeOK'
  <2>1. UNCHANGED <<config, ctx, run, pc, completed, operations, failed, link, up,
           down, server, served, lingering, serving, faults>>
    BY DEF TInv, Expire
  <2>2. expired' \subseteq Connections
    BY DEF TypeOK, TInv, Expire
  <2> QED
    BY <2>1, <2>2 DEF TInv, TypeOK, Connections
<1>2. \A x \in Connections : SameAt(x) \/ NewLedger(x)
  BY DEF SameAt, Expire
<1>3. config' = config /\ NotBegun'
  BY DEF TInv, NotBegun, Connections, Expire
<1> QED
  BY <1>1, <1>2, <1>3, AllKeep DEF TInv

LEMMA SignalStep ==
  ASSUME TInv, Signal
  PROVE  TInv'
<1>1. TypeOK'
  <2>1. UNCHANGED <<config, run, pc, completed, operations, failed, expired, link, up,
           down, server, served, lingering, serving, faults>>
    BY DEF TInv, Signal
  <2>2. config' \in Configs /\ ctx' \in {"live", "done"}
    BY DEF TypeOK, TInv, Signal
  <2> QED
    BY <2>1, <2>2 DEF TInv, TypeOK, Connections
<1>2. \A x \in Connections : SameAt(x) \/ NewLedger(x)
  BY DEF SameAt, Signal
<1>3. config' = config /\ NotBegun'
  BY DEF TInv, NotBegun, Connections, Signal
<1> QED
  BY <1>1, <1>2, <1>3, AllKeep DEF TInv

LEMMA LingeringEndsStep ==
  ASSUME TInv, LingeringEnds
  PROVE  TInv'
<1>1. TypeOK'
  <2>1. UNCHANGED <<config, ctx, run, pc, completed, operations, failed, expired, link,
           up, down, server, served, serving, faults>>
    BY DEF TInv, LingeringEnds, clientVars
  <2>2. lingering' \in Nat
    BY DEF TypeOK, TInv, LingeringEnds, clientVars
  <2> QED
    BY <2>1, <2>2 DEF TInv, TypeOK, Connections
<1>2. \A x \in Connections : SameAt(x) \/ NewLedger(x)
  BY DEF SameAt, LingeringEnds, clientVars
<1>3. config' = config /\ NotBegun'
  BY DEF TInv, NotBegun, Connections, LingeringEnds, clientVars
<1> QED
  BY <1>1, <1>2, <1>3, AllKeep DEF TInv

LEMMA ServeReturnsStep ==
  ASSUME TInv, ServeReturns
  PROVE  TInv'
<1>1. TypeOK'
  <2>1. UNCHANGED <<config, ctx, run, pc, completed, operations, failed, expired, link,
           up, down, server, served, lingering, faults>>
    BY DEF TInv, ServeReturns, clientVars
  <2>2. serving' \in {"open", "closing", "returned"}
    BY DEF TypeOK, TInv, ServeReturns, clientVars
  <2> QED
    BY <2>1, <2>2 DEF TInv, TypeOK, Connections
<1>2. \A x \in Connections : SameAt(x) \/ NewLedger(x)
  BY DEF SameAt, ServeReturns, clientVars
<1>3. config' = config /\ NotBegun'
  BY DEF TInv, NotBegun, Connections, ServeReturns, clientVars
<1> QED
  BY <1>1, <1>2, <1>3, AllKeep DEF TInv

LEMMA StopServerStep ==
  ASSUME TInv, StopServer
  PROVE  TInv'
<1>1. TypeOK'
  <2>1. UNCHANGED <<config, ctx, run, pc, completed, operations, failed, expired, link,
           down, served, lingering>>
    BY DEF TInv, StopServer, clientVars
  <2>2. up' \in [Connections -> Seq(Frame)]
    BY DEF TypeOK, TInv, StopServer, clientVars
  <2>3. server' \in [Connections -> ServerState]
    BY DEF TypeOK, TInv, StopServer, clientVars, ServerState
  <2>4. serving' \in {"open", "closing", "returned"}
    BY DEF TypeOK, TInv, StopServer, clientVars
  <2>5. faults' \in 0 .. MaxFaults
    BY FaultOK DEF StopServer
  <2>6. \A x \in Connections : Len(up'[x]) <= Window
    <3>1. Window \in Nat /\ Len(<<>>) = 0
      BY TcpAssumption DEF TcpAssumption
    <3> QED
      BY <3>1 DEF TInv, TypeOK, StopServer
  <2> QED
    BY <2>1, <2>2, <2>3, <2>4, <2>5, <2>6 DEF TInv, TypeOK, Connections
<1>2. \A x \in Connections : SameAt(x) \/ NewLedger(x)
  <2> SUFFICES ASSUME NEW x \in Connections PROVE SameAt(x) \/ NewLedger(x)
    OBVIOUS
  <2>1. /\ pc'[x] = pc[x] /\ completed'[x] = completed[x] /\ operations'[x] = operations[x]
        /\ link'[x] = link[x] /\ down'[x] = down[x] /\ served'[x] = served[x]
        /\ up'[x] = (IF server[x] = "backlog" THEN <<>> ELSE up[x])
        /\ server'[x] = (IF server[x] = "backlog" THEN "closed" ELSE server[x])
    BY DEF StopServer, clientVars
  <2>2. CASE server[x] = "backlog"
    <3>1. Ledger(pc[x], completed[x], operations[x], link[x], <<>>, down[x], "closed", served[x])
      BY <2>2, ValuesAt, RefuseKeeps
    <3> QED
      BY <2>1, <2>2, <3>1 DEF NewLedger
  <2>3. CASE server[x] # "backlog"
    BY <2>1, <2>3 DEF SameAt
  <2> QED
    BY <2>2, <2>3
<1>3. config' = config /\ NotBegun'
  BY DEF TInv, NotBegun, Connections, StopServer, clientVars
<1> QED
  BY <1>1, <1>2, <1>3, AllKeep DEF TInv

LEMMA BreakStep ==
  ASSUME TInv, NEW c \in Connections,
         Break(c)
  PROVE  TInv'
<1>1. TypeOK'
  <2>1. UNCHANGED <<config, ctx, run, pc, completed, operations, failed, expired,
           server, served, lingering, serving>>
    BY DEF TInv, Break, clientVars
  <2>2. link' \in [Connections -> {"none", "open", "closed", "broken"}]
    BY DEF TypeOK, TInv, Break, clientVars
  <2>3. up' \in [Connections -> Seq(Frame)]
    BY DEF TypeOK, TInv, Break, clientVars
  <2>4. down' \in [Connections -> Seq(Frame)]
    BY DEF TypeOK, TInv, Break, clientVars
  <2>5. faults' \in 0 .. MaxFaults
    BY FaultOK DEF Break
  <2>6. \A x \in Connections : Len(up'[x]) <= Window
    <3>1. Window \in Nat /\ Len(<<>>) = 0
      BY TcpAssumption DEF TcpAssumption
    <3> QED
      BY <3>1 DEF TInv, TypeOK, Break
  <2>7. \A x \in Connections : Len(down'[x]) <= Window
    <3>1. Window \in Nat /\ Len(<<>>) = 0
      BY TcpAssumption DEF TcpAssumption
    <3> QED
      BY <3>1 DEF TInv, TypeOK, Break
  <2> QED
    BY <2>1, <2>2, <2>3, <2>4, <2>5, <2>6, <2>7 DEF TInv, TypeOK, Connections
<1>2. config' = config /\ \A x \in Connections : x # c => SameAt(x)
  BY DEF TInv, TypeOK, SameAt, Break, clientVars
<1>3. NewLedger(c)
  <2>1. /\ pc'[c] = pc[c] /\ completed'[c] = completed[c]
        /\ operations'[c] = operations[c] /\ link'[c] = "broken"
        /\ up'[c] = <<>> /\ down'[c] = <<>>
        /\ server'[c] = server[c] /\ served'[c] = served[c]
    BY DEF TInv, TypeOK, Break, clientVars
  <2>2. link[c] = "open"
    BY DEF Break
  <2> QED
    BY <2>1, ValuesAt, BreakKeeps, <2>2 DEF NewLedger
<1>4. NotBegun'
  BY DEF TInv, NotBegun, Connections, Break, clientVars
<1> QED
  BY <1>1, <1>2, <1>3, <1>4, StepKeeps DEF TInv

LEMMA DamagedFrame ==
  ASSUME NEW q \in Seq(Frame), NEW i \in DOMAIN q
  PROVE  LET r == [q EXCEPT ![i].intact = FALSE] IN
         /\ r \in Seq(Frame) /\ Len(r) = Len(q)
         /\ \A j \in DOMAIN q : r[j].op = q[j].op /\ r[j].sequence = q[j].sequence
<1> DEFINE f == [q[i] EXCEPT !.intact = FALSE]
           r == [q EXCEPT ![i].intact = FALSE]
<1>1. q[i] \in Frame /\ \A j \in DOMAIN q : q[j] \in Frame
  OBVIOUS
<1>2. f \in Frame /\ f.op = q[i].op /\ f.sequence = q[i].sequence
  BY <1>1 DEF Frame
<1>3. r = [q EXCEPT ![i] = f]
  OBVIOUS
<1> HIDE DEF f
<1>4. [q EXCEPT ![i] = f] \in Seq(Frame) /\ Len([q EXCEPT ![i] = f]) = Len(q)
  BY <1>2
<1>5. \A j \in DOMAIN q : [q EXCEPT ![i] = f][j] = IF j = i THEN f ELSE q[j]
  OBVIOUS
<1> QED
  BY <1>2, <1>3, <1>4, <1>5

LEMMA DamageStep ==
  ASSUME TInv, NEW c \in Connections,
         Damage(c)
  PROVE  TInv'
<1>0. /\ \A x \in Connections : up[x] \in Seq(Frame) /\ down[x] \in Seq(Frame)
      /\ up \in [Connections -> Seq(Frame)] /\ down \in [Connections -> Seq(Frame)]
      /\ \A x \in Connections : Len(up[x]) <= Window /\ Len(down[x]) <= Window
  BY DEF TInv, TypeOK
<1>v. /\ up' = [up EXCEPT ![c] = up'[c]] /\ down' = [down EXCEPT ![c] = down'[c]]
      /\ up'[c] \in Seq(Frame) /\ Len(up'[c]) = Len(up[c])
      /\ \A i \in DOMAIN up[c] : /\ up'[c][i].op = up[c][i].op
                               /\ up'[c][i].sequence = up[c][i].sequence
      /\ down'[c] \in Seq(Frame) /\ Len(down'[c]) = Len(down[c])
      /\ \A i \in DOMAIN down[c] : down'[c][i].sequence = down[c][i].sequence
  <2>1. CASE \E i \in DOMAIN up[c] : up' = [up EXCEPT ![c][i].intact = FALSE] /\ UNCHANGED down
    <3>1. PICK i \in DOMAIN up[c] : up' = [up EXCEPT ![c][i].intact = FALSE] /\ UNCHANGED down
      BY <2>1
    <3> DEFINE r == [up[c] EXCEPT ![i].intact = FALSE]
    <3>2. up' = [up EXCEPT ![c] = r]
      BY <3>1
    <3>3. /\ r \in Seq(Frame) /\ Len(r) = Len(up[c])
          /\ \A j \in DOMAIN up[c] : r[j].op = up[c][j].op /\ r[j].sequence = up[c][j].sequence
      BY <1>0, DamagedFrame
    <3> HIDE DEF r
    <3>4. down' = down /\ up'[c] = r
      BY <1>0, <3>1, <3>2
    <3> QED
      BY <1>0, <3>2, <3>3, <3>4
  <2>2. CASE \E i \in DOMAIN down[c] : down' = [down EXCEPT ![c][i].intact = FALSE] /\ UNCHANGED up
    <3>1. PICK i \in DOMAIN down[c] : down' = [down EXCEPT ![c][i].intact = FALSE] /\ UNCHANGED up
      BY <2>2
    <3> DEFINE r == [down[c] EXCEPT ![i].intact = FALSE]
    <3>2. down' = [down EXCEPT ![c] = r]
      BY <3>1
    <3>3. /\ r \in Seq(Frame) /\ Len(r) = Len(down[c])
          /\ \A j \in DOMAIN down[c] : r[j].op = down[c][j].op /\ r[j].sequence = down[c][j].sequence
      BY <1>0, DamagedFrame
    <3> HIDE DEF r
    <3>4. up' = up /\ down'[c] = r
      BY <1>0, <3>1, <3>2
    <3> QED
      BY <1>0, <3>2, <3>3, <3>4
  <2> QED
    BY <2>1, <2>2 DEF Damage
<1>1. TypeOK'
  <2>1. UNCHANGED <<config, ctx, run, pc, completed, operations, failed, expired, link,
           server, served, lingering, serving>>
    BY DEF TInv, Damage, clientVars
  <2>2. up' \in [Connections -> Seq(Frame)]
    BY <1>0, <1>v
  <2>3. down' \in [Connections -> Seq(Frame)]
    BY <1>0, <1>v
  <2>4. faults' \in 0 .. MaxFaults
    BY FaultOK DEF Damage
  <2>5. \A x \in Connections : Len(up'[x]) <= Window
    BY <1>0, <1>v
  <2>6. \A x \in Connections : Len(down'[x]) <= Window
    BY <1>0, <1>v
  <2> QED
    BY <2>1, <2>2, <2>3, <2>4, <2>5, <2>6 DEF TInv, TypeOK, Connections
<1>2. config' = config /\ \A x \in Connections : x # c => SameAt(x)
  BY <1>0, <1>v DEF SameAt, Damage, clientVars
<1>3. NewLedger(c)
  <2>1. /\ pc'[c] = pc[c] /\ completed'[c] = completed[c] /\ operations'[c] = operations[c]
        /\ link'[c] = link[c] /\ server'[c] = server[c] /\ served'[c] = served[c]
    BY DEF Damage, clientVars
  <2> DEFINE v == up'[c]
             e == down'[c]
  <2>2. /\ v \in Seq(Frame) /\ Len(v) = Len(up[c])
        /\ \A i \in DOMAIN up[c] : v[i].op = up[c][i].op /\ v[i].sequence = up[c][i].sequence
        /\ e \in Seq(Frame) /\ Len(e) = Len(down[c])
        /\ \A i \in DOMAIN down[c] : e[i].sequence = down[c][i].sequence
    BY <1>v
  <2> HIDE DEF v, e
  <2>3. Ledger(pc[c], completed[c], operations[c], link[c], v, e, server[c], served[c])
    BY <2>2, ValuesAt, DamageKeeps
  <2> QED
    BY <2>1, <2>3 DEF NewLedger, v, e
<1>4. NotBegun'
  BY DEF TInv, NotBegun, Connections, Damage, clientVars
<1> QED
  BY <1>1, <1>2, <1>3, <1>4, StepKeeps DEF TInv

(* A step of the processes around the workload changes none of its state   *)
(* but the number of faults.                                               *)
LEMMA BystanderStep ==
  ASSUME TInv, UNCHANGED <<config, ctx, run, loopVars, expired, wireVars, peerVars>>,
         faults' \in 0 .. MaxFaults
  PROVE  TInv'
<1>1. TypeOK'
  BY DEF TInv, TypeOK, Connections
<1>2. \A x \in Connections : SameAt(x)
  BY DEF SameAt
<1>3. NotBegun'
  BY DEF TInv, NotBegun, Connections
<1> QED
  BY <1>1, <1>2, <1>3, AllKeep DEF TInv

LEMMA TInvInit == ASSUME Init PROVE TInv
<1>1. TypeOK
  <2>1. Window \in Nat /\ MaxFaults \in Nat /\ Len(<<>>) = 0
    BY TcpAssumption DEF TcpAssumption
  <2> QED
    BY <2>1 DEF Init, TypeOK, ClientState, ServerState
<1>2. ASSUME NEW c \in Connections PROVE LedgerOf(c)
  <2>1. /\ pc[c] = "start" /\ completed[c] = 0 /\ operations[c] = 0 /\ link[c] = "none"
        /\ up[c] = <<>> /\ down[c] = <<>> /\ server[c] = "none" /\ served[c] = 0
    BY <1>2 DEF Init
  <2>2. Placed("start", "none", "none") /\ Counted("start", 0, 0, "none", 0)
    BY DEF Placed, Counted, Dialled
  <2>3. /\ OneUnderWay("start", "none", <<>>, <<>>, "none") /\ EchoLedger(0, <<>>, <<>>, 0)
        /\ DownloadLedger(0, "none", <<>>, <<>>, "none", 0) /\ IdleLedger("start", 0, <<>>, <<>>)
    BY DEF OneUnderWay, EchoLedger, DownloadLedger, IdleLedger, Bounded
  <2>4. UploadLedger("start", 0, "none", <<>>, <<>>, "none", 0)
    <3>1. AckInterval \in Nat
      BY <1>1, ConfigOK
    <3> QED
      BY <3>1 DEF UploadLedger, DataBounded, Bounded
  <2> QED
    BY <2>1, <2>2, <2>3, <2>4 DEF LedgerOf, Ledger
<1>3. NotBegun
  BY DEF Init, NotBegun
<1> QED
  BY <1>1, <1>2, <1>3 DEF TInv

LEMMA TInvNext == ASSUME TInv, [Next]_vars PROVE TInv'
<1>1. CASE Begin \/ CloseIdle \/ Signal \/ Die \/ RunReturns
  BY <1>1, BeginStep, CloseIdleStep, SignalStep, DieStep, RunReturnsStep
<1>2. ASSUME NEW c \in Connections, ClientStep(c) PROVE TInv'
  BY <1>2, DialStep, DialFailsStep, LoopEndsStep, LoopGoesOnStep, SendRequestStep,
     AttemptDroppedStep, ReceiveReplyStep, ReplyTimesOutStep, ReplyLostStep, SendBlockStep,
     SendDoneStep, WriteFailsStep, ReceiveAckStep, AckMissingStep DEF ClientStep
<1>3. ASSUME NEW c \in Connections, Expire(c) \/ Break(c) \/ Damage(c) PROVE TInv'
  BY <1>3, ExpireStep, BreakStep, DamageStep
<1>4. ASSUME NEW c \in Connections, ServerStep(c) PROVE TInv'
  BY <1>4, AcceptStep, ServeEchoStep, ServeControlStep, ServeDataStep, ServeDoneStep,
     ServeBlockStep, ServerEndsStep DEF ServerStep
<1>5. CASE LingeringEnds \/ ServeReturns \/ StopServer
  BY <1>5, LingeringEndsStep, ServeReturnsStep, StopServerStep
<1>6. CASE UNCHANGED vars
  BY <1>6, BystanderStep DEF TInv, TypeOK, vars
<1> QED
  BY <1>1, <1>2, <1>3, <1>4, <1>5, <1>6 DEF Next, WorkloadStep, PeerStep, PathStep

LEMMA TInvServed == ASSUME TInv PROVE OperationsAreServed
<1> SUFFICES ASSUME NEW c \in Connections
             PROVE  /\ config.mode \in {"echo", "download"} => operations[c] <= served[c]
                    /\ config.mode = "upload" => operations[c] <= served[c] + AckInterval
                    /\ config.mode = "upload" /\ pc[c] = "ended" => operations[c] = served[c]
  BY DEF OperationsAreServed
<1>1. config.mode \in {"echo", "download", "upload"} => operations[c] = completed[c]
  BY ValuesAt DEF Ledger, Counted
<1> QED
  BY <1>1, ValuesAt DEF Ledger, EchoLedger, DownloadLedger, UploadLedger

LEMMA TInvWait == ASSUME TInv PROVE NeverBothWait
<1> SUFFICES ASSUME NEW c \in Connections, link[c] = "open", server[c] # "closed"
             PROVE  /\ ~ /\ pc[c] \in {"reply", "ack", "final"} /\ down[c] = <<>>
                         /\ server[c] \in {"header", "echo", "upload"} /\ up[c] = <<>>
                    /\ ~ (~HasRoom(up, c) /\ ~HasRoom(down, c))
  BY DEF NeverBothWait
<1> DEFINE a == Len(up[c])
           b == Len(down[c])
<1>1. a \in Nat /\ b \in Nat /\ completed[c] \in Nat /\ served[c] \in Nat
  BY ValuesAt
<1>2. (up[c] = <<>> => a = 0) /\ (down[c] = <<>> => b = 0)
  OBVIOUS
<1>3. Window \in Nat \ {0} /\ config.mode \in Mode
  BY TcpAssumption, ConfigOK DEF TcpAssumption, TInv
<1>4. ~(~HasRoom(up, c) /\ ~HasRoom(down, c)) <=> (a < Window \/ b < Window)
  BY <1>1, <1>3 DEF HasRoom
<1> HIDE DEF a, b
<1>5. Placed(pc[c], link[c], server[c])
  BY Where
<1>6. CASE config.mode \in {"echo", "short"}
  <2>1. a + b = (IF pc[c] = "reply" THEN 1 ELSE 0)
    BY <1>6, ValuesAt DEF Ledger, OneUnderWay, a, b
  <2>2. pc[c] \notin {"ack", "final"}
    BY <1>5, <1>6 DEF Placed
  <2> QED
    BY <1>1, <1>2, <1>3, <1>4, <2>1, <2>2
<1>7. CASE config.mode = "download"
  <2>1. a = (IF server[c] \in Awaiting THEN 1 ELSE 0)
    BY <1>7, ValuesAt DEF Ledger, DownloadLedger, a
  <2>2. server[c] \in Awaiting => b = 0
    BY <1>2, <1>7, ValuesAt DEF Ledger, DownloadLedger
  <2>3. server[c] \in {"header", "echo", "upload"} => server[c] \in Awaiting
    BY <1>5, <1>7 DEF Placed, Awaiting
  <2> QED
    BY <1>1, <1>2, <1>3, <1>4, <2>1, <2>2, <2>3
<1>8. CASE config.mode = "upload"
  <2>1. /\ a = (IF server[c] = "upload" THEN 0 ELSE 1) + (completed[c] - served[c])
                + (IF pc[c] = "final" THEN 1 ELSE 0)
        /\ b = (IF pc[c] = "ack" /\ served[c] = completed[c] THEN 1 ELSE 0)
        /\ served[c] <= completed[c]
        /\ pc[c] = "ack" => completed[c] > 0
    BY <1>8, ValuesAt DEF Ledger, UploadLedger, a, b
  <2>2. /\ server[c] \in Awaiting \cup {"upload"} /\ pc[c] # "reply"
        /\ server[c] \in Awaiting => served[c] = 0 /\ server[c] # "upload"
    BY <1>5, <1>8, ValuesAt DEF Ledger, Placed, Counted, Awaiting
  <2>3. a < Window \/ b < Window
    <3>1. CASE b = 0
      BY <1>3, <3>1
    <3>2. CASE b # 0
      <4>1. pc[c] = "ack" /\ served[c] = completed[c]
        BY <2>1, <3>2
      <4>2. server[c] = "upload"
        BY <1>1, <2>1, <2>2, <4>1
      <4>3. a = 0
        BY <1>1, <2>1, <4>1, <4>2
      <4> QED
        BY <1>3, <4>3
    <3> QED
      BY <3>1, <3>2
  <2>4. ASSUME pc[c] \in {"reply", "ack", "final"}, a = 0, b = 0 PROVE FALSE
    <3>1. server[c] = "upload" /\ completed[c] = served[c] /\ pc[c] # "final"
      BY <1>1, <2>1, <2>4
    <3> QED
      BY <2>1, <2>2, <2>4, <3>1
  <2> QED
    BY <1>2, <1>4, <2>3, <2>4
<1>9. CASE config.mode = "idle"
  <2>1. a = 0 /\ pc[c] \notin {"reply", "ack", "final"}
    BY <1>2, <1>5, <1>9, ValuesAt DEF Ledger, IdleLedger, Placed
  <2> QED
    BY <1>3, <1>4, <2>1
<1> QED
  BY <1>3, <1>6, <1>7, <1>8, <1>9 DEF Mode

-----------------------------------------------------------------------------
(* What a workload has counted, as long as nobody has signalled or killed  *)
(* it: p, k, o, b are the client's place, completed, operations and failed,*)
(* m its share of the requests.                                            *)

Account(p, k, o, b, m) ==
  /\ p # "dropped"
  /\ config.mode = "idle" => o + b = (IF p \in {"start", "dial"} THEN 0 ELSE 1)
  /\ config.mode # "idle" =>
       /\ p # "failed" => o + b = k
       /\ m > 0 =>
            /\ k <= m
            /\ p \in {"dial", "send", "reply"} => k < m
            /\ p \in {"final", "ended"} => k = m

AccountOf(c) == Account(pc[c], completed[c], operations[c], failed[c], Share(c))

Accounts ==
  /\ config.requests # 0 => expired = {}
  /\ run = "returned" => \A c \in Connections : pc[c] \in Over \cup Dialled
  /\ ctx = "live" /\ run # "dead" => \A c \in Connections : AccountOf(c)

LEMMA CountsAt ==
  ASSUME TInv, NEW c \in Connections
  PROVE  /\ completed[c] \in Nat /\ operations[c] \in Nat /\ failed[c] \in Nat
         /\ Share(c) \in Nat
         /\ Share(c) > 0 => config.requests # 0
         /\ config.requests >= config.connections => Share(c) > 0
<1>1. /\ completed[c] \in Nat /\ operations[c] \in Nat /\ failed[c] \in Nat /\ Share(c) \in Nat
  BY ConfigOK DEF TInv, TypeOK
<1>2. config.connections \in Nat \ {0} /\ config.requests \in Nat
  BY TcpAssumption DEF TcpAssumption, TInv, TypeOK, Config
<1> DEFINE q == config.requests \div config.connections
           r == config.requests % config.connections
<1>3. q \in Nat /\ r \in 0 .. config.connections - 1
      /\ config.requests = config.connections * q + r
  BY <1>2, Quotient
<1>4. c \in Nat /\ Share(c) = q + (IF c < r THEN 1 ELSE 0)
  BY ConfigOK DEF TInv, Share
<1> HIDE DEF q, r
<1>5. ASSUME config.requests = 0 PROVE Share(c) = 0
  <2>1. config.connections * q >= 0
    BY <1>2, <1>3
  <2>2. r = 0 /\ config.connections * q = 0
    BY <1>2, <1>3, <1>5, <2>1
  <2>3. q = 0
    BY <1>2, <1>3, <2>2
  <2> QED
    BY <1>4, <2>2, <2>3
<1>6. ASSUME config.requests >= config.connections PROVE Share(c) > 0
  <2>1. q # 0
    BY <1>2, <1>3, <1>6
  <2> QED
    BY <1>3, <1>4, <2>1
<1> QED
  BY <1>1, <1>2, <1>5, <1>6

LEMMA AccountsInit == ASSUME Init PROVE Accounts
<1>1. TInv
  BY TInvInit
<1> SUFFICES ASSUME NEW c \in Connections PROVE AccountOf(c)
  BY DEF Accounts, Init
<1>2. pc[c] = "start" /\ completed[c] = 0 /\ operations[c] = 0 /\ failed[c] = 0
  BY DEF Init
<1>3. 0 <= Share(c)
  BY <1>1, CountsAt
<1>4. Account("start", 0, 0, 0, Share(c))
  BY <1>3 DEF Account
<1> QED
  BY <1>2, <1>4 DEF AccountOf

(* Nothing changes for the clients. *)
LEMMA AccountsSame == ASSUME Accounts, UNCHANGED clientVars PROVE Accounts'
BY DEF Accounts, AccountOf, Account, Connections, Share, clientVars, loopVars

(* One client moves.                                                       *)
Elsewhere(c) ==
  \A d \in Connections : d # c =>
    /\ pc'[d] = pc[d] /\ completed'[d] = completed[d]
    /\ operations'[d] = operations[d] /\ failed'[d] = failed[d]

LEMMA OneAccount ==
  ASSUME TInv, Accounts, NEW c \in Connections, UNCHANGED <<config, ctx, run, expired>>,
         Elsewhere(c), run # "returned",
         ctx = "live" /\ AccountOf(c) =>
           Account(pc'[c], completed'[c], operations'[c], failed'[c], Share(c))
  PROVE  Accounts'
<1>1. Connections' = Connections /\ \A d : Share(d)' = Share(d)
  BY DEF Connections, Share
<1> SUFFICES ASSUME ctx = "live", run # "dead", NEW d \in Connections PROVE AccountOf(d)'
  BY <1>1 DEF Accounts
<1>2. AccountOf(c) /\ AccountOf(d)
  BY DEF Accounts
<1>3. Account(pc'[d], completed'[d], operations'[d], failed'[d], Share(d))
  BY <1>2 DEF Elsewhere, AccountOf
<1> QED
  BY <1>1, <1>3 DEF AccountOf, Account

(* Only a client goroutine that is under way makes a step.                 *)
LEMMA ClientMoves ==
  ASSUME TInv, Accounts, NEW c \in Connections, ClientStep(c)
  PROVE  /\ UNCHANGED <<config, ctx, run, expired>> /\ run # "returned" /\ Elsewhere(c)
         /\ pc[c] \in {"dial", "next", "send", "reply", "ack", "final"}
         /\ config.mode = "idle" => pc[c] = "dial"
<1>1. /\ UNCHANGED <<config, ctx, run, expired>>
      /\ pc[c] \in {"dial", "next", "send", "reply", "ack", "final"}
  BY DEF ClientStep, Dial, DialFails, LoopEnds, LoopGoesOn, SendRequest, AttemptDropped,
     ReceiveReply, ReplyTimesOut, ReplyLost, SendBlock, SendDone, WriteFails, ReceiveAck, AckMissing
<1>2. run # "returned"
  BY <1>1 DEF Accounts, Over, Dialled
<1>3. config.mode = "idle" => pc[c] = "dial"
  BY <1>1, ValuesAt DEF Ledger, Placed
<1>4. \A d \in Connections : d # c => pc'[d] = pc[d]
  BY DEF TInv, TypeOK, Leave, GiveUp, TransportError, Mismatch,
     ClientStep, Dial, DialFails, LoopEnds, LoopGoesOn, SendRequest, AttemptDropped,
     ReceiveReply, ReplyTimesOut, ReplyLost, SendBlock, SendDone, WriteFails, ReceiveAck, AckMissing
<1>5. \A d \in Connections : d # c => completed'[d] = completed[d]
  BY DEF TInv, TypeOK, Leave, GiveUp, TransportError, Mismatch,
     ClientStep, Dial, DialFails, LoopEnds, LoopGoesOn, SendRequest, AttemptDropped,
     ReceiveReply, ReplyTimesOut, ReplyLost, SendBlock, SendDone, WriteFails, ReceiveAck, AckMissing
<1>6. \A d \in Connections : d # c => operations'[d] = operations[d]
  BY DEF TInv, TypeOK, Leave, GiveUp, TransportError, Mismatch,
     ClientStep, Dial, DialFails, LoopEnds, LoopGoesOn, SendRequest, AttemptDropped,
     ReceiveReply, ReplyTimesOut, ReplyLost, SendBlock, SendDone, WriteFails, ReceiveAck, AckMissing
<1>7. \A d \in Connections : d # c => failed'[d] = failed[d]
  BY DEF TInv, TypeOK, Leave, GiveUp, TransportError, Mismatch,
     ClientStep, Dial, DialFails, LoopEnds, LoopGoesOn, SendRequest, AttemptDropped,
     ReceiveReply, ReplyTimesOut, ReplyLost, SendBlock, SendDone, WriteFails, ReceiveAck, AckMissing
<1> QED
  BY <1>1, <1>2, <1>3, <1>4, <1>5, <1>6, <1>7 DEF Elsewhere

(* An error is counted once, and an attempt that failed is over.           *)
LEMMA ErrorAccount ==
  ASSUME TInv, NEW c \in Connections, config.mode # "idle", ctx = "live", AccountOf(c),
         TransportError(c) \/ Mismatch(c),
         config.mode = "short" => pc[c] \in {"dial", "send", "reply"}
  PROVE  Account(pc'[c], completed'[c], operations'[c], failed'[c], Share(c))
<1>1. completed[c] \in Nat /\ operations[c] \in Nat /\ failed[c] \in Nat /\ Share(c) \in Nat
  BY CountsAt
<1>2. CASE GiveUp(c) /\ UNCHANGED <<completed, operations>>
  <2>1. pc'[c] = "failed" /\ completed'[c] = completed[c]
    BY <1>2 DEF GiveUp, Leave, TInv, TypeOK
  <2> QED
    BY <2>1 DEF AccountOf, Account
<1>3. CASE TransportError(c) /\ config.mode = "short"
  <2>1. /\ pc'[c] = "next" /\ completed'[c] = completed[c] + 1
        /\ operations'[c] = operations[c] /\ failed'[c] = failed[c] + 1
    BY <1>3 DEF TransportError, Leave, TInv, TypeOK
  <2>2. pc[c] # "failed" /\ (Share(c) > 0 => completed[c] < Share(c))
        /\ operations[c] + failed[c] = completed[c]
    BY <1>3 DEF AccountOf, Account
  <2> QED
    BY <1>1, <2>1, <2>2 DEF Account
<1> QED
  BY <1>2, <1>3 DEF TransportError, Mismatch

(* The steps of one client, each by the values it leaves behind.           *)
LEMMA DialAccount ==
  ASSUME TInv, NEW c \in Connections, ctx = "live", AccountOf(c), Dial(c)
  PROVE  Account(pc'[c], completed'[c], operations'[c], failed'[c], Share(c))
<1>1. /\ completed'[c] = completed[c] /\ failed'[c] = failed[c] /\ pc'[c] = AfterDial
      /\ operations'[c] = (IF config.mode = "idle" THEN 1 ELSE operations[c])
  BY DEF Dial, TInv, TypeOK
<1>2. pc[c] = "dial" /\ (config.mode = "idle" => operations[c] = 0 /\ failed[c] = 0)
  <2>1. pc[c] = "dial"
    BY DEF Dial
  <2>2. ASSUME config.mode = "idle" PROVE operations[c] + failed[c] = 0
    BY <2>1, <2>2 DEF AccountOf, Account
  <2>3. operations[c] \in Nat /\ failed[c] \in Nat
    BY CountsAt
  <2> QED
    BY <2>1, <2>2, <2>3
<1>3. /\ config.mode \in Mode /\ AfterDial \in {"send", "held", "next"}
      /\ AfterDial = "held" <=> config.mode = "idle"
  <2>1. config.mode \in Mode
    BY ConfigOK DEF TInv
  <2>2. CASE config.mode = "short"
    BY <2>1, <2>2 DEF AfterDial
  <2>3. CASE config.mode = "idle"
    BY <2>1, <2>3 DEF AfterDial
  <2>4. CASE config.mode \notin {"short", "idle"}
    BY <2>1, <2>4 DEF AfterDial
  <2> QED
    BY <2>2, <2>3, <2>4
<1>4. CASE config.mode = "idle"
  BY <1>1, <1>2, <1>3, <1>4 DEF Account
<1>5. CASE config.mode # "idle"
  <2>1. /\ operations[c] + failed[c] = completed[c]
        /\ Share(c) > 0 => completed[c] <= Share(c) /\ completed[c] < Share(c)
    BY <1>2, <1>5 DEF AccountOf, Account
  <2> QED
    BY <1>1, <1>3, <1>5, <2>1 DEF Account
<1> QED
  BY <1>4, <1>5

LEMMA DialFailsAccount ==
  ASSUME TInv, NEW c \in Connections, ctx = "live", AccountOf(c), DialFails(c)
  PROVE  Account(pc'[c], completed'[c], operations'[c], failed'[c], Share(c))
<1>1. CASE config.mode = "idle"
  <2>1. /\ pc[c] = "dial" /\ pc'[c] = "refused" /\ operations'[c] = operations[c] /\ failed'[c] = 1
    BY <1>1 DEF DialFails, TInv, TypeOK
  <2>2. operations[c] + failed[c] = 0
    BY <1>1, <2>1 DEF AccountOf, Account
  <2>3. operations[c] \in Nat /\ failed[c] \in Nat
    BY CountsAt
  <2>4. operations'[c] + failed'[c] = 1
    BY <2>1, <2>2, <2>3
  <2> QED
    BY <1>1, <2>1, <2>4 DEF Account
<1>2. CASE config.mode # "idle"
  BY <1>2, ErrorAccount DEF DialFails
<1> QED
  BY <1>1, <1>2

(* A loop ends only when the share is done: without a duration nothing     *)
(* else ends it before a signal.                                           *)
LEMMA LoopOver ==
  ASSUME TInv, Accounts, NEW c \in Connections, ctx = "live", AccountOf(c),
         config.mode # "idle", Share(c) > 0, ~More(c) \/ Stopped(c)
  PROVE  completed[c] = Share(c)
<1>1. completed[c] \in Nat /\ Share(c) \in Nat /\ config.requests # 0
  BY CountsAt
<1>2. completed[c] <= Share(c)
  BY DEF AccountOf, Account
<1>3. ~(completed[c] < Share(c))
  BY <1>1 DEF More, Stopped, Accounts
<1> QED
  BY <1>1, <1>2, <1>3

LEMMA LoopEndsAccount ==
  ASSUME TInv, Accounts, NEW c \in Connections, ctx = "live", AccountOf(c),
         LoopEnds(c) \/ SendDone(c), config.mode # "idle"
  PROVE  Account(pc'[c], completed'[c], operations'[c], failed'[c], Share(c))
<1>1. /\ pc[c] = "next" /\ pc'[c] \in {"ended", "final"} /\ completed'[c] = completed[c]
      /\ operations'[c] = operations[c] /\ failed'[c] = failed[c]
  BY DEF LoopEnds, SendDone, Leave, TInv, TypeOK
<1>2. ~More(c) \/ Stopped(c)
  BY DEF LoopEnds, SendDone
<1>3. Share(c) > 0 => completed[c] = Share(c)
  BY <1>2, LoopOver
<1>4. operations[c] + failed[c] = completed[c] /\ (Share(c) > 0 => completed[c] <= Share(c))
  BY <1>1 DEF AccountOf, Account
<1> QED
  BY <1>1, <1>3, <1>4 DEF Account

(* What is begun is within the share.                                      *)
LEMMA LoopBegins ==
  ASSUME TInv, NEW c \in Connections, Share(c) > 0, More(c)
  PROVE  completed[c] < Share(c)
<1>1. Share(c) \in Nat
  BY CountsAt
<1> QED
  BY <1>1 DEF More

LEMMA LoopGoesOnAccount ==
  ASSUME TInv, NEW c \in Connections, ctx = "live", AccountOf(c), LoopGoesOn(c)
  PROVE  Account(pc'[c], completed'[c], operations'[c], failed'[c], Share(c))
<1>1. /\ pc[c] = "next" /\ pc'[c] \in {"dial", "reply"} /\ completed'[c] = completed[c]
      /\ operations'[c] = operations[c] /\ failed'[c] = failed[c] /\ config.mode # "idle"
  BY DEF LoopGoesOn, TInv, TypeOK
<1>2. Share(c) > 0 => completed[c] < Share(c)
  BY LoopBegins DEF LoopGoesOn
<1>3. operations[c] + failed[c] = completed[c] /\ (Share(c) > 0 => completed[c] <= Share(c))
  BY <1>1 DEF AccountOf, Account
<1> QED
  BY <1>1, <1>2, <1>3 DEF Account

LEMMA SendRequestAccount ==
  ASSUME TInv, NEW c \in Connections, ctx = "live", AccountOf(c), SendRequest(c),
         config.mode # "idle"
  PROVE  Account(pc'[c], completed'[c], operations'[c], failed'[c], Share(c))
<1>1. CASE Gone(c)
  <2>1. TransportError(c)
    BY <1>1 DEF SendRequest
  <2>2. config.mode = "short" => pc[c] \in {"dial", "send", "reply"}
    BY DEF SendRequest
  <2> QED
    BY <2>1, <2>2, ErrorAccount
<1>2. CASE ~Gone(c)
  <2>1. /\ pc[c] \in {"next", "send"} /\ pc'[c] = "reply" /\ completed'[c] = completed[c]
        /\ operations'[c] = operations[c] /\ failed'[c] = failed[c]
    BY <1>2 DEF SendRequest, TInv, TypeOK
  <2>2. /\ operations[c] + failed[c] = completed[c]
        /\ Share(c) > 0 => completed[c] <= Share(c)
        /\ Share(c) > 0 /\ pc[c] = "send" => completed[c] < Share(c)
    BY <2>1 DEF AccountOf, Account
  <2>3. Share(c) > 0 /\ pc[c] = "next" => completed[c] < Share(c)
    BY LoopBegins DEF SendRequest
  <2> QED
    BY <2>1, <2>2, <2>3 DEF Account
<1> QED
  BY <1>1, <1>2

LEMMA ReceiveReplyAccount ==
  ASSUME TInv, NEW c \in Connections, ctx = "live", AccountOf(c), ReceiveReply(c),
         config.mode # "idle"
  PROVE  Account(pc'[c], completed'[c], operations'[c], failed'[c], Share(c))
<1>1. pc[c] = "reply"
  BY DEF ReceiveReply
<1>2. CASE Mismatch(c)
  BY <1>1, <1>2, ErrorAccount
<1>3. CASE ~Mismatch(c)
  <2>1. /\ pc'[c] = "next" /\ completed'[c] = completed[c] + 1
        /\ operations'[c] = operations[c] + 1 /\ failed'[c] = failed[c]
    BY <1>3 DEF ReceiveReply, Leave, TInv, TypeOK
  <2>2. /\ operations[c] + failed[c] = completed[c]
        /\ Share(c) > 0 => completed[c] < Share(c)
    BY <1>1 DEF AccountOf, Account
  <2>3. completed[c] \in Nat /\ operations[c] \in Nat /\ failed[c] \in Nat /\ Share(c) \in Nat
    BY CountsAt
  <2>4. /\ operations'[c] + failed'[c] = completed'[c]
        /\ Share(c) > 0 => completed'[c] <= Share(c)
    BY <2>1, <2>2, <2>3
  <2> QED
    BY <2>1, <2>4 DEF Account
<1> QED
  BY <1>2, <1>3

LEMMA ReplyMissingAccount ==
  ASSUME TInv, NEW c \in Connections, ctx = "live", AccountOf(c),
         ReplyTimesOut(c) \/ ReplyLost(c), config.mode # "idle"
  PROVE  Account(pc'[c], completed'[c], operations'[c], failed'[c], Share(c))
<1>1. pc[c] = "reply"
  BY DEF ReplyTimesOut, ReplyLost
<1>2. CASE TransportError(c)
  BY <1>1, <1>2, ErrorAccount
<1>3. CASE ~TransportError(c)
  <2>1. /\ pc'[c] = "ended" /\ completed'[c] = completed[c] /\ Share(c) = 0
        /\ operations'[c] = operations[c] /\ failed'[c] = failed[c]
    BY <1>3 DEF ReplyTimesOut, ReplyLost, Leave, TInv, TypeOK
  <2>2. ~(Share(c) > 0)
    BY <2>1
  <2>3. operations[c] + failed[c] = completed[c]
    BY <1>1 DEF AccountOf, Account
  <2> QED
    BY <2>1, <2>2, <2>3 DEF Account
<1> QED
  BY <1>2, <1>3

LEMMA SendBlockAccount ==
  ASSUME TInv, NEW c \in Connections, ctx = "live", AccountOf(c), SendBlock(c)
  PROVE  Account(pc'[c], completed'[c], operations'[c], failed'[c], Share(c))
<1>1. /\ pc[c] = "next" /\ config.mode # "idle" /\ pc'[c] \in {"next", "ack"}
      /\ completed'[c] = completed[c] + 1
      /\ operations'[c] = operations[c] + 1 /\ failed'[c] = failed[c]
  BY DEF SendBlock, TInv, TypeOK
<1>2. Share(c) > 0 => completed[c] < Share(c)
  BY LoopBegins DEF SendBlock
<1>3. operations[c] + failed[c] = completed[c]
  BY <1>1 DEF AccountOf, Account
<1>4. completed[c] \in Nat /\ operations[c] \in Nat /\ failed[c] \in Nat /\ Share(c) \in Nat
  BY CountsAt
<1>5. /\ operations'[c] + failed'[c] = completed'[c]
      /\ Share(c) > 0 => completed'[c] <= Share(c)
  BY <1>1, <1>2, <1>3, <1>4
<1> QED
  BY <1>1, <1>5 DEF Account

LEMMA UploadErrorAccount ==
  ASSUME TInv, NEW c \in Connections, ctx = "live", AccountOf(c),
         WriteFails(c) \/ AckMissing(c)
  PROVE  Account(pc'[c], completed'[c], operations'[c], failed'[c], Share(c))
<1>1. config.mode = "upload"
  BY Where DEF Placed, WriteFails, AckMissing
<1>2. TransportError(c)
  BY DEF WriteFails, AckMissing
<1> QED
  BY <1>1, <1>2, ErrorAccount

LEMMA ReceiveAckAccount ==
  ASSUME TInv, NEW c \in Connections, ctx = "live", AccountOf(c), ReceiveAck(c)
  PROVE  Account(pc'[c], completed'[c], operations'[c], failed'[c], Share(c))
<1>1. config.mode = "upload" /\ pc[c] \in {"ack", "final"}
  BY Where DEF Placed, ReceiveAck
<1>2. CASE Mismatch(c)
  BY <1>1, <1>2, ErrorAccount
<1>3. CASE ~Mismatch(c)
  <2>1. /\ pc'[c] = (IF pc[c] = "ack" THEN "next" ELSE "ended") /\ completed'[c] = completed[c]
        /\ operations'[c] = operations[c] /\ failed'[c] = failed[c]
    BY <1>1, <1>3 DEF ReceiveAck, Leave, TInv, TypeOK
  <2>2. /\ operations[c] + failed[c] = completed[c]
        /\ Share(c) > 0 => completed[c] <= Share(c)
        /\ Share(c) > 0 /\ pc[c] = "final" => completed[c] = Share(c)
    BY <1>1 DEF AccountOf, Account
  <2> QED
    BY <1>1, <2>1, <2>2 DEF Account
<1> QED
  BY <1>2, <1>3

LEMMA ClientAccount ==
  ASSUME TInv, Accounts, NEW c \in Connections, ClientStep(c)
  PROVE  Accounts'
<1>1. /\ UNCHANGED <<config, ctx, run, expired>> /\ run # "returned" /\ Elsewhere(c)
      /\ config.mode = "idle" => pc[c] = "dial"
  BY ClientMoves
<1>2. ASSUME ctx = "live", AccountOf(c)
      PROVE  Account(pc'[c], completed'[c], operations'[c], failed'[c], Share(c))
  <2>1. CASE Dial(c) \/ DialFails(c)
    BY <1>2, <2>1, DialAccount, DialFailsAccount
  <2>2. CASE ~(Dial(c) \/ DialFails(c))
    <3>1. config.mode # "idle"
      BY <1>1, <2>2 DEF ClientStep, LoopEnds, LoopGoesOn, SendRequest, AttemptDropped, ReceiveReply,
         ReplyTimesOut, ReplyLost, SendBlock, SendDone, WriteFails, ReceiveAck, AckMissing
    <3>2. ~AttemptDropped(c)
      BY <1>2 DEF AttemptDropped
    <3> QED
      BY <1>2, <2>2, <3>1, <3>2, LoopEndsAccount, LoopGoesOnAccount, SendRequestAccount,
         ReceiveReplyAccount, ReplyMissingAccount, SendBlockAccount, UploadErrorAccount,
         ReceiveAckAccount DEF ClientStep
  <2> QED
    BY <2>1, <2>2
<1> QED
  BY <1>1, <1>2, OneAccount

LEMMA BeginAccounts == ASSUME TInv, Accounts, Begin PROVE Accounts'
<1>1. Connections' = Connections /\ \A d : Share(d)' = Share(d)
  BY DEF Begin, Connections, Share
<1>2. ASSUME NEW c \in Connections, AccountOf(c) PROVE AccountOf(c)'
  <2>1. /\ pc[c] = "start" /\ pc'[c] = (IF config.mode = "short" THEN "next" ELSE "dial")
        /\ completed'[c] = completed[c] /\ operations'[c] = operations[c]
        /\ failed'[c] = failed[c] /\ config' = config
    BY DEF Begin, TInv, NotBegun
  <2>2. completed[c] = 0 \/ config.mode = "short"
    BY <2>1, ValuesAt DEF Ledger, Counted
  <2>3. Share(c) \in Nat
    BY CountsAt
  <2>4. /\ config.mode = "idle" => operations[c] + failed[c] = 0
        /\ config.mode # "idle" => /\ operations[c] + failed[c] = completed[c]
                                   /\ Share(c) > 0 => completed[c] <= Share(c)
    BY <1>2, <2>1 DEF AccountOf, Account
  <2>5. config.mode # "short" /\ Share(c) > 0 => completed[c] < Share(c)
    BY <2>2, <2>3
  <2>6. Account(pc'[c], completed'[c], operations'[c], failed'[c], Share(c))
    BY <2>1, <2>4, <2>5 DEF Account
  <2> QED
    BY <1>1, <2>1, <2>6 DEF AccountOf, Account
<1>3. run = "before" /\ run' = "running" /\ UNCHANGED <<config, ctx, expired>>
  BY DEF Begin
<1> QED
  BY <1>1, <1>2, <1>3 DEF Accounts

(* RunIdle returns with every connection counted, held or not.             *)
LEMMA IdleAccounts ==
  ASSUME TInv, Accounts, RunReturns \/ CloseIdle
  PROVE  Accounts'
<1>1. Connections' = Connections /\ \A d : Share(d)' = Share(d)
  BY DEF RunReturns, CloseIdle, Connections, Share
<1>2. /\ UNCHANGED <<config, ctx, completed, operations, failed, expired>>
      /\ run # "dead" /\ run' = "returned"
  BY DEF RunReturns, CloseIdle
<1>3. \A c \in Connections : pc'[c] \in Over \cup Dialled
  BY DEF RunReturns, CloseIdle, Over, Dialled
<1>4. ASSUME ctx = "live", NEW c \in Connections
      PROVE  \/ pc'[c] = pc[c]
             \/ /\ config.mode = "idle" /\ pc[c] \in Over \cup Dialled
                /\ pc[c] # "dropped" => pc'[c] = "ended"
  BY <1>4 DEF RunReturns, CloseIdle, Accounts
<1>5. ASSUME ctx = "live", NEW c \in Connections PROVE AccountOf(c)'
  <2>1. AccountOf(c)
    BY <1>2, <1>5 DEF Accounts
  <2>2. Account(pc'[c], completed[c], operations[c], failed[c], Share(c))
    BY <1>4, <1>5, <2>1 DEF AccountOf, Account, Over, Dialled
  <2> QED
    BY <1>1, <1>2, <2>2 DEF AccountOf, Account
<1> QED
  BY <1>1, <1>2, <1>3, <1>5 DEF Accounts

LEMMA AccountsNext == ASSUME TInv, Accounts, [Next]_vars PROVE Accounts'
<1>1. CASE Begin \/ RunReturns \/ CloseIdle
  BY <1>1, BeginAccounts, IdleAccounts
<1>2. CASE Signal \/ Die
  BY <1>2 DEF Signal, Die, Accounts, Connections, loopVars
<1>3. ASSUME NEW c \in Connections, Expire(c) PROVE Accounts'
  <2>1. config.requests = 0 /\ UNCHANGED <<config, ctx, run, loopVars>>
    BY <1>3 DEF Expire
  <2> QED
    BY <2>1 DEF Accounts, AccountOf, Account, Connections, Share, loopVars
<1>4. ASSUME NEW c \in Connections, ClientStep(c) PROVE Accounts'
  BY <1>4, ClientAccount
<1>5. ASSUME NEW c \in Connections, ServerStep(c) \/ Break(c) \/ Damage(c) PROVE UNCHANGED clientVars
  BY <1>5 DEF ServerStep, Accept, ServeEcho, ServeControl, ServeData, ServeDone, ServeBlock,
     ServerEnds, Break, Damage
<1>6. ASSUME LingeringEnds \/ ServeReturns \/ StopServer \/ UNCHANGED vars PROVE UNCHANGED clientVars
  BY <1>6 DEF LingeringEnds, ServeReturns, StopServer, vars, clientVars
<1> QED
  BY <1>1, <1>2, <1>3, <1>4, <1>5, <1>6, AccountsSame DEF Next, WorkloadStep, PeerStep, PathStep

(* At the end the accounts add up.                                         *)
LEMMA SharesAddUp ==
  ASSUME TInv
  PROVE  SumFunctionOnSet([c \in Connections |-> Share(c)], Connections) = config.requests
<1>1. config.requests \in Nat /\ config.connections \in Nat \ {0}
  BY TcpAssumption DEF TcpAssumption, TInv, TypeOK, Config
<1> QED
  BY <1>1, SumOfShares DEF Connections, Share

LEMMA CountsFromAccounts == ASSUME TInv, Accounts PROVE CountsAreComplete
<1> SUFFICES ASSUME Succeeded, ctx = "live"
             PROVE  /\ config.mode = "idle" => Attempted = config.connections
                    /\ config.requests # 0 => Attempted >= config.requests
                    /\ config.requests >= config.connections => Attempted = config.requests
  BY DEF CountsAreComplete
<1> DEFINE both == [c \in Connections |-> operations[c] + failed[c]]
           share == [c \in Connections |-> Share(c)]
<1>1. IsFiniteSet(Connections) /\ Cardinality(Connections) = config.connections
      /\ config.connections \in Nat
  <2>1. config.connections \in Nat
    BY TcpAssumption DEF TcpAssumption, TInv, TypeOK, Config
  <2> QED
    BY <2>1, Workers DEF Connections
<1>2. Attempted = SumFunctionOnSet(both, Connections)
  <2>1. DOMAIN operations = Connections /\ DOMAIN failed = Connections
    BY DEF TInv, TypeOK
  <2>2. \A c \in Connections : /\ operations[c] \in Int /\ failed[c] \in Int
                               /\ both[c] = operations[c] + failed[c]
    BY DEF TInv, TypeOK
  <2> HIDE DEF both
  <2>3. SumFunctionOnSet(both, Connections)
          = SumFunctionOnSet(operations, Connections) + SumFunctionOnSet(failed, Connections)
    BY <1>1, <2>2, SumAdds
  <2> QED
    BY <2>1, <2>3 DEF SumFunction, Attempted
<1>3. \A c \in Connections : AccountOf(c) /\ pc[c] \in {"ended"} \cup Dialled /\ pc[c] # "failed"
  <2>1. \A c \in Connections : AccountOf(c) /\ pc[c] \in Over \cup Dialled /\ pc[c] # "failed"
    BY DEF Accounts, Succeeded
  <2> QED
    BY <2>1 DEF AccountOf, Account, Over, Dialled
<1>4. config.connections \in Nat \ {0} /\ config.requests \in Nat
      /\ (config.mode = "idle" => config.requests = 0)
  BY TcpAssumption DEF TcpAssumption, TInv, TypeOK, Config
<1>5. CASE config.mode = "idle"
  <2>1. \A c \in Connections : both[c] = 1
    BY <1>3, <1>5 DEF AccountOf, Account, Dialled
  <2> HIDE DEF both
  <2>2. SumFunctionOnSet(both, Connections) = 1 * Cardinality(Connections)
    BY <1>1, <2>1, SumOfConstant
  <2> QED
    BY <1>1, <1>2, <1>4, <1>5, <2>2
<1>6. CASE config.mode # "idle"
  (* What a connection has done beyond its share. *)
  <2> DEFINE more == [c \in Connections |-> both[c] - share[c]]
  <2>1. ASSUME NEW c \in Connections
        PROVE  /\ both[c] \in Nat /\ share[c] \in Nat /\ both[c] >= share[c]
               /\ share[c] > 0 => both[c] = share[c]
    <3>1. pc[c] = "ended"
      BY <1>3, <1>6, Where DEF Placed
    <3>2. operations[c] \in Nat /\ failed[c] \in Nat /\ Share(c) \in Nat
      BY CountsAt
    <3>3. Share(c) > 0 => operations[c] + failed[c] = Share(c)
      BY <1>3, <1>6, <3>1 DEF AccountOf, Account
    <3> QED
      BY <3>2, <3>3
  <2>2. SumFunctionOnSet(share, Connections) = config.requests
    BY SharesAddUp
  <2>3. config.requests >= config.connections => \A c \in Connections : share[c] > 0
    BY CountsAt
  <2> HIDE DEF both, share
  <2>4. \A c \in Connections : /\ both[c] \in Int /\ share[c] \in Int /\ more[c] \in Int
                               /\ more[c] >= 0 /\ both[c] = share[c] + more[c]
    BY <2>1
  <2>5. config.requests >= config.connections => \A c \in Connections : both[c] = share[c]
    BY <2>1, <2>3
  <2> HIDE DEF more
  <2>6. Attempted = config.requests + SumFunctionOnSet(more, Connections)
    BY <1>1, <1>2, <2>2, <2>4, SumAdds
  <2>7. SumFunctionOnSet(more, Connections) \in Int /\ SumFunctionOnSet(more, Connections) >= 0
    BY <1>1, <2>4, SumType
  <2>8. config.requests >= config.connections => Attempted = config.requests
    BY <1>1, <1>2, <2>2, <2>4, <2>5, SumAgrees
  <2> QED
    BY <1>4, <1>6, <2>6, <2>7, <2>8
<1> QED
  BY <1>5, <1>6

-----------------------------------------------------------------------------
LEMMA TcpInvariant == Spec => []TInv
<1>1. Init => TInv
  BY TInvInit
<1>2. TInv /\ [Next]_vars => TInv'
  BY TInvNext
<1> QED
  BY <1>1, <1>2, PTL DEF Spec

(* The state of the workload, the path and the server has its types, and   *)
(* no direction of a connection holds more than its window: every write in *)
(* tcp.go either finds room, or waits, or fails.                           *)
THEOREM TcpTypeOK == Spec => []TypeOK
<1>1. TInv => TypeOK
  BY DEF TInv
<1> QED
  BY <1>1, TcpInvariant, PTL

(* Whatever the path damages, breaks or delays, no client counts an        *)
(* operation that its server did not do: echo and download never, an       *)
(* upload by at most one acknowledgement interval, and not at all when it  *)
(* ends without an error (runConnection, readUploadAcknowledgement).       *)
THEOREM TcpOperationsAreServed == Spec => []OperationsAreServed
<1>1. TInv => OperationsAreServed
  BY TInvServed
<1> QED
  BY <1>1, TcpInvariant, PTL

(* Client and server compute the acknowledgement interval independently    *)
(* (uploadAckInterval), and for every payload, share and buffer they agree *)
(* on who speaks next: they never wait for each other.                     *)
THEOREM TcpNeverBothWait == Spec => []NeverBothWait
<1>1. TInv => NeverBothWait
  BY TInvWait
<1> QED
  BY <1>1, TcpInvariant, PTL

(* A workload that returns without an error and was not signalled has done *)
(* all it was asked for: perWorkerRequests hands out every request to one  *)
(* connection, every connection does its share, and each request is one    *)
(* operation or one failed attempt; an idle workload counts each           *)
(* connection once (RunDetailed, RunIdle).  With fewer requests than       *)
(* connections, which Validate accepts, nothing is left out, but a         *)
(* connection whose share is 0 has no limit and may have done more.        *)
THEOREM TcpCountsAreComplete == Spec => []CountsAreComplete
<1>1. Init => TInv /\ Accounts
  BY TInvInit, AccountsInit
<1>2. TInv /\ Accounts /\ [Next]_vars => (TInv /\ Accounts)'
  BY TInvNext, AccountsNext
<1>3. TInv /\ Accounts => CountsAreComplete
  BY CountsFromAccounts
<1> QED
  BY <1>1, <1>2, <1>3, PTL DEF Spec

-----------------------------------------------------------------------------
(* The worker.                                                             *)

(* How far the worker is tells how far the workload is. *)
Life ==
  /\ exit = "none" <=> wrk # "exited"
  /\ wrk \in {"none", "prepare", "awaitStart"} => run = "before"
  /\ wrk = "awaitCollect" \/ exit = "zero" => run = "returned"
  /\ run = "returned" => \A c \in Connections : pc[c] \in Over \cup Dialled
  /\ config.mode = "idle" /\ exit = "none" => \A c \in Connections : pc[c] # "ended"

(* What is in the pipes, and what has been read from them.  *)
Pipes ==
  /\ ctl = "start" => wrk = "none"
  /\ (\E i \in DOMAIN stdin : stdin[i] = "collect") \/ exit = "zero" =>
       ctl \in {"collected", "returned", "dead"}
  /\ (\E i \in DOMAIN stdout : stdout[i].kind = "finished")
     \/ ctl \in {"sampling", "sampled", "collected"} => wrk \in {"awaitCollect", "exited"}
  /\ \A i \in DOMAIN stdout :
       stdout[i].kind = "result" /\ ~stdout[i].error => exit = "zero" /\ Succeeded

(* A worker that is still there, or has ended by itself, was sampled while *)
(* it held what it counts.                                                 *)
SampledInTime ==
  ctl \in {"sampled", "collected"} /\ exit \in {"none", "zero"} /\ Succeeded => sampled

Accepted ==
  /\ verdict = "ok" => ctl = "returned" /\ Succeeded /\ sampled /\ exit = "zero"
  /\ ctl = "returned" => ~Running

Report == [kind : {"ready", "finished", "result"}, error : BOOLEAN]

WInv == WorkerTypeOK /\ TInv /\ Life /\ Pipes /\ SampledInTime /\ Accepted

-----------------------------------------------------------------------------
LEMMA Taken ==
  ASSUME NEW S, NEW q \in Seq(S), q # <<>>
  PROVE  /\ Tail(q) \in Seq(S) /\ Head(q) \in S /\ Head(q) = q[1] /\ 1 \in DOMAIN q
         /\ \A i \in DOMAIN Tail(q) : i + 1 \in DOMAIN q /\ Tail(q)[i] = q[i + 1]
OBVIOUS

LEMMA Written ==
  ASSUME NEW S, NEW q \in Seq(S), NEW m \in S
  PROVE  /\ Append(q, m) \in Seq(S)
         /\ \A i \in DOMAIN Append(q, m) :
              (i \in DOMAIN q /\ Append(q, m)[i] = q[i]) \/ Append(q, m)[i] = m
OBVIOUS

LEMMA StdinTaken ==
  ASSUME WInv, NEW t, Token(t)
  PROVE  /\ stdin' \in Seq({"start", "collect"})
         /\ (\E i \in DOMAIN stdin' : stdin'[i] = "collect") =>
              \E i \in DOMAIN stdin : stdin[i] = "collect"
<1>1. stdin \in Seq({"start", "collect"}) /\ stdin # <<>> /\ stdin' = Tail(stdin)
  BY DEF WInv, WorkerTypeOK, Token
<1> QED
  BY <1>1, Taken

LEMMA StdinWritten ==
  ASSUME WInv, NEW t \in {"start", "collect"}, stdin' = Append(stdin, t)
  PROVE  /\ stdin' \in Seq({"start", "collect"})
         /\ t = "start" /\ (\E i \in DOMAIN stdin' : stdin'[i] = "collect") =>
              \E i \in DOMAIN stdin : stdin[i] = "collect"
<1>1. stdin \in Seq({"start", "collect"})
  BY DEF WInv, WorkerTypeOK
<1> QED
  BY <1>1, Written

LEMMA StdoutTaken ==
  ASSUME WInv, NEW k, Decode(k)
  PROVE  /\ stdout' \in Seq(Report) /\ \E i \in DOMAIN stdout : stdout[i].kind = k
         /\ \A i \in DOMAIN stdout' : i + 1 \in DOMAIN stdout /\ stdout'[i] = stdout[i + 1]
<1>1. stdout \in Seq(Report) /\ stdout # <<>> /\ stdout' = Tail(stdout) /\ Head(stdout).kind = k
  BY DEF WInv, WorkerTypeOK, Decode, Report
<1> QED
  BY <1>1, Taken

LEMMA StdoutWritten ==
  ASSUME WInv, NEW m \in Report, stdout' = Append(stdout, m)
  PROVE  /\ stdout' \in Seq(Report)
         /\ \A i \in DOMAIN stdout' :
              (i \in DOMAIN stdout /\ stdout'[i] = stdout[i]) \/ stdout'[i] = m
<1>1. stdout \in Seq(Report)
  BY DEF WInv, WorkerTypeOK, Report
<1> QED
  BY <1>1, Written

(* The ledgers of the workload hold whatever its processes do.             *)
LEMMA WorkerLedgers == ASSUME TInv, [WorkerNext]_allVars PROVE TInv'
<1>1. ASSUME UNCHANGED vars PROVE TInv'
  BY <1>1, TInvNext
<1>2. ASSUME Die \/ Begin \/ CloseIdle PROVE TInv'
  BY <1>2, TInvNext DEF Next
<1>3. ASSUME KillWorker PROVE TInv'
  BY <1>1, <1>2, <1>3 DEF KillWorker
<1>4. CASE Controller
  <2>1. CASE Start
    BY <1>1, <2>1, BystanderStep, FaultOK DEF Start
  <2>2. CASE AfterWorkload
    BY <2>2, BystanderStep, FaultOK DEF AfterWorkload
  <2>3. CASE StartFails \/ NotFinished \/ CollectFails \/ ContextKills
    BY <1>3, <2>3 DEF StartFails, NotFinished, CollectFails, ContextKills, Abort
  <2>4. CASE TakeReady \/ NotReady \/ SendStart \/ TakeFinished \/ SendCollect \/ TakeResult
    BY <1>1, <2>4 DEF TakeReady, NotReady, SendStart, TakeFinished, SendCollect, TakeResult
  <2> QED
    BY <1>4, <2>1, <2>2, <2>3, <2>4 DEF Controller
<1>5. CASE Process
  BY <1>1, <1>2, <1>5 DEF Process, Prepare, TakeStart, Finish, TakeCollect, NoToken, ExitError
<1>6. CASE CancelRun \/ WorkerKilled
  BY <1>1, <1>3, <1>6 DEF CancelRun, WorkerKilled
<1>7. CASE ControllerDies
  BY <1>7, BystanderStep, FaultOK DEF ControllerDies
<1>8. CASE WorkloadStep \/ PeerStep \/ PathStep \/ (Running /\ Signal)
  BY <1>8, TInvNext DEF Next
<1>9. CASE UNCHANGED allVars
  BY <1>1, <1>9 DEF allVars
<1> QED
  BY <1>4, <1>5, <1>6, <1>7, <1>8, <1>9 DEF WorkerNext

(* ... and so do its accounts: the controller, the pipes and the process   *)
(* around the workload count nothing.                                      *)
LEMMA WorkerAccounts == ASSUME TInv, Accounts, [WorkerNext]_allVars PROVE Accounts'
<1>1. ASSUME UNCHANGED clientVars PROVE Accounts'
  BY <1>1, AccountsSame
<1>2. ASSUME UNCHANGED vars PROVE Accounts'
  BY <1>2, AccountsNext
<1>3. ASSUME Die \/ Begin \/ CloseIdle PROVE Accounts'
  BY <1>3, AccountsNext DEF Next
<1>4. ASSUME KillWorker PROVE Accounts'
  BY <1>2, <1>3, <1>4 DEF KillWorker
<1>5. CASE Controller
  <2>1. CASE Start
    BY <1>1, <1>2, <2>1 DEF Start, clientVars
  <2>2. CASE AfterWorkload
    BY <1>1, <2>2 DEF AfterWorkload, clientVars
  <2>3. CASE StartFails \/ NotFinished \/ CollectFails \/ ContextKills
    BY <1>4, <2>3 DEF StartFails, NotFinished, CollectFails, ContextKills, Abort
  <2>4. CASE TakeReady \/ NotReady \/ SendStart \/ TakeFinished \/ SendCollect \/ TakeResult
    BY <1>2, <2>4 DEF TakeReady, NotReady, SendStart, TakeFinished, SendCollect, TakeResult
  <2> QED
    BY <1>5, <2>1, <2>2, <2>3, <2>4 DEF Controller
<1>6. CASE Process
  BY <1>2, <1>3, <1>6 DEF Process, Prepare, TakeStart, Finish, TakeCollect, NoToken, ExitError
<1>7. CASE CancelRun \/ WorkerKilled
  BY <1>2, <1>4, <1>7 DEF CancelRun, WorkerKilled
<1>8. CASE ControllerDies
  BY <1>1, <1>8 DEF ControllerDies, clientVars
<1>9. CASE WorkloadStep \/ PeerStep \/ PathStep \/ (Running /\ Signal)
  BY <1>9, AccountsNext DEF Next
<1>10. CASE UNCHANGED allVars
  BY <1>2, <1>10 DEF allVars
<1> QED
  BY <1>5, <1>6, <1>7, <1>8, <1>9, <1>10 DEF WorkerNext

-----------------------------------------------------------------------------
LEMMA SameVerdict ==
  ASSUME UNCHANGED <<config, run, pc>>
  PROVE  Succeeded' = Succeeded /\ Connections' = Connections
BY DEF Succeeded, Connections

(* What the workload, the server and the path can change of the places of  *)
(* the clients: nothing after the return, and no end of an idle client.    *)
LEMMA Frozen ==
  ASSUME WInv, WorkloadStep \/ PeerStep \/ PathStep \/ Signal
  PROVE  /\ config' = config /\ Connections' = Connections
         /\ \/ run' = run /\ pc' = pc
            \/ run \notin {"before", "returned"} /\ run' \in {run, "returned"}
         /\ run' = "returned" => \A c \in Connections : pc'[c] \in Over \cup Dialled
         /\ config.mode = "idle" /\ exit = "none" => \A c \in Connections : pc'[c] # "ended"
<1>0. TInv /\ Life /\ pc \in [Connections -> ClientState]
  BY DEF WInv, TInv, TypeOK
<1>a. config' = config /\ Connections' = Connections
  BY DEF Connections, WorkloadStep, PeerStep, PathStep, Signal, RunReturns, ClientStep, Expire,
         ServerStep, Accept, ServeEcho, ServeControl, ServeData, ServeDone, ServeBlock, ServerEnds,
         LingeringEnds, ServeReturns, Break, Damage, StopServer, clientVars, Dial, DialFails,
         LoopEnds, LoopGoesOn, SendRequest, AttemptDropped, ReceiveReply, ReplyTimesOut, ReplyLost,
         SendBlock, SendDone, WriteFails, ReceiveAck, AckMissing
<1>1. CASE RunReturns
  <2>1. run = "running" /\ run' = "returned"
    BY <1>1 DEF RunReturns
  <2>2. \A c \in Connections : pc'[c] \in Over \cup Dialled /\ (pc'[c] = pc[c] \/ pc'[c] = "dropped")
    BY <1>1 DEF RunReturns, Over, Dialled
  <2> QED
    BY <1>0, <1>a, <2>1, <2>2 DEF Life
<1>2. ASSUME NEW c \in Connections, ClientStep(c)
      PROVE  /\ run' = run /\ run # "before" /\ pc[c] \notin Over \cup Dialled
             /\ config.mode = "idle" => pc'[c] # "ended"
             /\ \A x \in Connections : x # c => pc'[x] = pc[x]
  <2>1. Placed(pc[c], link[c], server[c]) /\ (run = "before" => pc[c] = "start")
    BY <1>0, Where DEF TInv, NotBegun
  <2>2. CASE Dial(c)
    BY <1>0, <2>1, <2>2 DEF Dial, AfterDial, Over, Dialled
  <2>3. CASE DialFails(c) \/ SendRequest(c) \/ ReplyLost(c) \/ WriteFails(c) \/ AckMissing(c)
    BY <1>0, <2>1, <2>3 DEF DialFails, SendRequest, ReplyLost, WriteFails, AckMissing, TransportError,
       GiveUp, Leave, Over, Dialled, Placed
  <2>4. CASE LoopEnds(c) \/ LoopGoesOn(c) \/ AttemptDropped(c) \/ SendBlock(c) \/ SendDone(c)
    BY <1>0, <2>1, <2>4 DEF LoopEnds, LoopGoesOn, AttemptDropped, SendBlock, SendDone, Leave, Over,
       Dialled, Placed
  <2>5. CASE ReceiveReply(c) \/ ReplyTimesOut(c) \/ ReceiveAck(c)
    BY <1>0, <2>1, <2>5 DEF ReceiveReply, ReplyTimesOut, ReceiveAck, TransportError, Mismatch, GiveUp,
       Leave, Over, Dialled, Placed
  <2> QED
    BY <1>2, <2>2, <2>3, <2>4, <2>5 DEF ClientStep
<1>3. CASE \E c \in Connections : ClientStep(c)
  <2>1. PICK c \in Connections : ClientStep(c)
    BY <1>3
  <2>2. run # "returned"
    BY <1>0, <1>2, <2>1 DEF Life
  <2> QED
    BY <1>0, <1>2, <1>a, <2>1, <2>2 DEF Life
<1>4. CASE Signal \/ PeerStep \/ PathStep \/ \E c \in Connections : Expire(c)
  <2>1. run' = run /\ pc' = pc
    BY <1>4 DEF Signal, PeerStep, PathStep, Expire, ServerStep, Accept, ServeEcho, ServeControl,
       ServeData, ServeDone, ServeBlock, ServerEnds, LingeringEnds, ServeReturns, Break, Damage,
       StopServer, clientVars, loopVars
  <2> QED
    BY <1>0, <1>a, <2>1 DEF Life
<1> QED
  BY <1>1, <1>3, <1>4 DEF WorkloadStep

(* The workload goes on, and its processes do not. *)
LEMMA GoesOn ==
  ASSUME WInv, TInv', UNCHANGED shakeVars,
         WorkloadStep \/ PeerStep \/ PathStep \/ (Running /\ Signal)
  PROVE  WInv'
<1>1. /\ ctl' = ctl /\ runCtx' = runCtx /\ wrk' = wrk /\ exit' = exit /\ stdin' = stdin
      /\ stdout' = stdout /\ hookErr' = hookErr /\ sampled' = sampled /\ verdict' = verdict
  BY DEF shakeVars, pipeVars
<1>2. WorkerTypeOK /\ TInv /\ Life /\ Pipes /\ SampledInTime /\ Accepted
  BY DEF WInv
<1>3. WorkerTypeOK'
  BY <1>1, <1>2 DEF WorkerTypeOK, TInv
<1>4. Life'
  BY <1>1, <1>2, Frozen DEF Life
<1>5. run = "returned" => Succeeded' = Succeeded
  BY Frozen, SameVerdict
<1>6. Pipes'
  <2>1. exit = "zero" /\ Succeeded => Succeeded'
    BY <1>2, <1>5 DEF Life
  <2> QED
    BY <1>1, <1>2, <2>1 DEF Pipes
<1>7. SampledInTime'
  <2>1. ctl \in {"sampled", "collected"} /\ exit \in {"none", "zero"} => run = "returned"
    BY <1>2 DEF Life, Pipes
  <2> QED
    BY <1>1, <1>2, <1>5, <2>1 DEF SampledInTime
<1>8. Accepted'
  BY <1>1, <1>2, <1>5 DEF Accepted, Life, Running
<1> QED
  BY <1>3, <1>4, <1>6, <1>7, <1>8 DEF WInv

(* The worker is gone before its time, whoever has seen to that. *)
LEMMA WorkerGone ==
  ASSUME WInv, TInv', exit = "none", exit' \in {"error", "killed"}, wrk' = "exited", Die,
         (ctl' = ctl /\ verdict' = verdict) \/ (ctl' = "returned" /\ verdict' = "error"),
         ctl' # "start", UNCHANGED <<runCtx, pipeVars, hookErr, sampled>>
  PROVE  WInv'
<1>1. WorkerTypeOK /\ Life /\ Pipes /\ SampledInTime /\ Accepted
  BY DEF WInv
<1>2. WorkerTypeOK'
  BY <1>1 DEF WorkerTypeOK, TInv, pipeVars
<1>3. run' = "dead" /\ exit' # "none" /\ exit' # "zero" /\ stdin' = stdin /\ stdout' = stdout
  BY DEF Die, pipeVars
<1>4. Life'
  BY <1>3 DEF Life
<1>5. Pipes'
  BY <1>1, <1>3 DEF Pipes
<1>6. SampledInTime'
  BY <1>3 DEF SampledInTime
<1>7. Accepted'
  BY <1>1, <1>3 DEF Accepted, Running
<1> QED
  BY <1>2, <1>4, <1>5, <1>6, <1>7 DEF WInv

(* A step of the two processes that leaves the clients where they are.     *)
LEMMA QuietStep ==
  ASSUME WInv, TInv', UNCHANGED <<config, run, pc>>,
         Start \/ TakeReady \/ NotReady \/ SendStart \/ TakeFinished \/ AfterWorkload
         \/ SendCollect \/ TakeResult \/ CancelRun \/ ControllerDies
  PROVE  WInv'
<1>0. /\ WorkerTypeOK /\ TInv /\ Life /\ Pipes /\ SampledInTime /\ Accepted
      /\ Succeeded' = Succeeded /\ Connections' = Connections /\ TypeOK'
  BY SameVerdict DEF WInv, TInv
<1>1. CASE Start
  BY <1>0, <1>1 DEF WInv, Start, WorkerTypeOK, Life, Pipes, SampledInTime, Accepted, Running, pipeVars
<1>2. CASE TakeReady
  <2>1. /\ stdout' \in Seq(Report)
        /\ \A i \in DOMAIN stdout' : i + 1 \in DOMAIN stdout /\ stdout'[i] = stdout[i + 1]
    BY <1>2, StdoutTaken DEF TakeReady
  <2> QED
    BY <1>0, <1>2, <2>1 DEF WInv, TakeReady, WorkerTypeOK, Life, Pipes, SampledInTime, Accepted,
       Running, Report
<1>3. CASE NotReady
  BY <1>0, <1>3 DEF WInv, NotReady, EndOfOutput, WorkerTypeOK, Life, Pipes, SampledInTime, Accepted,
     Running, pipeVars
<1>4. CASE SendStart
  <2>1. /\ stdin' \in Seq({"start", "collect"})
        /\ (\E i \in DOMAIN stdin' : stdin'[i] = "collect") =>
              \E i \in DOMAIN stdin : stdin[i] = "collect"
    BY <1>4, StdinWritten DEF SendStart
  <2> QED
    BY <1>0, <1>4, <2>1 DEF WInv, SendStart, WorkerTypeOK, Life, Pipes, SampledInTime, Accepted, Running
<1>5. CASE TakeFinished
  <2>1. /\ stdout' \in Seq(Report) /\ \E i \in DOMAIN stdout : stdout[i].kind = "finished"
        /\ \A i \in DOMAIN stdout' : i + 1 \in DOMAIN stdout /\ stdout'[i] = stdout[i + 1]
    BY <1>5, StdoutTaken DEF TakeFinished
  <2> QED
    BY <1>0, <1>5, <2>1 DEF WInv, TakeFinished, WorkerTypeOK, Life, Pipes, SampledInTime, Accepted,
       Running, Report
<1>6. CASE AfterWorkload
  <2>1. /\ ctl = "sampling" /\ ctl' = "sampled" /\ sampled' = Held /\ hookErr' \in BOOLEAN
        /\ UNCHANGED <<runCtx, wrk, exit, stdin, stdout, verdict>>
    BY <1>0, <1>6 DEF AfterWorkload, pipeVars, WorkerTypeOK
  <2>2. sampled' \in BOOLEAN
    BY <2>1 DEF Held
  <2>3. exit \in {"none", "zero"} /\ Succeeded => sampled'
    <3> SUFFICES ASSUME exit \in {"none", "zero"}, Succeeded PROVE Held
      BY <2>1
    <3>1. exit = "none" /\ run = "returned"
      BY <1>0, <2>1 DEF Pipes, Life
    <3>2. ASSUME config.mode = "idle", NEW c \in Connections, operations[c] = 1
          PROVE  link[c] \in {"open", "broken"}
      <4>1. /\ pc[c] \in Over \cup Dialled /\ pc[c] \notin {"ended", "failed", "dropped"}
        BY <1>0, <3>1, <3>2 DEF Life, Succeeded
      <4>2. pc[c] # "refused"
        BY <1>0, <3>2, ValuesAt DEF Ledger, IdleLedger
      <4> QED
        BY <1>0, <4>1, <4>2, Where DEF Placed, Over, Dialled
    <3> QED
      BY <3>1, <3>2 DEF Held
  <2> QED
    BY <1>0, <2>1, <2>2, <2>3 DEF WInv, WorkerTypeOK, Life, Pipes, SampledInTime, Accepted, Running
<1>7. CASE SendCollect
  <2>1. stdin' \in Seq({"start", "collect"})
    BY <1>7, StdinWritten DEF SendCollect
  <2> QED
    BY <1>0, <1>7, <2>1 DEF WInv, SendCollect, WorkerTypeOK, Life, Pipes, SampledInTime, Accepted, Running
<1>8. CASE TakeResult
  <2>1. /\ ctl = "collected" /\ ctl' = "returned" /\ exit # "none" /\ stdout' = <<>>
        /\ UNCHANGED <<runCtx, wrk, exit, stdin, hookErr, sampled>> /\ verdict' \in {"ok", "error"}
    BY <1>8 DEF TakeResult
  <2>2. verdict' = "ok" => Succeeded /\ sampled /\ exit = "zero"
    <3> SUFFICES ASSUME verdict' = "ok" PROVE Succeeded /\ sampled /\ exit = "zero"
      OBVIOUS
    <3>1. stdout # <<>> /\ Head(stdout).kind = "result" /\ ~Head(stdout).error /\ exit = "zero"
      BY <1>8 DEF TakeResult
    <3>2. Head(stdout) = stdout[1] /\ 1 \in DOMAIN stdout
      BY <1>0, <3>1, Taken DEF WorkerTypeOK
    <3> QED
      BY <1>0, <2>1, <3>1, <3>2 DEF Pipes, SampledInTime
  <2> QED
    BY <1>0, <2>1, <2>2 DEF WInv, WorkerTypeOK, Life, Pipes, SampledInTime, Accepted, Running
<1>9. CASE CancelRun
  BY <1>0, <1>9 DEF WInv, CancelRun, WorkerTypeOK, Life, Pipes, SampledInTime, Accepted, Running, pipeVars
<1>10. CASE ControllerDies
  BY <1>0, <1>10 DEF WInv, ControllerDies, WorkerTypeOK, Life, Pipes, SampledInTime, Accepted, Running,
     pipeVars
<1> QED
  BY <1>1, <1>2, <1>3, <1>4, <1>5, <1>6, <1>7, <1>8, <1>9, <1>10

(* The controller kills the worker, or finds it gone, and gives up. *)
LEMMA AbortStep ==
  ASSUME WInv, TInv', Abort, UNCHANGED <<runCtx, pipeVars, hookErr, sampled>>
  PROVE  WInv'
<1>1. CASE exit = "none"
  BY <1>1, WorkerGone DEF Abort, KillWorker
<1>2. CASE exit # "none"
  <2>1. /\ ctl' = "returned" /\ verdict' = "error" /\ UNCHANGED <<exit, wrk, config, run, pc>>
    BY <1>2 DEF Abort, KillWorker, vars, loopVars
  <2>2. Succeeded' = Succeeded /\ Connections' = Connections
    BY <2>1, SameVerdict
  <2> QED
    BY <1>2, <2>1, <2>2 DEF WInv, TInv, WorkerTypeOK, Life, Pipes, SampledInTime, Accepted, Running,
       pipeVars
<1> QED
  BY <1>1, <1>2

(* A running worker is killed, while its controller waits. *)
LEMMA KilledStep ==
  ASSUME WInv, TInv', Running, KillWorker, UNCHANGED <<ctl, runCtx, pipeVars, hookErr, sampled, verdict>>
  PROVE  WInv'
<1>1. ctl # "start"
  BY DEF WInv, Pipes, Running
<1>2. exit = "none" /\ exit' \in {"error", "killed"} /\ wrk' = "exited" /\ Die
  BY DEF KillWorker, Running
<1>3. /\ UNCHANGED <<runCtx, pipeVars, hookErr, sampled>>
      /\ ctl' = ctl /\ verdict' = verdict /\ ctl' # "start"
  BY <1>1
<1> QED
  BY <1>2, <1>3, WorkerGone

LEMMA PrepareStep == ASSUME WInv, TInv', Prepare PROVE WInv'
<1>0. /\ WorkerTypeOK /\ TInv /\ Life /\ Pipes /\ SampledInTime /\ Accepted /\ TypeOK'
      /\ wrk = "prepare" /\ exit = "none" /\ ctl # "start"
  BY DEF WInv, TInv, Prepare, Life, Pipes
<1>1. CASE ExitError
  <2>1. /\ exit' \in {"error", "killed"} /\ wrk' = "exited" /\ Die
        /\ UNCHANGED <<ctl, runCtx, stdin, stdout, hookErr, sampled, verdict>>
    BY <1>0, <1>1 DEF Prepare, ExitError
  <2>2. /\ UNCHANGED <<runCtx, pipeVars, hookErr, sampled>>
        /\ ctl' = ctl /\ verdict' = verdict /\ ctl' # "start"
    BY <1>0, <2>1 DEF pipeVars
  <2> QED
    BY <1>0, <2>1, <2>2, WorkerGone
<1>2. CASE ~ExitError
  <2>1. /\ wrk' = "awaitStart" /\ stdout' = Append(stdout, Message("ready", FALSE))
        /\ UNCHANGED <<exit, config, run, pc, ctl, runCtx, stdin, hookErr, sampled, verdict>>
    BY <1>2 DEF Prepare, vars, loopVars
  <2>2. Message("ready", FALSE) \in Report /\ Message("ready", FALSE).kind = "ready"
    BY DEF Message, Report
  <2>3. /\ stdout' \in Seq(Report)
        /\ \A i \in DOMAIN stdout' :
             (i \in DOMAIN stdout /\ stdout'[i] = stdout[i]) \/ stdout'[i] = Message("ready", FALSE)
    BY <2>1, <2>2, StdoutWritten
  <2>4. Succeeded' = Succeeded /\ Connections' = Connections
    BY <2>1, SameVerdict
  <2> QED
    BY <1>0, <2>1, <2>2, <2>3, <2>4 DEF WInv, WorkerTypeOK, Report, Life, Pipes, SampledInTime, Accepted,
       Running
<1> QED
  BY <1>1, <1>2

LEMMA TakeStartStep == ASSUME WInv, TInv', TakeStart PROVE WInv'
<1>0. /\ WorkerTypeOK /\ TInv /\ Life /\ Pipes /\ SampledInTime /\ Accepted /\ TypeOK'
      /\ wrk = "awaitStart" /\ exit = "none"
  BY DEF WInv, TInv, TakeStart, Life
<1>1. /\ wrk' = "workload" /\ run' = "running" /\ run = "before" /\ config' = config
      /\ \A c \in Connections : pc'[c] \in {"next", "dial"}
      /\ UNCHANGED <<ctl, runCtx, exit, stdout, hookErr, sampled, verdict>>
  BY DEF TakeStart, Begin
<1>2. /\ stdin' \in Seq({"start", "collect"})
      /\ (\E i \in DOMAIN stdin' : stdin'[i] = "collect") =>
           \E i \in DOMAIN stdin : stdin[i] = "collect"
  BY StdinTaken DEF TakeStart
<1>3. Connections' = Connections
  BY <1>1 DEF Connections
<1>4. Life'
  BY <1>0, <1>1, <1>3 DEF Life
<1>5. ~Succeeded
  BY <1>1 DEF Succeeded
<1>6. ctl \notin {"sampling", "sampled", "collected"}
  BY <1>0 DEF Pipes
<1> QED
  BY <1>0, <1>1, <1>2, <1>4, <1>5, <1>6 DEF WInv, WorkerTypeOK, Pipes, SampledInTime, Accepted, Running

LEMMA FinishStep == ASSUME WInv, TInv', Finish PROVE WInv'
<1>0. /\ WorkerTypeOK /\ TInv /\ Life /\ Pipes /\ SampledInTime /\ Accepted /\ TypeOK'
      /\ wrk = "workload" /\ exit = "none" /\ ctl # "start" /\ run = "returned"
  BY DEF WInv, TInv, Finish, Life, Pipes
<1>1. CASE ExitError
  <2>1. /\ exit' \in {"error", "killed"} /\ wrk' = "exited" /\ Die
        /\ UNCHANGED <<ctl, runCtx, stdin, stdout, hookErr, sampled, verdict>>
    BY <1>0, <1>1 DEF Finish, ExitError
  <2>2. /\ UNCHANGED <<runCtx, pipeVars, hookErr, sampled>>
        /\ ctl' = ctl /\ verdict' = verdict /\ ctl' # "start"
    BY <1>0, <2>1 DEF pipeVars
  <2> QED
    BY <1>0, <2>1, <2>2, WorkerGone
<1>2. CASE ~ExitError
  <2>1. /\ wrk' = "awaitCollect" /\ stdout' = Append(stdout, Message("finished", FALSE))
        /\ UNCHANGED <<exit, config, run, pc, ctl, runCtx, stdin, hookErr, sampled, verdict>>
    BY <1>2 DEF Finish, vars, loopVars
  <2>2. Message("finished", FALSE) \in Report /\ Message("finished", FALSE).kind = "finished"
    BY DEF Message, Report
  <2>3. /\ stdout' \in Seq(Report)
        /\ \A i \in DOMAIN stdout' :
             (i \in DOMAIN stdout /\ stdout'[i] = stdout[i]) \/ stdout'[i] = Message("finished", FALSE)
    BY <2>1, <2>2, StdoutWritten
  <2>4. Succeeded' = Succeeded /\ Connections' = Connections
    BY <2>1, SameVerdict
  <2> QED
    BY <1>0, <2>1, <2>2, <2>3, <2>4 DEF WInv, WorkerTypeOK, Report, Life, Pipes, SampledInTime, Accepted,
       Running
<1> QED
  BY <1>1, <1>2

LEMMA TakeCollectStep == ASSUME WInv, TInv', TakeCollect PROVE WInv'
<1>0. /\ WorkerTypeOK /\ TInv /\ Life /\ Pipes /\ SampledInTime /\ Accepted /\ TypeOK'
      /\ wrk = "awaitCollect" /\ exit = "none" /\ run = "returned"
      /\ pc \in [Connections -> ClientState]
  BY DEF WInv, TInv, TypeOK, TakeCollect, Life
<1>1. /\ wrk' = "exited" /\ exit' = "zero" /\ UNCHANGED <<ctl, runCtx, hookErr, sampled, verdict>>
  BY DEF TakeCollect
<1>2. /\ stdin' \in Seq({"start", "collect"}) /\ ctl \in {"collected", "returned", "dead"}
      /\ (\E i \in DOMAIN stdin' : stdin'[i] = "collect") =>
           \E i \in DOMAIN stdin : stdin[i] = "collect"
  <2>1. stdin # <<>> /\ Head(stdin) = "collect" /\ stdin \in Seq({"start", "collect"})
    BY <1>0 DEF TakeCollect, Token, WorkerTypeOK
  <2>2. \E i \in DOMAIN stdin : stdin[i] = "collect"
    BY <2>1, Taken
  <2> QED
    BY <1>0, <2>2, StdinTaken DEF TakeCollect, Pipes
<1>3. config' = config /\ run' = run /\ Connections' = Connections
      /\ \A c \in Connections : /\ pc'[c] \in Over \cup Dialled
                                /\ pc'[c] = "failed" <=> pc[c] = "failed"
                                /\ config.mode = "idle" => (pc'[c] = "dropped" <=> pc[c] = "dropped")
  <2>1. CASE CloseIdle
    <3>1. config.mode = "idle" /\ config' = config /\ run' = run /\ Connections' = Connections
          /\ \A c \in Connections : pc'[c] = (IF pc[c] = "dropped" THEN "dropped" ELSE "ended")
      BY <2>1 DEF CloseIdle, Connections
    <3>2. \A c \in Connections : pc[c] # "failed"
      BY <1>0, <3>1, ValuesAt DEF Ledger, IdleLedger
    <3> QED
      BY <3>1, <3>2 DEF Over
  <2>2. CASE UNCHANGED vars
    BY <1>0, <2>2 DEF vars, loopVars, Connections, Life
  <2> QED
    BY <2>1, <2>2 DEF TakeCollect
<1>4. Succeeded' = Succeeded
  BY <1>3 DEF Succeeded
<1>5. /\ stdout' \in Seq(Report)
      /\ \A i \in DOMAIN stdout' :
           \/ i \in DOMAIN stdout /\ stdout'[i] = stdout[i]
           \/ stdout'[i].kind = "result" /\ (~stdout'[i].error => Succeeded)
  <2>1. PICK m \in {Message("result", ~Succeeded), Message("result", TRUE)} : stdout' = Append(stdout, m)
    BY DEF TakeCollect
  <2>2. m \in Report /\ m.kind = "result" /\ (~m.error => Succeeded)
    <3> DEFINE b == ~Succeeded
    <3>1. b \in BOOLEAN /\ (~b => Succeeded)
      BY DEF Succeeded
    <3>2. m = Message("result", TRUE) \/ m = Message("result", b)
      BY <2>1
    <3> HIDE DEF b
    <3>3. Message("result", TRUE) \in Report /\ Message("result", b) \in Report
          /\ Message("result", b).error = b /\ Message("result", TRUE).error = TRUE
          /\ Message("result", b).kind = "result" /\ Message("result", TRUE).kind = "result"
      BY <3>1 DEF Message, Report
    <3>4. CASE m = Message("result", TRUE)
      BY <3>3, <3>4
    <3>5. CASE m = Message("result", b)
      BY <3>1, <3>3, <3>5
    <3> QED
      BY <3>2, <3>4, <3>5
  <2> QED
    BY <2>1, <2>2, StdoutWritten
<1>6. Life'
  BY <1>0, <1>1, <1>3 DEF Life
<1>7. Accepted' /\ SampledInTime'
  BY <1>0, <1>1, <1>2, <1>4 DEF Accepted, SampledInTime, Running
<1>8. Pipes'
  BY <1>0, <1>1, <1>2, <1>4, <1>5 DEF Pipes
<1> QED
  BY <1>0, <1>1, <1>2, <1>5, <1>6, <1>7, <1>8 DEF WInv, WorkerTypeOK, Report

LEMMA NoTokenStep == ASSUME WInv, TInv', NoToken PROVE WInv'
<1>1. exit = "none" /\ ctl # "start"
  BY DEF WInv, NoToken, Life, Pipes
<1>2. exit' \in {"error", "killed"} /\ wrk' = "exited" /\ Die
  BY DEF NoToken, ExitError
<1>3. /\ UNCHANGED <<runCtx, pipeVars, hookErr, sampled>>
      /\ ctl' = ctl /\ verdict' = verdict /\ ctl' # "start"
  BY <1>1 DEF NoToken
<1> QED
  BY <1>1, <1>2, <1>3, WorkerGone

-----------------------------------------------------------------------------
LEMMA WInvInit == ASSUME WorkerInit PROVE WInv
<1>1. TInv
  BY TInvInit DEF WorkerInit
<1>2. run = "before" /\ \A c \in Connections : pc[c] = "start"
  BY DEF WorkerInit, Init
<1>3. WorkerTypeOK
  <2>1. TypeOK /\ \A S : <<>> \in Seq(S)
    BY <1>1 DEF TInv
  <2> QED
    BY <2>1 DEF WorkerInit, WorkerTypeOK
<1>4. Life
  BY <1>2 DEF WorkerInit, Life
<1> QED
  BY <1>1, <1>3, <1>4 DEF WorkerInit, WInv, Pipes, SampledInTime, Accepted, Running

LEMMA WInvNext == ASSUME WInv, [WorkerNext]_allVars PROVE WInv'
<1>1. TInv'
  BY WorkerLedgers DEF WInv
<1>2. CASE Start \/ TakeReady \/ NotReady \/ SendStart \/ TakeFinished \/ AfterWorkload \/ SendCollect
           \/ TakeResult \/ CancelRun \/ ControllerDies
  <2>1. UNCHANGED <<config, run, pc>>
    BY <1>2 DEF Start, TakeReady, NotReady, SendStart, TakeFinished, AfterWorkload, SendCollect,
       TakeResult, CancelRun, ControllerDies, vars, loopVars
  <2> QED
    BY <1>1, <1>2, <2>1, QuietStep
<1>3. CASE StartFails \/ NotFinished \/ CollectFails
  BY <1>1, <1>3, AbortStep DEF StartFails, NotFinished, CollectFails
<1>4. CASE ContextKills \/ WorkerKilled
  BY <1>1, <1>4, KilledStep DEF ContextKills, WorkerKilled
<1>5. CASE Process
  BY <1>1, <1>5, PrepareStep, TakeStartStep, FinishStep, TakeCollectStep, NoTokenStep DEF Process
<1>6. CASE (WorkloadStep \/ PeerStep \/ PathStep \/ (Running /\ Signal)) /\ UNCHANGED shakeVars
  BY <1>1, <1>6, GoesOn
<1>7. CASE UNCHANGED allVars
  <2>1. /\ ctl' = ctl /\ runCtx' = runCtx /\ wrk' = wrk /\ exit' = exit /\ stdin' = stdin
        /\ stdout' = stdout /\ hookErr' = hookErr /\ sampled' = sampled /\ verdict' = verdict
        /\ UNCHANGED <<config, run, pc>>
    BY <1>7 DEF allVars, vars, loopVars, shakeVars, pipeVars
  <2>2. Succeeded' = Succeeded /\ Connections' = Connections
    BY <2>1, SameVerdict
  <2> QED
    BY <1>1, <2>1, <2>2 DEF WInv, TInv, WorkerTypeOK, Life, Pipes, SampledInTime, Accepted, Running
<1> QED
  BY <1>2, <1>3, <1>4, <1>5, <1>6, <1>7 DEF WorkerNext, Controller

LEMMA WorkerInvariant == WorkerSpec => []WInv
<1>1. WorkerInit => WInv
  BY WInvInit
<1>2. WInv /\ [WorkerNext]_allVars => WInv'
  BY WInvNext
<1> QED
  BY <1>1, <1>2, PTL DEF WorkerSpec

(* The two processes, their pipes and the workload keep their types, and   *)
(* no direction of a connection holds more than its window.                *)
THEOREM WorkerTypes == WorkerSpec => []WorkerTypeOK
<1>1. WInv => WorkerTypeOK
  BY DEF WInv
<1> QED
  BY <1>1, WorkerInvariant, PTL

(* No operation is counted that the server did not do, although the worker *)
(* may be signalled or killed between any two steps of tcp.go.             *)
THEOREM WorkerOperationsAreServed == WorkerSpec => []OperationsAreServed
<1>1. WInv => OperationsAreServed
  BY TInvServed DEF WInv
<1> QED
  BY <1>1, WorkerInvariant, PTL

(* Client and server of a connection never wait for each other, when and   *)
(* however the worker ends.                                                *)
THEOREM WorkerNeverBothWait == WorkerSpec => []NeverBothWait
<1>1. WInv => NeverBothWait
  BY TInvWait DEF WInv
<1> QED
  BY <1>1, WorkerInvariant, PTL

(* What RunProcess accepts as the result of a workload that nobody         *)
(* signalled is complete, although its worker may be killed or lose its    *)
(* controller between any two steps: the operations and failed attempts of *)
(* the connections add up to the requests, or to the idle connections, and *)
(* exceed them only where a connection without a share has no limit.       *)
THEOREM WorkerCountsAreComplete == WorkerSpec => []CountsAreComplete
<1>1. WorkerInit => WInv /\ Accounts
  BY WInvInit, AccountsInit DEF WorkerInit
<1>2. WInv /\ Accounts /\ [WorkerNext]_allVars => (WInv /\ Accounts)'
  BY WInvNext, WorkerAccounts DEF WInv
<1>3. WInv /\ Accounts => CountsAreComplete
  BY CountsFromAccounts DEF WInv
<1> QED
  BY <1>1, <1>2, <1>3, PTL DEF WorkerSpec

(* RunProcess accepts a worker only when its workload returned no error,   *)
(* the process ended by itself, and the sample was taken between the two,  *)
(* with the idle connections still held; and it leaves no worker behind.   *)
THEOREM WorkerAcceptedIsSampled == WorkerSpec => []AcceptedIsSampled
<1>1. WInv => AcceptedIsSampled
  BY DEF WInv, Accepted, AcceptedIsSampled
<1> QED
  BY <1>1, WorkerInvariant, PTL
=============================================================================
