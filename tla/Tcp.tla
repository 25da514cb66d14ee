-------------------------------- MODULE Tcp --------------------------------
(***************************************************************************)
(* RunDetailed, RunIdle and Server.Serve of internal/workload/tcp/tcp.go:  *)
(* one client goroutine for each connection, one server goroutine for each *)
(* accepted connection, and between them the two directions of a stream    *)
(* that keeps its order, holds a limited number of frames, and may be      *)
(* damaged or broken by the path under test.                               *)
(*                                                                         *)
(* A frame is its operation and its sequence number; payload, length and   *)
(* checksum are only "intact" or not.  Time is the order of events: a      *)
(* deadline that passes although the peer would have answered is a fault,  *)
(* and the end of a duration-limited workload may come at any time.        *)
(***************************************************************************)
EXTENDS Integers, Sequences, Functions

CONSTANTS
  Configs,      (* the configurations to look at, see Config               *)
  AckWindow,    (* uploadAckWindowBytes                                    *)
  Window,       (* frames a direction holds before its writer blocks       *)
  MaxBlocks,    (* bound on the operations of a connection without a limit *)
  MaxFaults     (* bound on stalls, damages, breaks and server stops       *)

Mode == {"echo", "short", "upload", "download", "idle"}

(* ClientConfig: requests = 0 stands for a workload with a duration. *)
Config == [mode : Mode, connections : Nat \ {0}, requests : Nat, payload : Nat \ {0}]

(* An idle workload has a duration.  Fewer requests than connections are   *)
(* accepted by Validate (the smoke preset asks for 64 on 128): some share  *)
(* is then 0, which the loops read as "no limit", and as such a workload   *)
(* has no duration either, its connection goes on until an error or a      *)
(* signal, or for a download until a timeout.                              *)
ASSUME TcpAssumption ==
  /\ Configs \subseteq Config
  /\ AckWindow \in Nat \ {0} /\ Window \in Nat \ {0}
  /\ MaxBlocks \in Nat /\ MaxFaults \in Nat
  /\ \A g \in Configs : g.mode = "idle" => g.requests = 0

VARIABLES
  config,      (* the ClientConfig                                         *)
  ctx,         (* the context of the worker: "live" or "done"              *)
  run,         (* RunDetailed or RunIdle: not called, running, returned    *)
  pc,          (* of each client goroutine                                 *)
  completed,   (* the loop variable of each client goroutine               *)
  operations,  (* counters.operations, by connection                       *)
  failed,      (* counters.failed, by connection                           *)
  expired,     (* connections whose duration is over                       *)
  link,        (* the connection itself                                    *)
  up,          (* frames under way to the server                           *)
  down,        (* frames under way to the client                           *)
  server,      (* of each server goroutine                                 *)
  served,      (* blocks or requests the server has completed              *)
  lingering,   (* server goroutines of connections given up by the client  *)
  serving,     (* Serve: "open", "closing" or "returned"                   *)
  faults       (* faults so far                                            *)

loopVars == <<pc, completed, operations, failed>>
wireVars == <<link, up, down>>
peerVars == <<server, served, lingering, serving>>
vars == <<config, ctx, run, loopVars, expired, wireVars, peerVars, faults>>

Connections == 0 .. config.connections - 1

(* Mutant: the remainder is not handed out. *)
ShareFloor(c) == config.requests \div config.connections

(* perWorkerRequests *)
Share(c) ==
  config.requests \div config.connections
  + (IF c < config.requests % config.connections THEN 1 ELSE 0)

(* uploadAckInterval, which both sides compute from the payload length. *)
AckInterval == IF config.payload >= AckWindow THEN 1 ELSE AckWindow \div config.payload

Operation == {"echo", "short", "upload", "download", "data", "done"}
Frame == [op : Operation, sequence : Nat, intact : BOOLEAN]
NewFrame(op, n) == [op |-> op, sequence |-> n, intact |-> TRUE]

Init ==
  /\ config \in Configs
  /\ ctx = "live"
  /\ run = "before"
  /\ pc = [c \in Connections |-> "start"]
  /\ completed = [c \in Connections |-> 0]
  /\ operations = [c \in Connections |-> 0]
  /\ failed = [c \in Connections |-> 0]
  /\ expired = {}
  /\ link = [c \in Connections |-> "none"]
  /\ up = [c \in Connections |-> <<>>]
  /\ down = [c \in Connections |-> <<>>]
  /\ server = [c \in Connections |-> "none"]
  /\ served = [c \in Connections |-> 0]
  /\ lingering = 0
  /\ serving = "open"
  /\ faults = 0

Fault == faults < MaxFaults /\ faults' = faults + 1

(* What happens now is a fault, or has a cause that is none. *)
Excused(cause) == IF cause THEN UNCHANGED faults ELSE Fault

-----------------------------------------------------------------------------
(* The client goroutines.                                                  *)

(* A client goroutine ends, and its deferred Close runs. *)
Leave(c, how) ==
  /\ pc' = [pc EXCEPT ![c] = how]
  /\ link' = [link EXCEPT ![c] = IF @ = "open" THEN "closed" ELSE @]

(* RunDetailed counts the error of a goroutine unless the context is done. *)
GiveUp(c) ==
  /\ Leave(c, IF ctx = "live" THEN "failed" ELSE "dropped")
  /\ failed' = IF ctx = "live" THEN [failed EXCEPT ![c] = @ + 1] ELSE failed

(* runShort counts a transport error and goes on with the next attempt;    *)
(* for every other mode it is the end.                                     *)
TransportError(c) ==
  IF config.mode = "short" /\ ctx = "live"
  THEN /\ Leave(c, "next")
       /\ completed' = [completed EXCEPT ![c] = @ + 1]
       /\ failed' = [failed EXCEPT ![c] = @ + 1]
       /\ UNCHANGED operations
  ELSE GiveUp(c) /\ UNCHANGED <<completed, operations>>

(* A damaged or unexpected frame ends every mode. *)
Mismatch(c) == GiveUp(c) /\ UNCHANGED <<completed, operations>>

Stopped(c) == ctx = "done" \/ c \in expired
More(c) == Share(c) = 0 \/ completed[c] < Share(c)

(* The bound on loops without a limit: they wait for the end there. *)
WithinBound(c) == Share(c) = 0 => completed[c] < MaxBlocks

(* The server has gone, as far as the client can tell. *)
Gone(c) == link[c] = "broken" \/ server[c] = "closed"

Put(queue, c, f) == [queue EXCEPT ![c] = Append(@, f)]
Take(queue, c) == [queue EXCEPT ![c] = Tail(@)]

Begin ==
  /\ run = "before"
  /\ run' = "running"
  /\ pc' = [c \in Connections |-> IF config.mode = "short" THEN "next" ELSE "dial"]
  /\ UNCHANGED <<config, ctx, completed, operations, failed, expired, wireVars, peerVars, faults>>

AfterDial ==
  CASE config.mode = "short" -> "send" [] config.mode = "idle" -> "held" [] OTHER -> "next"

(* The bulk modes write their control frame at once.  A short attempt      *)
(* leaves the server goroutine of the previous one to itself.              *)
Dial(c) ==
  /\ pc[c] = "dial" /\ ctx = "live" /\ serving = "open"
  /\ pc' = [pc EXCEPT ![c] = AfterDial]
  /\ link' = [link EXCEPT ![c] = "open"]
  /\ up' = [up EXCEPT ![c] = IF config.mode \in {"upload", "download"}
                             THEN <<NewFrame(config.mode, Share(c))>> ELSE <<>>]
  /\ down' = [down EXCEPT ![c] = <<>>]
  /\ lingering' = lingering + (IF server[c] \in {"none", "closed"} THEN 0 ELSE 1)
  /\ server' = [server EXCEPT ![c] = "backlog"]
  /\ operations' = IF config.mode = "idle" THEN [operations EXCEPT ![c] = 1] ELSE operations
  /\ UNCHANGED <<config, ctx, run, completed, failed, expired, served, serving, faults>>

(* RunIdle tolerates transport errors, too. *)
DialFails(c) ==
  /\ pc[c] = "dial"
  /\ Excused(ctx = "done" \/ serving # "open")
  /\ IF config.mode = "idle"
     THEN /\ pc' = [pc EXCEPT ![c] = "refused"]
          /\ failed' = [failed EXCEPT ![c] = 1]
          /\ UNCHANGED <<link, completed, operations>>
     ELSE TransportError(c)
  /\ UNCHANGED <<config, ctx, run, expired, up, down, peerVars>>

(* The head of each loop: the work is done, or the time is over. *)
LoopEnds(c) ==
  /\ pc[c] = "next" /\ config.mode # "upload"
  /\ ~More(c) \/ Stopped(c)
  /\ Leave(c, "ended")
  /\ UNCHANGED <<config, ctx, run, completed, operations, failed, expired, up, down, peerVars, faults>>

LoopGoesOn(c) ==
  /\ pc[c] = "next" /\ config.mode \in {"short", "download"}
  /\ More(c) /\ ~Stopped(c) /\ WithinBound(c)
  /\ pc' = [pc EXCEPT ![c] = IF config.mode = "short" THEN "dial" ELSE "reply"]
  /\ UNCHANGED <<config, ctx, run, completed, operations, failed, expired, wireVars, peerVars, faults>>

(* An echo writes its request; the inner loop of a short attempt looks at  *)
(* the context once more, and leaves without a sample when it is done.     *)
SendRequest(c) ==
  /\ \/ pc[c] = "next" /\ config.mode = "echo" /\ More(c) /\ ~Stopped(c) /\ WithinBound(c)
     \/ pc[c] = "send" /\ ctx = "live"
  /\ IF Gone(c)
     THEN TransportError(c) /\ UNCHANGED up
     ELSE /\ up' = Put(up, c, NewFrame(config.mode, completed[c] + 1))
          /\ pc' = [pc EXCEPT ![c] = "reply"]
          /\ UNCHANGED <<completed, operations, failed, link>>
  /\ UNCHANGED <<config, ctx, run, expired, down, peerVars, faults>>

AttemptDropped(c) ==
  /\ pc[c] = "send" /\ ctx = "done"
  /\ Leave(c, "dropped")
  /\ UNCHANGED <<config, ctx, run, completed, operations, failed, expired, up, down, peerVars, faults>>

(* The reply of an echo or short request, or the next block of a download: *)
(* operation, sequence number and checksum must be the expected ones.      *)
ReceiveReply(c) ==
  /\ pc[c] = "reply" /\ down[c] # <<>>
  /\ down' = Take(down, c)
  /\ IF Head(down[c]) = NewFrame(config.mode, completed[c] + 1)
     THEN /\ operations' = [operations EXCEPT ![c] = @ + 1]
          /\ completed' = [completed EXCEPT ![c] = @ + 1]
          /\ IF config.mode = "short" THEN Leave(c, "next")
                                      ELSE pc' = [pc EXCEPT ![c] = "next"] /\ UNCHANGED link
          /\ UNCHANGED failed
     ELSE Mismatch(c)
  /\ UNCHANGED <<config, ctx, run, expired, up, peerVars, faults>>

(* The read deadline is the end of the duration or the timeout, whichever  *)
(* is earlier; only a download without a limit takes a timeout for its end.*)
ReplyTimesOut(c) ==
  /\ pc[c] = "reply"
  /\ Excused(c \in expired /\ config.mode # "short")
  /\ IF config.mode = "download" /\ Share(c) = 0
     THEN Leave(c, "ended") /\ UNCHANGED <<completed, operations, failed>>
     ELSE TransportError(c)
  /\ UNCHANGED <<config, ctx, run, expired, up, down, peerVars>>

ReplyLost(c) ==
  /\ pc[c] = "reply" /\ down[c] = <<>> /\ Gone(c)
  /\ TransportError(c)
  /\ UNCHANGED <<config, ctx, run, expired, up, down, peerVars, faults>>

(* Upload: blocks in a row, an acknowledgement after each interval, and a  *)
(* final frame with its own acknowledgement.                               *)
HasRoom(queue, c) == Len(queue[c]) < Window

SendBlock(c) ==
  /\ pc[c] = "next" /\ config.mode = "upload"
  /\ More(c) /\ ~Stopped(c) /\ WithinBound(c)
  /\ ~Gone(c) /\ HasRoom(up, c)
  /\ up' = Put(up, c, NewFrame("data", completed[c] + 1))
  /\ completed' = [completed EXCEPT ![c] = @ + 1]
  /\ operations' = [operations EXCEPT ![c] = @ + 1]
  /\ pc' = IF (completed[c] + 1) % AckInterval = 0 THEN [pc EXCEPT ![c] = "ack"] ELSE pc
  /\ UNCHANGED <<config, ctx, run, failed, expired, link, down, peerVars, faults>>

(* Mutant: an upload is over when its last frame is written. *)
SendDoneUnconfirmed(c) ==
  /\ pc[c] = "next" /\ config.mode = "upload"
  /\ ~More(c) \/ Stopped(c)
  /\ ~Gone(c) /\ HasRoom(up, c)
  /\ up' = Put(up, c, NewFrame("done", completed[c]))
  /\ pc' = [pc EXCEPT ![c] = "ended"]
  /\ UNCHANGED <<config, ctx, run, completed, operations, failed, expired, link, down, peerVars, faults>>

SendDone(c) ==
  /\ pc[c] = "next" /\ config.mode = "upload"
  /\ ~More(c) \/ Stopped(c)
  /\ ~Gone(c) /\ HasRoom(up, c)
  /\ up' = Put(up, c, NewFrame("done", completed[c]))
  /\ pc' = [pc EXCEPT ![c] = "final"]
  /\ UNCHANGED <<config, ctx, run, completed, operations, failed, expired, link, down, peerVars, faults>>

(* The server has gone, or the write deadline passes. *)
WriteFails(c) ==
  /\ pc[c] = "next" /\ config.mode = "upload"
  /\ Excused(Gone(c))
  /\ TransportError(c)
  /\ UNCHANGED <<config, ctx, run, expired, up, down, peerVars>>

(* readUploadAcknowledgement *)
ReceiveAck(c) ==
  /\ pc[c] \in {"ack", "final"} /\ down[c] # <<>>
  /\ down' = Take(down, c)
  /\ IF Head(down[c]) = NewFrame("upload", completed[c])
     THEN /\ IF pc[c] = "ack" THEN pc' = [pc EXCEPT ![c] = "next"] /\ UNCHANGED link
                              ELSE Leave(c, "ended")
          /\ UNCHANGED <<completed, operations, failed>>
     ELSE Mismatch(c)
  /\ UNCHANGED <<config, ctx, run, expired, up, peerVars, faults>>

AckMissing(c) ==
  /\ pc[c] \in {"ack", "final"}
  /\ Excused(down[c] = <<>> /\ Gone(c))
  /\ TransportError(c)
  /\ UNCHANGED <<config, ctx, run, expired, up, down, peerVars>>

-----------------------------------------------------------------------------
(* RunDetailed returns when every goroutine has ended; RunIdle when every  *)
(* dial is over and the timer has fired, with the connections still open,  *)
(* or when the context is done, and then it closes them.                   *)
Over == {"ended", "failed", "dropped"}
Dialled == {"held", "refused"}

RunReturns ==
  /\ run = "running"
  /\ IF config.mode = "idle"
     THEN /\ \A c \in Connections : pc[c] \in Dialled
          /\ \/ /\ expired = Connections
                /\ UNCHANGED <<pc, link>>
             \/ /\ ctx = "done"
                /\ pc' = [c \in Connections |-> "dropped"]
                /\ link' = [c \in Connections |-> IF link[c] = "open" THEN "closed" ELSE link[c]]
     ELSE /\ \A c \in Connections : pc[c] \in Over
          /\ UNCHANGED <<pc, link>>
  /\ run' = "returned"
  /\ UNCHANGED <<config, ctx, completed, operations, failed, expired, up, down, peerVars, faults>>

(* The worker closes what RunIdle has returned. *)
CloseIdle ==
  /\ run = "returned" /\ config.mode = "idle"
  /\ \E c \in Connections : pc[c] \in Dialled
  /\ pc' = [c \in Connections |-> IF pc[c] = "dropped" THEN "dropped" ELSE "ended"]
  /\ link' = [c \in Connections |-> IF link[c] = "open" THEN "closed" ELSE link[c]]
  /\ UNCHANGED <<config, ctx, run, completed, operations, failed, expired, up, down, peerVars, faults>>

(* The duration of a connection is over.  RunIdle starts its timer when    *)
(* every dial is over, so that it is over for all at once.                 *)
Expire(c) ==
  /\ run = "running" /\ config.requests = 0 /\ c \notin expired
  /\ IF config.mode = "idle"
     THEN /\ ctx = "live" /\ \A d \in Connections : pc[d] \in Dialled
          /\ expired' = Connections
     ELSE /\ pc[c] \notin {"start"} \cup Over
          /\ pc[c] = "dial" => config.mode = "short"
          /\ expired' = expired \cup {c}
  /\ UNCHANGED <<config, ctx, run, loopVars, wireVars, peerVars, faults>>

(* The worker's own signal context. *)
Signal ==
  /\ ctx = "live" /\ ctx' = "done"
  /\ UNCHANGED <<config, run, loopVars, expired, wireVars, peerVars, faults>>

(* The worker process is gone: the kernel closes its connections. *)
Die ==
  /\ run # "dead" /\ run' = "dead"
  /\ pc' = [c \in Connections |-> "dropped"]
  /\ link' = [c \in Connections |-> IF link[c] = "open" THEN "closed" ELSE link[c]]
  /\ UNCHANGED <<config, ctx, completed, operations, failed, expired, up, down, peerVars, faults>>

-----------------------------------------------------------------------------
(* The server: an accept loop, and serveConnection for each connection.    *)

clientVars == <<config, ctx, run, loopVars, expired>>

Accept(c) ==
  /\ serving = "open" /\ server[c] = "backlog"
  /\ server' = [server EXCEPT ![c] = "header"]
  /\ served' = [served EXCEPT ![c] = 0]
  /\ UNCHANGED <<clientVars, wireVars, lingering, serving, faults>>

(* Mutant: the server writes without looking for room. *)
AnswerUnbounded(c, f) ==
  IF link[c] = "open" THEN down' = Put(down, c, f)
                      ELSE UNCHANGED down

(* What the server writes goes nowhere when the client has closed. *)
Answer(c, f) ==
  IF link[c] = "open" THEN HasRoom(down, c) /\ down' = Put(down, c, f)
                      ELSE UNCHANGED down

(* Echo: an intact request is answered; a short connection is then closed. *)
ServeEcho(c) ==
  /\ server[c] \in {"header", "echo"} /\ up[c] # <<>>
  /\ Head(up[c]).op \in {"echo"} \cup (IF server[c] = "header" THEN {"short"} ELSE {})
  /\ Head(up[c]).intact
  /\ up' = Take(up, c)
  /\ Answer(c, Head(up[c]))
  /\ served' = [served EXCEPT ![c] = @ + 1]
  /\ server' = [server EXCEPT ![c] = IF Head(up[c]).op = "short" THEN "closed" ELSE "echo"]
  /\ UNCHANGED <<clientVars, link, lingering, serving, faults>>

ServeControl(c) ==
  /\ server[c] = "header" /\ up[c] # <<>>
  /\ Head(up[c]).op \in {"upload", "download"} /\ Head(up[c]).intact
  /\ up' = Take(up, c)
  /\ server' = [server EXCEPT ![c] = Head(up[c]).op]
  /\ UNCHANGED <<clientVars, link, down, served, lingering, serving, faults>>

(* Mutant: the server waits for more than the interval. *)
ServeDataLate(c) ==
  /\ server[c] = "upload" /\ up[c] # <<>>
  /\ Head(up[c]) = NewFrame("data", served[c] + 1)
  /\ Share(c) # 0 => served[c] < Share(c)
  /\ up' = Take(up, c)
  /\ served' = [served EXCEPT ![c] = @ + 1]
  /\ IF (served[c] + 1) % (AckInterval + 1) = 0
     THEN Answer(c, NewFrame("upload", served[c] + 1)) ELSE UNCHANGED down
  /\ UNCHANGED <<clientVars, server, link, lingering, serving, faults>>

(* serveUpload: the next block, and an acknowledgement after each interval.*)
ServeData(c) ==
  /\ server[c] = "upload" /\ up[c] # <<>>
  /\ Head(up[c]) = NewFrame("data", served[c] + 1)
  /\ Share(c) # 0 => served[c] < Share(c)
  /\ up' = Take(up, c)
  /\ served' = [served EXCEPT ![c] = @ + 1]
  /\ IF (served[c] + 1) % AckInterval = 0
     THEN Answer(c, NewFrame("upload", served[c] + 1)) ELSE UNCHANGED down
  /\ UNCHANGED <<clientVars, server, link, lingering, serving, faults>>

(* ... and the final acknowledgement, when both sides count alike. *)
ServeDone(c) ==
  /\ server[c] = "upload" /\ up[c] # <<>>
  /\ Head(up[c]) = NewFrame("done", served[c])
  /\ Share(c) # 0 => served[c] = Share(c)
  /\ up' = Take(up, c)
  /\ Answer(c, NewFrame("upload", served[c]))
  /\ server' = [server EXCEPT ![c] = "closed"]
  /\ UNCHANGED <<clientVars, served, link, lingering, serving, faults>>

ServeBlock(c) ==
  /\ server[c] = "download" /\ link[c] = "open"
  /\ Share(c) # 0 => served[c] < Share(c)
  /\ Answer(c, NewFrame("download", served[c] + 1))
  /\ served' = [served EXCEPT ![c] = @ + 1]
  /\ UNCHANGED <<clientVars, server, link, up, lingering, serving, faults>>

(* A frame the server does not take where it stands. *)
Unexpected(c) ==
  /\ up[c] # <<>>
  /\ \/ ~Head(up[c]).intact
     \/ server[c] = "upload"
        /\ \/ /\ Head(up[c]) = NewFrame("data", served[c] + 1)
              /\ Share(c) # 0 /\ served[c] >= Share(c)
           \/ /\ Head(up[c]) = NewFrame("done", served[c])
              /\ Share(c) # 0 /\ served[c] # Share(c)
           \/ Head(up[c]) \notin {NewFrame("data", served[c] + 1), NewFrame("done", served[c])}
     \/ server[c] = "echo" /\ Head(up[c]).op # "echo"

(* serveConnection returns and closes: every block is written, a frame is  *)
(* unexpected, or reading or writing fails because the client has gone.    *)
ServerEnds(c) ==
  /\ server[c] \in {"header", "echo", "upload", "download"}
  /\ \/ link[c] # "open"
     \/ server[c] # "download" /\ Unexpected(c)
     \/ server[c] = "download" /\ Share(c) # 0 /\ served[c] >= Share(c)
  /\ server' = [server EXCEPT ![c] = "closed"]
  /\ UNCHANGED <<clientVars, wireVars, served, lingering, serving, faults>>

(* The same for a connection that the client has replaced by another. *)
LingeringEnds ==
  /\ lingering > 0
  /\ lingering' = lingering - 1
  /\ UNCHANGED <<clientVars, wireVars, server, served, serving, faults>>

(* The server is told to stop: the listener closes, and with it what was   *)
(* not accepted yet; the accepted connections are served to their end.     *)
StopServer ==
  /\ serving = "open" /\ Fault
  /\ serving' = "closing"
  /\ LET Refused == {c \in Connections : server[c] = "backlog"} IN
     /\ server' = [c \in Connections |-> IF c \in Refused THEN "closed" ELSE server[c]]
     /\ up' = [c \in Connections |-> IF c \in Refused THEN <<>> ELSE up[c]]
  /\ UNCHANGED <<clientVars, link, down, served, lingering>>

(* Serve waits for its connections before it returns. *)
ServeReturns ==
  /\ serving = "closing" /\ lingering = 0
  /\ \A c \in Connections : server[c] \in {"none", "closed"}
  /\ serving' = "returned"
  /\ UNCHANGED <<clientVars, wireVars, server, served, lingering, faults>>

-----------------------------------------------------------------------------
(* The path under test.                                                    *)

(* A connection breaks, and what is under way is lost. *)
Break(c) ==
  /\ link[c] = "open" /\ Fault
  /\ link' = [link EXCEPT ![c] = "broken"]
  /\ up' = [up EXCEPT ![c] = <<>>]
  /\ down' = [down EXCEPT ![c] = <<>>]
  /\ UNCHANGED <<clientVars, peerVars>>

(* A frame is damaged in a way that its checks notice. *)
Damage(c) ==
  /\ Fault
  /\ \/ \E i \in DOMAIN up[c] : up' = [up EXCEPT ![c][i].intact = FALSE] /\ UNCHANGED down
     \/ \E i \in DOMAIN down[c] : down' = [down EXCEPT ![c][i].intact = FALSE] /\ UNCHANGED up
  /\ UNCHANGED <<clientVars, link, peerVars>>

-----------------------------------------------------------------------------
ClientStep(c) ==
  \/ Dial(c) \/ DialFails(c) \/ LoopEnds(c) \/ LoopGoesOn(c)
  \/ SendRequest(c) \/ AttemptDropped(c) \/ ReceiveReply(c) \/ ReplyTimesOut(c) \/ ReplyLost(c)
  \/ SendBlock(c) \/ SendDone(c) \/ WriteFails(c) \/ ReceiveAck(c) \/ AckMissing(c)

ServerStep(c) ==
  \/ Accept(c) \/ ServeEcho(c) \/ ServeControl(c) \/ ServeData(c) \/ ServeDone(c)
  \/ ServeBlock(c) \/ ServerEnds(c)

WorkloadStep ==
  \/ RunReturns
  \/ \E c \in Connections : ClientStep(c) \/ Expire(c)

PeerStep ==
  \/ \E c \in Connections : ServerStep(c)
  \/ LingeringEnds \/ ServeReturns

PathStep ==
  \/ \E c \in Connections : Break(c) \/ Damage(c)
  \/ StopServer

Next == Begin \/ WorkloadStep \/ CloseIdle \/ Signal \/ Die \/ PeerStep \/ PathStep

Spec == Init /\ [][Next]_vars

(* Every connection that some configuration has. *)
MaxConnections == UNION {0 .. g.connections - 1 : g \in Configs}

-----------------------------------------------------------------------------
ClientState == {"start", "next", "dial", "send", "reply", "ack", "final"} \cup Dialled \cup Over
ServerState == {"none", "backlog", "header", "echo", "upload", "download", "closed"}

TypeOK ==
  /\ config \in Configs
  /\ ctx \in {"live", "done"}
  /\ run \in {"before", "running", "returned", "dead"}
  /\ pc \in [Connections -> ClientState]
  /\ completed \in [Connections -> Nat]
  /\ operations \in [Connections -> Nat]
  /\ failed \in [Connections -> Nat]
  /\ expired \subseteq Connections
  /\ link \in [Connections -> {"none", "open", "closed", "broken"}]
  /\ up \in [Connections -> Seq(Frame)]
  /\ down \in [Connections -> Seq(Frame)]
  /\ server \in [Connections -> ServerState]
  /\ served \in [Connections -> Nat]
  /\ lingering \in Nat
  /\ serving \in {"open", "closing", "returned"}
  /\ faults \in 0 .. MaxFaults
  /\ \A c \in Connections : Len(up[c]) <= Window /\ Len(down[c]) <= Window

(* No client counts more than the server did for it.  An operation is      *)
(* never an old, damaged or repeated reply; an upload is at most one ack   *)
(* interval ahead of its server; and an upload without an error, signalled *)
(* or not, was received in full.  A short attempt has a server goroutine   *)
(* of its own, whose count the next one replaces: nothing is said of it.   *)
OperationsAreServed ==
  \A c \in Connections :
    /\ config.mode \in {"echo", "download"} => operations[c] <= served[c]
    /\ config.mode = "upload" => operations[c] <= served[c] + AckInterval
    /\ config.mode = "upload" /\ pc[c] = "ended" => operations[c] = served[c]

(* On a connection that nobody has closed, client and server never both    *)
(* wait for the other: somebody has a frame to read, or room to write.     *)
NeverBothWait ==
  \A c \in Connections :
    link[c] = "open" /\ server[c] # "closed" =>
      /\ ~ /\ pc[c] \in {"reply", "ack", "final"} /\ down[c] = <<>>
           /\ server[c] \in {"header", "echo", "upload"} /\ up[c] = <<>>
      /\ ~ (~HasRoom(up, c) /\ ~HasRoom(down, c))

(* RunDetailed and RunIdle return no error: no goroutine has recorded one, *)
(* and RunIdle was not cut short.  Errors after a signal are forgotten.    *)
Succeeded ==
  /\ run = "returned"
  /\ \A c \in Connections : pc[c] # "failed" /\ (config.mode = "idle" => pc[c] # "dropped")

(* Operations and failed attempts, as the result reports them. *)
Attempted == SumFunction(operations) + SumFunction(failed)

(* A workload that was not signalled and returns no error has done all it  *)
(* was asked for: the shares of the connections add up to the requests,    *)
(* and each of them is an operation or a failed attempt, once.  It has     *)
(* done more only when a connection had no share and hence no limit.       *)
CountsAreComplete ==
  Succeeded /\ ctx = "live" =>
    /\ config.mode = "idle" => Attempted = config.connections
    /\ config.requests # 0 => Attempted >= config.requests
    /\ config.requests >= config.connections => Attempted = config.requests

(* A server that is told to stop does: no client keeps it for ever.        *)
ServerReturns == serving = "closing" ~> serving = "returned"
=============================================================================
