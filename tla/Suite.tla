---------------------------------- MODULE Suite ----------------------------------
(***************************************************************************)
(* The matrix generator: Generate of internal/suite/matrix.go turns the    *)
(* options of generate-matrix into the cases of a matrix, which Validate   *)
(* of internal/protocol/protocol.go accepts or refuses; and what is made   *)
(* of an accepted case later: the requests the runner gives its worker,    *)
(* which validates them once more, and the key under which the report      *)
(* compares the case with those of other subjects.                         *)
(*                                                                         *)
(* An address is its family and whose it is.  Names, paths, tokens, user   *)
(* IDs and the seed are left out: Generate copies them from the options.   *)
(***************************************************************************)
EXTENDS Integers, Sequences, FiniteSetsExt, SequencesExt

Server(family) == [family |-> family, host |-> "server"]       (* --target           *)
Physical(family) == [family |-> family, host |-> "physical"]   (* --raw-target       *)
Loopback(family) == [family |-> family, host |-> "loopback"]
NoAddress == [family |-> 0, host |-> "none"]

AvailableSubjects ==
  <<"raw", "direct", "redirect", "tproxy", "tun", "tun-auto-redirect", "ebpf-tc", "ebpf-cgroup">>

Refusal == [accepted |-> FALSE, cases |-> <<>>]

(***************************************************************************)
(* The presets.  Zero, and -1 warmups, mean the preset's value.            *)
(***************************************************************************)
Presets ==
  [smoke |-> [warmups |-> 0, repetitions |-> 1, duration |-> 1000, idleDuration |-> 1000, udpPPS |-> 10000],
   core |-> [warmups |-> 1, repetitions |-> 3, duration |-> 10000, idleDuration |-> 10000, udpPPS |-> 100000],
   full |-> [warmups |-> 1, repetitions |-> 5, duration |-> 20000, idleDuration |-> 10000, udpPPS |-> 100000]]

ApplyPresetDefaults(o) ==
  LET preset == Presets[o.preset]
      Or(value, default) == IF value = 0 THEN default ELSE value
      pps == Or(o.udpPPS, preset.udpPPS)
  IN  [o EXCEPT !.warmups = IF @ = -1 THEN preset.warmups ELSE @,
                !.repetitions = Or(@, preset.repetitions),
                !.duration = Or(@, preset.duration),
                !.idleDuration = Or(@, preset.idleDuration),
                !.udpPPS = pps,
                !.udpMTUPPS = Or(@, pps)]

(***************************************************************************)
(* The workloads, in the order they are listed.                            *)
(***************************************************************************)
Bare(name, protocol, mode, payload, connections, flows, socket) ==
  [name |-> name, protocol |-> protocol, mode |-> mode, target |-> NoAddress, payload |-> payload,
   requests |-> 0, duration |-> 0, connections |-> connections, flows |-> flows,
   offeredPPS |-> 0, socket |-> socket]

Base(name, protocol, mode, payload) == Bare(name, protocol, mode, payload, 1, 1, "unset")

BareTemplates ==
  LET Tcp(name, mode, payload, connections) == Bare(name, "tcp", mode, payload, connections, 1, "unset")
      Udp(name, mode, payload, flows) == Bare(name, "udp", mode, payload, 1, flows, "unset")
      Unconnected(name, mode, flows) == Bare(name, "udp", mode, 64, 1, flows, "unconnected")
  IN  <<Tcp("standby", "standby", 1, 1), Tcp("tcp-rtt", "echo", 64, 1),
        Tcp("tcp-upload-1", "bulk-upload", 65536, 1), Tcp("tcp-upload-8", "bulk-upload", 65536, 8),
        Tcp("tcp-download-1", "bulk-download", 65536, 1), Tcp("tcp-download-8", "bulk-download", 65536, 8),
        Tcp("tcp-short-1", "short", 64, 1), Tcp("tcp-short-32", "short", 64, 32),
        Tcp("tcp-short-128", "short", 64, 128),
        Udp("udp-rtt", "echo", 64, 1), Unconnected("udp-rtt-unconnected", "echo", 1),
        Udp("udp-pps-1", "pps", 64, 1), Unconnected("udp-pps-1-unconnected", "pps", 1),
        Udp("udp-pps-64", "pps", 64, 64), Unconnected("udp-pps-64-unconnected", "pps", 64),
        Udp("udp-mtu", "pps", 1432, 1), Udp("udp-churn", "echo", 64, 1000),
        Tcp("tcp-idle-1", "idle", 1, 1), Tcp("tcp-idle-250", "idle", 1, 250), Tcp("tcp-idle-500", "idle", 1, 500),
        Tcp("tcp-idle-750", "idle", 1, 750), Tcp("tcp-idle-1000", "idle", 1, 1000)>>

(* A mode is bounded by its requests or by its duration; pps is offered.   *)
Template(o, w) ==
  [w EXCEPT
     !.requests = IF w.name = "udp-churn" THEN 1000 ELSE IF w.mode \in {"echo", "short"} THEN 20000 ELSE 0,
     !.duration = IF w.mode \in {"idle", "standby"} THEN o.idleDuration
                  ELSE IF w.mode \in {"echo", "short"} THEN 0 ELSE o.duration,
     !.offeredPPS = IF w.mode # "pps" THEN 0 ELSE IF w.name = "udp-mtu" THEN o.udpMTUPPS ELSE o.udpPPS]

Templates(o) == [i \in DOMAIN BareTemplates |-> Template(o, BareTemplates[i])]

Names == [i \in DOMAIN BareTemplates |-> BareTemplates[i].name]

PresetWorkloads(o) ==
  CASE o.preset = "smoke" -> <<"tcp-rtt", "udp-rtt", "udp-rtt-unconnected">>
    [] o.preset = "core" ->
         <<"standby", "tcp-rtt", "tcp-upload-1", "tcp-upload-8", "tcp-download-1", "tcp-download-8",
           "tcp-short-32", "tcp-idle-1", "tcp-idle-500", "udp-rtt", "udp-rtt-unconnected",
           "udp-pps-1", "udp-pps-64", "udp-pps-64-unconnected", "udp-churn">>
    [] o.preset = "full" -> Names

SelectedNames(o) == IF o.workloads = <<>> THEN PresetWorkloads(o) ELSE o.workloads

(* The smoke preset caps the requests; --requests fixes those of the echo  *)
(* and short workloads, but never the 1000 flows of udp-churn.             *)
Override(o, w) ==
  LET capped == IF o.preset = "smoke" THEN Min({w.requests, 64}) ELSE w.requests
      fixed == o.requests > 0 /\ w.name # "udp-churn" /\ w.mode \in {"echo", "short"}
  IN  [w EXCEPT !.requests = IF fixed THEN o.requests ELSE capped]

Workloads(o) ==
  LET templates == Templates(o)
      Named(name) == CHOOSE w \in ToSet(templates) : w.name = name
      names == SelectedNames(o)
  IN  [i \in DOMAIN names |-> Override(o, Named(names[i]))]

(* The elements of a sequence that are in S, in their order. *)
Those(seq, S) == FlattenSeq([i \in DOMAIN seq |-> IF seq[i] \in S THEN <<seq[i]>> ELSE <<>>])

SelectedSubjects(o) ==
  IF o.subjects = <<>> THEN AvailableSubjects ELSE Those(AvailableSubjects, ToSet(o.subjects))

(* The refusals of applyPresetDefaults, selectedSubjects and workloads. *)
Malformed(o) ==
  \/ o.preset \notin DOMAIN Presets
  \/ o.warmups < -1
  \/ \E field \in {"repetitions", "duration", "idleDuration", "requests", "udpPPS", "udpMTUPPS"} : o[field] < 0
  \/ ~IsInjective(o.subjects) \/ ~(ToSet(o.subjects) \subseteq ToSet(AvailableSubjects))
  \/ ~IsInjective(o.workloads)
  \/ ~(ToSet(o.workloads) \subseteq ToSet(Names))

(***************************************************************************)
(* One case: its subject, its workload and its repetitions.                *)
(***************************************************************************)
RunID(kind, name) == kind \o "-" \o name

(* No two are equal, though a hyphen also joins the words of a name. *)
ASSUME RunIDsDiffer ==
  \A k, l \in ToSet(AvailableSubjects), m, n \in ToSet(Names) : RunID(k, m) = RunID(l, n) => k = l /\ m = n

BuildConfig(o, target, kind, w) ==
  LET loopback == Loopback(target.family)
  IN  [runID |-> RunID(kind, w.name), kind |-> kind,
       listen |-> IF kind \in {"direct", "redirect", "tproxy"} THEN loopback ELSE NoAddress,
       subjectTarget |-> IF kind = "direct" THEN target ELSE NoAddress,
       api |-> IF kind = "raw" THEN NoAddress ELSE loopback,
       workload |-> IF kind = "direct" THEN [w EXCEPT !.target = loopback] ELSE w,
       warmups |-> o.warmups, repetitions |-> o.repetitions]

(* Config.ApplyDefaults: of a generated case only the socket mode is left. *)
ApplyDefaults(config) ==
  LET w == config.workload
  IN  IF w.protocol = "udp" /\ w.socket = "unset"
        THEN [config EXCEPT !.workload.socket = "connected"] ELSE config

MaxPayload == 1048576
MaxOfferedPPS == 1000000000

Modes == [tcp |-> {"echo", "bulk-upload", "bulk-download", "short", "idle", "standby"},
          udp |-> {"echo", "pps"}]

PacketCount(w) ==
  IF w.requests > 0 THEN w.requests
  ELSE (w.duration \div 1000) * w.offeredPPS + ((w.duration % 1000) * w.offeredPPS) \div 1000

ValidPace(w) ==
  IF w.mode = "pps" THEN w.offeredPPS >= 1 /\ w.offeredPPS <= MaxOfferedPPS /\ PacketCount(w) >= w.flows
  ELSE w.offeredPPS = 0

ValidWorkload(w) ==
  /\ w.protocol \in DOMAIN Modes /\ w.mode \in Modes[w.protocol]
  /\ w.target # NoAddress
  /\ w.payload >= 1 /\ w.payload <= MaxPayload
  /\ w.protocol = "udp" => w.payload + 40 <= 65507 /\ w.socket \in {"unset", "connected", "unconnected"}
  /\ w.protocol # "udp" => w.socket = "unset"
  /\ w.requests >= 0 /\ w.duration >= 0 /\ w.offeredPPS >= 0
  /\ (w.requests = 0) # (w.duration = 0)
  /\ ValidPace(w)
  /\ w.connections >= 1 /\ w.flows >= 1

ValidSubject(config) ==
  LET w == config.workload
  IN  /\ config.kind \in ToSet(AvailableSubjects)
      /\ config.kind \in {"redirect", "tproxy"} =>
           config.listen.host = "loopback" /\ config.listen.family = w.target.family
      /\ config.kind = "redirect" => w.protocol = "tcp"
      /\ config.kind = "direct" =>
           /\ config.listen.host = "loopback" /\ config.subjectTarget # NoAddress
           /\ w.target = config.listen
      /\ config.kind \in {"ebpf-tc", "ebpf-cgroup"} => config.api.host = "loopback"

Validate(config) ==
  /\ ValidWorkload(config.workload) /\ ValidSubject(config)
  /\ config.repetitions >= 1 /\ config.warmups >= 0

(* The target of a subject's cases: raw goes past a translated one. *)
TargetOf(o, kind) == IF kind = "raw" /\ o.rawTarget # NoAddress THEN o.rawTarget ELSE o.target

Control(o) ==
  LET target == TargetOf(o, "raw")
      w == [Base("control", "tcp", "bulk-upload", 65536) EXCEPT !.target = target, !.duration = o.duration]
  IN  [BuildConfig(o, target, "raw", w) EXCEPT !.runID = "raw-control", !.warmups = 0, !.repetitions = 1]

Supported(o, kind) ==
  Those(Workloads(o), {w \in ToSet(Workloads(o)) : kind = "redirect" => w.protocol # "udp"})

Case(o, kind, w) ==
  ApplyDefaults(BuildConfig(o, TargetOf(o, kind), kind, [w EXCEPT !.target = TargetOf(o, kind)]))

Cases(o) ==
  LET CasesOf(kind) == [i \in DOMAIN Supported(o, kind) |-> Case(o, kind, Supported(o, kind)[i])]
      subjects == SelectedSubjects(o)
  IN  FlattenSeq([i \in DOMAIN subjects |-> CasesOf(subjects[i])])

RunIDs(cases) == [i \in DOMAIN cases |-> cases[i].runID]

(* NormalizeAndValidateMatrix, whose other refusals are about what Generate *)
(* copies from the options.                                                *)
ValidMatrix(cases, control) ==
  /\ cases # <<>>
  /\ \A i \in DOMAIN cases : Validate(cases[i])
  /\ IsInjective(RunIDs(cases))
  /\ Validate(control) /\ control.kind = "raw"

Generate(options) ==
  IF Malformed(options) THEN Refusal
  ELSE LET o == ApplyPresetDefaults(options)
           cases == Cases(o)
       IN  IF TargetOf(o, "raw").family = o.target.family /\ ValidMatrix(cases, Control(o))
             THEN [accepted |-> TRUE, cases |-> cases, control |-> Control(o)]
             ELSE Refusal

(***************************************************************************)
(* What the runner asks of a worker: the workload of the case, the warmup  *)
(* that proves the path, and the probe after a PPS case.  ReadRequest of   *)
(* internal/worker validates it as the workload of a raw case.             *)
(***************************************************************************)
WarmupKeepsPace(w) ==   (* mutant: the offered load stays *)
  LET connections == Min({w.connections, 8})
      flows == Min({w.flows, 8})
  IN  [w EXCEPT !.connections = connections, !.flows = flows,
                !.requests = Max({8, connections, flows}), !.duration = 0,
                !.mode = "echo", !.payload = Min({@, 64})]

WarmupWorkload(w) ==
  LET connections == Min({Max({w.connections, 1}), 8})
      flows == Min({Max({w.flows, 1}), 8})
  IN  [w EXCEPT !.connections = connections, !.flows = flows,
                !.requests = Max({8, connections, flows}), !.duration = 0,
                !.mode = "echo", !.payload = Min({@, 64}), !.offeredPPS = 0]

MatrixRecoveryRequest(control) ==
  [Base("matrix-recovery", "udp", "echo", 64) EXCEPT !.target = control.workload.target, !.requests = 8]

ReadRequest(w) == ValidWorkload(w)

(* workloadKey of internal/report: the cases of one workload.  It has      *)
(* neither the target nor the name, which differ between subjects.         *)
WorkloadKeyWithoutFlows(w) ==   (* mutant: the flows are left out *)
  <<w.protocol, w.mode, w.socket, w.payload, w.requests, w.duration, w.connections, w.offeredPPS>>

WorkloadKey(w) ==
  <<w.protocol, w.mode, w.socket, w.payload, w.requests, w.duration, w.connections, w.flows, w.offeredPPS>>

(***************************************************************************)
(* What the generator owes the commands that take its matrix.              *)
(***************************************************************************)
(* The workloads of some subject: redirect carries no UDP.  One cannot be  *)
(* run if it has no packet for some flow, or offers more than a worker     *)
(* takes.                                                                  *)
ToRun(o) == {w \in ToSet(Workloads(o)) : w.protocol = "tcp" \/ ToSet(SelectedSubjects(o)) # {"redirect"}}
Starved(w) == w.mode = "pps" /\ w.duration * w.offeredPPS < 1000 * w.flows
Feasible(options) ==
  LET o == ApplyPresetDefaults(options)
  IN  /\ TargetOf(o, "raw").family = o.target.family
      /\ ToRun(o) # {}
      /\ \A w \in ToRun(o) : ~Starved(w) /\ w.offeredPPS <= MaxOfferedPPS

(* No worker refuses later what a matrix asks of it, and each connection   *)
(* and flow that a warmup or a recovery probe opens has a request.         *)
Served(w) == ReadRequest(w) /\ w.requests >= w.connections /\ w.requests >= w.flows
NoWorkerRefuses(matrix) ==
  /\ Served(MatrixRecoveryRequest(matrix.control))
  /\ \A c \in ToSet(matrix.cases) : ReadRequest(c.workload) /\ Served(WarmupWorkload(c.workload))

(* No subject has two cases with one key, of which the second would take   *)
(* the place of the first; two cases have one key only when they are the   *)
(* same workload; and the raw cases, like the control and its probe, go    *)
(* to the physical server.                                                 *)
Comparable(options, matrix) ==
  /\ IsInjective(RunIDs(matrix.cases))
  /\ \A c, d \in ToSet(matrix.cases) :
       (WorkloadKey(c.workload) = WorkloadKey(d.workload)) <=> (c.workload.name = d.workload.name)
  /\ \A c \in ToSet(matrix.cases) \cup {matrix.control} : c.kind = "raw" =>
       c.workload.target = TargetOf(options, "raw")
=============================================================================
