---- MODULE MCWorker ----
(* Instances of Worker for the model checker. *)
EXTENDS Worker

With(mode, connections, requests, payload) ==
  [mode |-> mode, connections |-> connections, requests |-> requests, payload |-> payload]

AllConfigs ==
  { With("echo", 2, 3, 1), With("echo", 1, 0, 1), With("short", 2, 3, 1), With("short", 1, 0, 1),
    With("upload", 2, 3, 1), With("upload", 1, 0, 1), With("upload", 1, 3, 2),
    With("download", 2, 3, 1), With("download", 1, 0, 1), With("idle", 2, 0, 1),
    (* fewer requests than connections *)
    With("echo", 2, 1, 1), With("short", 2, 1, 1), With("upload", 2, 1, 1), With("download", 2, 1, 1) }
====
