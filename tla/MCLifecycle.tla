----------------------------- MODULE MCLifecycle -----------------------------
(* The settings tried: every combination of relay, telemetry and health    *)
(* port, and one at a time whatever else may differ.                       *)
EXTENDS Lifecycle

Usual == [repos |-> Entries, relay |-> "off", otel |-> FALSE,
          pair |-> "good", ca |-> "absent", ownPort |-> FALSE]

TriedSettings ==
  {[Usual EXCEPT !.relay = r, !.otel = o, !.ownPort = p] :
     r \in {"off", "http", "grpc"}, o \in BOOLEAN, p \in BOOLEAN}
  \cup {[Usual EXCEPT !.pair = k, !.ca = a] : k \in Files, a \in Files}
  \cup {[Usual EXCEPT !.repos = {}], [Usual EXCEPT !.relay = "malformed"]}
=============================================================================
