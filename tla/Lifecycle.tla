------------------------------ MODULE Lifecycle ------------------------------
(***************************************************************************)
(* The process of the relay server from its start to its end               *)
(* (cmd/server/main.go): what main sets up and in which order, the         *)
(* goroutines that it starts, what a failure at each point comes to, and   *)
(* the shutdown.                                                           *)
(*                                                                         *)
(* Main starts one goroutine for each of its listeners (HTTP, gRPC and, on *)
(* a port of its own, gRPC health), and the loops of internal/relay: the   *)
(* cleanup, and a relay and a health check of the target for each entry of *)
(* the list of repositories.  SetupOTelSDK is called by main, by the store *)
(* and by some of these loops.  What calls and loops do with events is in  *)
(* Server; here each listener has a call under way or none.                *)
(***************************************************************************)
EXTENDS Naturals, FiniteSets

CONSTANTS
  Entries,  (* entries that -repositories may list; one may come twice     *)
  Settings  (* the settings of the process that are tried                  *)

(* What may be where a flag says that a file is.                           *)
Files == {"absent", "good", "bad"}

(* repos: the entries listed; relay: its flags, as far as they matter;     *)
(* otel: OTEL_ENABLED; pair: what is at -certFileLocation and              *)
(* -certKeyFileLocation; ca: what is at -caFileLocation; ownPort:          *)
(* -grpcHealthPort is another port than -grpcPort.                         *)
AllSettings ==
  [repos : SUBSET Entries, relay : {"off", "http", "grpc", "malformed"},
   otel : BOOLEAN, pair : Files, ca : Files, ownPort : BOOLEAN]

ASSUME SettingsAssumption == Settings \subseteq AllSettings

Listeners == {"http", "grpc", "health"}

Relay(e) == <<"relay", e>>
Check(e) == <<"check", e>>
Cleanup == <<"cleanup">>

Loops ==
  {Cleanup} \cup {Relay(e) : e \in Entries} \cup {Check(e) : e \in Entries}

Owners == {<<"main">>, <<"store">>, Cleanup} \cup {Relay(e) : e \in Entries}

VARIABLES
  flags,      (* the settings of this process                              *)
  pc,         (* where main is                                             *)
  exit,       (* how the process has ended: "none" as long as it has not   *)
  stored,     (* cache.Store and cache.Repositories are set                *)
  ctxDone,    (* the context of main is cancelled                          *)
  quit,       (* an interrupt is in the channel that main waits on         *)
  telemetry,  (* telemetry[o]: the providers that SetupOTelSDK gave to o   *)
  listener,   (* listener[l]: where the goroutine of listener l is         *)
  stopped,    (* listeners that main has told to stop                      *)
  calls,      (* listeners with a call under way                           *)
  loop        (* loop[l]: where loop l is                                  *)

goVars == <<telemetry, listener, stopped, calls, loop>>
sigVars == <<ctxDone, quit>>

vars == <<flags, pc, exit, stored, sigVars, goVars>>

(* NewTLSConfig for a server.  A bad pair is an error with any authority.  *)
NewTLSConfig(pair, ca) ==
  IF "bad" \in {pair, ca} THEN "error"
  ELSE IF {pair, ca} = {"absent"} THEN "none" ELSE "set"

(* With an authority and no key pair the server has nothing to show.       *)
HandshakeFails(l) ==
  /\ l = "grpc"
  /\ NewTLSConfig(flags.pair, flags.ca) = "set"
  /\ flags.pair = "absent"

-----------------------------------------------------------------------------

Init ==
  /\ flags \in Settings
  /\ pc = "certificates"
  /\ exit = "none"
  /\ stored = FALSE
  /\ ctxDone = FALSE /\ quit = FALSE
  /\ telemetry = [o \in Owners |-> "none"]
  /\ listener = [l \in Listeners |-> "off"]
  /\ stopped = {} /\ calls = {}
  /\ loop = [l \in Loops |-> "off"]

(* -- The start of main ---------------------------------------------------*)

Go(from, to) == pc = from /\ pc' = to /\ UNCHANGED exit

(* Main goes on to the next point, or ends the process.                    *)
GoOrFail(from, ok, to) ==
  \/ ok /\ Go(from, to)
  \/ ~ok /\ pc = from /\ exit' = "fatal" /\ UNCHANGED pc

ReadCertificates ==
  /\ GoOrFail("certificates", NewTLSConfig(flags.pair, flags.ca) # "error",
              "cache")
  /\ UNCHANGED <<flags, stored, sigVars, goVars>>

(* SetupOTelSDK for o, with OpenTelemetry enabled.  Every caller uses the  *)
(* providers before it looks at the error, or whatever the error: a failed *)
(* set-up is a nil pointer.  A failing exporter is fatal at once.          *)
SetupOTelSDK(o) ==
  \/ telemetry' = [telemetry EXCEPT ![o] = "running"] /\ UNCHANGED exit
  \/ exit' \in {"panic", "fatal"} /\ UNCHANGED telemetry

(* Fault: InitCache leaves the store for later.                            *)
InitCacheWithoutStore ==
  /\ GoOrFail("cache", flags.repos # {}, "notify")
  /\ UNCHANGED <<flags, stored, sigVars, goVars>>

(* InitCache: a list without an entry is fatal; the memory store is made   *)
(* first, whether Redis takes its place or not.                            *)
InitCache ==
  /\ pc = "cache"
  /\ IF flags.repos = {}
       THEN exit' = "fatal" /\ UNCHANGED telemetry
       ELSE IF flags.otel THEN SetupOTelSDK(<<"store">>)
                          ELSE UNCHANGED <<exit, telemetry>>
  /\ stored' = (exit' = "none")
  /\ pc' = IF exit' = "none" THEN "notify" ELSE pc
  /\ UNCHANGED <<flags, sigVars, listener, stopped, calls, loop>>

(* signal.NotifyContext: from here on no signal ends the process by itself.*)
NotifyContext ==
  /\ Go("notify", "telemetry")
  /\ UNCHANGED <<flags, stored, sigVars, goVars>>

SetUpTelemetry ==
  /\ pc = "telemetry"
  /\ IF flags.otel THEN SetupOTelSDK(<<"main">>)
                   ELSE UNCHANGED <<exit, telemetry>>
  /\ pc' = IF exit' = "none" THEN "relay" ELSE pc
  /\ UNCHANGED <<flags, stored, sigVars, listener, stopped, calls, loop>>

(* CreateRelayConfig reads both addresses, also with the relay off.        *)
CreateRelayConfig ==
  /\ GoOrFail("relay", flags.relay # "malformed",
              IF flags.ownPort THEN "health" ELSE "grpc")
  /\ UNCHANGED <<flags, stored, sigVars, goVars>>

Start(l, next) ==
  /\ Go(l, next)
  /\ listener' = [listener EXCEPT ![l] = "starting"]
  /\ UNCHANGED <<flags, stored, sigVars, telemetry, stopped, calls, loop>>

StartListener ==
  Start("health", "grpc") \/ Start("grpc", "http") \/ Start("http", "loops")

(* InitiateRelay for each entry, and the cleanup.                          *)
StartLoops ==
  /\ Go("loops", "quit")
  /\ loop' = [l \in Loops |->
                IF \/ l = Cleanup
                   \/ /\ flags.relay # "off"
                      /\ \E e \in flags.repos : l \in {Relay(e), Check(e)}
                  THEN "starting" ELSE "off"]
  /\ UNCHANGED <<flags, stored, sigVars, telemetry, listener, stopped, calls>>

NotifyQuit ==
  /\ Go("quit", "serving")
  /\ UNCHANGED <<flags, stored, sigVars, goVars>>

(* -- The end of main -----------------------------------------------------*)

Stop(from, l, to) ==
  /\ Go(from, to)
  /\ stopped' = stopped \cup {l}
  /\ UNCHANGED <<flags, stored, sigVars, telemetry, listener, calls, loop>>

ReceiveInterrupt == quit /\ Stop("serving", "http", "httpClosing")

HTTPClosed == "http" \notin calls /\ Stop("httpClosing", "grpc", "grpcClosing")

(* Some request takes longer than ten seconds.                             *)
ShutdownTimeout ==
  /\ pc = "httpClosing"
  /\ "http" \in calls
  /\ exit' = "fatal"
  /\ UNCHANGED <<flags, pc, stored, sigVars, goVars>>

(* Fault: the health server is stopped whether there is one or not.        *)
GRPCClosedAnyPort ==
  "grpc" \notin calls /\ Stop("grpcClosing", "health", "healthClosing")

(* Fault: the server is stopped with its streams open.                     *)
GRPCClosedAtOnce ==
  IF flags.ownPort THEN Stop("grpcClosing", "health", "healthClosing")
                   ELSE Stop("grpcClosing", "grpc", "returning")

GRPCClosed ==
  /\ "grpc" \notin calls
  /\ IF flags.ownPort THEN Stop("grpcClosing", "health", "healthClosing")
                      ELSE Stop("grpcClosing", "grpc", "returning")

HealthClosed ==
  "health" \notin calls /\ Stop("healthClosing", "health", "returning")

(* The deferred shutdown of main's own providers.                          *)
Return ==
  /\ pc = "returning"
  /\ exit' = "clean"
  /\ telemetry' = [telemetry EXCEPT ![<<"main">>] =
                     IF @ = "running" THEN "shut" ELSE @]
  /\ UNCHANGED <<flags, pc, stored, sigVars, listener, stopped, calls, loop>>

(* -- The listeners -------------------------------------------------------*)

(* The port is bound and served.  For a gRPC server that was told to stop  *)
(* before it served, Serve is an error, and an error is fatal.             *)
Serve(l) ==
  /\ listener[l] = "starting"
  /\ IF l \in stopped /\ l # "http"
       THEN exit' = "fatal" /\ UNCHANGED listener
       ELSE /\ listener' = [listener EXCEPT ![l] =
                              IF l \in stopped THEN "closed" ELSE "listening"]
            /\ UNCHANGED exit
  /\ UNCHANGED <<flags, pc, stored, sigVars, telemetry, stopped, calls, loop>>

BindFails(l) ==
  /\ listener[l] = "starting"
  /\ exit' = "fatal"
  /\ UNCHANGED <<flags, pc, stored, sigVars, goVars>>

(* Fault: a listener that was told to stop goes on accepting.              *)
CanCallWhenStopped(l) == listener[l] = "listening" /\ ~HandshakeFails(l)

CanCall(l) ==
  listener[l] = "listening" /\ l \notin stopped /\ ~HandshakeFails(l)

Call(l) ==
  /\ CanCall(l)
  /\ calls' = calls \cup {l}
  /\ UNCHANGED <<flags, pc, exit, stored, sigVars, telemetry, listener,
                 stopped, loop>>

(* It starts a span whether OpenTelemetry is enabled or not.               *)
WebhookEventStatuses ==
  /\ CanCall("grpc")
  /\ IF flags.otel THEN calls' = calls \cup {"grpc"} /\ UNCHANGED exit
                   ELSE exit' = "panic" /\ UNCHANGED calls
  /\ UNCHANGED <<flags, pc, stored, sigVars, telemetry, listener, stopped,
                 loop>>

CallEnds(l) ==
  /\ l \in calls
  /\ calls' = calls \ {l}
  /\ UNCHANGED <<flags, pc, exit, stored, sigVars, telemetry, listener,
                 stopped, loop>>

(* -- The loops -----------------------------------------------------------*)

(* RelayCachedEvents needs a meter also with OpenTelemetry disabled.       *)
LoopStarts(l) ==
  /\ loop[l] = "starting"
  /\ IF \E e \in Entries : l = Check(e) THEN UNCHANGED <<exit, telemetry>>
     ELSE IF flags.otel THEN SetupOTelSDK(l)
     ELSE /\ exit' = IF l = Cleanup THEN "none" ELSE "panic"
          /\ UNCHANGED telemetry
  /\ loop' = IF exit' = "none" THEN [loop EXCEPT ![l] = "running"] ELSE loop
  /\ UNCHANGED <<flags, pc, stored, sigVars, listener, stopped, calls>>

(* A post, a push or a check of health: none of them has a deadline.       *)
LoopCalls(l) ==
  /\ loop[l] = "running"
  /\ l # Cleanup
  /\ loop' = [loop EXCEPT ![l] = "calling"]
  /\ UNCHANGED <<flags, pc, exit, stored, sigVars, telemetry, listener,
                 stopped, calls>>

RelayReturns(e) ==
  /\ loop[Relay(e)] = "calling"
  /\ \/ loop' = [loop EXCEPT ![Relay(e)] = "running"] /\ UNCHANGED exit
     \/ flags.relay = "grpc" /\ exit' = "fatal" /\ UNCHANGED loop
  /\ UNCHANGED <<flags, pc, stored, sigVars, telemetry, listener, stopped,
                 calls>>

(* What doHttpHealthcheck or doGrpcHealthcheck found is counted in a       *)
(* variable of the loop that nothing reads; that the client of the latter  *)
(* cannot be made is fatal.                                                *)
CheckReturns(e) ==
  /\ loop[Check(e)] = "calling"
  /\ \/ loop' = [loop EXCEPT ![Check(e)] = "running"] /\ UNCHANGED exit
     \/ flags.relay = "grpc" /\ exit' = "fatal" /\ UNCHANGED loop
  /\ UNCHANGED <<flags, pc, stored, sigVars, telemetry, listener, stopped,
                 calls>>

(* Fault: the loop looks at the context only before its first pass.        *)
LoopEndsNever(l) == FALSE /\ loop[l] = "running" /\ UNCHANGED vars

LoopEnds(l) ==
  /\ loop[l] = "running"
  /\ ctxDone
  /\ loop' = [loop EXCEPT ![l] = "ended"]
  /\ UNCHANGED <<flags, pc, exit, stored, sigVars, telemetry, listener,
                 stopped, calls>>

(* -- Signals -------------------------------------------------------------*)

Uncaught == pc \in {"certificates", "cache", "notify"}

Awaited == pc \in {"serving", "httpClosing", "grpcClosing", "healthClosing",
                   "returning"}

(* Before NotifyContext either signal kills; after it both cancel the      *)
(* context, and only an interrupt reaches the channel, once it is there:   *)
(* one that comes earlier is one that main never hears of.                 *)
Signal(sig) ==
  /\ IF Uncaught
       THEN exit' = "killed" /\ UNCHANGED sigVars
       ELSE /\ ctxDone' = TRUE
            /\ quit' = (quit \/ (sig = "INT" /\ Awaited))
            /\ UNCHANGED exit
  /\ UNCHANGED <<flags, pc, stored, goVars>>

-----------------------------------------------------------------------------

MainStep ==
  \/ ReadCertificates \/ InitCache \/ NotifyContext \/ SetUpTelemetry
  \/ CreateRelayConfig \/ StartListener \/ StartLoops \/ NotifyQuit
  \/ ReceiveInterrupt \/ HTTPClosed \/ ShutdownTimeout \/ GRPCClosed
  \/ HealthClosed \/ Return

ListenerStep(l) == Serve(l) \/ BindFails(l) \/ Call(l) \/ CallEnds(l)

LoopStep(l) == LoopStarts(l) \/ LoopCalls(l) \/ LoopEnds(l)

Next ==
  \/ /\ exit = "none"
     /\ \/ MainStep
        \/ \E l \in Listeners : ListenerStep(l)
        \/ WebhookEventStatuses
        \/ \E l \in Loops : LoopStep(l)
        \/ \E e \in Entries : RelayReturns(e) \/ CheckReturns(e)
        \/ \E sig \in {"INT", "TERM"} : Signal(sig)
  \/ exit # "none" /\ UNCHANGED vars

Running(A) == exit = "none" /\ A

(* Main, the start of each goroutine and each call to the server come to   *)
(* an end (see Server for the streams).  A loop whose context is done has  *)
(* it ready at every select, which does not choose the ticker for ever.  A *)
(* call that a loop makes need not return.                                 *)
Fairness ==
  /\ WF_vars(Running(MainStep))
  /\ \A l \in Listeners :
       WF_vars(Running(Serve(l))) /\ WF_vars(Running(CallEnds(l)))
  /\ \A l \in Loops :
       WF_vars(Running(LoopStarts(l))) /\ SF_vars(Running(LoopEnds(l)))

Spec == Init /\ [][Next]_vars

FairSpec == Spec /\ Fairness

-----------------------------------------------------------------------------
(* Properties                                                              *)

(* Types: main is at a point of its way, each goroutine at one of its own; *)
(* the health server is only there, and only stopped, on a port of its own.*)
TypeOK ==
  /\ flags \in Settings
  /\ pc \in {"certificates", "cache", "notify", "telemetry", "relay", "health",
             "grpc", "http", "loops", "quit", "serving", "httpClosing",
             "grpcClosing", "healthClosing", "returning"}
  /\ exit \in {"none", "clean", "fatal", "panic", "killed"}
  /\ {stored, ctxDone, quit} \subseteq BOOLEAN
  /\ telemetry \in [Owners -> {"none", "running", "shut"}]
  /\ listener \in [Listeners -> {"off", "starting", "listening", "closed"}]
  /\ stopped \subseteq Listeners
  /\ calls \subseteq Listeners
  /\ loop \in [Loops -> {"off", "starting", "running", "calling", "ended"}]
  /\ listener["health"] # "off" \/ "health" \in stopped => flags.ownPort

(* Whatever goroutine runs, the globals it reads are set: the store, the   *)
(* list of repositories, and with OpenTelemetry the tracer and the meters  *)
(* that its calls and its loop go through without asking.                  *)
ReadyBeforeUse ==
  /\ (\E l \in Listeners : listener[l] = "listening") =>
       stored /\ (flags.otel => telemetry[<<"main">>] # "none")
  /\ \A l \in Loops : loop[l] \in {"running", "calling"} =>
       /\ stored
       /\ l \in Owners => (telemetry[l] = "running" <=> flags.otel)

(* When main returns, no call that a listener has taken is cut off, though *)
(* the listeners stop one after the other and take calls meanwhile; main's *)
(* own providers have sent what they had, and somebody has asked for the   *)
(* end.  It is not so with the loops: main waits for none of them, and     *)
(* with it ends a post, a push or a check of health that is under way.     *)
ListenersDrained ==
  exit = "clean" =>
    /\ calls = {}
    /\ {"http", "grpc"} \subseteq stopped
    /\ telemetry[<<"main">>] # "running"
    /\ quit /\ ctxDone

(* An interrupt that main hears ends the process, whatever starts, serves  *)
(* or loops at that moment.                                                *)
InterruptEnds == quit ~> exit # "none"

(* After either signal every loop that was started ends, or is in a call   *)
(* that does not return.                                                   *)
LoopsEnd ==
  \A l \in Loops :
    ctxDone ~> [](loop[l] \in {"off", "calling", "ended"} \/ exit # "none")

=============================================================================
