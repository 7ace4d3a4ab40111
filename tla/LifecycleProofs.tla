--------------------------- MODULE LifecycleProofs ---------------------------
(***************************************************************************)
(* What Lifecycle promises for any list of repositories and any settings:  *)
(* no goroutine runs before what it reads is there, and a clean end leaves *)
(* no call under way that a listener has taken.                            *)
(***************************************************************************)
EXTENDS Lifecycle, TLAPS

-----------------------------------------------------------------------------
(* The inductive invariant                                                 *)

(* The points of main by how far it has come.                              *)
BeforeStore == {"certificates", "cache"}
BeforeTelemetry == BeforeStore \cup {"notify", "telemetry"}
BeforeListeners == BeforeTelemetry \cup {"relay"}
BeforeStart(l) ==
  BeforeListeners \cup {"health"}
    \cup (IF l = "health" THEN {} ELSE {"grpc"})
    \cup (IF l = "http" THEN {"http"} ELSE {})
BeforeLoops == BeforeListeners \cup {"health", "grpc", "http", "loops"}
AfterGRPC == {"healthClosing", "returning"}
AfterHTTP == {"grpcClosing"} \cup AfterGRPC
Closing == {"httpClosing"} \cup AfterHTTP

(* Main does not pass a point without what it sets up there, and starts no *)
(* goroutine before its turn.                                              *)
InOrder ==
  /\ pc \notin BeforeStore => stored
  /\ pc \notin BeforeTelemetry /\ flags.otel =>
       telemetry[<<"main">>] # "none"
  /\ \A l \in Listeners : listener[l] # "off" => pc \notin BeforeStart(l)
  /\ \A l \in Loops : loop[l] # "off" => pc \notin BeforeLoops
  /\ pc = "health" => flags.ownPort

(* There are providers only with OpenTelemetry, and then every loop that   *)
(* wants them has got its own.                                             *)
Providers ==
  /\ ~flags.otel => \A o \in Owners : telemetry[o] = "none"
  /\ \A l \in Loops :
       l \in Owners /\ loop[l] \in {"running", "calling", "ended"} =>
         (telemetry[l] = "running" <=> flags.otel)

(* The shutdown tells a listener to stop and waits for its calls before it *)
(* goes on to the next.                                                    *)
InShutdown ==
  /\ pc \in Closing => "http" \in stopped /\ quit
  /\ pc \in AfterHTTP => "http" \notin calls /\ "grpc" \in stopped
  /\ pc \in AfterGRPC => "grpc" \notin calls
  /\ pc = "healthClosing" => "health" \in stopped
  /\ pc = "returning" =>
       "health" \notin calls /\ ("health" \in stopped \/ ~flags.ownPort)
  /\ \A l \in calls : listener[l] = "listening"
  /\ quit => ctxDone

IInv == TypeOK /\ InOrder /\ Providers /\ InShutdown /\ ListenersDrained

-----------------------------------------------------------------------------

(* The loops that set telemetry up are the cleanup and the relays.         *)
LEMMA LoopOwners ==
  /\ Cleanup \in Loops /\ Cleanup \in Owners
  /\ <<"main">> \in Owners /\ <<"main">> \notin Loops
  /\ <<"store">> \in Owners /\ <<"store">> \notin Loops
  /\ \A e \in Entries : /\ Relay(e) \in Loops /\ Relay(e) \in Owners
                        /\ Check(e) \in Loops /\ Check(e) \notin Owners
                        /\ Relay(e) # Cleanup /\ Check(e) # Cleanup
BY DEF Loops, Owners, Relay, Check, Cleanup

LEMMA InitInv == Init => IInv
BY SettingsAssumption, LoopOwners
DEF Init, IInv, TypeOK, InOrder, Providers, InShutdown, ListenersDrained,
    BeforeStore, BeforeTelemetry, BeforeListeners, BeforeStart, BeforeLoops,
    AfterGRPC, AfterHTTP, Closing, Listeners

(* Steps of main that set up or start nothing new.                         *)
LEMMA WayInv ==
  ASSUME IInv, exit = "none",
         \/ ReadCertificates \/ NotifyContext \/ CreateRelayConfig
         \/ NotifyQuit \/ ShutdownTimeout
  PROVE  IInv'
<1> USE DEF BeforeStore, BeforeTelemetry, BeforeListeners, BeforeStart,
            BeforeLoops, AfterGRPC, AfterHTTP, Closing, goVars, sigVars
<1>1. /\ UNCHANGED <<flags, stored, ctxDone, quit, telemetry, listener,
                     stopped, calls, loop>>
      /\ exit' \in {"none", "fatal"}
  BY DEF ReadCertificates, NotifyContext, CreateRelayConfig, NotifyQuit,
         ShutdownTimeout, Go, GoOrFail
<1>2. \/ pc' = pc
      \/ pc = "certificates" /\ pc' = "cache"
      \/ pc = "notify" /\ pc' = "telemetry"
      \/ pc = "relay" /\ flags.ownPort /\ pc' = "health"
      \/ pc = "relay" /\ pc' = "grpc"
      \/ pc = "quit" /\ pc' = "serving"
  BY DEF ReadCertificates, NotifyContext, CreateRelayConfig, NotifyQuit,
         ShutdownTimeout, Go, GoOrFail
<1>3. TypeOK'
  BY <1>1, <1>2 DEF IInv, TypeOK
<1>4. InOrder'
  BY <1>1, <1>2 DEF IInv, InOrder
<1>5. Providers'
  BY <1>1 DEF IInv, Providers
<1>6. InShutdown'
  BY <1>1, <1>2 DEF IInv, InShutdown
<1>7. ListenersDrained'
  BY <1>1 DEF ListenersDrained
<1> QED
  BY <1>3, <1>4, <1>5, <1>6, <1>7 DEF IInv

(* The steps that set telemetry up.                                        *)
LEMMA SetUpInv ==
  ASSUME IInv, exit = "none", InitCache \/ SetUpTelemetry
  PROVE  IInv'
<1> USE DEF BeforeStore, BeforeTelemetry, BeforeListeners, BeforeStart,
            BeforeLoops, AfterGRPC, AfterHTTP, Closing, sigVars
<1>1. /\ UNCHANGED <<flags, ctxDone, quit, listener, stopped, calls, loop>>
      /\ exit' \in {"none", "panic", "fatal"}
  BY DEF InitCache, SetUpTelemetry, SetupOTelSDK
<1>2. PICK o \in {<<"main">>, <<"store">>} :
        /\ \/ telemetry' = telemetry
           \/ flags.otel /\ telemetry' = [telemetry EXCEPT ![o] = "running"]
        /\ pc = "telemetry" => o = <<"main">>
  BY DEF InitCache, SetUpTelemetry, SetupOTelSDK
<1>3. \/ pc' = pc /\ pc \in BeforeTelemetry /\ stored' \in BOOLEAN
         /\ (pc \notin BeforeStore => stored')
      \/ pc = "cache" /\ pc' = "notify" /\ stored'
      \/ /\ pc = "telemetry" /\ pc' = "relay" /\ stored' = stored
         /\ flags.otel =>
              telemetry' = [telemetry EXCEPT ![<<"main">>] = "running"]
  BY DEF InitCache, SetUpTelemetry, SetupOTelSDK, IInv, InOrder
<1>4. TypeOK'
  BY <1>1, <1>2, <1>3, LoopOwners DEF IInv, TypeOK, InitCache, SetUpTelemetry
<1>5. InOrder'
  BY <1>1, <1>3, <1>4, LoopOwners DEF IInv, InOrder, TypeOK
<1>6. Providers'
  BY <1>1, <1>2, LoopOwners DEF IInv, Providers, TypeOK
<1>7. InShutdown'
  BY <1>1, <1>3 DEF IInv, InShutdown
<1>8. ListenersDrained'
  BY <1>1 DEF ListenersDrained
<1> QED
  BY <1>4, <1>5, <1>6, <1>7, <1>8 DEF IInv

(* The steps that start goroutines.                                        *)
LEMMA StartInv ==
  ASSUME IInv, exit = "none", StartListener \/ StartLoops
  PROVE  IInv'
<1> USE DEF BeforeStore, BeforeTelemetry, BeforeListeners, BeforeStart,
            BeforeLoops, AfterGRPC, AfterHTTP, Closing, sigVars, Listeners
<1>1. CASE StartListener
  <2>1. PICK l \in Listeners, next \in {"grpc", "http", "loops"} :
          /\ Start(l, next) /\ <<l, next>> \in
               {<<"health", "grpc">>, <<"grpc", "http">>, <<"http", "loops">>}
          /\ l = "health" => flags.ownPort
    BY <1>1 DEF StartListener, Start, Go, IInv, InOrder
  <2>2. /\ UNCHANGED <<flags, exit, stored, ctxDone, quit, telemetry, stopped,
                       calls, loop>>
        /\ pc = l /\ pc' = next
        /\ listener' = [listener EXCEPT ![l] = "starting"]
    BY <1>1, <2>1 DEF StartListener, Start, Go
  <2>3. \A k \in calls : listener'[k] = "listening"
    BY <2>2 DEF IInv, InShutdown, InOrder, TypeOK
  <2>4. InOrder'
    BY <2>1, <2>2 DEF IInv, TypeOK, InOrder
  <2> QED
    BY <2>1, <2>2, <2>3, <2>4
       DEF IInv, TypeOK, Providers, InShutdown, ListenersDrained
<1>2. CASE StartLoops
  <2>1. /\ UNCHANGED <<flags, exit, stored, ctxDone, quit, telemetry, listener,
                       stopped, calls>>
        /\ pc = "loops" /\ pc' = "quit"
        /\ loop' \in [Loops -> {"off", "starting"}]
    BY <1>2 DEF StartLoops, Go
  <2> QED
    BY <2>1 DEF IInv, TypeOK, InOrder, Providers, InShutdown, ListenersDrained
<1> QED
  BY <1>1, <1>2

(* The steps of the shutdown.                                              *)
LEMMA StopInv ==
  ASSUME IInv, exit = "none",
         ReceiveInterrupt \/ HTTPClosed \/ GRPCClosed \/ HealthClosed
  PROVE  IInv'
<1> USE DEF BeforeStore, BeforeTelemetry, BeforeListeners, BeforeStart,
            BeforeLoops, AfterGRPC, AfterHTTP, Closing, sigVars, Listeners
<1>1. /\ UNCHANGED <<flags, exit, stored, ctxDone, quit, telemetry, listener,
                     calls, loop>>
      /\ \/ pc = "serving" /\ quit /\ pc' = "httpClosing"
            /\ stopped' = stopped \cup {"http"}
         \/ pc = "httpClosing" /\ "http" \notin calls /\ pc' = "grpcClosing"
            /\ stopped' = stopped \cup {"grpc"}
         \/ pc = "grpcClosing" /\ "grpc" \notin calls /\ flags.ownPort
            /\ pc' = "healthClosing" /\ stopped' = stopped \cup {"health"}
         \/ pc = "grpcClosing" /\ "grpc" \notin calls /\ ~flags.ownPort
            /\ pc' = "returning" /\ stopped' = stopped \cup {"grpc"}
         \/ pc = "healthClosing" /\ "health" \notin calls
            /\ pc' = "returning" /\ stopped' = stopped \cup {"health"}
  BY DEF ReceiveInterrupt, HTTPClosed, GRPCClosed, HealthClosed, Stop, Go
<1>2. TypeOK'
  BY <1>1 DEF IInv, TypeOK, InShutdown
<1>3. InOrder'
  BY <1>1 DEF IInv, InOrder
<1>4. Providers'
  BY <1>1 DEF IInv, Providers
<1>5. InShutdown'
  BY <1>1 DEF IInv, TypeOK, InShutdown
<1>6. ListenersDrained'
  BY <1>1 DEF ListenersDrained
<1> QED
  BY <1>2, <1>3, <1>4, <1>5, <1>6 DEF IInv

(* The end of main.                                                        *)
LEMMA ReturnInv ==
  ASSUME IInv, exit = "none", Return
  PROVE  IInv'
<1> USE DEF BeforeStore, BeforeTelemetry, BeforeListeners, BeforeStart,
            BeforeLoops, AfterGRPC, AfterHTTP, Closing, sigVars, Listeners
<1>1. /\ UNCHANGED <<flags, pc, stored, ctxDone, quit, listener, stopped,
                     calls, loop>>
      /\ pc = "returning" /\ exit' = "clean"
      /\ telemetry' = [telemetry EXCEPT ![<<"main">>] =
                         IF @ = "running" THEN "shut" ELSE @]
  BY DEF Return
<1>2. telemetry' \in [Owners -> {"none", "running", "shut"}]
  BY <1>1, LoopOwners DEF IInv, TypeOK
<1>3. TypeOK'
  BY <1>1, <1>2 DEF IInv, TypeOK
<1>4. /\ \A o \in Owners \ {<<"main">>} : telemetry'[o] = telemetry[o]
      /\ telemetry[<<"main">>] = "none" => telemetry'[<<"main">>] = "none"
      /\ telemetry[<<"main">>] # "none" => telemetry'[<<"main">>] # "none"
      /\ telemetry'[<<"main">>] # "running"
  BY <1>1, LoopOwners DEF IInv, TypeOK
<1>5. InOrder'
  BY <1>1, <1>4 DEF IInv, InOrder
<1>6. Providers'
  BY <1>1, <1>4, LoopOwners DEF IInv, Providers
<1>7. InShutdown'
  BY <1>1 DEF IInv, InShutdown
<1>8. ListenersDrained'
  BY <1>1, <1>4 DEF IInv, TypeOK, InShutdown, ListenersDrained
<1> QED
  BY <1>3, <1>5, <1>6, <1>7, <1>8 DEF IInv

(* The steps of the listeners and their calls.                             *)
LEMMA ListenerInv ==
  ASSUME IInv, exit = "none",
         (\E l \in Listeners : ListenerStep(l)) \/ WebhookEventStatuses
  PROVE  IInv'
<1> USE DEF BeforeStore, BeforeTelemetry, BeforeListeners, BeforeStart,
            BeforeLoops, AfterGRPC, AfterHTTP, Closing, sigVars, goVars
<1>1. PICK l \in Listeners :
        /\ UNCHANGED <<flags, pc, stored, ctxDone, quit, telemetry, stopped,
                       loop>>
        /\ exit' \in {"none", "fatal", "panic"}
        /\ \/ UNCHANGED <<calls, listener>>
           \/ /\ listener[l] = "starting" /\ UNCHANGED calls
              /\ \E v \in {"closed", "listening"} :
                   listener' = [listener EXCEPT ![l] = v]
           \/ /\ listener[l] = "listening" /\ l \notin stopped
              /\ calls' = calls \cup {l} /\ UNCHANGED listener
           \/ calls' = calls \ {l} /\ UNCHANGED listener
  <2>1. CASE \E l \in Listeners : ListenerStep(l)
    BY <2>1 DEF ListenerStep, Serve, BindFails, Call, CallEnds, CanCall
  <2>2. CASE WebhookEventStatuses
    BY <2>2 DEF WebhookEventStatuses, CanCall, Listeners
  <2> QED
    BY <2>1, <2>2
<1>2. TypeOK'
  <2>1. /\ listener' \in [Listeners ->
                          {"off", "starting", "listening", "closed"}]
        /\ listener'["health"] # "off" => listener["health"] # "off"
    BY <1>1 DEF IInv, TypeOK, Listeners
  <2>2. calls' \subseteq Listeners
    BY <1>1 DEF IInv, TypeOK
  <2> QED
    BY <1>1, <2>1, <2>2 DEF IInv, TypeOK
<1>3. InOrder'
  BY <1>1 DEF IInv, TypeOK, InOrder
<1>4. Providers'
  BY <1>1 DEF IInv, Providers
<1>5. InShutdown'
  BY <1>1 DEF IInv, TypeOK, InShutdown, InOrder
<1>6. ListenersDrained'
  BY <1>1 DEF ListenersDrained
<1> QED
  BY <1>2, <1>3, <1>4, <1>5, <1>6 DEF IInv

(* The steps of the loops.                                                 *)
LEMMA LoopInv ==
  ASSUME IInv, exit = "none",
         \/ \E l \in Loops : LoopStep(l)
         \/ \E e \in Entries : RelayReturns(e) \/ CheckReturns(e)
  PROVE  IInv'
<1> USE DEF BeforeStore, BeforeTelemetry, BeforeListeners, BeforeStart,
            BeforeLoops, AfterGRPC, AfterHTTP, Closing, sigVars
<1>1. PICK l \in Loops, v \in {"running", "calling", "ended"} :
        /\ UNCHANGED <<flags, pc, stored, ctxDone, quit, listener, stopped,
                       calls>>
        /\ exit' \in {"none", "fatal", "panic"}
        /\ loop[l] # "off" /\ loop' \in {loop, [loop EXCEPT ![l] = v]}
        /\ \/ /\ UNCHANGED telemetry
              /\ \/ loop' = loop \/ l \notin Owners \/ ~flags.otel
                 \/ loop[l] \in {"running", "calling"}
           \/ /\ flags.otel /\ l \notin {<<"main">>, <<"store">>}
              /\ telemetry' = [telemetry EXCEPT ![l] = "running"]
  <2>1. ASSUME NEW l \in Loops, LoopStarts(l)
        PROVE  /\ UNCHANGED <<flags, pc, stored, ctxDone, quit, listener,
                              stopped, calls>>
               /\ exit' \in {"none", "fatal", "panic"}
               /\ loop[l] # "off"
               /\ loop' \in {loop, [loop EXCEPT ![l] = "running"]}
               /\ \/ /\ UNCHANGED telemetry
                     /\ loop' = loop \/ l \notin Owners \/ ~flags.otel
                  \/ /\ flags.otel /\ l \notin {<<"main">>, <<"store">>}
                     /\ telemetry' = [telemetry EXCEPT ![l] = "running"]
    BY <2>1, LoopOwners DEF LoopStarts, SetupOTelSDK
  <2>2. CASE \E l \in Loops : LoopStep(l)
    BY <2>1, <2>2 DEF LoopStep, LoopCalls, LoopEnds
  <2>3. CASE \E e \in Entries : RelayReturns(e) \/ CheckReturns(e)
    BY <2>3, LoopOwners DEF RelayReturns, CheckReturns
  <2> QED
    BY <2>2, <2>3
<1>2. TypeOK'
  <2>1. loop' \in [Loops -> {"off", "starting", "running", "calling", "ended"}]
    BY <1>1 DEF IInv, TypeOK
  <2>2. telemetry' \in [Owners -> {"none", "running", "shut"}]
    BY <1>1 DEF IInv, TypeOK
  <2> QED
    BY <1>1, <2>1, <2>2 DEF IInv, TypeOK
<1>3. /\ \A k \in Loops : loop'[k] # "off" => loop[k] # "off"
      /\ \A k \in Loops \ {l} : loop'[k] = loop[k]
      /\ telemetry'[<<"main">>] = telemetry[<<"main">>]
      /\ \A o \in Owners \ {l} : telemetry'[o] = telemetry[o]
  BY <1>1, LoopOwners DEF IInv, TypeOK
<1>4. InOrder'
  BY <1>1, <1>3 DEF IInv, InOrder
<1>5. Providers'
  <2>1. ~flags.otel' => \A o \in Owners : telemetry'[o] = "none"
    BY <1>1 DEF IInv, Providers
  <2>2. ASSUME l \in Owners, loop'[l] \in {"running", "calling", "ended"}
        PROVE  telemetry'[l] = "running" <=> flags.otel'
    <3>1. CASE flags.otel /\ telemetry' = [telemetry EXCEPT ![l] = "running"]
      BY <1>1, <2>2, <3>1 DEF IInv, TypeOK
    <3>2. CASE UNCHANGED telemetry
      BY <1>1, <2>2, <3>2 DEF IInv, TypeOK, Providers
    <3> QED
      BY <1>1, <3>1, <3>2
  <2>3. \A k \in Loops \ {l} :
          k \in Owners /\ loop'[k] \in {"running", "calling", "ended"} =>
            (telemetry'[k] = "running" <=> flags.otel')
    BY <1>1, <1>3 DEF IInv, Providers
  <2> QED
    BY <2>1, <2>2, <2>3 DEF Providers
<1>6. InShutdown'
  BY <1>1 DEF IInv, InShutdown
<1>7. ListenersDrained'
  BY <1>1 DEF ListenersDrained
<1> QED
  BY <1>2, <1>4, <1>5, <1>6, <1>7 DEF IInv

(* A signal changes nothing but what it ends or is told to.                *)
LEMMA SignalInv ==
  ASSUME IInv, exit = "none", NEW sig, Signal(sig)
  PROVE  IInv'
<1>1. /\ UNCHANGED <<flags, pc, stored, telemetry, listener, stopped, calls,
                     loop>>
      /\ exit' \in {"none", "killed"}
      /\ {ctxDone', quit'} \subseteq BOOLEAN
      /\ (quit => quit') /\ (quit' => ctxDone')
  BY DEF Signal, Uncaught, Awaited, sigVars, goVars, IInv, TypeOK, InShutdown
<1> QED
  BY <1>1
  DEF IInv, TypeOK, InOrder, Providers, InShutdown, ListenersDrained,
      BeforeStore, BeforeTelemetry, BeforeStart, BeforeListeners, BeforeLoops

LEMMA NextInv == IInv /\ [Next]_vars => IInv'
<1> SUFFICES ASSUME IInv, [Next]_vars
             PROVE  IInv'
  OBVIOUS
<1>1. CASE UNCHANGED vars
  BY <1>1
  DEF vars, sigVars, goVars, IInv, TypeOK, InOrder, Providers, InShutdown,
      ListenersDrained
<1>2. CASE exit = "none" /\ MainStep
  BY <1>2, WayInv, SetUpInv, StartInv, StopInv, ReturnInv DEF MainStep
<1>3. CASE /\ exit = "none"
           /\ (\E l \in Listeners : ListenerStep(l)) \/ WebhookEventStatuses
  BY <1>3, ListenerInv
<1>4. CASE /\ exit = "none"
           /\ \/ \E l \in Loops : LoopStep(l)
              \/ \E e \in Entries : RelayReturns(e) \/ CheckReturns(e)
  BY <1>4, LoopInv
<1>5. CASE exit = "none" /\ \E sig \in {"INT", "TERM"} : Signal(sig)
  BY <1>5, SignalInv
<1> QED
  BY <1>1, <1>2, <1>3, <1>4, <1>5 DEF Next

THEOREM Invariance == Spec => []IInv
<1>1. Init => IInv
  BY InitInv
<1>2. IInv /\ [Next]_vars => IInv'
  BY NextInv
<1> QED
  BY <1>1, <1>2, PTL DEF Spec

(* Main and its goroutines are always at a point of their way, and a       *)
(* health server that was never made is never stopped.                     *)
THEOREM TypeCorrect == Spec => []TypeOK
<1>1. IInv => TypeOK
  BY DEF IInv
<1> QED
  BY <1>1, Invariance, PTL

(* No listener answers and no loop runs before the store, the list of      *)
(* repositories and the providers it goes through are there, however the   *)
(* goroutines are scheduled while main is still starting others.           *)
THEOREM ReadyBeforeUseAlways == Spec => []ReadyBeforeUse
<1>1. IInv => ReadyBeforeUse
  <2> SUFFICES ASSUME IInv PROVE ReadyBeforeUse
    OBVIOUS
  <2> USE DEF BeforeStore, BeforeTelemetry, BeforeListeners, BeforeStart,
              BeforeLoops
  <2>1. ASSUME NEW l \in Listeners, listener[l] = "listening"
        PROVE  stored /\ (flags.otel => telemetry[<<"main">>] # "none")
    BY <2>1 DEF IInv, InOrder
  <2>2. ASSUME NEW l \in Loops, loop[l] \in {"running", "calling"}
        PROVE  /\ stored
               /\ l \in Owners => (telemetry[l] = "running" <=> flags.otel)
    BY <2>2 DEF IInv, InOrder, Providers
  <2> QED
    BY <2>1, <2>2 DEF ReadyBeforeUse
<1> QED
  BY <1>1, Invariance, PTL

(* When main returns no call at a listener is cut off, the listeners are   *)
(* stopped, main's own providers are shut down, and an interrupt has asked *)
(* for it.  Of the posts and checks of the loops it says nothing.          *)
THEOREM ListenersDrainedAlways == Spec => []ListenersDrained
<1>1. IInv => ListenersDrained
  BY DEF IInv
<1> QED
  BY <1>1, Invariance, PTL
=============================================================================
