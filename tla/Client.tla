-------------------------------- MODULE Client --------------------------------
(***************************************************************************)
(* cmd/client/main.go: the client of one repository.  Its main goroutine   *)
(* opens one stream after the other, puts what it receives into a store of *)
(* its own, and a relay goroutine (internal/relay/relay.go) posts what is  *)
(* in the store to the target.  The client starts no cleanup, so its list  *)
(* of events only grows: it is a sequence here, and an event is known by   *)
(* its place in it.                                                        *)
(*                                                                         *)
(* The server, the connection and the signals are what happens to the      *)
(* client.  Store's operations are single steps (see InMemoryStore).       *)
(***************************************************************************)
EXTENDS Naturals, Sequences

CONSTANTS
  Ids,          (* delivery ids                                            *)
  Messages,     (* what one response may hold: sequences of ids            *)
  Relays,       (* settings tried of -relayEnabled and -relayProtocol      *)
  OTelSettings, (* settings tried of the variable OTEL_ENABLED             *)
  MaxWire       (* bound: responses under way at a time                    *)

ASSUME MessagesAssumption == Messages \subseteq Seq(Ids)
ASSUME RelaysAssumption == Relays \subseteq {"off", "http", "grpc"}
ASSUME OTelAssumption == OTelSettings \subseteq BOOLEAN

VARIABLES
  pc,           (* where main is                                           *)
  ctx,          (* its context ctx is cancelled                            *)
  firstCtx,     (* the context it gave the relay goroutine is cancelled    *)
  stream,       (* what the stream of the session has come to              *)
  wire,         (* responses sent and not received                         *)
  inbox,        (* events of the response that main is going through       *)
  cached,       (* the ids of the events in the client's store             *)
  relayed,      (* places in cached of the events with IsRelayed set       *)
  relayPc,      (* where RelayCachedEvents is                              *)
  relayAt,      (* the place it is at                                      *)
  relayEnd,     (* the length of the list it is going through              *)
  relay,        (* the relay setting                                       *)
  otel,         (* whether OpenTelemetry is enabled                        *)
  tried         (* history: ids in the order in which posts were tried     *)

sessionVars == <<stream, wire, inbox>>
ctxVars == <<ctx, firstCtx>>
relayVars == <<relayPc, relayAt, relayEnd>>
setVars == <<relay, otel>>

vars == <<pc, ctxVars, sessionVars, cached, relayed, relayVars, setVars, tried>>

Places(s) == 1 .. Len(s)

Has(s, i) == \E k \in Places(s) : s[k] = i

-----------------------------------------------------------------------------

Init ==
  /\ pc = "calling"
  /\ ctx = FALSE
  /\ firstCtx = FALSE
  /\ stream = "closed"
  /\ wire = <<>>
  /\ inbox = <<>>
  /\ cached = <<>>
  /\ relayed = {}
  /\ relay \in Relays
  /\ otel \in OTelSettings
  /\ relayPc = IF relay = "off" THEN "off" ELSE "start"
  /\ relayAt = 1
  /\ relayEnd = 0
  /\ tried = <<>>

(* -- handleWebhookEventStream --------------------------------------------*)

Fetch ==
  /\ pc = "calling"
  /\ ~ctx
  /\ stream' = "open"
  /\ pc' = "looping"
  /\ UNCHANGED <<ctxVars, wire, inbox, cached, relayed, relayVars, setVars,
                 tried>>

(* The server cannot be reached, or the context is cancelled: fatal.       *)
FetchFails ==
  /\ pc = "calling"
  /\ pc' = "exited"
  /\ UNCHANGED <<ctxVars, sessionVars, cached, relayed, relayVars, setVars,
                 tried>>

(* The loop condition: the window of the session has time left, or not.    *)
NextRound ==
  /\ pc = "looping"
  /\ pc' \in {"waiting", "leaving"}
  /\ UNCHANGED <<ctxVars, sessionVars, cached, relayed, relayVars, setVars,
                 tried>>

(* The request interval is over, or main's context is cancelled, and with  *)
(* it the one of the stream.                                               *)
Select ==
  /\ pc = "waiting"
  /\ \/ pc' = "receiving"
     \/ ctx /\ pc' = "leaving"
  /\ UNCHANGED <<ctxVars, sessionVars, cached, relayed, relayVars, setVars,
                 tried>>

Receive ==
  /\ pc = "receiving"
  /\ wire # <<>>
  /\ inbox' = Head(wire)
  /\ wire' = Tail(wire)
  /\ pc' = "storing"
  /\ UNCHANGED <<ctxVars, stream, cached, relayed, relayVars, setVars, tried>>

(* The end of the stream.  Recv cancels the context of a stream that it    *)
(* has read to its end.                                                    *)
ReceiveEnd ==
  /\ pc = "receiving"
  /\ wire = <<>>
  /\ stream = "ended"
  /\ stream' = "done"
  /\ pc' = "leaving"
  /\ UNCHANGED <<ctxVars, wire, inbox, cached, relayed, relayVars, setVars,
                 tried>>

(* An error of Recv is returned, and fatal in main.                        *)
ReceiveFails ==
  /\ pc = "receiving"
  /\ ctx \/ (wire = <<>> /\ stream = "broken")
  /\ pc' = "exited"
  /\ UNCHANGED <<ctxVars, sessionVars, cached, relayed, relayVars, setVars,
                 tried>>

(* Fault: a delivery in the store is appended again.                       *)
StoreAgain ==
  /\ pc = "storing"
  /\ IF inbox = <<>>
       THEN pc' = "looping" /\ UNCHANGED <<inbox, cached>>
       ELSE /\ cached' = Append(cached, Head(inbox))
            /\ inbox' = Tail(inbox)
            /\ UNCHANGED pc
  /\ UNCHANGED <<ctxVars, stream, wire, relayed, relayVars, setVars, tried>>

(* cache.Event stores the next event of the response, unless it is there.  *)
(* The answer of ValidateEvent is not looked at.                           *)
StoreReceived ==
  /\ pc = "storing"
  /\ IF inbox = <<>>
       THEN pc' = "looping" /\ UNCHANGED <<inbox, cached>>
       ELSE /\ cached' = IF Has(cached, Head(inbox))
                           THEN cached
                           ELSE Append(cached, Head(inbox))
            /\ inbox' = Tail(inbox)
            /\ UNCHANGED pc
  /\ UNCHANGED <<ctxVars, stream, wire, relayed, relayVars, setVars, tried>>

(* A stream whose context is done counts as failed, which is fatal in      *)
(* main; else the connection is closed with what is still under way.       *)
Leave ==
  /\ pc = "leaving"
  /\ pc' = IF ctx \/ stream = "done" THEN "exited" ELSE "returned"
  /\ stream' = "closed"
  /\ wire' = <<>>
  /\ UNCHANGED <<ctxVars, inbox, cached, relayed, relayVars, setVars, tried>>

(* -- The loop of main ----------------------------------------------------*)

CheckError ==
  /\ pc = "returned"
  /\ pc' = IF ctx THEN "exited" ELSE "checked"
  /\ UNCHANGED <<ctxVars, sessionVars, cached, relayed, relayVars, setVars,
                 tried>>

(* Fault: the context is renewed without a second look at it.              *)
CheckAgainNot ==
  /\ pc = "checked"
  /\ pc' = "renewing"
  /\ UNCHANGED <<ctxVars, sessionVars, cached, relayed, relayVars, setVars,
                 tried>>

CheckAgain ==
  /\ pc = "checked"
  /\ pc' = IF ctx THEN "sleeping" ELSE "renewing"
  /\ UNCHANGED <<ctxVars, sessionVars, cached, relayed, relayVars, setVars,
                 tried>>

(* ctx becomes a new context, that knows nothing of an earlier signal.     *)
Renew ==
  /\ pc = "renewing"
  /\ ctx' = FALSE
  /\ pc' = "sleeping"
  /\ UNCHANGED <<firstCtx, sessionVars, cached, relayed, relayVars, setVars,
                 tried>>

Wake ==
  /\ pc = "sleeping"
  /\ pc' = "calling"
  /\ UNCHANGED <<ctxVars, sessionVars, cached, relayed, relayVars, setVars,
                 tried>>

(* -- RelayCachedEvents ---------------------------------------------------*)

(* Without OpenTelemetry, or when SetupOTelSDK fails, the goroutine ends   *)
(* the process (see Server).                                               *)
RelayStart ==
  /\ relayPc = "start"
  /\ \/ otel /\ relayPc' = "idle" /\ UNCHANGED pc
     \/ pc' = "exited" /\ UNCHANGED relayPc
  /\ UNCHANGED <<ctxVars, sessionVars, cached, relayed, relayAt, relayEnd,
                 setVars, tried>>

(* The list it gets does not grow with the store's.                        *)
RelayTick ==
  /\ relayPc = "idle"
  /\ relayPc' = "scan"
  /\ relayAt' = 1
  /\ relayEnd' = Len(cached)
  /\ UNCHANGED <<pc, ctxVars, sessionVars, cached, relayed, setVars, tried>>

(* Fault: the last event of the list is left out.                          *)
RelayScanShort ==
  /\ relayPc = "scan"
  /\ IF relayAt >= relayEnd
       THEN relayPc' = "idle" /\ UNCHANGED relayAt
       ELSE IF relayAt \in relayed
              THEN relayAt' = relayAt + 1 /\ UNCHANGED relayPc
              ELSE relayPc' = "post" /\ UNCHANGED relayAt
  /\ UNCHANGED <<pc, ctxVars, sessionVars, cached, relayed, relayEnd, setVars,
                 tried>>

RelayScan ==
  /\ relayPc = "scan"
  /\ IF relayAt > relayEnd
       THEN relayPc' = "idle" /\ UNCHANGED relayAt
       ELSE IF relayAt \in relayed
              THEN relayAt' = relayAt + 1 /\ UNCHANGED relayPc
              ELSE relayPc' = "post" /\ UNCHANGED relayAt
  /\ UNCHANGED <<pc, ctxVars, sessionVars, cached, relayed, relayEnd, setVars,
                 tried>>

(* A failed post over HTTP goes on like a good one; neither a post nor a   *)
(* push has a time within which it returns.                                *)
RelayPost ==
  /\ relayPc = "post"
  /\ tried' = Append(tried, cached[relayAt])
  /\ relayPc' = "mark"
  /\ UNCHANGED <<pc, ctxVars, sessionVars, cached, relayed, relayAt, relayEnd,
                 setVars>>

(* A failed push over gRPC is fatal.                                       *)
RelayPushFails ==
  /\ relayPc = "post"
  /\ relay = "grpc"
  /\ pc' = "exited"
  /\ UNCHANGED <<ctxVars, sessionVars, cached, relayed, relayVars, setVars,
                 tried>>

(* Fault: the event before the one posted is marked.                       *)
RelayMarkBefore ==
  /\ relayPc = "mark"
  /\ relayed' = relayed \cup {relayAt - 1}
  /\ relayAt' = relayAt + 1
  /\ relayPc' = "scan"
  /\ UNCHANGED <<pc, ctxVars, sessionVars, cached, relayEnd, setVars, tried>>

RelayMark ==
  /\ relayPc = "mark"
  /\ relayed' = relayed \cup {relayAt}
  /\ relayAt' = relayAt + 1
  /\ relayPc' = "scan"
  /\ UNCHANGED <<pc, ctxVars, sessionVars, cached, relayEnd, setVars, tried>>

RelayStop ==
  /\ relayPc = "idle"
  /\ firstCtx
  /\ relayPc' = "off"
  /\ UNCHANGED <<pc, ctxVars, sessionVars, cached, relayed, relayAt, relayEnd,
                 setVars, tried>>

(* -- What happens to the client ------------------------------------------*)

(* Cancelling the context resets the stream: nothing more comes on it.     *)
ServerSends(m) ==
  /\ stream = "open"
  /\ ~ctx
  /\ Len(wire) < MaxWire
  /\ wire' = Append(wire, m)
  /\ UNCHANGED <<pc, ctxVars, stream, inbox, cached, relayed, relayVars,
                 setVars, tried>>

ServerEnds ==
  /\ stream = "open"
  /\ stream' = "ended"
  /\ UNCHANGED <<pc, ctxVars, wire, inbox, cached, relayed, relayVars, setVars,
                 tried>>

(* The connection breaks, with some of the last responses on it; or the    *)
(* server answers with an error, say for a repository it does not watch.   *)
StreamBreaks ==
  /\ stream \in {"open", "ended"}
  /\ stream' = "broken"
  /\ \E n \in 0 .. Len(wire) : wire' = SubSeq(wire, 1, n)
  /\ UNCHANGED <<pc, ctxVars, inbox, cached, relayed, relayVars, setVars,
                 tried>>

(* Every context made by signal.NotifyContext so far is cancelled.         *)
Signal ==
  /\ ctx' = TRUE
  /\ firstCtx' = TRUE
  /\ UNCHANGED <<pc, sessionVars, cached, relayed, relayVars, setVars, tried>>

-----------------------------------------------------------------------------

SessionStep ==
  \/ Fetch
  \/ FetchFails
  \/ NextRound
  \/ Select
  \/ Receive
  \/ ReceiveEnd
  \/ ReceiveFails
  \/ StoreReceived
  \/ Leave

LoopStep == CheckError \/ CheckAgain \/ Renew \/ Wake

RelayStep ==
  \/ RelayStart
  \/ RelayTick
  \/ RelayScan
  \/ RelayPost
  \/ RelayPushFails
  \/ RelayMark
  \/ RelayStop

Environment ==
  \/ \E m \in Messages : ServerSends(m)
  \/ ServerEnds
  \/ StreamBreaks
  \/ Signal

Exited == pc = "exited" /\ UNCHANGED vars

Next ==
  \/ pc # "exited" /\ (SessionStep \/ LoopStep \/ RelayStep \/ Environment)
  \/ Exited

Running(A) == pc # "exited" /\ A

(* Both goroutines of the client go on, but where they wait for somebody   *)
(* else: nothing obliges the server to send or to end a stream, a Recv     *)
(* without an answer has no deadline, and neither has a post or a push.    *)
Fairness ==
  /\ WF_vars(Running(SessionStep \/ LoopStep))
  /\ WF_vars(Running(relayPc # "post" /\ RelayStep))

Spec == Init /\ [][Next]_vars

FairSpec == Spec /\ Fairness

-----------------------------------------------------------------------------
(* Properties                                                              *)

Message == Seq(Ids)

(* Types: main and the relay goroutine are at points of their loops.       *)
TypeOK ==
  /\ pc \in {"calling", "looping", "waiting", "receiving", "storing",
             "leaving", "returned", "checked", "renewing", "sleeping",
             "exited"}
  /\ ctx \in BOOLEAN
  /\ firstCtx \in BOOLEAN
  /\ stream \in {"closed", "open", "ended", "broken", "done"}
  /\ wire \in Seq(Message)
  /\ inbox \in Message
  /\ cached \in Seq(Ids)
  /\ relayed \subseteq Places(cached)
  /\ relayPc \in {"off", "start", "idle", "scan", "post", "mark"}
  /\ relayAt \in Nat
  /\ relayEnd \in 0 .. Len(cached)
  /\ relay \in Relays
  /\ otel \in OTelSettings
  /\ tried \in Seq(Ids)

(* The client tries to post the deliveries in the order in which it has    *)
(* first received them, each once and none left out, however often the     *)
(* server sends one of them and in however many sessions.  It is no more   *)
(* than an attempt: a post that fails is not repeated.                     *)
RelayedAsReceived ==
  /\ \A j, k \in Places(cached) : cached[j] = cached[k] => j = k
  /\ Len(tried) <= Len(cached)
  /\ \A k \in Places(tried) : tried[k] = cached[k]

Queue == INSTANCE RelayQueue WITH received <- cached, posted <- tried

(* The store and the relay goroutine together are a queue from the server  *)
(* to the target.  The store only grows: the client starts no cleanup      *)
(* (cmd/client/main.go), and nothing else takes an event out of it.        *)
ImplementsRelayQueue == Queue!Spec

(* A signal that has come before main replaces its context, or after, is   *)
(* not forgotten in any later session, and no stream is opened after it.   *)
NoCallAfterSignal ==
  [][ctx /\ pc # "renewing" =>
       /\ ctx' /\ pc' # "renewing"
       /\ stream' = "open" => stream = "open"]_vars

(* What the client has cached it tries to post, until a signal has come or *)
(* the process is gone, or unless a post before it does not return: there  *)
(* is one relay goroutine, and the others wait behind that post.           *)
EventuallyTried ==
  \A i \in Ids :
    Has(cached, i) /\ relay # "off"
      ~> \/ Has(tried, i) \/ firstCtx \/ pc = "exited"
         \/ [](relayPc = "post")

(* An interrupt or SIGTERM ends the client wherever main is in its loop:   *)
(* in a session, in a Recv that gets no answer, asleep between two         *)
(* sessions.  Between the second look at ctx and the call that replaces it *)
(* a signal is lost to main (cmd/client/main.go:142-144), and that is the  *)
(* only place.                                                             *)
SignalEnds == ctx /\ pc # "renewing" ~> pc = "exited"
=============================================================================
