------------------------------- MODULE Pipeline -------------------------------
(***************************************************************************)
(* The way of a delivery from GitHub, or from another server that pushes   *)
(* it, over the relay server and a stream into the client and to a post at *)
(* the client's target, for one watched repository: the processes and the  *)
(* connection between them, all of which can fail and come back.           *)
(*                                                                         *)
(* A delivery is what its sender posts, whatever headers it has: two of    *)
(* them may come to the same id.  The steps are those at which something   *)
(* leaves or reaches a place.  What happens inside them is in Server and   *)
(* Client, with whom this module shares the code: here the server's own    *)
(* relay is off, the client's is on and OpenTelemetry is enabled.          *)
(***************************************************************************)
EXTENDS EventConversion

CONSTANTS
  Deliveries,  (* what is posted or pushed to the server                   *)
  Headers,     (* the headers of each delivery                             *)
  Pushed,      (* those that come by WebhookEventPush, already converted   *)
  Streams,     (* calls of FetchWebhookEvents at a time                    *)
  NoStream,    (* no stream                                                *)
  Stores,      (* event stores the server may start with                   *)
  MaxPosts     (* bound: posts and pushes to the server                    *)

ASSUME NoStreamAssumption == NoStream \notin Streams
ASSUME StoresAssumption == Stores \subseteq {"memory", "redis"}
ASSUME MaxPostsAssumption == MaxPosts \in Nat
ASSUME HeadersAssumption ==
  \A d \in Deliveries : IsFiniteSet(DOMAIN Headers[d])

VARIABLES
  server,    (* "down", or the store of the server that runs               *)
  cached,    (* deliveries in its memory store                             *)
  marked,    (* those of them with IsRelayed set                           *)
  redis,     (* deliveries in Redis, which outlives the server             *)
  conn,      (* conn[s]: where the goroutine of stream s is                *)
  batch,     (* batch[s]: what its round has retrieved                     *)
  session,   (* the stream that the client reads, or NoStream              *)
  wire,      (* events sent on it that the client has not stored           *)
  client,    (* where the client is                                        *)
  held,      (* deliveries in the client's store                           *)
  posts,     (* how often something was posted or pushed (for the bound)    *)
  accepted,  (* history: deliveries whose sender was told so               *)
  tried,     (* history: deliveries that the client has tried to post      *)
  touched    (* history: deliveries that were in the way of a fault        *)

storeVars == <<cached, marked, redis>>
streamVars == <<conn, batch>>
wireVars == <<session, wire>>
clientVars == <<client, held>>

vars == <<server, storeVars, streamVars, wireVars, clientVars, posts,
          accepted, tried, touched>>

(* What the server stores: the pushed ones have been on a server before.   *)
ServerEvent(d) ==
  IF d \in Pushed
    THEN Received(InternalEvent(Headers[d]))
    ELSE InternalEvent(Headers[d])

ClientEvent(d) == Received(ServerEvent(d))

(* The deliveries of S that go by the id of d.                             *)
SameId(d, S) == {e \in S : ServerEvent(e).id = ServerEvent(d).id}

SameClientId(d, S) == {e \in S : ClientEvent(e).id = ClientEvent(d).id}

(* Every place where a delivery waits for the next.                        *)
Live == (cached \ marked) \cup redis \cup wire \cup held

-----------------------------------------------------------------------------

Init ==
  /\ server = "down"
  /\ cached = {} /\ marked = {} /\ redis = {}
  /\ conn = [s \in Streams |-> "closed"]
  /\ batch = [s \in Streams |-> {}]
  /\ session = NoStream /\ wire = {}
  /\ client = "down"
  /\ held = {}
  /\ posts = 0
  /\ accepted = {} /\ tried = {} /\ touched = {}

(* -- The server and its store --------------------------------------------*)

(* initializeStore takes Redis when it answers to the ping.                *)
ServerStarts ==
  /\ server = "down"
  /\ server' \in Stores
  /\ UNCHANGED <<storeVars, streamVars, wireVars, clientVars, posts, accepted,
                 tried, touched>>

(* The process ends, asked to or not.  What its streams have sent may      *)
(* still be read.                                                          *)
ServerStops ==
  /\ server # "down"
  /\ server' = "down"
  /\ touched' = touched \cup (cached \ marked)
  /\ cached' = {} /\ marked' = {}
  /\ conn' = [s \in Streams |-> "closed"]
  /\ batch' = [s \in Streams |-> {}]
  /\ UNCHANGED <<redis, wireVars, clientVars, posts, accepted, tried>>

(* HandleGitHubPost or WebhookEventPush.  Both say yes when the id is      *)
(* cached already, be it for another delivery.                             *)
Accept(d) ==
  /\ server # "down"
  /\ posts < MaxPosts
  /\ posts' = posts + 1
  /\ accepted' = accepted \cup {d}
  /\ IF server = "redis"
       THEN redis' = redis \cup {d} /\ UNCHANGED <<cached, touched>>
       ELSE /\ cached' = IF SameId(d, cached) = {} THEN cached \cup {d}
                                                   ELSE cached
            /\ touched' = IF SameId(d, cached \ {d}) = {} THEN touched
                                                          ELSE touched \cup {d}
            /\ UNCHANGED redis
  /\ UNCHANGED <<server, marked, streamVars, wireVars, clientVars, tried>>

(* Redis does not take it, and the sender is told that all is well.        *)
AcceptInVain(d) ==
  /\ server = "redis"
  /\ posts < MaxPosts
  /\ posts' = posts + 1
  /\ accepted' = accepted \cup {d}
  /\ touched' = touched \cup {d}
  /\ UNCHANGED <<server, storeVars, streamVars, wireVars, clientVars, tried>>

(* Fault: the cleanup takes what is not relayed.                           *)
CleanupAny ==
  /\ server # "down"
  /\ \E d \in cached : cached' = cached \ {d} /\ marked' = marked \ {d}
  /\ UNCHANGED <<server, redis, streamVars, wireVars, clientVars, posts,
                 accepted, tried, touched>>

Cleanup ==
  /\ server # "down"
  /\ \E d \in marked : cached' = cached \ {d} /\ marked' = marked \ {d}
  /\ UNCHANGED <<server, redis, streamVars, wireVars, clientVars, posts,
                 accepted, tried, touched>>

(* Whoever asks Redis for the events pops them and gets none: the cleanup, *)
(* the list of events over HTTP, and the streams below.                    *)
ReadRedis ==
  /\ server = "redis"
  /\ redis' = {}
  /\ touched' = touched \cup redis
  /\ UNCHANGED <<server, cached, marked, streamVars, wireVars, clientVars,
                 posts, accepted, tried>>

(* -- FetchWebhookEvents --------------------------------------------------*)

Open(s) ==
  /\ server # "down"
  /\ client = "calling"
  /\ conn[s] = "closed"
  /\ conn' = [conn EXCEPT ![s] = "waiting"]
  /\ session' = s
  /\ client' = "reading"
  /\ UNCHANGED <<server, storeVars, batch, wire, held, posts, accepted, tried,
                 touched>>

(* Fault: events are marked when they are retrieved.                       *)
RetrieveMarks(s) ==
  /\ conn[s] = "waiting"
  /\ conn' = [conn EXCEPT ![s] = "retrieved"]
  /\ batch' = [batch EXCEPT ![s] = cached \ marked]
  /\ marked' = cached
  /\ redis' = IF server = "redis" THEN {} ELSE redis
  /\ touched' = IF server = "redis" THEN touched \cup redis ELSE touched
  /\ UNCHANGED <<server, cached, wireVars, clientVars, posts, accepted,
                 tried>>

Retrieve(s) ==
  /\ conn[s] = "waiting"
  /\ conn' = [conn EXCEPT ![s] = "retrieved"]
  /\ batch' = [batch EXCEPT ![s] = cached \ marked]
  /\ redis' = IF server = "redis" THEN {} ELSE redis
  /\ touched' = IF server = "redis" THEN touched \cup redis ELSE touched
  /\ UNCHANGED <<server, cached, marked, wireVars, clientVars, posts,
                 accepted, tried>>

(* Send succeeds, also into a connection that nobody reads any more.       *)
Send(s) ==
  /\ conn[s] = "retrieved"
  /\ conn' = [conn EXCEPT ![s] = "sent"]
  /\ IF s = session
       THEN wire' = wire \cup batch[s] /\ UNCHANGED touched
       ELSE touched' = touched \cup batch[s] /\ UNCHANGED wire
  /\ UNCHANGED <<server, storeVars, batch, session, clientVars, posts,
                 accepted, tried>>

(* updateRelayStatus marks by id, in a list retrieved a second time.       *)
UpdateRelayStatus(s) ==
  LET known == {d \in cached : SameId(d, batch[s]) # {}} IN
    /\ conn[s] = "sent"
    /\ conn' = [conn EXCEPT ![s] = "waiting"]
    /\ batch' = [batch EXCEPT ![s] = {}]
    /\ marked' = marked \cup known
    /\ redis' = IF server = "redis" THEN {} ELSE redis
    /\ touched' = touched \cup (known \ batch[s])
                    \cup (IF server = "redis" THEN redis ELSE {})
    /\ UNCHANGED <<server, cached, wireVars, clientVars, posts, accepted,
                   tried>>

(* The window is over, or the goroutine sees that the client has left, or  *)
(* Send returns the error.                                                 *)
StreamEnds(s) ==
  /\ conn[s] = "waiting" \/ (conn[s] = "retrieved" /\ s # session)
  /\ conn' = [conn EXCEPT ![s] = "closed"]
  /\ batch' = [batch EXCEPT ![s] = {}]
  /\ UNCHANGED <<server, storeVars, wireVars, clientVars, posts, accepted,
                 tried, touched>>

(* -- The client ----------------------------------------------------------*)

ClientStarts ==
  /\ client = "down"
  /\ client' = "calling"
  /\ UNCHANGED <<server, storeVars, streamVars, wireVars, held, posts,
                 accepted, tried, touched>>

(* Fault: what is stored is looked up by its repository only.              *)
StoreEventFirst(d) ==
  /\ d \in wire
  /\ wire' = wire \ {d}
  /\ held' = IF held = {} THEN {d} ELSE held
  /\ UNCHANGED <<server, storeVars, streamVars, session, client, posts,
                 accepted, tried, touched>>

(* Recv and cache.Event for the next event: the client's store goes by the *)
(* id too.  In which order events come is left open.                       *)
StoreEvent(d) ==
  /\ d \in wire
  /\ wire' = wire \ {d}
  /\ held' = IF SameClientId(d, held) = {} THEN held \cup {d} ELSE held
  /\ touched' = IF SameClientId(d, held \ {d}) = {} THEN touched
                                                    ELSE touched \cup {d}
  /\ UNCHANGED <<server, storeVars, streamVars, session, client, posts,
                 accepted, tried>>

(* Fault: the connection is not closed.                                    *)
WindowOverLeavesOpen ==
  /\ client = "reading"
  /\ client' = "calling"
  /\ UNCHANGED <<server, storeVars, streamVars, wireVars, held, posts,
                 accepted, tried, touched>>

(* The client leaves its loop and closes the connection, read out or not.  *)
WindowOver ==
  /\ client = "reading"
  /\ client' = "calling"
  /\ touched' = touched \cup wire
  /\ session' = NoStream
  /\ wire' = {}
  /\ UNCHANGED <<server, storeVars, streamVars, held, posts, accepted, tried>>

(* The process ends for reasons of its own.                                *)
ClientStops ==
  /\ client # "down"
  /\ client' = "down"
  /\ touched' = touched \cup wire \cup (held \ tried)
  /\ session' = NoStream
  /\ wire' = {}
  /\ held' = {}
  /\ UNCHANGED <<server, storeVars, streamVars, posts, accepted, tried>>

(* main takes an error of the call or of Recv for fatal, and the regular   *)
(* end of a stream too.                                                    *)
SessionFails ==
  /\ \/ client = "calling" /\ server = "down"
     \/ client = "reading" /\ conn[session] = "closed"
  /\ ClientStops

(* HTTPRelay.  A post is tried once for each time that the client stores   *)
(* the delivery (see Client); the first of them is what counts here.       *)
RelayPost(d) ==
  /\ d \in held \ tried
  /\ tried' = tried \cup {d}
  /\ UNCHANGED <<server, storeVars, streamVars, wireVars, clientVars, posts,
                 accepted, touched>>

-----------------------------------------------------------------------------

StreamStep(s) ==
  Retrieve(s) \/ Send(s) \/ UpdateRelayStatus(s) \/ StreamEnds(s)

ServerStep ==
  \/ ServerStarts
  \/ ServerStops
  \/ \E d \in Deliveries : Accept(d) \/ AcceptInVain(d)
  \/ Cleanup
  \/ ReadRedis
  \/ \E s \in Streams : StreamStep(s)

ClientStep ==
  \/ ClientStarts
  \/ \E s \in Streams : Open(s)
  \/ \E d \in Deliveries : StoreEvent(d) \/ RelayPost(d)
  \/ WindowOver
  \/ SessionFails
  \/ ClientStops

Next == ServerStep \/ ClientStep

(* Both processes are started again when they have ended (the charts run   *)
(* them as deployments), a stream and a session end with their windows, and *)
(* the client comes to each event of a response.  Not every session ends   *)
(* before its first round, and not every process before its next step.     *)
(* Nothing obliges a post to return, and so none to be tried: the posts    *)
(* are made one after the other and have no timeout (see Client).          *)
Fairness ==
  /\ WF_vars(ClientStarts)
  /\ \A s \in Streams : WF_vars(StreamEnds(s) \/ UpdateRelayStatus(s))
  /\ WF_vars(WindowOver \/ SessionFails)
  /\ SF_vars(\E s \in Streams : Open(s))
  /\ SF_vars(\E s \in Streams : s = session /\ Retrieve(s))
  /\ SF_vars(\E s \in Streams : s = session /\ Send(s))
  /\ \A d \in Deliveries : WF_vars(StoreEvent(d))

Spec == Init /\ [][Next]_vars

FairSpec == Spec /\ Fairness

-----------------------------------------------------------------------------
(* Properties                                                              *)

(* Types: what is marked is in the store it is marked in, and a client     *)
(* that is not in a session has closed the connection of the last one.     *)
TypeOK ==
  /\ server \in {"down", "memory", "redis"}
  /\ cached \subseteq Deliveries
  /\ marked \subseteq cached
  /\ redis \subseteq Deliveries
  /\ conn \in [Streams -> {"closed", "waiting", "retrieved", "sent"}]
  /\ batch \in [Streams -> SUBSET Deliveries]
  /\ session \in Streams \cup {NoStream}
  /\ wire \subseteq Deliveries
  /\ client \in {"down", "calling", "reading"}
  /\ client # "reading" => session = NoStream /\ wire = {}
  /\ held \subseteq Deliveries
  /\ posts \in 0 .. MaxPosts
  /\ accepted \subseteq Deliveries
  /\ tried \subseteq Deliveries
  /\ touched \subseteq Deliveries

(* A delivery that was accepted waits somewhere until its post has been    *)
(* tried, unless it was in the way of one of these: the server ends with   *)
(* it in memory, something asks Redis for it or Redis fails to take it,    *)
(* the client ends with it, leaves a session before it has read it or has  *)
(* left when it is sent, or another delivery goes by its id.  No order of  *)
(* the steps of the streams, the cleanup and the client loses any other,   *)
(* nor is anything anywhere that nobody has sent.                          *)
NothingVanishes == accepted = Live \cup tried \cup touched

(* What the client posts is what was delivered: under the same id, with    *)
(* the first values of all its headers that have one, and without the      *)
(* blank ones that the server makes, for which the post would be refused.  *)
ArrivesWhole ==
  \A d \in tried :
    LET event == ClientEvent(d) IN
      /\ ~PostRefused(event)
      /\ event.named = {h \in FirstValues(Headers[d]) : h.value # Empty}
      /\ event.id = InternalEvent(Headers[d]).id

Promise == INSTANCE Delivery WITH pending <- Live \ tried

(* The two processes and what is between them keep the promise of          *)
(* Delivery, whichever of them ends and comes back.                        *)
ImplementsDelivery == Promise!Spec

(* What the server has cached in memory reaches the store of the client,   *)
(* if no fault hits it, over however many sessions and restarts.  From     *)
(* there to its post it may have to wait for ever: see EventuallyTried of  *)
(* Client.                                                                 *)
EventuallyReceived ==
  \A d \in Deliveries : d \in cached ~> d \in held \cup tried \cup touched
=============================================================================
