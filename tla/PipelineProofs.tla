--------------------------- MODULE PipelineProofs -----------------------------
(***************************************************************************)
(* What Pipeline promises for any number of deliveries, with any headers,  *)
(* and of streams: nothing accepted vanishes but by the faults named, what *)
(* is posted is whole, and the two processes implement Delivery.           *)
(***************************************************************************)
EXTENDS Pipeline, EventConversionProofs

-----------------------------------------------------------------------------
(* Headers and ids                                                         *)

(* Whatever its headers, and however it came to the server: the event that *)
(* the client makes of a delivery.                                         *)
LEMMA ClientEventIsWhole ==
  ASSUME NEW d
  PROVE  LET event == ClientEvent(d) IN
           /\ ~PostRefused(event)
           /\ event.named = {h \in FirstValues(Headers[d]) : h.value # Empty}
           /\ event.id = InternalEvent(Headers[d]).id
<1> DEFINE kept == {h \in FirstValues(Headers[d]) : h.value # Empty}
<1>1. {h \in InternalEvent(Headers[d]).named : h.value # Empty} = kept
  BY DEF InternalEvent
<1>2. {h \in ServerEvent(d).named : h.value # Empty} = kept
  <2>1. CASE d \in Pushed
    <3>1. Received(InternalEvent(Headers[d])).named = kept
      BY <1>1, ReceivedEvent
    <3> QED
      BY <2>1, <3>1 DEF ServerEvent
  <2>2. CASE d \notin Pushed
    BY <2>2, <1>1 DEF ServerEvent
  <2> QED
    BY <2>1, <2>2
<1>3. /\ ClientEvent(d).named = kept
      /\ ClientEvent(d).blank = 0
      /\ ClientEvent(d).id = InternalEvent(Headers[d]).id
  BY <1>2, ReceivedEvent DEF ClientEvent
<1> QED
  BY <1>3 DEF PostRefused

(* What the client posts is what was delivered, with its id and all of its *)
(* headers that have a value (the two conversions of webhook_event.go and  *)
(* InternalEvent of event_cache.go).                                       *)
THEOREM ArrivesWholeAlways == Spec => []ArrivesWhole
<1>1. ArrivesWhole
  BY ClientEventIsWhole DEF ArrivesWhole
<1> QED
  BY <1>1, PTL
-----------------------------------------------------------------------------
(* The invariant                                                           *)

(* What a stream is about to mark has been sent, and is with the client,   *)
(* has been posted by it, or was in the way of a fault since.              *)
SentIsKept ==
  \A s \in Streams :
    conn[s] = "sent" => batch[s] \subseteq wire \cup held \cup tried \cup touched

(* Nobody has in hand what nobody has sent.                                *)
KnownIsAccepted ==
  /\ cached \subseteq accepted
  /\ \A s \in Streams : batch[s] \subseteq accepted

IInv == TypeOK /\ SentIsKept /\ KnownIsAccepted /\ NothingVanishes

LEMMA InitInv == Init => IInv
<1> QED
  BY MaxPostsAssumption
     DEF Init, IInv, TypeOK, SentIsKept, KnownIsAccepted, NothingVanishes, Live

(* Types do not depend on the other two parts.                             *)
LEMMA TypeStep == TypeOK /\ [Next]_vars => TypeOK'
<1> USE DEF storeVars, streamVars, wireVars, clientVars
<1> SUFFICES ASSUME TypeOK, [Next]_vars
             PROVE  TypeOK'
  OBVIOUS
<1> USE DEF TypeOK
<1>1. ASSUME NEW d \in Deliveries, Accept(d) \/ AcceptInVain(d)
      PROVE  TypeOK'
  BY <1>1, MaxPostsAssumption DEF Accept, AcceptInVain
<1>2. CASE ServerStarts \/ ServerStops
  BY <1>2, StoresAssumption DEF ServerStarts, ServerStops
<1>3. CASE Cleanup \/ ReadRedis
  BY <1>3 DEF Cleanup, ReadRedis
<1>4. ASSUME NEW s \in Streams, Retrieve(s) \/ Send(s)
      PROVE  TypeOK'
  BY <1>4, NoStreamAssumption DEF Retrieve, Send
<1>5. ASSUME NEW s \in Streams, UpdateRelayStatus(s)
      PROVE  TypeOK'
  BY <1>5 DEF UpdateRelayStatus
<1>6. ASSUME NEW s \in Streams, StreamEnds(s) \/ Open(s)
      PROVE  TypeOK'
  BY <1>6 DEF StreamEnds, Open
<1>7. ASSUME NEW d \in Deliveries, StoreEvent(d) \/ RelayPost(d)
      PROVE  TypeOK'
  BY <1>7 DEF StoreEvent, RelayPost
<1>8. CASE ClientStarts \/ WindowOver \/ SessionFails \/ ClientStops
  BY <1>8 DEF ClientStarts, WindowOver, SessionFails, ClientStops
<1>9. CASE UNCHANGED vars
  BY <1>9 DEF vars
<1> QED
  BY <1>1, <1>2, <1>3, <1>4, <1>5, <1>6, <1>7, <1>8, <1>9
     DEF Next, ServerStep, ClientStep, StreamStep

(* Nothing that a stream has sent leaves wire and held untouched.          *)
LEMMA SentIsKeptStep == TypeOK /\ SentIsKept /\ [Next]_vars => SentIsKept'
<1> USE DEF storeVars, streamVars, wireVars, clientVars
<1> SUFFICES ASSUME TypeOK, SentIsKept, [Next]_vars
             PROVE  SentIsKept'
  OBVIOUS
<1> USE DEF SentIsKept
<1>1. ASSUME NEW d \in Deliveries, Accept(d) \/ AcceptInVain(d)
      PROVE  SentIsKept'
  BY <1>1 DEF Accept, AcceptInVain
<1>2. CASE ServerStarts \/ ServerStops
  BY <1>2 DEF ServerStarts, ServerStops
<1>3. CASE Cleanup \/ ReadRedis
  BY <1>3 DEF Cleanup, ReadRedis
<1>4. ASSUME NEW s \in Streams, Retrieve(s) \/ Open(s) \/ StreamEnds(s)
      PROVE  SentIsKept'
  BY <1>4 DEF Retrieve, Open, StreamEnds, TypeOK
<1>5. ASSUME NEW s \in Streams, Send(s)
      PROVE  SentIsKept'
  BY <1>5 DEF Send, TypeOK
<1>6. ASSUME NEW s \in Streams, UpdateRelayStatus(s)
      PROVE  SentIsKept'
  BY <1>6 DEF UpdateRelayStatus, TypeOK
<1>7. ASSUME NEW d \in Deliveries, StoreEvent(d)
      PROVE  SentIsKept'
  <2>1. d \notin held' => d \in touched'
    BY <1>7 DEF StoreEvent, SameClientId
  <2>2. wire \cup held \cup tried \cup touched
          \subseteq (wire \cup held \cup tried \cup touched)'
    BY <1>7, <2>1 DEF StoreEvent
  <2> QED
    BY <1>7, <2>2 DEF StoreEvent
<1>8. ASSUME NEW d \in Deliveries, RelayPost(d)
      PROVE  SentIsKept'
  BY <1>8 DEF RelayPost
<1>9. CASE ClientStarts \/ WindowOver \/ SessionFails \/ ClientStops
  BY <1>9 DEF ClientStarts, WindowOver, SessionFails, ClientStops
<1>10. CASE UNCHANGED vars
  BY <1>10 DEF vars
<1> QED
  BY <1>1, <1>2, <1>3, <1>4, <1>5, <1>6, <1>7, <1>8, <1>9, <1>10
     DEF Next, ServerStep, ClientStep, StreamStep

-----------------------------------------------------------------------------
(* Faults and answers                                                      *)

(* All steps but those in which a sender gets its answer or a post is      *)
(* tried leave accepted and tried alone; what they take from the places    *)
(* where deliveries wait they touch, and what they put back was touched.   *)
Disturbed ==
  /\ UNCHANGED <<accepted, tried>>
  /\ touched \subseteq touched' /\ touched' \subseteq accepted
  /\ Live' \subseteq Live \cup tried \cup touched'
  /\ Live \subseteq Live' \cup tried \cup touched'
  /\ KnownIsAccepted'

(* The steps of the server's goroutines and of the client are of this kind.*)
LEMMA StepsDisturb ==
  ASSUME IInv,
         \/ ServerStarts \/ ServerStops \/ Cleanup \/ ReadRedis
         \/ \E s \in Streams : StreamStep(s) \/ Open(s)
         \/ \E d \in Deliveries : StoreEvent(d)
         \/ ClientStarts \/ WindowOver \/ SessionFails \/ ClientStops
  PROVE  Disturbed
<1> USE DEF storeVars, streamVars, wireVars, clientVars, IInv, NothingVanishes,
            KnownIsAccepted, Live, Disturbed
<1>1. CASE ServerStarts
  BY <1>1 DEF ServerStarts
<1>2. CASE ServerStops
  BY <1>2 DEF ServerStops
<1>3. CASE Cleanup \/ ReadRedis
  BY <1>3 DEF Cleanup, ReadRedis
<1>4. ASSUME NEW s \in Streams, Retrieve(s)
      PROVE  Disturbed
  BY <1>4 DEF Retrieve, TypeOK
<1>5. ASSUME NEW s \in Streams, Send(s)
      PROVE  Disturbed
  BY <1>5 DEF Send
<1>6. ASSUME NEW s \in Streams, UpdateRelayStatus(s)
      PROVE  Disturbed
  <2>1. marked' \ marked \subseteq batch[s] \cup touched'
    BY <1>6 DEF UpdateRelayStatus
  <2>2. batch[s] \subseteq wire \cup held \cup tried \cup touched
    BY <1>6 DEF UpdateRelayStatus, SentIsKept
  <2>3. touched \subseteq touched' /\ redis \subseteq redis' \cup touched'
    BY <1>6 DEF UpdateRelayStatus
  <2>4. touched' \subseteq accepted
    BY <1>6 DEF UpdateRelayStatus
  <2>5. KnownIsAccepted'
    BY <1>6 DEF UpdateRelayStatus, TypeOK
  <2>6. /\ UNCHANGED <<accepted, tried, cached, wire, held>>
        /\ marked \subseteq marked' /\ redis' \subseteq redis
    BY <1>6 DEF UpdateRelayStatus
  <2>7. Live \subseteq Live' \cup tried \cup touched'
    BY <2>1, <2>2, <2>3, <2>6
  <2>8. Live' \subseteq Live
    BY <2>6
  <2> QED
    BY <2>3, <2>4, <2>5, <2>6, <2>7, <2>8
<1>7. ASSUME NEW s \in Streams, StreamEnds(s) \/ Open(s)
      PROVE  Disturbed
  BY <1>7 DEF StreamEnds, Open, TypeOK
<1>8. ASSUME NEW d \in Deliveries, StoreEvent(d)
      PROVE  Disturbed
  <2>1. d \notin held' => d \in touched'
    BY <1>8 DEF StoreEvent, SameClientId
  <2> QED
    BY <1>8, <2>1 DEF StoreEvent
<1>9. CASE ClientStarts \/ WindowOver \/ SessionFails \/ ClientStops
  BY <1>9 DEF ClientStarts, WindowOver, SessionFails, ClientStops
<1> QED
  BY <1>1, <1>2, <1>3, <1>4, <1>5, <1>6, <1>7, <1>8, <1>9 DEF StreamStep

(* An answer adds a delivery that is stored, or that is touched.           *)
LEMMA AnswerKeeps ==
  ASSUME IInv, NEW d \in Deliveries, Accept(d) \/ AcceptInVain(d)
  PROVE  /\ UNCHANGED tried
         /\ accepted' = accepted \cup {d}
         /\ KnownIsAccepted'
         /\ NothingVanishes'
         /\ \/ Live' = Live \cup {d} /\ UNCHANGED touched
            \/ Live' = Live /\ touched' = touched \cup {d}
            \/ Live' = Live /\ UNCHANGED touched /\ d \in accepted
<1> USE DEF storeVars, streamVars, wireVars, clientVars, IInv, NothingVanishes,
            KnownIsAccepted, Live, TypeOK
<1>1. CASE AcceptInVain(d)
  BY <1>1 DEF AcceptInVain
<1>2. CASE Accept(d) /\ server = "redis"
  BY <1>2 DEF Accept
<1>3. CASE Accept(d) /\ server # "redis"
  <2>1. CASE SameId(d, cached) = {}
    <3>1. SameId(d, cached \ {d}) = {} /\ d \notin cached
      BY <2>1 DEF SameId
    <3>2. cached' = cached \cup {d} /\ touched' = touched
      BY <1>3, <2>1, <3>1 DEF Accept
    <3>3. /\ UNCHANGED <<marked, redis, wire, held, tried, batch>>
          /\ accepted' = accepted \cup {d}
      BY <1>3 DEF Accept
    <3>4. Live' = Live \cup {d}
      BY <3>1, <3>2, <3>3
    <3> QED
      BY <3>2, <3>3, <3>4
  <2>2. CASE SameId(d, cached) # {}
    <3>1. cached' = cached
      BY <1>3, <2>2 DEF Accept
    <3>2. /\ UNCHANGED <<marked, redis, wire, held, tried, batch>>
          /\ accepted' = accepted \cup {d}
          /\ touched' = IF SameId(d, cached \ {d}) = {} THEN touched
                                                        ELSE touched \cup {d}
      BY <1>3 DEF Accept
    <3>3. SameId(d, cached \ {d}) = {} => d \in cached
      BY <2>2 DEF SameId
    <3>4. Live' = Live
      BY <3>1, <3>2
    <3> QED
      BY <3>1, <3>2, <3>3, <3>4
  <2> QED
    BY <2>1, <2>2
<1> QED
  BY <1>1, <1>2, <1>3

LEMMA PostKeeps ==
  ASSUME IInv, NEW d \in Deliveries, RelayPost(d)
  PROVE  /\ KnownIsAccepted' /\ NothingVanishes'
         /\ d \in Live \ tried /\ tried' = tried \cup {d}
         /\ Live' = Live /\ UNCHANGED <<accepted, touched>>
<1> QED
  BY DEF RelayPost, IInv, NothingVanishes, KnownIsAccepted, Live, storeVars,
         streamVars, wireVars, clientVars

LEMMA StutterKeeps ==
  ASSUME IInv, UNCHANGED vars
  PROVE  /\ KnownIsAccepted' /\ NothingVanishes'
         /\ Live' = Live /\ UNCHANGED <<accepted, tried, touched>>
<1> QED
  BY DEF vars, IInv, NothingVanishes, KnownIsAccepted, Live, storeVars,
         streamVars, wireVars, clientVars

LEMMA DisturbedKeeps ==
  ASSUME IInv, Disturbed
  PROVE  KnownIsAccepted' /\ NothingVanishes'
<1>1. Live' \subseteq accepted
  BY DEF Disturbed, IInv, NothingVanishes
<1>2. accepted \subseteq Live' \cup tried \cup touched'
  BY DEF Disturbed, IInv, NothingVanishes
<1>3. tried \subseteq accepted
  BY DEF IInv, NothingVanishes
<1> QED
  BY <1>1, <1>2, <1>3 DEF Disturbed, NothingVanishes

LEMMA StepInv == IInv /\ [Next]_vars => IInv'
<1> SUFFICES ASSUME IInv, [Next]_vars
             PROVE  IInv'
  OBVIOUS
<1>1. TypeOK' /\ SentIsKept'
  BY TypeStep, SentIsKeptStep DEF IInv
<1>2. KnownIsAccepted' /\ NothingVanishes'
  <2>1. ASSUME NEW d \in Deliveries, Accept(d) \/ AcceptInVain(d)
        PROVE  KnownIsAccepted' /\ NothingVanishes'
    BY <2>1, AnswerKeeps
  <2>2. ASSUME NEW d \in Deliveries, RelayPost(d)
        PROVE  KnownIsAccepted' /\ NothingVanishes'
    BY <2>2, PostKeeps
  <2>3. CASE UNCHANGED vars
    BY <2>3, StutterKeeps
  <2>4. CASE Disturbed
    BY <2>4, DisturbedKeeps
  <2> QED
    BY <2>1, <2>2, <2>3, <2>4, StepsDisturb DEF Next, ServerStep, ClientStep
<1> QED
  BY <1>1, <1>2 DEF IInv

THEOREM Invariance == Spec => []IInv
<1> QED
  BY InitInv, StepInv, PTL DEF Spec

(* Every variable of the pipeline keeps its type.                          *)
THEOREM TypeCorrect == Spec => []TypeOK
<1>1. IInv => TypeOK
  BY DEF IInv
<1> QED
  BY <1>1, Invariance, PTL

(* However streams, sessions, restarts, the cleanup and both stores        *)
(* overlap, a delivery that was accepted waits, has been tried, or was in  *)
(* the way of one of the faults named.                                     *)
THEOREM NothingVanishesEver == Spec => []NothingVanishes
<1>1. IInv => NothingVanishes
  BY DEF IInv
<1> QED
  BY <1>1, Invariance, PTL

-----------------------------------------------------------------------------
(* The promise of Delivery                                                 *)

LEMMA InitMaps == Init => Promise!Init
<1> QED
  BY DEF Init, Promise!Init, Live

LEMMA StepMaps ==
  ASSUME IInv, [Next]_vars
  PROVE  [Promise!Next]_(Promise!vars)
<1> DEFINE pending == Live \ tried
<1>1. ASSUME NEW d \in Deliveries, Accept(d) \/ AcceptInVain(d)
      PROVE  [Promise!Next]_(Promise!vars)
  <2>1. UNCHANGED tried /\ accepted' = accepted \cup {d}
    BY <1>1, AnswerKeeps
  <2>2. CASE Live' = Live \cup {d} /\ UNCHANGED touched
    <3>1. pending' = pending \cup ({d} \ tried)
      BY <2>1, <2>2
    <3>2. Promise!Accept(d)
      BY <2>1, <2>2, <3>1 DEF Promise!Accept
    <3> QED
      BY <3>2 DEF Promise!Next
  <2>3. CASE Live' = Live /\ touched' = touched \cup {d}
    <3>1. Promise!Misplace(d)
      BY <2>1, <2>3 DEF Promise!Misplace
    <3> QED
      BY <3>1 DEF Promise!Next
  <2>4. CASE Live' = Live /\ UNCHANGED touched /\ d \in accepted
    <3>1. accepted' = accepted /\ pending' = pending
      BY <2>1, <2>4
    <3> QED
      BY <2>1, <2>4, <3>1 DEF Promise!vars
  <2> QED
    BY <1>1, <2>2, <2>3, <2>4, AnswerKeeps
<1>2. ASSUME NEW d \in Deliveries, RelayPost(d)
      PROVE  [Promise!Next]_(Promise!vars)
  <2>1. /\ d \in pending
        /\ tried' = tried \cup {d}
        /\ pending' = pending \ {d}
        /\ UNCHANGED <<accepted, touched>>
    BY <1>2, PostKeeps
  <2>2. Promise!Try({d})
    BY <2>1 DEF Promise!Try
  <2>3. {d} \in SUBSET pending
    BY <2>1
  <2> QED
    BY <2>2, <2>3 DEF Promise!Next
<1>3. CASE UNCHANGED vars
  BY <1>3, StutterKeeps DEF Promise!vars
<1>4. CASE Disturbed
  <2> DEFINE S == touched' \ touched
  <2>1. S \in SUBSET accepted /\ touched' = touched \cup S
    BY <1>4 DEF Disturbed
  <2>2. pending' \in SUBSET ((pending \cup touched') \ tried)
    BY <1>4 DEF Disturbed
  <2>3. pending \ pending' \subseteq touched'
    BY <1>4 DEF Disturbed
  <2>4. Promise!Disturb(S)
    BY <1>4, <2>1, <2>2, <2>3 DEF Promise!Disturb, Disturbed
  <2> QED
    BY <2>1, <2>4 DEF Promise!Next
<1> QED
  BY <1>1, <1>2, <1>3, <1>4, StepsDisturb DEF Next, ServerStep, ClientStep

(* The relay server, the connection, the client and their restarts         *)
(* implement the promise: what is accepted waits for its post, and only    *)
(* what a fault has touched stops waiting or comes back.                   *)
THEOREM PipelineImplementsDelivery == Spec => ImplementsDelivery
<1>1. IInv /\ [Next]_vars => [Promise!Next]_(Promise!vars)
  BY StepMaps
<1> QED
  BY <1>1, InitMaps, Invariance, PTL DEF Spec, ImplementsDelivery, Promise!Spec
=============================================================================
