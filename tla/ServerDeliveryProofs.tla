------------------------ MODULE ServerDeliveryProofs --------------------------
(***************************************************************************)
(* To whom the server hands what it has accepted, for any repositories,    *)
(* deliveries, streams and flags: it implements Delivery, what nobody      *)
(* watches it hands to nobody, and what it pushes over gRPC is marked only *)
(* when it has arrived.                                                    *)
(*                                                                         *)
(* Five more parts of the invariant are needed.  Streams and relay         *)
(* goroutines go on with lists they took from the cache while the cleanup  *)
(* empties it: HandInv says that what they have in hand was not taken away *)
(* from them unhandled, because whatever leaves the cache is relayed.      *)
(***************************************************************************)
EXTENDS ServerProofs

(* What a goroutine has in hand is cached, or has been relayed since by    *)
(* another one; and it is of a repository that is watched.                 *)
HandInv ==
  /\ \A s \in Streams : \A e \in batch[s] :
       e \in cached \cup relayed /\ e.repo \in Watched
  /\ \A n \in Entries : \A e \in relayTodo[n] :
       e \in cached \cup relayed /\ e.repo \in Watched

(* What was handed out is of a repository that is watched.                 *)
WatchedInv == \A k \in sent \cup attempted : k[1] \in Watched

(* But over HTTP, a post that failed has no consequence.                   *)
PushInv == relay # "http" => attempted \subseteq posted

(* What a relay goroutine has tried is marked by the time it goes on: only *)
(* the event it has just posted may not be.                                *)
OnceInv(n) ==
  /\ \A e \in attemptedBy[n] :
       \/ e \in relayed
       \/ relayPc[n] = "mark" /\ IsFirst(e, relayTodo[n])
  /\ relayPc[n] = "post" =>
       \A e \in relayTodo[n] : IsFirst(e, relayTodo[n]) => e \notin attemptedBy[n]

(* A relay goroutine runs only with the relay on.                          *)
OffInv == relay = "off" => \A n \in Entries : relayPc[n] = "off"

AllInv ==
  /\ IInv
  /\ HandInv
  /\ WatchedInv
  /\ PushInv
  /\ \A n \in Entries : OnceInv(n)
  /\ OffInv

USE DEF Stamps, Event

-----------------------------------------------------------------------------
(* What any step may change                                                *)

(* An event that has been in the cache is there or is relayed: only the    *)
(* cleanup removes events, and only relayed ones.                          *)
LEMMA KnownStay ==
  ASSUME IInv, [Next]_vars
  PROVE  /\ cached \cup relayed \subseteq cached' \cup relayed'
         /\ relayed \subseteq relayed'
  <1>1. relayed \subseteq relayed'
    BY DEF Next, Environment, StreamStep, RelayStep, CleanupStep, MainStep,
           Exited, HandleGitHubPost, WebhookEventPush, StoreNew,
           FetchWebhookEvents, Retrieve, RetrieveRefused, SendEvents,
           SendFails, BeginUpdate, SetIsRelayed, SetTimeRelayed, NextRound,
           WindowOver, ClientLeaves, StreamInterrupted, RelayStart, RelayTick,
           RelayScan, RelayDone, RelayPost, RelayPostFails, RelayMark,
           RelayStop, CleanupStart, CleanupTick, CleanupRepo, CleanupRepoDone,
           CleanupDone, CleanupReadTime, CleanupCheck, CleanupStop, Tick,
           Signal, StopHTTP, ShutdownTimeout, Exit, storeVars, vars
  <1>2. \A e \in cached : e \in cached' \/ e \in relayed
    BY RemovedIsRelayed
  <1>3. QED
    BY <1>1, <1>2

(* What a step of anybody does to the lists in hand, and to the history of *)
(* what was handed out: batches are made of the events of a watched        *)
(* repository and handed out whole, the lists of the relay one by one.     *)
Handing ==
  /\ \A s \in Streams : \A e \in batch'[s] :
       e \in batch[s] \/ (e \in cached /\ e.repo \in Watched)
  /\ \A n \in Entries : \A e \in relayTodo'[n] :
       e \in relayTodo[n] \/ (e \in cached /\ e.repo \in Watched)
  /\ \A k \in (sent' \cup attempted') \ (sent \cup attempted) :
       \/ \E s \in Streams : \E e \in batch[s] : k = Key(e)
       \/ \E n \in Entries : \E e \in relayTodo[n] : k = Key(e)

LEMMA StepsHand == ASSUME TypeOK, [Next]_vars PROVE Handing
  <1> USE DEF Handing, streamVars, relayVars, pastVars
  <1>1. ASSUME NEW s \in Streams, Retrieve(s) PROVE Handing
    BY <1>1 DEF TypeOK, Retrieve, Unrelayed, List
  <1>2. ASSUME NEW s \in Streams, SendEvents(s) PROVE Handing
    BY <1>2 DEF SendEvents
  <1>3. ASSUME NEW s \in Streams,
               \/ RetrieveRefused(s) \/ SendFails(s) \/ BeginUpdate(s)
               \/ SetIsRelayed(s) \/ SetTimeRelayed(s) \/ NextRound(s)
               \/ WindowOver(s) \/ StreamInterrupted(s) \/ ClientLeaves(s)
               \/ \E r \in Repos : FetchWebhookEvents(s, r)
        PROVE  Handing
    BY <1>3
    DEF TypeOK, RetrieveRefused, SendFails, BeginUpdate, SetIsRelayed,
        SetTimeRelayed, NextRound, WindowOver, StreamInterrupted,
        ClientLeaves, FetchWebhookEvents, Close
  <1>4. ASSUME NEW n \in Entries, RelayTick(n) PROVE Handing
    BY <1>4 DEF TypeOK, RelayTick, List, Watched
  <1>5. ASSUME NEW n \in Entries, RelayPost(n) \/ RelayPostFails(n)
        PROVE  Handing
    BY <1>5 DEF RelayPost, RelayPostFails
  <1>6. ASSUME NEW n \in Entries,
               \/ RelayStart(n) \/ RelayScan(n) \/ RelayDone(n)
               \/ RelayMark(n) \/ RelayStop(n)
        PROVE  Handing
    BY <1>6
    DEF TypeOK, RelayStart, RelayScan, RelayDone, RelayMark, RelayStop
  <1>7. CASE \/ \E r \in Repos, i \in Ids :
                  HandleGitHubPost(r, i) \/ WebhookEventPush(r, i)
             \/ CleanupStep \/ Tick \/ MainStep
             \/ \E sig \in Signals : Signal(sig)
             \/ UNCHANGED vars
    BY <1>7
    DEF HandleGitHubPost, WebhookEventPush, StoreNew, CleanupStep,
        CleanupStart, CleanupTick, CleanupRepo, CleanupRepoDone, CleanupDone,
        CleanupReadTime, CleanupCheck, CleanupStop, Tick, MainStep, StopHTTP, ShutdownTimeout,
        Exit, Signal, vars
  <1>8. QED
    BY <1>1, <1>2, <1>3, <1>4, <1>5, <1>6, <1>7
    DEF Next, Environment, StreamStep, RelayStep, Exited

(* The history only grows, and but for a new event nothing is accepted and *)
(* nothing comes into the cache.                                           *)
LEMMA HistoryGrows ==
  ASSUME [Next]_vars
  PROVE  /\ sent \subseteq sent' /\ attempted \subseteq attempted'
         /\ \/ \E r \in Repos, i \in Ids : StoreNew(r, i)
            \/ accepted' = accepted /\ cached' \subseteq cached
  BY DEF Next, Environment, StreamStep, RelayStep, CleanupStep, MainStep,
         Exited, HandleGitHubPost, WebhookEventPush, StoreNew, Cache!Remove,
         FetchWebhookEvents, Retrieve, RetrieveRefused, SendEvents, SendFails,
         BeginUpdate, SetIsRelayed, SetTimeRelayed, NextRound, WindowOver,
         ClientLeaves, StreamInterrupted, RelayStart, RelayTick, RelayScan,
         RelayDone, RelayPost, RelayPostFails, RelayMark, RelayStop,
         CleanupStart, CleanupTick, CleanupRepo, CleanupRepoDone, CleanupDone,
         CleanupReadTime, CleanupCheck, CleanupStop, Tick, Signal, StopHTTP,
         ShutdownTimeout, Exit, storeVars, pastVars, vars

-----------------------------------------------------------------------------
(* The invariant                                                           *)

(* Lists in hand keep to the cache and to what was relayed.                *)
LEMMA HandStep ==
  ASSUME IInv, HandInv, WatchedInv, [Next]_vars
  PROVE  HandInv' /\ WatchedInv'
  <1>1. Handing
    BY StepsHand DEF IInv
  <1>2. Watched' = Watched
    BY DEF Watched
  <1>3. HandInv'
    BY <1>1, <1>2, KnownStay DEF HandInv, Handing
  <1>4. WatchedInv'
    BY <1>1, <1>2 DEF HandInv, WatchedInv, Handing, Key
  <1>5. QED
    BY <1>3, <1>4

(* The flags never change, so neither does what a failed post leads to;    *)
(* with the relay off there is no goroutine to post.                       *)
LEMMA PushStep ==
  ASSUME TypeOK, PushInv, OffInv, [Next]_vars
  PROVE  PushInv'
  <1>1. ASSUME NEW n \in Entries, RelayPost(n)
        PROVE  PushInv'
    BY <1>1 DEF PushInv, RelayPost, setVars
  <1>2. ASSUME NEW n \in Entries, RelayPostFails(n)
        PROVE  PushInv'
    <2>1. UNCHANGED <<relay, posted>> /\ relay # "off"
      BY <1>2 DEF OffInv, RelayPostFails, setVars
    <2>2. relay = "http" \/ attempted' = attempted
      BY <1>2, <2>1, RelaysAssumption DEF TypeOK, RelayPostFails
    <2>3. QED
      BY <2>1, <2>2 DEF PushInv
  <1>3. CASE UNCHANGED <<relay, attempted, posted>>
    BY <1>3 DEF PushInv
  <1>4. QED
    BY <1>1, <1>2, <1>3
    DEF Next, Environment, StreamStep, RelayStep, CleanupStep, MainStep,
        Exited, HandleGitHubPost, WebhookEventPush, StoreNew,
        FetchWebhookEvents, Retrieve, RetrieveRefused, SendEvents, SendFails,
        BeginUpdate, SetIsRelayed, SetTimeRelayed, NextRound, WindowOver,
        ClientLeaves, StreamInterrupted, RelayStart, RelayTick, RelayScan,
        RelayDone, RelayMark, RelayStop, CleanupStart, CleanupTick, CleanupRepo,
        CleanupRepoDone, CleanupDone, CleanupReadTime, CleanupCheck,
        CleanupStop, Tick, Signal, StopHTTP, ShutdownTimeout, Exit, setVars,
        pastVars, vars

(* A mark is never taken back, so others do a relay goroutine no harm.     *)
LEMMA OnceKept ==
  ASSUME NEW n \in Entries, OnceInv(n), relayed \subseteq relayed',
         relayPc'[n] = relayPc[n], relayTodo'[n] = relayTodo[n],
         attemptedBy'[n] = attemptedBy[n]
  PROVE  OnceInv(n)'
  BY DEF OnceInv, IsFirst

(* A relay goroutine posts what it found unmarked, and marks it before it  *)
(* goes on.                                                                *)
LEMMA OnceRelayStep ==
  ASSUME IInv, NEW n \in Entries, OnceInv(n), RelayStep(n)
  PROVE  OnceInv(n)'
  <1> USE DEF IInv, TypeOK
  <1>1. CASE RelayStart(n) \/ RelayTick(n) \/ RelayDone(n) \/ RelayStop(n)
    BY <1>1
    DEF OnceInv, RelayStart, RelayTick, RelayDone, RelayStop, storeVars,
        pastVars
  <1>2. CASE RelayScan(n)
    <2>1. UNCHANGED <<relayed, attemptedBy>> /\ relayPc[n] = "scan"
      BY <1>2 DEF RelayScan, storeVars, pastVars
    <2>2. attemptedBy[n] \subseteq relayed
      BY <2>1 DEF OnceInv
    <2>3. PICK e \in relayTodo[n] :
            /\ IsFirst(e, relayTodo[n])
            /\ \/ relayPc'[n] = "scan"
               \/ e \notin relayed /\ relayTodo'[n] = relayTodo[n]
      BY <1>2, <2>1 DEF RelayScan
    <2>4. \A f \in relayTodo[n] : IsFirst(f, relayTodo[n]) => f = e
      BY <2>3, OneFirst
    <2>5. QED
      BY <2>1, <2>2, <2>3, <2>4 DEF OnceInv, IsFirst
  <1>3. CASE RelayPost(n) \/ RelayPostFails(n)
    <2>1. /\ UNCHANGED <<relayed, relayTodo>> /\ relayPc[n] = "post"
          /\ \/ relayPc' = relayPc /\ attemptedBy' = attemptedBy
             \/ /\ relayPc'[n] = "mark"
                /\ \E e \in relayTodo[n] :
                     /\ IsFirst(e, relayTodo[n])
                     /\ attemptedBy'[n] = attemptedBy[n] \cup {e}
      BY <1>3 DEF RelayPost, RelayPostFails, storeVars
    <2>2. attemptedBy[n] \subseteq relayed
      BY <2>1 DEF OnceInv
    <2>3. QED
      BY <2>1, <2>2 DEF OnceInv, IsFirst
  <1>4. CASE RelayMark(n)
    <2>1. PICK e \in relayTodo[n] :
            /\ IsFirst(e, relayTodo[n])
            /\ relayed' = relayed \cup {e}
      BY <1>4 DEF RelayMark
    <2>2. relayPc'[n] = "scan" /\ attemptedBy' = attemptedBy
      BY <1>4 DEF RelayMark, pastVars
    <2>3. \A f \in attemptedBy[n] : f \in relayed \/ f = e
      BY <2>1, OneFirst DEF OnceInv
    <2>4. QED
      BY <2>1, <2>2, <2>3 DEF OnceInv
  <1>5. QED
    BY <1>1, <1>2, <1>3, <1>4 DEF RelayStep

LEMMA OnceStep ==
  ASSUME IInv, \A n \in Entries : OnceInv(n), [Next]_vars
  PROVE  \A n \in Entries : OnceInv(n)'
  <1>1. relayed \subseteq relayed'
    BY KnownStay
  <1>2. ASSUME NEW n \in Entries, RelayStep(n),
               NEW q \in Entries
        PROVE  OnceInv(q)'
    <2>1. CASE q = n
      BY <1>2, <2>1, OnceRelayStep
    <2>2. CASE q # n
      <3>1. /\ relayPc'[q] = relayPc[q] /\ relayTodo'[q] = relayTodo[q]
            /\ attemptedBy'[q] = attemptedBy[q]
        BY <1>2, <2>2
        DEF IInv, TypeOK, RelayStep, RelayStart, RelayTick, RelayScan,
            RelayDone, RelayPost, RelayPostFails, RelayMark, RelayStop,
            pastVars
      <3>2. QED
        BY <1>1, <3>1, OnceKept
    <2>3. QED
      BY <2>1, <2>2
  <1>3. CASE UNCHANGED <<relayVars, attemptedBy>>
    BY <1>1, <1>3, OnceKept DEF relayVars
  <1>4. QED
    BY <1>2, <1>3
    DEF Next, Environment, StreamStep, CleanupStep, MainStep, Exited,
        HandleGitHubPost, WebhookEventPush, StoreNew, FetchWebhookEvents,
        Retrieve, RetrieveRefused, SendEvents, SendFails, BeginUpdate,
        SetIsRelayed, SetTimeRelayed, NextRound, WindowOver, ClientLeaves,
        StreamInterrupted, CleanupStart, CleanupTick, CleanupRepo,
        CleanupRepoDone, CleanupDone, CleanupReadTime, CleanupCheck, CleanupStop, Tick, Signal,
        StopHTTP, ShutdownTimeout, Exit, pastVars, vars

(* A relay goroutine that does not run takes no step.                      *)
LEMMA OffStep ==
  ASSUME TypeOK, OffInv, [Next]_vars
  PROVE  OffInv'
  <1>1. CASE \E n \in Entries : RelayStep(n)
    <2>1. PICK n \in Entries : RelayStep(n)
      BY <1>1
    <2>2. relay' = relay /\ relayPc[n] # "off"
      BY <2>1
      DEF RelayStep, RelayStart, RelayTick, RelayScan, RelayDone, RelayPost,
          RelayPostFails, RelayMark, RelayStop, setVars
    <2>3. QED
      BY <2>2 DEF OffInv
  <1>2. CASE UNCHANGED <<setVars, relayVars>>
    BY <1>2 DEF OffInv, setVars, relayVars
  <1>3. QED
    BY <1>1, <1>2
    DEF Next, Environment, StreamStep, CleanupStep, MainStep, Exited,
        HandleGitHubPost, WebhookEventPush, StoreNew, FetchWebhookEvents,
        Retrieve, RetrieveRefused, SendEvents, SendFails, BeginUpdate,
        SetIsRelayed, SetTimeRelayed, NextRound, WindowOver, ClientLeaves,
        StreamInterrupted, CleanupStart, CleanupTick, CleanupRepo,
        CleanupRepoDone, CleanupDone, CleanupReadTime, CleanupCheck,
        CleanupStop, Tick, Signal, StopHTTP, ShutdownTimeout, Exit, vars

(* Nothing is in hand at the start, and the relay waits only if it is on.  *)
LEMMA InitAllInv == Init => AllInv
  <1> SUFFICES ASSUME Init PROVE AllInv
    OBVIOUS
  <1>1. /\ HandInv /\ WatchedInv /\ PushInv
        /\ \A n \in Entries : OnceInv(n)
    BY DEF Init, HandInv, WatchedInv, PushInv, OnceInv
  <1>2. OffInv
    BY DEF Init, OffInv
  <1>3. QED
    BY <1>1, <1>2, InitIInv DEF AllInv

(* The invariant of this module.                                           *)
THEOREM HandingInvariance == Spec => []AllInv
  <1>1. AllInv /\ [Next]_vars => AllInv'
    BY NextIInv, HandStep, PushStep, OnceStep, OffStep DEF AllInv, IInv
  <1>2. QED
    BY InitAllInv, <1>1, PTL DEF Spec

-----------------------------------------------------------------------------
(* Properties                                                              *)

(* What was pushed for a repository that nobody watches is never handed    *)
(* out (gsf_server.go, WebhookEventPush and retrieveCachedEvents).         *)
THEOREM OnlyWatchedHandedOutAlways == Spec => []OnlyWatchedHandedOut
  <1>1. AllInv => OnlyWatchedHandedOut
    BY DEF AllInv, WatchedInv, OnlyWatchedHandedOut
  <1>2. QED
    BY <1>1, HandingInvariance, PTL

(* Over gRPC, and with the relay off, what is marked as relayed has been   *)
(* sent to a client or has been answered by the relay target (relay.go).   *)
THEOREM PushedMeansDeliveredAlways == Spec => []PushedMeansDelivered
  <1>1. AllInv => PushedMeansDelivered
    BY DEF AllInv, IInv, HandedInv, PushInv, PushedMeansDelivered
  <1>2. QED
    BY <1>1, HandingInvariance, PTL

(* However the relay goroutines, the streams and the cleanup overlap, an   *)
(* event is posted once at most for each time that its repository is       *)
(* listed (relay.go, repositories.go).                                     *)
THEOREM PostedOnceEachAlways == Spec => []PostedOnceEach
  <1>1. AllInv => PostedOnceEach
    BY DEF AllInv, OnceInv, PostedOnceEach
  <1>2. QED
    BY <1>1, HandingInvariance, PTL

-----------------------------------------------------------------------------
(* The promise of Delivery                                                 *)

Tried == sent \cup attempted

LEMMA InitMaps == Init => Promise!Init
  BY DEF Init, Promise!Init, Waiting

(* A new event waits, unless its delivery was handed out before.           *)
LEMMA StoreMaps ==
  ASSUME NEW r \in Repos, NEW i \in Ids, StoreNew(r, i)
  PROVE  Promise!Next
  <1> DEFINE new == [repo |-> r, id |-> i, at |-> count + 1]
  <1>1. /\ cached' = cached \cup {new}
        /\ Key(new) = <<r, i>>
        /\ accepted' = accepted \cup {<<r, i>>}
        /\ UNCHANGED <<sent, attempted>>
    BY DEF StoreNew, Cache!Store, Key
  <1> HIDE DEF new
  <1>2. Waiting' = Waiting \cup ({<<r, i>>} \ Tried)
    BY <1>1 DEF Waiting, Tried, Key
  <1>3. Promise!Accept(<<r, i>>)
    BY <1>1, <1>2 DEF Promise!Accept, Tried
  <1>4. <<r, i>> \in Repos \X Ids
    OBVIOUS
  <1>5. QED
    BY <1>3, <1>4 DEF Promise!Next

(* Every other step hands out some of what waits, often nothing: what it   *)
(* hands out it has in hand, so it is cached or was handed out before, and *)
(* what it removes was handed out before.                                  *)
LEMMA OthersMap ==
  ASSUME AllInv, [Next]_vars,
         accepted' = accepted, cached' \subseteq cached
  PROVE  Promise!Next
  <1> DEFINE S == Tried' \ Tried
  <1>1. Tried \subseteq Tried'
    BY HistoryGrows DEF Tried
  <1>2. ASSUME NEW e \in cached \cup relayed
        PROVE  Key(e) \in Waiting \cup Tried
    BY <1>2 DEF AllInv, IInv, HandedInv, Waiting, Tried
  <1>3. ASSUME NEW k \in S PROVE k \in Waiting
    <2>1. \E e \in cached \cup relayed : k = Key(e)
      BY StepsHand DEF AllInv, IInv, HandInv, Handing, Tried
    <2>2. QED
      BY <1>2, <2>1
  <1>4. Waiting' = Waiting \ S
    <2>1. ASSUME NEW e \in cached, e \notin cached'
          PROVE  Key(e) \in Tried
      BY <2>1, RemovedIsRelayed DEF AllInv, IInv, HandedInv, Tried
    <2>2. /\ Waiting = {Key(e) : e \in cached} \ Tried
          /\ Waiting' = {Key(e) : e \in cached'} \ Tried'
      BY DEF Waiting, Tried, Key
    <2> HIDE DEF Waiting, Tried
    <2>3. QED
      BY <1>1, <2>1, <2>2
  <1>5. Tried' = Tried \cup S
    BY <1>1
  <1>6. Promise!Try(S)
    BY <1>3, <1>4, <1>5 DEF Promise!Try, Tried
  <1>7. S \in SUBSET Waiting
    BY <1>3
  <1> HIDE DEF S
  <1>8. QED
    BY <1>6, <1>7 DEF Promise!Next

(* The server hands out nothing that does not wait, nothing that it handed *)
(* out waits again, and nothing ceases to wait but by being handed out     *)
(* (gsf_server.go, relay.go, event_store.go).                              *)
THEOREM ServerImplementsDelivery == Spec => ImplementsDelivery
  <1>1. AllInv /\ [Next]_vars => [Promise!Next]_(Promise!vars)
    BY HistoryGrows, StoreMaps, OthersMap
  <1>2. QED
    BY <1>1, InitMaps, HandingInvariance, PTL
    DEF Spec, ImplementsDelivery, Promise!Spec
===============================================================================
