----------------------------- MODULE ServerProofs -----------------------------
(***************************************************************************)
(* What holds of the server for any number of repositories, deliveries,    *)
(* streams and events, and for any retention time.                         *)
(*                                                                         *)
(* The inductive invariant IInv has one part for each owner of state: the  *)
(* cache (StoreInv), each stream (StreamInv, OrderInv), each relay         *)
(* goroutine (RelayInv), the cleanup (CleanInv); HandedInv joins them: the *)
(* flag IsRelayed of an event stands for a Send or a post of its delivery. *)
(* The proof goes by who takes the step.  What a step does to the parts of *)
(* the others is in the frame lemmas; its own part is proved action by     *)
(* action.                                                                 *)
(***************************************************************************)
EXTENDS Server, TLAPS

(* Stamps grow along each list and name one event, as deliveries do.       *)
StoreInv ==
  /\ \A e \in cached : e.at <= count
  /\ \A e, f \in cached :
       (e.at = f.at \/ (e.repo = f.repo /\ e.id = f.id)) => e = f

(* An event with IsRelayed set has been handed to somebody, or an event    *)
(* with its delivery id has.                                               *)
HandedInv == \A e \in relayed : Key(e) \in sent \cup attempted

(* What a stream works on are events of its repository, and what it marks  *)
(* as relayed are deliveries it has sent.                                  *)
StreamInv(s) ==
  /\ conn[s] = "closed" => batch[s] = {} /\ sentBy[s] = {}
  /\ conn[s] \notin {"marking", "stamping"} => todo[s] = {}
  /\ \A e \in batch[s] : e.repo = repo[s]
  /\ \A e \in batch[s] \cup sentBy[s] : e.at <= count
  /\ \A a, b \in batch[s] : a.at = b.at => a = b
  /\ \A c \in todo[s] : c.repo = repo[s] /\ \E b \in batch[s] : b.id = c.id
  /\ \A c, d \in todo[s] : c.id = d.id => c = d
  /\ conn[s] \in {"sent", "marking", "stamping"} =>
       \A e \in batch[s] : Key(e) \in sent
  /\ conn[s] = "stamping" => \A c \in todo[s] : IsMarked(s, c) => c \in relayed

Newer(S, T) == \A e \in S, f \in T : e.at > f.at

(* An unrelayed event that the stream has not in hand is newer than all it *)
(* has sent: what it has in hand is its batch until updateRelayStatus      *)
(* retrieves the list again, and the events left to mark from then on.     *)
OrderInv(s) ==
  /\ conn[s] = "waiting" => Newer(Unrelayed(repo[s]), sentBy[s])
  /\ conn[s] = "retrieved" =>
       /\ Newer(batch[s], sentBy[s])
       /\ Newer(Unrelayed(repo[s]) \ batch[s], batch[s] \cup sentBy[s])
  /\ conn[s] = "sent" => Newer(Unrelayed(repo[s]) \ batch[s], sentBy[s])
  /\ conn[s] \in {"marking", "stamping"} =>
       Newer(Unrelayed(repo[s]) \ todo[s], sentBy[s])

(* The event a relay goroutine is about to mark is the one it has posted.  *)
RelayInv(n) ==
  /\ \A a, b \in relayTodo[n] : a.at = b.at => a = b
  /\ relayPc[n] = "mark" =>
       \A e \in relayTodo[n] : IsFirst(e, relayTodo[n]) => Key(e) \in attempted

(* Nobody but the cleanup removes events: those it has yet to look at are  *)
(* in the cache.                                                           *)
CleanInv == cleanTodo \subseteq cached

IInv ==
  /\ TypeOK
  /\ StoreInv
  /\ HandedInv
  /\ \A s \in Streams : StreamInv(s) /\ OrderInv(s)
  /\ \A n \in Entries : RelayInv(n)
  /\ CleanInv
  /\ NothingLost

(* Names that Server gives to definitions of EventStore.                   *)
USE DEF Stamps, Event

-----------------------------------------------------------------------------
(* Types                                                                   *)

(* The server starts with an empty cache and no stream.                    *)
LEMMA InitTypeOK == Init => TypeOK
  <1> SUFFICES ASSUME Init PROVE TypeOK
    OBVIOUS
  <1>1. count \in 0 .. MaxStores /\ age \in [Stamps -> Age] /\ cleanAge \in Age
    BY BoundsAssumption DEF Init, Age, Never, Cache!Stamps
  <1>2. /\ conn \in [Streams -> {"closed", "waiting", "retrieved", "sent",
                                 "marking", "stamping"}]
        /\ repo \in [Streams -> Repos \cup {NoRepo}]
        /\ batch \in [Streams -> SUBSET Event]
        /\ todo \in [Streams -> SUBSET Event]
        /\ sentBy \in [Streams -> SUBSET Event]
        /\ \A s \in Streams : batch[s] \cup todo[s] = {}
    BY DEF Init
  <1>3. /\ relayPc \in [Entries -> {"off", "start", "idle", "scan", "post", "mark"}]
        /\ relayTodo \in [Entries -> SUBSET Event]
    BY DEF Init
  <1>4. /\ cached \subseteq Event /\ relayed \subseteq Event
        /\ notified \subseteq Streams
        /\ cleanPc \in {"start", "idle", "repos", "events", "check", "off"}
        /\ cleanRepos \subseteq Entries
        /\ cleanTodo \subseteq Event
    BY DEF Init
  <1>5. /\ relay \in Relays /\ otel \in OTelSettings /\ ctxDone \in BOOLEAN
        /\ phase \in {"serving", "httpClosing", "grpcClosing", "exited"}
    BY DEF Init
  <1>6. /\ accepted \in SUBSET (Repos \X Ids) /\ sent \in SUBSET (Repos \X Ids)
        /\ attempted \in SUBSET (Repos \X Ids)
        /\ attemptedBy \in [Entries -> SUBSET Event]
        /\ posted \in SUBSET (Repos \X Ids)
    BY DEF Init
  <1>7. QED
    BY <1>1, <1>2, <1>3, <1>4, <1>5, <1>6 DEF TypeOK

(* A delivery is a repository and an id.                                   *)
LEMMA KeyType == ASSUME NEW e \in Event PROVE Key(e) \in Repos \X Ids
  BY DEF Key, Cache!Event

(* No step changes the type of a variable.                                 *)
LEMMA NextTypeOK == ASSUME TypeOK, Next PROVE TypeOK'
  <1> USE BoundsAssumption, EntriesAssumption
      DEF TypeOK, storeVars, streamVars, relayVars, cleanVars, mainVars,
          setVars, pastVars, List, Close, Age, Never
  <1>1. ASSUME NEW r \in Repos, NEW i \in Ids, StoreNew(r, i)
       PROVE  TypeOK'
    BY <1>1 DEF StoreNew, Cache!Store, Cache!Event, Cache!Stamps
  <1>2. ASSUME NEW s \in Streams, NEW r \in Repos, FetchWebhookEvents(s, r)
       PROVE  TypeOK'
    BY <1>2 DEF FetchWebhookEvents
  <1>3. ASSUME NEW s \in Streams, Retrieve(s)
       PROVE  TypeOK'
    BY <1>3 DEF Retrieve, Unrelayed
  <1>4. ASSUME NEW s \in Streams, RetrieveRefused(s)
       PROVE  TypeOK'
    BY <1>4 DEF RetrieveRefused
  <1>5. ASSUME NEW s \in Streams, SendEvents(s)
       PROVE  TypeOK'
    BY <1>5, KeyType DEF SendEvents
  <1>6. ASSUME NEW s \in Streams, SendFails(s)
       PROVE  TypeOK'
    BY <1>6 DEF SendFails
  <1>7. ASSUME NEW s \in Streams, BeginUpdate(s)
       PROVE  TypeOK'
    BY <1>7 DEF BeginUpdate
  <1>8. ASSUME NEW s \in Streams, SetIsRelayed(s)
       PROVE  TypeOK'
    BY <1>8 DEF SetIsRelayed
  <1>9. ASSUME NEW s \in Streams, SetTimeRelayed(s)
       PROVE  TypeOK'
    <2>1. PICK c \in todo[s] :
            /\ age' = IF c \in cached THEN [age EXCEPT ![c.at] = 0] ELSE age
            /\ todo' = [todo EXCEPT ![s] = @ \ {c}]
      BY <1>9 DEF SetTimeRelayed
    <2>2. age' \in [Stamps -> Age]
      BY <2>1 DEF Cache!Event, Cache!Stamps
    <2>3. todo' \in [Streams -> SUBSET Event]
      BY <2>1
    <2>4. QED
      BY <1>9, <2>2, <2>3 DEF SetTimeRelayed
  <1>10. ASSUME NEW s \in Streams, NextRound(s)
       PROVE  TypeOK'
    BY <1>10 DEF NextRound
  <1>11. ASSUME NEW s \in Streams, WindowOver(s)
       PROVE  TypeOK'
    BY <1>11 DEF WindowOver
  <1>12. ASSUME NEW s \in Streams, StreamInterrupted(s)
       PROVE  TypeOK'
    BY <1>12 DEF StreamInterrupted
  <1>13. ASSUME NEW s \in Streams, ClientLeaves(s)
       PROVE  TypeOK'
    BY <1>13 DEF ClientLeaves
  <1>14. ASSUME NEW n \in Entries, RelayStart(n)
       PROVE  TypeOK'
    BY <1>14 DEF RelayStart
  <1>15. ASSUME NEW n \in Entries, RelayTick(n)
       PROVE  TypeOK'
    BY <1>15 DEF RelayTick
  <1>16. ASSUME NEW n \in Entries, RelayScan(n)
       PROVE  TypeOK'
    BY <1>16 DEF RelayScan
  <1>17. ASSUME NEW n \in Entries, RelayDone(n)
       PROVE  TypeOK'
    BY <1>17 DEF RelayDone
  <1>18. ASSUME NEW n \in Entries, RelayPost(n)
       PROVE  TypeOK'
    BY <1>18, KeyType DEF RelayPost
  <1>19. ASSUME NEW n \in Entries, RelayPostFails(n)
       PROVE  TypeOK'
    BY <1>19, KeyType DEF RelayPostFails
  <1>20. ASSUME NEW n \in Entries, RelayMark(n)
       PROVE  TypeOK'
    BY <1>20 DEF RelayMark
  <1>21. ASSUME NEW n \in Entries, RelayStop(n)
       PROVE  TypeOK'
    BY <1>21 DEF RelayStop
  <1>22. ASSUME CleanupStart \/ CleanupTick
       PROVE  TypeOK'
    BY <1>22 DEF CleanupStart, CleanupTick
  <1>23. ASSUME NEW n \in cleanRepos, CleanupRepo(n)
       PROVE  TypeOK'
    BY <1>23 DEF CleanupRepo
  <1>24. ASSUME CleanupRepoDone
       PROVE  TypeOK'
    BY <1>24 DEF CleanupRepoDone
  <1>25. ASSUME CleanupDone
       PROVE  TypeOK'
    BY <1>25 DEF CleanupDone
  <1>26. ASSUME CleanupReadTime
       PROVE  TypeOK'
    BY <1>26 DEF CleanupReadTime, Cache!Event, Cache!Stamps
  <1>27. ASSUME CleanupCheck
       PROVE  TypeOK'
    <2>1. cleanTodo' \subseteq Event /\ cleanAge' \in Age /\ cleanPc' = "events"
      BY <1>27 DEF CleanupCheck
    <2>2. cached' \subseteq Event
      BY <1>27 DEF CleanupCheck, Cache!Remove
    <2>3. age' \in [Stamps -> Age]
      BY <1>27 DEF CleanupCheck
    <2>4. QED
      BY <1>27, <2>1, <2>2, <2>3 DEF CleanupCheck
  <1>28. ASSUME CleanupStop
       PROVE  TypeOK'
    BY <1>28 DEF CleanupStop
  <1>29. ASSUME Tick
       PROVE  TypeOK'
    BY <1>29 DEF Tick, Older
  <1>30. ASSUME NEW sig \in Signals, Signal(sig)
       PROVE  TypeOK'
    BY <1>30 DEF Signal
  <1>31. ASSUME StopHTTP
       PROVE  TypeOK'
    BY <1>31 DEF StopHTTP
  <1>32. ASSUME ShutdownTimeout
       PROVE  TypeOK'
    BY <1>32 DEF ShutdownTimeout
  <1>33. ASSUME Exit
       PROVE  TypeOK'
    BY <1>33 DEF Exit
  <1>34. ASSUME Exited
       PROVE  TypeOK'
    BY <1>34 DEF Exited, vars
  <1>35. QED
    BY <1>1, <1>2, <1>3, <1>4, <1>5, <1>6, <1>7, <1>8, <1>9, <1>10, <1>11,
       <1>12, <1>13, <1>14, <1>15, <1>16, <1>17, <1>18, <1>19, <1>20, <1>21,
       <1>22, <1>23, <1>24, <1>25, <1>26, <1>27, <1>28, <1>29, <1>30, <1>31,
       <1>32, <1>33, <1>34
    DEF Next, Environment, HandleGitHubPost, WebhookEventPush, StreamStep,
        RelayStep, CleanupStep, MainStep

-----------------------------------------------------------------------------
(* What a step leaves of the parts it does not own                         *)

(* A stream keeps its invariants while others store, relay and remove      *)
(* events: a stored event is newer than all it has in hand, and the other  *)
(* steps leave fewer unrelayed events.                                     *)
LEMMA StreamKept ==
  ASSUME TypeOK, TypeOK', NEW s \in Streams, StreamInv(s), OrderInv(s),
         conn'[s] = conn[s], repo'[s] = repo[s], batch'[s] = batch[s],
         todo'[s] = todo[s], sentBy'[s] = sentBy[s],
         relayed \subseteq relayed', sent \subseteq sent', count <= count',
         \A e \in cached' \ cached : e.at > count
  PROVE  StreamInv(s)' /\ OrderInv(s)'
  <1>1. /\ \A e \in cached \cup cached' \cup batch[s] \cup sentBy[s] : e.at \in Nat
        /\ count \in Nat /\ count' \in Nat
    BY BoundsAssumption DEF TypeOK, Cache!Event, Cache!Stamps
  <1>2. StreamInv(s)'
    BY <1>1 DEF StreamInv, IsMarked
  <1>3. \A f \in batch[s] \cup sentBy[s] : f.at <= count
    BY DEF StreamInv
  <1> DEFINE now  == Unrelayed(repo[s])
             then == Unrelayed(repo[s])'
  <1>4. \A e \in then : e \in now \/ (e.at > count /\ e.at \in Nat)
    BY <1>1 DEF Unrelayed, List
  <1>5. ASSUME NEW X, NEW T \in SUBSET (batch[s] \cup sentBy[s]),
               Newer(now \ X, T)
        PROVE  Newer(then \ X, T)
    BY <1>1, <1>3, <1>4, <1>5 DEF Newer
  <1>6. /\ Newer(now, sentBy[s]) => Newer(then, sentBy[s])
        /\ Newer(now \ batch[s], batch[s] \cup sentBy[s])
             => Newer(then \ batch[s], batch[s] \cup sentBy[s])
        /\ Newer(now \ batch[s], sentBy[s]) => Newer(then \ batch[s], sentBy[s])
        /\ Newer(now \ todo[s], sentBy[s]) => Newer(then \ todo[s], sentBy[s])
    <2>1. now = now \ {} /\ then = then \ {}
      OBVIOUS
    <2> HIDE DEF now, then
    <2>2. QED
      BY <1>5, <2>1
  <1> HIDE DEF now, then
  <1>7. OrderInv(s)'
    BY <1>6 DEF OrderInv, Newer, now, then
  <1>8. QED
    BY <1>2, <1>7

(* What is said of a relay goroutine only changes with its own list, its   *)
(* own place in the loop, or what was attempted.                           *)
LEMMA RelayKept ==
  ASSUME NEW n \in Entries, RelayInv(n), relayPc'[n] = relayPc[n],
         relayTodo'[n] = relayTodo[n], attempted \subseteq attempted'
  PROVE  RelayInv(n)'
  BY DEF RelayInv, IsFirst

(* What was handed over and what is still cached only grow in such steps.  *)
LEMMA HandedKept ==
  ASSUME HandedInv, NothingLost, relayed' = relayed, cached \subseteq cached',
         sent \subseteq sent', attempted \subseteq attempted',
         \A k \in accepted' : k \in accepted \/ \E e \in cached' : k = Key(e)
  PROVE  HandedInv' /\ NothingLost'
  BY DEF HandedInv, NothingLost, Key

-----------------------------------------------------------------------------
(* A new event                                                             *)

(* HandleGitHubPost and WebhookEventPush: the new event is the newest, so  *)
(* it is newer than all that any stream has in hand or has sent.           *)
LEMMA StoreNewIInv ==
  ASSUME IInv, TypeOK', NEW r \in Repos, NEW i \in Ids, StoreNew(r, i)
  PROVE  IInv'
  <1> DEFINE new == [repo |-> r, id |-> i, at |-> count + 1]
  <1>1. /\ cached' = cached \cup {new}
        /\ count' = count + 1
        /\ accepted' = accepted \cup {Key(new)}
        /\ \A e \in cached : ~(e.repo = new.repo /\ e.id = new.id)
    BY DEF StoreNew, Cache!Store, Cache!SameDelivery, Key
  <1>2. /\ UNCHANGED <<relayed, sent, attempted>>
        /\ UNCHANGED <<conn, repo, batch, todo, sentBy>>
        /\ UNCHANGED <<relayPc, relayTodo, cleanTodo>>
    BY DEF StoreNew, streamVars, relayVars, cleanVars
  <1>3. /\ count \in Nat /\ new.at = count + 1
        /\ \A e \in cached : e.at \in Nat /\ e.at <= count
    BY BoundsAssumption DEF IInv, TypeOK, StoreInv, Cache!Event, Cache!Stamps
  <1> HIDE DEF new
  <1>4. StoreInv'
    BY <1>1, <1>3 DEF IInv, StoreInv
  <1>5. HandedInv' /\ NothingLost'
    BY <1>1, <1>2, HandedKept DEF IInv, NothingLost
  <1>6. \A s \in Streams : StreamInv(s)' /\ OrderInv(s)'
    BY <1>1, <1>2, <1>3, StreamKept DEF IInv
  <1>7. \A n \in Entries : RelayInv(n)'
    BY <1>2, RelayKept DEF IInv
  <1>8. CleanInv'
    BY <1>1, <1>2 DEF IInv, CleanInv
  <1>9. QED
    BY <1>4, <1>5, <1>6, <1>7, <1>8 DEF IInv

-----------------------------------------------------------------------------
(* The streams                                                             *)

(* All that a stream does to the rest of the server is to set IsRelayed.   *)
LEMMA StreamFrame ==
  ASSUME IInv, TypeOK', NEW s \in Streams,
         UNCHANGED <<cached, count, relayVars, cleanVars, accepted, attempted>>,
         \A q \in Streams \ {s} :
           /\ conn'[q] = conn[q] /\ repo'[q] = repo[q] /\ batch'[q] = batch[q]
           /\ todo'[q] = todo[q] /\ sentBy'[q] = sentBy[q],
         relayed \subseteq relayed', sent \subseteq sent',
         \A e \in relayed' \ relayed : Key(e) \in sent,
         StreamInv(s)', OrderInv(s)'
  PROVE  IInv'
  <1>1. \A q \in Streams \ {s} : StreamInv(q)' /\ OrderInv(q)'
    BY StreamKept, BoundsAssumption DEF IInv, TypeOK
  <1>2. \A n \in Entries : RelayInv(n)'
    BY RelayKept DEF IInv, relayVars
  <1>3. StoreInv' /\ CleanInv'
    BY DEF IInv, StoreInv, CleanInv, cleanVars
  <1>4. HandedInv' /\ NothingLost'
    BY DEF IInv, HandedInv, NothingLost, Key
  <1>5. QED
    BY <1>1, <1>2, <1>3, <1>4 DEF IInv

(* A closed stream has nothing in hand.                                    *)
LEMMA ClosedStream ==
  ASSUME IInv, TypeOK', NEW s \in Streams, Close(s),
         UNCHANGED <<storeVars, relayVars, cleanVars, pastVars>>
  PROVE  IInv'
  <1>1. StreamInv(s)' /\ OrderInv(s)'
    BY DEF IInv, TypeOK, Close, StreamInv, OrderInv, Newer
  <1>2. QED
    BY <1>1, StreamFrame DEF IInv, TypeOK, Close, storeVars, pastVars

(* Events of a batch have a stamp each, since a batch is part of a list.   *)
LEMMA RetrieveIInv ==
  ASSUME IInv, TypeOK', NEW s \in Streams, Retrieve(s)
  PROVE  IInv'
  <1>1. /\ conn[s] = "waiting" /\ conn'[s] = "retrieved"
        /\ batch'[s] = Unrelayed(repo[s])
        /\ UNCHANGED <<cached, count, relayed, repo, todo, sentBy, sent>>
    BY DEF IInv, TypeOK, Retrieve, storeVars, pastVars
  <1>2. StreamInv(s)'
    <2>1. /\ \A e \in Unrelayed(repo[s]) : e.repo = repo[s] /\ e.at <= count
          /\ \A a, b \in Unrelayed(repo[s]) : a.at = b.at => a = b
      BY DEF IInv, StoreInv, Unrelayed, List
    <2>2. todo[s] = {}
      BY <1>1 DEF IInv, StreamInv
    <2>3. QED
      BY <1>1, <2>1, <2>2 DEF IInv, StreamInv
  <1>3. OrderInv(s)'
    <2>1. Newer(Unrelayed(repo[s]), sentBy[s])
      BY <1>1 DEF IInv, OrderInv
    <2>2. Unrelayed(repo[s])' = Unrelayed(repo[s])
      BY <1>1 DEF Unrelayed, List
    <2>3. QED
      BY <1>1, <2>1, <2>2 DEF OrderInv, Newer
  <1>4. QED
    BY <1>2, <1>3, StreamFrame
    DEF IInv, TypeOK, Retrieve, storeVars, relayVars, cleanVars, pastVars

(* After Send the batch counts as sent.                                    *)
LEMMA SendEventsIInv ==
  ASSUME IInv, TypeOK', NEW s \in Streams, SendEvents(s)
  PROVE  IInv'
  <1>1. /\ conn[s] = "retrieved" /\ conn'[s] = "sent"
        /\ sent' = sent \cup {Key(e) : e \in batch[s]}
        /\ sentBy'[s] = sentBy[s] \cup batch[s]
        /\ UNCHANGED <<cached, count, relayed, repo, batch, todo>>
    BY DEF IInv, TypeOK, SendEvents, storeVars
  <1>2. StreamInv(s)'
    BY <1>1 DEF IInv, StreamInv, Key
  <1>3. OrderInv(s)'
    <2>1. Newer(Unrelayed(repo[s]) \ batch[s], sentBy'[s])
      BY <1>1 DEF IInv, OrderInv, Newer
    <2>2. Unrelayed(repo[s])' = Unrelayed(repo[s])
      BY <1>1 DEF Unrelayed, List
    <2>3. QED
      BY <1>1, <2>1, <2>2 DEF OrderInv, Newer
  <1>4. QED
    BY <1>1, <1>2, <1>3, StreamFrame
    DEF IInv, TypeOK, SendEvents, storeVars, relayVars, cleanVars

(* An unrelayed event that updateRelayStatus does not find was not in the  *)
(* batch: the batch is found by id, and an id names one event of the list. *)
LEMMA BeginUpdateIInv ==
  ASSUME IInv, TypeOK', NEW s \in Streams, BeginUpdate(s)
  PROVE  IInv'
  <1>1. /\ conn[s] = "sent" /\ conn'[s] = "marking"
        /\ todo'[s] = {c \in List(repo[s]) : \E b \in batch[s] : b.id = c.id}
        /\ UNCHANGED <<cached, count, relayed, repo, batch, sentBy, sent>>
    BY DEF IInv, TypeOK, BeginUpdate, storeVars, pastVars
  <1>2. StreamInv(s)'
    <2>1. \A c, d \in List(repo[s]) : c.id = d.id => c = d
      BY DEF IInv, StoreInv, List
    <2>2. QED
      BY <1>1, <2>1 DEF IInv, StreamInv, List, Key
  <1>3. OrderInv(s)'
    <2>1. Newer(Unrelayed(repo[s]) \ batch[s], sentBy[s])
      BY <1>1 DEF IInv, OrderInv
    <2>2. Unrelayed(repo[s])' = Unrelayed(repo[s])
      BY <1>1 DEF Unrelayed, List
    <2>3. \A e \in Unrelayed(repo[s]) \ todo'[s] : e \notin batch[s]
      BY <1>1 DEF Unrelayed
    <2>4. QED
      BY <1>1, <2>1, <2>2, <2>3 DEF OrderInv, Newer
  <1>4. QED
    BY <1>2, <1>3, StreamFrame
    DEF IInv, TypeOK, BeginUpdate, storeVars, relayVars, cleanVars, pastVars

(* The event that IsMarked names is one: its batch event is the first of   *)
(* those left, and both are known by their ids.                            *)
LEMMA OneMarked ==
  ASSUME TypeOK, NEW s \in Streams, StreamInv(s),
         NEW c, IsMarked(s, c), NEW d, IsMarked(s, d)
  PROVE  c = d
  <1>1. PICK b \in batch[s] : b.id = c.id /\ \A e \in todo[s], a \in batch[s] :
                                a.id = e.id => b.at <= a.at
    BY DEF IsMarked
  <1>2. PICK a \in batch[s] : a.id = d.id /\ \A e \in todo[s], f \in batch[s] :
                                f.id = e.id => a.at <= f.at
    BY DEF IsMarked
  <1>3. c \in todo[s] /\ d \in todo[s]
    BY DEF IsMarked
  <1>4. a.at \in Nat /\ b.at \in Nat
    BY DEF TypeOK, Cache!Event, Cache!Stamps
  <1>5. a.at <= b.at /\ b.at <= a.at
    BY <1>1, <1>2, <1>3
  <1>6. a = b
    BY <1>4, <1>5 DEF StreamInv
  <1>7. QED
    BY <1>1, <1>2, <1>3, <1>6 DEF StreamInv

(* The flag goes to an event whose delivery this stream has sent; for the  *)
(* other streams there is one unrelayed event less.                        *)
LEMMA SetIsRelayedIInv ==
  ASSUME IInv, TypeOK', NEW s \in Streams, SetIsRelayed(s)
  PROVE  IInv'
  <1>1. PICK c \in todo[s] : IsMarked(s, c) /\ relayed' = relayed \cup {c}
    BY DEF SetIsRelayed
  <1>2. /\ conn[s] = "marking" /\ conn'[s] = "stamping"
        /\ UNCHANGED <<cached, count, repo, batch, todo, sentBy, sent>>
    BY DEF IInv, TypeOK, SetIsRelayed, pastVars
  <1>3. Key(c) \in sent
    <2>1. PICK b \in batch[s] : b.id = c.id
      BY <1>1 DEF IsMarked
    <2>2. Key(b) \in sent /\ b.repo = repo[s] /\ c.repo = repo[s]
      BY <1>2 DEF IInv, StreamInv
    <2>3. QED
      BY <2>1, <2>2 DEF Key
  <1>4. StreamInv(s)'
    <2>1. \A d \in todo[s] : IsMarked(s, d) => d = c
      BY <1>1, OneMarked DEF IInv
    <2>2. \A d \in todo[s] : IsMarked(s, d)' <=> IsMarked(s, d)
      BY <1>2 DEF IsMarked
    <2>3. QED
      BY <1>1, <1>2, <2>1, <2>2 DEF IInv, StreamInv
  <1>5. OrderInv(s)'
    <2>1. Unrelayed(repo[s])' \subseteq Unrelayed(repo[s])
      BY <1>1, <1>2 DEF Unrelayed, List
    <2>2. Newer(Unrelayed(repo[s]) \ todo[s], sentBy[s])
      BY <1>2 DEF IInv, OrderInv
    <2>3. QED
      BY <1>2, <2>1, <2>2 DEF OrderInv, Newer
  <1>6. QED
    BY <1>1, <1>3, <1>4, <1>5, StreamFrame
    DEF IInv, TypeOK, SetIsRelayed, relayVars, cleanVars, pastVars

(* An event that leaves the list of those to mark has its flag by then.    *)
LEMMA SetTimeRelayedIInv ==
  ASSUME IInv, TypeOK', NEW s \in Streams, SetTimeRelayed(s)
  PROVE  IInv'
  <1>1. PICK c \in todo[s] : /\ IsMarked(s, c)
                             /\ todo' = [todo EXCEPT ![s] = @ \ {c}]
    BY DEF SetTimeRelayed
  <1>2. /\ conn[s] = "stamping" /\ conn'[s] = "marking"
        /\ todo'[s] = todo[s] \ {c}
        /\ UNCHANGED <<cached, count, relayed, repo, batch, sentBy, sent>>
    BY <1>1 DEF IInv, TypeOK, SetTimeRelayed, pastVars
  <1>3. StreamInv(s)'
    BY <1>2 DEF IInv, StreamInv
  <1>4. OrderInv(s)'
    <2>1. Unrelayed(repo[s])' = Unrelayed(repo[s]) /\ c \in relayed
      BY <1>1, <1>2 DEF Unrelayed, List, IInv, StreamInv
    <2>2. Newer(Unrelayed(repo[s]) \ todo[s], sentBy[s])
      BY <1>2 DEF IInv, OrderInv
    <2>3. Unrelayed(repo[s]) \ todo'[s] \subseteq Unrelayed(repo[s]) \ todo[s]
      BY <1>2, <2>1 DEF Unrelayed
    <2>4. QED
      BY <1>2, <2>1, <2>2, <2>3 DEF OrderInv, Newer
  <1>5. QED
    BY <1>1, <1>3, <1>4, StreamFrame
    DEF IInv, TypeOK, SetTimeRelayed, relayVars, cleanVars, pastVars

(* The steps between a round and the next leave the order as it is.        *)
LEMMA RoundIInv ==
  ASSUME IInv, TypeOK', NEW s \in Streams,
         NextRound(s) \/ \E r \in Repos : FetchWebhookEvents(s, r)
  PROVE  IInv'
  <1>1. /\ UNCHANGED <<cached, count, relayed, todo, sentBy, sent>>
        /\ UNCHANGED <<relayVars, cleanVars, accepted, attempted>>
    BY DEF NextRound, FetchWebhookEvents, storeVars, pastVars
  <1>2. conn'[s] = "waiting" /\ batch'[s] = {} /\ todo[s] = {}
    BY DEF IInv, TypeOK, StreamInv, NextRound, FetchWebhookEvents
  <1>3. StreamInv(s)'
    BY <1>1, <1>2 DEF IInv, StreamInv
  <1>4. OrderInv(s)'
    <2>1. CASE NextRound(s)
      <3>1. Newer(Unrelayed(repo[s]) \ {}, sentBy[s]) /\ repo' = repo
        BY <1>2, <2>1 DEF IInv, OrderInv, NextRound
      <3>2. Unrelayed(repo[s])' = Unrelayed(repo[s])
        BY <1>1, <3>1 DEF Unrelayed, List
      <3>3. QED
        BY <1>1, <1>2, <3>1, <3>2 DEF OrderInv, Newer
    <2>2. CASE \E r \in Repos : FetchWebhookEvents(s, r)
      <3>1. sentBy'[s] = {}
        BY <1>1, <2>2 DEF IInv, StreamInv, FetchWebhookEvents
      <3>2. QED
        BY <1>2, <3>1 DEF OrderInv, Newer
    <2>3. QED
      BY <2>1, <2>2
  <1>5. QED
    BY <1>1, <1>3, <1>4, StreamFrame
    DEF IInv, TypeOK, NextRound, FetchWebhookEvents

-----------------------------------------------------------------------------
(* The relay goroutines                                                    *)

(* All that a relay goroutine does to the rest of the server is to set     *)
(* IsRelayed, on events it tried to post.                                  *)
LEMMA RelayFrame ==
  ASSUME IInv, TypeOK', NEW n \in Entries,
         UNCHANGED <<cached, count, streamVars, cleanVars, accepted, sent>>,
         \A q \in Entries \ {n} :
           relayPc'[q] = relayPc[q] /\ relayTodo'[q] = relayTodo[q],
         relayed \subseteq relayed', attempted \subseteq attempted',
         \A e \in relayed' \ relayed : Key(e) \in attempted,
         RelayInv(n)'
  PROVE  IInv'
  <1>1. \A s \in Streams : StreamInv(s)' /\ OrderInv(s)'
    BY StreamKept, BoundsAssumption DEF IInv, TypeOK, streamVars
  <1>2. \A q \in Entries \ {n} : RelayInv(q)'
    BY RelayKept DEF IInv
  <1>3. StoreInv' /\ CleanInv'
    BY DEF IInv, StoreInv, CleanInv, cleanVars
  <1>4. HandedInv' /\ NothingLost'
    BY DEF IInv, HandedInv, NothingLost, Key
  <1>5. QED
    BY <1>1, <1>2, <1>3, <1>4 DEF IInv

(* The list of a relay goroutine has one first event.                      *)
LEMMA OneFirst ==
  ASSUME TypeOK, NEW n \in Entries, RelayInv(n),
         NEW e, IsFirst(e, relayTodo[n]), NEW f, IsFirst(f, relayTodo[n])
  PROVE  e = f
  <1>1. e.at \in Nat /\ f.at \in Nat
    BY DEF IsFirst, TypeOK, Cache!Event, Cache!Stamps
  <1>2. QED
    BY <1>1 DEF IsFirst, RelayInv

(* RelayCachedEvents marks the event it has just tried to post.            *)
LEMMA RelayMarkIInv ==
  ASSUME IInv, TypeOK', NEW n \in Entries, RelayMark(n)
  PROVE  IInv'
  <1>1. PICK e \in relayTodo[n] :
          /\ IsFirst(e, relayTodo[n])
          /\ relayed' = relayed \cup {e}
          /\ relayTodo' = [relayTodo EXCEPT ![n] = @ \ {e}]
    BY DEF RelayMark
  <1>2. Key(e) \in attempted
    BY <1>1 DEF IInv, RelayInv, RelayMark
  <1>3. RelayInv(n)'
    BY <1>1 DEF IInv, TypeOK, RelayInv, RelayMark
  <1>4. QED
    BY <1>1, <1>2, <1>3, RelayFrame DEF IInv, TypeOK, RelayMark, pastVars

(* After a post, good or bad, the delivery counts as attempted.            *)
LEMMA RelayPostIInv ==
  ASSUME IInv, TypeOK', NEW n \in Entries, RelayPost(n) \/ RelayPostFails(n)
  PROVE  IInv'
  <1>1. /\ UNCHANGED <<cached, count, relayed, relayTodo, accepted, sent>>
        /\ UNCHANGED <<streamVars, cleanVars>>
        /\ \A q \in Entries \ {n} : relayPc'[q] = relayPc[q]
        /\ attempted \subseteq attempted'
    BY DEF IInv, TypeOK, RelayPost, RelayPostFails, storeVars
  <1>2. RelayInv(n)'
    <2>1. CASE relayPc'[n] = "mark"
      <3>1. PICK e \in relayTodo[n] : /\ IsFirst(e, relayTodo[n])
                                      /\ Key(e) \in attempted'
        BY <2>1 DEF IInv, TypeOK, RelayPost, RelayPostFails
      <3>2. \A f \in relayTodo[n] : IsFirst(f, relayTodo[n]) => f = e
        BY <3>1, OneFirst DEF IInv
      <3>3. QED
        BY <1>1, <3>1, <3>2 DEF IInv, RelayInv, Key, IsFirst
    <2>2. CASE relayPc'[n] # "mark"
      BY <1>1, <2>2 DEF IInv, RelayInv
    <2>3. QED
      BY <2>1, <2>2
  <1>3. QED
    BY <1>1, <1>2, RelayFrame DEF IInv

(* All steps of RelayCachedEvents.                                         *)
LEMMA RelayStepIInv ==
  ASSUME IInv, TypeOK', NEW n \in Entries, RelayStep(n)
  PROVE  IInv'
  <1>1. CASE RelayStart(n) \/ RelayDone(n) \/ RelayStop(n) \/ RelayScan(n)
    <2>1. RelayInv(n)'
      BY <1>1
      DEF IInv, TypeOK, RelayInv, RelayStart, RelayDone, RelayStop, RelayScan
    <2>2. QED
      BY <1>1, <2>1, RelayFrame
      DEF IInv, TypeOK, RelayStart, RelayDone, RelayStop, RelayScan, storeVars,
          pastVars
  <1>2. CASE RelayTick(n)
    <2>1. RelayInv(n)'
      BY <1>2 DEF IInv, TypeOK, StoreInv, RelayInv, RelayTick, List
    <2>2. QED
      BY <1>2, <2>1, RelayFrame DEF IInv, TypeOK, RelayTick, storeVars, pastVars
  <1>3. QED
    BY <1>1, <1>2, RelayMarkIInv, RelayPostIInv DEF RelayStep

-----------------------------------------------------------------------------
(* The cleanup                                                             *)

(* What the cleanup takes is one event, and one that is relayed.           *)
LEMMA CleanupEffect ==
  ASSUME IInv, CleanupCheck
  PROVE  \E e \in cleanTodo :
           /\ cleanTodo' = cleanTodo \ {e}
           /\ cached' = cached \/ (e \in relayed /\ cached' = cached \ {e})
  <1>1. PICK e \in cleanTodo :
          /\ cleanTodo' = cleanTodo \ {e}
          /\ \/ cached' = cached
             \/ e \in relayed /\ Cache!Remove(e.repo, e.id)
    BY DEF CleanupCheck
  <1>2. e \in cached
    BY DEF IInv, CleanInv
  <1>3. {f \in cached : ~(f.repo = e.repo /\ f.id = e.id)} = cached \ {e}
    BY <1>2 DEF IInv, StoreInv
  <1>4. QED
    BY <1>1, <1>3 DEF Cache!Remove

(* All steps of CleanupRelayedEvents: an event it removes is relayed, so   *)
(* its delivery has been handed to somebody.                               *)
LEMMA CleanupStepIInv ==
  ASSUME IInv, TypeOK', CleanupStep
  PROVE  IInv'
  <1>1. /\ UNCHANGED <<count, relayed, streamVars, relayVars, pastVars>>
        /\ cached' \subseteq cached
        /\ \A e \in cached \ cached' : e \in relayed
        /\ CleanInv'
    <2>1. CASE CleanupCheck
      BY <2>1, CleanupEffect DEF CleanupCheck, IInv, CleanInv
    <2>2. CASE ~CleanupCheck
      BY <2>2
      DEF IInv, CleanInv, CleanupStep, CleanupStart, CleanupTick, CleanupRepo,
          CleanupRepoDone, CleanupDone, CleanupReadTime, CleanupStop, List,
          storeVars
    <2>3. QED
      BY <2>1, <2>2
  <1>2. StoreInv' /\ HandedInv'
    BY <1>1 DEF IInv, StoreInv, HandedInv, pastVars, Key
  <1>3. \A s \in Streams : StreamInv(s)' /\ OrderInv(s)'
    BY <1>1, StreamKept, BoundsAssumption DEF IInv, TypeOK, streamVars, pastVars
  <1>4. \A n \in Entries : RelayInv(n)'
    BY <1>1, RelayKept DEF IInv, relayVars, pastVars
  <1>5. NothingLost'
    BY <1>1 DEF IInv, NothingLost, HandedInv, pastVars, Key
  <1>6. QED
    BY <1>1, <1>2, <1>3, <1>4, <1>5 DEF IInv

-----------------------------------------------------------------------------
(* The clock, the signals and main                                         *)

(* The clock, the signals and main leave the events alone.                 *)
LEMMA QuietIInv ==
  ASSUME IInv, TypeOK',
         UNCHANGED <<cached, count, relayed, conn, repo, batch, todo, sentBy>>,
         UNCHANGED <<relayVars, cleanTodo, pastVars>>
  PROVE  IInv'
  <1>1. \A s \in Streams : StreamInv(s)' /\ OrderInv(s)'
    BY StreamKept, BoundsAssumption DEF IInv, TypeOK, pastVars
  <1>2. \A n \in Entries : RelayInv(n)'
    BY RelayKept DEF IInv, relayVars, pastVars
  <1>3. StoreInv' /\ CleanInv'
    BY DEF IInv, StoreInv, CleanInv
  <1>4. HandedInv' /\ NothingLost'
    BY DEF IInv, HandedInv, NothingLost, pastVars, Key
  <1>5. QED
    BY <1>1, <1>2, <1>3, <1>4 DEF IInv

-----------------------------------------------------------------------------

(* The server starts in a state of the invariant.                          *)
LEMMA InitIInv == Init => IInv
  <1> SUFFICES ASSUME Init PROVE IInv
    OBVIOUS
  <1>1. StoreInv /\ HandedInv /\ CleanInv /\ NothingLost
    BY DEF Init, StoreInv, HandedInv, CleanInv, NothingLost
  <1>2. \A s \in Streams : StreamInv(s) /\ OrderInv(s)
    BY DEF Init, StreamInv, OrderInv
  <1>3. \A n \in Entries : RelayInv(n)
    BY DEF Init, RelayInv
  <1>4. QED
    BY <1>1, <1>2, <1>3, InitTypeOK DEF IInv

(* No step of anybody leaves the invariant.                                *)
LEMMA NextIInv == IInv /\ [Next]_vars => IInv'
  <1> SUFFICES ASSUME IInv, [Next]_vars PROVE IInv'
    OBVIOUS
  <1>1. TypeOK'
    BY NextTypeOK
    DEF IInv, TypeOK, vars, storeVars, streamVars, relayVars, cleanVars,
        mainVars, setVars, pastVars
  <1>2. ASSUME NEW s \in Streams, StreamStep(s) \/ ClientLeaves(s) PROVE IInv'
    <2>1. CASE \/ RetrieveRefused(s) \/ SendFails(s) \/ WindowOver(s)
               \/ ClientLeaves(s) \/ StreamInterrupted(s)
      BY <1>1, <2>1, ClosedStream
      DEF RetrieveRefused, SendFails, WindowOver, ClientLeaves,
          StreamInterrupted
    <2>2. QED
      BY <1>1, <1>2, <2>1, RetrieveIInv, SendEventsIInv, BeginUpdateIInv,
         SetIsRelayedIInv, SetTimeRelayedIInv, RoundIInv DEF StreamStep
  <1>3. ASSUME NEW r \in Repos, NEW i \in Ids,
               HandleGitHubPost(r, i) \/ WebhookEventPush(r, i)
        PROVE  IInv'
    BY <1>1, <1>3, StoreNewIInv DEF HandleGitHubPost, WebhookEventPush
  <1>4. CASE \/ Tick \/ MainStep \/ UNCHANGED vars
             \/ \E sig \in Signals : Signal(sig)
    BY <1>1, <1>4, QuietIInv
    DEF Tick, MainStep, StopHTTP, ShutdownTimeout, Exit, Signal, vars,
        storeVars, streamVars, cleanVars
  <1>5. QED
    BY <1>1, <1>2, <1>3, <1>4, RoundIInv, RelayStepIInv, CleanupStepIInv
    DEF Next, Environment, Exited

(* The invariant of the whole development.                                 *)
THEOREM Invariance == Spec => []IInv
  <1>1. Init => IInv
    BY InitIInv
  <1>2. IInv /\ [Next]_vars => IInv'
    BY NextIInv
  <1>3. QED
    BY <1>1, <1>2, PTL DEF Spec

(* Every variable of the server keeps its type.                            *)
THEOREM TypeCorrect == Spec => []TypeOK
  <1>1. IInv => TypeOK
    BY DEF IInv
  <1>2. QED
    BY <1>1, Invariance, PTL

(* An accepted delivery is cached until it has been sent or a post of it   *)
(* has been tried (gsf_server.go, relay.go).                               *)
THEOREM NothingLostAlways == Spec => []NothingLost
  <1>1. IInv => NothingLost
    BY DEF IInv
  <1>2. QED
    BY <1>1, Invariance, PTL

(* A call of FetchWebhookEvents sends in order and sends nothing twice     *)
(* (gsf_server.go, updateRelayStatus).                                     *)
THEOREM StreamInOrderAlways == Spec => []StreamInOrder
  <1>1. IInv => StreamInOrder
    BY DEF IInv, OrderInv, Newer, StreamInOrder
  <1>2. QED
    BY <1>1, Invariance, PTL

(* Only CleanupCheck takes events out of the cache.                        *)
LEMMA RemovedIsRelayed ==
  ASSUME IInv, [Next]_vars
  PROVE  \A e \in cached : e \notin cached' => e \in relayed
  <1>1. CASE CleanupCheck
    BY <1>1, CleanupEffect
  <1>2. CASE Next /\ ~CleanupCheck
    <2>1. cached \subseteq cached'
      BY <1>2
      DEF Next, Environment, StreamStep, RelayStep, CleanupStep, MainStep,
          Exited, HandleGitHubPost, WebhookEventPush, StoreNew, Cache!Store,
          FetchWebhookEvents, Retrieve, RetrieveRefused, SendEvents, SendFails,
          BeginUpdate, SetIsRelayed, SetTimeRelayed, NextRound, WindowOver,
          ClientLeaves, StreamInterrupted, RelayStart, RelayTick, RelayScan,
          RelayDone, RelayPost, RelayPostFails, RelayMark, RelayStop,
          CleanupStart, CleanupTick, CleanupRepo, CleanupRepoDone, CleanupDone,
          CleanupReadTime, CleanupStop, Tick, Signal, StopHTTP,
          ShutdownTimeout, Exit, storeVars, vars
    <2>2. QED
      BY <2>1
  <1>3. CASE UNCHANGED vars
    BY <1>3 DEF vars, storeVars
  <1>4. QED
    BY <1>1, <1>2, <1>3

(* An event that leaves the cache was relayed, although Remove takes it by *)
(* its id (relay.go, CleanupRelayedEvents).                                *)
THEOREM NoUnrelayedRemovalAlways == Spec => NoUnrelayedRemoval
  <1>1. ASSUME IInv, [Next]_vars
        PROVE  [\A e \in cached : e \notin cached' => e \in relayed]_vars
    BY <1>1, RemovedIsRelayed
  <1>2. QED
    BY <1>1, Invariance, PTL DEF Spec, NoUnrelayedRemoval
===============================================================================
