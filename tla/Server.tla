-------------------------------- MODULE Server --------------------------------
(***************************************************************************)
(* The relay server: everything that happens to a webhook event between    *)
(* the moment it is accepted and the moment it leaves the cache.           *)
(*                                                                         *)
(*   GitHub posts events          internal/api/v1/github.go                *)
(*   upstream servers push them   internal/server/gsf_server.go            *)
(*   clients stream them          internal/server/gsf_server.go            *)
(*   a goroutine per entry of -repositories posts them to the relay        *)
(*   target, and one removes those relayed long enough ago                 *)
(*                                internal/relay/relay.go                  *)
(*   signals stop it all          cmd/server/main.go                       *)
(*                                                                         *)
(* The process ends here by a signal, by a failed start of a goroutine of  *)
(* relay.go, or by a failed push.  Lifecycle has its other ends.           *)
(*                                                                         *)
(* The cache is an EventStore, whose operations are single steps here      *)
(* (InMemoryStore says why they may be).  Its events are pointers that all *)
(* the goroutines share, so the flag IsRelayed and the time TimeRelayed    *)
(* are read and written with no lock, one access at a time.                *)
(***************************************************************************)
EXTENDS Naturals, FiniteSets

CONSTANTS
  Repos,        (* repository ids                                          *)
  NoRepo,       (* what a closed stream has asked for                      *)
  Entries,      (* places in the list of the flag -repositories            *)
  RepoOf,       (* the repository at each place; one may be listed twice   *)
  Ids,          (* delivery ids                                            *)
  Streams,      (* slots for open FetchWebhookEvents calls                 *)
  Relays,       (* settings tried of -relayEnabled and -relayProtocol      *)
  OTelSettings, (* settings tried of the variable OTEL_ENABLED             *)
  Signals,      (* the signals the process may get                         *)
  Retention,    (* two minutes, in steps of the clock                      *)
  MaxStores     (* bound: events appended to the cache in one behaviour    *)

ASSUME EntriesAssumption == RepoOf \in [Entries -> Repos]
ASSUME RelaysAssumption == Relays \subseteq {"off", "http", "grpc"}
ASSUME OTelAssumption == OTelSettings \subseteq BOOLEAN
ASSUME SignalsAssumption == Signals \subseteq {"INT", "TERM"}
ASSUME BoundsAssumption == Retention \in Nat /\ MaxStores \in Nat

VARIABLES
  cached,       (* the events in the cache                                 *)
  count,        (* the stamp of the last event appended                    *)
  relayed,      (* events with IsRelayed set, in the cache or not          *)
  age,          (* time since TimeRelayed, by the stamp of the event       *)
  conn,         (* where each stream is in its loop                        *)
  repo,         (* the repository it asked for                             *)
  batch,        (* the events of its round                                 *)
  todo,         (* the cached events updateRelayStatus has yet to mark     *)
  notified,     (* streams whose own signal context is done                *)
  relayPc,      (* where RelayCachedEvents is, for each entry              *)
  relayTodo,    (* the rest of the list it is going through                *)
  cleanPc,      (* where CleanupRelayedEvents is                           *)
  cleanRepos,   (* the entries left of its pass                            *)
  cleanTodo,    (* the rest of the list it is going through                *)
  cleanAge,     (* time since the TimeRelayed it read last                 *)
  relay,        (* the relay setting                                       *)
  otel,         (* whether OpenTelemetry is enabled                        *)
  ctxDone,      (* the context of main is cancelled                        *)
  phase,        (* how far main has come                                   *)
  accepted,     (* history: deliveries somebody was told are accepted      *)
  sent,         (* history: deliveries for which srv.Send returned nil     *)
  sentBy,       (* history: events sent by the open call of each stream    *)
  attempted,    (* history: deliveries the relay tried to post             *)
  attemptedBy,  (* history: events each relay goroutine tried to post      *)
  posted        (* history: deliveries the relay target answered           *)

storeVars == <<cached, count, relayed, age>>
streamVars == <<conn, repo, batch, todo, notified, sentBy>>
relayVars == <<relayPc, relayTodo>>
cleanVars == <<cleanPc, cleanRepos, cleanTodo, cleanAge>>
mainVars == <<ctxDone, phase>>
setVars == <<relay, otel>>
pastVars == <<accepted, sent, attempted, attemptedBy, posted>>

vars == <<storeVars, streamVars, relayVars, cleanVars, mainVars, setVars,
          pastVars>>

Cache == INSTANCE EventStore WITH held <- cached

Stamps == Cache!Stamps
Event == Cache!Event
Key(e) == <<e.repo, e.id>>

(* RepositoryIsWatched.                                                    *)
Watched == {RepoOf[n] : n \in Entries}

List(r) == {e \in cached : e.repo = r}

(* The loops go through a list from its first event to its last.           *)
IsFirst(e, S) == e \in S /\ \A f \in S : e.at <= f.at

(* An age is Never while TimeRelayed has its zero value.  time.Now() is    *)
(* after TimeRelayed plus two minutes when the age is above Retention; the *)
(* zero value is long past too.                                            *)
Never == Retention + 2
Age == 0 .. Never

(* The bound on ages: past Retention it no longer matters by how much.     *)
Older(a) == IF a <= Retention THEN a + 1 ELSE a

-----------------------------------------------------------------------------

Init ==
  /\ cached = {}
  /\ count = 0
  /\ relayed = {}
  /\ age = [n \in Stamps |-> Never]
  /\ conn = [s \in Streams |-> "closed"]
  /\ repo = [s \in Streams |-> NoRepo]
  /\ batch = [s \in Streams |-> {}]
  /\ todo = [s \in Streams |-> {}]
  /\ notified = {}
  /\ relay \in Relays
  /\ otel \in OTelSettings
  /\ relayPc = [n \in Entries |-> IF relay = "off" THEN "off" ELSE "start"]
  /\ relayTodo = [n \in Entries |-> {}]
  /\ cleanPc = "start"
  /\ cleanRepos = {}
  /\ cleanTodo = {}
  /\ cleanAge = Never
  /\ ctxDone = FALSE
  /\ phase = "serving"
  /\ accepted = {}
  /\ sent = {}
  /\ sentBy = [s \in Streams |-> {}]
  /\ attempted = {}
  /\ attemptedBy = [n \in Entries |-> {}]
  /\ posted = {}

(* -- Events come in ------------------------------------------------------*)

(* A new event at the end of the list of r, not relayed.                   *)
StoreNew(r, i) ==
  /\ count < MaxStores
  /\ Cache!Store([repo |-> r, id |-> i, at |-> count + 1])
  /\ count' = count + 1
  /\ accepted' = accepted \cup {<<r, i>>}
  /\ UNCHANGED <<relayed, age, streamVars, relayVars, cleanVars, mainVars,
                 setVars, sent, attempted, attemptedBy, posted>>

(* Echo lets requests finish that were under way when Shutdown began.      *)
(* Every answer but "Repository event cached" leaves the server as it was: *)
(* an event not of a repository, a bad digest, a repository that is not    *)
(* watched, a delivery already cached.                                     *)
HandleGitHubPost(r, i) ==
  /\ phase \in {"serving", "httpClosing"}
  /\ r \in Watched
  /\ StoreNew(r, i)

(* An upstream server pushes an event.  The answer is Accepted whether the *)
(* event is new or not, and the repository is not looked up.               *)
WebhookEventPush(r, i) ==
  /\ phase \in {"serving", "httpClosing"}
  /\ StoreNew(r, i)

(* -- FetchWebhookEvents --------------------------------------------------*)

Close(s) ==
  /\ conn' = [conn EXCEPT ![s] = "closed"]
  /\ repo' = [repo EXCEPT ![s] = NoRepo]
  /\ batch' = [batch EXCEPT ![s] = {}]
  /\ todo' = [todo EXCEPT ![s] = {}]
  /\ sentBy' = [sentBy EXCEPT ![s] = {}]
  /\ notified' = notified \ {s}

(* A client calls.  The signal context of the stream starts here: it knows *)
(* nothing of a signal that came before.                                   *)
FetchWebhookEvents(s, r) ==
  /\ phase \in {"serving", "httpClosing"}
  /\ conn[s] = "closed"
  /\ conn' = [conn EXCEPT ![s] = "waiting"]
  /\ repo' = [repo EXCEPT ![s] = r]
  /\ UNCHANGED <<storeVars, batch, todo, notified, sentBy, relayVars,
                 cleanVars, mainVars, setVars, pastVars>>

Unrelayed(r) == List(r) \ relayed

(* Fault: events relayed before are not skipped.                           *)
RetrieveAll(s) ==
  /\ conn[s] = "waiting"
  /\ repo[s] \in Watched
  /\ batch' = [batch EXCEPT ![s] = List(repo[s])]
  /\ conn' = [conn EXCEPT ![s] = "retrieved"]
  /\ UNCHANGED <<storeVars, repo, todo, notified, sentBy, relayVars,
                 cleanVars, mainVars, setVars, pastVars>>

(* Fault: the repository is not looked up.                                 *)
RetrieveUnwatched(s) ==
  /\ conn[s] = "waiting"
  /\ batch' = [batch EXCEPT ![s] = Unrelayed(repo[s])]
  /\ conn' = [conn EXCEPT ![s] = "retrieved"]
  /\ UNCHANGED <<storeVars, repo, todo, notified, sentBy, relayVars,
                 cleanVars, mainVars, setVars, pastVars>>

(* The response interval is over: the events not relayed yet.  The loop    *)
(* reads the flags one after the other, and they only ever get set: it may *)
(* besides leave out an event that somebody else hands out and marks       *)
(* meanwhile.                                                              *)
Retrieve(s) ==
  /\ conn[s] = "waiting"
  /\ repo[s] \in Watched
  /\ batch' = [batch EXCEPT ![s] = Unrelayed(repo[s])]
  /\ conn' = [conn EXCEPT ![s] = "retrieved"]
  /\ UNCHANGED <<storeVars, repo, todo, notified, sentBy, relayVars,
                 cleanVars, mainVars, setVars, pastVars>>

(* A repository that is not watched ends the stream with an error.         *)
RetrieveRefused(s) ==
  /\ conn[s] = "waiting"
  /\ repo[s] \notin Watched
  /\ Close(s)
  /\ UNCHANGED <<storeVars, relayVars, cleanVars, mainVars, setVars, pastVars>>

(* srv.Send blocks as long as the client does not read.                    *)
SendEvents(s) ==
  /\ conn[s] = "retrieved"
  /\ sent' = sent \cup {Key(e) : e \in batch[s]}
  /\ sentBy' = [sentBy EXCEPT ![s] = @ \cup batch[s]]
  /\ conn' = [conn EXCEPT ![s] = "sent"]
  /\ UNCHANGED <<storeVars, repo, batch, todo, notified, relayVars, cleanVars,
                 mainVars, setVars, accepted, attempted, attemptedBy, posted>>

SendFails(s) ==
  /\ conn[s] = "retrieved"
  /\ Close(s)
  /\ UNCHANGED <<storeVars, relayVars, cleanVars, mainVars, setVars, pastVars>>

(* Fault: the ids are looked up in the whole cache.                        *)
BeginUpdateAnyRepository(s) ==
  /\ conn[s] = "sent"
  /\ todo' = [todo EXCEPT ![s] =
       {c \in cached : \E b \in batch[s] : b.id = c.id}]
  /\ conn' = [conn EXCEPT ![s] = "marking"]
  /\ UNCHANGED <<storeVars, repo, batch, notified, sentBy, relayVars,
                 cleanVars, mainVars, setVars, pastVars>>

(* updateRelayStatus retrieves the list anew and finds the events of the   *)
(* batch in it by their ids.                                               *)
BeginUpdate(s) ==
  /\ conn[s] = "sent"
  /\ todo' = [todo EXCEPT ![s] =
       {c \in List(repo[s]) : \E b \in batch[s] : b.id = c.id}]
  /\ conn' = [conn EXCEPT ![s] = "marking"]
  /\ UNCHANGED <<storeVars, repo, batch, notified, sentBy, relayVars,
                 cleanVars, mainVars, setVars, pastVars>>

(* The outer loop of updateRelayStatus follows the batch.                  *)
IsMarked(s, c) ==
  /\ c \in todo[s]
  /\ \E b \in batch[s] :
       /\ b.id = c.id
       /\ \A d \in todo[s], a \in batch[s] : a.id = d.id => b.at <= a.at

(* Fault: only the time is set, not the flag.                              *)
SetIsRelayedNever(s) ==
  /\ conn[s] = "marking"
  /\ \E c \in todo[s] : IsMarked(s, c)
  /\ conn' = [conn EXCEPT ![s] = "stamping"]
  /\ UNCHANGED <<storeVars, repo, batch, todo, notified, sentBy, relayVars,
                 cleanVars, mainVars, setVars, pastVars>>

SetIsRelayed(s) ==
  /\ conn[s] = "marking"
  /\ \E c \in todo[s] : IsMarked(s, c) /\ relayed' = relayed \cup {c}
  /\ conn' = [conn EXCEPT ![s] = "stamping"]
  /\ UNCHANGED <<cached, count, age, repo, batch, todo, notified, sentBy,
                 relayVars, cleanVars, mainVars, setVars, pastVars>>

(* The age of an event that has left the cache is of no consequence.       *)
SetTimeRelayed(s) ==
  /\ conn[s] = "stamping"
  /\ \E c \in todo[s] :
       /\ IsMarked(s, c)
       /\ age' = IF c \in cached THEN [age EXCEPT ![c.at] = 0] ELSE age
       /\ todo' = [todo EXCEPT ![s] = @ \ {c}]
  /\ conn' = [conn EXCEPT ![s] = "marking"]
  /\ UNCHANGED <<cached, count, relayed, repo, batch, notified, sentBy,
                 relayVars, cleanVars, mainVars, setVars, pastVars>>

(* The window of the stream has time left for another round.               *)
NextRound(s) ==
  /\ conn[s] = "marking"
  /\ todo[s] = {}
  /\ conn' = [conn EXCEPT ![s] = "waiting"]
  /\ batch' = [batch EXCEPT ![s] = {}]
  /\ UNCHANGED <<storeVars, repo, todo, notified, sentBy, relayVars,
                 cleanVars, mainVars, setVars, pastVars>>

(* Fault: the loop does not look at finish.                                *)
WindowNeverOver(s) == FALSE /\ UNCHANGED vars

WindowOver(s) ==
  /\ conn[s] = "marking"
  /\ todo[s] = {}
  /\ Close(s)
  /\ UNCHANGED <<storeVars, relayVars, cleanVars, mainVars, setVars, pastVars>>

(* The client has left while the stream waits for its next round.          *)
ClientLeaves(s) ==
  /\ conn[s] = "waiting"
  /\ Close(s)
  /\ UNCHANGED <<storeVars, relayVars, cleanVars, mainVars, setVars, pastVars>>

(* The signal context of the stream is done.                               *)
StreamInterrupted(s) ==
  /\ conn[s] = "waiting"
  /\ s \in notified
  /\ Close(s)
  /\ UNCHANGED <<storeVars, relayVars, cleanVars, mainVars, setVars, pastVars>>

(* -- RelayCachedEvents ---------------------------------------------------*)

(* The goroutine asks the meter provider for a meter before its loop.      *)
(* Without OpenTelemetry there is no meter provider, and none either when  *)
(* SetupOTelSDK fails: a nil pointer, and a panic that ends the process.   *)
(* An exporter that cannot be made is fatal.                               *)
RelayStart(n) ==
  /\ relayPc[n] = "start"
  /\ \/ /\ otel
        /\ relayPc' = [relayPc EXCEPT ![n] = "idle"]
        /\ UNCHANGED phase
     \/ phase' = "exited" /\ UNCHANGED relayPc
  /\ UNCHANGED <<storeVars, streamVars, relayTodo, cleanVars, ctxDone, setVars,
                 pastVars>>

RelayTick(n) ==
  /\ relayPc[n] = "idle"
  /\ relayPc' = [relayPc EXCEPT ![n] = "scan"]
  /\ relayTodo' = [relayTodo EXCEPT ![n] = List(RepoOf[n])]
  /\ UNCHANGED <<storeVars, streamVars, cleanVars, mainVars, setVars, pastVars>>

(* Fault: an event relayed before is not skipped.                          *)
RelayScanAll(n) ==
  /\ relayPc[n] = "scan"
  /\ relayTodo[n] # {}
  /\ relayPc' = [relayPc EXCEPT ![n] = "post"]
  /\ UNCHANGED <<storeVars, streamVars, relayTodo, cleanVars, mainVars, setVars,
                 pastVars>>

(* The flag is read when the loop comes to the event, and not again before *)
(* the event has been posted.                                              *)
RelayScan(n) ==
  /\ relayPc[n] = "scan"
  /\ \E e \in relayTodo[n] :
       /\ IsFirst(e, relayTodo[n])
       /\ IF e \in relayed
            THEN /\ relayTodo' = [relayTodo EXCEPT ![n] = @ \ {e}]
                 /\ UNCHANGED relayPc
            ELSE /\ relayPc' = [relayPc EXCEPT ![n] = "post"]
                 /\ UNCHANGED relayTodo
  /\ UNCHANGED <<storeVars, streamVars, cleanVars, mainVars, setVars, pastVars>>

RelayDone(n) ==
  /\ relayPc[n] = "scan"
  /\ relayTodo[n] = {}
  /\ relayPc' = [relayPc EXCEPT ![n] = "idle"]
  /\ UNCHANGED <<storeVars, streamVars, relayTodo, cleanVars, mainVars,
                 setVars, pastVars>>

(* HTTPRelay or GRPCRelay, which set no time within which they return.     *)
RelayPost(n) ==
  /\ relayPc[n] = "post"
  /\ \E e \in relayTodo[n] :
       /\ IsFirst(e, relayTodo[n])
       /\ attempted' = attempted \cup {Key(e)}
       /\ attemptedBy' = [attemptedBy EXCEPT ![n] = @ \cup {e}]
       /\ posted' = posted \cup {Key(e)}
  /\ relayPc' = [relayPc EXCEPT ![n] = "mark"]
  /\ UNCHANGED <<storeVars, streamVars, relayTodo, cleanVars, mainVars,
                 setVars, accepted, sent>>

(* Fault: a failed push is logged like a failed post.                      *)
RelayPostFailsGoesOn(n) ==
  /\ relayPc[n] = "post"
  /\ relayPc' = [relayPc EXCEPT ![n] = "mark"]
  /\ \E e \in relayTodo[n] :
       /\ IsFirst(e, relayTodo[n])
       /\ attempted' = attempted \cup {Key(e)}
       /\ attemptedBy' = [attemptedBy EXCEPT ![n] = @ \cup {e}]
  /\ UNCHANGED <<storeVars, streamVars, relayTodo, cleanVars, mainVars,
                 setVars, accepted, sent, posted>>

(* A failed post over HTTP is logged and the loop goes on as after a good  *)
(* one; a failed push over gRPC is fatal.                                  *)
RelayPostFails(n) ==
  /\ relayPc[n] = "post"
  /\ IF relay = "grpc"
       THEN phase' = "exited" /\ UNCHANGED <<relayPc, attempted, attemptedBy>>
       ELSE /\ relayPc' = [relayPc EXCEPT ![n] = "mark"]
            /\ \E e \in relayTodo[n] :
                 /\ IsFirst(e, relayTodo[n])
                 /\ attempted' = attempted \cup {Key(e)}
                 /\ attemptedBy' = [attemptedBy EXCEPT ![n] = @ \cup {e}]
            /\ UNCHANGED phase
  /\ UNCHANGED <<storeVars, streamVars, relayTodo, cleanVars, ctxDone, setVars,
                 accepted, sent, posted>>

(* Fault: the whole list is marked with its first event.                   *)
RelayMarkAll(n) ==
  /\ relayPc[n] = "mark"
  /\ relayed' = relayed \cup relayTodo[n]
  /\ relayTodo' = [relayTodo EXCEPT ![n] = {}]
  /\ relayPc' = [relayPc EXCEPT ![n] = "scan"]
  /\ UNCHANGED <<cached, count, age, streamVars, cleanVars, mainVars, setVars,
                 pastVars>>

(* IsRelayed is set whatever became of the post, TimeRelayed is not.       *)
RelayMark(n) ==
  /\ relayPc[n] = "mark"
  /\ \E e \in relayTodo[n] :
       /\ IsFirst(e, relayTodo[n])
       /\ relayed' = relayed \cup {e}
       /\ relayTodo' = [relayTodo EXCEPT ![n] = @ \ {e}]
  /\ relayPc' = [relayPc EXCEPT ![n] = "scan"]
  /\ UNCHANGED <<cached, count, age, streamVars, cleanVars, mainVars, setVars,
                 pastVars>>

RelayStop(n) ==
  /\ relayPc[n] = "idle"
  /\ ctxDone
  /\ relayPc' = [relayPc EXCEPT ![n] = "off"]
  /\ UNCHANGED <<storeVars, streamVars, relayTodo, cleanVars, mainVars,
                 setVars, pastVars>>

(* -- CleanupRelayedEvents ------------------------------------------------*)

(* With OpenTelemetry on, the meter provider may be missing here too.      *)
CleanupStart ==
  /\ cleanPc = "start"
  /\ \/ cleanPc' = "idle" /\ UNCHANGED phase
     \/ otel /\ phase' = "exited" /\ UNCHANGED cleanPc
  /\ UNCHANGED <<storeVars, streamVars, relayVars, cleanRepos, cleanTodo,
                 cleanAge, ctxDone, setVars, pastVars>>

CleanupTick ==
  /\ cleanPc = "idle"
  /\ cleanPc' = "repos"
  /\ cleanRepos' = Entries
  /\ UNCHANGED <<storeVars, streamVars, relayVars, cleanTodo, cleanAge,
                 mainVars, setVars, pastVars>>

CleanupRepo(n) ==
  /\ cleanPc = "repos"
  /\ n \in cleanRepos
  /\ cleanRepos' = cleanRepos \ {n}
  /\ cleanTodo' = List(RepoOf[n])
  /\ cleanPc' = "events"
  /\ UNCHANGED <<storeVars, streamVars, relayVars, cleanAge, mainVars, setVars,
                 pastVars>>

CleanupRepoDone ==
  /\ cleanPc = "events"
  /\ cleanTodo = {}
  /\ cleanPc' = "repos"
  /\ UNCHANGED <<storeVars, streamVars, relayVars, cleanRepos, cleanTodo,
                 cleanAge, mainVars, setVars, pastVars>>

(* Fault: the goroutine returns after its first pass.                      *)
CleanupDoneReturns ==
  /\ cleanPc = "repos"
  /\ cleanRepos = {}
  /\ cleanPc' = "off"
  /\ UNCHANGED <<storeVars, streamVars, relayVars, cleanRepos, cleanTodo,
                 cleanAge, mainVars, setVars, pastVars>>

CleanupDone ==
  /\ cleanPc = "repos"
  /\ cleanRepos = {}
  /\ cleanPc' = "idle"
  /\ UNCHANGED <<storeVars, streamVars, relayVars, cleanRepos, cleanTodo,
                 cleanAge, mainVars, setVars, pastVars>>

(* relayTime is computed before IsRelayed is looked at.                    *)
CleanupReadTime ==
  /\ cleanPc = "events"
  /\ \E e \in cleanTodo : IsFirst(e, cleanTodo) /\ cleanAge' = age[e.at]
  /\ cleanPc' = "check"
  /\ UNCHANGED <<storeVars, streamVars, relayVars, cleanRepos, cleanTodo,
                 mainVars, setVars, pastVars>>

(* Fault: either condition is enough.                                      *)
CleanupCheckEither ==
  /\ cleanPc = "check"
  /\ \E e \in cleanTodo :
       /\ IsFirst(e, cleanTodo)
       /\ IF e \in relayed \/ cleanAge > Retention
            THEN /\ Cache!Remove(e.repo, e.id)
                 /\ age' = [age EXCEPT ![e.at] = Never]
            ELSE UNCHANGED <<cached, age>>
       /\ cleanTodo' = cleanTodo \ {e}
  /\ cleanAge' = Never
  /\ cleanPc' = "events"
  /\ UNCHANGED <<count, relayed, streamVars, relayVars, cleanRepos, mainVars,
                 setVars, pastVars>>

CleanupCheck ==
  /\ cleanPc = "check"
  /\ \E e \in cleanTodo :
       /\ IsFirst(e, cleanTodo)
       /\ IF e \in relayed /\ cleanAge > Retention
            THEN /\ Cache!Remove(e.repo, e.id)
                 /\ age' = [age EXCEPT ![e.at] = Never]
            ELSE UNCHANGED <<cached, age>>
       /\ cleanTodo' = cleanTodo \ {e}
  /\ cleanAge' = Never
  /\ cleanPc' = "events"
  /\ UNCHANGED <<count, relayed, streamVars, relayVars, cleanRepos, mainVars,
                 setVars, pastVars>>

CleanupStop ==
  /\ cleanPc = "idle"
  /\ ctxDone
  /\ cleanPc' = "off"
  /\ UNCHANGED <<storeVars, streamVars, relayVars, cleanRepos, cleanTodo,
                 cleanAge, mainVars, setVars, pastVars>>

(* -- Time, signals and main ----------------------------------------------*)

Tick ==
  /\ \E n \in Stamps : age[n] <= Retention
  /\ age' = [n \in Stamps |-> Older(age[n])]
  /\ cleanAge' = Older(cleanAge)
  /\ UNCHANGED <<cached, count, relayed, streamVars, relayVars, cleanPc,
                 cleanRepos, cleanTodo, mainVars, setVars, pastVars>>

(* Both signals cancel the context of main and those of the open streams;  *)
(* only the interrupt reaches the channel that main waits on.              *)
Signal(sig) ==
  /\ ctxDone' = TRUE
  /\ notified' = {s \in Streams : conn[s] # "closed"}
  /\ phase' = IF sig = "INT" /\ phase = "serving" THEN "httpClosing" ELSE phase
  /\ UNCHANGED <<storeVars, conn, repo, batch, todo, sentBy, relayVars,
                 cleanVars, setVars, pastVars>>

(* echoServer.Shutdown returns: no request is under way.                   *)
StopHTTP ==
  /\ phase = "httpClosing"
  /\ phase' = "grpcClosing"
  /\ UNCHANGED <<storeVars, streamVars, relayVars, cleanVars, ctxDone, setVars,
                 pastVars>>

(* Some request takes longer than ten seconds.                             *)
ShutdownTimeout ==
  /\ phase = "httpClosing"
  /\ phase' = "exited"
  /\ UNCHANGED <<storeVars, streamVars, relayVars, cleanVars, ctxDone, setVars,
                 pastVars>>

(* GracefulStop returns when the last stream is closed, and main with it.  *)
Exit ==
  /\ phase = "grpcClosing"
  /\ \A s \in Streams : conn[s] = "closed"
  /\ phase' = "exited"
  /\ UNCHANGED <<storeVars, streamVars, relayVars, cleanVars, ctxDone, setVars,
                 pastVars>>

-----------------------------------------------------------------------------

(* What the goroutine of a stream does by itself.                          *)
StreamStep(s) ==
  \/ Retrieve(s)
  \/ RetrieveRefused(s)
  \/ SendEvents(s)
  \/ SendFails(s)
  \/ BeginUpdate(s)
  \/ SetIsRelayed(s)
  \/ SetTimeRelayed(s)
  \/ NextRound(s)
  \/ WindowOver(s)
  \/ StreamInterrupted(s)

RelayStep(n) ==
  \/ RelayStart(n)
  \/ RelayTick(n)
  \/ RelayScan(n)
  \/ RelayDone(n)
  \/ RelayPost(n)
  \/ RelayPostFails(n)
  \/ RelayMark(n)
  \/ RelayStop(n)

CleanupStep ==
  \/ CleanupStart
  \/ CleanupTick
  \/ \E n \in cleanRepos : CleanupRepo(n)
  \/ CleanupRepoDone
  \/ CleanupDone
  \/ CleanupReadTime
  \/ CleanupCheck
  \/ CleanupStop

MainStep == StopHTTP \/ ShutdownTimeout \/ Exit

(* What others do to the server.                                           *)
Environment ==
  \/ \E r \in Repos, i \in Ids : HandleGitHubPost(r, i) \/ WebhookEventPush(r, i)
  \/ \E s \in Streams, r \in Repos : FetchWebhookEvents(s, r)
  \/ \E s \in Streams : ClientLeaves(s)
  \/ \E sig \in Signals : Signal(sig)

Exited == phase = "exited" /\ UNCHANGED vars

Next ==
  \/ /\ phase # "exited"
     /\ \/ Environment
        \/ \E s \in Streams : StreamStep(s)
        \/ \E n \in Entries : RelayStep(n)
        \/ CleanupStep
        \/ Tick
        \/ MainStep
  \/ Exited

Running(A) == phase # "exited" /\ A

(* The server's own goroutines and the clock always go on, but for a relay *)
(* goroutine in a post or a push: neither has a deadline or a timeout, so  *)
(* nothing obliges it to return.  Of a blocked Send we assume that it      *)
(* returns: the client reads in the end, or the connection breaks.  A      *)
(* stream does not live longer than its window: it does not find time left *)
(* for ever.                                                               *)
ServerFairness ==
  /\ \A s \in Streams : /\ WF_vars(Running(StreamStep(s)))
                       /\ SF_vars(Running(WindowOver(s)))
  /\ \A n \in Entries : WF_vars(Running(relayPc[n] # "post" /\ RelayStep(n)))
  /\ WF_vars(Running(CleanupStep))
  /\ WF_vars(Running(Tick))
  /\ WF_vars(Running(MainStep))

ClientsOnly(A) == relay = "off" /\ Running(A)

(* With the relay off, clients of a watched repository come back (a client *)
(* calls again three seconds after a stream has ended), and not every      *)
(* round and every Send fails them.  With the relay on nobody need call.   *)
ClientFairness ==
  \A r \in Watched :
    /\ SF_vars(ClientsOnly(\E s \in Streams : FetchWebhookEvents(s, r)))
    /\ SF_vars(ClientsOnly(\E s \in Streams : repo[s] = r /\ Retrieve(s)))
    /\ SF_vars(ClientsOnly(\E s \in Streams : repo[s] = r /\ SendEvents(s)))

Spec == Init /\ [][Next]_vars

FairSpec == Spec /\ ServerFairness

FairSpecWithClients == FairSpec /\ ClientFairness

-----------------------------------------------------------------------------
(* Properties                                                              *)

(* Types: each goroutine is at one of the points of its loop; a stream has *)
(* events of its own repository in hand and to mark, although the marks go *)
(* by the delivery id, which another repository may have as well.          *)
TypeOK ==
  /\ cached \subseteq Event
  /\ count \in 0 .. MaxStores
  /\ relayed \subseteq Event
  /\ age \in [Stamps -> Age]
  /\ conn \in [Streams -> {"closed", "waiting", "retrieved", "sent", "marking",
                          "stamping"}]
  /\ repo \in [Streams -> Repos \cup {NoRepo}]
  /\ batch \in [Streams -> SUBSET Event]
  /\ todo \in [Streams -> SUBSET Event]
  /\ \A s \in Streams :
       /\ conn[s] = "closed" => batch[s] \cup todo[s] = {}
       /\ \A e \in batch[s] \cup todo[s] : e.repo = repo[s]
  /\ notified \subseteq Streams
  /\ relayPc \in [Entries -> {"off", "start", "idle", "scan", "post", "mark"}]
  /\ relayTodo \in [Entries -> SUBSET Event]
  /\ cleanPc \in {"start", "idle", "repos", "events", "check", "off"}
  /\ cleanRepos \subseteq Entries
  /\ cleanTodo \subseteq Event
  /\ cleanAge \in Age
  /\ relay \in Relays
  /\ otel \in OTelSettings
  /\ ctxDone \in BOOLEAN
  /\ phase \in {"serving", "httpClosing", "grpcClosing", "exited"}
  /\ accepted \in SUBSET (Repos \X Ids)
  /\ sent \in SUBSET (Repos \X Ids)
  /\ sentBy \in [Streams -> SUBSET Event]
  /\ attempted \in SUBSET (Repos \X Ids)
  /\ attemptedBy \in [Entries -> SUBSET Event]
  /\ posted \in SUBSET (Repos \X Ids)

(* An accepted delivery is in the cache until a stream has sent it or the  *)
(* relay has tried to post it, whatever the cleanup and the streams do to  *)
(* each other's events meanwhile.                                          *)
NothingLost ==
  accepted \subseteq {Key(e) : e \in cached} \cup sent \cup attempted

(* One stream sends the events of its repository in the order in which     *)
(* they were cached and none of them twice: what a round retrieves is      *)
(* newer than all that the call has sent, although the marks of the last   *)
(* round were set one by one on a list retrieved a second time.            *)
StreamInOrder ==
  \A s \in Streams : conn[s] = "retrieved" =>
    \A e \in batch[s], f \in sentBy[s] : e.at > f.at

(* Remove goes by the delivery id.  It never takes an event that is not    *)
(* relayed yet, nor another one that came in under the same id.            *)
NoUnrelayedRemoval ==
  [][\A e \in cached : e \notin cached' => e \in relayed]_vars

(* Whatever was pushed, what is handed out is of a repository that is      *)
(* watched: the streams refuse the others, and no relay goroutine comes to *)
(* them.  It does not say that nothing else is taken in: WebhookEventPush  *)
(* accepts and caches the event of any repository.                         *)
OnlyWatchedHandedOut == \A k \in sent \cup attempted : k[1] \in Watched

(* Deliveries in the cache that nobody has been handed yet.                *)
Waiting == {Key(e) : e \in cached} \ (sent \cup attempted)

Promise ==
  INSTANCE Delivery WITH Deliveries <- Repos \X Ids, pending <- Waiting,
                         tried <- sent \cup attempted, touched <- {}

(* What the server does is what Delivery promises, with no fault to touch  *)
(* a delivery: nothing is handed out that does not wait, nothing that was  *)
(* handed out waits again when it is cached again, and what waits ceases   *)
(* to only by being handed out.                                            *)
ImplementsDelivery == Promise!Spec

(* Over gRPC and with the relay off, what counts as relayed was delivered: *)
(* a failed push ends the process before the event is marked.  Over HTTP   *)
(* it does not (RelayedMeansDelivered, below).                             *)
PushedMeansDelivered ==
  relay # "http" => \A e \in relayed : Key(e) \in sent \cup posted

(* A goroutine of the relay posts an event once at most, whoever posts,    *)
(* sends, marks or removes it meanwhile: so the target gets it once for    *)
(* each time that its repository is listed, and again only after it has    *)
(* left the cache and come in anew.                                        *)
PostedOnceEach ==
  \A n \in Entries : relayPc[n] = "post" =>
    \A e \in relayTodo[n] : IsFirst(e, relayTodo[n]) => e \notin attemptedBy[n]

(* With the relay on, or else with a client that keeps calling, an event   *)
(* of a watched repository does not stay unrelayed while the server        *)
(* serves, unless every goroutine that would post it is kept for ever in a *)
(* post that does not return.                                              *)
EventuallyRelayed ==
  \A e \in Event :
    e \in cached /\ e.repo \in Watched
      ~> \/ e \in relayed \/ ctxDone \/ phase = "exited"
         \/ \A n \in Entries : RepoOf[n] = e.repo => [](relayPc[n] = "post")

(* A relayed event of a watched repository leaves the cache.               *)
EventuallyForgotten ==
  \A e \in Event :
    e \in cached \cap relayed /\ e.repo \in Watched
      ~> e \notin cached \/ ctxDone \/ phase = "exited"

(* After an interrupt the server stops, also when streams are open or have *)
(* been opened since.                                                      *)
InterruptStops == phase = "httpClosing" ~> phase = "exited"

-----------------------------------------------------------------------------
(* What the repository says of the program and the code does not do        *)

(* relay.go: an event is removed two minutes after it was relayed.  The    *)
(* cleanup removes it earlier when TimeRelayed is not set (by the relay),  *)
(* or not set yet (by a stream, between its two assignments).              *)
RetentionRespected ==
  [][\A e \in cached : e \notin cached' => age[e.at] = Retention + 1]_vars

(* event_cache.go and relay.go: what is cleaned up has been relayed.  The  *)
(* flag is set after a post that failed as after one that did not.         *)
RelayedMeansDelivered == \A e \in relayed : Key(e) \in sent \cup posted

(* cmd/server/main.go: both signals shut the server down.  After a SIGTERM *)
(* its loops have ended and it goes on accepting events.                   *)
TermStops == ctxDone ~> phase = "exited"

(* README.md: OpenTelemetry is optional, and off by default.  With it off, *)
(* a relay that is on ends the process with no signal from anybody.        *)
StopsOnlyWhenAsked == phase = "exited" => ctxDone
=============================================================================
