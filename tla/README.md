# Gitstafette in TLA+

Gitstafette takes GitHub webhooks in on a server that the Internet can reach,
caches them, and hands them to clients that call the server from inside a
protected network. This directory holds the specifications of that program, the
TLC configurations that check them on small instances, and proofs of the most
important properties for instances of any size.

1. [The system](#the-system)
2. [The modules and the code](#the-modules-and-the-code)
3. [The runs](#the-runs)
4. [Bounds](#bounds)
5. [Fairness](#fairness)
6. [The proofs](#the-proofs)
7. [Where code and documents disagree](#where-code-and-documents-disagree)
8. [What is not modelled](#what-is-not-modelled)
9. [Plan](#plan)

Run a check with `tlc -config <run>.cfg <module>.tla`, a proof with
`tlapm <module>.tla`.

## The system

Paths are relative to `src/`.

| component | code | state | operations |
|---|---|---|---|
| event store | `internal/cache/event_cache.go`, `inmemory.go`, `redis.go` | per repository, a list of pointers to events; the mutex | `Store`, `Remove`, `RetrieveEventsForRepository`, `CountEventsForRepository` |
| watched repositories | `internal/cache/repositories.go` | the ids of the flag `-repositories`, as a list, filled before anything runs | `RepositoryIsWatched` |
| event intake | `internal/api/v1/github.go`, `WebhookEventPush` in `internal/server/gsf_server.go`, `Event` and `InternalEvent` in `event_cache.go` | none of its own | a GitHub POST, a push by an upstream server |
| event streams | `FetchWebhookEvents`, `retrieveCachedEventsForRepository`, `updateRelayStatus` in `gsf_server.go` | per call: deadline, the events of the round, a signal context | every five seconds: retrieve, send, mark |
| relay | `RelayCachedEvents`, `HTTPRelay`, `GRPCRelay` in `internal/relay/relay.go` | a ticker and a list per repository | every ten seconds: post what is not relayed, mark it |
| cleanup | `CleanupRelayedEvents` in `relay.go` | a ticker, lists | every five seconds: remove what was relayed two minutes ago |
| relay health check | `RelayHealthCheck` | a status nobody reads | every minute: ask the target |
| server lifecycle | `cmd/server/main.go`, `internal/otel_util/otel.go`, `internal/config/tls_config.go` | the context of main, the quit channel, three listeners, the providers of each caller | start, signals, shutdown |
| client | `cmd/client/main.go` | its own in-memory store and relay | a loop of stream sessions |
| conversion | `api/v1/webhook_event.go`, `InternalEvent` | none | headers and body to and from the internal event |
| info, status, health, tokens, telemetry, configuration | `internal/info`, `internal/grpc`, `internal/otel_util`, `internal/config`, `api/` | none that changes | constant answers, start-up |

**How they interact.** Every HTTP request, every gRPC call, each relay goroutine
and the cleanup is a goroutine, and all of them share one `EventStore` in the
variable `cache.Store`. The store guards its map with a mutex in `Store` and
`Remove` only. The events are pointers: what the store returns is not a copy, so
streams, relay and cleanup read and write `IsRelayed` and `TimeRelayed` of the
same objects with no lock at all. A stream marks events by retrieving the list a
second time and matching ids; the cleanup removes them by id. Main and its loops
hear of a signal through one context, `<-quit` through a channel, and every
stream through a context of its own.

**What is hard about it.** Reads that take no lock beside writes that do; the
two fields set one after the other while the cleanup reads them in the opposite
order; lists that are old by the time they are used, with removal by id; sends
and posts that fail half way; several streams on one repository; shutdown, which
waits for every stream; and the question whether an event leaves the cache at
all, which is the only bound the server's memory has. Every such spot is listed
at its line under "hazards" in `PROJECT.json`, with the properties that would
catch it going wrong.

**What makes each part correct.**

- Store: one event per repository and delivery id; a read returns the list as it
  was at some moment of the call; every call comes back; nothing a caller can
  see tells it from a store without concurrency.
- Intake, streams, relay and cleanup together: what somebody was told is
  accepted stays cached until it has been handed on; one stream never repeats or
  reorders, one relay goroutine posts an event once; only relayed events are
  removed, and only after the retention time; what counts as relayed was
  delivered; nothing is handed on for a repository that nobody watches; every
  other event is handed on in the end, and then leaves.
- Lifecycle: no goroutine runs before what it reads is set; an interrupt that
  main hears ends the server, with no call of a listener cut off; every loop ends,
  or is in a call of its own that does not return.
- Client: it is a queue: it tries to relay what it receives, in order, each
  delivery once and none left out, as long as each post returns; after a signal it calls no more, and ends.
- The whole pipeline: an accepted delivery waits in some place until the client
  has tried to post it, unless a fault that the model names hits it; what is
  posted is what was delivered; the two processes together do what an abstract
  delivery promises, whichever of them ends and comes back.

## The modules and the code

**EventStore** is the interface `cache.EventStore` with no concurrency in it: a
set of events, `Store` of a new one behind the others of its repository,
`Remove` of a delivery. The list that the code keeps is a set ordered by the
field `at`, the position at which an event was appended; sets make the
properties and proofs shorter than sequences, and nothing in the code depends on
an index.

**InMemoryStore** is `inmemory.go` at the grain of its accesses to the map. A
`Store` or `Remove` call goes through `lock`, `scan`, `assign`, `unlock`; a
`RetrieveEventsForRepository` through `count` and `read`, its two lookups, with
no lock. A process at `assign` is inside the statement `i.events[r] = ...`; a
lookup at that time is a data race, for which the model has every outcome: the
old list, the new one, `MapRace` (the runtime notices and stops the process),
and `TornRead` (the header of the slice half written, by `Remove`, so that the
reader gets the first events of the old array). `Store` appends in place or to a
copy, and in both cases a torn header gives the old list, the new one or a crash.
The telemetry in both functions is left out.

| definition | code |
|---|---|
| `held` | `i.events`, all lists in one set |
| `Lock`, `Unlock` | `i.mu.Lock()`, the deferred `i.mu.Unlock()` |
| `StoreScan`, `StoreAssign` | the loop with its early return; the assignment |
| `RemoveScan`, `RemoveAssign` | the nil check and the loop; the assignment |
| `RetrieveCount`, `RetrieveRead` | `CountEventsForRepository`; the second lookup |
| `window` | history: every list the repository had during a read |

**Server** is the composition: intake, streams, relay goroutines, cleanup,
clock, signals and main over `Cache == INSTANCE EventStore WITH held <- cached`.
Store operations are single steps here, which is what `ImplementsEventStore` and
`SnapshotReads` of `InMemoryStore` justify. (The race that stops the process is
the business of `InMemoryStore` alone.) Everything the store does not guard has
steps of its own.

| actions | code |
|---|---|
| `HandleGitHubPost`, `WebhookEventPush` | the handlers; a post they refuse, and a delivery already cached, change nothing and are not actions |
| `FetchWebhookEvents`, `Retrieve`, `RetrieveRefused`, `SendEvents`, `SendFails` | the stream up to `srv.Send` |
| `BeginUpdate`, `SetIsRelayed`, `SetTimeRelayed` | `updateRelayStatus`: the second retrieval, and then one step for each assignment |
| `NextRound`, `WindowOver`, `ClientLeaves`, `StreamInterrupted` | the loop condition and the three cases of the `select` |
| `RelayStart`, `RelayTick`, `RelayScan`, `RelayPost`, `RelayPostFails`, `RelayMark`, `RelayDone`, `RelayStop` | `RelayCachedEvents`; `RelayStart` is the use of the meter provider, which is nil with OpenTelemetry off or its set-up failed, and ends the process; the flag is read, the post takes its time, the flag is set |
| `CleanupStart`, `CleanupTick`, `CleanupRepo`, `CleanupReadTime`, `CleanupCheck`, `CleanupRepoDone`, `CleanupDone`, `CleanupStop` | `CleanupRelayedEvents`; its start can fail like the relay's when OpenTelemetry is on; the time is read in one step, the flag in the next |
| `Tick` | the passing of time, which only the retention looks at |
| `Signal`, `StopHTTP`, `ShutdownTimeout`, `Exit` | main from `<-quit` on |

`-repositories` is a list, and main starts a relay goroutine for each entry of it,
whether or not two name the same repository: `Entries` are the entries, `RepoOf`
says which repository each names, and the relay's variables go by entry. `Watched`,
which the streams and the GitHub handler ask, is the set of the repositories named.

`IsRelayed` is membership of `relayed`; `TimeRelayed` is `age`, the time since,
with `Never` for the zero value (which the cleanup cannot tell from a time long
past: that is how the code behaves). Both are indexed by the event itself, not
by its delivery, so an event that is cached again after its removal is another
one, as in the code. `accepted`, `sent`, `sentBy`, `attempted`, `attemptedBy` and
`posted` are history variables that only properties read. They go by delivery
(repository and id), but for `sentBy` and `attemptedBy`, which hold the events that
a call has sent and that a relay goroutine has posted.

A stream with a window of zero seconds ends before its first round; the model
has that outcome as `ClientLeaves`, which leaves the same state behind.

Definitions whose comment begins with "Fault:" are not part of the
specification. Each is a plausible mistake in the action that follows it, and
`PROJECT.json` ("mutants") says which property fails when it takes that action's
place.

**Client** is `cmd/client/main.go` with the relay goroutine it starts. Main is in
one place of its loop at a time (`pc`); the relay in one of its own (`relayPc`);
they share the store. The client never starts the cleanup, so its list only
grows and is a sequence of delivery ids here, an event being known by its place;
`relayed` is the set of places with the flag set.

| actions | code |
|---|---|
| `Fetch`, `FetchFails`, `NextRound`, `Select`, `Receive`, `ReceiveEnd`, `ReceiveFails`, `StoreReceived`, `Leave` | `handleWebhookEventStream`; events of a response are stored one by one, the relay may come between |
| `CheckError`, `CheckAgain`, `Renew`, `Wake` | the loop of `main`: the error, the two looks at `ctx`, the new context, the sleep |
| `RelayStart`, `RelayTick`, `RelayScan`, `RelayPost`, `RelayPushFails`, `RelayMark`, `RelayStop` | `RelayCachedEvents`, as in `Server` |
| `ServerSends`, `ServerEnds`, `StreamBreaks`, `Signal` | what happens to the client: responses come in the order of the wire, with any deliveries and any number of times, and stop at any point |

`ctx` is the variable of main, which is replaced after each session; `firstCtx`
is the context that the relay goroutine keeps. The stream ends at three places
with an error, each of which is fatal in main: an error of `Recv`, a cancelled
context, and the end of the stream itself, since reading it cancels the context
of the stream (`stream = "done"`) and the check behind the loop asks for that.
How the grpc library behaves there, and that a cancelled context ends a `Recv`
and lets no more responses in, is taken from its use in this code.

**RelayQueue** is what a client promises: a queue that takes each delivery in once
and hands them on in the order in which they came, one at a time. `Client`
implements it with `received <- cached` and `posted <- tried`.

**EventConversion** has the conversions as operators: `InternalEvent` (a request
becomes an event), `InternalToExternalEvent` and `ExternalToInternalEvent` (an
event becomes a message and back); `Received` is the way from one store to the
next. An event has an id, a set of named headers and
a number of headers without a name. The code makes the latter by filling a slice
that already has its length; they double on the way out and are dropped on the
way in, together with named headers whose value is empty. `PostRefused` is what
net/http does with a header that has no name. So an event can be posted only
after it has gone through `ExternalToInternalEvent`: one that a server relays
itself over HTTP has its blanks still, and each of its posts is refused.

**Delivery** is the promise: a delivery is accepted, is pending, and ceases to be
so when it is tried, several at a time if need be, or when a fault touches it. It
is made twice. `Server` makes it of handing a delivery to a stream or a relay target
(`pending <- Waiting`, what is cached and not handed out yet; `tried <- sent \cup
attempted`), and by itself has no fault: `touched <- {}`. `Pipeline` makes it of the
post by the client, and has the faults that the end of a process brings.

**Pipeline** is both processes and the connection between them, for one watched
repository. It is coarser than `Server` and `Client`, whose steps it takes
together where something leaves or reaches a place, and it adds what they leave
out: the end of either process and its restart, the Redis store, the connection
that breaks, and the ids that two deliveries may share.

| actions | code |
|---|---|
| `ServerStarts`, `ServerStops` | `initializeStore`, which takes Redis if it answers; the end of the process, and of its memory |
| `Accept`, `AcceptInVain` | `HandleGitHubPost`, `WebhookEventPush`, `Store` of both stores; `AcceptInVain` is an `LPush` that fails, which the sender does not learn |
| `Cleanup` | `CleanupRelayedEvents` |
| `ReadRedis` | `RetrieveEventsForRepository` of the Redis store, which pops everything and returns nothing, for whoever asks |
| `Open`, `Retrieve`, `Send`, `UpdateRelayStatus`, `StreamEnds` | `FetchWebhookEvents`; a `Send` into a connection that nobody reads succeeds |
| `ClientStarts`, `StoreEvent`, `WindowOver`, `SessionFails`, `ClientStops`, `RelayPost` | the client's main and its relay |

| place | variable |
|---|---|
| the server's memory store; what is marked there | `cached`; `marked` |
| Redis | `redis` |
| the stream, sent and not yet stored | `wire` |
| the client's store | `held` |

`touched` is a history of faults: the deliveries that were in memory when the
server ended, in Redis when it was asked or not taken by it, on the stream or in
the client when that left or ended, sent to nobody, or accepted or marked under
the id of another. The refinement mapping is `pending <- Live \ tried`, everything
that is in one of the places and not yet tried.

**Lifecycle** is `cmd/server/main.go` from the first line to the last: what main
sets up and in which order, the listeners and loops it starts, the settings under
which each step fails, and the shutdown. It knows nothing of events: a listener
has a call under way or none.

| actions | code |
|---|---|
| `ReadCertificates`, `InitCache`, `NotifyContext`, `SetUpTelemetry`, `CreateRelayConfig`, `StartListener`, `StartLoops`, `NotifyQuit` | main, in order; `GoOrFail` is a step that may be fatal |
| `SetupOTelSDK` | `otel.go`: providers for its caller, a nil pointer the caller then uses, or a fatal exit |
| `ReceiveInterrupt`, `HTTPClosed`, `ShutdownTimeout`, `GRPCClosed`, `HealthClosed`, `Return` | main from `<-quit` on: each listener is told to stop, then waited for |
| `Serve`, `BindFails`, `Call`, `CallEnds`, `WebhookEventStatuses` | the goroutines of the listeners and their calls |
| `LoopStarts`, `LoopCalls`, `RelayReturns`, `CheckReturns`, `LoopEnds` | the cleanup, the relay of each entry and the health check of its target |
| `Signal` | either signal, at any time: it kills, is caught, or reaches main too |

`Server` has the shutdown as well, seen from its streams: there `GracefulStop` is
the wait for each of them, here it is the wait for a call of any kind.

**MCServer** adds the map of entries to one repository, the symmetry sets and a view
to `Server`, **MCClient** the responses of a
server with two deliveries to `Client`, **MCPipeline** the headers of two
deliveries to `Pipeline`, **MCLifecycle** the settings tried to `Lifecycle`.
**InMemoryStoreProofs**, **ServerProofs**, **ServerDeliveryProofs**,
**ClientProofs**, **EventConversionProofs**, **PipelineProofs** and
**LifecycleProofs** hold the theorems.

## The runs

| run | configuration | question and answer |
|---|---|---|
| `store` | `InMemoryStore.cfg` | Does the store with its mutex, scans and unlocked reads do what `EventStore` promises, are reads snapshots, and does every call come back? Yes. |
| `streams` | `ServerStreams.cfg` | Two streams and the cleanup at work on the same lists: is anything accepted lost, sent out of order or twice by one stream, removed before it was relayed, or sent though nobody watches it? No, and `Delivery` is implemented. |
| `relaying` | `ServerRelay.cfg` | The same with two relay goroutines on one repository that is listed twice, beside a stream, over HTTP, with failing posts: and does one goroutine post an event twice? No. |
| `served` | `ServerLive.cfg` | Does every event of a watched repository get handed on and then leave the cache, by a client that comes back when the relay is off, without any client when it is on? Yes, unless a push does not return. Was what counts as relayed delivered, over gRPC and without a relay? Yes. And does an interrupt end the server whatever stream is open or still opened? Yes. |
| `client` | `Client.cfg` | Does the client relay what it receives, in order, once, and in the end all of it, whatever the server repeats and wherever streams break: is it a `RelayQueue`? Yes, unless a post does not return. Does a signal end it, with no further call? Yes, but for one place where a signal is lost (below). |
| `pipeline` | `Pipeline.cfg` | With both processes ending and coming back, over either store: is every accepted delivery in some place, posted, or in the way of a named fault; is it posted whole; does what the server has in memory reach the client's store in the end? Yes, and `Delivery` is implemented. |
| `lifecycle` | `Lifecycle.cfg` | Under each setting, and with a signal at any time: does anything run before what it reads is set, does a clean end cut off a call that a listener has taken, does an interrupt that main hears end the server, and do the loops end? No, no, yes, yes. |
| `store_fatal` | `InMemoryStoreFatal.cfg` | Can the map race stop the process? Yes: finding. |
| `retention` | `ServerRetention.cfg` | Do relayed events stay for the retention time? No: finding. |
| `relay_fails` | `ServerRelayFails.cfg` | Was what counts as relayed delivered? No: finding. |
| `sigterm` | `ServerTerm.cfg` | Does SIGTERM end the server? No: finding. |
| `no_otel` | `ServerNoOTel.cfg` | Does a server with the relay on live without OpenTelemetry? No: finding. |

The properties:

- `UniqueDeliveries`, `SnapshotReads`, `ImplementsEventStore` (the abstract
  store as a property, identity mapping on `held`), `EveryCallReturns`.
- `NothingLost`: a delivery that was accepted is in the cache, or a stream has
  sent it, or the relay has tried to post it. It goes by deliveries, not by
  events: an event pushed again after the first copy was removed counts as
  handed over with the first.
- `StreamInOrder`: a round retrieves only events newer than all its call has
  sent, although other streams, the relay and the cleanup mark and remove events
  of the same list, and although the marks are set one by one on a list that was
  retrieved anew. Across streams there is no such order: two streams on one
  repository may both send an event, which the model allows and the code does.
- `NoUnrelayedRemoval`: an action property, a step takes no unrelayed event out.
- `OnlyWatchedHandedOut`: what is accepted for a repository that nobody watches (a
  push, since only the GitHub handler asks) is handed to nobody. That it is taken in
  at all is one of the differences below, and no property says otherwise.
- `ImplementsDelivery` (`streams`, `relaying`): an event is handed out only while
  it waits, does not wait again when it comes in a second time, and ceases to wait
  by nothing but being handed out. `NothingLost` would allow it to come and go.
- `PostedOnceEach`: a relay goroutine does not come to post an event that it has
  posted before, although it looks at the flag, posts and sets the flag in three
  steps, on a list it took earlier, and others set and remove meanwhile. Two
  goroutines may each post an event, since they are two entries of the list.
- `PushedMeansDelivered` says how far finding 3 reaches: what counts as relayed and
  was not delivered is an event posted over HTTP.
- `EventuallyRelayed`: an event of a watched repository is marked in the end, unless
  the context is done, the process ends, or each relay goroutine of the repository is
  from some point on in a push that never returns.
- `EventuallyForgotten`, `InterruptStops`: a relayed event leaves the cache, and an
  interrupt ends the server, whatever the relay hangs in.
- `RelayedAsReceived`: what the client has tried to post is a beginning of the
  list of its deliveries, in the order in which each was first received, none
  twice. Like `NothingLost` it speaks of attempts.
- `ImplementsRelayQueue`: the refinement. It says of steps what `RelayedAsReceived`
  says of states: what has been received is never taken back or put elsewhere, and
  what is tried is the next one.
- `NoCallAfterSignal`: once the context that main looks at is cancelled, and is not
  the one about to be replaced, it stays cancelled and no stream is opened.
- `EventuallyTried`: all of that list is tried, until a signal comes, the
  process ends, or the relay is from some point on in a post that never returns. All
  three exceptions are needed: after a signal the relay stops, every failing session
  ends the process, and there is one goroutine for all posts, which have no deadline.
- `NothingVanishes` (`pipeline`): what was accepted is exactly what waits in some
  place, has been tried, or is in `touched`. It is the sentence that says which
  events this program can lose, and it is strict both ways: nothing turns up
  anywhere that was not accepted.
- `ArrivesWhole`: what the client posts has the id and all headers of the request
  that have a value, none without a name, whether it came from GitHub or from
  another server.
- `ImplementsDelivery` (`pipeline`): the refinement. `NothingVanishes` alone would let a
  delivery leave and come back, or be tried from nowhere; `Delivery` does not.
- `EventuallyReceived` (`pipeline`): what the server has in memory reaches the store
  of the client, over however many sessions, unless a fault hits it. It says so of the
  memory store only, because nothing in Redis is ever sent, and not of the post, which
  `EventuallyTried` of `Client` says with its exceptions.
- The type invariants say more than types: the mutex is held only on the way to its
  release (`InMemoryStore`); a stream has events of its own repository in hand
  (`Server`); marks are on cached events only, and a client that is not reading has
  closed its stream (`Pipeline`); the health server exists only with a port of its own
  (`Lifecycle`).
- `ReadyBeforeUse`, `ListenersDrained`, `InterruptEnds`, `LoopsEnd` (`lifecycle`): what
  main sets up, it sets up before the goroutines that read it; it returns only
  after the calls that listeners have taken are over, main's own providers are shut, and somebody
  asked; an interrupt that reached the channel ends the process, through the waits
  and the failures; and after either signal each loop ends, or is in a post, push
  or check that has no deadline. The last part is the code's weakness, not the
  model's: those calls do not take the context.
- `SignalEnds`: a signal ends the client wherever main is (receiving with no
  answer, storing, asleep), unless it comes after the second look at `ctx` and
  before the call that replaces it. Then the relay has stopped and main goes on:
  without the condition `pc # "renewing"` the property is false.

Deadlock is checked in every run: an instance that has exited, or was stopped by
the runtime, stutters explicitly (`Exited`, `Stopped`).

## Bounds

- `MaxStores` bounds the events ever appended, not those cached at a time: with
  2 or 3 of them a delivery can be stored, relayed, removed and stored again
  while some goroutine still holds the old list, and two events can be in one
  list, which is what order, marking by id and removal by id need.
- Two delivery ids, one of which comes twice. `served` has one id and two
  appends: the second event is the first delivery cached again.
- Two repositories in `streams`, one watched and one not; two entries that name the
  same one in `relaying`, which is where relay goroutines meet. Those of two
  repositories share nothing but main, and the proofs hold for any list.
- Two goroutines in the store: one that holds the mutex and one that waits or
  reads. Two streams in `streams`, one beside a relay goroutine in `relaying`.
- `Retention` is one step of the clock in `streams`, so that events are too young,
  exactly at the limit and past it. Ages stop at `Retention + 1`, since the code only asks
  whether the limit has passed (`Older`). In `relaying` it is none: the relay
  goroutines never set the time, and what the cleanup takes there is past the
  limit at once or has just been marked by the stream. In `served` it is none too: what
  must happen in the end does not depend on how long it takes.
- Streams and delivery ids are interchangeable in `MCServer` and permuted in the
  runs of safety properties, and the two entries too in `relaying`; the runs of
  liveness properties use no symmetry. `relaying` has a view, `AllButPosted`, which
  leaves out the history variable `posted`: no guard and none of that run's
  properties read it.

- In `client`, responses with none, one or both of two deliveries in either
  order, and two responses under way at a time (`MaxWire`). Sessions are not
  counted: after the last new delivery the list is complete, and from then on
  any number of sessions goes through the same states.

- In `pipeline`, two deliveries, one posted with an id and a valueless header, one
  pushed without any id; two posts in all, so either comes twice or both come; two
  streams, so that one whose client has gone is still at work when the next session
  has begun; both stores. Processes and sessions are not counted. That two
  deliveries have the same id needs no third: `SameId` is then not empty, as it is
  for the second stay of a delivery, and the proofs hold for any headers.
- In `lifecycle`, one entry of the list: the goroutines of two entries differ in
  nothing, and the proofs have any number. Every combination of relay, telemetry
  and health port is tried; certificates, a malformed relay address and an empty
  list are tried one deviation at a time from the usual settings, because each is
  fatal before anything else depends on it, or concerns one listener.

All reachable states of these instances are explored.

## Fairness

- *Every goroutine goes on* (`WF` of `StreamStep`, `RelayStep`, `CleanupStep`,
  `MainStep`, `Tick`; in the store `WF` of `Step`): Go schedules every runnable
  goroutine, timers and tickers fire.
- *Nothing obliges a post or a push to return.* `HTTPRelay` sets no timeout
  (`internal/relay/relay.go:70` to `78`) and `GRPCRelay` no deadline (162 and 163), so
  the fairness of a relay goroutine leaves out its steps from `post`, in `Server` and
  `Client`, and `Pipeline` has none for `RelayPost`. The liveness properties name
  the goroutine that hangs as an exception, and `Pipeline`'s ends before the post.
- *Send ends.* The step after `retrieved` is either `SendEvents` or `SendFails`,
  and fairness says that one of them happens. This is an assumption on clients:
  one that stays connected and never reads could block `Send` when the flow
  control window is full, and the server for clients sets no keepalive. It is
  listed as a hazard.
- *The window ends* (`SF` of `WindowOver`): the model does not count the seconds
  of a stream, so it must be said that a stream does not find time left for
  ever. `finish` is fixed when the stream starts.
- *The mutex is fair* (`SF` of `Lock`): `sync.Mutex` hands the lock to a waiter
  that has been passed over for a millisecond.
- *Main and the relay of the client go on* (`WF` in `Client`, one for each):
  again Go's scheduler and timers. Nothing obliges the server to answer a `Recv`.
- *Clients come back* (`ClientFairness`, in `served` only, and with the relay off
  only: `ClientsOnly`): the client's main
  loop calls again three seconds after a session; and a round is not always
  preceded by a lost connection, nor a send always by a failure.

- *Both processes are started again* (`pipeline`): the charts run both
  as deployments. That a session with a running server is opened again and again,
  and reaches a `Retrieve` and a `Send` of its stream again and again, is `SF` of
  those three: not every session breaks before its first round. Nothing
  says that a given process lives long enough for a given delivery; what is in
  memory when it ends is in `touched`.
- *Main, the start of each goroutine and each call to the server come to an end*
  (`lifecycle`), the last of which `InterruptStops` shows of streams. A loop whose
  context is done chooses that case of its `select` in the end (`SF` of
  `LoopEnds`). Nothing is said of the calls a loop makes.

Nothing obliges GitHub to send, a client to call (but in `served` and `pipeline`),
a signal to come, or a post to succeed. Whether a post that returns has
succeeded makes no difference to liveness: over HTTP the code marks the event all the
same, over gRPC the process ends.

## The proofs

`InMemoryStoreProofs` proves, for any sets of repositories, ids and goroutines
and any `MaxStores`:

- `TypeCorrect`, `UniqueDeliveriesAlways`, `SnapshotReadsAlways`: the invariants
  of run `store`;
- `StoreImplementsEventStore`: the refinement that `Server` builds on.

`UniqueDeliveries` is not inductive: `StoreAssign` adds an event on the strength
of a scan made a step earlier. The inductive invariant `IInv` says what the
mutex buys. Only its holder is between `Lock` and `Unlock` (`LockInv`), so the
list it scanned is still the list it replaces, and still without the new
delivery (`ScanInv`); stamps of cached events are positions given out
(`StampInv`); and an assignment adds the list it makes to the window of every
reader under way (`WindowInv`). `StoreEffect` and `RemoveEffect` say what an
assignment does to `held`; the refinement is these two lemmas and the fact that
no other step touches `held`.

`ServerProofs` proves, for any sets of repositories (watched or not), entries, ids
and streams, any retention time, any of the settings and signals:

- `TypeCorrect`, `NothingLostAlways`, `StreamInOrderAlways`: invariants of runs
  `streams` and `relaying`;
- `NoUnrelayedRemovalAlways`: their action property.

None of them is inductive. `NothingLost` needs that a relayed event was handed
to somebody (`HandedInv`), which needs that what a stream marks are deliveries it
has sent, and what a relay goroutine marks is what it has just posted
(`StreamInv`, `RelayInv`). `StreamInOrder` needs `OrderInv`: at each point of the
loop, an unrelayed event that the stream does not have in hand is newer than all
it has sent. What it has in hand is its batch until `updateRelayStatus` retrieves
the list again, and the events left to mark from then on; that the change of hands
loses nothing is `BeginUpdateIInv`, where the uniqueness of deliveries in the
cache is used. `NoUnrelayedRemoval` needs that the event the cleanup looks at is
the one `Remove` takes: it is still in the cache, because nobody else removes
(`CleanInv`), and the only one with its id (`StoreInv`). With a second goroutine
that removes events, the last two would fall.

The proof goes by who takes the step. `StreamFrame`, `RelayFrame`, `StreamKept`
and `QuietIInv` say once what the steps of one owner leave of the invariants of
the others; then there is one lemma per action that does more than that.

`ServerDeliveryProofs` builds on them, in the same generality:

- `HandingInvariance`: its invariant, `AllInv`, which is `IInv` and five more parts;
- `OnlyWatchedHandedOutAlways`, `PushedMeansDeliveredAlways`,
  `PostedOnceEachAlways`: the other invariants of runs `streams`, `relaying`, `served`;
- `ServerImplementsDelivery`: the refinement.

`IInv` is about what is marked and in which order; here the question is what a
goroutine has in hand. It took its list from the cache some steps ago, and the
cleanup may have emptied that since. `HandInv` says that each event in hand is
cached still or was relayed by somebody else, which holds because nothing leaves
the cache unrelayed (`KnownStay`), and that its repository is watched, which is what
`WatchedInv` needs of what is handed out. `PostedOnceEach` is not inductive: that
the goroutine has marked what it has posted, but for the event it is at, is `OnceInv`;
it is about one goroutine at a time, and others can only add marks (`OnceKept`).
`PushInv` is the same for failed posts; `OffInv` says that with the relay off no
relay goroutine runs.
The refinement goes by three cases. A new event is `Accept` (`StoreMaps`); a stutter
changes nothing; and every other step is `Try` of the set of deliveries it newly
hands out (`OthersMap`), mostly empty, since by `HandInv` they were waiting, and
since what the step removes was handed out before (`HandedInv`).

`ClientProofs` proves, for any ids, any responses, any settings and any number
of responses under way:

- `TypeCorrect` and `PostsInOrder`: the invariants of run `client`;
- `ClientImplementsRelayQueue`: the refinement;
- `NoCallAfterSignalAlways`: the action property.

`TypeOK` is not inductive: a post reads the list at `relayAt`, which is in it
because of `PlaceInv`. `RelayedAsReceived` needs `MarkInv`: what is marked is
exactly what has been tried, but for the post under way. The relay skips what is
marked, so the first event that it does not skip is the one after the last it has
tried. That main appends meanwhile does no harm, since the places of the events
before stay as they are (`StoreKeepsOrder`). With that invariant the refinement is
one look at each action: two of them move the queue (`StepMaps`).

`EventConversionProofs` proves, for any request and any event:

- `ConversionSettles`: a second way from store to store changes nothing, so it does
  not matter how many servers an event has come over;
- `FirstPostRefused`, `LaterPostAccepted`: the post of an event that a server relays
  as it came from GitHub is refused, every time, and that of an event which has come
  over a store before is not. With finding 3, a server that relays GitHub's events
  itself over HTTP marks all of them as relayed and delivers none.

`PipelineProofs` proves, for any deliveries with any headers, any streams, either
store and any number of posts:

- `TypeCorrect`, `NothingVanishesEver`, `ArrivesWholeAlways`: the invariants of
  run `pipeline`;
- `PipelineImplementsDelivery`: the refinement.

`NothingVanishes` needs `SentIsKept`: a stream that has sent and not yet marked is
about to make the server forget what it sent, so this must be with the client,
tried, or touched, and stay so while the client goes through it, leaves or ends.
That it holds although marking is by id, in a list that was retrieved anew, is
what `known \ batch[s]` in `touched` accounts for. `ArrivesWhole` is a fact about
the conversions (`ReceivedEvent` of `EventConversionProofs`): one round of them
loses the headers without a value, and no later one loses anything. The refinement
goes by `StepMaps`: an action is `Accept`, `Misplace` or `Try` of one delivery, or
`Disturb` of what it adds to `touched`; that `pending` loses nothing else is
`IInv` before and after the step.

`LifecycleProofs` proves, for any list of repositories and any settings:

- `TypeCorrect`, `ReadyBeforeUseAlways`, `ListenersDrainedAlways`: the invariants of run
  `lifecycle`.

The inductive invariant relates the place of main to what it has done. `InOrder`
says what is set and what is not yet started at each point of the start;
`Providers` that a loop past its start has providers exactly when OpenTelemetry is
on; `InShutdown` which listeners have been told to stop, and have no call left, at
each point of the end. That a listener told to stop takes no new call (`CanCall`)
is what keeps the last from being undone.

The assumptions are the named ones of the modules: the bounds are numbers,
`RepoOf` gives each entry a repository (`EntriesAssumption`), the settings and
signals are the ones the flags have, `NoProc`, `NoCall` and `NoStream` are neither
goroutine, call nor stream, and a request has finitely many headers. TLC evaluates
them in the runs. Nothing else is assumed; no other set need be finite.

Model-checked only: the liveness properties (out of reach of the prover, which
has neither fairness nor `ENABLED`), and the counterexamples.

## Where code and documents disagree

Five runs end in a counterexample; `PROJECT.json` quotes the line each is held
against.

1. *Unlocked reads* (`store_fatal`). `RetrieveEventsForRepository` overlaps a map
   assignment and the runtime may stop the server, while the README says that it
   supports multiple clients. Every client, every relay goroutine and the cleanup
   is such a reader.
2. *Retention* (`retention`). `updateRelayStatus` sets the flag and then the time.
   The cleanup, in between, sees a relayed event with the zero time, and removes
   it at once instead of after two minutes. (`RelayCachedEvents` never sets the
   time, so an event that was relayed by it goes with the next cleanup, always.)
3. *Failed posts* (`relay_fails`). A post that failed is marked as relayed, and
   the event is then removed. The comment above that line asks for
   the check. It is so over HTTP only: `PushedMeansDelivered`.
4. *SIGTERM* (`sigterm`). It ends the relay, the cleanup and the open streams, but
   main waits for `os.Interrupt` only: the server goes on taking events in that
   it neither relays nor removes.
5. *Relay without telemetry* (`no_otel`). `OTEL_ENABLED` defaults to `false`, the
   meter provider is then nil, and the relay goroutine calls a method on it. With
   OpenTelemetry on, a set-up that fails has the same end, for the cleanup too.

None of them contradicts the safety properties that hold. A failed post loses an
event only in the sense of item 3: `NothingLost` promises an attempt, not a
delivery, because that is what the code does.

More differences show in the models and have no run of their own.

- A signal between the second look at the context and its replacement
  (`cmd/client/main.go:142` to `144`) stops the relay of a client that goes on
  receiving; `SignalEnds` names the place.
- A stream that the server ends in order is logged as such by the client at line
  257, and is fatal a moment later.
- `WebhookEventPush` (`internal/server/gsf_server.go:117`) caches what is pushed for
  any repository and answers that it is accepted, while `docs/index.md:17` has "only
  respond to configured repositories". `accepted` of `Server` then has a repository
  outside `Watched`, after one step. It is handed to nobody (`OnlyWatchedHandedOut`),
  and since no cleanup comes to it, it is never removed.
- Main returns without waiting for its loops: a post, a push or a health check that
  is under way is cut off by a clean end. `ListenersDrained` is about the calls that
  listeners have taken.
- A post or a push may hang for ever, and the goroutine of its repository with it:
  later events are then not tried, in the server (where clients may still fetch them)
  and in the client (where nobody else does).
- A server that relays GitHub's events itself over HTTP has each of its posts
  refused (`FirstPostRefused`): headers are copied behind as many empty ones
  (`internal/cache/event_cache.go:83`), and net/http takes no header without a name.
- With the relay on, clients are served all the same, while the text of the flag
  says "rather than caching them for clients".
- An interrupt between the call of `NotifyContext` (`cmd/server/main.go:101`) and
  that of `signal.Notify` (line 161) is lost to main, which goes on to serve with
  its loops ended; the comment at line 159 has "Use a buffered channel to avoid
  missing signals". `InterruptEnds` therefore begins at the channel.
- Providers that the store, the cleanup and each relay set up for themselves are
  never shut down, while line 114 has "Handle shutdown properly so nothing leaks."
  `ListenersDrained` speaks of main's own.
- The result of the health check counts up in a variable of its loop that nothing
  reads, while `docs/index.md:26` has "only relays received events to healthy
  endpoints".
- `WebhookEventStatuses` uses the tracer without asking whether OpenTelemetry is
  on: with it off, the call is a nil pointer.
- The Redis store returns no events, removes none when told to, and pops all of
  them when read: a server that found Redis at its start relays nothing.

## What is not modelled

- The client's start-up, its info and health servers, and what its target does
  with a post.
- A client that stays connected and does not read, so that `Send` blocks.
- Digest checks, tokens, the info and health services' answers, and the watch
  list: functions of their input that change no state.
- Sentry, spans, attributes and metrics. Whether the resource that `otel.go` builds
  conflicts with the default one of the SDK depends on the versions of libraries
  that are not part of the repository; `SetupOTelSDK` may succeed or fail.
- Generated code, charts, images, infrastructure. Of the libraries (grpc, echo,
  go-redis, net/http) only what this code relies on is in the models.
- Real time. Tickers may fire at any moment and only the order of events counts;
  the one duration that is modelled is the retention.

## Plan

Done: `EventStore`, `InMemoryStore`, `Server`, `Client`, `RelayQueue`,
`EventConversion`, `Delivery`, `Pipeline`, `Lifecycle`, and the seven proof modules.
Redis became part of `Pipeline` and not a module of its own, since what matters about
it is what the readers of the other store lose by it. Every invariant and refinement
that a run checks has its theorem.

Next, in this order:

1. The refinement from `Server`, with the relay off, to the server's side of
   `Pipeline`, and from `Client` to the other side, so that what `Pipeline` takes
   together is shown and not argued.
2. The client's start-up and its two servers, as a second instance of the pattern
   of `Lifecycle`; there the relay goroutines start before `InitCache` has
   returned.
3. A client that blocks `Send`, and what `GracefulStop` then waits for.
