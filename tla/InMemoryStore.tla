----------------------------- MODULE InMemoryStore -----------------------------
(***************************************************************************)
(* internal/cache/inmemory.go: the event store every goroutine of the      *)
(* server shares.  Store and Remove hold the mutex from their first line   *)
(* to their last.  RetrieveEventsForRepository and                         *)
(* CountEventsForRepository take no lock: they look the repository up in   *)
(* the map twice, whatever the other goroutines are doing.                 *)
(*                                                                         *)
(* The grain is that of the accesses to the map: a call takes the lock,    *)
(* scans the list, assigns the map entry, releases the lock.  A process    *)
(* with pc = "assign" is inside the assignment i.events[r] = ..., and a    *)
(* reader that looks the map up at that moment races with it.  The Go      *)
(* runtime may detect the race and stop the process ("fatal error:         *)
(* concurrent map read and map write": "fatal"), and the reader may see    *)
(* the entry as it was, as it becomes, or half written ("torn").           *)
(*                                                                         *)
(* A list i.events[r] is the set of the events of r in "held", ordered by  *)
(* "at".  The flags of an event (IsRelayed, TimeRelayed) are not part of   *)
(* this module: Server has them.                                           *)
(***************************************************************************)
EXTENDS Naturals, FiniteSets

CONSTANTS
  Repos,      (* repository ids                                            *)
  Ids,        (* delivery ids                                              *)
  Procs,      (* goroutines that call the store                            *)
  NoProc,     (* the holder of a free mutex                                *)
  NoCall,     (* what a goroutine outside the store is calling             *)
  MaxStores   (* bound: appends to the lists in one behaviour              *)

ASSUME NoProcAssumption == NoProc \notin Procs
ASSUME MaxStoresAssumption == MaxStores \in Nat

VARIABLES
  held,       (* the events of all lists of i.events                       *)
  count,      (* appends so far: the last event appended has this stamp    *)
  mu,         (* the holder of i.mu                                        *)
  pc,         (* where each goroutine is in its call                       *)
  call,       (* the call it makes                                         *)
  local,      (* its local variable events, or updatedEvents               *)
  window,     (* history: what the list was at any time of a read          *)
  fatal       (* the runtime stopped the program                           *)

vars == <<held, count, mu, pc, call, local, window, fatal>>

Stamps == 1 .. MaxStores

Event == [repo : Repos, id : Ids, at : Stamps]

Update == [op : {"Store", "Remove"}, repo : Repos, id : Ids]

Retrieval == [op : {"Retrieve"}, repo : Repos]

ASSUME NoCallAssumption == NoCall \notin Update \cup Retrieval

Stages == {"idle", "lock", "scan", "assign", "unlock",
           "count", "read", "got", "torn"}

SameDelivery(e, f) == e.repo = f.repo /\ e.id = f.id

List(r) == {e \in held : e.repo = r}

(* The first n elements of the slice that holds the events of S.           *)
Prefix(S, n) == {e \in S : Cardinality({f \in S : f.at < e.at}) < n}

(* The event that a Store call appends.                                    *)
Appended(p) == [repo |-> call[p].repo, id |-> call[p].id, at |-> count + 1]

-----------------------------------------------------------------------------

Init ==
  /\ held = {}
  /\ count = 0
  /\ mu = NoProc
  /\ pc = [p \in Procs |-> "idle"]
  /\ call = [p \in Procs |-> NoCall]
  /\ local = [p \in Procs |-> {}]
  /\ window = [p \in Procs |-> {}]
  /\ fatal = FALSE

Goto(p, stage) == pc' = [pc EXCEPT ![p] = stage]

Begin(p, c) ==
  /\ pc[p] = "idle"
  /\ call' = [call EXCEPT ![p] = c]

End(p) ==
  /\ call' = [call EXCEPT ![p] = NoCall]
  /\ local' = [local EXCEPT ![p] = {}]
  /\ Goto(p, "idle")

CallStore(p, r, i) ==
  /\ count < MaxStores
  /\ Begin(p, [op |-> "Store", repo |-> r, id |-> i])
  /\ Goto(p, "lock")
  /\ UNCHANGED <<held, count, mu, local, window, fatal>>

CallRemove(p, r, i) ==
  /\ Begin(p, [op |-> "Remove", repo |-> r, id |-> i])
  /\ Goto(p, "lock")
  /\ UNCHANGED <<held, count, mu, local, window, fatal>>

CallRetrieve(p, r) ==
  /\ Begin(p, [op |-> "Retrieve", repo |-> r])
  /\ Goto(p, "count")
  /\ window' = [window EXCEPT ![p] = {List(r)}]
  /\ UNCHANGED <<held, count, mu, local, fatal>>

(* Fault: the mutex does not exclude.                                      *)
LockWithoutWaiting(p) ==
  /\ pc[p] = "lock"
  /\ call[p].op = "Store" => count < MaxStores
  /\ mu' = p
  /\ Goto(p, "scan")
  /\ UNCHANGED <<held, count, call, local, window, fatal>>

(* i.mu.Lock().  The bound MaxStores keeps a Store from getting the lock,  *)
(* never from letting it go.                                               *)
Lock(p) ==
  /\ pc[p] = "lock"
  /\ call[p].op = "Store" => count < MaxStores
  /\ mu = NoProc
  /\ mu' = p
  /\ Goto(p, "scan")
  /\ UNCHANGED <<held, count, call, local, window, fatal>>

(* Fault: the early return for a known delivery does not unlock.           *)
StoreScanKeepsLock(p) ==
  /\ pc[p] = "scan"
  /\ call[p].op = "Store"
  /\ IF \E e \in held : SameDelivery(e, call[p])
       THEN Goto(p, "idle") /\ UNCHANGED local
       ELSE /\ Goto(p, "assign")
            /\ local' = [local EXCEPT
                 ![p] = List(call[p].repo) \cup {Appended(p)}]
  /\ UNCHANGED <<held, count, mu, call, window, fatal>>

(* Fault: only the last event of the list is compared.                     *)
StoreScanLastOnly(p) ==
  /\ pc[p] = "scan"
  /\ call[p].op = "Store"
  /\ IF \E e \in held : /\ SameDelivery(e, call[p])
                        /\ \A f \in List(call[p].repo) : f.at <= e.at
       THEN /\ Goto(p, "unlock")
            /\ UNCHANGED local
       ELSE /\ Goto(p, "assign")
            /\ local' = [local EXCEPT
                 ![p] = List(call[p].repo) \cup {Appended(p)}]
  /\ UNCHANGED <<held, count, mu, call, window, fatal>>

(* The loop over the stored events returns at the first with the same id.  *)
StoreScan(p) ==
  /\ pc[p] = "scan"
  /\ call[p].op = "Store"
  /\ IF \E e \in held : SameDelivery(e, call[p])
       THEN /\ Goto(p, "unlock")
            /\ UNCHANGED local
       ELSE /\ Goto(p, "assign")
            /\ local' = [local EXCEPT
                 ![p] = List(call[p].repo) \cup {Appended(p)}]
  /\ UNCHANGED <<held, count, mu, call, window, fatal>>

(* Remove keeps the events with another id, and returns early on a nil     *)
(* list, which is what an empty one always is.                             *)
RemoveScan(p) ==
  /\ pc[p] = "scan"
  /\ call[p].op = "Remove"
  /\ IF List(call[p].repo) = {}
       THEN /\ Goto(p, "unlock")
            /\ UNCHANGED local
       ELSE /\ Goto(p, "assign")
            /\ local' = [local EXCEPT
                 ![p] = {e \in List(call[p].repo) : e.id # call[p].id}]
  /\ UNCHANGED <<held, count, mu, call, window, fatal>>

(* What the map holds once the entry of p's repository is p's local list.  *)
AfterAssign(p) == (held \ List(call[p].repo)) \cup local[p]

(* Every reader under way now has one more list it may return.             *)
Witnessed ==
  [q \in Procs |->
     IF pc[q] \in {"count", "read"}
       THEN window[q] \cup {{e \in held' : e.repo = call[q].repo}}
       ELSE window[q]]

StoreAssign(p) ==
  /\ pc[p] = "assign"
  /\ call[p].op = "Store"
  /\ held' = AfterAssign(p)
  /\ count' = count + 1
  /\ window' = Witnessed
  /\ Goto(p, "unlock")
  /\ UNCHANGED <<mu, call, local, fatal>>

RemoveAssign(p) ==
  /\ pc[p] = "assign"
  /\ call[p].op = "Remove"
  /\ held' = AfterAssign(p)
  /\ window' = Witnessed
  /\ Goto(p, "unlock")
  /\ UNCHANGED <<count, mu, call, local, fatal>>

(* The deferred i.mu.Unlock(), on every return.                            *)
Unlock(p) ==
  /\ pc[p] = "unlock"
  /\ mu' = NoProc
  /\ End(p)
  /\ UNCHANGED <<held, count, window, fatal>>

(* Fault: a list of one event counts as empty.                             *)
RetrieveCountAboveOne(p) ==
  /\ pc[p] = "count"
  /\ IF Cardinality(List(call[p].repo)) > 1
       THEN Goto(p, "read")
       ELSE Goto(p, "got")
  /\ UNCHANGED <<held, count, mu, call, local, window, fatal>>

(* CountEventsForRepository, the first of the two lookups.                 *)
RetrieveCount(p) ==
  /\ pc[p] = "count"
  /\ IF List(call[p].repo) # {}
       THEN Goto(p, "read")
       ELSE Goto(p, "got")
  /\ UNCHANGED <<held, count, mu, call, local, window, fatal>>

RetrieveRead(p) ==
  /\ pc[p] = "read"
  /\ local' = [local EXCEPT ![p] = List(call[p].repo)]
  /\ Goto(p, "got")
  /\ UNCHANGED <<held, count, mu, call, window, fatal>>

(* A lookup during an assignment, of any entry of the map.                 *)
Races(p, q) == pc[p] \in {"count", "read"} /\ pc[q] = "assign"

MapRace(p) ==
  /\ \E q \in Procs : Races(p, q)
  /\ fatal' = TRUE
  /\ UNCHANGED <<held, count, mu, pc, call, local, window>>

(* Remove replaces the slice by one with another array.  A reader that     *)
(* sees the old array with the new length gets the first events of the old *)
(* list, the removed one perhaps among them.  (For Store the two halves    *)
(* give the old list, the new one, or a read past the end: fatal.)         *)
TornRead(p) ==
  /\ pc[p] = "read"
  /\ \E q \in Procs :
       /\ Races(p, q)
       /\ call[q].op = "Remove"
       /\ call[q].repo = call[p].repo
       /\ local' = [local EXCEPT
            ![p] = Prefix(List(call[p].repo), Cardinality(local[q]))]
  /\ Goto(p, "torn")
  /\ UNCHANGED <<held, count, mu, call, window, fatal>>

Return(p) ==
  /\ pc[p] \in {"got", "torn"}
  /\ window' = [window EXCEPT ![p] = {}]
  /\ End(p)
  /\ UNCHANGED <<held, count, mu, fatal>>

(* The steps a goroutine takes by itself once it has begun a call.         *)
Step(p) ==
  \/ StoreScan(p)
  \/ StoreAssign(p)
  \/ RemoveScan(p)
  \/ RemoveAssign(p)
  \/ Unlock(p)
  \/ RetrieveCount(p)
  \/ RetrieveRead(p)
  \/ Return(p)

Begins(p) ==
  \E r \in Repos :
    \/ CallRetrieve(p, r)
    \/ \E i \in Ids : CallStore(p, r, i) \/ CallRemove(p, r, i)

(* Nothing happens after the runtime has stopped the program.              *)
Stopped == fatal /\ UNCHANGED vars

Next ==
  \/ /\ ~fatal
     /\ \E p \in Procs :
          Begins(p) \/ Lock(p) \/ Step(p) \/ MapRace(p) \/ TornRead(p)
  \/ Stopped

(* Go runs every runnable goroutine, and sync.Mutex hands the lock to one  *)
(* that has waited for a millisecond: nobody waits while others overtake   *)
(* it for ever.  Nothing obliges a goroutine to make a call.               *)
Fairness ==
  \A p \in Procs :
    /\ WF_vars(~fatal /\ Step(p))
    /\ SF_vars(~fatal /\ Lock(p))

Spec == Init /\ [][Next]_vars

FairSpec == Spec /\ Fairness

-----------------------------------------------------------------------------
(* Properties                                                              *)

(* Types: the lists hold events with a stamp that was given out, each      *)
(* goroutine is at one of the stages of a call, and a mutex that is held   *)
(* is held by a goroutine on its way to unlock it.                         *)
TypeOK ==
  /\ held \subseteq Event
  /\ count \in 0 .. MaxStores
  /\ mu \in {NoProc} \cup
           {p \in Procs : pc[p] \in {"scan", "assign", "unlock"}}
  /\ pc \in [Procs -> Stages]
  /\ call \in [Procs -> Update \cup Retrieval \cup {NoCall}]
  /\ local \in [Procs -> SUBSET Event]
  /\ window \in [Procs -> SUBSET SUBSET Event]
  /\ fatal \in BOOLEAN

(* A delivery is cached once per repository, however many goroutines store *)
(* it at the same time: Store decides on the list it is about to replace.  *)
UniqueDeliveries ==
  \A e, f \in held : SameDelivery(e, f) => e = f

(* RetrieveEventsForRepository returns the list as it was at one moment of *)
(* the call, although it looks the map up twice without the lock; and even *)
(* a torn read returns no event that the list did not hold.                *)
SnapshotReads ==
  \A p \in Procs :
    /\ pc[p] = "got" => local[p] \in window[p]
    /\ pc[p] = "torn" => \E l \in window[p] : local[p] \subseteq l

Abs == INSTANCE EventStore

(* The store does what the interface cache.EventStore promises: one event  *)
(* appended behind the others of its repository, or one delivery removed.  *)
ImplementsEventStore == Abs!Init /\ [][Abs!Next]_held

(* Whoever calls the store gets out again: no return forgets the mutex.  A *)
(* Store call may be kept out by the bound on appends, by nothing else.    *)
EveryCallReturns ==
  \A p \in Procs :
    pc[p] # "idle" ~> \/ pc[p] = "idle"
                      \/ fatal
                      \/ count = MaxStores /\ call[p].op = "Store"

(* The program survives its own concurrency: README.md says that the       *)
(* server supports several clients, each of which is a reader here.        *)
NeverFatal == ~fatal
=============================================================================
