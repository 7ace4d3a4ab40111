-------------------------- MODULE InMemoryStoreProofs --------------------------
(***************************************************************************)
(* What holds of the in-memory store for any number of goroutines,         *)
(* repositories, deliveries and appends.                                   *)
(*                                                                         *)
(* The inductive invariant IInv says what the mutex buys: between Lock and *)
(* Unlock nobody else changes the map, so the list a call has scanned is   *)
(* still the list it replaces (ScanInv).  Readers hold no lock; they are   *)
(* right because the list of the moment is always one they may return      *)
(* (WindowInv).                                                            *)
(***************************************************************************)
EXTENDS InMemoryStore, TLAPS

(* A goroutine inside the store has the call that fits where it is.        *)
CallInv ==
  \A p \in Procs :
    /\ pc[p] \in {"lock", "scan", "assign", "unlock"} => call[p] \in Update
    /\ pc[p] \in {"count", "read", "got", "torn"} => call[p] \in Retrieval

(* Only the holder of the mutex is between Lock and Unlock.                *)
LockInv ==
  \A p \in Procs : pc[p] \in {"scan", "assign", "unlock"} => mu = p

(* The stamps of cached events are positions already given out.            *)
StampInv == \A e \in held : e.at <= count

(* The bound leaves room for an append that holds the mutex.               *)
RoomInv ==
  \A p \in Procs :
    pc[p] \in {"scan", "assign"} /\ call[p].op = "Store" => count < MaxStores

(* What a call has scanned still holds when it assigns the map entry.      *)
ScanInv ==
  \A p \in Procs : pc[p] = "assign" =>
    /\ call[p].op = "Store" =>
         /\ local[p] = List(call[p].repo) \cup {Appended(p)}
         /\ \A e \in held : ~SameDelivery(e, call[p])
    /\ call[p].op = "Remove" =>
         local[p] = {e \in List(call[p].repo) : e.id # call[p].id}

(* A reader may return the list of the moment, and has read nothing yet.   *)
WindowInv ==
  \A p \in Procs : pc[p] \in {"count", "read"} =>
    /\ List(call[p].repo) \in window[p]
    /\ local[p] = {}

(* A goroutine that is not in a call, or has not scanned, has no list.     *)
IdleInv == \A p \in Procs : pc[p] \in {"idle", "lock"} => local[p] = {}

IInv ==
  /\ TypeOK
  /\ CallInv
  /\ LockInv
  /\ StampInv
  /\ RoomInv
  /\ ScanInv
  /\ WindowInv
  /\ IdleInv
  /\ UniqueDeliveries
  /\ SnapshotReads

-----------------------------------------------------------------------------

(* Storing a delivery that is not cached: the list gets one event, and the *)
(* other lists stay as they are.                                           *)
LEMMA StoreEffect ==
  ASSUME IInv, NEW p \in Procs, StoreAssign(p)
  PROVE  /\ Appended(p) \in Event
         /\ held' = held \cup {Appended(p)}
         /\ count < MaxStores
         /\ count' = count + 1
         /\ \A e \in held : ~SameDelivery(e, Appended(p))
         /\ \A e \in held : e.at < Appended(p).at
  <1>1. /\ pc[p] = "assign"
        /\ call[p] \in Update
        /\ call[p].op = "Store"
        /\ call[p].repo \in Repos /\ call[p].id \in Ids
    BY DEF IInv, CallInv, StoreAssign, Update
  <1>2. count < MaxStores /\ count \in Nat /\ count' = count + 1
    BY <1>1, MaxStoresAssumption DEF IInv, RoomInv, TypeOK, StoreAssign
  <1>3. Appended(p) \in Event
    BY <1>1, <1>2, MaxStoresAssumption DEF Appended, Event, Stamps
  <1>4. held' = held \cup {Appended(p)}
    BY <1>1 DEF IInv, ScanInv, StoreAssign, AfterAssign, List
  <1>5. \A e \in held : ~SameDelivery(e, Appended(p))
    BY <1>1 DEF IInv, ScanInv, SameDelivery, Appended
  <1>6. \A e \in held : e.at < Appended(p).at
    <2>1. \A e \in held : e.at \in Nat /\ e.at <= count
      BY DEF IInv, TypeOK, StampInv, Event, Stamps
    <2>2. QED
      BY <1>2, <2>1 DEF Appended
  <1>7. QED
    BY <1>2, <1>3, <1>4, <1>5, <1>6

(* Removing a delivery takes the events with its repository and id, and    *)
(* nothing else.                                                           *)
LEMMA RemoveEffect ==
  ASSUME IInv, NEW p \in Procs, RemoveAssign(p)
  PROVE  /\ call[p].repo \in Repos /\ call[p].id \in Ids
         /\ held' = {e \in held : ~(e.repo = call[p].repo /\ e.id = call[p].id)}
         /\ count' = count
  <1>1. /\ pc[p] = "assign"
        /\ call[p] \in Update
        /\ call[p].op = "Remove"
    BY DEF IInv, CallInv, RemoveAssign
  <1>2. local[p] = {e \in List(call[p].repo) : e.id # call[p].id}
    BY <1>1 DEF IInv, ScanInv
  <1>3. QED
    BY <1>1, <1>2 DEF RemoveAssign, AfterAssign, List, Update

-----------------------------------------------------------------------------

(* NewInMemoryStore returns an empty store with a free mutex.              *)
LEMMA InitIInv == Init => IInv
  <1> SUFFICES ASSUME Init PROVE IInv
    OBVIOUS
  <1>1. TypeOK
    <2>1. count \in 0 .. MaxStores
      BY MaxStoresAssumption DEF Init
    <2>2. pc \in [Procs -> Stages]
      BY DEF Init, Stages
    <2>3. call \in [Procs -> Update \cup Retrieval \cup {NoCall}]
      BY DEF Init
    <2>4. /\ local \in [Procs -> SUBSET Event]
          /\ window \in [Procs -> SUBSET SUBSET Event]
      BY DEF Init
    <2>5. QED
      BY <2>1, <2>2, <2>3, <2>4 DEF Init, TypeOK
  <1>2. CallInv /\ LockInv /\ RoomInv /\ ScanInv /\ WindowInv /\ IdleInv
    BY DEF Init, CallInv, LockInv, RoomInv, ScanInv, WindowInv, IdleInv
  <1>3. StampInv /\ UniqueDeliveries /\ SnapshotReads
    BY DEF Init, StampInv, UniqueDeliveries, SnapshotReads
  <1>4. QED
    BY <1>1, <1>2, <1>3 DEF IInv

(* One case per action.  Only StoreAssign and RemoveAssign change the map; *)
(* the other steps disturb what is said of the goroutine that takes them.  *)
LEMMA NextIInv == IInv /\ [Next]_vars => IInv'
  <1> SUFFICES ASSUME IInv, [Next]_vars PROVE IInv'
    OBVIOUS
  <1> USE DEF IInv, Goto
  <1>1. ASSUME NEW p \in Procs, NEW r \in Repos, NEW i \in Ids,
              CallStore(p, r, i)
       PROVE  IInv'
    <2>1. TypeOK' /\ CallInv' /\ LockInv' /\ RoomInv'
      BY <1>1
      DEF CallStore, Begin, TypeOK, CallInv, LockInv, RoomInv, Stages,
          Update, Retrieval, List
    <2>2. StampInv' /\ UniqueDeliveries'
      BY <1>1 DEF CallStore, Begin, StampInv, UniqueDeliveries
    <2>3. ScanInv'
      BY <1>1
      DEF CallStore, Begin, ScanInv, LockInv, TypeOK, Stages, CallInv,
          Update, List, Appended, SameDelivery
    <2>4. WindowInv' /\ IdleInv'
      BY <1>1
      DEF CallStore, Begin, WindowInv, IdleInv, TypeOK, Stages, CallInv,
          Retrieval, List
    <2>5. SnapshotReads'
      BY <1>1
      DEF CallStore, Begin, SnapshotReads, WindowInv, TypeOK, Stages,
          CallInv, List
    <2>6. QED
      BY <2>1, <2>2, <2>3, <2>4, <2>5
  <1>2. ASSUME NEW p \in Procs, NEW r \in Repos, NEW i \in Ids,
              CallRemove(p, r, i)
       PROVE  IInv'
    <2>1. TypeOK' /\ CallInv' /\ LockInv' /\ RoomInv'
      BY <1>2
      DEF CallRemove, Begin, TypeOK, CallInv, LockInv, RoomInv, Stages,
          Update, Retrieval, List
    <2>2. StampInv' /\ UniqueDeliveries'
      BY <1>2 DEF CallRemove, Begin, StampInv, UniqueDeliveries
    <2>3. ScanInv'
      BY <1>2
      DEF CallRemove, Begin, ScanInv, LockInv, TypeOK, Stages, CallInv,
          Update, List, Appended, SameDelivery
    <2>4. WindowInv' /\ IdleInv'
      BY <1>2
      DEF CallRemove, Begin, WindowInv, IdleInv, TypeOK, Stages, CallInv,
          Retrieval, List
    <2>5. SnapshotReads'
      BY <1>2
      DEF CallRemove, Begin, SnapshotReads, WindowInv, TypeOK, Stages,
          CallInv, List
    <2>6. QED
      BY <2>1, <2>2, <2>3, <2>4, <2>5
  <1>3. ASSUME NEW p \in Procs, NEW r \in Repos,
              CallRetrieve(p, r)
       PROVE  IInv'
    <2>1. TypeOK' /\ CallInv' /\ LockInv' /\ RoomInv'
      BY <1>3
      DEF CallRetrieve, Begin, TypeOK, CallInv, LockInv, RoomInv, Stages,
          Update, Retrieval, List
    <2>2. StampInv' /\ UniqueDeliveries'
      BY <1>3 DEF CallRetrieve, Begin, StampInv, UniqueDeliveries
    <2>3. ScanInv'
      BY <1>3
      DEF CallRetrieve, Begin, ScanInv, LockInv, TypeOK, Stages, CallInv,
          Update, List, Appended, SameDelivery
    <2>4. WindowInv' /\ IdleInv'
      BY <1>3
      DEF CallRetrieve, Begin, WindowInv, IdleInv, TypeOK, Stages, CallInv,
          Retrieval, List
    <2>5. SnapshotReads'
      BY <1>3
      DEF CallRetrieve, Begin, SnapshotReads, WindowInv, TypeOK, Stages,
          CallInv, List
    <2>6. QED
      BY <2>1, <2>2, <2>3, <2>4, <2>5
  <1>4. ASSUME NEW p \in Procs, Lock(p)
       PROVE  IInv'
    <2>1. TypeOK' /\ CallInv' /\ LockInv' /\ RoomInv'
      BY <1>4, NoProcAssumption
      DEF Lock, TypeOK, CallInv, LockInv, RoomInv, Stages, Update, Retrieval,
          List
    <2>2. StampInv' /\ UniqueDeliveries'
      BY <1>4 DEF Lock, StampInv, UniqueDeliveries
    <2>3. ScanInv'
      BY <1>4
      DEF Lock, ScanInv, LockInv, TypeOK, Stages, CallInv, Update, List,
          Appended, SameDelivery
    <2>4. WindowInv' /\ IdleInv'
      BY <1>4
      DEF Lock, WindowInv, IdleInv, TypeOK, Stages, CallInv, Retrieval, List
    <2>5. SnapshotReads'
      BY <1>4
      DEF Lock, SnapshotReads, WindowInv, TypeOK, Stages, CallInv, List
    <2>6. QED
      BY <2>1, <2>2, <2>3, <2>4, <2>5
  <1>5. ASSUME NEW p \in Procs, StoreScan(p)
       PROVE  IInv'
    <2>1. TypeOK' /\ CallInv' /\ LockInv' /\ RoomInv'
      BY <1>5, MaxStoresAssumption
      DEF StoreScan, Appended, TypeOK, CallInv, LockInv, RoomInv, Stages,
          Update, Retrieval, List, Event, Stamps, RoomInv
    <2>2. StampInv' /\ UniqueDeliveries'
      BY <1>5 DEF StoreScan, Appended, StampInv, UniqueDeliveries
    <2>3. ScanInv'
      BY <1>5
      DEF StoreScan, Appended, ScanInv, LockInv, TypeOK, Stages, CallInv,
          Update, List, Appended, SameDelivery
    <2>4. WindowInv' /\ IdleInv'
      BY <1>5
      DEF StoreScan, Appended, WindowInv, IdleInv, TypeOK, Stages, CallInv,
          Retrieval, List
    <2>5. SnapshotReads'
      BY <1>5
      DEF StoreScan, Appended, SnapshotReads, WindowInv, TypeOK, Stages,
          CallInv, List
    <2>6. QED
      BY <2>1, <2>2, <2>3, <2>4, <2>5
  <1>6. ASSUME NEW p \in Procs, RemoveScan(p)
       PROVE  IInv'
    <2>1. TypeOK' /\ CallInv' /\ LockInv' /\ RoomInv'
      BY <1>6
      DEF RemoveScan, TypeOK, CallInv, LockInv, RoomInv, Stages, Update,
          Retrieval, List
    <2>2. StampInv' /\ UniqueDeliveries'
      BY <1>6 DEF RemoveScan, StampInv, UniqueDeliveries
    <2>3. ScanInv'
      BY <1>6
      DEF RemoveScan, ScanInv, LockInv, TypeOK, Stages, CallInv, Update,
          List, Appended, SameDelivery
    <2>4. WindowInv' /\ IdleInv'
      BY <1>6
      DEF RemoveScan, WindowInv, IdleInv, TypeOK, Stages, CallInv, Retrieval,
          List
    <2>5. SnapshotReads'
      BY <1>6
      DEF RemoveScan, SnapshotReads, WindowInv, TypeOK, Stages, CallInv,
          List
    <2>6. QED
      BY <2>1, <2>2, <2>3, <2>4, <2>5
  <1>7. ASSUME NEW p \in Procs, StoreAssign(p)
       PROVE  IInv'
    <2> DEFINE new == Appended(p)
    <2>0. /\ new \in Event
          /\ held' = held \cup {new}
          /\ count < MaxStores
          /\ count' = count + 1
          /\ \A e \in held : ~SameDelivery(e, new)
          /\ \A e \in held : e.at < new.at
      BY <1>7, StoreEffect
    <2>00. new.at = count + 1 /\ count \in Nat
      BY DEF Appended, TypeOK
    <2> HIDE DEF new
    <2>1. TypeOK' /\ CallInv' /\ LockInv' /\ RoomInv'
      BY <1>7, <2>0, <2>00, MaxStoresAssumption
      DEF StoreAssign, TypeOK, CallInv, LockInv, RoomInv, Stages, Update,
          Retrieval, List, Witnessed
    <2>2. StampInv' /\ UniqueDeliveries'
      BY <1>7, <2>0, <2>00, MaxStoresAssumption
      DEF StoreAssign, StampInv, UniqueDeliveries, Witnessed, TypeOK, Event,
          Stamps, SameDelivery
    <2>3. ScanInv'
      BY <1>7, <2>0, <2>00, MaxStoresAssumption
      DEF StoreAssign, ScanInv, LockInv, TypeOK, Stages, CallInv, Update,
          List, Appended, SameDelivery, Witnessed
    <2>4. WindowInv' /\ IdleInv'
      BY <1>7, <2>0, <2>00, MaxStoresAssumption
      DEF StoreAssign, WindowInv, IdleInv, TypeOK, Stages, CallInv,
          Retrieval, List, Witnessed
    <2>5. SnapshotReads'
      BY <1>7, <2>0, <2>00, MaxStoresAssumption
      DEF StoreAssign, SnapshotReads, WindowInv, TypeOK, Stages, CallInv,
          List, Witnessed
    <2>6. QED
      BY <2>1, <2>2, <2>3, <2>4, <2>5
  <1>8. ASSUME NEW p \in Procs, RemoveAssign(p)
       PROVE  IInv'
    <2>1. TypeOK' /\ CallInv' /\ LockInv' /\ RoomInv'
      BY <1>8, RemoveEffect
      DEF RemoveAssign, TypeOK, CallInv, LockInv, RoomInv, Stages, Update,
          Retrieval, List, Witnessed
    <2>2. StampInv' /\ UniqueDeliveries'
      BY <1>8, RemoveEffect
      DEF RemoveAssign, StampInv, UniqueDeliveries, Witnessed
    <2>3. ScanInv'
      BY <1>8, RemoveEffect
      DEF RemoveAssign, ScanInv, LockInv, TypeOK, Stages, CallInv, Update,
          List, Appended, SameDelivery, Witnessed
    <2>4. WindowInv' /\ IdleInv'
      BY <1>8, RemoveEffect
      DEF RemoveAssign, WindowInv, IdleInv, TypeOK, Stages, CallInv,
          Retrieval, List, Witnessed
    <2>5. SnapshotReads'
      BY <1>8, RemoveEffect
      DEF RemoveAssign, SnapshotReads, WindowInv, TypeOK, Stages, CallInv,
          List, Witnessed
    <2>6. QED
      BY <2>1, <2>2, <2>3, <2>4, <2>5
  <1>9. ASSUME NEW p \in Procs, Unlock(p)
       PROVE  IInv'
    <2>1. TypeOK' /\ CallInv' /\ LockInv' /\ RoomInv'
      BY <1>9
      DEF Unlock, End, TypeOK, CallInv, LockInv, RoomInv, Stages, Update,
          Retrieval, List
    <2>2. StampInv' /\ UniqueDeliveries'
      BY <1>9 DEF Unlock, End, StampInv, UniqueDeliveries
    <2>3. ScanInv'
      BY <1>9
      DEF Unlock, End, ScanInv, LockInv, TypeOK, Stages, CallInv, Update,
          List, Appended, SameDelivery
    <2>4. WindowInv' /\ IdleInv'
      BY <1>9
      DEF Unlock, End, WindowInv, IdleInv, TypeOK, Stages, CallInv,
          Retrieval, List
    <2>5. SnapshotReads'
      BY <1>9
      DEF Unlock, End, SnapshotReads, WindowInv, TypeOK, Stages, CallInv,
          List
    <2>6. QED
      BY <2>1, <2>2, <2>3, <2>4, <2>5
  <1>10. ASSUME NEW p \in Procs, RetrieveCount(p)
       PROVE  IInv'
    <2>1. TypeOK' /\ CallInv' /\ LockInv' /\ RoomInv'
      BY <1>10
      DEF RetrieveCount, TypeOK, CallInv, LockInv, RoomInv, Stages, Update,
          Retrieval, List
    <2>2. StampInv' /\ UniqueDeliveries'
      BY <1>10 DEF RetrieveCount, StampInv, UniqueDeliveries
    <2>3. ScanInv'
      BY <1>10
      DEF RetrieveCount, ScanInv, LockInv, TypeOK, Stages, CallInv, Update,
          List, Appended, SameDelivery
    <2>4. WindowInv' /\ IdleInv'
      BY <1>10
      DEF RetrieveCount, WindowInv, IdleInv, TypeOK, Stages, CallInv,
          Retrieval, List
    <2>5. SnapshotReads'
      <3>1. List(call[p].repo) = {} => local[p] \in window[p]
        BY <1>10 DEF RetrieveCount, WindowInv
      <3>2. /\ local' = local /\ window' = window
            /\ pc' = [pc EXCEPT ![p] = IF List(call[p].repo) # {}
                                         THEN "read" ELSE "got"]
        BY <1>10 DEF RetrieveCount, Goto
      <3>3. pc \in [Procs -> Stages]
        BY DEF TypeOK
      <3>4. QED
        BY <3>1, <3>2, <3>3 DEF SnapshotReads
    <2>6. QED
      BY <2>1, <2>2, <2>3, <2>4, <2>5
  <1>11. ASSUME NEW p \in Procs, RetrieveRead(p)
       PROVE  IInv'
    <2>1. TypeOK' /\ CallInv' /\ LockInv' /\ RoomInv'
      BY <1>11
      DEF RetrieveRead, TypeOK, CallInv, LockInv, RoomInv, Stages, Update,
          Retrieval, List
    <2>2. StampInv' /\ UniqueDeliveries'
      BY <1>11 DEF RetrieveRead, StampInv, UniqueDeliveries
    <2>3. ScanInv'
      BY <1>11
      DEF RetrieveRead, ScanInv, LockInv, TypeOK, Stages, CallInv, Update,
          List, Appended, SameDelivery
    <2>4. WindowInv' /\ IdleInv'
      BY <1>11
      DEF RetrieveRead, WindowInv, IdleInv, TypeOK, Stages, CallInv,
          Retrieval, List
    <2>5. SnapshotReads'
      BY <1>11
      DEF RetrieveRead, SnapshotReads, WindowInv, TypeOK, Stages, CallInv,
          List
    <2>6. QED
      BY <2>1, <2>2, <2>3, <2>4, <2>5
  <1>12. ASSUME NEW p \in Procs, MapRace(p)
       PROVE  IInv'
    BY <1>12
    DEF MapRace, TypeOK, CallInv, LockInv, StampInv, RoomInv, ScanInv,
        WindowInv, IdleInv, UniqueDeliveries, SnapshotReads, List, Appended
  <1>13. ASSUME NEW p \in Procs, TornRead(p)
       PROVE  IInv'
    <2>1. TypeOK' /\ CallInv' /\ LockInv' /\ RoomInv'
      BY <1>13
      DEF TornRead, Prefix, Races, TypeOK, CallInv, LockInv, RoomInv, Stages,
          Update, Retrieval, List
    <2>2. StampInv' /\ UniqueDeliveries'
      BY <1>13 DEF TornRead, Prefix, Races, StampInv, UniqueDeliveries
    <2>3. ScanInv'
      BY <1>13
      DEF TornRead, Prefix, Races, ScanInv, LockInv, TypeOK, Stages, CallInv,
          Update, List, Appended, SameDelivery
    <2>4. WindowInv' /\ IdleInv'
      BY <1>13
      DEF TornRead, Prefix, Races, WindowInv, IdleInv, TypeOK, Stages,
          CallInv, Retrieval, List
    <2>5. SnapshotReads'
      <3>1. /\ pc[p] = "read"
            /\ local'[p] \subseteq List(call[p].repo)
        BY <1>13 DEF TornRead, Prefix, TypeOK
      <3>2. List(call[p].repo) \in window'[p]
        BY <1>13, <3>1 DEF TornRead, WindowInv
      <3>3. pc'[p] = "torn"
        BY <1>13 DEF TornRead, TypeOK
      <3>4. \A q \in Procs \ {p} : pc'[q] = pc[q] /\ local'[q] = local[q]
        BY <1>13 DEF TornRead, TypeOK
      <3>5. window' = window
        BY <1>13 DEF TornRead
      <3>6. QED
        BY <3>1, <3>2, <3>3, <3>4, <3>5 DEF SnapshotReads
    <2>6. QED
      BY <2>1, <2>2, <2>3, <2>4, <2>5
  <1>14. ASSUME NEW p \in Procs, Return(p)
       PROVE  IInv'
    <2>1. TypeOK' /\ CallInv' /\ LockInv' /\ RoomInv'
      BY <1>14
      DEF Return, End, TypeOK, CallInv, LockInv, RoomInv, Stages, Update,
          Retrieval, List
    <2>2. StampInv' /\ UniqueDeliveries'
      BY <1>14 DEF Return, End, StampInv, UniqueDeliveries
    <2>3. ScanInv'
      BY <1>14
      DEF Return, End, ScanInv, LockInv, TypeOK, Stages, CallInv, Update,
          List, Appended, SameDelivery
    <2>4. WindowInv' /\ IdleInv'
      BY <1>14
      DEF Return, End, WindowInv, IdleInv, TypeOK, Stages, CallInv,
          Retrieval, List
    <2>5. SnapshotReads'
      BY <1>14
      DEF Return, End, SnapshotReads, WindowInv, TypeOK, Stages, CallInv,
          List
    <2>6. QED
      BY <2>1, <2>2, <2>3, <2>4, <2>5
  <1>15. CASE UNCHANGED vars
    BY <1>15
    DEF vars, TypeOK, CallInv, LockInv, StampInv, RoomInv, ScanInv,
        WindowInv, IdleInv, UniqueDeliveries, SnapshotReads, List, Appended
  <1>16. QED
    BY <1>1, <1>2, <1>3, <1>4, <1>5, <1>6, <1>7, <1>8, <1>9, <1>10, <1>11, <1>12, <1>13, <1>14, <1>15
    DEF Next, Begins, Step, Stopped

(* The invariant of the whole development.                                 *)
THEOREM Invariance == Spec => []IInv
  <1>1. Init => IInv
    BY InitIInv
  <1>2. IInv /\ [Next]_vars => IInv'
    BY NextIInv
  <1>3. QED
    BY <1>1, <1>2, PTL DEF Spec

(* Every variable keeps its type for any size of the instance.             *)
THEOREM TypeCorrect == Spec => []TypeOK
  <1>1. IInv => TypeOK
    BY DEF IInv
  <1>2. QED
    BY <1>1, Invariance, PTL

(* A delivery is never cached twice, whatever Store and Remove calls run   *)
(* at the same time (inmemory.go, Store).                                  *)
THEOREM UniqueDeliveriesAlways == Spec => []UniqueDeliveries
  <1>1. IInv => UniqueDeliveries
    BY DEF IInv
  <1>2. QED
    BY <1>1, Invariance, PTL

(* What RetrieveEventsForRepository returns was the list at some moment of *)
(* the call, without the lock, unless the read was torn.                   *)
THEOREM SnapshotReadsAlways == Spec => []SnapshotReads
  <1>1. IInv => SnapshotReads
    BY DEF IInv
  <1>2. QED
    BY <1>1, Invariance, PTL

-----------------------------------------------------------------------------

(* Every step of the store is a step of the abstract store or leaves its   *)
(* events alone: the assignment of a map entry is the moment at which a    *)
(* call takes effect.                                                      *)
LEMMA StepRefines == IInv /\ [Next]_vars => [Abs!Next]_held
  <1> SUFFICES ASSUME IInv, [Next]_vars PROVE [Abs!Next]_held
    OBVIOUS
  <1>1. ASSUME NEW p \in Procs, StoreAssign(p) PROVE Abs!Next
    <2>1. /\ Appended(p) \in Abs!Event
          /\ \A e \in held : ~Abs!SameDelivery(Appended(p), e)
          /\ \A e \in held : e.at < Appended(p).at
          /\ held' = held \cup {Appended(p)}
      BY <1>1, StoreEffect
      DEF Abs!Event, Abs!Stamps, Event, Stamps, Abs!SameDelivery, SameDelivery
    <2>2. Abs!Store(Appended(p))
      BY <2>1 DEF Abs!Store, Abs!SameDelivery
    <2>3. QED
      BY <2>1, <2>2 DEF Abs!Next
  <1>2. ASSUME NEW p \in Procs, RemoveAssign(p) PROVE Abs!Next
    BY <1>2, RemoveEffect DEF Abs!Next, Abs!Remove
  <1>3. ASSUME NEW p \in Procs, ~StoreAssign(p), ~RemoveAssign(p),
               Begins(p) \/ Lock(p) \/ Step(p) \/ MapRace(p) \/ TornRead(p)
        PROVE  UNCHANGED held
    BY <1>3 DEF Begins, CallStore, CallRemove, CallRetrieve, Lock, Step,
      StoreScan, RemoveScan, Unlock, RetrieveCount, RetrieveRead, Return,
      MapRace, TornRead
  <1>4. QED
    BY <1>1, <1>2, <1>3 DEF Next, Stopped, vars

(* The in-memory store implements cache.EventStore as EventStore has it.   *)
THEOREM StoreImplementsEventStore == Spec => ImplementsEventStore
  <1>1. Init => Abs!Init
    BY DEF Init, Abs!Init
  <1>2. IInv /\ [Next]_vars => [Abs!Next]_held
    BY StepRefines
  <1>3. QED
    BY <1>1, <1>2, Invariance, PTL DEF Spec, ImplementsEventStore
=============================================================================
