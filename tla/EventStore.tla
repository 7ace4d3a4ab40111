------------------------------ MODULE EventStore ------------------------------
(***************************************************************************)
(* What the rest of the program relies on when it talks to the interface   *)
(* cache.EventStore: a set of cached webhook events, at most one for each  *)
(* repository and delivery id, to which an event is added behind the ones  *)
(* already there and from which a delivery is removed as a whole.  There   *)
(* is no lock, no goroutine and no map here: every operation is one step.  *)
(*                                                                         *)
(* The list that the code keeps per repository is the set of its events    *)
(* ordered by their field "at", the position at which each was appended.   *)
(***************************************************************************)
EXTENDS Naturals

CONSTANTS
  Repos,      (* GitHub repository ids                                     *)
  Ids,        (* delivery ids: the value of the header X-Github-Delivery   *)
  MaxStores   (* bound: how many events are ever appended                  *)

VARIABLE held (* the cached events                                         *)

Stamps == 1 .. MaxStores

Event == [repo : Repos, id : Ids, at : Stamps]

(* The store takes two events for the same one when both of these agree.   *)
SameDelivery(e, f) == e.repo = f.repo /\ e.id = f.id

Init == held = {}

Store(e) ==
  /\ \A f \in held : ~SameDelivery(e, f)
  /\ \A f \in held : f.repo = e.repo => f.at < e.at
  /\ held' = held \cup {e}

Remove(r, i) == held' = {e \in held : ~(e.repo = r /\ e.id = i)}

Next ==
  \/ \E e \in Event : Store(e)
  \/ \E r \in Repos, i \in Ids : Remove(r, i)

Spec == Init /\ [][Next]_held
===============================================================================
