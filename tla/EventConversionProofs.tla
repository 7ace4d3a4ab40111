------------------------ MODULE EventConversionProofs -------------------------
(***************************************************************************)
(* What the conversions do to any event and to any request, whatever its   *)
(* headers: one way from a store to another takes away what is blank, any  *)
(* further way takes nothing, and no event can be posted before the first. *)
(***************************************************************************)
EXTENDS EventConversion, FiniteSetTheorems, TLAPS

(* What is left of an event on its way, in terms of its named headers.     *)
LEMMA ReceivedFields ==
  ASSUME NEW event
  PROVE  LET kept  == {h \in event.named : h.value # Empty}
             given == {h \in kept : h.name = DeliveryIdHeader}
         IN Received(event) =
              [id    |-> IF given = {} THEN Empty
                         ELSE (CHOOSE h \in given : TRUE).value,
               blank |-> 0,
               named |-> kept]
  BY DEF Received, ExternalToInternalEvent, InternalToExternalEvent

(* However many servers an event has come over: the first conversion has   *)
(* settled what the client gets (api/v1/webhook_event.go).                 *)
THEOREM ConversionSettles ==
  ASSUME NEW event
  PROVE  Received(Received(event)) = Received(event)
  <1> DEFINE kept(e)  == {h \in e.named : h.value # Empty}
             given(e) == {h \in kept(e) : h.name = DeliveryIdHeader}
             id(e)    == IF given(e) = {} THEN Empty
                         ELSE (CHOOSE h \in given(e) : TRUE).value
             once     == Received(event)
  <1>1. \A e : Received(e) = [id |-> id(e), blank |-> 0, named |-> kept(e)]
    BY ReceivedFields
  <1>2. once.named = kept(event)
    BY <1>1
  <1> HIDE DEF once
  <1>3. kept(once) = kept(event)
    BY <1>2
  <1>4. id(once) = id(event)
    <2>1. given(once) = given(event)
      BY <1>3
    <2> HIDE DEF given
    <2>2. QED
      BY <2>1
  <1>5. Received(once) = Received(event)
    BY <1>1, <1>3, <1>4
  <1>6. QED
    BY <1>5 DEF once

(* An event as InternalEvent makes it of a request cannot be posted: the   *)
(* headers without a name that it begins with make net/http refuse it.     *)
(* This is so for each event of GitHub that a server relays itself over    *)
(* HTTP (event_cache.go:83, relay.go).                                     *)
THEOREM FirstPostRefused ==
  ASSUME NEW request, IsFiniteSet(DOMAIN request), DOMAIN request # {}
  PROVE  PostRefused(InternalEvent(request))
  <1>1. Cardinality(DOMAIN request) \in Nat /\ Cardinality(DOMAIN request) # 0
    BY FS_EmptySet, FS_CardinalityType
  <1>2. QED
    BY <1>1 DEF PostRefused, InternalEvent

(* An event that has come from another store has no such header.           *)
THEOREM LaterPostAccepted ==
  ASSUME NEW event
  PROVE  ~PostRefused(Received(event))
  <1>1. Received(event).blank = 0
    BY ReceivedFields
  <1>2. QED
    BY <1>1 DEF PostRefused

(* A header without a value goes missing at the first conversion and none  *)
(* at a later one, and the id stays what the request said.                 *)
LEMMA ReceivedEvent ==
  ASSUME NEW request, NEW event,
         {h \in event.named : h.value # Empty}
           = {h \in FirstValues(request) : h.value # Empty}
  PROVE  /\ Received(event).named
              = {h \in FirstValues(request) : h.value # Empty}
         /\ Received(event).blank = 0
         /\ Received(event).id = InternalEvent(request).id
<1> DEFINE kept  == {h \in FirstValues(request) : h.value # Empty}
           given == {h \in kept : h.name = DeliveryIdHeader}
<1>1. Received(event) =
        [id    |-> IF given = {} THEN Empty
                   ELSE (CHOOSE h \in given : TRUE).value,
         blank |-> 0,
         named |-> kept]
  BY DEF Received, ExternalToInternalEvent, InternalToExternalEvent
<1>2. CASE given = {}
  <2>1. InternalEvent(request).id = Empty
    <3>1. CASE DeliveryIdHeader \notin DOMAIN request
      BY <3>1 DEF InternalEvent
    <3>2. CASE DeliveryIdHeader \in DOMAIN request
      <4>1. [name |-> DeliveryIdHeader, value |-> request[DeliveryIdHeader][1]]
              \in FirstValues(request)
        BY <3>2 DEF FirstValues
      <4>2. request[DeliveryIdHeader][1] = Empty
        BY <1>2, <4>1
      <4> QED
        BY <3>2, <4>2 DEF InternalEvent
    <3> QED
      BY <3>1, <3>2
  <2> QED
    BY <1>1, <1>2, <2>1
<1>3. CASE given # {}
  <2>1. PICK h \in given : h = (CHOOSE x \in given : TRUE)
    BY <1>3
  <2>2. h \in FirstValues(request) /\ h.name = DeliveryIdHeader
    OBVIOUS
  <2>3. /\ DeliveryIdHeader \in DOMAIN request
        /\ h.value = request[DeliveryIdHeader][1]
    BY <2>2 DEF FirstValues
  <2>4. InternalEvent(request).id = h.value
    BY <2>3 DEF InternalEvent
  <2> QED
    BY <1>1, <1>3, <2>1, <2>4
<1> QED
  BY <1>2, <1>3, <1>1
===============================================================================
