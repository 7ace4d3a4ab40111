--------------------------- MODULE EventConversion ----------------------------
(***************************************************************************)
(* What becomes of the headers and the id of an event on its way from the  *)
(* request of GitHub to the post at the target: InternalEvent in           *)
(* internal/cache/event_cache.go, the two conversions of                   *)
(* api/v1/webhook_event.go and eventHeadersToHTTPHeaders of                *)
(* internal/relay/relay.go.                                                *)
(*                                                                         *)
(* The headers of a request are a function from names to non-empty         *)
(* sequences of values.  Those of an event are a list in the code, made by *)
(* going through a map, so in no order that counts: here the set `named'   *)
(* of its entries with a name, and the number `blank' of those without.    *)
(***************************************************************************)
EXTENDS Naturals, FiniteSets

CONSTANTS
  DeliveryIdHeader,  (* the name of the header that holds the id           *)
  Empty              (* the empty string, as a value and as an id          *)

(* Only the first value of a header is taken along.                        *)
FirstValues(request) ==
  {[name |-> n, value |-> request[n][1]] : n \in DOMAIN request}

(* make([]WebhookEventHeader, len(headers)), and then append: as many      *)
(* entries without a name as there are headers come before them.           *)
InternalEvent(request) ==
  [id    |-> IF DeliveryIdHeader \in DOMAIN request
               THEN request[DeliveryIdHeader][1] ELSE Empty,
   blank |-> Cardinality(DOMAIN request),
   named |-> FirstValues(request)]

(* The same again: for each entry, named or not, a nil header in front,    *)
(* which is an empty one on the wire.                                      *)
InternalToExternalEvent(event) ==
  [id    |-> event.id,
   blank |-> 2 * event.blank + Cardinality(event.named),
   named |-> event.named]

(* Fault: headers without a name are kept.                                 *)
ExternalToInternalEventAll(event) ==
  LET given == {h \in event.named : h.name = DeliveryIdHeader} IN
    [id    |-> IF given = {} THEN Empty ELSE (CHOOSE h \in given : TRUE).value,
     blank |-> event.blank,
     named |-> event.named]

(* Headers without a name or a value are left out, and the id is the value *)
(* of the header, whatever the field EventId says.                         *)
ExternalToInternalEvent(event) ==
  LET kept  == {h \in event.named : h.value # Empty}
      given == {h \in kept : h.name = DeliveryIdHeader}
  IN [id    |-> IF given = {} THEN Empty ELSE (CHOOSE h \in given : TRUE).value,
      blank |-> 0,
      named |-> kept]

(* What a store takes in of an event that is sent from another store.      *)
Received(event) == ExternalToInternalEvent(InternalToExternalEvent(event))

(* net/http refuses to send a request with a header that has no name.      *)
PostRefused(event) == event.blank > 0
=============================================================================
