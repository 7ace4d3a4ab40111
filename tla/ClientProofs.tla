----------------------------- MODULE ClientProofs -----------------------------
(***************************************************************************)
(* What holds of the client for any deliveries, responses and settings.    *)
(*                                                                         *)
(* Main and the relay goroutine share the store and no lock.  Main appends *)
(* and the relay marks, so what the relay has done is always a beginning   *)
(* of the list: MarkInv says so between two posts and between a post and   *)
(* its mark, PlaceInv says how far the relay is in the list it has got.    *)
(***************************************************************************)
EXTENDS Client, TLAPS

(* What is marked is what has been tried, but for the post under way.      *)
MarkInv ==
  IF relayPc = "mark"
    THEN /\ relayAt = Len(tried)
         /\ relayed = 1 .. (Len(tried) - 1)
    ELSE relayed = 1 .. Len(tried)

(* The relay passes what is marked and posts the first that is not.        *)
PlaceInv ==
  /\ relayAt >= 1
  /\ relayPc = "scan" => relayAt <= Len(tried) + 1
  /\ relayPc = "post" => relayAt = Len(tried) + 1
  /\ relayPc \in {"post", "mark"} => relayAt <= relayEnd

IInv ==
  /\ TypeOK
  /\ MarkInv
  /\ PlaceInv
  /\ RelayedAsReceived

-----------------------------------------------------------------------------
(* Types                                                                   *)

(* The client starts with an empty store and no stream.                    *)
LEMMA InitTypeOK == Init => TypeOK
  <1> SUFFICES ASSUME Init PROVE TypeOK
    OBVIOUS
  <1>1. relayed \subseteq Places(cached) /\ relayEnd \in 0 .. Len(cached)
    BY DEF Init, Places
  <1>2. /\ pc = "calling"
        /\ ctx \in BOOLEAN /\ firstCtx \in BOOLEAN
        /\ stream \in {"closed", "open", "ended", "broken", "done"}
        /\ relay \in Relays /\ otel \in OTelSettings
    BY DEF Init
  <1>3. wire \in Seq(Seq(Ids)) /\ inbox \in Seq(Ids)
    BY DEF Init
  <1>4. cached \in Seq(Ids) /\ tried \in Seq(Ids) /\ relayAt \in Nat
    BY DEF Init
  <1>5. relayPc \in {"off", "start", "idle", "scan", "post", "mark"}
    BY DEF Init
  <1>6. QED
    BY <1>1, <1>2, <1>3, <1>4, <1>5 DEF TypeOK, Message

(* No step changes the type of a variable: the event that is posted is one *)
(* of the list.                                                            *)
LEMMA NextTypeOK == ASSUME TypeOK, PlaceInv, Next PROVE TypeOK'
  <1> USE DEF TypeOK, Message, Places, ctxVars, sessionVars, relayVars, setVars
  <1>1. CASE SessionStep
    <2>1. CASE Fetch \/ FetchFails \/ NextRound \/ Select \/ ReceiveFails
      BY <2>1 DEF Fetch, FetchFails, NextRound, Select, ReceiveFails
    <2>2. CASE Receive
      BY <2>2 DEF Receive
    <2>3. CASE ReceiveEnd
      BY <2>3 DEF ReceiveEnd
    <2>4. CASE StoreReceived
      <3>1. CASE inbox = <<>>
        BY <2>4, <3>1 DEF StoreReceived
      <3>2. CASE inbox # <<>>
        <4>1. Head(inbox) \in Ids /\ Tail(inbox) \in Seq(Ids)
          BY <3>2
        <4>2. Len(cached) \in Nat
          OBVIOUS
        <4>3. /\ cached' \in Seq(Ids)
              /\ Len(cached') \in {Len(cached), Len(cached) + 1}
          <5>1. cached' \in {cached, Append(cached, Head(inbox))}
            BY <2>4, <3>2 DEF StoreReceived
          <5>2. /\ Append(cached, Head(inbox)) \in Seq(Ids)
                /\ Len(Append(cached, Head(inbox))) = Len(cached) + 1
            BY <4>1
          <5>3. QED
            BY <5>1, <5>2
        <4>4. 1 .. Len(cached) \subseteq 1 .. Len(cached')
          BY <4>2, <4>3
        <4>5. relayed' \subseteq 1 .. Len(cached')
          BY <2>4, <4>4 DEF StoreReceived
        <4>6. relayEnd' \in 0 .. Len(cached')
          BY <2>4, <4>2, <4>3 DEF StoreReceived
        <4>7. QED
          BY <2>4, <3>2, <4>1, <4>3, <4>5, <4>6 DEF StoreReceived
      <3>3. QED
        BY <3>1, <3>2
    <2>5. CASE Leave
      BY <2>5 DEF Leave
    <2>6. QED
      BY <1>1, <2>1, <2>2, <2>3, <2>4, <2>5 DEF SessionStep
  <1>2. CASE LoopStep
    BY <1>2 DEF LoopStep, CheckError, CheckAgain, Renew, Wake
  <1>3. CASE RelayStep
    <2>1. CASE RelayStart \/ RelayTick \/ RelayScan \/ RelayPushFails \/ RelayStop
      <3>1. CASE RelayTick
        BY <3>1 DEF RelayTick
      <3>2. CASE RelayScan
        BY <3>2 DEF RelayScan
      <3>3. CASE RelayStart \/ RelayPushFails \/ RelayStop
        BY <3>3 DEF RelayStart, RelayPushFails, RelayStop
      <3>4. QED
        BY <2>1, <3>1, <3>2, <3>3
    <2>2. ASSUME relayPc \in {"post", "mark"}
         PROVE  relayAt \in 1 .. Len(cached)
      BY <2>2 DEF PlaceInv
    <2>3. CASE RelayPost
      BY <2>2, <2>3 DEF RelayPost
    <2>4. CASE RelayMark
      BY <2>2, <2>4 DEF RelayMark
    <2>5. QED
      BY <1>3, <2>1, <2>3, <2>4 DEF RelayStep
  <1>4. CASE Environment
    <2>1. ASSUME NEW m \in Messages, ServerSends(m)
         PROVE  TypeOK'
      BY <2>1, MessagesAssumption DEF ServerSends
    <2>2. CASE ServerEnds \/ Signal
      BY <2>2 DEF ServerEnds, Signal
    <2>3. CASE StreamBreaks
      <3>1. PICK n \in 0 .. Len(wire) : wire' = SubSeq(wire, 1, n)
        BY <2>3 DEF StreamBreaks
      <3>2. wire' \in Seq(Seq(Ids))
        BY <3>1
      <3>3. QED
        BY <2>3, <3>2 DEF StreamBreaks
    <2>4. QED
      BY <1>4, <2>1, <2>2, <2>3 DEF Environment
  <1>5. CASE Exited
    BY <1>5 DEF Exited, vars
  <1>6. QED
    BY <1>1, <1>2, <1>3, <1>4, <1>5 DEF Next

-----------------------------------------------------------------------------
(* The order of the posts                                                  *)

(* Nothing is cached or tried at the start.                                *)
LEMMA InitIInv == Init => IInv
  <1> SUFFICES ASSUME Init PROVE IInv
    OBVIOUS
  <1>1. Len(cached) = 0 /\ Len(tried) = 0 /\ relayAt = 1 /\ relayed = {}
        /\ relayPc \in {"off", "start"}
    BY DEF Init
  <1>2. MarkInv /\ PlaceInv
    BY <1>1 DEF MarkInv, PlaceInv
  <1>3. RelayedAsReceived
    BY <1>1 DEF RelayedAsReceived, Places
  <1>4. QED
    BY <1>2, <1>3, InitTypeOK DEF IInv

(* A response adds at the end what the store does not have: the list has   *)
(* no delivery twice, and the places of the others do not change.          *)
LEMMA StoreKeepsOrder == ASSUME IInv, StoreReceived PROVE IInv'
  <1> USE DEF IInv, TypeOK, Message
  <1>1. Len(cached) \in Nat /\ Len(tried) \in Nat
    OBVIOUS
  <1>2. MarkInv'
    BY DEF StoreReceived, MarkInv, relayVars
  <1>3. PlaceInv'
    BY DEF StoreReceived, PlaceInv, relayVars
  <1>4. RelayedAsReceived'
    <2>1. CASE cached' = cached
      BY <2>1 DEF StoreReceived, RelayedAsReceived
    <2>2. CASE cached' # cached
      <3>1. /\ inbox # <<>>
            /\ ~Has(cached, Head(inbox))
            /\ cached' = Append(cached, Head(inbox))
            /\ tried' = tried
        BY <2>2 DEF StoreReceived
      <3>2. Head(inbox) \in Ids
        BY <3>1
      <3>3. /\ Len(cached') = Len(cached) + 1
            /\ \A k \in 1 .. Len(cached) : cached'[k] = cached[k]
            /\ cached'[Len(cached) + 1] = Head(inbox)
        BY <3>1, <3>2
      <3>4. \A k \in 1 .. Len(cached) : cached[k] # Head(inbox)
        BY <3>1 DEF Has, Places
      <3>5. \A j, k \in 1 .. Len(cached') : cached'[j] = cached'[k] => j = k
        BY <1>1, <3>3, <3>4 DEF RelayedAsReceived, Places
      <3>6. Len(tried) <= Len(cached')
            /\ \A k \in 1 .. Len(tried) : tried[k] = cached'[k]
        <4>1. /\ Len(tried) <= Len(cached)
              /\ \A k \in 1 .. Len(tried) : tried[k] = cached[k]
          BY DEF RelayedAsReceived, Places
        <4>2. Len(tried) <= Len(cached')
          BY <1>1, <3>3, <4>1
        <4>3. ASSUME NEW k \in 1 .. Len(tried)
             PROVE  tried[k] = cached'[k]
          <5>1. k \in 1 .. Len(cached)
            BY <1>1, <4>1
          <5>2. QED
            BY <3>3, <4>1, <5>1
        <4>4. QED
          BY <4>2, <4>3
      <3>7. QED
        BY <3>1, <3>5, <3>6 DEF RelayedAsReceived, Places
    <2>3. QED
      BY <2>1, <2>2
  <1>5. Next
    BY DEF Next, SessionStep, StoreReceived
  <1>6. QED
    BY <1>2, <1>3, <1>4, <1>5, NextTypeOK

(* The relay tries the events of the list one after the other and does not *)
(* come back to one of them.                                               *)
LEMMA RelayKeepsOrder == ASSUME IInv, RelayStep, pc # "exited" PROVE IInv'
  <1> USE DEF IInv, TypeOK, Message
  <1>1. Len(cached) \in Nat /\ Len(tried) \in Nat /\ cached' = cached
    BY DEF RelayStep, RelayStart, RelayTick, RelayScan, RelayPost,
           RelayPushFails, RelayMark, RelayStop
  <1>2. CASE RelayStart \/ RelayTick \/ RelayScan \/ RelayPushFails \/ RelayStop
    <2>1. tried' = tried /\ relayed' = relayed
      BY <1>2 DEF RelayStart, RelayTick, RelayScan, RelayPushFails, RelayStop
    <2>2. MarkInv'
      BY <1>2, <2>1 DEF RelayStart, RelayTick, RelayScan, RelayPushFails,
                        RelayStop, MarkInv, relayVars
    <2>3. PlaceInv'
      <3>1. CASE RelayStart \/ RelayTick \/ RelayPushFails \/ RelayStop
        BY <1>1, <2>1, <3>1 DEF RelayStart, RelayTick, RelayPushFails,
                                RelayStop, PlaceInv, relayVars
      <3>2. CASE RelayScan
        <4>1. /\ relayed = 1 .. Len(tried)
              /\ relayAt >= 1 /\ relayAt <= Len(tried) + 1
          BY <3>2 DEF RelayScan, MarkInv, PlaceInv
        <4>2. CASE relayAt > relayEnd
          BY <3>2, <4>1, <4>2 DEF RelayScan, PlaceInv
        <4>3. CASE ~(relayAt > relayEnd) /\ relayAt \in relayed
          BY <1>1, <2>1, <3>2, <4>1, <4>3 DEF RelayScan, PlaceInv
        <4>4. CASE ~(relayAt > relayEnd) /\ relayAt \notin relayed
          <5>1. relayAt = Len(tried) + 1
            BY <1>1, <4>1, <4>4
          <5>2. relayAt <= relayEnd
            BY <4>4
          <5>3. QED
            BY <2>1, <3>2, <4>1, <4>4, <5>1, <5>2 DEF RelayScan, PlaceInv
        <4>5. QED
          BY <4>2, <4>3, <4>4
      <3>3. QED
        BY <1>2, <3>1, <3>2
    <2>4. RelayedAsReceived'
      BY <1>1, <2>1 DEF RelayedAsReceived
    <2>5. QED
      BY <2>2, <2>3, <2>4, NextTypeOK DEF Next
  <1>3. CASE RelayPost
    <2>1. relayAt \in 1 .. Len(cached) /\ relayAt = Len(tried) + 1
      BY <1>3 DEF RelayPost, PlaceInv
    <2>2. /\ Len(tried') = Len(tried) + 1
          /\ \A k \in 1 .. Len(tried) : tried'[k] = tried[k]
          /\ tried'[Len(tried) + 1] = cached[relayAt]
      BY <1>3, <2>1 DEF RelayPost
    <2>3. MarkInv'
      BY <1>1, <1>3, <2>1, <2>2 DEF RelayPost, MarkInv
    <2>4. PlaceInv'
      BY <1>3 DEF RelayPost, PlaceInv
    <2>5. RelayedAsReceived'
      BY <1>1, <2>1, <2>2 DEF RelayedAsReceived, Places
    <2>6. QED
      BY <2>3, <2>4, <2>5, NextTypeOK DEF Next
  <1>4. CASE RelayMark
    <2>1. MarkInv'
      BY <1>1, <1>4 DEF RelayMark, MarkInv, PlaceInv
    <2>2. PlaceInv'
      BY <1>1, <1>4 DEF RelayMark, MarkInv, PlaceInv
    <2>3. RelayedAsReceived'
      BY <1>1, <1>4 DEF RelayMark, RelayedAsReceived
    <2>4. QED
      BY <2>1, <2>2, <2>3, NextTypeOK DEF Next
  <1>5. QED
    BY <1>2, <1>3, <1>4 DEF RelayStep

(* Every other step leaves the store, the relay and the posts alone.       *)
LEMMA NextIInv == ASSUME IInv, [Next]_vars PROVE IInv'
  <1>1. CASE UNCHANGED <<cached, relayed, relayVars, tried>>
    <2>1. MarkInv' /\ PlaceInv' /\ RelayedAsReceived'
      BY <1>1 DEF IInv, MarkInv, PlaceInv, RelayedAsReceived, Places, relayVars
    <2>2. CASE Next
      BY <2>1, <2>2, NextTypeOK DEF IInv
    <2>3. CASE UNCHANGED vars
      BY <2>1, <2>3 DEF IInv, TypeOK, vars, ctxVars, sessionVars, relayVars,
                        setVars, Places, Message
    <2>4. QED
      BY <2>2, <2>3
  <1>2. CASE StoreReceived
    BY <1>2, StoreKeepsOrder
  <1>3. CASE RelayStep /\ pc # "exited"
    BY <1>3, RelayKeepsOrder
  <1>4. CASE SessionStep /\ ~StoreReceived
    BY <1>1, <1>4 DEF SessionStep, Fetch, FetchFails, NextRound, Select,
                      Receive, ReceiveEnd, ReceiveFails, Leave
  <1>5. CASE LoopStep
    BY <1>1, <1>5 DEF LoopStep, CheckError, CheckAgain, Renew, Wake
  <1>6. CASE Environment
    BY <1>1, <1>6 DEF Environment, ServerSends, ServerEnds, StreamBreaks, Signal
  <1>7. CASE UNCHANGED vars
    BY <1>1, <1>7 DEF vars
  <1>8. QED
    BY <1>2, <1>3, <1>4, <1>5, <1>6, <1>7 DEF Next, Exited

(* The inductive invariant holds in every state of the client.             *)
THEOREM Invariant == Spec => []IInv
  <1>1. IInv /\ [Next]_vars => IInv'
    BY NextIInv
  <1>2. QED
    BY InitIInv, <1>1, PTL DEF Spec

(* Types.                                                                  *)
THEOREM TypeCorrect == Spec => []TypeOK
  <1>1. IInv => TypeOK
    BY DEF IInv
  <1>2. QED
    BY Invariant, <1>1, PTL

(* The target gets the deliveries in the order in which the client has     *)
(* first received them, each once and none left out.                       *)
THEOREM PostsInOrder == Spec => []RelayedAsReceived
  <1>1. IInv => RelayedAsReceived
    BY DEF IInv
  <1>2. QED
    BY Invariant, <1>1, PTL

-----------------------------------------------------------------------------
(* The promise of RelayQueue                                               *)

LEMMA InitMaps == Init => Queue!Init
  BY DEF Init, Queue!Init

(* The goroutine of main takes in what is new; the relay goroutine posts   *)
(* the first event that it has not tried; nobody else touches either list. *)
LEMMA StepMaps ==
  ASSUME IInv, [Next]_vars
  PROVE  [Queue!Next]_(Queue!vars)
  <1>1. CASE StoreReceived
    <2>1. tried' = tried
      BY <1>1 DEF StoreReceived
    <2>2. CASE cached' = cached
      BY <2>1, <2>2 DEF Queue!vars
    <2>3. CASE cached' # cached
      <3>1. /\ inbox # <<>> /\ ~Has(cached, Head(inbox))
            /\ cached' = Append(cached, Head(inbox))
        BY <1>1, <2>3 DEF StoreReceived
      <3>2. Head(inbox) \in Ids
        BY <3>1 DEF IInv, TypeOK, Message
      <3>3. Queue!Receive(Head(inbox))
        BY <2>1, <3>1 DEF Queue!Receive, Has, Places
      <3>4. QED
        BY <3>2, <3>3 DEF Queue!Next
    <2>4. QED
      BY <2>2, <2>3
  <1>2. CASE RelayPost
    <2>1. /\ relayAt = Len(tried) + 1 /\ relayAt <= relayEnd
          /\ relayEnd \in 0 .. Len(cached)
      BY <1>2 DEF IInv, TypeOK, PlaceInv, RelayPost
    <2>2. Len(tried) \in Nat /\ Len(cached) \in Nat
      BY DEF IInv, TypeOK
    <2>3. Queue!Post
      BY <1>2, <2>1, <2>2 DEF RelayPost, Queue!Post
    <2>4. QED
      BY <2>3 DEF Queue!Next
  <1>3. CASE UNCHANGED <<cached, tried>>
    BY <1>3 DEF Queue!vars
  <1>4. QED
    BY <1>1, <1>2, <1>3
    DEF Next, SessionStep, Fetch, FetchFails, NextRound, Select, Receive,
        ReceiveEnd, ReceiveFails, Leave, LoopStep, CheckError, CheckAgain,
        Renew, Wake, RelayStep, RelayStart, RelayTick, RelayScan,
        RelayPushFails, RelayMark, RelayStop, Environment, ServerSends,
        ServerEnds, StreamBreaks, Signal, Exited, vars

(* Over any sessions and with any repetitions of the server, the client is *)
(* a queue to its target (cmd/client/main.go, relay.go).                   *)
THEOREM ClientImplementsRelayQueue == Spec => ImplementsRelayQueue
  <1>1. IInv /\ [Next]_vars => [Queue!Next]_(Queue!vars)
    BY StepMaps
  <1>2. QED
    BY <1>1, InitMaps, Invariant, PTL
    DEF Spec, ImplementsRelayQueue, Queue!Spec

-----------------------------------------------------------------------------
(* Signals                                                                 *)

(* Main looks at its context twice before it replaces it: a signal that    *)
(* has come by the second look ends the client's calls for good            *)
(* (cmd/client/main.go:142-144).                                           *)
THEOREM NoCallAfterSignalAlways == Spec => NoCallAfterSignal
  <1>1. ASSUME TypeOK, [Next]_vars
        PROVE  [ctx /\ pc # "renewing" =>
                  /\ ctx' /\ pc' # "renewing"
                  /\ stream' = "open" => stream = "open"]_vars
    <2> SUFFICES ASSUME ctx, pc # "renewing"
                 PROVE  /\ ctx' /\ pc' # "renewing"
                        /\ stream' = "open" => stream = "open"
      OBVIOUS
    <2> USE DEF ctxVars, sessionVars
    <2>1. CASE SessionStep
      BY <2>1
      DEF SessionStep, Fetch, FetchFails, NextRound, Select, Receive,
          ReceiveEnd, ReceiveFails, StoreReceived, Leave
    <2>2. CASE LoopStep
      BY <2>2 DEF LoopStep, CheckError, CheckAgain, Renew, Wake
    <2>3. CASE RelayStep
      BY <2>3
      DEF RelayStep, RelayStart, RelayTick, RelayScan, RelayPost,
          RelayPushFails, RelayMark, RelayStop
    <2>4. CASE Environment
      BY <2>4 DEF Environment, ServerSends, ServerEnds, StreamBreaks, Signal
    <2>5. CASE UNCHANGED vars
      BY <2>5 DEF vars
    <2>6. QED
      BY <1>1, <2>1, <2>2, <2>3, <2>4, <2>5 DEF Next, Exited
  <1>2. QED
    BY <1>1, TypeCorrect, PTL DEF Spec, NoCallAfterSignal
=============================================================================
