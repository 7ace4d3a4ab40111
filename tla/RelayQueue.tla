------------------------------ MODULE RelayQueue ------------------------------
(***************************************************************************)
(* What a client is between the server and its target: a queue that takes  *)
(* each delivery in once, however often the server sends it, and hands     *)
(* them to the target one at a time, in the order in which they came in.   *)
(* Nothing is taken out of it: it remembers all it has ever received.      *)
(***************************************************************************)
EXTENDS Naturals, Sequences

CONSTANT Ids

VARIABLES
  received,  (* the deliveries taken in, the first one first               *)
  posted     (* those that were handed to the target, in that order        *)

vars == <<received, posted>>

Init == received = <<>> /\ posted = <<>>

Receive(i) ==
  /\ \A k \in 1 .. Len(received) : received[k] # i
  /\ received' = Append(received, i)
  /\ UNCHANGED posted

Post ==
  /\ Len(posted) < Len(received)
  /\ posted' = Append(posted, received[Len(posted) + 1])
  /\ UNCHANGED received

Next == (\E i \in Ids : Receive(i)) \/ Post

Spec == Init /\ [][Next]_vars
===============================================================================
