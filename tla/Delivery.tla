------------------------------- MODULE Delivery -------------------------------
(***************************************************************************)
(* What is promised about a delivery that somebody was told is accepted:   *)
(* it waits until it is tried, and nothing makes it stop waiting but that  *)
(* or a fault that touches it.  Nothing is tried that nobody has sent.     *)
(* Where it waits is left open, and so is what it is to try it: for the    *)
(* server to hand it to a client or its relay target (Server), for both    *)
(* processes together to post it to the client's target (Pipeline).        *)
(***************************************************************************)
CONSTANT Deliveries

VARIABLES
  accepted,  (* deliveries whose sender was told that they are accepted    *)
  pending,   (* those still on their way                                   *)
  tried,     (* those that have been tried                                 *)
  touched    (* those that a fault has touched, on their way or not        *)

vars == <<accepted, pending, tried, touched>>

Init == accepted = {} /\ pending = {} /\ tried = {} /\ touched = {}

Accept(d) ==
  /\ accepted' = accepted \cup {d}
  /\ pending' = pending \cup ({d} \ tried)
  /\ UNCHANGED <<tried, touched>>

(* The sender is told that it is accepted, and it is not taken in.         *)
Misplace(d) ==
  /\ accepted' = accepted \cup {d}
  /\ touched' = touched \cup {d}
  /\ UNCHANGED <<pending, tried>>

(* Several are tried with one message.                                     *)
Try(S) ==
  /\ S \subseteq pending
  /\ tried' = tried \cup S
  /\ pending' = pending \ S
  /\ UNCHANGED <<accepted, touched>>

(* A fault, or its late consequence: what goes is what was touched, and    *)
(* what was touched may turn up again.                                     *)
Disturb(S) ==
  /\ touched' = touched \cup S
  /\ pending' \in SUBSET ((pending \cup touched') \ tried)
  /\ pending \ pending' \subseteq touched'
  /\ UNCHANGED <<accepted, tried>>

Next ==
  \/ \E d \in Deliveries : Accept(d) \/ Misplace(d)
  \/ \E S \in SUBSET pending : Try(S)
  \/ \E S \in SUBSET accepted : Disturb(S)

Spec == Init /\ [][Next]_vars
=============================================================================
