------------------------------- MODULE MCClient -------------------------------
(* A server with two deliveries: its responses hold none of them, one, or  *)
(* both in either order.                                                   *)
EXTENDS Client, TLC

CONSTANTS i1, i2

TwoDeliveries == {<<>>, <<i1>>, <<i2>>, <<i1, i2>>, <<i2, i1>>}
=============================================================================
