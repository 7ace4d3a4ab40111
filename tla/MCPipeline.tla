----------------------------- MODULE MCPipeline -----------------------------
(* A delivery of GitHub with an id and a header without a value, and one   *)
(* that another server pushes and that has no id.                          *)
EXTENDS Pipeline, TLC

CONSTANTS d1, d2

Posted ==
  d1 :> ("X-Github-Delivery" :> <<"1", "x">> @@ "X-Github-Event" :> <<"">>)
    @@ d2 :> ("X-Github-Event" :> <<"ping">>)
=============================================================================
