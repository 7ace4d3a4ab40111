------------------------------- MODULE MCServer -------------------------------
(* Streams are interchangeable, and so are delivery ids and the entries of *)
(* -repositories, which all name the same repository.                      *)
EXTENDS Server, TLC

CONSTANT r1

OnlyR1 == [n \in Entries |-> r1]

Symmetry ==
  Permutations(Streams) \cup Permutations(Ids) \cup Permutations(Entries)

(* No step and, in the run that uses this view, no property depends on     *)
(* which of the posts were answered.                                       *)
AllButPosted ==
  <<storeVars, streamVars, relayVars, cleanVars, mainVars, setVars, accepted,
    sent, attempted, attemptedBy>>
===============================================================================
