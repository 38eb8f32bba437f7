-------------------------------- MODULE MCLeaf --------------------------------
(* LeafService on a few numbered heap blocks and requests, which are         *)
(* interchangeable and used in the order of their numbers: a CONSTRAINT of   *)
(* the runs, which leaves every fair action a way to be taken.  There is one *)
(* block per request, one for the last listener and one for a reply's tag    *)
(* that is taken too early.                                                  *)
EXTENDS LeafService

InOrder ==
  /\ \A b, c \in Block : b < c /\ mem[b] = "raw" => mem[c] = "raw"
  /\ \A p, q \in Req   : p < q /\ rq[p] = "unsent" => rq[q] = "unsent"
=============================================================================
