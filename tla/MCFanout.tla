------------------------------- MODULE MCFanout -------------------------------
(* FanoutService on a few numbered heap blocks and requests.  Fresh blocks   *)
(* are interchangeable, and so are requests: they are used in the order of   *)
(* their numbers, which is a CONSTRAINT of the runs.  It leaves every fair   *)
(* action a way to be taken, so that, unlike a symmetry set, it is sound for *)
(* liveness properties too.  A freed block that is reused may be any.        *)
EXTENDS FanoutService

InOrder ==
  /\ \A b, c \in Block : b < c /\ mem[b] = "raw" => mem[c] = "raw"
  /\ \A p, q \in Req   : p < q /\ rq[p] = "unsent" => rq[q] = "unsent"
=============================================================================
