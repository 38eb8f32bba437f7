------------------------------ MODULE RpcContract ------------------------------
(***************************************************************************)
(* What a unary rpc of helloworld.proto promises, with no server in it.    *)
(* A request is sent, taken by the server once, and answered once; the     *)
(* answer may not precede the completion of any of the downstream calls    *)
(* the request fans out to.  FanoutService implements it (service_0 and    *)
(* service_1), and each tier of ThreeTier does while no process dies.      *)
(***************************************************************************)
EXTENDS Integers

CONSTANTS Req,   (* the requests clients may send                          *)
          Rpcs   (* the ids of the downstream calls one request fans out to *)

VARIABLES rq,    (* how far a request has come                             *)
          done   (* the downstream calls of a request that have completed  *)

vars == <<rq, done>>

Stage == {"unsent", "sent", "accepted", "replied"}

TypeOK == /\ rq   \in [Req -> Stage]
          /\ done \in [Req -> SUBSET Rpcs]

Init == /\ rq   = [q \in Req |-> "unsent"]
        /\ done = [q \in Req |-> {}]

Send(q) == /\ rq[q] = "unsent"
           /\ rq' = [rq EXCEPT ![q] = "sent"]
           /\ UNCHANGED done

Accept(q) == /\ rq[q] = "sent"
             /\ rq' = [rq EXCEPT ![q] = "accepted"]
             /\ UNCHANGED done

Complete(q, r) == /\ rq[q] = "accepted"
                  /\ r \notin done[q]
                  /\ done' = [done EXCEPT ![q] = @ \cup {r}]
                  /\ UNCHANGED rq

Reply(q) == /\ rq[q] = "accepted"
            /\ done[q] = Rpcs
            /\ rq' = [rq EXCEPT ![q] = "replied"]
            /\ UNCHANGED done

Next == \E q \in Req : \/ Send(q)
                       \/ Accept(q)
                       \/ Reply(q)
                       \/ \E r \in Rpcs : Complete(q, r)

Spec == Init /\ [][Next]_vars
================================================================================
